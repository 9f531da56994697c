---------------------------- MODULE DaemonProofs ----------------------------
(***************************************************************************)
(* Proofs about Catalog.tla, for any processes, ids, files, contents and   *)
(* registry, and then about Daemon.tla: a daemon that listens is the one a *)
(* client reaches, and starting, stopping and dying daemons are nothing    *)
(* that the catalog's own proofs have not covered, so that those hold of   *)
(* daemons too.                                                            *)
(***************************************************************************)
EXTENDS Daemon, TLAPS

Copying == {"copy", "verify", "publish"}

\* An operation that pulls works from the registry's pins; a checked source has the
\* inventory its pins ask for; what is about to be published was read back.
Honest(o) ==
    /\ o.at \in Copying \cup {"download"} => o.id \in Ids
    /\ o.at \in Copying \cup {"download"} /\ o.pulling => o.id \in DOMAIN Pins /\ o.pins = Pins[o.id]
    /\ o.at = "download" => o.pulling
    /\ o.at \in {"verify", "publish"} => o.pins \in {NoFiles, o.inventory}
    /\ o.at \in {"verify", "publish"} => DOMAIN o.inventory # {}
    /\ o.at = "publish" => o.copy = o.inventory

\* Every operation is honest, and the manifest of a pulled package is the registry's.
Operations == \A p \in Processes : Honest(op[p])
PulledIsListed ==
    \A id \in DOMAIN store : store[id].pulled => id \in DOMAIN Pins /\ store[id].listed = Pins[id]

IndInv == TypeOK /\ OneOwner /\ LoadedStaysPublished /\ Operations /\ PulledIsListed

OpType == [at : Stages, id : Ids \cup {Nobody}, pulling : BOOLEAN, pins : Packages,
           todo : SUBSET Files, stage : Packages, copy : Packages, inventory : Packages]
EntryType == [files : Packages, listed : Packages, pulled : BOOLEAN]

-----------------------------------------------------------------------------
\* Writing a file leaves a package a package (FileDevice writes in download, hashFile).
LEMMA PutIsPackage ==
    ASSUME NEW package \in Packages, NEW f \in Files, NEW content \in Contents \cup {Torn}
    PROVE  Put(package, f, content) \in Packages
<1>1. PICK paths \in SUBSET Files : package \in [paths -> Contents \cup {Torn}]
  BY DEF Packages
<1>2. paths \cup {f} \in SUBSET Files
  BY <1>1
<1>3. Put(package, f, content) \in [paths \cup {f} -> Contents \cup {Torn}]
  BY <1>1 DEF Put
<1> QED
  BY <1>2, <1>3 DEF Packages

\* So does a file that rots.
LEMMA RottenIsPackage ==
    ASSUME NEW package \in Packages, NEW f \in DOMAIN package
    PROVE  [package EXCEPT ![f] = Torn] \in Packages
<1>1. PICK paths \in SUBSET Files : package \in [paths -> Contents \cup {Torn}]
  BY DEF Packages
<1>2. [package EXCEPT ![f] = Torn] \in [paths -> Contents \cup {Torn}]
  BY <1>1
<1> QED
  BY <1>1, <1>2 DEF Packages

\* The empty package, and the paths of any package.
LEMMA PackageFacts ==
    /\ NoFiles \in Packages
    /\ DOMAIN NoFiles = {}
    /\ \A package \in Packages : DOMAIN package \subseteq Files
<1>1. NoFiles \in [{} -> Contents \cup {Torn}]
  BY DEF NoFiles
<1>2. {} \in SUBSET Files
  OBVIOUS
<1>3. NoFiles \in Packages
  BY <1>1, <1>2 DEF Packages
<1>4. ASSUME NEW package \in Packages PROVE DOMAIN package \subseteq Files
  <2>1. PICK paths \in SUBSET Files : package \in [paths -> Contents \cup {Torn}]
    BY DEF Packages
  <2> QED
    BY <2>1
<1> QED
  BY <1>3, <1>4 DEF NoFiles

\* A process at rest has an operation like any other.
LEMMA RestingIsHonest == Resting \in OpType /\ Honest(Resting) /\ Resting.at = "rest"
  BY PackageFacts DEF Resting, OpType, Honest, Stages, Copying

-----------------------------------------------------------------------------
\* A step that changes the operation of one owner, and neither store nor models.
LEMMA OwnerSteps ==
    ASSUME IndInv, NEW p \in Processes, NEW o \in OpType, Honest(o),
           Step(p, o), lock' = p, lock \in {Nobody, p}, UNCHANGED <<store, loaded>>
    PROVE  IndInv'
<1>1. TypeOK'
  BY DEF IndInv, TypeOK, Step, OpType
<1>2. \A q \in Processes : q # p => op[q].at = "rest" /\ loaded[q] = {}
  BY CatalogAssumption DEF IndInv, OneOwner
<1>3. OneOwner'
  BY <1>2 DEF OneOwner, IndInv, TypeOK, Step
<1>4. LoadedStaysPublished' /\ PulledIsListed'
  BY DEF IndInv, LoadedStaysPublished, PulledIsListed
<1>5. Operations'
  BY DEF IndInv, TypeOK, Operations, Step
<1> QED
  BY <1>1, <1>3, <1>4, <1>5 DEF IndInv

\* Who is at an operation holds the lock.
LEMMA BusyIsOwner ==
    ASSUME IndInv, NEW p \in Processes, op[p].at # "rest"
    PROVE  lock = p /\ op[p] \in OpType /\ Honest(op[p])
  BY DEF IndInv, OneOwner, TypeOK, OpType, Operations

\* The invariant holds of an empty directory and a set of processes at rest ...
LEMMA InvariantHoldsFirst == Init => IndInv
<1> SUFFICES ASSUME Init PROVE IndInv
  OBVIOUS
<1>1. TypeOK /\ Operations
  BY RestingIsHonest DEF Init, TypeOK, Operations, OpType
<1>2. OneOwner /\ LoadedStaysPublished /\ PulledIsListed
  BY RestingIsHonest DEF Init, OneOwner, LoadedStaysPublished, PulledIsListed
<1> QED
  BY <1>1, <1>2 DEF IndInv

\* ... and every step of install(), pull(), load(), remove() and of the world keeps it.
LEMMA InvariantIsKept == IndInv /\ [Next]_vars => IndInv'
<1> SUFFICES ASSUME IndInv, [Next]_vars PROVE IndInv'
  OBVIOUS
<1>1. ASSUME NEW p \in Processes, NEW id \in Ids, PullBegin(p, id) PROVE IndInv'
  <2> DEFINE o == [Resting EXCEPT !.at = "download", !.id = id, !.pulling = TRUE,
                                  !.pins = Pins[id], !.todo = DOMAIN Pins[id]]
  <2>1. o \in OpType
    BY <1>1, PackageFacts, CatalogAssumption DEF PullBegin, Resting, OpType, Stages
  <2>2. Honest(o)
    BY <1>1 DEF PullBegin, Resting, Honest, Copying
  <2> QED
    BY <1>1, <2>1, <2>2, OwnerSteps DEF PullBegin, Own
<1>2. ASSUME NEW p \in Processes, NEW id \in Ids, NEW paths \in SUBSET Files,
             NEW pins \in Inventories, InstallBegin(p, id, paths, pins)
      PROVE  IndInv'
  <2> DEFINE o == [Resting EXCEPT !.at = "copy", !.id = id, !.pins = pins, !.todo = paths]
  <2>1. o \in OpType
    BY PackageFacts, CatalogAssumption DEF Resting, OpType, Stages
  <2>2. Honest(o)
    BY DEF Resting, Honest, Copying
  <2> QED
    BY <1>2, <2>1, <2>2, OwnerSteps DEF InstallBegin, Own
<1>3. ASSUME NEW p \in Processes, NEW f \in Files, NEW written \in Contents \cup {Torn},
             Download(p, f, written)
      PROVE  IndInv'
  <2> DEFINE o == [op[p] EXCEPT !.todo = @ \ {f}, !.stage = Put(@, f, written)]
  <2>1. lock = p /\ op[p] \in OpType /\ Honest(op[p])
    BY <1>3, BusyIsOwner DEF Download, At
  <2>2. Put(op[p].stage, f, written) \in Packages
    BY <2>1, PutIsPackage DEF OpType
  <2>3. o \in OpType
    BY <2>1, <2>2 DEF OpType
  <2>4. Honest(o)
    BY <2>1 DEF Honest, OpType
  <2> QED
    BY <1>3, <2>1, <2>3, <2>4, OwnerSteps DEF Download
<1>4. ASSUME NEW p \in Processes, Downloaded(p) PROVE IndInv'
  <2> DEFINE o == [op[p] EXCEPT !.at = "copy", !.todo = DOMAIN op[p].stage]
  <2>1. lock = p /\ op[p] \in OpType /\ Honest(op[p])
    BY <1>4, BusyIsOwner DEF Downloaded, At
  <2>2. o \in OpType
    BY <2>1, PackageFacts DEF OpType, Stages
  <2>3. Honest(o)
    BY <1>4, <2>1 DEF Honest, OpType, Downloaded, At, Copying
  <2> QED
    BY <1>4, <2>1, <2>2, <2>3, OwnerSteps DEF Downloaded
<1>5. ASSUME NEW p \in Processes, NEW f \in Files, NEW read \in Contents \cup {Torn},
             NEW written \in Contents \cup {Torn}, CopyFile(p, f, read, written)
      PROVE  IndInv'
  <2> DEFINE o == [op[p] EXCEPT !.todo = @ \ {f}, !.copy = Put(@, f, written),
                                !.inventory = Put(@, f, read)]
  <2>1. lock = p /\ op[p] \in OpType /\ Honest(op[p])
    BY <1>5, BusyIsOwner DEF CopyFile, At
  <2>2. Put(op[p].copy, f, written) \in Packages /\ Put(op[p].inventory, f, read) \in Packages
    BY <2>1, PutIsPackage DEF OpType
  <2>3. o \in OpType
    BY <2>1, <2>2 DEF OpType
  <2>4. Honest(o)
    BY <1>5, <2>1 DEF Honest, OpType, CopyFile, At
  <2> QED
    BY <1>5, <2>1, <2>3, <2>4, OwnerSteps DEF CopyFile
<1>6. ASSUME NEW p \in Processes, SourceChecked(p) PROVE IndInv'
  <2> DEFINE o == [op[p] EXCEPT !.at = "verify"]
  <2>1. lock = p /\ op[p] \in OpType /\ Honest(op[p])
    BY <1>6, BusyIsOwner DEF SourceChecked, At
  <2>2. o \in OpType
    BY <2>1 DEF OpType, Stages
  <2>3. Honest(o)
    BY <1>6, <2>1 DEF Honest, OpType, SourceChecked, At, Copying
  <2> QED
    BY <1>6, <2>1, <2>2, <2>3, OwnerSteps DEF SourceChecked
<1>7. ASSUME NEW p \in Processes, CopyVerified(p) PROVE IndInv'
  <2> DEFINE o == [op[p] EXCEPT !.at = "publish"]
  <2>1. lock = p /\ op[p] \in OpType /\ Honest(op[p])
    BY <1>7, BusyIsOwner DEF CopyVerified, At
  <2>2. o \in OpType
    BY <2>1 DEF OpType, Stages
  <2>3. Honest(o)
    BY <1>7, <2>1 DEF Honest, OpType, CopyVerified, At, Copying
  <2> QED
    BY <1>7, <2>1, <2>2, <2>3, OwnerSteps DEF CopyVerified
<1>8. ASSUME NEW p \in Processes, Discard(p) \/ Fail(p) PROVE IndInv'
  <2>1. lock = p
    BY <1>8, BusyIsOwner DEF Discard, Fail, At
  <2> QED
    BY <1>8, <2>1, RestingIsHonest, OwnerSteps DEF Discard, Fail
<1>9. ASSUME NEW p \in Processes, Publish(p) PROVE IndInv'
  <2>1. lock = p /\ op[p] \in OpType /\ Honest(op[p]) /\ op[p].at = "publish"
    BY <1>9, BusyIsOwner DEF Publish, At
  <2> DEFINE entry == [files |-> op[p].copy, listed |-> op[p].inventory, pulled |-> op[p].pulling]
  <2>2. /\ DOMAIN store' = DOMAIN store \cup {op[p].id}
        /\ store'[op[p].id] = entry
        /\ \A id \in DOMAIN store : store'[id] = store[id]
    BY <1>9 DEF Publish
  <2>3. op[p].id \in Ids
    BY <2>1 DEF Honest, Copying
  <2>4. entry \in EntryType
    BY <2>1 DEF EntryType, OpType
  <2>5. TypeOK'
    BY <1>9, <2>2, <2>3, <2>4, RestingIsHonest
       DEF IndInv, TypeOK, Publish, Step, OpType, EntryType
  <2>6. OneOwner'
    BY <1>9, RestingIsHonest DEF IndInv, TypeOK, OneOwner, Publish, Step
  <2>7. LoadedStaysPublished'
    BY <1>9, <2>2 DEF IndInv, LoadedStaysPublished, Publish
  <2>8. Operations'
    BY <1>9, RestingIsHonest DEF IndInv, TypeOK, Operations, Publish, Step
  <2>9. op[p].pulling => op[p].id \in DOMAIN Pins /\ op[p].inventory = Pins[op[p].id]
    BY <2>1, PackageFacts, CatalogAssumption DEF Honest, Copying
  <2>10. PulledIsListed'
    BY <2>2, <2>9 DEF IndInv, PulledIsListed
  <2> QED
    BY <2>5, <2>6, <2>7, <2>8, <2>10 DEF IndInv
<1>10. ASSUME NEW p \in Processes, NEW id \in Ids, Load(p, id) PROVE IndInv'
  <2>1. \A q \in Processes : q # p => op[q].at = "rest" /\ loaded[q] = {}
    BY <1>10, CatalogAssumption DEF IndInv, OneOwner, Load, Own
  <2> QED
    BY <1>10, <2>1 DEF IndInv, TypeOK, OneOwner, LoadedStaysPublished, Operations,
                       PulledIsListed, Load, Own, At
<1>11. ASSUME NEW p \in Processes, NEW id \in Ids, Unload(p, id) PROVE IndInv'
  BY <1>11 DEF IndInv, TypeOK, OneOwner, LoadedStaysPublished, Operations, PulledIsListed, Unload
<1>12. ASSUME NEW p \in Processes, NEW id \in Ids, Detach(p, id) PROVE IndInv'
  <2> DEFINE o == [Resting EXCEPT !.at = "detached"]
  <2>1. o \in OpType /\ Honest(o)
    BY PackageFacts DEF Resting, OpType, Stages, Honest, Copying
  <2>2. \A q \in Processes : q # p => op[q].at = "rest" /\ loaded[q] = {}
    BY <1>12, CatalogAssumption DEF IndInv, OneOwner, Detach, Own
  <2>3. /\ DOMAIN store' = DOMAIN store \ {id}
        /\ \A x \in DOMAIN store' : store'[x] = store[x]
    BY <1>12 DEF Detach
  <2>4. TypeOK'
    BY <1>12, <2>1, <2>3 DEF IndInv, TypeOK, Detach, Own, Step, OpType
  <2>5. OneOwner'
    BY <1>12, <2>2 DEF IndInv, TypeOK, OneOwner, Detach, Own, Step
  <2>6. LoadedStaysPublished' /\ PulledIsListed'
    BY <1>12, <2>2, <2>3 DEF IndInv, LoadedStaysPublished, PulledIsListed, Detach,
                     Removable
  <2>7. Operations'
    BY <1>12, <2>1 DEF IndInv, TypeOK, Operations, Detach, Step
  <2> QED
    BY <2>4, <2>5, <2>6, <2>7 DEF IndInv
<1>13. ASSUME NEW p \in Processes, Crash(p) PROVE IndInv'
  <2>1. \A q \in Processes : q # p => op[q].at = "rest" /\ loaded[q] = {}
    BY <1>13, CatalogAssumption DEF IndInv, OneOwner, Crash
  <2>2. TypeOK' /\ Operations'
    BY <1>13, RestingIsHonest DEF IndInv, TypeOK, Operations, Crash, Step, OpType
  <2>3. OneOwner' /\ LoadedStaysPublished' /\ PulledIsListed'
    BY <1>13, <2>1, RestingIsHonest
       DEF IndInv, TypeOK, OneOwner, LoadedStaysPublished, PulledIsListed, Crash, Step
  <2> QED
    BY <2>2, <2>3 DEF IndInv
<1>14. ASSUME NEW id \in Ids, NEW f \in Files, Rot(id, f) PROVE IndInv'
  <2>1. [store[id].files EXCEPT ![f] = Torn] \in Packages
    BY <1>14, RottenIsPackage DEF IndInv, TypeOK, Rot
  <2>2. /\ DOMAIN store' = DOMAIN store
        /\ \A x \in DOMAIN store : x # id => store'[x] = store[x]
        /\ store'[id] = [store[id] EXCEPT !.files = [store[id].files EXCEPT ![f] = Torn]]
    BY <1>14 DEF Rot
  <2>3. /\ store'[id] \in EntryType
        /\ store'[id].listed = store[id].listed /\ store'[id].pulled = store[id].pulled
    BY <1>14, <2>1, <2>2 DEF IndInv, TypeOK, EntryType, Rot
  <2>4. TypeOK'
    BY <1>14, <2>2, <2>3 DEF IndInv, TypeOK, EntryType, Rot
  <2>5. OneOwner' /\ Operations'
    BY <1>14 DEF IndInv, OneOwner, Operations, Rot
  <2>6. LoadedStaysPublished' /\ PulledIsListed'
    BY <1>14, <2>2, <2>3 DEF IndInv, LoadedStaysPublished, PulledIsListed, Rot
  <2> QED
    BY <2>4, <2>5, <2>6 DEF IndInv
<1>15. CASE UNCHANGED vars
  BY <1>15 DEF vars, IndInv, TypeOK, OneOwner, LoadedStaysPublished, Operations, PulledIsListed
<1> QED
  BY <1>1, <1>2, <1>3, <1>4, <1>5, <1>6, <1>7, <1>8, <1>9, <1>10, <1>11, <1>12, <1>13, <1>14,
     <1>15 DEF Next

-----------------------------------------------------------------------------
\* The inductive invariant holds in every state.
THEOREM CatalogInvariant == Spec => []IndInv
  BY InvariantHoldsFirst, InvariantIsKept, PTL DEF Spec

\* Every variable has its type.
THEOREM CatalogTypes == Spec => []TypeOK
  BY CatalogInvariant, PTL DEF IndInv

\* own() keeps every other process out while one works or has a model in memory, however
\* many processes die and start again.
THEOREM DirectoryHasOneOwner == Spec => []OneOwner
  BY CatalogInvariant, PTL DEF IndInv

\* remove() by whichever process never takes a loaded model's directory away.
THEOREM LoadedStays == Spec => []LoadedStaysPublished
  BY CatalogInvariant, PTL DEF IndInv

\* install() publishes whole packages only.
THEOREM PackagesAppearWhole == Spec => PublishedWhole
<1> DEFINE Whole == \A id \in DOMAIN store' \ DOMAIN store :
                        /\ store'[id].files = store'[id].listed
                        /\ DOMAIN store'[id].listed # {}
<1>1. ASSUME IndInv, [Next]_vars PROVE [Whole]_vars
  <2>1. ASSUME NEW p \in Processes, Publish(p) PROVE Whole
    <3>1. Honest(op[p])
      BY <1>1 DEF IndInv, Operations
    <3> QED
      BY <2>1, <3>1 DEF Publish, At, Honest
  <2>2. ASSUME NEW p \in Processes, NEW id \in Ids, Detach(p, id) PROVE Whole
    BY <2>2 DEF Detach
  <2>3. ASSUME NEW id \in Ids, NEW f \in Files, Rot(id, f) PROVE Whole
    BY <2>3 DEF Rot
  <2>4. CASE UNCHANGED store
    BY <2>4
  <2>5. CASE \/ \E p \in Processes, id \in Ids :
                    PullBegin(p, id) \/ Load(p, id) \/ Unload(p, id)
             \/ \E p \in Processes, id \in Ids, paths \in SUBSET Files, pins \in Inventories :
                    InstallBegin(p, id, paths, pins)
             \/ \E p \in Processes, f \in Files, written \in Contents \cup {Torn} :
                    Download(p, f, written)
             \/ \E p \in Processes, f \in Files, read, written \in Contents \cup {Torn} :
                    CopyFile(p, f, read, written)
             \/ \E p \in Processes : \/ Downloaded(p) \/ SourceChecked(p) \/ CopyVerified(p)
                                     \/ Discard(p) \/ Fail(p) \/ Crash(p)
    BY <2>4, <2>5 DEF PullBegin, Load, Unload, InstallBegin, Download, CopyFile, Downloaded,
                      SourceChecked, CopyVerified, Discard, Fail, Crash
  <2> HIDE DEF Whole
  <2> QED
    BY <1>1, <2>1, <2>2, <2>3, <2>4, <2>5 DEF Next, vars
<1> QED
  BY <1>1, CatalogInvariant, PTL DEF Spec, PublishedWhole

\* Whatever happened since, load() hands the engine the registry's files of a pulled model.
THEOREM PinnedReachesEngine == Spec => EngineGetsThePinned
<1> DEFINE Pinned == \A p \in Processes : \A id \in loaded'[p] \ loaded[p] :
                         store[id].pulled => store[id].files = Pins[id]
<1>1. ASSUME IndInv, [Next]_vars PROVE [Pinned]_vars
  <2>1. ASSUME NEW p \in Processes, NEW id \in Ids, Load(p, id) PROVE Pinned
    <3>1. store[id].pulled => store[id].listed = Pins[id]
      BY <1>1, <2>1 DEF IndInv, PulledIsListed, Load
    <3> QED
      BY <1>1, <2>1, <3>1 DEF Load, Intact, IndInv, TypeOK
  <2>2. ASSUME NEW p \in Processes, Crash(p) \/ \E id \in Ids : Unload(p, id) PROVE Pinned
    BY <1>1, <2>2 DEF Crash, Unload, IndInv, TypeOK
  <2>3. CASE UNCHANGED loaded
    BY <2>3
  <2>4. CASE \/ \E p \in Processes, id \in Ids : PullBegin(p, id) \/ Detach(p, id)
             \/ \E p \in Processes, id \in Ids, paths \in SUBSET Files, pins \in Inventories :
                    InstallBegin(p, id, paths, pins)
             \/ \E p \in Processes, f \in Files, written \in Contents \cup {Torn} :
                    Download(p, f, written)
             \/ \E p \in Processes, f \in Files, read, written \in Contents \cup {Torn} :
                    CopyFile(p, f, read, written)
             \/ \E p \in Processes : \/ Downloaded(p) \/ SourceChecked(p) \/ CopyVerified(p)
                                     \/ Publish(p) \/ Discard(p) \/ Fail(p)
             \/ \E id \in Ids, f \in Files : Rot(id, f)
    BY <2>3, <2>4 DEF PullBegin, Detach, InstallBegin, Download, CopyFile, Downloaded,
                      SourceChecked, CopyVerified, Publish, Discard, Fail, Rot
  <2> HIDE DEF Pinned
  <2> QED
    BY <1>1, <2>1, <2>2, <2>3, <2>4 DEF Next, vars
<1> QED
  BY <1>1, CatalogInvariant, PTL DEF Spec, EngineGetsThePinned

-----------------------------------------------------------------------------
(***************************************************************************)
(* The daemon and its endpoint.                                            *)
(***************************************************************************)
AllStages == {"off", "up", "locked", "checked", "bound", "serving", "closing", "unlocking", "closed"}

StageType ==
    /\ stage \in [Processes -> AllStages]
    /\ socket \in Processes \cup {Nobody, Leftover}
    /\ endpointLock \in Processes \cup {Nobody, Leftover}

\* The lock's owner, and when a daemon has to be it, may be it and cannot be it.
LockRules ==
    \A p \in Processes :
        /\ stage[p] \in {"locked", "checked", "bound"} => endpointLock = p
        /\ stage[p] \in {"off", "up", "closed"} => endpointLock # p

\* The socket at the path is the lock owner's, from its bind to its close.
SocketRules ==
    \A p \in Processes :
        /\ stage[p] = "bound" => socket = p
        /\ stage[p] \in {"serving", "closing"} /\ endpointLock = p => socket = p
        /\ socket = p => stage[p] \in {"bound", "serving", "closing"} /\ endpointLock = p

EndpointInv == StageType /\ LockRules /\ SocketRules

-----------------------------------------------------------------------------
LEMMA Strangers ==
    /\ \A p \in Processes : p # Nobody /\ p # Leftover
    /\ Nobody # Leftover
  BY CatalogAssumption, LeftoverAssumption

LEMMA EndpointInit ==
    DaemonInit => EndpointInv
  BY Strangers DEF DaemonInit, EndpointInv, StageType, AllStages, LockRules, SocketRules

\* A step of one process that leaves the endpoint alone.
LEMMA EndpointUntouched ==
    ASSUME EndpointInv, NEW p \in Processes, NEW from, NEW to \in AllStages, Go(p, from, to),
           UNCHANGED endpointVars,
           to \in {"locked", "checked", "bound"} => endpointLock = p,
           to \in {"off", "up", "closed"} => endpointLock # p,
           to = "bound" => socket = p,
           to \in {"serving", "closing"} /\ endpointLock = p => socket = p,
           socket = p => to \in {"bound", "serving", "closing"}
    PROVE  EndpointInv'
  BY DEF EndpointInv, StageType, LockRules, SocketRules, Go, endpointVars

LEMMA EndpointStep ==
    ASSUME EndpointInv, [DaemonNext]_allVars
    PROVE  EndpointInv'
<1> USE DEF EndpointInv, StageType, AllStages, endpointVars
<1>1. CASE UNCHANGED daemonVars
  BY <1>1 DEF daemonVars, LockRules, SocketRules
<1>2. CASE CleanUp
  BY <1>2, Strangers DEF CleanUp, LockRules, SocketRules
<1>3. ASSUME NEW p \in Processes,
             Start(p) \/ PathFree(p) \/ Locked(p) \/ Serve(p) \/ ServeHttp(p) \/ Quit(p) \/ Stop(p)
      PROVE  EndpointInv'
  <2>1. CASE Start(p)
    BY <2>1, EndpointUntouched DEF Start, Go, LockRules, SocketRules
  <2>2. CASE PathFree(p)
    BY <2>2, EndpointUntouched, Strangers DEF PathFree, Go, LockRules, SocketRules
  <2>3. CASE Locked(p)
    BY <2>3, EndpointUntouched DEF Locked, Go, LockRules, SocketRules
  <2>4. CASE Serve(p)
    BY <2>4, EndpointUntouched DEF Serve, Go, LockRules, SocketRules
  <2>5. CASE ServeHttp(p)
    BY <2>5, EndpointUntouched DEF ServeHttp, Go, LockRules, SocketRules
  <2>6. CASE Quit(p)
    <3>1. PICK from \in {"serving", "bound", "up"} : Go(p, from, "closing") /\ UNCHANGED endpointVars
      BY <2>6 DEF Quit
    <3>2. stage[p] = from
      BY <3>1 DEF Go
    <3>3. endpointLock = p => socket = p
      BY <3>1, <3>2 DEF LockRules, SocketRules
    <3> QED
      BY <3>1, <3>3, EndpointUntouched
  <2>7. CASE Stop(p)
    BY <2>7, EndpointUntouched DEF Stop, Go, LockRules, SocketRules
  <2> QED
    BY <1>3, <2>1, <2>2, <2>3, <2>4, <2>5, <2>6, <2>7
<1>4. ASSUME NEW p \in Processes, TryLock(p)
      PROVE  EndpointInv'
  <2>1. /\ endpointLock \in {Nobody, Leftover} /\ endpointLock' = p /\ socket' = socket
        /\ stage[p] = "up" /\ stage' = [stage EXCEPT ![p] = "locked"]
    BY <1>4 DEF TryLock, Go
  <2>2. socket \notin Processes
    BY <2>1, Strangers DEF SocketRules
  <2>3. \A q \in Processes : stage[q] \notin {"locked", "checked", "bound"}
    BY <2>1, Strangers DEF LockRules
  <2> QED
    BY <2>1, <2>2, <2>3 DEF LockRules, SocketRules
<1>5. ASSUME NEW p \in Processes, Bind(p)
      PROVE  EndpointInv'
  <2>1. /\ endpointLock = p /\ endpointLock' = p /\ socket' = p
        /\ stage[p] = "checked" /\ stage' = [stage EXCEPT ![p] = "bound"]
    BY <1>5 DEF Bind, Go, LockRules
  <2> QED
    BY <2>1 DEF LockRules, SocketRules
<1>6. ASSUME NEW p \in Processes, ListenFails(p)
      PROVE  EndpointInv'
  <2>1. /\ stage[p] \in {"locked", "checked"} /\ stage' = [stage EXCEPT ![p] = "closed"]
        /\ endpointLock = p /\ endpointLock' = Nobody /\ socket' = socket
    BY <1>6 DEF ListenFails, Go, LockRules
  <2>2. socket \notin Processes
    BY <2>1 DEF SocketRules
  <2> QED
    BY <2>1, <2>2, Strangers DEF LockRules, SocketRules
<1>7. ASSUME NEW p \in Processes, CloseServer(p)
      PROVE  EndpointInv'
  <2>1. /\ stage[p] = "closing" /\ stage' = [stage EXCEPT ![p] = "unlocking"]
        /\ endpointLock' = endpointLock /\ socket' = IF endpointLock = p THEN Nobody ELSE socket
    BY <1>7 DEF CloseServer, Go
  <2>2. CASE endpointLock = p
    BY <2>1, <2>2, Strangers DEF LockRules, SocketRules
  <2>3. CASE endpointLock # p
    BY <2>1, <2>3 DEF LockRules, SocketRules
  <2> QED
    BY <2>2, <2>3
<1>8. ASSUME NEW p \in Processes, Unlock(p)
      PROVE  EndpointInv'
  <2>1. /\ stage[p] = "unlocking" /\ stage' = [stage EXCEPT ![p] = "closed"] /\ socket' = socket
        /\ endpointLock' = IF endpointLock = p THEN Nobody ELSE endpointLock
    BY <1>8 DEF Unlock, Go
  <2>2. socket # p
    BY <2>1 DEF SocketRules
  <2>3. CASE endpointLock = p
    BY <2>1, <2>2, <2>3, Strangers DEF LockRules, SocketRules
  <2>4. CASE endpointLock # p
    BY <2>1, <2>2, <2>4 DEF LockRules, SocketRules
  <2> QED
    BY <2>3, <2>4
<1>9. ASSUME NEW p \in Processes, Die(p)
      PROVE  EndpointInv'
  <2>1. /\ stage' = [stage EXCEPT ![p] = "off"]
        /\ socket' = IF socket = p THEN Leftover ELSE socket
        /\ endpointLock' = IF endpointLock = p THEN Leftover ELSE endpointLock
    BY <1>9 DEF Die
  <2>2. CASE endpointLock = p
    BY <2>1, <2>2, Strangers DEF LockRules, SocketRules
  <2>3. CASE endpointLock # p
    BY <2>1, <2>3, Strangers DEF LockRules, SocketRules
  <2> QED
    BY <2>2, <2>3
<1>10. UNCHANGED allVars \/ CatalogStep => UNCHANGED daemonVars
  BY DEF allVars, CatalogStep, daemonVars
<1> QED
  BY <1>1, <1>2, <1>3, <1>4, <1>5, <1>6, <1>7, <1>8, <1>9, <1>10 DEF DaemonNext

\* Who has the endpoint's lock and whose socket is at the path, in every state.
THEOREM EndpointInvariant ==
    DaemonSpec => []EndpointInv
  BY EndpointInit, EndpointStep, PTL DEF DaemonSpec

\* LocalIpcServer::listen() and close(): a daemon that listens is the one a client reaches,
\* however many start, stop and die on the same path.
THEOREM DaemonIsReached ==
    DaemonSpec => []EndpointIsServed
<1>1. ASSUME EndpointInv PROVE EndpointIsServed
  BY <1>1 DEF EndpointInv, StageType, SocketRules, EndpointIsServed
<1> QED
  BY <1>1, EndpointInvariant, PTL

-----------------------------------------------------------------------------
(* The catalog under daemons.                                              *)

\* To the catalog, a daemon's life is steps of its own: it works, rests, or crashes.
THEOREM DaemonKeepsCatalog ==
    DaemonSpec => Spec
<1>1. DaemonInit => Init
  BY DEF DaemonInit
<1>2. ASSUME [DaemonNext]_allVars PROVE [Next]_vars
  <2>1. CASE CatalogStep \/ CleanUp \/ UNCHANGED allVars
    BY <2>1 DEF CatalogStep, CleanUp, allVars
  <2>2. ASSUME NEW p \in Processes,
               \/ Start(p) \/ TryLock(p) \/ PathFree(p) \/ Bind(p) \/ ListenFails(p) \/ Locked(p)
               \/ Serve(p) \/ ServeHttp(p) \/ Quit(p) \/ CloseServer(p) \/ Unlock(p)
        PROVE  [Next]_vars
    BY <2>2 DEF Start, TryLock, PathFree, Bind, ListenFails, Locked, Serve, ServeHttp, Quit,
                CloseServer, Unlock
  <2>3. ASSUME NEW p \in Processes, Stop(p) \/ Die(p)
        PROVE  [Next]_vars
    <3>1. Crash(p) \/ UNCHANGED vars
      BY <2>3 DEF Stop, Die, GiveUpCatalog
    <3>2. Crash(p) => Next
      BY DEF Next
    <3> QED
      BY <3>1, <3>2
  <2> QED
    BY <1>2, <2>1, <2>2, <2>3 DEF DaemonNext
<1> QED
  BY <1>1, <1>2, PTL DEF DaemonSpec, Spec

\* What Catalog.tla promises about its directory holds of the daemons that share it: one
\* owner, loaded models that stay published, whole packages only, and the registry's files
\* for the engine.
THEOREM DaemonsShareCatalog ==
    DaemonSpec => /\ []OneOwner
                  /\ []LoadedStaysPublished
                  /\ PublishedWhole
                  /\ EngineGetsThePinned
  BY DaemonKeepsCatalog, DirectoryHasOneOwner, LoadedStays, PackagesAppearWhole, PinnedReachesEngine, PTL
=============================================================================
