------------------------------ MODULE Catalog ------------------------------
(***************************************************************************)
(* ModelCatalog and ModelRegistry (src/models, src/service): packages of   *)
(* model files in one directory that several processes may be started on,  *)
(* installed from a local source or pulled from pinned remote files,       *)
(* loaded and removed.                                                     *)
(*                                                                         *)
(* The disk is not trusted: what is written may not be what is read back,  *)
(* a source may be anything and may change while it is copied, published   *)
(* files rot, and a process may die between any two steps.  A hash is the  *)
(* content it was computed from.  Staging and trash directories have names *)
(* that scan() skips, so they are part of the operation that made them and *)
(* an operation that dies leaves nothing anybody looks at.                 *)
(***************************************************************************)
EXTENDS Naturals, FiniteSets

CONSTANTS
    Processes,       \* services started on the same Models directory
    Ids,             \* manifest ids
    Files,           \* relative paths
    Contents,        \* what a file may hold
    Torn,            \* a content nobody meant to write
    Pins,            \* the registry: id -> the files of its manifest
    Inventories,     \* the inventories that manifests of local sources come with
    Nobody           \* the lock file is free

\* The files of a directory, or the inventory of a manifest.
Packages == UNION {[paths -> Contents \cup {Torn}] : paths \in SUBSET Files}

ASSUME CatalogAssumption ==
    /\ Nobody \notin Processes
    /\ Torn \notin Contents
    /\ DOMAIN Pins \subseteq Ids
    /\ \A id \in DOMAIN Pins :
           /\ Pins[id] \in Packages
           /\ DOMAIN Pins[id] # {}
           /\ \A f \in DOMAIN Pins[id] : Pins[id][f] # Torn
    /\ Inventories \subseteq Packages

VARIABLES
    store,     \* published directories: id -> [files, listed, pulled]
    lock,      \* the process that holds .iilocal-llm.lock
    op,        \* op[p]: the operation process p is at, with its locals
    loaded     \* loaded[p]: the models p has in memory, ModelManager::loaded_

vars == <<store, lock, op, loaded>>

NoFiles == [f \in {} |-> Torn]
Resting == [at |-> "rest", id |-> Nobody, pulling |-> FALSE, pins |-> NoFiles, todo |-> {},
            stage |-> NoFiles, copy |-> NoFiles, inventory |-> NoFiles]

Put(package, f, content) ==
    [g \in DOMAIN package \cup {f} |-> IF g = f THEN content ELSE package[g]]

Init ==
    /\ store = [id \in {} |-> NoFiles]
    /\ lock = Nobody
    /\ op = [p \in Processes |-> Resting]
    /\ loaded = [p \in Processes |-> {}]

\* Mutant: the lock of another process does not keep p out.
OwnShared(p) == lock' = p

\* own(): every operation begins with it, and nothing gives the lock back but the end
\* of the process.
Own(p) ==
    /\ lock \in {Nobody, p}
    /\ lock' = p

Step(p, o) == op' = [op EXCEPT ![p] = o]
At(p, at) == op[p].at = at

-----------------------------------------------------------------------------
(* ModelRegistry::pull().                                                  *)

\* The model is not installed and the registry has a source for it.
PullBegin(p, id) ==
    /\ At(p, "rest")
    /\ Own(p)
    /\ id \notin DOMAIN store
    /\ id \in DOMAIN Pins
    /\ Step(p, [Resting EXCEPT !.at = "download", !.id = id, !.pulling = TRUE,
                               !.pins = Pins[id], !.todo = DOMAIN Pins[id]])
    /\ UNCHANGED <<store, loaded>>

\* download(): what was received is what is pinned; what is on the disk may differ.
Download(p, f, written) ==
    /\ At(p, "download")
    /\ f \in op[p].todo
    /\ written \in {op[p].pins[f], Torn}
    /\ Step(p, [op[p] EXCEPT !.todo = @ \ {f}, !.stage = Put(@, f, written)])
    /\ UNCHANGED <<store, lock, loaded>>

\* The manifest is written and install() begins with the stage as its source.
Downloaded(p) ==
    /\ At(p, "download")
    /\ op[p].todo = {}
    /\ op[p].id \notin DOMAIN store
    /\ Step(p, [op[p] EXCEPT !.at = "copy", !.todo = DOMAIN op[p].stage])
    /\ UNCHANGED <<store, lock, loaded>>

-----------------------------------------------------------------------------
(* ModelCatalog::install().                                                *)

\* A local source with these paths, whose manifest pins its files or lists none.
InstallBegin(p, id, paths, pins) ==
    /\ At(p, "rest")
    /\ Own(p)
    /\ id \notin DOMAIN store
    /\ Step(p, [Resting EXCEPT !.at = "copy", !.id = id, !.pins = pins, !.todo = paths])
    /\ UNCHANGED <<store, loaded>>

\* hashFile() with an output: the hash is of what was read, the copy may differ.
CopyFile(p, f, read, written) ==
    /\ At(p, "copy")
    /\ f \in op[p].todo
    /\ op[p].pulling => read = op[p].stage[f]
    /\ written \in {read, Torn}
    /\ Step(p, [op[p] EXCEPT !.todo = @ \ {f}, !.copy = Put(@, f, written),
                             !.inventory = Put(@, f, read)])
    /\ UNCHANGED <<store, lock, loaded>>

\* Mutant: mismatches with the source's own inventory are reported, not refused.
SourceCheckedLoosely(p) ==
    /\ At(p, "copy")
    /\ op[p].todo = {}
    /\ DOMAIN op[p].inventory # {}
    /\ Step(p, [op[p] EXCEPT !.at = "verify"])
    /\ UNCHANGED <<store, lock, loaded>>

\* The source was valid: no pins, or exactly what they say.  The inventory becomes the
\* manifest of the copy.
SourceChecked(p) ==
    /\ At(p, "copy")
    /\ op[p].todo = {}
    /\ op[p].pins \in {NoFiles, op[p].inventory}
    /\ DOMAIN op[p].inventory # {}
    /\ Step(p, [op[p] EXCEPT !.at = "verify"])
    /\ UNCHANGED <<store, lock, loaded>>

\* Mutant: the copy is not read again.
CopyTrusted(p) ==
    /\ At(p, "verify")
    /\ Step(p, [op[p] EXCEPT !.at = "publish"])
    /\ UNCHANGED <<store, lock, loaded>>

\* inspect() of the copy against its manifest.
CopyVerified(p) ==
    /\ At(p, "verify")
    /\ op[p].copy = op[p].inventory
    /\ Step(p, [op[p] EXCEPT !.at = "publish"])
    /\ UNCHANGED <<store, lock, loaded>>

\* The rename.
Publish(p) ==
    /\ At(p, "publish")
    /\ op[p].id \notin DOMAIN store
    /\ store' = [id \in DOMAIN store \cup {op[p].id} |->
           IF id = op[p].id
           THEN [files |-> op[p].copy, listed |-> op[p].inventory, pulled |-> op[p].pulling]
           ELSE store[id]]
    /\ Step(p, Resting)
    /\ UNCHANGED <<lock, loaded>>

-----------------------------------------------------------------------------
(* load(), unload() and remove().                                          *)

\* inspect() of an installed package finds nothing wrong.
Intact(id) == store[id].files = store[id].listed

\* Mutant: an installed package is loaded without verify().
LoadUnverified(p, id) ==
    /\ At(p, "rest")
    /\ Own(p)
    /\ id \in DOMAIN store
    /\ loaded' = [loaded EXCEPT ![p] = @ \cup {id}]
    /\ UNCHANGED <<store, op>>

\* ModelManager::load(), as far as the catalog is concerned.
Load(p, id) ==
    /\ At(p, "rest")
    /\ Own(p)
    /\ id \in DOMAIN store
    /\ Intact(id)
    /\ loaded' = [loaded EXCEPT ![p] = @ \cup {id}]
    /\ UNCHANGED <<store, op>>

Unload(p, id) ==
    /\ At(p, "rest")
    /\ id \in loaded[p]
    /\ loaded' = [loaded EXCEPT ![p] = @ \ {id}]
    /\ UNCHANGED <<store, lock, op>>

\* ModelManager::remove(): what this process has in memory it does not remove.
Removable(p, id) == id \notin loaded[p]

\* Mutant: only the id is asked for, not who uses it.
DetachLoaded(p, id) ==
    /\ At(p, "rest")
    /\ Own(p)
    /\ id \in DOMAIN store
    /\ store' = [x \in DOMAIN store \ {id} |-> store[x]]
    /\ Step(p, [Resting EXCEPT !.at = "detached"])
    /\ UNCHANGED loaded

\* remove(): the directory is renamed into the trash; intact or not.
Detach(p, id) ==
    /\ At(p, "rest")
    /\ Own(p)
    /\ id \in DOMAIN store
    /\ Removable(p, id)
    /\ store' = [x \in DOMAIN store \ {id} |-> store[x]]
    /\ Step(p, [Resting EXCEPT !.at = "detached"])
    /\ UNCHANGED loaded

\* trash.remove() succeeds, or remove() throws.
Discard(p) ==
    /\ At(p, "detached")
    /\ Step(p, Resting)
    /\ UNCHANGED <<store, lock, loaded>>

-----------------------------------------------------------------------------
(* What goes wrong.                                                        *)

\* A check fails, I/O fails or the request is cancelled: the staging directories go.
Fail(p) ==
    /\ op[p].at \in {"download", "copy", "verify", "publish"}
    /\ Step(p, Resting)
    /\ UNCHANGED <<store, lock, loaded>>

\* The process ends, or dies: its lock is stale from then on.
Crash(p) ==
    /\ lock = p
    /\ lock' = Nobody
    /\ Step(p, Resting)
    /\ loaded' = [loaded EXCEPT ![p] = {}]
    /\ UNCHANGED store

\* A published file changes behind everybody's back.
Rot(id, f) ==
    /\ id \in DOMAIN store
    /\ f \in DOMAIN store[id].files
    /\ store[id].files[f] # Torn
    /\ store' = [store EXCEPT ![id].files[f] = Torn]
    /\ UNCHANGED <<lock, op, loaded>>

-----------------------------------------------------------------------------
Next ==
    \/ \E p \in Processes, id \in Ids :
           PullBegin(p, id) \/ Load(p, id) \/ Unload(p, id) \/ Detach(p, id)
    \/ \E p \in Processes, id \in Ids, paths \in SUBSET Files, pins \in Inventories :
           InstallBegin(p, id, paths, pins)
    \/ \E p \in Processes, f \in Files, written \in Contents \cup {Torn} : Download(p, f, written)
    \/ \E p \in Processes, f \in Files, read, written \in Contents \cup {Torn} :
           CopyFile(p, f, read, written)
    \/ \E p \in Processes :
           \/ Downloaded(p) \/ SourceChecked(p) \/ CopyVerified(p) \/ Publish(p)
           \/ Discard(p) \/ Fail(p) \/ Crash(p)
    \/ \E id \in Ids, f \in Files : Rot(id, f)

Spec == Init /\ [][Next]_vars
-----------------------------------------------------------------------------
(* Properties.                                                             *)

Stages == {"rest", "download", "copy", "verify", "publish", "detached"}

\* Every variable has its type.
TypeOK ==
    /\ DOMAIN store \subseteq Ids
    /\ \A id \in DOMAIN store :
           store[id] \in [files : Packages, listed : Packages, pulled : BOOLEAN]
    /\ lock \in Processes \cup {Nobody}
    /\ op \in [Processes -> [at : Stages, id : Ids \cup {Nobody}, pulling : BOOLEAN,
                             pins : Packages, todo : SUBSET Files, stage : Packages,
                             copy : Packages, inventory : Packages]]
    /\ loaded \in [Processes -> SUBSET Ids]

\* A process in the middle of an operation, or with a model in memory, has the Models
\* directory for itself, also after another process died holding it.
OneOwner ==
    \A p \in Processes : op[p].at # "rest" \/ loaded[p] # {} => lock = p

\* The directory of a model that some process has in memory stays where it is.
LoadedStaysPublished ==
    \A p \in Processes : loaded[p] \subseteq DOMAIN store

\* A package appears in the catalog whole or not at all: when it is published its files
\* are those of its manifest, whatever the copy went through.  (install: "Copied package
\* verification failed")
PublishedWhole ==
    [][\A id \in DOMAIN store' \ DOMAIN store :
           /\ store'[id].files = store'[id].listed
           /\ DOMAIN store'[id].listed # {}]_vars

\* From the registry to the engine: what is loaded of a pulled model is what the
\* registry pins, whatever the network, the stage, the copy and the years on the disk
\* did to it.
EngineGetsThePinned ==
    [][\A p \in Processes : \A id \in loaded'[p] \ loaded[p] :
           store[id].pulled => store[id].files = Pins[id]]_vars
=============================================================================
