---------------------------- MODULE ServiceProofs ----------------------------
(***************************************************************************)
(* Proofs, for any number of models, sessions and conversations and for    *)
(* any limits, of the consistency of models, leases and cached contexts    *)
(* that the runs of Service check on two of each.                          *)
(*                                                                         *)
(* Most of the 36 actions leave the model tables or the cache alone, and   *)
(* the others change them in one of a few ways.  ModelEffects and          *)
(* CacheEffects say so once; the invariants about the tables then have one *)
(* case for each effect instead of one for each action.                    *)
(*                                                                         *)
(* The last part is about memory.  What folds over finite sets add up is   *)
(* proved first, by induction on the subsets of the set; the reservations  *)
(* and the tokens of the cached contexts are such sums.                    *)
(***************************************************************************)
EXTENDS ServiceHistory, FiniteSetTheorems, WellFoundedInduction, TLAPS

-----------------------------------------------------------------------------
(* What a step does to the model tables.                                   *)

tables == <<runtimes, loaded, residency, remembered, victim>>

\* Either nothing, or what one of nine operations does.
ModelEffect ==
    \/ UNCHANGED <<installed, tables>>
    \/ \E m \in Models, complete \in BOOLEAN : InstallModel(m) \/ RemoveModel(m, complete)
    \/ \E m \in Models : EvictBegin(m) /\ pc # "loading" /\ pc' \in {"room", "sweep", "maintain"}
    \/ LoadHit \/ RuntimeLoad \/ Release \/ EvictWeights \/ Tick

\* Every step has one of these effects on the model tables.
LEMMA ModelEffects ==
    ASSUME [Next]_vars PROVE ModelEffect
<1> USE DEF ModelEffect, tables
<1>1. CASE UNCHANGED vars
  BY <1>1 DEF vars, modelVars
<1>2. CASE Arrive
  BY <1>2 DEF Arrive, UnloadModel, CreateSession, ResetSession, CloseSession, ChatUnknown,
              LoadModel, Chat, Complete, Converse, Inspect, Begin, modelVars
<1>3. CASE Work
  BY <1>3 DEF Work, LoadMiss, RoomMade, MakeRoom, Measured, Embed, Prepare, ContextHit,
              ContextEvict, ContextCreate, ChatDone, ConverseDone, CompleteDone, Fail,
              SweepExpired, SweepPressure, SweepReleased, Maintained, IdleTick, modelVars,
              Maintaining
<1> QED
  BY <1>1, <1>2, <1>3 DEF Next
-----------------------------------------------------------------------------
(* What a step does to the cached contexts.                                *)

\* Some entries go and the others stay as they are.
CacheShrinks ==
    /\ DOMAIN cache' \subseteq DOMAIN cache
    /\ \A k \in DOMAIN cache' : cache'[k] = cache[k]

\* Entries go, or one of three steps of a generation touches the entry it uses.
CacheEffect ==
    \/ CacheShrinks
    \/ ContextHit
    \/ ContextCreate
    \/ \E stopped \in BOOLEAN : ChatDone(stopped) \/ ConverseDone(stopped)

\* Erasing entries does nothing to the others.
LEMMA EraseShrinks ==
    ASSUME NEW K, EraseKeys(K) PROVE CacheShrinks
  BY DEF EraseKeys, Without, CacheShrinks

\* Every step has one of these effects on the cache.
LEMMA CacheEffects ==
    ASSUME [Next]_vars PROVE CacheEffect
<1> USE EraseShrinks
<1>0. ASSUME UNCHANGED cacheVars PROVE CacheShrinks
  BY <1>0 DEF cacheVars, CacheShrinks
<1>a. ASSUME NEW m, EvictBegin(m) PROVE CacheShrinks
  BY <1>a DEF EvictBegin, CacheEraseModel
<1>1. CASE UNCHANGED vars
  BY <1>0, <1>1 DEF vars, CacheEffect
<1>2. CASE Arrive
  BY <1>0, <1>a, <1>2 DEF CacheEffect, Arrive, InstallModel, RemoveModel, UnloadModel,
              CreateSession, ResetSession, CloseSession, ChatUnknown, LoadModel, Chat,
              Complete, Converse, Inspect, Begin, CacheErase
<1>3. CASE Work
  <2>1. CASE ContextHit \/ ContextCreate \/ \E stopped \in BOOLEAN : ChatDone(stopped) \/ ConverseDone(stopped)
    BY <2>1 DEF CacheEffect
  <2>2. CASE ContextEvict
    BY <2>2 DEF ContextEvict, CacheEvictOldest, CacheEffect
  <2>3. CASE Fail
    BY <1>0, <2>3 DEF Fail, CacheErase, CacheEffect
  <2>4. CASE CompleteDone \/ Embed
    BY <2>4 DEF CompleteDone, Embed, CacheErase, CacheEraseModel, CacheEffect
  <2>5. CASE \E m \in Models : MakeRoom(m) \/ SweepExpired(m) \/ SweepPressure(m)
    BY <1>a, <2>5 DEF MakeRoom, SweepExpired, SweepPressure, CacheEffect
  <2>6. CASE \/ LoadHit \/ LoadMiss \/ RoomMade \/ RuntimeLoad \/ Measured \/ Release
             \/ SweepReleased \/ Maintained \/ EvictWeights \/ IdleTick
             \/ \E kept \in 0..MaxTurns - 1 : Prepare(kept)
    BY <1>0, <2>6 DEF LoadHit, LoadMiss, RoomMade, RuntimeLoad, Measured, Release, SweepReleased,
              Maintained, EvictWeights, IdleTick, Prepare, CacheEffect
  <2> QED
    BY <1>3, <2>1, <2>2, <2>3, <2>4, <2>5, <2>6 DEF Work
<1>4. CASE Tick
  BY <1>0, <1>4 DEF Tick, CacheEffect
<1> QED
  BY <1>1, <1>2, <1>3, <1>4 DEF Next
-----------------------------------------------------------------------------
(* The inductive invariant.                                                *)

\* What the worker's locals are good for, by where it is: the checks made on the
\* way are still true.
Flow ==
    /\ pc \in {"load", "room", "loading"} \cup Leased => job.model \in Models
    /\ pc \in {"room", "loading"} =>
           /\ job.model \in installed
           /\ job.model \notin DOMAIN loaded
           /\ Loadable(job.model, job.context)
           /\ job.keep \in KeepAlives
    /\ pc \in Leased => job.kind \in Leasing
    /\ pc \in {"context", "generate"} => job.kind \in Generating /\ job.kept < MaxTurns
    /\ victim # NoModel => pc \in {"room", "sweep", "maintain"}

\* A request that generates has the key of its own context.
Keyed ==
    pc \in {"load", "room", "loading", "leased", "context", "generate"} =>
        /\ job.kind \in {"chat", "complete"} =>
               job.key \in DOMAIN sessions /\ sessions[job.key].model = job.model
        /\ job.kind = "converse" => job.key \in ConversationKeys /\ job.key[1] = job.model

\* While it generates, its context is in the cache.
InHand == pc = "generate" => job.key \in DOMAIN cache

IndInv ==
    /\ TypeOK
    /\ Flow
    /\ Keyed
    /\ InHand
    /\ RememberedIsLoadable
    /\ TablesAgree
    /\ LeaseIsHeld
    /\ RememberedIsCurrent
    /\ UsedIsInstalled
    /\ ContextsOfLiveModels
    /\ ContextsAreOwned

-----------------------------------------------------------------------------
(* Model tables.                                                           *)

\* What touch() does, entry by entry.
LEMMA TouchEffect ==
    ASSUME NEW m, m \in DOMAIN residency, NEW keep, NEW delta \in Int, ModelTypes,
           Touch(m, keep, delta)
    PROVE  /\ DOMAIN residency' = DOMAIN residency
           /\ \A n \in DOMAIN residency : n # m => residency'[n] = residency[n]
           /\ residency'[m].bytes = residency[m].bytes
           /\ residency'[m].keepAlive = Kept(m, keep)
           /\ residency'[m].left = Kept(m, keep)
           /\ residency'[m].active = residency[m].active + delta
           /\ residency[m].active + delta \in Nat /\ Kept(m, keep) \in KeepAlives =>
                  residency'[m] \in [bytes : Nat, keepAlive : KeepAlives, left : Nat, active : Nat]
  BY ModelAssumption DEF Touch, ModelTypes

\* The smallest of three numbers is one of them.
LEMMA MinOfThree ==
    ASSUME NEW a \in Nat, NEW b \in Nat, NEW c \in Nat
    PROVE  Min({a, b, c}) \in {a, b, c}
<1> DEFINE S == {a, b, c}
<1>1. \E x \in S : \A y \in S : x <= y
  OBVIOUS
<1>2. Min(S) \in S
  <2> HIDE DEF S
  <2> QED BY <1>1 DEF Min
<1> QED
  BY <1>2

\* What a load would reserve is a number.
LEMMA EstimateIsNat ==
    ASSUME NEW m \in Models, NEW context \in Nat, Loadable(m, context)
    PROVE  EstimateMemory(m, context) \in Nat
<1>1. MaxContexts \in Nat /\ MaxContextTokens \div context \in Nat
  BY CacheLimitsAssumption DEF Loadable
<1>2. ContextSlots(context) \in Nat
  <2>1. {MaxContexts, MaxContextTokens \div context} =
          {MaxContexts, MaxContextTokens \div context, MaxContextTokens \div context}
    OBVIOUS
  <2> QED
    BY <1>1, <2>1, MinOfThree DEF ContextSlots
<1> QED
  BY <1>2, ModelAssumption DEF EstimateMemory, KvReservation

\* The model tables keep their types.
LEMMA ModelTypesStep ==
    ASSUME IndInv, ModelEffect
    PROVE  ModelTypes'
<1> USE DEF IndInv, TypeOK, ModelTypes
<1>1. CASE UNCHANGED <<installed, tables>>
  BY <1>1 DEF tables
<1>2. ASSUME NEW m \in Models, InstallModel(m) PROVE ModelTypes'
  BY <1>2 DEF InstallModel
<1>3. ASSUME NEW m \in Models, NEW complete \in BOOLEAN, RemoveModel(m, complete)
      PROVE  ModelTypes'
  BY <1>3 DEF RemoveModel, Without
<1>4. ASSUME NEW m \in Models, EvictBegin(m) PROVE ModelTypes'
  BY <1>4 DEF EvictBegin
<1>5. CASE LoadHit
  <2> DEFINE delta == IF job.kind \in Leasing THEN 1 ELSE 0
  <2>1. job.model \in DOMAIN residency /\ job.model \in DOMAIN remembered /\ delta \in {0, 1}
    BY <1>5 DEF LoadHit, TablesAgree, RememberedIsCurrent
  <2>2. Kept(job.model, job.keep) \in KeepAlives
    BY <2>1 DEF Kept, Keeps, WorkerTypes
  <2>3. Touch(job.model, job.keep, delta)
    BY <1>5 DEF LoadHit
  <2>4. residency[job.model].active + delta \in Nat
    BY <2>1
  <2>5. /\ DOMAIN residency' \subseteq Models
        /\ \A m \in DOMAIN residency' :
             residency'[m] \in [bytes : Nat, keepAlive : KeepAlives, left : Nat, active : Nat]
    <3> HIDE DEF delta
    <3> QED BY <2>1, <2>2, <2>3, <2>4, TouchEffect
  <2>6. /\ DOMAIN remembered' \subseteq Models
        /\ \A m \in DOMAIN remembered' :
             remembered'[m] \in [context : Nat, keepAlive : KeepAlives]
    BY <1>5, <2>1, <2>2 DEF LoadHit
  <2> QED
    BY <1>5, <2>5, <2>6 DEF LoadHit
<1>6. CASE RuntimeLoad
  <2>1. EstimateMemory(job.model, job.context) \in Nat
    BY <1>6, EstimateIsNat DEF RuntimeLoad, Flow, WorkerTypes
  <2>2. job.model \in Models /\ job.context \in Nat /\ job.keep \in KeepAlives
    BY <1>6 DEF RuntimeLoad, Flow, WorkerTypes
  <2> QED
    BY <1>6, <2>1, <2>2, ModelAssumption DEF RuntimeLoad, Register, With
<1>7. CASE Release
  <2>1. /\ job.model \in DOMAIN residency /\ job.model \in DOMAIN remembered
        /\ residency[job.model].active = 1 /\ Touch(job.model, Unset, -1)
    BY <1>7 DEF Release, LeaseIsHeld, Leased
  <2>2. Kept(job.model, Unset) \in KeepAlives
    BY <2>1 DEF Kept
  <2>3. residency[job.model].active + -1 \in Nat
    BY <2>1
  <2>4. /\ DOMAIN residency' \subseteq Models
        /\ \A m \in DOMAIN residency' :
             residency'[m] \in [bytes : Nat, keepAlive : KeepAlives, left : Nat, active : Nat]
    BY <2>1, <2>2, <2>3, TouchEffect
  <2>5. /\ DOMAIN remembered' \subseteq Models
        /\ \A m \in DOMAIN remembered' :
             remembered'[m] \in [context : Nat, keepAlive : KeepAlives]
    BY <1>7, <2>1 DEF Release
  <2> QED
    BY <1>7, <2>4, <2>5 DEF Release
<1>8. CASE EvictWeights
  BY <1>8 DEF EvictWeights, EvictEnd, Without
<1>9. CASE Tick
  BY <1>9 DEF Tick
<1> QED
  BY <1>1, <1>2, <1>3, <1>4, <1>5, <1>6, <1>7, <1>8, <1>9 DEF ModelEffect

\* The three tables go on agreeing.
LEMMA TablesStep ==
    ASSUME IndInv, ModelEffect
    PROVE  TablesAgree'
<1> USE DEF IndInv, TypeOK, ModelTypes, TablesAgree
<1>1. CASE UNCHANGED <<installed, tables>>
  BY <1>1 DEF tables
<1>2. ASSUME NEW m \in Models, NEW complete \in BOOLEAN, InstallModel(m) \/ RemoveModel(m, complete)
      PROVE  TablesAgree'
  BY <1>2 DEF InstallModel, RemoveModel
<1>4. ASSUME NEW m \in Models, EvictBegin(m) PROVE TablesAgree'
  BY <1>4 DEF EvictBegin, Idle
<1>5. CASE LoadHit
  BY <1>5 DEF LoadHit, Touch, Flow
<1>6. CASE RuntimeLoad
  BY <1>6 DEF RuntimeLoad, Register, With, Flow
<1>7. CASE Release
  BY <1>7 DEF Release, Touch, Flow
<1>8. CASE EvictWeights
  BY <1>8 DEF EvictWeights, EvictEnd, Without
<1>9. CASE Tick
  BY <1>9 DEF Tick
<1> QED
  BY <1>1, <1>2, <1>4, <1>5, <1>6, <1>7, <1>8, <1>9 DEF ModelEffect

\* What is remembered goes on being the present configuration.
LEMMA RememberedStep ==
    ASSUME IndInv, ModelEffect
    PROVE  RememberedIsCurrent'
<1> USE DEF IndInv, TypeOK, ModelTypes, TablesAgree, RememberedIsCurrent
<1>1. CASE UNCHANGED <<installed, tables>>
  BY <1>1 DEF tables
<1>2. ASSUME NEW m \in Models, InstallModel(m) PROVE RememberedIsCurrent'
  BY <1>2 DEF InstallModel
<1>3. ASSUME NEW m \in Models, NEW complete \in BOOLEAN, RemoveModel(m, complete)
      PROVE  RememberedIsCurrent'
  BY <1>3 DEF RemoveModel, Without
<1>4. ASSUME NEW m \in Models, EvictBegin(m) PROVE RememberedIsCurrent'
  BY <1>4 DEF EvictBegin
<1>5. CASE LoadHit
  <2> DEFINE delta == IF job.kind \in Leasing THEN 1 ELSE 0
  <2>1. job.model \in DOMAIN residency /\ delta \in Int /\ Touch(job.model, job.keep, delta)
    BY <1>5 DEF LoadHit
  <2>2. /\ \A n \in DOMAIN residency : n # job.model => residency'[n] = residency[n]
        /\ residency'[job.model].keepAlive = Kept(job.model, job.keep)
    <3> HIDE DEF delta
    <3> QED BY <2>1, TouchEffect
  <2>3. /\ DOMAIN remembered' = DOMAIN remembered
        /\ \A n \in DOMAIN remembered : n # job.model => remembered'[n] = remembered[n]
        /\ remembered'[job.model] =
             [context |-> loaded[job.model], keepAlive |-> Kept(job.model, job.keep)]
    <3>1. /\ job.model \in DOMAIN remembered
          /\ remembered[job.model] =
               [context |-> loaded[job.model], keepAlive |-> residency[job.model].keepAlive]
      BY <1>5 DEF LoadHit
    <3>2. remembered' = [remembered EXCEPT ![job.model].keepAlive = Kept(job.model, job.keep)]
      BY <1>5 DEF LoadHit
    <3> HIDE DEF IndInv, RememberedIsCurrent
    <3> QED BY <3>1, <3>2
  <2>4. loaded' = loaded /\ job.model \in DOMAIN loaded
    BY <1>5 DEF LoadHit
  <2> QED
    BY <2>2, <2>3, <2>4
<1>6. CASE RuntimeLoad
  BY <1>6 DEF RuntimeLoad, Register, With, Flow
<1>7. CASE Release
  <2>1. job.model \in DOMAIN residency /\ Touch(job.model, Unset, -1)
    BY <1>7 DEF Release, LeaseIsHeld, Leased
  <2>2. /\ \A n \in DOMAIN residency : n # job.model => residency'[n] = residency[n]
        /\ residency'[job.model].keepAlive = residency[job.model].keepAlive
    BY <2>1, TouchEffect DEF Kept
  <2> QED
    BY <1>7, <2>1, <2>2 DEF Release
<1>8. CASE EvictWeights
  BY <1>8 DEF EvictWeights, EvictEnd, Without
<1>9. CASE Tick
  BY <1>9 DEF Tick
<1> QED
  BY <1>1, <1>2, <1>3, <1>4, <1>5, <1>6, <1>7, <1>8, <1>9 DEF ModelEffect
-----------------------------------------------------------------------------
(* Leases.                                                                 *)

\* Where the worker is does not change whether it holds a lease, and on which
\* model.
SameLease ==
    /\ pc' \in Leased <=> pc \in Leased
    /\ pc \in Leased => job'.model = job.model

\* Only acquire() and release() change that.
LEMMA LeaseEffects ==
    ASSUME [Next]_vars PROVE SameLease \/ LoadHit \/ RuntimeLoad \/ Release
<1> USE DEF SameLease, Leased
<1>1. CASE UNCHANGED vars
  BY <1>1 DEF vars
<1>2. CASE Arrive
  BY <1>2 DEF Arrive, InstallModel, RemoveModel, UnloadModel, CreateSession, ResetSession,
              CloseSession, ChatUnknown, LoadModel, Chat, Complete, Converse, Inspect, Begin,
              GoMaintain
<1>3. CASE Work
  <2>1. ASSUME NEW kept \in 0..MaxTurns - 1, Prepare(kept) PROVE SameLease
    BY <2>1 DEF Prepare
  <2>2. CASE Fail
    BY <2>2 DEF Fail, GoMaintain
  <2>3. CASE \/ Measured \/ Embed \/ ContextHit \/ ContextEvict \/ ContextCreate \/ CompleteDone
             \/ \E stopped \in BOOLEAN : ChatDone(stopped) \/ ConverseDone(stopped)
    BY <2>3 DEF Measured, Embed, ContextHit, ContextEvict, ContextCreate, CompleteDone,
                ChatDone, ConverseDone
  <2>4. CASE \/ LoadMiss \/ RoomMade \/ SweepReleased \/ Maintained \/ EvictWeights \/ IdleTick
             \/ \E m \in Models : MakeRoom(m) \/ SweepExpired(m) \/ SweepPressure(m)
    BY <2>4 DEF LoadMiss, RoomMade, SweepReleased, Maintained, EvictWeights, IdleTick, MakeRoom,
                SweepExpired, SweepPressure, GoMaintain
  <2> QED
    BY <1>3, <2>1, <2>2, <2>3, <2>4 DEF Work
<1>4. CASE Tick
  BY <1>4 DEF Tick
<1> QED
  BY <1>1, <1>2, <1>3, <1>4 DEF Next

\* A lease is held from acquire() to release() and by no one else.
LEMMA LeaseStep ==
    ASSUME IndInv, [Next]_vars
    PROVE  LeaseIsHeld'
<1> USE DEF IndInv, TypeOK, TablesAgree
<1>1. CASE LoadHit
  <2> DEFINE delta == IF job.kind \in Leasing THEN 1 ELSE 0
  <2>1. job.model \in DOMAIN residency /\ delta \in Int /\ Touch(job.model, job.keep, delta)
    BY <1>1 DEF LoadHit
  <2>2. /\ DOMAIN residency' = DOMAIN residency
        /\ \A n \in DOMAIN residency : n # job.model => residency'[n] = residency[n]
        /\ residency'[job.model].active = residency[job.model].active + delta
    <3> HIDE DEF delta
    <3> QED BY <2>1, TouchEffect
  <2>3. \A n \in DOMAIN residency : residency[n].active = 0
    BY <1>1 DEF LoadHit, LeaseIsHeld, Leased
  <2>4. job.model \in DOMAIN remembered'
    BY <1>1 DEF LoadHit, RememberedIsCurrent
  <2>5. \/ pc' = "leased" /\ delta = 1 /\ job' = job
        \/ pc' = "maintain" /\ delta = 0
    BY <1>1 DEF LoadHit, GoMaintain
  <2> QED
    <3> HIDE DEF IndInv, TypeOK, TablesAgree, delta
    <3> QED BY <2>1, <2>2, <2>3, <2>4, <2>5 DEF LeaseIsHeld, Leased
<1>2. CASE RuntimeLoad
  <2> DEFINE delta == IF job.kind \in Leasing THEN 1 ELSE 0
  <2>1. \A n \in DOMAIN residency : residency[n].active = 0
    BY <1>2 DEF RuntimeLoad, LeaseIsHeld, Leased
  <2>2. /\ DOMAIN residency' = DOMAIN residency \cup {job.model}
        /\ \A n \in DOMAIN residency : n # job.model => residency'[n] = residency[n]
        /\ residency'[job.model].active = delta
        /\ job.model \in DOMAIN remembered'
    BY <1>2 DEF RuntimeLoad, Register, With
  <2>3. \/ pc' = "leased" /\ delta = 1 /\ job' = job
        \/ pc' = "maintain" /\ delta = 0
    BY <1>2 DEF RuntimeLoad, GoMaintain
  <2> QED
    <3> HIDE DEF IndInv, TypeOK, TablesAgree, delta
    <3> QED BY <2>1, <2>2, <2>3 DEF LeaseIsHeld, Leased
<1>3. CASE Release
  <2>1. job.model \in DOMAIN residency /\ Touch(job.model, Unset, -1) /\ residency[job.model].active = 1
    BY <1>3 DEF Release, LeaseIsHeld, Leased
  <2>2. /\ DOMAIN residency' = DOMAIN residency
        /\ \A n \in DOMAIN residency : n # job.model => residency'[n] = residency[n]
        /\ residency'[job.model].active = 0
    BY <2>1, TouchEffect
  <2> QED
    BY <1>3, <2>2 DEF Release, LeaseIsHeld, Leased
<1>4. CASE SameLease /\ ~LoadHit /\ ~RuntimeLoad /\ ~Release
  <2>1. CASE UNCHANGED <<installed, tables>>
    BY <1>4, <2>1 DEF tables, SameLease, LeaseIsHeld
  <2>2. ASSUME NEW m \in Models, InstallModel(m) PROVE LeaseIsHeld'
    BY <1>4, <2>2 DEF InstallModel, SameLease, LeaseIsHeld
  <2>3. ASSUME NEW m \in Models, NEW complete \in BOOLEAN, RemoveModel(m, complete)
        PROVE  LeaseIsHeld'
    BY <1>4, <2>3 DEF RemoveModel, SameLease, LeaseIsHeld, Leased
  <2>4. ASSUME NEW m \in Models, EvictBegin(m) PROVE LeaseIsHeld'
    BY <1>4, <2>4 DEF EvictBegin, SameLease, LeaseIsHeld
  <2>5. CASE EvictWeights
    BY <1>4, <2>5 DEF EvictWeights, EvictEnd, Without, SameLease, LeaseIsHeld
  <2>6. CASE Tick
    <3>1. /\ DOMAIN residency' = DOMAIN residency
          /\ \A n \in DOMAIN residency : residency'[n].active = residency[n].active
      BY <2>6 DEF Tick, ModelTypes
    <3> QED
      BY <1>4, <2>6, <3>1 DEF Tick, LeaseIsHeld
  <2> QED
    BY <1>4, <2>1, <2>2, <2>3, <2>4, <2>5, <2>6, ModelEffects DEF ModelEffect
<1> QED
  BY <1>1, <1>2, <1>3, <1>4, LeaseEffects
-----------------------------------------------------------------------------
(* Sessions.                                                               *)

\* A session keeps its model; the model of a new one is installed.
SessionsFollow ==
    \A s \in DOMAIN sessions' :
        \/ s \in DOMAIN sessions /\ sessions'[s].model = sessions[s].model
        \/ s \notin DOMAIN sessions /\ sessions'[s].model \in installed

\* Sessions keep their types and their models.
LEMMA SessionsStep ==
    ASSUME IndInv, [Next]_vars
    PROVE  SessionTypes' /\ SessionsFollow
<1> USE ServiceAssumption DEF IndInv, TypeOK, ModelTypes, SessionTypes, SessionsFollow
<1>1. CASE UNCHANGED sessions
  BY <1>1
<1>2. ASSUME NEW s \in SessionIds, NEW m \in Models, NEW turns \in 0..MaxTurns - 1,
             NEW temporary \in BOOLEAN, m \in installed, NewSession(s, m, turns, temporary)
      PROVE  SessionTypes' /\ SessionsFollow
  BY <1>2 DEF NewSession, With
<1>3. ASSUME NEW s, sessions' = Without(sessions, {s}) PROVE SessionTypes' /\ SessionsFollow
  BY <1>3 DEF Without
<1>4. ASSUME NEW s \in DOMAIN sessions, NEW turns \in 0..MaxTurns,
             sessions' = [sessions EXCEPT ![s].turns = turns]
      PROVE  SessionTypes' /\ SessionsFollow
  BY <1>4
<1>5. ASSUME NEW s \in SessionIds, NEW m \in Models, CreateSession(s, m)
      PROVE  SessionTypes' /\ SessionsFollow
  <2>1. 0 \in 0..MaxTurns - 1
    OBVIOUS
  <2> HIDE DEF IndInv, TypeOK, ModelTypes, SessionTypes, SessionsFollow
  <2>2. m \in installed /\ NewSession(s, m, 0, FALSE)
    BY <1>5, Zenon DEF CreateSession
  <2> QED
    BY <1>2, <2>1, <2>2, Zenon
<1>6. ASSUME NEW s \in SessionIds, NEW m \in Models, NEW turns \in 0..MaxTurns - 1,
             NEW keep, Complete(s, m, turns, keep)
      PROVE  SessionTypes' /\ SessionsFollow
  BY <1>2, <1>6 DEF Complete
<1>7. ASSUME NEW s \in SessionIds, ResetSession(s) \/ CloseSession(s)
      PROVE  SessionTypes' /\ SessionsFollow
  <2>1. 0 \in 0..MaxTurns
    OBVIOUS
  <2> HIDE DEF IndInv, TypeOK, ModelTypes, SessionTypes, SessionsFollow
  <2> QED
    BY <1>3, <1>4, <1>7, <2>1 DEF ResetSession, CloseSession
<1>8. CASE Arrive
  <2> HIDE DEF IndInv, TypeOK, ModelTypes, SessionTypes, SessionsFollow
  <2> QED
    BY <1>1, <1>5, <1>6, <1>7, <1>8 DEF Arrive, InstallModel, RemoveModel, UnloadModel, ChatUnknown,
                LoadModel, Chat, Converse, Inspect
<1>9. ASSUME NEW stopped \in BOOLEAN, ChatDone(stopped) PROVE SessionTypes' /\ SessionsFollow
  <2>1. job.key \in DOMAIN sessions /\ job.kept + 1 \in 0..MaxTurns
    BY <1>9 DEF ChatDone, Keyed, Flow, WorkerTypes
  <2> QED
    BY <1>4, <1>9, <2>1 DEF ChatDone
<1>10. CASE CompleteDone \/ Fail
  <2> HIDE DEF IndInv, TypeOK, ModelTypes, SessionTypes, SessionsFollow
  <2> QED
    BY <1>1, <1>3, <1>10 DEF CompleteDone, Fail
<1>11. CASE Work
  <2> HIDE DEF IndInv, TypeOK, ModelTypes, SessionTypes, SessionsFollow
  <2> QED
    BY <1>1, <1>9, <1>10, <1>11 DEF Work, LoadHit, LoadMiss, RoomMade, RuntimeLoad, MakeRoom, Measured,
              Embed, Prepare, ContextHit, ContextEvict, ContextCreate, ConverseDone, Release,
              SweepExpired, SweepPressure, SweepReleased, Maintained, EvictWeights, IdleTick
<1> QED
  BY <1>1, <1>8, <1>11 DEF Next, Tick, vars

\* Nothing in use is taken out of the catalog.
LEMMA InstalledStep ==
    ASSUME IndInv, [Next]_vars
    PROVE  UsedIsInstalled'
<1> USE DEF IndInv, UsedIsInstalled
<1>0. SessionsFollow
  BY SessionsStep
<1>1. CASE UNCHANGED <<installed, tables>>
  BY <1>0, <1>1 DEF tables, SessionsFollow
<1>2. ASSUME NEW m \in Models, InstallModel(m) PROVE UsedIsInstalled'
  BY <1>2 DEF InstallModel
<1>3. ASSUME NEW m \in Models, NEW complete \in BOOLEAN, RemoveModel(m, complete)
      PROVE  UsedIsInstalled'
  BY <1>3 DEF RemoveModel, InUse
<1>4. ASSUME NEW m \in Models, EvictBegin(m) PROVE UsedIsInstalled'
  BY <1>0, <1>4 DEF EvictBegin, SessionsFollow
<1>5. CASE RuntimeLoad
  BY <1>5 DEF RuntimeLoad, Register, With, Flow
<1>6. CASE EvictWeights
  BY <1>6 DEF EvictWeights, EvictEnd, Without
<1>7. CASE LoadHit \/ Release \/ Tick
  BY <1>7 DEF LoadHit, Release, Tick
<1> QED
  BY <1>1, <1>2, <1>3, <1>4, <1>5, <1>6, <1>7, ModelEffects DEF ModelEffect
-----------------------------------------------------------------------------
(* The worker.                                                             *)

\* A request that is over leaves nothing to say about its locals.
LEMMA MaintainFlow ==
    ASSUME ModelTypes', GoMaintain
    PROVE  WorkerTypes' /\ Flow' /\ Keyed' /\ InHand'
<1>1. doomed' \subseteq Models
  BY DEF GoMaintain, Expired, ModelTypes
<1>2. WorkerTypes'
  BY <1>1, ServiceAssumption DEF GoMaintain, WorkerTypes, NoJob, Keeps
<1> QED
  BY <1>2 DEF GoMaintain, Flow, Keyed, InHand, Leased

\* The first step of a request with a model.
LEMMA BeginFlow ==
    ASSUME IndInv, pc = "idle", NEW kind \in {"load"} \cup Leasing, NEW m \in Models,
           NEW key \in SessionIds \cup ConversationKeys \cup {NoModel},
           NEW context \in Nat, NEW keep \in Keeps, Begin(kind, m, key, context, keep)
    PROVE  WorkerTypes' /\ Flow' /\ InHand'
<1>1. WorkerTypes'
  BY ServiceAssumption DEF Begin, IndInv, TypeOK, WorkerTypes
<1> QED
  BY <1>1 DEF Begin, IndInv, Flow, InHand, Leased, modelVars

\* The worker's state keeps its types, and what it checked stays true.
LEMMA WorkerStep ==
    ASSUME IndInv, [Next]_vars
    PROVE  WorkerTypes' /\ Flow'
<1>0. ModelTypes'
  BY ModelTypesStep, ModelEffects
<1> DEFINE Goal == WorkerTypes /\ Flow
<1> SUFFICES Goal' OBVIOUS
<1> HIDE DEF Goal
<1>1. ASSUME GoMaintain PROVE Goal'
  BY <1>0, <1>1, MaintainFlow DEF Goal
<1>2. CASE UNCHANGED vars
  BY <1>2 DEF Goal, IndInv, TypeOK, vars, modelVars, WorkerTypes, Flow
<1>3. CASE Arrive
  <2>1. ASSUME NEW m \in Models, UnloadModel(m) PROVE Goal'
    BY <2>1, <1>0 DEF Goal, UnloadModel, EvictBegin, IndInv, TypeOK, WorkerTypes, Flow, Leased, Expired, ModelTypes
  <2>2. ASSUME NEW m \in Models, NEW context \in LoadContexts, NEW keep \in Keeps,
               LoadModel(m, context, keep)
        PROVE  Goal'
    BY <2>2, BeginFlow, ServiceAssumption DEF Goal, LoadModel
  <2>3. ASSUME NEW s \in SessionIds, NEW keep \in Keeps, Chat(s, keep) PROVE Goal'
    <3>1. sessions[s].model \in Models
      BY <2>3 DEF Chat, IndInv, TypeOK, SessionTypes
    <3> QED
      BY <2>3, <3>1, BeginFlow DEF Goal, Chat, Leasing, Generating
  <2>4. ASSUME NEW s \in SessionIds, NEW m \in Models, NEW turns \in 0..MaxTurns - 1,
               NEW keep \in Keeps, Complete(s, m, turns, keep)
        PROVE  Goal'
    BY <2>4, BeginFlow DEF Goal, Complete, Leasing, Generating
  <2>5. ASSUME NEW m \in Models, NEW c \in ConversationIds, NEW keep \in Keeps,
               Converse(m, c, keep)
        PROVE  Goal'
    BY <2>5, BeginFlow DEF Goal, Converse, Leasing, Generating, ConversationKeys
  <2>6. ASSUME NEW kind \in {"embed", "measure"}, NEW m \in Models, NEW keep \in Keeps,
               Inspect(kind, m, keep)
        PROVE  Goal'
    BY <2>6, BeginFlow DEF Goal, Inspect, Leasing
  <2>7. ASSUME NEW m \in Models,
               \/ InstallModel(m)
               \/ \E complete \in BOOLEAN : RemoveModel(m, complete)
               \/ \E s \in SessionIds : CreateSession(s, m)
        PROVE  Goal'
    BY <2>7, <1>1 DEF InstallModel, RemoveModel, CreateSession
  <2>8. ASSUME NEW s \in SessionIds, ResetSession(s) \/ CloseSession(s) \/ ChatUnknown(s)
        PROVE  Goal'
    BY <2>8, <1>1 DEF ResetSession, CloseSession, ChatUnknown
  <2>9. Unset \in Keeps
    BY DEF Keeps
  <2> QED
    BY <1>3, <2>1, <2>2, <2>3, <2>4, <2>5, <2>6, <2>7, <2>8, <2>9 DEF Arrive
<1>4. CASE Work
  <2> USE DEF Goal, IndInv, TypeOK, WorkerTypes, Flow, Leased
  <2>1. CASE LoadHit
    BY <1>1, <2>1 DEF LoadHit
  <2>2. CASE LoadMiss
    <3>1. ContextFor(job.model, job.context) \in Nat /\ job.model \in Models
      <4>1. job.model \in Models /\ job.context \in Nat /\ DefaultContext \in Nat
            /\ ContextLength[job.model] \in Nat /\ MaxContextTokens \in Nat
        BY <2>2, ModelAssumption, CacheLimitsAssumption DEF LoadMiss
      <4>2. Min({ContextLength[job.model], DefaultContext, MaxContextTokens}) \in Nat
        BY <4>1, MinOfThree
      <4> QED
        BY <2>2, <4>1, <4>2 DEF LoadMiss, ContextFor, ModelTypes
    <3>2. KeepAliveFor(job.model, job.keep) \in KeepAlives
      BY <2>2, ModelAssumption DEF LoadMiss, KeepAliveFor, Keeps, ModelTypes
    <3> QED
      BY <2>2, <3>1, <3>2 DEF LoadMiss, modelVars, Keeps, Loadable, EstimateMemory
  <2>3. CASE RoomMade
    BY <2>3 DEF RoomMade, modelVars
  <2>4. CASE RuntimeLoad
    BY <1>1, <2>4 DEF RuntimeLoad, Register
  <2>5. ASSUME NEW m \in Models, MakeRoom(m) PROVE Goal'
    BY <2>5 DEF MakeRoom, EvictBegin
  <2>6. CASE Measured \/ Embed \/ ContextHit \/ ContextEvict \/ ContextCreate \/ CompleteDone
    BY <2>6 DEF Measured, Embed, ContextHit, ContextEvict, ContextCreate, CompleteDone, modelVars
  <2>7. ASSUME NEW kept \in 0..MaxTurns - 1, Prepare(kept) PROVE Goal'
    BY <2>7, ServiceAssumption DEF Prepare, modelVars
  <2>8. ASSUME NEW stopped \in BOOLEAN, ChatDone(stopped) \/ ConverseDone(stopped) PROVE Goal'
    BY <2>8 DEF ChatDone, ConverseDone, modelVars
  <2>9. CASE Fail
    BY <1>1, <2>9 DEF Fail, modelVars
  <2>10. CASE Release
    BY <1>0, <2>10 DEF Release, Expired, ModelTypes
  <2>11. ASSUME NEW m \in Models, SweepExpired(m) \/ SweepPressure(m) PROVE Goal'
    BY <2>11 DEF SweepExpired, SweepPressure, EvictBegin, Maintaining
  <2>12. CASE SweepReleased \/ IdleTick
    BY <1>1, <2>12 DEF SweepReleased, IdleTick
  <2>13. CASE Maintained
    BY <2>13 DEF Maintained, modelVars
  <2>14. CASE EvictWeights
    BY <2>14 DEF EvictWeights, EvictEnd, Without
  <2> HIDE DEF Goal, IndInv, TypeOK, WorkerTypes, Flow, Leased
  <2> QED
    BY <1>4, <2>1, <2>2, <2>3, <2>4, <2>5, <2>6, <2>7, <2>8, <2>9, <2>10, <2>11, <2>12, <2>13,
       <2>14 DEF Work
<1>5. CASE Tick
  BY <1>5 DEF Goal, IndInv, TypeOK, Tick, WorkerTypes, Flow
<1> QED
  BY <1>2, <1>3, <1>4, <1>5 DEF Next

\* Where a request has a key.
Underway == {"load", "room", "loading", "leased", "context", "generate"}

\* A request is over or not begun, begins, or goes on with what it has.
JobEffect ==
    \/ pc' \notin Underway
    \/ \E s \in SessionIds, keep \in Keeps : Chat(s, keep)
    \/ \E s \in SessionIds, m \in Models, turns \in 0..MaxTurns - 1, keep \in Keeps :
           Complete(s, m, turns, keep)
    \/ \E m \in Models, c \in ConversationIds, keep \in Keeps : Converse(m, c, keep)
    \/ pc' = "load" /\ job'.kind \in {"load", "embed", "measure"}
    \/ /\ pc \in Underway
       /\ job'.kind = job.kind /\ job'.key = job.key /\ job'.model = job.model
       /\ sessions' = sessions
       /\ pc' = "generate" => (pc = "generate" /\ cache' = cache) \/ ContextHit \/ ContextCreate

\* Every step is one of these for the request.
LEMMA JobEffects ==
    ASSUME IndInv, [Next]_vars PROVE JobEffect
<1> USE DEF JobEffect, Underway
<1>0. WorkerTypes /\ Flow
  BY DEF IndInv, TypeOK
<1>1. CASE UNCHANGED vars
  BY <1>1 DEF vars, cacheVars
<1>2. CASE Arrive
  <2>1. ASSUME NEW kind \in {"load", "embed", "measure"}, NEW m, NEW key, NEW context, NEW keep,
               Begin(kind, m, key, context, keep)
        PROVE  JobEffect
    BY <2>1 DEF Begin
  <2>2. ASSUME NEW m \in Models,
               \/ Inspect("embed", m, Unset)
               \/ \E keep \in Keeps : Inspect("measure", m, keep)
               \/ \E context \in LoadContexts, keep \in Keeps : LoadModel(m, context, keep)
        PROVE  JobEffect
    BY <2>1, <2>2 DEF Inspect, LoadModel
  <2>3. CASE \/ \E m \in Models : InstallModel(m) \/ UnloadModel(m)
             \/ \E m \in Models, complete \in BOOLEAN : RemoveModel(m, complete)
             \/ \E s \in SessionIds, m \in Models : CreateSession(s, m)
             \/ \E s \in SessionIds : ResetSession(s) \/ CloseSession(s) \/ ChatUnknown(s)
    BY <2>3 DEF InstallModel, RemoveModel, UnloadModel, CreateSession, ResetSession,
                CloseSession, ChatUnknown, GoMaintain
  <2>4. CASE \/ \E s \in SessionIds, keep \in Keeps : Chat(s, keep)
             \/ \E s \in SessionIds, m \in Models, turns \in 0..MaxTurns - 1, keep \in Keeps :
                    Complete(s, m, turns, keep)
             \/ \E m \in Models, c \in ConversationIds, keep \in Keeps : Converse(m, c, keep)
    BY <2>4
  <2> HIDE DEF JobEffect
  <2> QED
    BY <1>2, <2>2, <2>3, <2>4 DEF Arrive
<1>3. CASE Work
  <2>1. ASSUME NEW kept \in 0..MaxTurns - 1, Prepare(kept) PROVE JobEffect
    BY <1>0, <2>1 DEF Prepare, WorkerTypes
  <2>2. CASE LoadMiss
    BY <1>0, <2>2 DEF LoadMiss, WorkerTypes
  <2>3. CASE EvictWeights
    BY <1>0, <2>3 DEF EvictWeights, cacheVars, Flow
  <2>4. CASE LoadHit \/ RuntimeLoad \/ RoomMade \/ (\E m \in Models : MakeRoom(m))
    BY <2>4 DEF LoadHit, RuntimeLoad, RoomMade, MakeRoom, GoMaintain
  <2>5. CASE ContextHit \/ ContextEvict \/ ContextCreate
    BY <2>5 DEF ContextHit, ContextEvict, ContextCreate
  <2>6. CASE \/ Measured \/ Embed \/ CompleteDone \/ Fail \/ Release
             \/ \E stopped \in BOOLEAN : ChatDone(stopped) \/ ConverseDone(stopped)
    BY <2>6 DEF Measured, Embed, CompleteDone, Fail, Release, ChatDone, ConverseDone, GoMaintain
  <2>7. CASE \/ SweepReleased \/ Maintained \/ IdleTick
             \/ \E m \in Models : SweepExpired(m) \/ SweepPressure(m)
    BY <2>7 DEF SweepReleased, Maintained, IdleTick, SweepExpired, SweepPressure, Maintaining,
                GoMaintain
  <2> QED
    BY <1>3, <2>1, <2>2, <2>3, <2>4, <2>5, <2>6, <2>7 DEF Work
<1>4. CASE Tick
  BY <1>4 DEF Tick, cacheVars
<1> QED
  BY <1>1, <1>2, <1>3, <1>4 DEF Next

\* A request goes on having its key, and its context while it generates.
LEMMA KeyedStep ==
    ASSUME IndInv, [Next]_vars
    PROVE  Keyed' /\ InHand'
<1> USE DEF IndInv, Keyed, InHand, Underway
<1>1. CASE pc' \notin Underway
  BY <1>1
<1>2. ASSUME NEW s \in SessionIds, NEW keep \in Keeps, Chat(s, keep) PROVE Keyed' /\ InHand'
  BY <1>2 DEF Chat, Begin
<1>3. ASSUME NEW s \in SessionIds, NEW m \in Models, NEW turns \in 0..MaxTurns - 1,
             NEW keep \in Keeps, Complete(s, m, turns, keep)
      PROVE  Keyed' /\ InHand'
  BY <1>3 DEF Complete, Begin, NewSession, With
<1>4. ASSUME NEW m \in Models, NEW c \in ConversationIds, NEW keep \in Keeps, Converse(m, c, keep)
      PROVE  Keyed' /\ InHand'
  BY <1>4 DEF Converse, Begin, ConversationKeys
<1>5. CASE pc' = "load" /\ job'.kind \in {"load", "embed", "measure"}
  BY <1>5
<1>6. CASE /\ pc \in Underway
           /\ job'.kind = job.kind /\ job'.key = job.key /\ job'.model = job.model
           /\ sessions' = sessions
           /\ pc' = "generate" => (pc = "generate" /\ cache' = cache) \/ ContextHit \/ ContextCreate
  BY <1>6 DEF ContextHit, ContextCreate, CacheTouch, CacheInsert, With
<1> QED
  BY <1>1, <1>2, <1>3, <1>4, <1>5, <1>6, JobEffects DEF JobEffect
-----------------------------------------------------------------------------
(* Cached contexts.                                                        *)

\* The request that takes or uses a context has a key, a model in memory, and
\* no eviction is under way.
LEMMA Generates ==
    ASSUME IndInv, pc \in {"context", "generate"}
    PROVE  /\ job.key \in SessionIds \cup ConversationKeys
           /\ job.key \in SessionIds =>
                 job.key \in DOMAIN sessions /\ sessions[job.key].model = job.model
           /\ job.key \notin SessionIds => job.key[1] = job.model
           /\ job.model \in Models /\ job.model \in DOMAIN runtimes
           /\ victim = NoModel
           /\ job.kept + 1 \in 0..MaxTurns
<1>1. \/ job.key \in SessionIds /\ job.key \in DOMAIN sessions /\ sessions[job.key].model = job.model
      \/ job.key \in ConversationKeys /\ job.key[1] = job.model
  BY DEF IndInv, Flow, Keyed, Generating, TypeOK, SessionTypes
<1>2. job.model \in Models /\ job.model \in DOMAIN runtimes /\ victim = NoModel
  BY DEF IndInv, Flow, LeaseIsHeld, TablesAgree, Leased
<1>3. job.kept + 1 \in 0..MaxTurns
  BY ServiceAssumption DEF IndInv, Flow, TypeOK, WorkerTypes
<1> QED
  BY <1>1, <1>2, <1>3, ServiceAssumption

\* The three steps that touch an entry keep model and tokens of all of them,
\* or add the one of the request.
LEMMA TouchedEntries ==
    ASSUME IndInv, NEW stopped \in BOOLEAN,
           ContextHit \/ ChatDone(stopped) \/ ConverseDone(stopped)
    PROVE  /\ DOMAIN cache' \subseteq DOMAIN cache
           /\ \A k \in DOMAIN cache' : /\ cache'[k].model = cache[k].model
                                      /\ cache'[k].tokens = cache[k].tokens
           /\ CacheTypes'
<1> USE ServiceAssumption DEF CacheTypes, Partial
<1>0. CacheTypes
  BY DEF IndInv, TypeOK
<1>1. ASSUME NEW seen \in 0..MaxTurns \cup {Partial}, NEW k \in DOMAIN cache,
             cache' = [cache EXCEPT ![k].seen = seen]
      PROVE  /\ DOMAIN cache' \subseteq DOMAIN cache
             /\ \A n \in DOMAIN cache' : /\ cache'[n].model = cache[n].model
                                        /\ cache'[n].tokens = cache[n].tokens
             /\ CacheTypes'
  BY <1>0, <1>1
<1>2. CASE ContextHit
  BY <1>1, <1>2 DEF ContextHit, CacheTouch
<1>3. ASSUME NEW K, EraseKeys(K)
      PROVE  /\ DOMAIN cache' \subseteq DOMAIN cache
             /\ \A n \in DOMAIN cache' : /\ cache'[n].model = cache[n].model
                                        /\ cache'[n].tokens = cache[n].tokens
             /\ CacheTypes'
  BY <1>0, <1>3, EraseShrinks DEF CacheShrinks
<1>4. CASE ChatDone(stopped)
  <2>1. job.key \in DOMAIN cache /\ job.kept + 1 \in 0..MaxTurns
    BY <1>4, Generates DEF ChatDone, IndInv, InHand
  <2> HIDE DEF CacheTypes
  <2> QED
    BY <1>1, <1>3, <1>4, <2>1 DEF ChatDone, CacheErase, CacheSettle
<1>5. CASE ConverseDone(stopped)
  <2>1. job.key \in DOMAIN cache /\ 0 \in 0..MaxTurns
    BY <1>5 DEF ConverseDone, IndInv, InHand
  <2> HIDE DEF CacheTypes
  <2> QED
    BY <1>1, <1>3, <1>5, <2>1 DEF ConverseDone, CacheErase, CacheSettle
<1> QED
  BY <1>2, <1>4, <1>5

\* Entries keep their types.
LEMMA CacheTypesStep ==
    ASSUME IndInv, [Next]_vars
    PROVE  CacheTypes'
<1>1. CASE CacheShrinks
  BY <1>1 DEF CacheShrinks, CacheTypes, IndInv, TypeOK
<1>2. CASE ContextCreate
  <2>1. /\ job.key \in SessionIds \cup ConversationKeys
        /\ job.model \in Models
        /\ runtimes[job.model] \in Nat
    BY <1>2, Generates DEF ContextCreate, IndInv, TypeOK, ModelTypes
  <2> QED
    BY <1>2, <2>1 DEF ContextCreate, CacheInsert, With, CacheTypes, IndInv, TypeOK
<1> QED
  BY <1>1, <1>2, CacheEffects, TouchedEntries DEF CacheEffect

\* A session that goes takes its context with it.
LEMMA SessionsTakeContexts ==
    ASSUME IndInv, [Next]_vars
    PROVE  \A s \in DOMAIN sessions : s \in DOMAIN sessions' \/ s \notin DOMAIN cache'
<1> DEFINE Goal == \A s \in DOMAIN sessions : s \in DOMAIN sessions' \/ s \notin DOMAIN cache'
<1>1. ASSUME NEW k, CacheErase(k), sessions' = Without(sessions, {k}) PROVE Goal
  BY <1>1 DEF CacheErase, EraseKeys, Without
<1>2. ASSUME NEW s \in SessionIds, CloseSession(s) PROVE Goal
  BY <1>1, <1>2 DEF CloseSession
<1>3. CASE CompleteDone
  BY <1>1, <1>3 DEF CompleteDone
<1>4. CASE Fail
  <2>1. CASE job.kind = "complete"
    BY <1>1, <1>4, <2>1 DEF Fail, ErasesOnFailure
  <2>2. CASE job.kind # "complete"
    BY <1>4, <2>2 DEF Fail
  <2> QED
    BY <2>1, <2>2
<1>5. ASSUME NEW s \in SessionIds, NEW m \in Models, NEW turns, NEW temporary,
             NewSession(s, m, turns, temporary)
      PROVE  Goal
  BY <1>5 DEF NewSession, With
<1>6. ASSUME NEW s \in SessionIds, ResetSession(s) PROVE Goal
  BY <1>6 DEF ResetSession
<1>7. ASSUME NEW stopped \in BOOLEAN, ChatDone(stopped) PROVE Goal
  BY <1>7 DEF ChatDone
<1>8. CASE Arrive
  <2>1. ASSUME NEW s \in SessionIds, NEW m \in Models, CreateSession(s, m) PROVE Goal
    BY <1>5, <2>1 DEF CreateSession
  <2>2. ASSUME NEW s \in SessionIds, NEW m \in Models, NEW turns \in 0..MaxTurns - 1, NEW keep \in Keeps,
               Complete(s, m, turns, keep)
        PROVE  Goal
    BY <1>5, <2>2 DEF Complete
  <2> QED
    BY <1>2, <1>6, <1>8, <2>1, <2>2 DEF Arrive, InstallModel, RemoveModel, UnloadModel, ChatUnknown,
              LoadModel, Chat, Converse, Inspect
<1>9. CASE Work
  BY <1>3, <1>4, <1>7, <1>9 DEF Work, LoadHit, LoadMiss, RoomMade, RuntimeLoad, MakeRoom, Measured,
              Embed, Prepare, ContextHit, ContextEvict, ContextCreate, ConverseDone, Release,
              SweepExpired, SweepPressure, SweepReleased, Maintained, EvictWeights, IdleTick
<1> QED
  BY <1>8, <1>9 DEF Next, Tick, vars

\* Contexts go on belonging to a session of their model, or to the model in
\* their key.
LEMMA OwnedStep ==
    ASSUME IndInv, [Next]_vars
    PROVE  ContextsAreOwned'
<1>1. ASSUME NEW k \in DOMAIN cache', k \in DOMAIN cache, cache'[k].model = cache[k].model
      PROVE  IF k \in SessionIds THEN k \in DOMAIN sessions' /\ cache'[k].model = sessions'[k].model
             ELSE cache'[k].model = k[1]
  <2>1. CASE k \in SessionIds
    <3>1. k \in DOMAIN sessions /\ cache[k].model = sessions[k].model
      BY <1>1, <2>1 DEF IndInv, ContextsAreOwned
    <3>2. k \in DOMAIN sessions'
      BY <1>1, <3>1, SessionsTakeContexts
    <3>3. sessions'[k].model = sessions[k].model
      BY <3>1, <3>2, SessionsStep DEF SessionsFollow
    <3> QED
      BY <1>1, <2>1, <3>1, <3>2, <3>3
  <2>2. CASE k \notin SessionIds
    BY <1>1, <2>2 DEF IndInv, ContextsAreOwned
  <2> QED
    BY <2>1, <2>2
<1>2. CASE CacheShrinks
  BY <1>1, <1>2 DEF CacheShrinks, ContextsAreOwned
<1>3. CASE ContextCreate
  <2>1. /\ job.key \in SessionIds =>
              job.key \in DOMAIN sessions' /\ sessions'[job.key].model = job.model
        /\ job.key \notin SessionIds => job.key[1] = job.model
    BY <1>3, Generates DEF ContextCreate
  <2>2. \A k \in DOMAIN cache' : IF k = job.key THEN cache'[k].model = job.model
                                 ELSE k \in DOMAIN cache /\ cache'[k].model = cache[k].model
    BY <1>3 DEF ContextCreate, CacheInsert, With
  <2> QED
    BY <1>1, <2>1, <2>2 DEF ContextsAreOwned
<1>4. ASSUME NEW stopped \in BOOLEAN, ContextHit \/ ChatDone(stopped) \/ ConverseDone(stopped)
      PROVE  ContextsAreOwned'
  BY <1>1, <1>4, TouchedEntries DEF ContextsAreOwned
<1> QED
  BY <1>2, <1>3, <1>4, CacheEffects DEF CacheEffect

\* No context outlives the weights it belongs to.
LEMMA ContextsLiveStep ==
    ASSUME IndInv, [Next]_vars
    PROVE  ContextsOfLiveModels'
<1> DEFINE Live(k) == /\ cache[k].model \in DOMAIN runtimes
                      /\ cache[k].tokens = runtimes[cache[k].model]
                      /\ cache[k].model # victim
<1>0. \A k \in DOMAIN cache : Live(k)
  BY DEF IndInv, ContextsOfLiveModels
<1>1. CASE CacheShrinks
  <2> USE <1>0, <1>1 DEF CacheShrinks, ContextsOfLiveModels
  <2>1. CASE UNCHANGED <<installed, tables>>
    BY <2>1 DEF tables
  <2>2. ASSUME NEW m \in Models, NEW complete \in BOOLEAN, InstallModel(m) \/ RemoveModel(m, complete)
      PROVE  ContextsOfLiveModels'
    BY <2>2 DEF InstallModel, RemoveModel
  <2>3. ASSUME NEW m \in Models, EvictBegin(m) PROVE ContextsOfLiveModels'
    <3>1. \A k \in DOMAIN cache' : k \in DOMAIN cache /\ cache[k].model # m
      BY <2>3 DEF EvictBegin, CacheEraseModel, EraseKeys, KeysOf, Without
    <3> QED
      BY <2>3, <3>1 DEF EvictBegin
  <2>4. CASE RuntimeLoad
    BY <2>4 DEF RuntimeLoad, Register, With, IndInv, Flow, TablesAgree
  <2>5. CASE EvictWeights
    <3>1. \A k \in DOMAIN cache : cache[k].model # NoModel
      BY ModelAssumption DEF IndInv, TypeOK, CacheTypes
    <3> QED
      BY <2>5, <3>1 DEF EvictWeights, EvictEnd, Without
  <2>6. CASE LoadHit \/ Release \/ Tick
    BY <2>6 DEF LoadHit, Release, Tick
  <2> QED
    BY <2>1, <2>2, <2>3, <2>4, <2>5, <2>6, ModelEffects DEF ModelEffect
<1>2. CASE ContextCreate
  <2>1. runtimes' = runtimes /\ victim' = victim
    BY <1>2 DEF ContextCreate, modelVars
  <2>2. job.model \in DOMAIN runtimes /\ job.model # victim
    BY <1>2, Generates, ModelAssumption DEF ContextCreate
  <2>3. \A k \in DOMAIN cache' :
          IF k = job.key
          THEN cache'[k].model = job.model /\ cache'[k].tokens = runtimes[job.model]
          ELSE k \in DOMAIN cache /\ cache'[k] = cache[k]
    BY <1>2 DEF ContextCreate, CacheInsert, With
  <2> QED
    BY <1>0, <2>1, <2>2, <2>3 DEF ContextsOfLiveModels
<1>3. ASSUME NEW stopped \in BOOLEAN, ContextHit \/ ChatDone(stopped) \/ ConverseDone(stopped)
      PROVE  ContextsOfLiveModels'
  <2>1. runtimes' = runtimes /\ victim' = victim
    BY <1>3 DEF ContextHit, ChatDone, ConverseDone, modelVars
  <2> QED
    BY <1>0, <1>3, <2>1, TouchedEntries DEF ContextsOfLiveModels
<1> QED
  BY <1>1, <1>2, <1>3, CacheEffects DEF CacheEffect
-----------------------------------------------------------------------------
(* What is remembered can be loaded.                                       *)

\* What is remembered goes on being loadable.
LEMMA RememberedLoadableStep ==
    ASSUME IndInv, ModelEffect
    PROVE  RememberedIsLoadable'
<1> DEFINE Good(m, context) == /\ context \in 2..ContextLength[m]
                               /\ context <= MaxContextTokens
                               /\ EstimateMemory(m, context) <= Budget
<1>0. \A m \in DOMAIN remembered : Good(m, remembered[m].context)
  BY DEF IndInv, RememberedIsLoadable
<1>1. ASSUME \A m \in DOMAIN remembered' :
               m \in DOMAIN remembered /\ remembered'[m].context = remembered[m].context
      PROVE  RememberedIsLoadable'
  <2>1. \A m \in DOMAIN remembered' : Good(m, remembered'[m].context)
    BY <1>0, <1>1
  <2> QED
    BY <2>1 DEF RememberedIsLoadable, EstimateMemory, KvReservation, ContextSlots
<1>2. CASE RuntimeLoad
  <2>1. Good(job.model, job.context)
    BY <1>2, ModelAssumption DEF RuntimeLoad, IndInv, Flow, Loadable, TypeOK, WorkerTypes
  <2>2. \A m \in DOMAIN remembered' :
          IF m = job.model THEN remembered'[m].context = job.context
          ELSE m \in DOMAIN remembered /\ remembered'[m] = remembered[m]
    BY <1>2 DEF RuntimeLoad, Register, With
  <2>3. \A m \in DOMAIN remembered' : Good(m, remembered'[m].context)
    BY <1>0, <2>1, <2>2
  <2> QED
    BY <2>3 DEF RememberedIsLoadable, EstimateMemory, KvReservation, ContextSlots
<1>3. CASE LoadHit
  BY <1>1, <1>3 DEF LoadHit, IndInv, TypeOK, ModelTypes
<1>4. CASE Release
  BY <1>1, <1>4 DEF Release, IndInv, TypeOK, ModelTypes
<1>5. ASSUME NEW m \in Models, NEW complete \in BOOLEAN,
               InstallModel(m) \/ RemoveModel(m, complete) \/ EvictBegin(m)
      PROVE  RememberedIsLoadable'
  BY <1>1, <1>5 DEF InstallModel, RemoveModel, EvictBegin, Without
<1>6. CASE UNCHANGED <<installed, tables>> \/ EvictWeights \/ Tick
  BY <1>1, <1>6 DEF tables, EvictWeights, EvictEnd, Tick
<1> QED
  BY <1>2, <1>3, <1>4, <1>5, <1>6 DEF ModelEffect

-----------------------------------------------------------------------------
(* What a context has seen.                                                *)

\* A context that is being fed is the one in hand, any other has seen the committed
\* history of its session.
Seen ==
    \A k \in DOMAIN cache :
        IF cache[k].seen = Partial THEN pc = "generate" /\ k = job.key
        ELSE k \in DOMAIN sessions => cache[k].seen = sessions[k].turns

\* What is not to stay belongs to the request that is under way.
Passing ==
    /\ \A s \in DOMAIN sessions :
           sessions[s].temporary => pc \in Underway /\ job.kind = "complete" /\ job.key = s
    /\ \A m \in Models : <<m, Once>> \in DOMAIN cache => pc = "generate" /\ job.key = <<m, Once>>

\* A generation goes on, comes to one of two good ends, or takes its context with it.
LEMMA GenerationEnds ==
    ASSUME IndInv, [Next]_vars, pc = "generate"
    PROVE  \/ pc' = "generate" /\ job' = job /\ cache' = cache /\ sessions' = sessions
           \/ \E stopped \in BOOLEAN : ChatDone(stopped) \/ ConverseDone(stopped)
           \/ /\ CacheErase(job.key) /\ CacheShrinks /\ job.key \notin DOMAIN cache'
              /\ sessions' = IF job.kind = "complete" THEN Without(sessions, {job.key}) ELSE sessions
<1>1. victim = NoModel /\ job.kind \in Generating
  BY DEF IndInv, Flow
<1>2. CacheErase(job.key) => CacheShrinks /\ job.key \notin DOMAIN cache'
  BY EraseShrinks DEF CacheErase, EraseKeys, Without
<1>3. CASE Arrive
  BY <1>3 DEF Arrive, InstallModel, RemoveModel, UnloadModel, CreateSession, ResetSession, CloseSession,
              ChatUnknown, LoadModel, Chat, Complete, Converse, Inspect
<1>4. CASE Fail
  BY <1>1, <1>2, <1>4 DEF Fail, ErasesOnFailure, Generating, Leased
<1>5. CASE CompleteDone
  BY <1>2, <1>5 DEF CompleteDone
<1>6. CASE Work
  BY <1>1, <1>4, <1>5, <1>6 DEF Work, LoadHit, LoadMiss, RoomMade, RuntimeLoad, MakeRoom, Measured, Embed,
              Prepare, ContextHit, ContextEvict, ContextCreate, Release, Maintaining,
              SweepExpired, SweepPressure, SweepReleased, Maintained, EvictWeights, IdleTick
<1>7. CASE Tick \/ UNCHANGED vars
  BY <1>7 DEF Tick, vars, cacheVars
<1> QED
  BY <1>3, <1>6, <1>7 DEF Next

\* The turns of a session that keeps its context change only when a chat is committed.
LEMMA TurnsKeep ==
    ASSUME IndInv, [Next]_vars, NEW s \in DOMAIN sessions' \cap DOMAIN cache'
    PROVE  \/ s \in DOMAIN sessions /\ sessions'[s].turns = sessions[s].turns
           \/ \E stopped \in BOOLEAN : ChatDone(stopped)
           \/ ContextCreate
<1> DEFINE Goal == \/ s \in DOMAIN sessions /\ sessions'[s].turns = sessions[s].turns
                   \/ \E stopped \in BOOLEAN : ChatDone(stopped)
                   \/ ContextCreate
<1>1. CASE sessions' = sessions
  BY <1>1
<1>2. ASSUME NEW t, NEW m, NEW turns, NEW temporary, NewSession(t, m, turns, temporary), cache' = cache
      PROVE  Goal
  <2>1. t \notin DOMAIN sessions
    BY <1>2 DEF NewSession
  <2>2. DOMAIN sessions' = DOMAIN sessions \cup {t} /\ \A q \in DOMAIN sessions : sessions'[q] = sessions[q]
    BY <1>2 DEF NewSession, With
  <2>3. s \in SessionIds
    BY SessionsStep DEF SessionTypes
  <2>4. s \in DOMAIN sessions
    BY <1>2, <2>3 DEF IndInv, ContextsAreOwned
  <2> QED
    BY <2>2, <2>4
<1>3. ASSUME NEW t, sessions' = Without(sessions, {t}) PROVE Goal
  BY <1>3 DEF Without
<1>4. ASSUME NEW t \in SessionIds, ResetSession(t) PROVE Goal
  <2>1. DOMAIN sessions' = DOMAIN sessions /\ \A q \in DOMAIN sessions : q # t => sessions'[q] = sessions[q]
    BY <1>4 DEF ResetSession
  <2>2. t \notin DOMAIN cache'
    BY <1>4 DEF ResetSession, CacheErase, EraseKeys, Without
  <2> QED
    BY <2>1, <2>2
<1>5. CASE Arrive
  <2>1. ASSUME NEW t \in SessionIds, NEW m \in Models, CreateSession(t, m) PROVE Goal
    BY <1>2, <2>1 DEF CreateSession, cacheVars
  <2>2. ASSUME NEW t \in SessionIds, NEW m \in Models, NEW turns \in 0..MaxTurns - 1, NEW keep \in Keeps,
               Complete(t, m, turns, keep)
        PROVE  Goal
    BY <1>2, <2>2 DEF Complete, Begin, cacheVars
  <2>3. ASSUME NEW t \in SessionIds, CloseSession(t) PROVE Goal
    BY <1>3, <2>3 DEF CloseSession
  <2> QED
    BY <1>1, <1>4, <1>5, <2>1, <2>2, <2>3 DEF Arrive, InstallModel, RemoveModel, UnloadModel, ChatUnknown,
              LoadModel, Chat, Converse, Inspect
<1>6. CASE Work
  <2>1. CASE CompleteDone \/ Fail
    BY <1>1, <1>3, <2>1 DEF CompleteDone, Fail
  <2> QED
    BY <1>1, <1>6, <2>1 DEF Work, LoadHit, LoadMiss, RoomMade, RuntimeLoad, MakeRoom, Measured,
              Embed, Prepare, ContextHit, ContextEvict, ConverseDone, Release,
              SweepExpired, SweepPressure, SweepReleased, Maintained, EvictWeights, IdleTick
<1> QED
  BY <1>1, <1>5, <1>6 DEF Next, Tick, vars

\* No step leaves a context behind that has seen something else than its history.
LEMMA SeenStep ==
    ASSUME IndInv, Seen, [Next]_vars
    PROVE  Seen'
<1> DEFINE Good(k) == IF cache'[k].seen = Partial THEN pc' = "generate" /\ k = job'.key
                      ELSE k \in DOMAIN sessions' => cache'[k].seen = sessions'[k].turns
<1> SUFFICES ASSUME NEW k \in DOMAIN cache' PROVE Good(k)
  BY DEF Seen
<1>1. ASSUME NEW stopped \in BOOLEAN, ChatDone(stopped) PROVE Good(k)
  <2>1. pc = "generate" /\ job.key \in DOMAIN sessions /\ job.kept + 1 \in 0 .. MaxTurns /\ MaxTurns \in Nat
    BY <1>1, ServiceAssumption, Generates DEF ChatDone, IndInv, Keyed
  <2>2. /\ sessions' = [sessions EXCEPT ![job.key].turns = job.kept + 1]
        /\ IF stopped THEN CacheErase(job.key) ELSE CacheSettle(job.key, job.kept + 1)
    BY <1>1 DEF ChatDone
  <2>3. k \in DOMAIN cache /\ (k # job.key => cache'[k] = cache[k])
        /\ (k = job.key => cache'[k].seen = job.kept + 1)
    <3>1. CASE stopped
      BY <2>2, <3>1 DEF CacheErase, EraseKeys, Without
    <3>2. CASE ~stopped
      BY <2>2, <3>2 DEF CacheSettle, IndInv, TypeOK, CacheTypes
    <3> QED
      BY <3>1, <3>2
  <2>4. DOMAIN sessions' = DOMAIN sessions /\ (k \in DOMAIN sessions /\ k # job.key => sessions'[k] = sessions[k])
        /\ sessions'[job.key].turns = job.kept + 1
    BY <2>1, <2>2 DEF IndInv, TypeOK, SessionTypes
  <2>5. job.kept + 1 # Partial
    BY <2>1 DEF Partial
  <2>6. CASE k = job.key
    BY <2>3, <2>4, <2>5, <2>6
  <2>7. CASE k # job.key
    <3>1. cache[k].seen # Partial /\ cache'[k] = cache[k]
      BY <2>3, <2>7 DEF Seen
    <3> QED
      BY <2>3, <2>4, <2>7, <3>1 DEF Seen
  <2> QED
    BY <2>6, <2>7
<1>2. ASSUME NEW stopped \in BOOLEAN, ConverseDone(stopped) PROVE Good(k)
  <2>1. pc = "generate" /\ job.key \notin DOMAIN sessions /\ sessions' = sessions
    <3>1. pc = "generate" /\ job.key \in ConversationKeys /\ sessions' = sessions
      BY <1>2 DEF ConverseDone, IndInv, Keyed
    <3>2. job.key \notin DOMAIN sessions
      BY <3>1, ServiceAssumption DEF IndInv, TypeOK, SessionTypes
    <3> QED
      BY <3>1, <3>2
  <2>2. k \in DOMAIN cache /\ (k # job.key => cache'[k] = cache[k]) /\ (k = job.key => cache'[k].seen = 0)
    <3>1. CacheErase(job.key) \/ CacheSettle(job.key, 0)
      BY <1>2 DEF ConverseDone
    <3>2. CASE CacheErase(job.key)
      BY <3>2 DEF CacheErase, EraseKeys, Without
    <3>3. CASE CacheSettle(job.key, 0)
      BY <3>3 DEF CacheSettle, IndInv, TypeOK, CacheTypes
    <3> QED
      BY <3>1, <3>2, <3>3
  <2>3. CASE k = job.key
    BY <2>1, <2>2, <2>3 DEF Partial
  <2>4. CASE k # job.key
    BY <2>1, <2>2, <2>4 DEF Seen
  <2> QED
    BY <2>3, <2>4
<1>3. CASE ContextHit \/ ContextCreate
  <2>1. pc = "context" /\ pc' = "generate" /\ job' = job /\ sessions' = sessions
    BY <1>3 DEF ContextHit, ContextCreate
  <2>2. CASE k = job.key
    <3>1. cache'[k].seen = Partial
      BY <1>3, <2>2 DEF ContextHit, CacheTouch, ContextCreate, CacheInsert, With,
                        IndInv, TypeOK, CacheTypes
    <3> QED
      BY <2>1, <2>2, <3>1
  <2>3. CASE k # job.key
    <3>1. k \in DOMAIN cache /\ cache'[k] = cache[k]
      BY <1>3, <2>3 DEF ContextHit, CacheTouch, ContextCreate, CacheInsert, With
    <3> QED
      BY <2>1, <3>1 DEF Seen
  <2> QED
    BY <2>2, <2>3
<1>4. ASSUME ~ContextHit, ~ContextCreate,
             ~ \E stopped \in BOOLEAN : ChatDone(stopped) \/ ConverseDone(stopped)
      PROVE  Good(k)
  <2>1. k \in DOMAIN cache /\ cache'[k] = cache[k]
    BY <1>4, CacheEffects DEF CacheEffect, CacheShrinks
  <2>2. CASE cache[k].seen = Partial
    <3>1. pc = "generate" /\ k = job.key
      BY <2>1, <2>2 DEF Seen
    <3> QED
      BY <1>4, <2>1, <2>2, <3>1, GenerationEnds
  <2>3. CASE cache[k].seen # Partial
    <3>1. k \in DOMAIN sessions' => k \in DOMAIN sessions /\ sessions'[k].turns = sessions[k].turns
      BY <1>4, TurnsKeep
    <3> QED
      BY <2>1, <2>3, <3>1 DEF Seen
  <2> QED
    BY <2>2, <2>3
<1> QED
  BY <1>1, <1>2, <1>3, <1>4

\* Only a completion makes a temporary session.
LEMMA TemporaryStays ==
    ASSUME IndInv, [Next]_vars, NEW s \in DOMAIN sessions', sessions'[s].temporary,
           ~ \E t \in SessionIds, m \in Models, turns \in 0..MaxTurns - 1, keep \in Keeps :
                 Complete(t, m, turns, keep)
    PROVE  s \in DOMAIN sessions /\ sessions[s].temporary
<1> DEFINE Goal == s \in DOMAIN sessions /\ sessions[s].temporary
<1>1. CASE sessions' = sessions
  BY <1>1
<1>2. ASSUME NEW t, sessions' = Without(sessions, {t}) PROVE Goal
  BY <1>2 DEF Without
<1>3. ASSUME NEW t \in DOMAIN sessions, NEW n, sessions' = [sessions EXCEPT ![t].turns = n] PROVE Goal
  BY <1>3 DEF IndInv, TypeOK, SessionTypes
<1>4. CASE Arrive
  <2>1. ASSUME NEW t \in SessionIds, NEW m \in Models, CreateSession(t, m) PROVE Goal
    BY <2>1 DEF CreateSession, NewSession, With
  <2>2. ASSUME NEW t \in SessionIds, ResetSession(t) \/ CloseSession(t) PROVE Goal
    BY <1>2, <1>3, <2>2 DEF ResetSession, CloseSession
  <2> QED
    BY <1>1, <1>4, <2>1, <2>2 DEF Arrive, InstallModel, RemoveModel, UnloadModel, ChatUnknown,
              LoadModel, Chat, Converse, Inspect
<1>5. CASE Work
  <2>1. CASE CompleteDone \/ Fail
    BY <1>1, <1>2, <2>1 DEF CompleteDone, Fail
  <2>2. ASSUME NEW stopped \in BOOLEAN, ChatDone(stopped) PROVE Goal
    BY <1>3, <2>2 DEF ChatDone, IndInv, Keyed
  <2> QED
    BY <1>1, <1>5, <2>1, <2>2 DEF Work, LoadHit, LoadMiss, RoomMade, RuntimeLoad, MakeRoom, Measured,
              Embed, Prepare, ContextHit, ContextEvict, ContextCreate, ConverseDone, Release,
              SweepExpired, SweepPressure, SweepReleased, Maintained, EvictWeights, IdleTick
<1> QED
  BY <1>1, <1>4, <1>5 DEF Next, Tick, vars

\* Temporary sessions and contexts without an id go with their request.
LEMMA PassingStep ==
    ASSUME IndInv, Passing, [Next]_vars
    PROVE  Passing'
<1>1. ASSUME NEW m \in Models, <<m, Once>> \in DOMAIN cache'
      PROVE  pc' = "generate" /\ job'.key = <<m, Once>>
  <2> DEFINE k == <<m, Once>>
  <2>0. k \in ConversationKeys /\ k \notin SessionIds /\ k[1] = m
    BY ServiceAssumption DEF ConversationKeys
  <2> HIDE DEF k
  <2>1. CASE ContextHit \/ ContextCreate
    <3>1. pc = "context" /\ pc' = "generate" /\ job' = job
      BY <2>1 DEF ContextHit, ContextCreate
    <3>2. k = job.key \/ k \in DOMAIN cache
      BY <1>1, <2>1 DEF ContextHit, CacheTouch, ContextCreate, CacheInsert, With, k
    <3> QED
      BY <3>1, <3>2 DEF Passing, k
  <2>2. CASE ~ContextHit /\ ~ContextCreate
    <3>1. k \in DOMAIN cache
      BY <1>1, <2>2, CacheEffects, TouchedEntries DEF CacheEffect, CacheShrinks, k
    <3>2. pc = "generate" /\ job.key = k
      BY <3>1 DEF Passing, k
    <3>3. ASSUME NEW stopped \in BOOLEAN, ChatDone(stopped) PROVE FALSE
      BY <2>0, <3>2, <3>3 DEF ChatDone, IndInv, Keyed, TypeOK, SessionTypes
    <3>4. ASSUME NEW stopped \in BOOLEAN, ConverseDone(stopped) PROVE FALSE
      <4>1. job.key[1] = job.model
        BY <3>2, <3>4 DEF ConverseDone, IndInv, Keyed
      <4>2. job.key = <<job.model, Once>>
        BY <2>0, <3>2, <4>1 DEF k
      <4>3. CacheErase(job.key)
        BY <3>4, <4>2 DEF ConverseDone
      <4> QED
        BY <1>1, <3>2, <4>3 DEF CacheErase, EraseKeys, Without, k
    <3> QED
      BY <1>1, <3>2, <3>3, <3>4, GenerationEnds DEF k
  <2> QED
    BY <2>1, <2>2
<1>2. ASSUME NEW s \in DOMAIN sessions', sessions'[s].temporary
      PROVE  pc' \in Underway /\ job'.kind = "complete" /\ job'.key = s
  <2> DEFINE Goal == pc' \in Underway /\ job'.kind = "complete" /\ job'.key = s
  <2>1. ASSUME s \in DOMAIN sessions, sessions[s].temporary, pc \in Underway, job.kind = "complete", job.key = s
        PROVE  Goal
    <3>1. CASE CompleteDone \/ Fail
      BY <1>2, <2>1, <3>1 DEF CompleteDone, Fail, Without
    <3>2. CASE Work
      BY <2>1, <3>1, <3>2 DEF Work, LoadHit, LoadMiss, RoomMade, RuntimeLoad, MakeRoom, Measured, Embed, Prepare,
         ContextHit, ContextEvict, ContextCreate, ChatDone, ConverseDone, Release, SweepExpired, SweepPressure,
         SweepReleased, Maintained, EvictWeights, IdleTick, Maintaining, Underway, Leasing, Generating,
         IndInv, TypeOK, WorkerTypes
    <3>3. CASE Arrive
      BY <2>1, <3>3 DEF Underway, Arrive, InstallModel, RemoveModel, UnloadModel, CreateSession, ResetSession,
         CloseSession, ChatUnknown, LoadModel, Chat, Complete, Converse, Inspect
    <3>4. CASE Tick \/ UNCHANGED vars
      BY <2>1, <3>4 DEF Tick, vars
    <3> QED
      BY <3>2, <3>3, <3>4 DEF Next
  <2>2. CASE \E t \in SessionIds, m \in Models, turns \in 0..MaxTurns - 1, keep \in Keeps : Complete(t, m, turns, keep)
    <3>1. PICK t \in SessionIds, m \in Models, turns \in 0..MaxTurns - 1, keep \in Keeps : Complete(t, m, turns, keep)
      BY <2>2
    <3>2. pc = "idle" /\ pc' = "load" /\ job'.kind = "complete" /\ job'.key = t
      BY <3>1 DEF Complete, Begin
    <3>3. s = t \/ (s \in DOMAIN sessions /\ sessions'[s] = sessions[s])
      BY <3>1 DEF Complete, NewSession, With
    <3> QED
      BY <1>2, <3>2, <3>3 DEF Passing, Underway
  <2>3. CASE ~ \E t \in SessionIds, m \in Models, turns \in 0..MaxTurns - 1, keep \in Keeps : Complete(t, m, turns, keep)
    <3>1. s \in DOMAIN sessions /\ sessions[s].temporary
      BY <1>2, <2>3, TemporaryStays
    <3> QED
      BY <2>1, <3>1 DEF Passing
  <2> QED
    BY <2>2, <2>3
<1> QED
  BY <1>1, <1>2 DEF Passing

-----------------------------------------------------------------------------
(* Theorems.                                                               *)

\* The inductive invariant holds at first, when nothing is loaded or cached.
LEMMA InitInv == Init => IndInv
<1> SUFFICES ASSUME Init PROVE IndInv OBVIOUS
<1> USE DEF Init, CacheInit, ModelInit
<1>1. TypeOK
  BY ServiceAssumption DEF TypeOK, ModelTypes, SessionTypes, CacheTypes, WorkerTypes, NoJob, Keeps
<1>2. Flow /\ Keyed /\ InHand
  BY DEF Flow, Keyed, InHand, Leased, NoJob, Leasing, Generating
<1>3. TablesAgree /\ LeaseIsHeld /\ RememberedIsCurrent /\ RememberedIsLoadable /\ UsedIsInstalled
  BY DEF TablesAgree, LeaseIsHeld, RememberedIsCurrent, RememberedIsLoadable, UsedIsInstalled, Leased
<1>4. ContextsOfLiveModels /\ ContextsAreOwned
  BY DEF ContextsOfLiveModels, ContextsAreOwned
<1> QED
  BY <1>1, <1>2, <1>3, <1>4 DEF IndInv

\* Every step preserves it.
LEMMA StepInv == IndInv /\ [Next]_vars => IndInv'
<1> SUFFICES ASSUME IndInv, [Next]_vars PROVE IndInv' OBVIOUS
<1>1. ModelEffect
  BY ModelEffects
<1>2. TypeOK'
  BY <1>1, ModelTypesStep, SessionsStep, CacheTypesStep, WorkerStep DEF TypeOK
<1>3. TablesAgree' /\ RememberedIsCurrent' /\ RememberedIsLoadable'
  BY <1>1, TablesStep, RememberedStep, RememberedLoadableStep
<1> QED
  BY <1>2, <1>3, WorkerStep, KeyedStep, LeaseStep, InstalledStep, ContextsLiveStep,
     OwnedStep
     DEF IndInv

\* The inductive invariant of the service.
THEOREM ServiceInvariant == Spec => []IndInv
  BY InitInv, StepInv, PTL DEF Spec

\* Every variable keeps its type.
THEOREM ServiceTypes == Spec => []TypeOK
<1>1. IndInv => TypeOK
  BY DEF IndInv
<1> QED
  BY <1>1, ServiceInvariant, PTL

\* runtimes_, residency_ and loaded_ agree, at every step of every request.
THEOREM TablesAlwaysAgree == Spec => []TablesAgree
<1>1. IndInv => TablesAgree
  BY DEF IndInv
<1> QED
  BY <1>1, ServiceInvariant, PTL

\* A model has exactly the lease of the request that is using it, so release() never
\* throws on the worker and no model in use is evicted.
THEOREM LeasesBalance == Spec => []LeaseIsHeld
<1>1. IndInv => LeaseIsHeld
  BY DEF IndInv
<1> QED
  BY <1>1, ServiceInvariant, PTL

\* Contexts are destroyed before the weights of their model, whatever evicts it.
THEOREM ContextsDieFirst == Spec => []ContextsOfLiveModels
<1>1. IndInv => ContextsOfLiveModels
  BY DEF IndInv
<1> QED
  BY <1>1, ServiceInvariant, PTL

\* A cached context belongs to a live session of its model or to a conversation.
THEOREM ContextsHaveOwners == Spec => []ContextsAreOwned
<1>1. IndInv => ContextsAreOwned
  BY DEF IndInv
<1> QED
  BY <1>1, ServiceInvariant, PTL

\* Nothing in use is removed from the catalog.
THEOREM InUseStaysInstalled == Spec => []UsedIsInstalled
<1>1. IndInv => UsedIsInstalled
  BY DEF IndInv
<1> QED
  BY <1>1, ServiceInvariant, PTL

\* remembered_ follows the configuration of every loaded model ...
THEOREM RememberedFollows == Spec => []RememberedIsCurrent
<1>1. IndInv => RememberedIsCurrent
  BY DEF IndInv
<1> QED
  BY <1>1, ServiceInvariant, PTL

\* ... and never holds one that load() would refuse.
THEOREM RememberedCanReturn == Spec => []RememberedIsLoadable
<1>1. IndInv => RememberedIsLoadable
  BY DEF IndInv
<1> QED
  BY <1>1, ServiceInvariant, PTL

\* A kept context has seen its session's committed history, and nothing temporary stays,
\* however requests end.
THEOREM HistoriesMatch == Spec => []ContextsMatchHistory
<1>1. Init => Seen /\ Passing
  BY DEF Init, CacheInit, Seen, Passing
<1>2. IndInv /\ Seen /\ Passing /\ [Next]_vars => Seen' /\ Passing'
  BY SeenStep, PassingStep
<1>3. Seen /\ Passing => ContextsMatchHistory
  BY DEF Seen, Passing, ContextsMatchHistory, Underway
<1> QED
  BY <1>1, <1>2, <1>3, ServiceInvariant, PTL DEF Spec

-----------------------------------------------------------------------------
(* The configuration a model comes back with.                              *)

\* What is remembered of a model is what it had when it was last in memory.
HadIsRemembered == \A m \in DOMAIN had : m \in DOMAIN remembered /\ remembered[m] = had[m]

\* A load is about to use what its request asks for and, where that is left open, what
\* is remembered.
AskedIsUsed ==
    /\ pc = "load" => job.context = asked.context /\ job.keep = asked.keep
    /\ pc \in {"room", "loading"} /\ job.model \in DOMAIN remembered =>
           /\ asked.context = 0 => job.context = remembered[job.model].context
           /\ asked.keep = Unset => job.keep = remembered[job.model].keepAlive

\* No step changes what is remembered of a model that is not in memory, unless it
\* removes that model.
LEMMA RememberedStays ==
    ASSUME IndInv, ModelEffect,
           NEW m \in DOMAIN remembered, m \notin DOMAIN loaded', m \notin Removed
    PROVE  m \in DOMAIN remembered' /\ remembered'[m] = remembered[m]
<1>0. m \in Models
  BY DEF IndInv, TypeOK, ModelTypes
<1>1. CASE UNCHANGED <<installed, tables>> \/ EvictWeights \/ Tick
  BY <1>1 DEF tables, EvictWeights, EvictEnd, Tick
<1>2. ASSUME NEW n \in Models, InstallModel(n) \/ EvictBegin(n)
      PROVE  remembered' = remembered
  BY <1>2 DEF InstallModel, EvictBegin
<1>3. ASSUME NEW n \in Models, NEW complete \in BOOLEAN, RemoveModel(n, complete)
      PROVE  m \in DOMAIN remembered' /\ remembered'[m] = remembered[m]
  <2>1. CASE ~complete
    BY <1>3, <2>1 DEF RemoveModel
  <2>2. CASE complete
    <3>1. RemoveModel(n, TRUE)
      BY <1>3, <2>2
    <3>2. m # n
      BY <1>0, <3>1 DEF Removed
    <3> QED
      BY <3>1, <3>2 DEF RemoveModel, Without
  <2> QED
    BY <2>1, <2>2
<1>4. CASE LoadHit
  BY <1>4 DEF LoadHit
<1>5. CASE RuntimeLoad
  BY <1>5 DEF RuntimeLoad, Register, With
<1>6. CASE Release
  <2>1. job.model \in DOMAIN loaded /\ loaded' = loaded
    BY <1>6 DEF Release, IndInv, LeaseIsHeld, TablesAgree, Leased
  <2> QED
    BY <1>6, <2>1 DEF Release
<1> QED
  BY <1>1, <1>2, <1>3, <1>4, <1>5, <1>6 DEF ModelEffect

LEMMA HadStep ==
    ASSUME IndInv, RememberedIsCurrent', ModelEffect, RecordModels, HadIsRemembered
    PROVE  HadIsRemembered'
<1> SUFFICES ASSUME NEW m \in DOMAIN had'
             PROVE  m \in DOMAIN remembered' /\ remembered'[m] = had'[m]
  BY DEF HadIsRemembered
<1>1. CASE m \in DOMAIN loaded'
  BY <1>1 DEF RecordModels, RememberedIsCurrent
<1>2. CASE m \notin DOMAIN loaded'
  <2>1. m \in DOMAIN had /\ m \notin Removed /\ had'[m] = had[m]
    BY <1>2 DEF RecordModels
  <2> QED
    BY <1>2, <2>1, RememberedStays DEF HadIsRemembered
<1> QED
  BY <1>1, <1>2

LEMMA AskedStep ==
    ASSUME IndInv, Next, RecordRequest, AskedIsUsed
    PROVE  AskedIsUsed'
<1>0. WorkerTypes /\ Flow
  BY DEF IndInv, TypeOK
<1>1. ASSUME pc' \notin {"load", "room", "loading"} PROVE AskedIsUsed'
  BY <1>1 DEF AskedIsUsed
<1>2. ASSUME pc = "idle", pc' \notin {"room", "loading"} PROVE AskedIsUsed'
  BY <1>2 DEF AskedIsUsed, RecordRequest
<1>3. ASSUME pc # "idle", UNCHANGED <<job, remembered>>,
             pc' = pc \/ (pc = "room" /\ pc' = "loading")
      PROVE  AskedIsUsed'
  BY <1>3 DEF AskedIsUsed, RecordRequest
<1>4. CASE Arrive
  <2>1. pc = "idle" /\ pc' \notin {"room", "loading"}
    BY <1>4 DEF Arrive, InstallModel, RemoveModel, UnloadModel, CreateSession, ResetSession,
              CloseSession, ChatUnknown, LoadModel, Chat, Complete, Converse, Inspect, Begin,
              GoMaintain
  <2> QED
    BY <1>2, <2>1
<1>5. CASE Work
  <2>1. CASE LoadMiss
    BY <1>0, <2>1 DEF LoadMiss, ContextFor, KeepAliveFor, WorkerTypes, modelVars, AskedIsUsed,
                      RecordRequest
  <2>2. CASE EvictWeights \/ RoomMade \/ (\E m \in Models : MakeRoom(m))
    BY <1>0, <1>3, <2>2 DEF EvictWeights, EvictEnd, RoomMade, MakeRoom, EvictBegin, modelVars, Flow
  <2>3. CASE \/ LoadHit \/ RuntimeLoad \/ Measured \/ Embed \/ ContextHit \/ ContextEvict
             \/ ContextCreate \/ CompleteDone \/ Fail \/ Release \/ SweepReleased \/ Maintained
             \/ IdleTick
             \/ \E m \in Models : SweepExpired(m) \/ SweepPressure(m)
             \/ \E kept \in 0..MaxTurns - 1 : Prepare(kept)
             \/ \E stopped \in BOOLEAN : ChatDone(stopped) \/ ConverseDone(stopped)
    BY <1>1, <2>3 DEF LoadHit, RuntimeLoad, Measured, Embed, ContextHit, ContextEvict, ContextCreate,
              CompleteDone, Fail, Release, SweepReleased, Maintained, IdleTick, SweepExpired,
              SweepPressure, Prepare, ChatDone, ConverseDone, GoMaintain, Maintaining
  <2> QED
    BY <1>5, <2>1, <2>2, <2>3 DEF Work
<1>6. CASE Tick
  <2>1. UNCHANGED <<pc, job, remembered>>
    BY <1>6 DEF Tick
  <2> QED
    BY <1>2, <1>3, <2>1
<1> QED
  BY <1>4, <1>5, <1>6 DEF Next

\* Only RuntimeLoad brings a model back.
LEMMA ComesBack ==
    ASSUME IndInv, ModelEffect, NEW m \in DOMAIN loaded', m \notin DOMAIN loaded
    PROVE  RuntimeLoad /\ m = job.model
<1>1. CASE RuntimeLoad
  BY <1>1 DEF RuntimeLoad, Register, With
<1>2. ASSUME NEW n \in Models, NEW complete \in BOOLEAN,
             InstallModel(n) \/ RemoveModel(n, complete) \/ EvictBegin(n)
      PROVE  FALSE
  BY <1>2 DEF InstallModel, RemoveModel, EvictBegin
<1>3. CASE UNCHANGED <<installed, tables>> \/ LoadHit \/ Release \/ EvictWeights \/ Tick
  BY <1>3 DEF tables, LoadHit, Release, EvictWeights, EvictEnd, Without, Tick
<1> QED
  BY <1>1, <1>2, <1>3 DEF ModelEffect

\* The history of Service is a history of steps of Service.
LEMMA HistoryFollows == HistorySpec => []IndInv
<1>1. HistoryInit => Init
  BY DEF HistoryInit
<1>2. [HistoryNext]_historyVars => [Next]_vars
  BY DEF HistoryNext, historyVars
<1>3. HistorySpec => Spec
  BY <1>1, <1>2, PTL DEF HistorySpec, Spec
<1> QED
  BY <1>3, ServiceInvariant, PTL

\* A model that comes back has the configuration it had when it was last in memory, as far
\* as the request leaves it open, whatever happened to it or to others in between.
THEOREM ReloadsKeepConfiguration == HistorySpec => ReloadKeepsConfiguration
<1> DEFINE Same == \A m \in DOMAIN had \cap (DOMAIN loaded' \ DOMAIN loaded) :
                     /\ asked.context = 0 => loaded'[m] = had[m].context
                     /\ asked.keep = Unset => residency'[m].keepAlive = had[m].keepAlive
<1>1. HistoryInit => HadIsRemembered /\ AskedIsUsed
  BY DEF HistoryInit, Init, HadIsRemembered, AskedIsUsed
<1>2. ASSUME IndInv, IndInv', HadIsRemembered, AskedIsUsed, [HistoryNext]_historyVars
      PROVE  HadIsRemembered' /\ AskedIsUsed'
  <2>1. CASE HistoryNext
    <3>1. ModelEffect
      BY <1>2, <2>1, ModelEffects DEF HistoryNext
    <3>2. RememberedIsCurrent'
      BY <1>2 DEF IndInv
    <3> QED
      BY <1>2, <2>1, <3>1, <3>2, HadStep, AskedStep DEF HistoryNext
  <2>2. CASE UNCHANGED historyVars
    BY <1>2, <2>2 DEF historyVars, vars, modelVars, HadIsRemembered, AskedIsUsed
  <2> QED
    BY <1>2, <2>1, <2>2
<1>3. ASSUME IndInv, HadIsRemembered, AskedIsUsed, [HistoryNext]_historyVars
      PROVE  [Same]_historyVars
  <2> SUFFICES ASSUME HistoryNext, NEW m \in DOMAIN had, m \in DOMAIN loaded', m \notin DOMAIN loaded
               PROVE  /\ asked.context = 0 => loaded'[m] = had[m].context
                      /\ asked.keep = Unset => residency'[m].keepAlive = had[m].keepAlive
    BY <1>3
  <2>1. RuntimeLoad /\ m = job.model
    BY <1>3, ModelEffects, ComesBack DEF HistoryNext
  <2>2. loaded'[m] = job.context /\ residency'[m].keepAlive = job.keep /\ pc = "loading"
    BY <2>1 DEF RuntimeLoad, Register, With
  <2>3. m \in DOMAIN remembered /\ remembered[m] = had[m]
    BY <1>3 DEF HadIsRemembered
  <2> QED
    BY <1>3, <2>1, <2>2, <2>3 DEF AskedIsUsed
<1> QED
  BY <1>1, <1>2, <1>3, HistoryFollows, PTL DEF HistorySpec, ReloadKeepsConfiguration

-----------------------------------------------------------------------------
(* Sums over finite sets.                                                  *)

\* Among some subsets of a finite set there is one that no other is a part of.
LEMMA SmallestSubset ==
    ASSUME NEW S, IsFiniteSet(S), NEW T \in SUBSET SUBSET S, T # {}
    PROVE  \E t \in T : \A u \in T : u \subseteq t => u = t
<1>1. T \subseteq FiniteSubsetsOf(S)
  BY FS_FiniteSubsetsOfFinite
<1>2. \E t \in T : \A u \in T : ~(<<u, t>> \in StrictSubsetOrdering(S))
  BY <1>1, FS_StrictSubsetOrderingWellFounded, WFMin, Zenon
<1> QED
  BY <1>2 DEF StrictSubsetOrdering

\* A set that has every subset of S whose smaller ones it has, has all of them.
LEMMA SubsetInduction ==
    ASSUME NEW S, IsFiniteSet(S), NEW A,
           \A t \in SUBSET S : (\A u \in SUBSET t : u # t => u \in A) => t \in A
    PROVE  \A t \in SUBSET S : t \in A
<1> DEFINE Out == {t \in SUBSET S : t \notin A}
<1> SUFFICES ASSUME Out # {} PROVE FALSE
  OBVIOUS
<1>1. PICK t \in Out : \A u \in Out : u \subseteq t => u = t
  <2> HIDE DEF Out
  <2>1. Out \in SUBSET SUBSET S
    BY DEF Out
  <2> QED
    BY <2>1, SmallestSubset
<1> QED
  BY <1>1

\* The member that a fold takes next.
Picked(s) == CHOOSE x \in s : TRUE

\* g adds f up over the subset s, a member at a time.
Step(f, g, s) == IF s = {} THEN 0 ELSE f[Picked(s)] + g[s \ {Picked(s)}]

\* Numbers, one after the other.
LEMMA Induction ==
    ASSUME NEW S \in SUBSET Nat, 0 \in S, \A n \in S : n + 1 \in S
    PROVE  \A n \in Nat : n \in S
<1> SUFFICES ASSUME NEW x \in Nat \ S PROVE FALSE
  OBVIOUS
<1>1. PICK n \in Nat \ S : \A y \in Nat \ S : ~(<<y, n>> \in OpToRel(<, Nat))
  <2>1. Nat \ S \subseteq Nat /\ Nat \ S # {}
    OBVIOUS
  <2> QED
    BY <2>1, NatLessThanWellFounded, WFMin, Zenon
<1>2. n # 0 /\ n \in Nat /\ n \notin S
  BY <1>1, Zenon
<1>3. n - 1 \in Nat /\ n - 1 < n /\ (n - 1) + 1 = n
  BY <1>2
<1>4. <<n - 1, n>> \in OpToRel(<, Nat)
  BY <1>2, <1>3, Zenon DEF OpToRel
<1>5. n - 1 \in S
  BY <1>1, <1>3, <1>4, Zenon
<1> QED
  BY <1>2, <1>3, <1>5, Zenon

\* A function adds f up over every subset of a finite set, ...
LEMMA AddingUp ==
    ASSUME NEW S, IsFiniteSet(S), NEW f
    PROVE  \E g : g = [s \in SUBSET S |-> Step(f, g, s)]
<1> DEFINE Below(n) == {s \in SUBSET S : Cardinality(s) < n}
           Good == {n \in Nat : \E g : \A s \in Below(n) : g[s] = Step(f, g, s)}
<1>1. \A s \in SUBSET S : Cardinality(s) \in Nat /\ Cardinality(s) <= Cardinality(S)
  BY FS_Subset, FS_CardinalityType
<1>2. 0 \in Good
  BY <1>1
<1>3. ASSUME NEW n \in Good PROVE n + 1 \in Good
  <2>1. PICK g : \A s \in Below(n) : g[s] = Step(f, g, s)
    OBVIOUS
  <2> DEFINE h == [s \in SUBSET S |-> Step(f, g, s)]
  <2>2. ASSUME NEW s \in Below(n + 1) PROVE h[s] = Step(f, h, s)
    <3>1. CASE s = {}
      BY <3>1 DEF Step
    <3>2. CASE s # {}
      <4> DEFINE t == s \ {Picked(s)}
      <4>1. Picked(s) \in s
        BY <3>2 DEF Picked
      <4>2. Cardinality(t) = Cardinality(s) - 1
        BY <4>1, FS_Subset, FS_RemoveElement
      <4>3. t \in Below(n)
        BY <1>1, <4>2
      <4>4. h[t] = g[t]
        BY <2>1, <4>3
      <4> QED
        BY <3>2, <4>4 DEF Step
    <3> QED
      BY <3>1, <3>2
  <2>3. n + 1 \in Nat
    OBVIOUS
  <2>4. \E k : \A s \in Below(n + 1) : k[s] = Step(f, k, s)
    <3> HIDE DEF h, Below
    <3> QED
      BY <2>2
  <2> QED
    BY <2>3, <2>4
<1>4. Cardinality(S) + 1 \in Good
  <2>1. Cardinality(S) + 1 \in Nat
    BY <1>1
  <2> HIDE DEF Good
  <2>2. Good \in SUBSET Nat
    BY DEF Good
  <2> QED
    BY <1>2, <1>3, <2>1, <2>2, Induction
<1>5. PICK g : \A s \in SUBSET S : g[s] = Step(f, g, s)
  <2>1. Below(Cardinality(S) + 1) = SUBSET S
    BY <1>1
  <2> QED
    BY <1>4, <2>1
<1> DEFINE h == [s \in SUBSET S |-> g[s]]
<1>6. \A s \in SUBSET S : Step(f, h, s) = Step(f, g, s)
  BY DEF Step
<1>7. h = [s \in SUBSET S |-> Step(f, h, s)]
  BY <1>5, <1>6
<1> QED
  BY <1>7

\* ... and a sum is its value for the whole set.
LEMMA SumByFunction ==
    ASSUME NEW S, IsFiniteSet(S), NEW f
    PROVE  \E g : g = [s \in SUBSET S |-> Step(f, g, s)] /\ SumFunctionOnSet(f, S) = g[S]
<1> DEFINE g == CHOOSE g : g = [s \in SUBSET S |-> Step(f, g, s)]
<1>1. g = [s \in SUBSET S |-> Step(f, g, s)]
  BY AddingUp
<1>2. SumFunctionOnSet(f, S) = g[S]
  BY DEF SumFunctionOnSet, FoldFunctionOnSet, MapThenFoldSet, Step, Picked
<1> QED
  BY <1>1, <1>2

\* A sum is a first term and the sum of the rest.
LEMMA SumUnfolds ==
    ASSUME NEW S, IsFiniteSet(S), NEW f
    PROVE  /\ S = {} => SumFunctionOnSet(f, S) = 0
           /\ S # {} => /\ Picked(S) \in S
                        /\ SumFunctionOnSet(f, S) =
                             f[Picked(S)] + SumFunctionOnSet(f, S \ {Picked(S)})
<1> DEFINE T == S \ {Picked(S)}
<1>1. PICK g : g = [s \in SUBSET S |-> Step(f, g, s)] /\ SumFunctionOnSet(f, S) = g[S]
  BY SumByFunction
<1>2. CASE S = {}
  BY <1>1, <1>2 DEF Step
<1>3. CASE S # {}
  <2>1. IsFiniteSet(T)
    BY FS_RemoveElement
  <2>2. PICK h : h = [s \in SUBSET T |-> Step(f, h, s)] /\ SumFunctionOnSet(f, T) = h[T]
    BY <2>1, SumByFunction
  <2> DEFINE Same == {t \in SUBSET T : h[t] = g[t]}
  <2>3. ASSUME NEW t \in SUBSET T, \A u \in SUBSET t : u # t => u \in Same PROVE t \in Same
    <3>1. g[t] = Step(f, g, t) /\ h[t] = Step(f, h, t)
      BY <1>1, <2>2
    <3>2. t # {} => t \ {Picked(t)} \in Same
      BY <2>3 DEF Picked
    <3> QED
      BY <3>1, <3>2 DEF Step
  <2>4. T \in Same
    <3>1. T \in SUBSET T
      OBVIOUS
    <3> HIDE DEF T, Same
    <3>2. \A t \in SUBSET T : (\A u \in SUBSET t : u # t => u \in Same) => t \in Same
      BY <2>3
    <3>3. \A t \in SUBSET T : t \in Same
      BY <2>1, <3>2, SubsetInduction, Zenon
    <3> QED
      BY <3>1, <3>3
  <2>5. Picked(S) \in S
    BY <1>3 DEF Picked
  <2>6. g[S] = f[Picked(S)] + g[T]
    BY <1>1, <1>3 DEF Step
  <2> QED
    BY <1>1, <1>3, <2>2, <2>4, <2>5, <2>6
<1> QED
  BY <1>2, <1>3

\* A sum of natural numbers is one.
LEMMA SumIsNat ==
    ASSUME NEW S, IsFiniteSet(S), NEW f, \A x \in S : f[x] \in Nat
    PROVE  SumFunctionOnSet(f, S) \in Nat
<1> DEFINE A == {t \in SUBSET S : SumFunctionOnSet(f, t) \in Nat}
<1>1. ASSUME NEW t \in SUBSET S, \A u \in SUBSET t : u # t => u \in A PROVE t \in A
  <2>1. IsFiniteSet(t)
    BY FS_Subset
  <2>2. CASE t # {}
    <3>1. t \ {Picked(t)} \in A /\ f[Picked(t)] \in Nat
      BY <1>1, <2>1, <2>2, SumUnfolds
    <3>2. SumFunctionOnSet(f, t) = f[Picked(t)] + SumFunctionOnSet(f, t \ {Picked(t)})
      BY <2>1, <2>2, SumUnfolds
    <3>3. SumFunctionOnSet(f, t) \in Nat
      BY <3>1, <3>2
    <3> QED
      BY <3>3
  <2> QED
    BY <2>1, <2>2, SumUnfolds
<1>2. \A t \in SUBSET S : (\A u \in SUBSET t : u # t => u \in A) => t \in A
  BY <1>1
<1> HIDE DEF A
<1>3. \A t \in SUBSET S : t \in A
  BY <1>2, SubsetInduction, Zenon
<1> QED
  BY <1>3 DEF A

\* Whatever the order a fold takes the members in, any of them can be taken first.
LEMMA SumTakesOut ==
    ASSUME NEW S, IsFiniteSet(S), NEW f, \A x \in S : f[x] \in Nat, NEW x \in S
    PROVE  SumFunctionOnSet(f, S) = f[x] + SumFunctionOnSet(f, S \ {x})
<1> DEFINE Total(t) == SumFunctionOnSet(f, t)
           A == {t \in SUBSET S : \A y \in t : Total(t) = f[y] + Total(t \ {y})}
<1>0. \A t \in SUBSET S : IsFiniteSet(t) /\ Total(t) \in Nat
  <2>1. ASSUME NEW t \in SUBSET S PROVE IsFiniteSet(t) /\ Total(t) \in Nat
    <3>1. IsFiniteSet(t)
      BY FS_Subset
    <3> QED
      BY <3>1, SumIsNat
  <2> QED
    BY <2>1
<1>1. ASSUME NEW t \in SUBSET S, \A u \in SUBSET t : u # t => u \in A PROVE t \in A
  <2> SUFFICES ASSUME NEW y \in t PROVE Total(t) = f[y] + Total(t \ {y})
    OBVIOUS
  <2> DEFINE c == Picked(t)
             r == t \ {c, y}
  <2>1. c \in t /\ Total(t) = f[c] + Total(t \ {c})
    BY <1>0, SumUnfolds
  <2>2. CASE y # c
    <3>1. t \ {c} \in A /\ y \in t \ {c} /\ (t \ {c}) \ {y} = r
      BY <1>1, <2>1, <2>2
    <3>2. t \ {y} \in A /\ c \in t \ {y} /\ (t \ {y}) \ {c} = r
      BY <1>1, <2>1, <2>2
    <3>3. Total(t \ {c}) = f[y] + Total(r) /\ Total(t \ {y}) = f[c] + Total(r)
      BY <3>1, <3>2
    <3>4. Total(r) \in Nat /\ f[c] \in Nat /\ f[y] \in Nat
      BY <1>0, <2>1
    <3> HIDE DEF Total, c, r
    <3> QED
      BY <2>1, <3>3, <3>4
  <2> QED
    BY <2>1, <2>2
<1>2. \A t \in SUBSET S : (\A u \in SUBSET t : u # t => u \in A) => t \in A
  BY <1>1
<1>3. \A t \in SUBSET S : t \in A
  <2> HIDE DEF A
  <2> QED
    BY <1>2, SubsetInduction, Zenon
<1> QED
  BY <1>3

\* Sums are smaller term by term.
LEMMA SumsCompare ==
    ASSUME NEW S, IsFiniteSet(S), NEW f, NEW g, NEW h,
           \A x \in S : f[x] \in Nat /\ g[x] \in Nat /\ h[x] \in Nat /\ f[x] + g[x] <= h[x]
    PROVE  SumFunctionOnSet(f, S) + SumFunctionOnSet(g, S) <= SumFunctionOnSet(h, S)
<1> DEFINE Total(k, t) == SumFunctionOnSet(k, t)
           A == {t \in SUBSET S : Total(f, t) + Total(g, t) <= Total(h, t)}
<1>1. ASSUME NEW t \in SUBSET S, \A u \in SUBSET t : u # t => u \in A PROVE t \in A
  <2>1. IsFiniteSet(t)
    BY FS_Subset
  <2>2. CASE t = {}
    <3>1. Total(f, t) = 0 /\ Total(g, t) = 0 /\ Total(h, t) = 0
      BY <2>1, <2>2, SumUnfolds
    <3> QED
      BY <3>1
  <2>3. CASE t # {}
    <3> DEFINE c == Picked(t)
               r == t \ {c}
    <3>1. c \in t /\ \A k : Total(k, t) = k[c] + Total(k, r)
      BY <2>1, <2>3, SumUnfolds
    <3>2. r \in A
      BY <1>1, <3>1
    <3>3. Total(f, r) \in Nat /\ Total(g, r) \in Nat /\ Total(h, r) \in Nat
      <4>1. IsFiniteSet(r)
        BY <2>1, FS_RemoveElement
      <4> QED
        BY <4>1, SumIsNat
    <3>4. Total(f, r) + Total(g, r) <= Total(h, r)
      BY <3>2
    <3>5. f[c] \in Nat /\ g[c] \in Nat /\ h[c] \in Nat /\ f[c] + g[c] <= h[c]
      BY <3>1
    <3>6. Total(f, t) + Total(g, t) <= Total(h, t)
      <4> HIDE DEF Total, c, r
      <4> QED
        BY <3>1, <3>3, <3>4, <3>5
    <3> QED
      BY <3>6
  <2> QED
    BY <2>2, <2>3
<1>2. \A t \in SUBSET S : (\A u \in SUBSET t : u # t => u \in A) => t \in A
  BY <1>1
<1>3. \A t \in SUBSET S : t \in A
  <2> HIDE DEF A
  <2> QED
    BY <1>2, SubsetInduction, Zenon
<1> QED
  BY <1>3

\* Only the terms count.
LEMMA SumsAgree ==
    ASSUME NEW S, IsFiniteSet(S), NEW f, NEW g, \A x \in S : f[x] = g[x]
    PROVE  SumFunctionOnSet(f, S) = SumFunctionOnSet(g, S)
<1> DEFINE A == {t \in SUBSET S : SumFunctionOnSet(f, t) = SumFunctionOnSet(g, t)}
<1>1. ASSUME NEW t \in SUBSET S, \A u \in SUBSET t : u # t => u \in A PROVE t \in A
  <2>1. IsFiniteSet(t)
    BY FS_Subset
  <2>2. t # {} => t \ {Picked(t)} \in A /\ f[Picked(t)] = g[Picked(t)]
    BY <1>1, <2>1, SumUnfolds
  <2> QED
    BY <2>1, <2>2, SumUnfolds
<1>2. \A t \in SUBSET S : (\A u \in SUBSET t : u # t => u \in A) => t \in A
  BY <1>1
<1>3. \A t \in SUBSET S : t \in A
  <2> HIDE DEF A
  <2> QED
    BY <1>2, SubsetInduction, Zenon
<1> QED
  BY <1>3

\* Two sums of different terms are one.
LEMMA SumsJoin ==
    ASSUME NEW S, IsFiniteSet(S), NEW T, IsFiniteSet(T), S \cap T = {},
           NEW f, \A x \in S \cup T : f[x] \in Nat
    PROVE  SumFunctionOnSet(f, S \cup T) = SumFunctionOnSet(f, S) + SumFunctionOnSet(f, T)
<1> DEFINE Total(t) == SumFunctionOnSet(f, t)
           A == {t \in SUBSET T : Total(S \cup t) = Total(S) + Total(t)}
<1>0. IsFiniteSet(S \cup T) /\ \A t \in SUBSET (S \cup T) : IsFiniteSet(t) /\ Total(t) \in Nat
  <2>1. IsFiniteSet(S \cup T)
    BY FS_Union
  <2>2. ASSUME NEW t \in SUBSET (S \cup T) PROVE IsFiniteSet(t) /\ Total(t) \in Nat
    <3>1. IsFiniteSet(t)
      BY <2>1, FS_Subset
    <3> QED
      BY <3>1, SumIsNat
  <2> QED
    BY <2>1, <2>2
<1>1. ASSUME NEW t \in SUBSET T, \A u \in SUBSET t : u # t => u \in A PROVE t \in A
  <2>1. CASE t = {}
    <3>1. Total(t) = 0 /\ S \cup t = S /\ Total(S) \in Nat
      BY <1>0, <2>1, SumUnfolds
    <3> QED
      BY <2>1, <3>1
  <2>2. CASE t # {}
    <3>1. PICK x : x \in t
      BY <2>2
    <3> DEFINE r == t \ {x}
    <3>2. r \in A /\ (S \cup t) \ {x} = S \cup r
      BY <1>1, <3>1
    <3>3. Total(S \cup t) = f[x] + Total(S \cup r)
      <4>1. IsFiniteSet(S \cup t) /\ x \in S \cup t
        BY <1>0, <3>1
      <4> QED
        BY <3>2, <4>1, SumTakesOut
    <3>4. Total(t) = f[x] + Total(r)
      BY <1>0, <3>1, SumTakesOut
    <3>5. Total(S) \in Nat /\ Total(r) \in Nat /\ f[x] \in Nat /\ Total(S \cup r) = Total(S) + Total(r)
      BY <1>0, <3>1, <3>2
    <3>6. Total(S \cup t) = Total(S) + Total(t)
      <4> HIDE DEF Total, r
      <4> QED
        BY <3>3, <3>4, <3>5
    <3> QED
      BY <3>6
  <2> QED
    BY <2>1, <2>2
<1>2. \A t \in SUBSET T : (\A u \in SUBSET t : u # t => u \in A) => t \in A
  BY <1>1
<1>3. \A t \in SUBSET T : t \in A
  <2> HIDE DEF A
  <2> QED
    BY <1>2, SubsetInduction, Zenon
<1> QED
  BY <1>3

\* The part of S that c assigns to m.
PartOf(S, c, m) == {x \in S : c[x] = m}

\* A sum can be taken in parts.
LEMMA SumOfParts ==
    ASSUME NEW S, IsFiniteSet(S), NEW D, IsFiniteSet(D), NEW c, \A x \in S : c[x] \in D,
           NEW f, \A x \in S : f[x] \in Nat,
           NEW g, \A m \in D : g[m] = SumFunctionOnSet(f, PartOf(S, c, m))
    PROVE  SumFunctionOnSet(g, D) = SumFunctionOnSet(f, S)
<1> DEFINE Part(t) == {x \in S : c[x] \in t}
           A == {t \in SUBSET D : SumFunctionOnSet(g, t) = SumFunctionOnSet(f, Part(t))}
<1>0. \A t : IsFiniteSet(Part(t))
  BY FS_Subset
<1>g. \A m \in D : g[m] = SumFunctionOnSet(f, Part({m})) /\ g[m] \in Nat
  <2>1. ASSUME NEW m \in D PROVE g[m] = SumFunctionOnSet(f, Part({m})) /\ g[m] \in Nat
    <3>1. Part({m}) = PartOf(S, c, m)
      BY DEF PartOf
    <3>2. SumFunctionOnSet(f, Part({m})) \in Nat
      BY <1>0, SumIsNat
    <3> QED
      BY <3>1, <3>2
  <2> QED
    BY <2>1
<1>1. ASSUME NEW t \in SUBSET D, \A u \in SUBSET t : u # t => u \in A PROVE t \in A
  <2>0. IsFiniteSet(t)
    BY FS_Subset
  <2>1. CASE t = {}
    <3>1. Part(t) = {} /\ IsFiniteSet({})
      BY <2>1, FS_EmptySet
    <3> QED
      BY <2>1, <3>1, SumUnfolds
  <2>2. CASE t # {}
    <3>1. PICK m : m \in t
      BY <2>2
    <3> DEFINE r == t \ {m}
    <3>2. r \in A
      BY <1>1, <3>1
    <3>3. SumFunctionOnSet(g, t) = g[m] + SumFunctionOnSet(g, r)
      BY <1>g, <2>0, <3>1, SumTakesOut
    <3>4. Part({m}) \cap Part(r) = {} /\ Part(t) = Part({m}) \cup Part(r)
      BY <3>1
    <3>5. SumFunctionOnSet(f, Part(t)) = SumFunctionOnSet(f, Part({m})) + SumFunctionOnSet(f, Part(r))
      <4> DEFINE p == Part({m})
                 q == Part(r)
      <4>1. (\A x \in p \cup q : f[x] \in Nat) /\ IsFiniteSet(p) /\ IsFiniteSet(q)
        BY <1>0
      <4>2. p \cap q = {} /\ Part(t) = p \cup q
        BY <3>4
      <4> HIDE DEF p, q
      <4>3. SumFunctionOnSet(f, p \cup q) = SumFunctionOnSet(f, p) + SumFunctionOnSet(f, q)
        BY <4>1, <4>2, SumsJoin
      <4> QED
        BY <4>2, <4>3 DEF p, q
    <3> QED
      BY <1>g, <3>1, <3>2, <3>3, <3>5
  <2> QED
    BY <2>1, <2>2
<1>2. \A t \in SUBSET D : (\A u \in SUBSET t : u # t => u \in A) => t \in A
  BY <1>1
<1>3. \A t \in SUBSET D : t \in A
  <2> HIDE DEF A
  <2> QED
    BY <1>2, SubsetInduction, Zenon
<1>4. Part(D) = S
  OBVIOUS
<1> QED
  BY <1>3, <1>4

\* A sum of equal terms is a product.
LEMMA SumOfEquals ==
    ASSUME NEW S, IsFiniteSet(S), NEW n \in Nat, NEW f, \A x \in S : f[x] = n
    PROVE  SumFunctionOnSet(f, S) = n * Cardinality(S)
<1> DEFINE A == {t \in SUBSET S : SumFunctionOnSet(f, t) = n * Cardinality(t)}
<1>1. ASSUME NEW t \in SUBSET S, \A u \in SUBSET t : u # t => u \in A PROVE t \in A
  <2>0. IsFiniteSet(t) /\ Cardinality(t) \in Nat
    BY FS_Subset, FS_CardinalityType
  <2>1. CASE t = {}
    <3>1. Cardinality(t) = 0 /\ SumFunctionOnSet(f, t) = 0
      BY <2>0, <2>1, FS_EmptySet, SumUnfolds
    <3> QED
      BY <3>1
  <2>2. CASE t # {}
    <3> DEFINE x == Picked(t)
               r == t \ {x}
    <3>1. x \in t /\ SumFunctionOnSet(f, t) = f[x] + SumFunctionOnSet(f, r)
      BY <2>0, <2>2, SumUnfolds
    <3>2. Cardinality(r) = Cardinality(t) - 1
      BY <2>0, <3>1, FS_RemoveElement
    <3>3. SumFunctionOnSet(f, r) = n * Cardinality(r) /\ f[x] = n
      BY <1>1, <3>1
    <3>4. \A k \in Int : n + n * (k - 1) = n * k
      OBVIOUS
    <3> QED
      BY <2>0, <3>1, <3>2, <3>3, <3>4
  <2> QED
    BY <2>1, <2>2
<1>2. \A t \in SUBSET S : (\A u \in SUBSET t : u # t => u \in A) => t \in A
  BY <1>1
<1>3. \A t \in SUBSET S : t \in A
  <2> HIDE DEF A
  <2> QED
    BY <1>2, SubsetInduction, Zenon
<1> QED
  BY <1>3

-----------------------------------------------------------------------------
(* Memory.                                                                 *)

\* The cache stays within its limits, and counts right.
CacheWithin ==
    /\ IsFiniteSet(DOMAIN cache)
    /\ Cardinality(DOMAIN cache) <= MaxContexts
    /\ reserved = TokensOf(DOMAIN cache)
    /\ reserved <= MaxContextTokens

\* The models stay within theirs, ...
ModelsWithin ==
    /\ IsFiniteSet(DOMAIN residency)
    /\ Cardinality(DOMAIN residency) <= MaxModels
    /\ Bytes <= Budget

\* ... each with the reservation that its context size asks for, ...
ReservedAsEstimated ==
    \A m \in DOMAIN residency : residency[m].bytes = EstimateMemory(m, loaded[m])

\* ... and the room made for one more is still there when it comes.
RoomStaysMade == pc = "loading" => Fits(EstimateMemory(job.model, job.context), Unknown)

MemoryInv == CacheWithin /\ ModelsWithin /\ ReservedAsEstimated /\ RoomStaysMade

\* What a step does to the entries and their reservations.
ReservedEffect ==
    \/ UNCHANGED <<cache, reserved>>
    \/ \E K \in SUBSET DOMAIN cache : EraseKeys(K)
    \/ \E k, seen : cache' = [cache EXCEPT ![k].seen = seen] /\ reserved' = reserved
    \/ ContextCreate

\* Every step does one of these.
LEMMA ReservedEffects ==
    ASSUME [Next]_vars PROVE ReservedEffect
<1>0. ASSUME UNCHANGED cacheVars PROVE ReservedEffect
  BY <1>0 DEF cacheVars, ReservedEffect
<1>a. ASSUME NEW k, CacheErase(k) PROVE ReservedEffect
  BY <1>a DEF CacheErase, ReservedEffect
<1>b. ASSUME NEW m, CacheEraseModel(m) PROVE ReservedEffect
  BY <1>b DEF CacheEraseModel, KeysOf, ReservedEffect
<1>c. ASSUME NEW m, EvictBegin(m) PROVE ReservedEffect
  BY <1>b, <1>c DEF EvictBegin
<1>d. ASSUME NEW k, NEW seen, CacheSettle(k, seen) PROVE ReservedEffect
  BY <1>d DEF CacheSettle, ReservedEffect
<1>1. CASE UNCHANGED vars
  BY <1>0, <1>1 DEF vars
<1>2. CASE Arrive
  BY <1>0, <1>a, <1>c, <1>2 DEF Arrive, InstallModel, RemoveModel, UnloadModel, CreateSession,
     ResetSession, CloseSession, ChatUnknown, LoadModel, Chat, Complete, Converse, Inspect, Begin
<1>3. CASE Work
  <2>1. CASE ContextHit
    BY <2>1 DEF ContextHit, CacheTouch, ReservedEffect
  <2>2. CASE ContextEvict
    BY <2>2 DEF ContextEvict, CacheEvictOldest, ReservedEffect
  <2>3. CASE ContextCreate
    BY <2>3 DEF ReservedEffect
  <2>4. CASE \E stopped \in BOOLEAN : ChatDone(stopped) \/ ConverseDone(stopped)
    BY <1>a, <1>d, <2>4 DEF ChatDone, ConverseDone
  <2>5. CASE Fail \/ CompleteDone \/ Embed
    BY <1>0, <1>a, <1>b, <2>5 DEF Fail, CompleteDone, Embed
  <2>6. CASE \E m \in Models : MakeRoom(m) \/ SweepExpired(m) \/ SweepPressure(m)
    BY <1>c, <2>6 DEF MakeRoom, SweepExpired, SweepPressure
  <2>7. CASE \/ LoadHit \/ LoadMiss \/ RoomMade \/ RuntimeLoad \/ Measured \/ Release
             \/ SweepReleased \/ Maintained \/ EvictWeights \/ IdleTick
             \/ \E kept \in 0..MaxTurns - 1 : Prepare(kept)
    BY <1>0, <2>7 DEF LoadHit, LoadMiss, RoomMade, RuntimeLoad, Measured, Release, SweepReleased,
              Maintained, EvictWeights, IdleTick, Prepare
  <2> QED
    BY <1>3, <2>1, <2>2, <2>3, <2>4, <2>5, <2>6, <2>7 DEF Work
<1>4. CASE Tick
  BY <1>0, <1>4 DEF Tick
<1> QED
  BY <1>1, <1>2, <1>3, <1>4 DEF Next

\* The tokens of the cached contexts, by key.
Held == [k \in DOMAIN cache |-> cache[k].tokens]

\* Their sums are natural numbers, and over fewer contexts smaller.
LEMMA HeldSums ==
    ASSUME CacheTypes, IsFiniteSet(DOMAIN cache), NEW K \in SUBSET DOMAIN cache
    PROVE  /\ IsFiniteSet(K)
           /\ SumFunctionOnSet(Held, K) \in Nat
           /\ SumFunctionOnSet(Held, DOMAIN cache \ K) \in Nat
           /\ SumFunctionOnSet(Held, DOMAIN cache) =
                SumFunctionOnSet(Held, K) + SumFunctionOnSet(Held, DOMAIN cache \ K)
<1> DEFINE R == DOMAIN cache \ K
<1>1. \A k \in K \cup R : Held[k] \in Nat
  BY DEF Held, CacheTypes
<1>2. IsFiniteSet(K) /\ IsFiniteSet(R)
  BY FS_Subset
<1>3. K \cap R = {} /\ K \cup R = DOMAIN cache
  OBVIOUS
<1> HIDE DEF R
<1>4. SumFunctionOnSet(Held, K \cup R) = SumFunctionOnSet(Held, K) + SumFunctionOnSet(Held, R)
  BY <1>1, <1>2, <1>3, SumsJoin
<1>5. SumFunctionOnSet(Held, K) \in Nat /\ SumFunctionOnSet(Held, R) \in Nat
  BY <1>1, <1>2, SumIsNat
<1> QED
  BY <1>2, <1>3, <1>4, <1>5 DEF R

\* The cache goes on counting right.
LEMMA CacheWithinStep ==
    ASSUME IndInv, CacheWithin, [Next]_vars
    PROVE  CacheWithin'
<1> DEFINE D == DOMAIN cache
<1>0. CacheTypes /\ CacheTypes' /\ IsFiniteSet(D) /\ Cardinality(D) \in Nat
      /\ MaxContexts \in Nat \ {0} /\ MaxContextTokens \in Nat
  BY StepInv, FS_CardinalityType, CacheLimitsAssumption DEF IndInv, TypeOK, CacheWithin
<1>1. TokensOf(D) = SumFunctionOnSet(Held, D) /\ reserved = SumFunctionOnSet(Held, D)
  BY DEF TokensOf, Held, CacheWithin
<1>2. CASE UNCHANGED <<cache, reserved>>
  BY <1>2 DEF CacheWithin, TokensOf
<1>3. ASSUME NEW K \in SUBSET D, EraseKeys(K) PROVE CacheWithin'
  <2>1. DOMAIN cache' = D \ K /\ \A k \in D \ K : cache'[k] = cache[k]
    BY <1>3 DEF EraseKeys, Without
  <2>2. IsFiniteSet(D \ K) /\ Cardinality(D \ K) <= Cardinality(D) /\ Cardinality(D \ K) \in Nat
    BY <1>0, FS_Subset, FS_CardinalityType
  <2>3. TokensOf(DOMAIN cache)' = SumFunctionOnSet(Held', D \ K)
    BY <2>1 DEF TokensOf, Held
  <2>4. \A k \in D \ K : Held'[k] = Held[k]
    BY <2>1 DEF Held
  <2>5. SumFunctionOnSet(Held', D \ K) = SumFunctionOnSet(Held, D \ K)
    BY <2>2, <2>4, SumsAgree
  <2>6. reserved' = SumFunctionOnSet(Held, D) - SumFunctionOnSet(Held, K)
    BY <1>1, <1>3 DEF EraseKeys, TokensOf, Held
  <2>7. /\ SumFunctionOnSet(Held, K) \in Nat
        /\ SumFunctionOnSet(Held, D \ K) \in Nat
        /\ SumFunctionOnSet(Held, D) = SumFunctionOnSet(Held, K) + SumFunctionOnSet(Held, D \ K)
    BY <1>0, HeldSums
  <2>8. reserved' = SumFunctionOnSet(Held, D \ K) /\ reserved' <= MaxContextTokens
    BY <1>0, <1>1, <2>6, <2>7 DEF CacheWithin
  <2> QED
    BY <1>0, <2>1, <2>2, <2>3, <2>5, <2>8 DEF CacheWithin
<1>4. ASSUME NEW k, NEW seen, cache' = [cache EXCEPT ![k].seen = seen], reserved' = reserved
      PROVE  CacheWithin'
  <2>1. DOMAIN cache' = D /\ \A j \in D : cache'[j].tokens = cache[j].tokens
    BY <1>0, <1>4 DEF CacheTypes
  <2>2. Held' = Held
    BY <2>1 DEF Held
  <2> QED
    BY <1>4, <2>1, <2>2 DEF CacheWithin, TokensOf, Held
<1>5. CASE ContextCreate
  <2> DEFINE n == runtimes[job.model]
  <2>1. /\ job.key \notin D /\ n <= MaxContextTokens /\ reserved' = reserved + n
        /\ DOMAIN cache' = D \cup {job.key}
        /\ cache'[job.key].tokens = n /\ \A k \in D : cache'[k] = cache[k]
        /\ D = {} \/ (Cardinality(D) < MaxContexts /\ reserved <= MaxContextTokens - n)
    <3>1. CacheInsert(job.key, job.model, n) /\ job.key \notin D /\ n <= MaxContextTokens
          /\ ~CacheFull(n)
      BY <1>5 DEF ContextCreate
    <3>2. reserved \in Nat /\ n \in Nat
      <4>1. job.model \in DOMAIN runtimes
        BY <1>5 DEF ContextCreate, IndInv, LeaseIsHeld, TablesAgree, Leased
      <4>2. n \in Nat
        BY <4>1 DEF IndInv, TypeOK, ModelTypes
      <4> QED
        BY <1>0, <1>1, <4>2, HeldSums
    <3> HIDE DEF n
    <3>3. D = {} \/ (Cardinality(D) < MaxContexts /\ reserved <= MaxContextTokens - n)
      <4> DEFINE c == Cardinality(D)
      <4>1. D = {} \/ ~(c >= MaxContexts \/ reserved > MaxContextTokens - n)
        BY <3>1 DEF CacheFull
      <4>2. c \in Nat /\ MaxContexts \in Nat /\ MaxContextTokens \in Nat
        BY <1>0
      <4> HIDE DEF c
      <4>3. D = {} \/ (c < MaxContexts /\ reserved <= MaxContextTokens - n)
        BY <3>2, <4>1, <4>2
      <4> QED
        BY <4>3 DEF c
    <3>4. /\ DOMAIN cache' = D \cup {job.key} /\ reserved' = reserved + n
          /\ cache'[job.key].tokens = n /\ \A k \in D : cache'[k] = cache[k]
      BY <3>1 DEF CacheInsert, With
    <3> QED
      BY <3>1, <3>3, <3>4, Zenon
  <2>2. Cardinality(D \cup {job.key}) = Cardinality(D) + 1 /\ IsFiniteSet(D \cup {job.key})
    BY <1>0, <2>1, FS_AddElement
  <2>3. D = {} => Cardinality(D) = 0 /\ SumFunctionOnSet(Held, D) = 0
    BY <1>0, FS_EmptySet, SumUnfolds
  <2>4. n \in Nat
    BY <1>0, <2>1 DEF CacheTypes
  <2>5. SumFunctionOnSet(Held', D \cup {job.key}) = n + SumFunctionOnSet(Held, D)
    <3>1. \A k \in D \cup {job.key} : Held'[k] \in Nat
      BY <1>0, <2>1 DEF Held, CacheTypes
    <3>2. Held'[job.key] = n /\ (D \cup {job.key}) \ {job.key} = D /\ \A k \in D : Held'[k] = Held[k]
      BY <2>1 DEF Held
    <3>3. SumFunctionOnSet(Held', D \cup {job.key}) =
            Held'[job.key] + SumFunctionOnSet(Held', (D \cup {job.key}) \ {job.key})
      <4> HIDE DEF D
      <4> QED
        BY <2>2, <3>1, SumTakesOut
    <3>4. SumFunctionOnSet(Held', D) = SumFunctionOnSet(Held, D)
      BY <1>0, <3>2, SumsAgree
    <3> QED
      BY <3>2, <3>3, <3>4
  <2>6. SumFunctionOnSet(Held, D) \in Nat
    BY <1>0, HeldSums
  <2>7. TokensOf(DOMAIN cache)' = SumFunctionOnSet(Held', D \cup {job.key})
    BY <2>1 DEF TokensOf, Held
  <2>8. reserved' = TokensOf(DOMAIN cache)' /\ reserved' <= MaxContextTokens
    <3> HIDE DEF n, D
    <3> QED
      BY <1>0, <1>1, <2>1, <2>3, <2>4, <2>5, <2>6, <2>7
  <2>9. Cardinality(D) + 1 <= MaxContexts
    BY <1>0, <2>1, <2>3
  <2> QED
    BY <2>1, <2>2, <2>8, <2>9 DEF CacheWithin
<1> QED
  BY <1>2, <1>3, <1>4, <1>5, ReservedEffects DEF ReservedEffect

\* What each loaded model reserves.
Reservations == [m \in DOMAIN residency |-> residency[m].bytes]

\* Models that keep their reservations keep within the limits.
LEMMA SameReservations ==
    ASSUME ModelsWithin, DOMAIN residency' = DOMAIN residency,
           \A m \in DOMAIN residency : residency'[m].bytes = residency[m].bytes
    PROVE  ModelsWithin' /\ Bytes' = Bytes
<1>1. Bytes' = Bytes
  BY DEF Bytes
<1> QED
  BY <1>1 DEF ModelsWithin

\* The effects on the residency table, by what they do to reservations.
LEMMA ResidencyEffects ==
    ASSUME IndInv, [Next]_vars
    PROVE  \/ /\ DOMAIN residency' = DOMAIN residency /\ loaded' = loaded
              /\ \A m \in DOMAIN residency : residency'[m].bytes = residency[m].bytes
           \/ RuntimeLoad
           \/ EvictWeights
<1>1. ModelEffect /\ ModelTypes
  BY ModelEffects DEF IndInv, TypeOK
<1>2. CASE LoadHit
  <2> DEFINE delta == IF job.kind \in Leasing THEN 1 ELSE 0
  <2>1. job.model \in DOMAIN residency /\ delta \in Int /\ Touch(job.model, job.keep, delta)
    BY <1>2 DEF LoadHit, IndInv, TablesAgree
  <2> HIDE DEF delta
  <2>2. /\ DOMAIN residency' = DOMAIN residency
        /\ \A m \in DOMAIN residency : residency'[m].bytes = residency[m].bytes
    BY <1>1, <2>1, TouchEffect
  <2> QED
    BY <1>2, <2>2 DEF LoadHit
<1>3. CASE Release
  <2>1. job.model \in DOMAIN residency /\ Touch(job.model, Unset, -1)
    BY <1>3 DEF Release, IndInv, LeaseIsHeld, Leased
  <2>2. /\ DOMAIN residency' = DOMAIN residency
        /\ \A m \in DOMAIN residency : residency'[m].bytes = residency[m].bytes
    BY <1>1, <2>1, TouchEffect
  <2> QED
    BY <1>3, <2>2 DEF Release
<1>4. CASE Tick
  BY <1>1, <1>4 DEF Tick, ModelTypes
<1>5. CASE \/ UNCHANGED <<installed, tables>>
           \/ \E m \in Models, complete \in BOOLEAN : InstallModel(m) \/ RemoveModel(m, complete)
           \/ \E m \in Models : EvictBegin(m)
  BY <1>5 DEF tables, InstallModel, RemoveModel, EvictBegin
<1> QED
  BY <1>1, <1>2, <1>3, <1>4, <1>5 DEF ModelEffect

\* The sum of what is reserved is a number.
LEMMA BytesIsNat ==
    ASSUME IndInv, IsFiniteSet(DOMAIN residency)
    PROVE  /\ Reservations \in [DOMAIN residency -> Nat]
           /\ Bytes = SumFunctionOnSet(Reservations, DOMAIN residency)
           /\ Bytes \in Nat
<1>1. Reservations \in [DOMAIN residency -> Nat]
  BY DEF Reservations, IndInv, TypeOK, ModelTypes
<1>2. Bytes = SumFunctionOnSet(Reservations, DOMAIN residency)
  BY DEF Bytes, SumFunction, Reservations
<1>3. SumFunctionOnSet(Reservations, DOMAIN residency) \in Nat
  BY <1>1, SumIsNat
<1> QED
  BY <1>1, <1>2, <1>3

\* A model comes only into room that was made, and leaves with what it reserved.
LEMMA ModelsWithinStep ==
    ASSUME IndInv, ModelsWithin, RoomStaysMade, [Next]_vars
    PROVE  ModelsWithin'
<1> DEFINE D == DOMAIN residency
           R == Reservations
<1>0. /\ IsFiniteSet(D) /\ Cardinality(D) \in Nat /\ Budget \in Nat /\ MaxModels \in Nat
      /\ R \in [D -> Nat] /\ Bytes = SumFunctionOnSet(R, D) /\ Bytes \in Nat
  BY BytesIsNat, FS_CardinalityType, ModelAssumption DEF ModelsWithin
<1>1. IndInv' /\ (IsFiniteSet(DOMAIN residency') =>
         Reservations' \in [DOMAIN residency' -> Nat] /\ Bytes' = SumFunctionOnSet(Reservations', DOMAIN residency'))
  <2>1. IndInv'
    BY StepInv
  <2>2. Reservations' \in [DOMAIN residency' -> Nat]
    BY <2>1 DEF Reservations, IndInv, TypeOK, ModelTypes
  <2>3. Bytes' = SumFunctionOnSet(Reservations', DOMAIN residency')
    BY DEF Bytes, SumFunction, Reservations
  <2> QED
    BY <2>1, <2>2, <2>3
<1>2. CASE RuntimeLoad
  <2> DEFINE m == job.model
             bytes == EstimateMemory(m, job.context)
  <2>1. pc = "loading" /\ m \notin D /\ Fits(bytes, Unknown) /\ bytes \in Nat
    BY <1>2, EstimateIsNat DEF RuntimeLoad, RoomStaysMade, IndInv, Flow, TablesAgree, TypeOK, WorkerTypes
  <2>2. DOMAIN residency' = D \cup {m} /\ Reservations'[m] = bytes /\ \A n \in D : Reservations'[n] = R[n]
    BY <1>2, <2>1 DEF RuntimeLoad, Register, With, Reservations
  <2> HIDE DEF D, R, m, bytes
  <2>3. IsFiniteSet(D \cup {m}) /\ Cardinality(D \cup {m}) = Cardinality(D) + 1
    BY <1>0, <2>1, FS_AddElement
  <2>4. Bytes' = bytes + Bytes
    <3>1. (D \cup {m}) \ {m} = D /\ \A n \in D \cup {m} : Reservations'[n] \in Nat
      BY <1>1, <2>1, <2>2, <2>3
    <3>2. SumFunctionOnSet(Reservations', D \cup {m}) = Reservations'[m] + SumFunctionOnSet(Reservations', D)
      BY <2>3, <3>1, SumTakesOut
    <3>3. SumFunctionOnSet(Reservations', D) = SumFunctionOnSet(R, D)
      BY <1>0, <2>2, SumsAgree
    <3> QED
      BY <1>0, <1>1, <2>2, <2>3, <3>2, <3>3
  <2>5. Cardinality(D) < MaxModels /\ bytes <= Budget - Bytes
    BY <2>1 DEF Fits, D
  <2> QED
    BY <1>0, <2>1, <2>2, <2>3, <2>4, <2>5 DEF ModelsWithin
<1>3. CASE EvictWeights
  <2>1. DOMAIN residency' = D \ {victim} /\ victim \in D /\ \A n \in D \ {victim} : Reservations'[n] = R[n]
    BY <1>3 DEF EvictWeights, EvictEnd, Without, Reservations, IndInv, TablesAgree
  <2> HIDE DEF D, R
  <2>2. IsFiniteSet(D \ {victim}) /\ Cardinality(D \ {victim}) = Cardinality(D) - 1
    BY <1>0, <2>1, FS_RemoveElement
  <2>3. Bytes' = SumFunctionOnSet(R, D \ {victim})
    BY <1>1, <2>1, <2>2, SumsAgree
  <2>4. Bytes = R[victim] + SumFunctionOnSet(R, D \ {victim}) /\ R[victim] \in Nat
        /\ SumFunctionOnSet(R, D \ {victim}) \in Nat
    BY <1>0, <2>1, <2>2, SumTakesOut, SumIsNat
  <2>5. Bytes <= Budget /\ Cardinality(D) <= MaxModels
    BY DEF ModelsWithin, D
  <2> QED
    BY <1>0, <2>1, <2>2, <2>3, <2>4, <2>5 DEF ModelsWithin
<1> QED
  BY <1>2, <1>3, ResidencyEffects, SameReservations

\* A reservation stays what the estimate was.
LEMMA EstimatesStep ==
    ASSUME IndInv, ReservedAsEstimated, [Next]_vars
    PROVE  ReservedAsEstimated'
<1>1. CASE RuntimeLoad
  <2>1. DOMAIN residency = DOMAIN loaded
    BY DEF IndInv, TablesAgree
  <2> QED
    BY <1>1, <2>1 DEF RuntimeLoad, Register, With, ReservedAsEstimated, EstimateMemory
<1>2. CASE EvictWeights
  <2>1. DOMAIN residency = DOMAIN loaded
    BY DEF IndInv, TablesAgree
  <2> QED
    BY <1>2, <2>1 DEF EvictWeights, EvictEnd, Without, ReservedAsEstimated, EstimateMemory
<1>3. CASE /\ DOMAIN residency' = DOMAIN residency /\ loaded' = loaded
           /\ \A m \in DOMAIN residency : residency'[m].bytes = residency[m].bytes
  BY <1>3 DEF ReservedAsEstimated
<1> QED
  BY <1>1, <1>2, <1>3, ResidencyEffects

\* Nothing is loaded or unloaded between fits() and residency_.loaded().
LEMMA RoomStep ==
    ASSUME IndInv, ModelsWithin, RoomStaysMade, [Next]_vars
    PROVE  RoomStaysMade'
<1> SUFFICES ASSUME pc' = "loading" PROVE RoomStaysMade'
  BY DEF RoomStaysMade
<1>1. RoomMade \/ (pc = "loading" /\ job' = job)
  <2>1. CASE Arrive
    BY <2>1 DEF Arrive, InstallModel, RemoveModel, UnloadModel, CreateSession, ResetSession, CloseSession,
       ChatUnknown, LoadModel, Chat, Complete, Converse, Inspect, Begin, GoMaintain
  <2>2. CASE Work
    <3>1. victim # NoModel => pc # "loading"
      BY DEF IndInv, Flow
    <3> QED
      BY <2>2, <3>1 DEF Work, LoadHit, LoadMiss, RoomMade, RuntimeLoad, MakeRoom, Measured, Embed,
         Prepare, ContextHit, ContextEvict, ContextCreate, ChatDone, ConverseDone, CompleteDone, Fail,
         Release, Maintaining, SweepExpired, SweepPressure, SweepReleased, Maintained, EvictWeights,
         IdleTick, GoMaintain
  <2>3. CASE Tick \/ UNCHANGED vars
    BY <2>3 DEF Tick, vars
  <2> QED
    BY <2>1, <2>2, <2>3 DEF Next
<1>2. CASE RoomMade
  <2>1. residency' = residency /\ job' = job
    BY <1>2 DEF RoomMade, modelVars
  <2>2. \E available : Fits(EstimateMemory(job.model, job.context), available)
    BY <1>2 DEF RoomMade
  <2> QED
    BY <2>1, <2>2 DEF RoomStaysMade, Fits, Bytes, EstimateMemory
<1>3. CASE pc = "loading" /\ job' = job
  <2>1. ~RuntimeLoad /\ ~EvictWeights
    BY <1>3 DEF RuntimeLoad, EvictWeights, GoMaintain, IndInv, Flow
  <2>2. DOMAIN residency' = DOMAIN residency /\ Bytes' = Bytes
    BY <2>1, ResidencyEffects, SameReservations
  <2> QED
    BY <1>3, <2>2 DEF RoomStaysMade, Fits, EstimateMemory
<1> QED
  BY <1>1, <1>2, <1>3

\* n contexts of a size that together fit a limit are no more than the limit holds.
LEMMA Quotient ==
    ASSUME NEW size \in Nat \ {0}, NEW n \in Nat, NEW limit \in Nat, size * n <= limit
    PROVE  n <= limit \div size
<1> DEFINE q == limit \div size
<1>1. q \in Nat /\ limit < size * (q + 1)
  OBVIOUS
<1> HIDE DEF q
<1>2. SUFFICES ASSUME n >= q + 1 PROVE FALSE
  BY <1>1 DEF q
<1>3. size * n >= size * (q + 1)
  BY <1>1, <1>2
<1>4. size * n \in Nat /\ size * (q + 1) \in Nat
  BY <1>1
<1> QED
  BY <1>1, <1>3, <1>4

\* The contexts of one model take no more than was reserved for them.
LEMMA ContextsAreReserved ==
    ASSUME IndInv, CacheWithin, ReservedAsEstimated, NEW m \in DOMAIN runtimes
    PROVE  /\ TokensOf(KeysOf(m)) \in Nat
           /\ Weights[m] + TokensOf(KeysOf(m)) <= residency[m].bytes
<1> DEFINE K == KeysOf(m)
           size == loaded[m]
           n == Cardinality(K)
<1>1. K \in SUBSET DOMAIN cache /\ \A k \in K : Held[k] = size
  BY DEF KeysOf, Held, IndInv, ContextsOfLiveModels, TablesAgree
<1>2. size \in Nat \ {0} /\ m \in Models /\ m \in DOMAIN residency
  <2>1. m \in Models /\ m \in DOMAIN residency /\ m \in DOMAIN loaded /\ size \in Nat
    BY DEF IndInv, TablesAgree, TypeOK, ModelTypes
  <2>2. m \in DOMAIN remembered /\ remembered[m].context = size
    <3>1. remembered[m] = [context |-> loaded[m], keepAlive |-> residency[m].keepAlive]
      BY <2>1 DEF IndInv, RememberedIsCurrent
    <3> QED
      BY <2>1, <3>1 DEF IndInv, RememberedIsCurrent
  <2>3. size >= 2
    <3>1. remembered[m].context \in 2..ContextLength[m] /\ ContextLength[m] \in Nat
      BY <2>1, <2>2, ModelAssumption DEF IndInv, RememberedIsLoadable
    <3> QED
      BY <2>1, <2>2, <3>1
  <2> QED
    BY <2>1, <2>3
<1>3. IsFiniteSet(K) /\ n \in Nat /\ n <= MaxContexts
  <2>1. IsFiniteSet(K) /\ n <= Cardinality(DOMAIN cache)
    BY <1>1, FS_Subset DEF CacheWithin
  <2>2. n \in Nat /\ Cardinality(DOMAIN cache) \in Nat /\ MaxContexts \in Nat
    BY <2>1, FS_CardinalityType, CacheLimitsAssumption DEF CacheWithin
  <2>3. Cardinality(DOMAIN cache) <= MaxContexts
    BY DEF CacheWithin
  <2> QED
    BY <2>1, <2>2, <2>3
<1>4. TokensOf(K) = size * n
  <2>1. TokensOf(K) = SumFunctionOnSet(Held, K)
    BY DEF TokensOf, Held
  <2> HIDE DEF K, size, n
  <2> QED
    BY <1>1, <1>2, <1>3, <2>1, SumOfEquals DEF n
<1>5. TokensOf(K) <= MaxContextTokens
  <2>1. TokensOf(K) = SumFunctionOnSet(Held, K) /\ reserved = SumFunctionOnSet(Held, DOMAIN cache)
        /\ IsFiniteSet(DOMAIN cache) /\ CacheTypes /\ reserved <= MaxContextTokens
    BY DEF TokensOf, Held, CacheWithin, IndInv, TypeOK
  <2>2. MaxContextTokens \in Nat
    BY CacheLimitsAssumption
  <2> HIDE DEF K
  <2>3. /\ SumFunctionOnSet(Held, K) \in Nat
        /\ SumFunctionOnSet(Held, DOMAIN cache \ K) \in Nat
        /\ SumFunctionOnSet(Held, DOMAIN cache) =
             SumFunctionOnSet(Held, K) + SumFunctionOnSet(Held, DOMAIN cache \ K)
    BY <1>1, <2>1, HeldSums
  <2> QED
    BY <2>1, <2>2, <2>3
<1>6. n <= ContextSlots(size) /\ ContextSlots(size) \in Nat
  <2> DEFINE slots == MaxContextTokens \div size
  <2>1. n <= slots /\ slots \in Nat
    <3>1. MaxContextTokens \in Nat
      BY CacheLimitsAssumption
    <3> HIDE DEF K, size, n
    <3> QED
      BY <1>2, <1>3, <1>4, <1>5, <3>1, Quotient
  <2>2. Min({MaxContexts, slots}) \in {MaxContexts, slots}
    <3>1. {MaxContexts, slots} = {MaxContexts, slots, slots} /\ MaxContexts \in Nat
      BY CacheLimitsAssumption
    <3> HIDE DEF slots
    <3> QED
      BY <2>1, <3>1, MinOfThree
  <2> HIDE DEF slots, n
  <2> QED
    BY <1>3, <2>1, <2>2, CacheLimitsAssumption DEF ContextSlots, slots
<1>7. residency[m].bytes = Weights[m] + size * ContextSlots(size) /\ Weights[m] \in Nat
  BY <1>2, ModelAssumption DEF ReservedAsEstimated, EstimateMemory, KvReservation
<1>8. size * n <= size * ContextSlots(size) /\ size * n \in Nat /\ size * ContextSlots(size) \in Nat
  <2> HIDE DEF K, size, n
  <2> QED
    BY <1>2, <1>3, <1>6
<1> HIDE DEF K, size, n
<1>9. TokensOf(K) \in Nat /\ Weights[m] + TokensOf(K) <= residency[m].bytes
  BY <1>4, <1>7, <1>8
<1> QED
  BY <1>9 DEF K

\* Models and contexts together take no more than all the reservations.
LEMMA AllIsReserved ==
    ASSUME IndInv, CacheWithin, ModelsWithin, ReservedAsEstimated
    PROVE  SumFunctionOnSet(Weights, DOMAIN runtimes) + TokensOf(DOMAIN cache) <= Bytes
<1> DEFINE D == DOMAIN runtimes
           owner == [k \in DOMAIN cache |-> cache[k].model]
           taken == [m \in D |-> TokensOf(KeysOf(m))]
<1>1. D = DOMAIN residency /\ IsFiniteSet(D) /\ IsFiniteSet(DOMAIN cache) /\ D \subseteq Models
  BY DEF IndInv, TablesAgree, ModelsWithin, CacheWithin, TypeOK, ModelTypes
<1>2. \A m \in D : /\ Weights[m] \in Nat /\ taken[m] \in Nat /\ Reservations[m] \in Nat
                   /\ Weights[m] + taken[m] <= Reservations[m]
  <2>1. ASSUME NEW m \in D
        PROVE  /\ Weights[m] \in Nat /\ taken[m] \in Nat /\ Reservations[m] \in Nat
               /\ Weights[m] + taken[m] <= Reservations[m]
    <3>1. Weights[m] \in Nat /\ Reservations[m] = residency[m].bytes /\ Reservations[m] \in Nat
      BY <1>1, ModelAssumption, BytesIsNat DEF Reservations
    <3> QED
      BY <3>1, ContextsAreReserved
  <2> QED
    BY <2>1
<1>3. SumFunctionOnSet(taken, D) = TokensOf(DOMAIN cache)
  <2>1. \A k \in DOMAIN cache : owner[k] \in D /\ Held[k] \in Nat
    BY DEF Held, IndInv, ContextsOfLiveModels, TypeOK, CacheTypes
  <2>2. \A m \in D : taken[m] = SumFunctionOnSet(Held, PartOf(DOMAIN cache, owner, m))
    BY DEF TokensOf, KeysOf, Held, PartOf
  <2>3. TokensOf(DOMAIN cache) = SumFunctionOnSet(Held, DOMAIN cache)
    BY DEF TokensOf, Held
  <2> HIDE DEF D, owner, taken
  <2> DEFINE S == DOMAIN cache
             f == Held
  <2>4. /\ IsFiniteSet(D) /\ IsFiniteSet(S)
        /\ \A k \in S : owner[k] \in D
        /\ \A k \in S : f[k] \in Nat
        /\ \A m \in D : taken[m] = SumFunctionOnSet(f, PartOf(S, owner, m))
    BY <1>1, <2>1, <2>2
  <2> HIDE DEF S, f
  <2>5. SumFunctionOnSet(taken, D) = SumFunctionOnSet(f, S)
    BY <2>4, SumOfParts
  <2> QED
    BY <2>3, <2>5 DEF S, f
<1>4. Bytes = SumFunctionOnSet(Reservations, D)
  BY <1>1, BytesIsNat
<1> HIDE DEF D, taken
<1>5. SumFunctionOnSet(Weights, D) + SumFunctionOnSet(taken, D) <= SumFunctionOnSet(Reservations, D)
  BY <1>1, <1>2, SumsCompare
<1> QED
  BY <1>3, <1>4, <1>5 DEF D

\* What is in memory was reserved, and reservations are within the budget: Service's
\* memory never exceeds what its options allow, whatever is loaded, cached and evicted.
THEOREM MemoryStaysReserved == Spec => []MemoryIsReserved
<1>1. Init => MemoryInv
  <2> SUFFICES ASSUME Init PROVE MemoryInv
    OBVIOUS
  <2>1. DOMAIN cache = {} /\ DOMAIN residency = {} /\ reserved = 0 /\ pc = "idle"
    BY DEF Init, CacheInit, ModelInit
  <2>2. IsFiniteSet({}) /\ Cardinality({}) = 0 /\ \A f : SumFunctionOnSet(f, {}) = 0
    BY FS_EmptySet, SumUnfolds
  <2>3. TokensOf(DOMAIN cache) = 0
    BY <2>1, <2>2 DEF TokensOf
  <2>4. Bytes = 0
    BY <2>1, <2>2 DEF Bytes, SumFunction
  <2> QED
    BY <2>1, <2>2, <2>3, <2>4, CacheLimitsAssumption, ModelAssumption
       DEF MemoryInv, CacheWithin, ModelsWithin, ReservedAsEstimated, RoomStaysMade
<1>2. IndInv /\ MemoryInv /\ [Next]_vars => MemoryInv'
  BY CacheWithinStep, ModelsWithinStep, EstimatesStep, RoomStep DEF MemoryInv
<1>3. IndInv /\ MemoryInv => MemoryIsReserved
  <2> SUFFICES ASSUME IndInv, MemoryInv PROVE MemoryIsReserved
    OBVIOUS
  <2>1. CacheWithin /\ ModelsWithin /\ ReservedAsEstimated /\ RoomStaysMade
    BY DEF MemoryInv
  <2>2. \A m \in DOMAIN runtimes : Weights[m] + TokensOf(KeysOf(m)) <= residency[m].bytes
    BY <2>1, ContextsAreReserved
  <2>3. SumFunctionOnSet(Weights, DOMAIN runtimes) + TokensOf(DOMAIN cache) <= Budget
    <3>1. SumFunctionOnSet(Weights, DOMAIN runtimes) + TokensOf(DOMAIN cache) <= Bytes /\ Bytes <= Budget
      BY <2>1, AllIsReserved DEF ModelsWithin
    <3>2. SumFunctionOnSet(Weights, DOMAIN runtimes) \in Nat
      <4>1. IsFiniteSet(DOMAIN runtimes) /\ \A m \in DOMAIN runtimes : Weights[m] \in Nat
        BY <2>1, ModelAssumption DEF ModelsWithin, IndInv, TablesAgree, TypeOK, ModelTypes
      <4> QED
        BY <4>1, SumIsNat
    <3>3. TokensOf(DOMAIN cache) \in Nat
      <4>1. CacheTypes /\ IsFiniteSet(DOMAIN cache) /\ TokensOf(DOMAIN cache) = SumFunctionOnSet(Held, DOMAIN cache)
        BY <2>1 DEF IndInv, TypeOK, CacheWithin, TokensOf, Held
      <4> QED
        BY <4>1, HeldSums
    <3>4. Bytes \in Nat /\ Budget \in Nat
      BY <2>1, BytesIsNat, ModelAssumption DEF ModelsWithin
    <3> QED
      BY <3>1, <3>2, <3>3, <3>4
  <2>4. pc = "loading" => job.model \notin DOMAIN loaded
    BY DEF IndInv, Flow
  <2> QED
    BY <2>1, <2>2, <2>3, <2>4 DEF MemoryIsReserved, CacheWithin, ModelsWithin, RoomStaysMade
<1> QED
  BY <1>1, <1>2, <1>3, ServiceInvariant, PTL DEF Spec
=============================================================================
