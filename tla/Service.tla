------------------------------ MODULE Service ------------------------------
(***************************************************************************)
(* Service::Impl::State (src/service/Service.cpp) as the worker thread     *)
(* sees it: models, sessions and cached contexts, and the requests that    *)
(* the scheduler runs on them one at a time.                               *)
(*                                                                         *)
(* A request is cut where the code can fail, be cancelled or wait: every   *)
(* throwIfCancelled() and every call into a runtime.  A failure leads to   *)
(* the handler's catch block, whose clean-up is part of the failing step.  *)
(* After each request the scheduler runs ModelManager::maintain().         *)
(***************************************************************************)
EXTENDS ModelManager

CONSTANTS
    SessionIds,       \* session ids (UUIDs in the code)
    ConversationIds,  \* ConversationRequest::contextId values
    Once,             \* the empty contextId: the key is the request id
    MaxSessions,      \* ServiceOptions::maxSessions
    LoadContexts,     \* contextTokens values of loadModel requests; 0 leaves it open
    MaxTurns          \* bound on the turns of a session

\* Cache keys: a session id, or "conversation:" + model + hash of the context id.
ConversationKeys == Models \X ConversationIds

ASSUME ServiceAssumption ==
    /\ Once \in ConversationIds
    /\ MaxSessions \in Nat \ {0}
    /\ LoadContexts \subseteq Nat
    /\ MaxTurns \in Nat \ {0}
    /\ SessionIds \cap ConversationKeys = {}

VARIABLES
    sessions,    \* sessions_: id -> [model, turns, temporary]
    pc,          \* where the worker is
    job,         \* the request's locals: kind, model, cache key, context, keep-alive, kept turns
    doomed       \* the list that expired() returned to maintain(), what is left of it

vars == <<cacheVars, modelVars, sessions, pc, job, doomed>>

NoJob == [kind |-> "none", model |-> NoModel, key |-> NoModel, context |-> 0,
          keep |-> Unset, kept |-> 0]

\* Kinds of request that hold a lease, and among them those that generate.
Generating == {"chat", "complete", "converse"}
Leasing == Generating \cup {"embed", "measure"}
Leased == {"leased", "context", "generate", "release"}

Init ==
    /\ CacheInit
    /\ ModelInit
    /\ sessions = [s \in {} |-> 0]
    /\ pc = "idle"
    /\ job = NoJob
    /\ doomed = {}

\* The request is over; the scheduler calls maintenance_().
GoMaintain ==
    /\ pc' = "maintain"
    /\ doomed' = Expired'
    /\ job' = NoJob

-----------------------------------------------------------------------------
(* Requests that are one step.                                             *)

\* installModel() or pullModel() puts a model into the catalog.
InstallModel(m) ==
    /\ pc = "idle"
    /\ m \notin installed
    /\ installed' = installed \cup {m}
    /\ UNCHANGED <<cacheVars, runtimes, loaded, residency, recency, remembered,
                   observed, victim, sessions>>
    /\ GoMaintain

InUse(m) == \E s \in DOMAIN sessions : sessions[s].model = m

\* removeModel(); if the detached files cannot be deleted it throws, and the
\* configuration stays remembered.
RemoveModel(m, complete) ==
    /\ pc = "idle"
    /\ m \in installed
    /\ ~InUse(m)
    /\ m \notin DOMAIN loaded
    /\ installed' = installed \ {m}
    /\ remembered' = IF complete THEN Without(remembered, {m}) ELSE remembered
    /\ UNCHANGED <<cacheVars, runtimes, loaded, residency, recency, observed,
                   victim, sessions>>
    /\ GoMaintain

\* unloadModel(): evict() goes on in EvictWeights.
UnloadModel(m) ==
    /\ pc = "idle"
    /\ m \in DOMAIN loaded
    /\ ~InUse(m)
    /\ EvictBegin(m)
    /\ pc' = "maintain"
    /\ doomed' = Expired \ {m}
    /\ UNCHANGED <<sessions, job>>

\* A new session of m; SessionManager::create() refuses one beyond the limit.
NewSession(s, m, turns, temporary) ==
    /\ s \notin DOMAIN sessions
    /\ Cardinality(DOMAIN sessions) < MaxSessions
    /\ sessions' = With(sessions, s, [model |-> m, turns |-> turns, temporary |-> temporary])

\* createSession()
CreateSession(s, m) ==
    /\ pc = "idle"
    /\ m \in installed
    /\ NewSession(s, m, 0, FALSE)
    /\ UNCHANGED <<cacheVars, modelVars>>
    /\ GoMaintain

\* resetSession()
ResetSession(s) ==
    /\ pc = "idle"
    /\ s \in DOMAIN sessions
    /\ sessions' = [sessions EXCEPT ![s].turns = 0]
    /\ CacheErase(s)
    /\ UNCHANGED modelVars
    /\ GoMaintain

\* closeSession()
CloseSession(s) ==
    /\ pc = "idle"
    /\ s \in DOMAIN sessions
    /\ sessions' = Without(sessions, {s})
    /\ CacheErase(s)
    /\ UNCHANGED modelVars
    /\ GoMaintain

-----------------------------------------------------------------------------
(* Requests that need a model: their first step, up to ModelManager::load. *)

Begin(kind, m, key, context, keep) ==
    /\ job' = [kind |-> kind, model |-> m, key |-> key, context |-> context,
               keep |-> keep, kept |-> 0]
    /\ pc' = "load"
    /\ UNCHANGED <<cacheVars, modelVars, doomed>>

\* loadModel()
LoadModel(m, context, keep) ==
    /\ pc = "idle"
    /\ Begin("load", m, NoModel, context, keep)
    /\ UNCHANGED sessions

\* chat()
Chat(s, keep) ==
    /\ pc = "idle"
    /\ s \in DOMAIN sessions
    /\ Begin("chat", sessions[s].model, s, 0, keep)
    /\ UNCHANGED sessions

\* chat() of an unknown session: the catch block still erases its context.
ChatUnknown(s) ==
    /\ pc = "idle"
    /\ s \notin DOMAIN sessions
    /\ CacheErase(s)
    /\ UNCHANGED <<modelVars, sessions>>
    /\ GoMaintain

\* complete(): the messages before the last become a temporary session.
Complete(s, m, turns, keep) ==
    /\ pc = "idle"
    /\ m \in installed
    /\ NewSession(s, m, turns, TRUE)
    /\ Begin("complete", m, s, 0, keep)

\* converse()
Converse(m, c, keep) ==
    /\ pc = "idle"
    /\ m \in installed
    /\ Begin("converse", m, <<m, c>>, 0, keep)
    /\ UNCHANGED sessions

\* embedText() and measureConversation()
Inspect(kind, m, keep) ==
    /\ pc = "idle"
    /\ m \in installed
    /\ Begin(kind, m, NoModel, 0, keep)
    /\ UNCHANGED sessions

-----------------------------------------------------------------------------
(* ModelManager::load() and acquire().                                     *)

\* The model is there and the configuration asked for is the one it has.
LoadHit ==
    /\ pc = "load"
    /\ job.model \in DOMAIN loaded
    /\ job.context \in {0, loaded[job.model]}
    /\ Touch(job.model, job.keep, IF job.kind \in Leasing THEN 1 ELSE 0)
    /\ remembered' = [remembered EXCEPT ![job.model].keepAlive = Kept(job.model, job.keep)]
    /\ UNCHANGED <<cacheVars, installed, runtimes, loaded, victim, sessions>>
    /\ observed' = View'
    /\ \/ /\ job.kind \in Leasing
          /\ pc' = "leased"
          /\ UNCHANGED <<job, doomed>>
       \/ /\ job.kind \notin Leasing
          /\ GoMaintain

\* The model is not there; the catalog knows it and it may be loaded at all.
LoadMiss ==
    /\ pc = "load"
    /\ job.model \notin DOMAIN loaded
    /\ job.model \in installed
    /\ Loadable(job.model, ContextFor(job.model, job.context))
    /\ job' = [job EXCEPT !.context = ContextFor(job.model, job.context),
                          !.keep = KeepAliveFor(job.model, job.keep)]
    /\ pc' = "room"
    /\ UNCHANGED <<cacheVars, modelVars, sessions, doomed>>

\* A turn of the eviction loop.
MakeRoom(m) ==
    /\ pc = "room"
    /\ victim = NoModel
    /\ \E available \in Available :
           ~Fits(EstimateMemory(job.model, job.context), available)
    /\ OldestIdle(m)
    /\ EvictBegin(m)
    /\ UNCHANGED <<sessions, pc, job, doomed>>

\* The loop ends with room.
RoomMade ==
    /\ pc = "room"
    /\ victim = NoModel
    /\ \E available \in Available :
           Fits(EstimateMemory(job.model, job.context), available)
    /\ pc' = "loading"
    /\ UNCHANGED <<cacheVars, modelVars, sessions, job, doomed>>

\* runtimes_.load() succeeds and the model is registered.
RuntimeLoad ==
    /\ pc = "loading"
    /\ Register(job.model, job.context, job.keep, IF job.kind \in Leasing THEN 1 ELSE 0)
    /\ UNCHANGED <<cacheVars, sessions>>
    /\ \/ /\ job.kind \in Leasing
          /\ pc' = "leased"
          /\ UNCHANGED <<job, doomed>>
       \/ /\ job.kind \notin Leasing
          /\ GoMaintain
-----------------------------------------------------------------------------
(* With the lease: prepare, take a context, generate.                      *)

\* measureConversation(): the prompt was counted.
Measured ==
    /\ pc = "leased"
    /\ job.kind = "measure"
    /\ pc' = "release"
    /\ UNCHANGED <<cacheVars, modelVars, sessions, job, doomed>>

\* embedText(): the model's contexts make way for the embedding context.
Embed ==
    /\ pc = "leased"
    /\ job.kind = "embed"
    /\ CacheEraseModel(job.model)
    /\ pc' = "release"
    /\ UNCHANGED <<modelVars, sessions, job, doomed>>

\* PromptEngine::prepare() drops the oldest turns until the prompt fits;
\* prepareConversation() drops none.
Prepare(kept) ==
    /\ pc = "leased"
    /\ job.kind \in Generating
    /\ kept <= (IF job.kind = "converse" THEN 0 ELSE sessions[job.key].turns)
    /\ job' = [job EXCEPT !.kept = kept]
    /\ pc' = "context"
    /\ UNCHANGED <<cacheVars, modelVars, sessions, doomed>>

\* ContextCacheManager::acquire(): found ...
ContextHit ==
    /\ pc = "context"
    /\ job.key \in DOMAIN cache
    /\ CacheTouch(job.key)
    /\ pc' = "generate"
    /\ UNCHANGED <<modelVars, sessions, job, doomed>>

\* ... or another one has to go ...
ContextEvict ==
    /\ pc = "context"
    /\ job.key \notin DOMAIN cache
    /\ runtimes[job.model] <= MaxContextTokens
    /\ CacheFull(runtimes[job.model])
    /\ CacheEvictOldest
    /\ UNCHANGED <<modelVars, sessions, pc, job, doomed>>

\* ... or a new one is created.
ContextCreate ==
    /\ pc = "context"
    /\ job.key \notin DOMAIN cache
    /\ runtimes[job.model] <= MaxContextTokens
    /\ ~CacheFull(runtimes[job.model])
    /\ CacheInsert(job.key, job.model, runtimes[job.model])
    /\ pc' = "generate"
    /\ UNCHANGED <<modelVars, sessions, job, doomed>>

\* A chat turn succeeds and is committed; a stop string leaves tokens in the
\* context that are not in the history, so the context goes.
ChatDone(stopped) ==
    /\ pc = "generate"
    /\ job.kind = "chat"
    /\ sessions' = [sessions EXCEPT ![job.key].turns = job.kept + 1]
    /\ IF stopped THEN CacheErase(job.key) ELSE CacheSettle(job.key, job.kept + 1)
    /\ pc' = "release"
    /\ UNCHANGED <<modelVars, job, doomed>>

\* A completion succeeds: context and temporary session go.
CompleteDone ==
    /\ pc = "generate"
    /\ job.kind = "complete"
    /\ CacheErase(job.key)
    /\ sessions' = Without(sessions, {job.key})
    /\ pc' = "release"
    /\ UNCHANGED <<modelVars, job, doomed>>

\* A structured turn succeeds; without a context id nothing is kept.
ConverseDone(stopped) ==
    /\ pc = "generate"
    /\ job.kind = "converse"
    /\ IF stopped \/ job.key = <<job.model, Once>>
       THEN CacheErase(job.key) ELSE CacheSettle(job.key, 0)
    /\ pc' = "release"
    /\ UNCHANGED <<modelVars, sessions, job, doomed>>

\* Mutants of the catch blocks: the context survives, ...
FailKeepsContext ==
    /\ pc \in {"load", "room", "loading", "leased", "context", "generate"}
    /\ victim = NoModel
    /\ IF job.kind = "complete" THEN CacheErase(job.key) ELSE UNCHANGED cacheVars
    /\ sessions' = IF job.kind = "complete" THEN Without(sessions, {job.key}) ELSE sessions
    /\ UNCHANGED modelVars
    /\ IF pc \in Leased THEN pc' = "release" /\ UNCHANGED <<job, doomed>> ELSE GoMaintain

\* ... or the lease does.
FailKeepsLease ==
    /\ pc \in {"load", "room", "loading", "leased", "context", "generate"}
    /\ victim = NoModel
    /\ IF job.key # NoModel THEN CacheErase(job.key) ELSE UNCHANGED cacheVars
    /\ sessions' = IF job.kind = "complete" THEN Without(sessions, {job.key}) ELSE sessions
    /\ UNCHANGED modelVars
    /\ GoMaintain
\* Whether the catch block erases a context: generate() always does, converse()
\* has no key before it has its lease, the others have none.
ErasesOnFailure ==
    \/ job.kind \in {"chat", "complete"}
    \/ job.kind = "converse" /\ pc \in Leased

\* A check fails, a runtime throws, or the request is cancelled.
Fail ==
    /\ pc \in {"load", "room", "loading", "leased", "context", "generate"}
    /\ victim = NoModel
    /\ IF ErasesOnFailure THEN CacheErase(job.key) ELSE UNCHANGED cacheVars
    /\ sessions' = IF job.kind = "complete" THEN Without(sessions, {job.key}) ELSE sessions
    /\ UNCHANGED modelVars
    /\ \/ pc \in Leased /\ pc' = "release" /\ UNCHANGED <<job, doomed>>
       \/ pc \notin Leased /\ GoMaintain

-----------------------------------------------------------------------------
(* release() and maintain().                                               *)

\* ModelManager::release(), up to its maintain().
Release ==
    /\ pc = "release"
    /\ Touch(job.model, Unset, -1)
    /\ remembered' = [remembered EXCEPT ![job.model].keepAlive = residency[job.model].keepAlive]
    /\ pc' = "sweep"
    /\ doomed' = Expired'
    /\ UNCHANGED <<cacheVars, installed, runtimes, loaded, observed, victim, sessions, job>>

Maintaining == pc \in {"sweep", "maintain"}

\* Mutant: the loop does not move on.
SweepExpiredStuck(m) ==
    /\ Maintaining
    /\ victim = NoModel
    /\ m \in doomed
    /\ EvictBegin(m)
    /\ UNCHANGED <<sessions, pc, job, doomed>>

\* maintain(): one of the expired models goes.
SweepExpired(m) ==
    /\ Maintaining
    /\ victim = NoModel
    /\ m \in doomed
    /\ EvictBegin(m)
    /\ doomed' = doomed \ {m}
    /\ UNCHANGED <<sessions, pc, job>>

\* maintain(): memory is short, the oldest idle model goes.
SweepPressure(m) ==
    /\ Maintaining
    /\ victim = NoModel
    /\ doomed = {}
    /\ \E available \in Available \ {Unknown} : available < Reserve
    /\ OldestIdle(m)
    /\ EvictBegin(m)
    /\ UNCHANGED <<sessions, pc, job, doomed>>

\* maintain() returns to release(), which publishes ...
SweepReleased ==
    /\ pc = "sweep"
    /\ victim = NoModel
    /\ doomed = {}
    /\ observed' = View
    /\ UNCHANGED <<cacheVars, installed, runtimes, loaded, residency, recency,
                   remembered, victim, sessions>>
    /\ GoMaintain

\* ... or to the scheduler's loop.
Maintained ==
    /\ pc = "maintain"
    /\ victim = NoModel
    /\ doomed = {}
    /\ pc' = "idle"
    /\ UNCHANGED <<cacheVars, modelVars, sessions, job, doomed>>

\* The second half of evict(), wherever it was called from.
EvictWeights ==
    /\ victim # NoModel
    /\ EvictEnd
    /\ UNCHANGED <<cacheVars, sessions, pc, job, doomed>>

\* Mutant: an idle worker waits without maintenance.
IdleTickNothing == pc = "idle" /\ UNCHANGED vars

\* The scheduler's wait timed out.
IdleTick ==
    /\ pc = "idle"
    /\ UNCHANGED <<cacheVars, modelVars, sessions>>
    /\ GoMaintain

\* Time passes, whatever the worker is at.
Tick ==
    /\ \E m \in DOMAIN residency : residency[m].left > 0
    /\ residency' = [m \in DOMAIN residency |->
           [residency[m] EXCEPT !.left = IF @ > 0 THEN @ - 1 ELSE 0]]
    /\ UNCHANGED <<cacheVars, installed, runtimes, loaded, recency, remembered,
                   observed, victim, sessions, pc, job, doomed>>
-----------------------------------------------------------------------------
Keeps == KeepAlives \cup {Unset}

\* A request of a client arrives at an idle worker.
Arrive ==
    \/ \E m \in Models : InstallModel(m) \/ UnloadModel(m)
    \/ \E m \in Models, complete \in BOOLEAN : RemoveModel(m, complete)
    \/ \E s \in SessionIds, m \in Models : CreateSession(s, m)
    \/ \E s \in SessionIds : ResetSession(s) \/ CloseSession(s) \/ ChatUnknown(s)
    \/ \E m \in Models, context \in LoadContexts, keep \in Keeps : LoadModel(m, context, keep)
    \/ \E s \in SessionIds, keep \in Keeps : Chat(s, keep)
    \/ \E s \in SessionIds, m \in Models, turns \in 0..MaxTurns - 1, keep \in Keeps :
           Complete(s, m, turns, keep)
    \/ \E m \in Models, c \in ConversationIds, keep \in Keeps : Converse(m, c, keep)
    \/ \E m \in Models : Inspect("embed", m, Unset)
    \/ \E m \in Models, keep \in Keeps : Inspect("measure", m, keep)

\* The worker gets on with what it is at.
Work ==
    \/ LoadHit \/ LoadMiss \/ RoomMade \/ RuntimeLoad
    \/ \E m \in Models : MakeRoom(m)
    \/ Measured \/ Embed
    \/ \E kept \in 0..MaxTurns - 1 : Prepare(kept)
    \/ ContextHit \/ ContextEvict \/ ContextCreate
    \/ \E stopped \in BOOLEAN : ChatDone(stopped) \/ ConverseDone(stopped)
    \/ CompleteDone
    \/ Fail
    \/ Release
    \/ \E m \in Models : SweepExpired(m) \/ SweepPressure(m)
    \/ SweepReleased \/ Maintained \/ EvictWeights \/ IdleTick

Next == Arrive \/ Work \/ Tick

Spec == Init /\ [][Next]_vars

\* The worker thread is scheduled, and no runtime call lasts forever.
FairSpec == Spec /\ WF_vars(Work)
-----------------------------------------------------------------------------
(* Properties.                                                             *)

\* The tables of the model managers, ...
ModelTypes ==
    /\ installed \subseteq Models
    /\ DOMAIN runtimes \subseteq Models
    /\ DOMAIN loaded \subseteq Models
    /\ DOMAIN residency \subseteq Models
    /\ DOMAIN remembered \subseteq Models
    /\ \A m \in DOMAIN runtimes : runtimes[m] \in Nat
    /\ \A m \in DOMAIN loaded : loaded[m] \in Nat
    /\ \A m \in DOMAIN residency :
           residency[m] \in [bytes : Nat, keepAlive : KeepAlives, left : Nat, active : Nat]
    /\ \A m \in DOMAIN remembered :
           remembered[m] \in [context : Nat, keepAlive : KeepAlives]
    /\ victim \in Models \cup {NoModel}

\* ... sessions, ...
SessionTypes ==
    /\ DOMAIN sessions \subseteq SessionIds
    /\ \A s \in DOMAIN sessions :
           sessions[s] \in [model : Models, turns : 0..MaxTurns, temporary : BOOLEAN]

\* ... cached contexts, ...
CacheTypes ==
    /\ DOMAIN cache \subseteq SessionIds \cup ConversationKeys
    /\ \A k \in DOMAIN cache :
           cache[k] \in [model : Models, tokens : Nat, seen : 0..MaxTurns \cup {Partial}]

\* ... and the worker's own state.
WorkerTypes ==
    /\ pc \in {"idle", "load", "room", "loading", "leased", "context", "generate",
              "release", "sweep", "maintain"}
    /\ job \in [kind : {"none", "load"} \cup Leasing, model : Models \cup {NoModel},
               key : SessionIds \cup ConversationKeys \cup {NoModel}, context : Nat,
               keep : Keeps, kept : 0..MaxTurns]
    /\ doomed \subseteq Models

\* Every variable has its type.
TypeOK == ModelTypes /\ SessionTypes /\ CacheTypes /\ WorkerTypes

\* Outside evict() the model table of the runtimes, the residency table and
\* loaded_ have the same models, and a model's context size is the same in each;
\* inside, nothing has gone yet.  (ModelManager::load, evict)
TablesAgree ==
    /\ DOMAIN runtimes = DOMAIN loaded
    /\ DOMAIN residency = DOMAIN loaded
    /\ runtimes = loaded
    /\ victim # NoModel => victim \in DOMAIN loaded /\ residency[victim].active = 0

\* A cached context is of a model that is in memory, with the context size that
\* model was loaded with: no context outlives its weights, or a reload of them,
\* not even inside evict().  (State: "Destroy contexts before model weights.")
ContextsOfLiveModels ==
    \A k \in DOMAIN cache :
        /\ cache[k].model \in DOMAIN runtimes
        /\ cache[k].tokens = runtimes[cache[k].model]
        /\ cache[k].model # victim

\* A lease is held exactly from acquire() to release(), by the one request the
\* worker is at, and its model stays loaded and remembered all along: release()
\* never meets "Unbalanced model lease" or a missing entry, which would leave the
\* worker thread as an uncaught exception.
LeaseIsHeld ==
    /\ pc \in Leased => job.model \in DOMAIN residency \cap DOMAIN remembered
    /\ \A m \in DOMAIN residency :
           residency[m].active = IF pc \in Leased /\ job.model = m THEN 1 ELSE 0

\* What is remembered of a loaded model is its present configuration, so that an
\* eviction loses nothing.
RememberedIsCurrent ==
    \A m \in DOMAIN loaded :
        /\ m \in DOMAIN remembered
        /\ remembered[m] = [context |-> loaded[m], keepAlive |-> residency[m].keepAlive]

\* What is remembered can be loaded again: an implicit reload never fails for its
\* context size, for the cache's token budget or for its own memory.
RememberedIsLoadable ==
    \A m \in DOMAIN remembered :
        /\ remembered[m].context \in 2..ContextLength[m]
        /\ remembered[m].context <= MaxContextTokens
        /\ EstimateMemory(m, remembered[m].context) <= Budget

\* Loaded models and models of sessions are installed: removeModel() takes no
\* files away from under anything in use.
UsedIsInstalled ==
    /\ DOMAIN loaded \subseteq installed
    /\ \A s \in DOMAIN sessions : sessions[s].model \in installed

\* What is really in memory, weights and every cached context, is covered by what
\* was reserved when the models were loaded, and the reservations are within the
\* budget and the model limit.  While a model is loading its room stays made: between
\* fits() and residency_.loaded() nothing changes, and the rollback in load() is never
\* needed.  The cache's reserved_ is the sum over its entries, within both its limits.
MemoryIsReserved ==
    /\ \A m \in DOMAIN runtimes :
           Weights[m] + TokensOf(KeysOf(m)) <= residency[m].bytes
    /\ SumFunctionOnSet(Weights, DOMAIN runtimes) + TokensOf(DOMAIN cache) <= Budget
    /\ Bytes <= Budget
    /\ Cardinality(DOMAIN residency) <= MaxModels
    /\ pc = "loading" => /\ job.model \notin DOMAIN loaded
                         /\ Fits(EstimateMemory(job.model, job.context), Unknown)
    /\ reserved = TokensOf(DOMAIN cache)
    /\ reserved <= MaxContextTokens
    /\ Cardinality(DOMAIN cache) <= MaxContexts

\* A session's context belongs to a session that exists, and to its model; a
\* conversation's to the model in its key.
ContextsAreOwned ==
    \A k \in DOMAIN cache :
        IF k \in SessionIds THEN k \in DOMAIN sessions /\ cache[k].model = sessions[k].model
        ELSE cache[k].model = k[1]

\* A kept context has seen the committed history of its session, all of it and
\* nothing else: no reset, no failed, cancelled or stopped turn leaves one behind.
\* (generate: "Atomic turn commit only after successful generation.")  And between
\* requests nothing of a completion or of a conversation without a context id is left,
\* however it ended.
ContextsMatchHistory ==
    /\ \A k \in DOMAIN cache :
           IF cache[k].seen = Partial THEN pc = "generate" /\ k = job.key
           ELSE k \in DOMAIN sessions => cache[k].seen = sessions[k].turns
    /\ pc \in {"idle", "maintain", "sweep"} =>
           /\ \A s \in DOMAIN sessions : ~sessions[s].temporary
           /\ \A m \in Models : <<m, Once>> \notin DOMAIN cache

\* Every request comes to its end.
RequestsEnd == (pc # "idle") ~> (pc = "idle")

\* A model whose keep-alive ran out while idle is unloaded, or used again.
ExpiredModelsGo ==
    \A m \in Models : (m \in Expired) ~> (m \notin Expired)
=============================================================================
