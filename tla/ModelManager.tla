---------------------------- MODULE ModelManager ----------------------------
(***************************************************************************)
(* ModelManager, ModelResidencyManager and the model table of              *)
(* RuntimeManager (src/service): which models are in memory, what they     *)
(* reserve of the memory budget, who holds a lease on them, when they      *)
(* expire, and the configuration to load them with again.                  *)
(*                                                                         *)
(* The three tables (runtimes_.models_, residency_.entries_, loaded_) are  *)
(* kept apart as in the code: that they agree is a property, not a         *)
(* definition.  Access clocks are abstracted to the order they induce and  *)
(* deadlines to the time that is left.  Everything here runs on the worker *)
(* thread of Scheduler.tla, except that `observed` is read by any thread.  *)
(***************************************************************************)
EXTENDS ContextCache

CONSTANTS
    Models,             \* the model ids
    NoModel,
    ContextLength,      \* ContextLength[m]: context_length of m's manifest
    Weights,            \* Weights[m]: memory for weights and scratch, in KV-token units
    DefaultContext,     \* ServiceOptions::defaultContextTokens
    MaxModels,          \* ServiceOptions::maxModels
    Budget,             \* memory budget, in KV-token units
    Reserve,            \* ServiceOptions::memoryReserveBytes, same units
    Available,          \* what availableRamBytes() may answer; Unknown is no answer
    KeepAlives,         \* the keep-alive times requests ask for, in ticks
    DefaultKeepAlive    \* ServiceOptions::keepAliveMs, in ticks

Unknown == -1
Unset == -1             \* a keepAliveMs a request leaves open

ASSUME ModelAssumption ==
    /\ NoModel \notin Models
    /\ ContextLength \in [Models -> Nat]
    /\ Weights \in [Models -> Nat \ {0}]
    /\ DefaultContext \in Nat \ {0, 1}
    /\ MaxModels \in Nat \ {0}
    /\ Budget \in Nat
    /\ Reserve \in Nat
    /\ Available \subseteq Nat \cup {Unknown}
    /\ KeepAlives \subseteq Nat
    /\ DefaultKeepAlive \in KeepAlives

VARIABLES
    installed,     \* the models in catalog_
    runtimes,      \* runtimes_.models_: model -> contextTokens of its spec
    loaded,        \* loaded_: model -> contextTokens
    residency,     \* residency_.entries_: model -> [bytes, keepAlive, left, active]
    recency,       \* the models of entries_ by access, oldest first
    remembered,    \* remembered_: model -> [context, keepAlive]
    observed,      \* Service::Impl::observedModels, the last published view
    victim         \* the model inside evict(), between contexts and weights

modelVars == <<installed, runtimes, loaded, residency, recency, remembered, observed, victim>>

ModelInit ==
    /\ installed \in SUBSET Models
    /\ runtimes = [m \in {} |-> 0]
    /\ loaded = [m \in {} |-> 0]
    /\ residency = [m \in {} |-> 0]
    /\ recency = <<>>
    /\ remembered = [m \in {} |-> 0]
    /\ observed = [m \in {} |-> 0]
    /\ victim = NoModel

-----------------------------------------------------------------------------
(* Memory.                                                                 *)

\* The contexts a model may have cached at once, and what they take.
ContextSlots(context) == Min({MaxContexts, MaxContextTokens \div context})
KvReservation(context) == context * ContextSlots(context)

\* Mutant: one context is reserved, however many may be cached.
EstimateOneSlot(m, context) == Weights[m] + context

\* estimateMemory(spec, slots).totalBytes()
EstimateMemory(m, context) == Weights[m] + KvReservation(context)

\* ModelResidencyManager::bytes()
Bytes == SumFunction([m \in DOMAIN residency |-> residency[m].bytes])

\* ModelResidencyManager::fits()
Fits(required, available) ==
    /\ Cardinality(DOMAIN residency) < MaxModels
    /\ Bytes <= Budget
    /\ required <= Budget - Bytes
    /\ available # Unknown => available >= Reserve /\ required <= available - Reserve

Idle(m) == m \in DOMAIN residency /\ residency[m].active = 0

\* m is what oldestIdle() returns.
OldestIdle(m) ==
    \E i \in 1..Len(recency) :
        /\ recency[i] = m
        /\ Idle(m)
        /\ \A j \in 1..i-1 : ~Idle(recency[j])

\* ModelResidencyManager::expired()
Expired == {m \in DOMAIN residency : Idle(m) /\ residency[m].left = 0}

-----------------------------------------------------------------------------
(* Views and single effects.                                               *)

\* loadedInfo() of every loaded model; publish() hands it to the observers.
View == [m \in DOMAIN loaded |->
            [context |-> loaded[m],
             active |-> residency[m].active,
             keepAlive |-> residency[m].keepAlive]]

\* The keep-alive of m after touch(id, keepAlive).
Kept(m, keep) == IF keep = Unset THEN residency[m].keepAlive ELSE keep

\* touch(), leaving leases + delta: touch() itself 0, acquire() 1, release() -1.
Touch(m, keep, delta) ==
    /\ residency' = [residency EXCEPT ![m].keepAlive = Kept(m, keep),
                                      ![m].left = Kept(m, keep),
                                      ![m].active = @ + delta]
    /\ recency' = Append(Dropped(recency, {m}), m)

\* The context a load that misses would use, from the request, from what is
\* remembered, or from the defaults.
ContextFor(m, context) ==
    IF context # 0 THEN context
    ELSE IF m \in DOMAIN remembered THEN remembered[m].context
    ELSE Min({ContextLength[m], DefaultContext, MaxContextTokens})

\* Likewise its keep-alive.
KeepAliveFor(m, keep) ==
    IF keep # Unset THEN keep
    ELSE IF m \in DOMAIN remembered THEN remembered[m].keepAlive
    ELSE DefaultKeepAlive

\* The checks of load() that do not depend on other models.
Loadable(m, context) ==
    /\ context >= 2
    /\ context <= ContextLength[m]
    /\ context <= MaxContextTokens
    /\ EstimateMemory(m, context) <= Budget

\* runtimes_.load() succeeded: the model enters the three tables and is remembered.
\* Its lease count starts at leases, 1 when acquire() asked for the load.
Register(m, context, keep, leases) ==
    /\ runtimes' = With(runtimes, m, context)
    /\ loaded' = With(loaded, m, context)
    /\ residency' = With(residency, m,
           [bytes |-> EstimateMemory(m, context), keepAlive |-> keep, left |-> keep,
            active |-> leases])
    /\ recency' = Append(recency, m)
    /\ remembered' = With(remembered, m, [context |-> context, keepAlive |-> keep])
    /\ UNCHANGED <<installed, victim>>
    /\ observed' = View'

\* Mutant: the model is unloaded without its contexts.
EvictBeginNoContexts(m) ==
    /\ Idle(m)
    /\ victim' = m
    /\ UNCHANGED cacheVars
    /\ UNCHANGED <<installed, runtimes, loaded, residency, recency, remembered, observed>>

\* evict(), up to and with beforeUnload_: the contexts of m go first.
EvictBegin(m) ==
    /\ Idle(m)
    /\ victim' = m
    /\ CacheEraseModel(m)
    /\ UNCHANGED <<installed, runtimes, loaded, residency, recency, remembered, observed>>

\* Mutant of the second half: a table is forgotten.
EvictEndLeavesRuntime ==
    /\ loaded' = Without(loaded, {victim})
    /\ residency' = Without(residency, {victim})
    /\ recency' = Dropped(recency, {victim})
    /\ victim' = NoModel
    /\ UNCHANGED <<installed, remembered, runtimes>>
    /\ observed' = View'

\* Mutant: what is remembered of the model goes with it.
EvictEndForgets ==
    /\ runtimes' = Without(runtimes, {victim})
    /\ loaded' = Without(loaded, {victim})
    /\ residency' = Without(residency, {victim})
    /\ recency' = Dropped(recency, {victim})
    /\ remembered' = Without(remembered, {victim})
    /\ victim' = NoModel
    /\ UNCHANGED installed
    /\ observed' = View'

\* evict(), the rest: the weights go, the tables forget m, the view is published.
EvictEnd ==
    /\ runtimes' = Without(runtimes, {victim})
    /\ loaded' = Without(loaded, {victim})
    /\ residency' = Without(residency, {victim})
    /\ recency' = Dropped(recency, {victim})
    /\ victim' = NoModel
    /\ UNCHANGED <<installed, remembered>>
    /\ observed' = View'
=============================================================================
