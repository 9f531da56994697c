------------------------------ MODULE Scheduler ------------------------------
(***************************************************************************)
(* src/service/Scheduler.cpp: a bounded FIFO in front of one worker        *)
(* thread.  Callers enqueue from any thread, cancellation tokens are       *)
(* shared atomics that anybody may set at any moment, and one thread       *)
(* shuts the scheduler down and joins the worker.                          *)
(*                                                                         *)
(* A step is what happens between two releases of mutex_, or one effect    *)
(* outside the lock: a refusal is decided under the lock and delivered     *)
(* after it, an item is popped under the lock and its token is read after  *)
(* it.                                                                     *)
(***************************************************************************)
EXTENDS Naturals, Sequences

CONSTANTS
    Requests,        \* the calls of enqueue(); each has a token of its own
    Capacity,        \* capacity_, from ServiceOptions::maxQueuedRequests
    NoRequest        \* a default-constructed Item or token

ASSUME CapacityAssumption == Capacity \in Nat \ {0}   \* checked() in Service.cpp
ASSUME NoRequestAssumption == NoRequest \notin Requests

VARIABLES
    queue,           \* queue_
    active,          \* active_: whose token shutdown() cancels besides the queue's
    stopping,        \* stopping_
    cancelled,       \* the requests whose token flag is set
    refusing,        \* refusing[r]: the local `code` of an enqueue past its lock
    worker,          \* where loop() is
    item,            \* the local `item` of loop()
    closer,          \* where the thread in shutdown() is
    state,           \* Service::Impl::state is not null
    answers,         \* answers[r]: every value r's promise was given
    submitted,       \* the requests whose enqueue() took the lock
    accepted,        \* history: requests in the order they entered queue_
    served           \* history: requests in the order the worker settled them

vars == <<queue, active, stopping, cancelled, refusing, worker, item, closer,
          state, answers, submitted, accepted, served>>

Served  == {"Completed", "Failed", "Cancelled"}
Refused == {"QueueFull", "ShuttingDown"}
Outcomes == Served \cup Refused

Init ==
    /\ queue = <<>>
    /\ active = NoRequest
    /\ stopping = FALSE
    /\ cancelled = {}
    /\ refusing = [r \in Requests |-> "None"]
    /\ worker = "wait"
    /\ item = NoRequest
    /\ closer = "open"
    /\ state = TRUE
    /\ answers = [r \in Requests |-> <<>>]
    /\ submitted = {}
    /\ accepted = <<>>
    /\ served = <<>>

\* A promise is given a value; a second one would throw out of the worker.
Answer(r, outcome) == answers' = [answers EXCEPT ![r] = Append(@, outcome)]

-----------------------------------------------------------------------------
(* Callers.                                                                *)

\* Mutant: a request that is refused is dropped without a word.
EnqueueDropsSilently(r) ==
    /\ r \notin submitted
    /\ submitted' = submitted \cup {r}
    /\ IF ~stopping /\ Len(queue) < Capacity
       THEN queue' = Append(queue, r) /\ accepted' = Append(accepted, r)
       ELSE UNCHANGED <<queue, accepted>>
    /\ UNCHANGED <<active, stopping, cancelled, refusing, worker, item, closer,
                   state, answers, served>>

\* enqueue(), the part under the lock.
Enqueue(r) ==
    /\ r \notin submitted
    /\ submitted' = submitted \cup {r}
    /\ \/ /\ stopping
          /\ refusing' = [refusing EXCEPT ![r] = "ShuttingDown"]
          /\ UNCHANGED <<queue, accepted>>
       \/ /\ ~stopping
          /\ Len(queue) >= Capacity
          /\ refusing' = [refusing EXCEPT ![r] = "QueueFull"]
          /\ UNCHANGED <<queue, accepted>>
       \/ /\ ~stopping
          /\ Len(queue) < Capacity
          /\ queue' = Append(queue, r)
          /\ accepted' = Append(accepted, r)
          /\ UNCHANGED refusing
    /\ UNCHANGED <<active, stopping, cancelled, worker, item, closer, state,
                   answers, served>>

\* enqueue(), after the lock: reject() runs on the caller's thread.
Refuse(r) ==
    /\ refusing[r] # "None"
    /\ Answer(r, refusing[r])
    /\ refusing' = [refusing EXCEPT ![r] = "None"]
    /\ UNCHANGED <<queue, active, stopping, cancelled, worker, item, closer,
                   state, submitted, accepted, served>>

\* CancellationToken::cancel() by whoever holds the handle, at any time.
Cancel(r) ==
    /\ r \notin cancelled
    /\ cancelled' = cancelled \cup {r}
    /\ UNCHANGED <<queue, active, stopping, refusing, worker, item, closer,
                   state, answers, submitted, accepted, served>>

-----------------------------------------------------------------------------
(* The worker, loop().                                                     *)

\* Mutants of the pop: from the wrong end, ...
TakeNewest ==
    /\ worker = "wait"
    /\ queue # <<>>
    /\ item' = queue[Len(queue)]
    /\ queue' = SubSeq(queue, 1, Len(queue) - 1)
    /\ active' = queue[Len(queue)]
    /\ worker' = "taken"
    /\ UNCHANGED <<stopping, cancelled, refusing, closer, state, answers,
                   submitted, accepted, served>>

\* ... without making the token active, ...
TakeLeavesActive ==
    /\ worker = "wait"
    /\ queue # <<>>
    /\ item' = Head(queue)
    /\ queue' = Tail(queue)
    /\ worker' = "taken"
    /\ UNCHANGED <<active, stopping, cancelled, refusing, closer, state, answers,
                   submitted, accepted, served>>

\* ... and a front that is read but not removed.
TakeWithoutPop ==
    /\ worker = "wait"
    /\ queue # <<>>
    /\ item' = Head(queue)
    /\ active' = Head(queue)
    /\ worker' = "taken"
    /\ UNCHANGED <<queue, stopping, cancelled, refusing, closer, state, answers,
                   submitted, accepted, served>>

\* The wait ended with an item: popped, and its token made active_, under one lock.
Take ==
    /\ worker = "wait"
    /\ queue # <<>>
    /\ item' = Head(queue)
    /\ queue' = Tail(queue)
    /\ active' = Head(queue)
    /\ worker' = "taken"
    /\ UNCHANGED <<stopping, cancelled, refusing, closer, state, answers,
                   submitted, accepted, served>>

\* The wait timed out with nothing queued: maintenance runs without the lock.
IdleTick ==
    /\ worker = "wait"
    /\ queue = <<>>
    /\ ~stopping
    /\ worker' = "maintaining"
    /\ UNCHANGED <<queue, active, stopping, cancelled, refusing, item, closer,
                   state, answers, submitted, accepted, served>>

\* Mutant: the loop breaks on stopping_ alone.
BreakWithQueue ==
    /\ worker = "wait"
    /\ stopping
    /\ worker' = "exiting"
    /\ UNCHANGED <<queue, active, stopping, cancelled, refusing, item, closer,
                   state, answers, submitted, accepted, served>>

\* Nothing queued and stopping_: the loop breaks.
Break ==
    /\ worker = "wait"
    /\ queue = <<>>
    /\ stopping
    /\ worker' = "exiting"
    /\ UNCHANGED <<queue, active, stopping, cancelled, refusing, item, closer,
                   state, answers, submitted, accepted, served>>

\* The worker gives the item in its hands an answer and goes on to maintenance.
Finish(outcome) ==
    /\ Answer(item, outcome)
    /\ served' = Append(served, item)
    /\ item' = NoRequest
    /\ worker' = "maintaining"
    /\ UNCHANGED <<queue, active, stopping, cancelled, refusing, closer, state,
                   submitted, accepted>>

\* item.token.isCancelled() is true: reject() with Cancelled, run() is skipped.
RejectCancelled ==
    /\ worker = "taken"
    /\ item \in cancelled
    /\ Finish("Cancelled")

\* Mutant: run() is entered without a look at the token.
StartRunUnchecked ==
    /\ worker = "taken"
    /\ worker' = "running"
    /\ UNCHANGED <<queue, active, stopping, cancelled, refusing, item, closer,
                   state, answers, submitted, accepted, served>>

\* item.token.isCancelled() is false: run() is entered.
StartRun ==
    /\ worker = "taken"
    /\ item \notin cancelled
    /\ worker' = "running"
    /\ UNCHANGED <<queue, active, stopping, cancelled, refusing, item, closer,
                   state, answers, submitted, accepted, served>>

\* run() comes to its own end; it may miss a cancellation that came too late.
RunEnds ==
    /\ worker = "running"
    /\ \E outcome \in {"Completed", "Failed"} : Finish(outcome)

\* A throwIfCancelled() inside run() sees the flag.
RunObservesCancel ==
    /\ worker = "running"
    /\ item \in cancelled
    /\ Finish("Cancelled")

\* maintenance_() returns; the local item is gone.
Maintain ==
    /\ worker = "maintaining"
    /\ worker' = "wait"
    /\ UNCHANGED <<queue, active, stopping, cancelled, refusing, item, closer,
                   state, answers, submitted, accepted, served>>

\* onExit_(): the worker destroys the service state.
OnExit ==
    /\ worker = "exiting"
    /\ state' = FALSE
    /\ worker' = "exited"
    /\ UNCHANGED <<queue, active, stopping, cancelled, refusing, item, closer,
                   answers, submitted, accepted, served>>

-----------------------------------------------------------------------------
(* The thread that destroys the service, shutdown().                       *)

\* ... and what runs is not.
ShutdownForgetsActive ==
    /\ closer = "open"
    /\ closer' = "joining"
    /\ stopping' = TRUE
    /\ cancelled' = cancelled \cup {queue[i] : i \in 1..Len(queue)}
    /\ UNCHANGED <<queue, active, refusing, worker, item, state, answers,
                   submitted, accepted, served>>

\* The locked part: stop admissions, cancel what runs and what waits.
Shutdown ==
    /\ closer = "open"
    /\ closer' = "joining"
    /\ stopping' = TRUE
    /\ cancelled' = cancelled \cup
           {r \in Requests : r = active \/ \E i \in 1..Len(queue) : queue[i] = r}
    /\ UNCHANGED <<queue, active, refusing, worker, item, state, answers,
                   submitted, accepted, served>>

\* worker_.join() returns.
Join ==
    /\ closer = "joining"
    /\ worker = "exited"
    /\ closer' = "closed"
    /\ UNCHANGED <<queue, active, stopping, cancelled, refusing, worker, item,
                   state, answers, submitted, accepted, served>>

-----------------------------------------------------------------------------
\* Every request has come and gone and the process is over.
Terminated ==
    /\ closer = "closed"
    /\ submitted = Requests
    /\ \A r \in Requests : refusing[r] = "None"
    /\ UNCHANGED vars

\* What the worker thread does without the help of run() coming to an end.
WorkerStep ==
    \/ Take \/ IdleTick \/ Break \/ RejectCancelled \/ StartRun
    \/ RunObservesCancel \/ Maintain \/ OnExit

Next ==
    \/ \E r \in Requests : Enqueue(r) \/ Refuse(r) \/ Cancel(r)
    \/ WorkerStep
    \/ RunEnds
    \/ Shutdown
    \/ Join
    \/ Terminated

Spec == Init /\ [][Next]_vars

\* Threads are scheduled.  A run() that is not cancelled may go on forever; a
\* cancelled one reaches a throwIfCancelled().
FairSpec ==
    /\ Spec
    /\ WF_vars(WorkerStep)
    /\ WF_vars(Join)
    /\ \A r \in Requests : WF_vars(Refuse(r))

\* Every run() ends besides: generation is bounded by maxTokens.
RunsEnd == WF_vars(RunEnds)
-----------------------------------------------------------------------------
(* Properties.                                                             *)

\* The request in the worker's hands, as a sequence of at most one.
Hand == IF worker \in {"taken", "running"} THEN <<item>> ELSE <<>>

\* Every variable has its type, and the item is set exactly while it is handled.
TypeOK ==
    /\ queue \in Seq(Requests)
    /\ active \in Requests \cup {NoRequest}
    /\ stopping \in BOOLEAN
    /\ cancelled \in SUBSET Requests
    /\ refusing \in [Requests -> Refused \cup {"None"}]
    /\ worker \in {"wait", "taken", "running", "maintaining", "exiting", "exited"}
    /\ item \in Requests \cup {NoRequest}
    /\ closer \in {"open", "joining", "closed"}
    /\ state \in BOOLEAN
    /\ answers \in [Requests -> Seq(Outcomes)]
    /\ submitted \in SUBSET Requests
    /\ accepted \in Seq(Requests)
    /\ served \in Seq(Requests)
    /\ item \in Requests <=> worker \in {"taken", "running"}

\* Requests are served in the order they were accepted, and none is lost or
\* served twice: what came in is what was settled, then what is in the worker's
\* hands, then what waits (deque discipline of enqueue and loop).
ServedInOrder == accepted = served \o Hand \o queue

\* No promise is settled twice: a second set_value would throw std::future_error
\* out of the worker thread or out of the caller's enqueue().
SettledAtMostOnce == \A r \in Requests : Len(answers[r]) <= 1

\* queue_ never holds more than capacity_ items.
QueueBounded == Len(queue) <= Capacity

\* After shutdown() has let go of the lock, everything that waits and whatever
\* the worker holds, running or not yet checked, has its token set: there is no
\* moment between the pop and `active_ = item.token` for a request to slip by.
StopReachesEveryone ==
    stopping => /\ \A i \in 1..Len(queue) : queue[i] \in cancelled
                /\ worker \in {"taken", "running"} => item \in cancelled

\* run(), maintenance_() and the checks before them only happen while the
\* service state exists, and it goes away with nothing accepted left unsettled.
StateOutlivesWork ==
    /\ worker # "exited" => state
    /\ ~state => /\ queue = <<>>
                 /\ item = NoRequest
                 /\ served = accepted
                 /\ stopping

\* When shutdown() returns every accepted request has its answer.
ClosedIsDrained ==
    closer = "closed" =>
        /\ ~state
        /\ \A i \in 1..Len(accepted) : answers[accepted[i]] # <<>>

\* No run() begins once stopping_ is set.
NoRunAfterStop == [][stopping => ~(worker # "running" /\ worker' = "running")]_vars

\* A request cancelled while it waits is never run, whatever happens later.
Waiting(r) == \E i \in 1..Len(queue) : queue[i] = r
Running(r) == worker = "running" /\ item = r
CancelledWaitingNeverRuns ==
    \A r \in Requests : [](r \in cancelled /\ Waiting(r) => []~Running(r))

\* shutdown() returns, even if the active run would never end by itself.
ShutdownCompletes == (closer = "joining") ~> (closer = "closed")

\* What a caller knows of its request.
KnownAnswer(r) ==
    IF answers[r] # <<>> THEN answers[r][Len(answers[r])]
    ELSE IF r \in submitted THEN "pending" ELSE "none"

\* Settlement, with these answers; it is open while the state exists.
Promise == INSTANCE Settlement WITH
    answer <- [r \in Requests |-> KnownAnswer(r)],
    open <- state

\* The scheduler implements the settlement promise ...
ImplementsSettlement == Promise!Spec

\* ... and, if runs end, keeps nobody waiting.
EverybodyIsAnswered == RunsEnd => Promise!Fairness
=============================================================================
