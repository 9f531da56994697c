----------------------------- MODULE Settlement -----------------------------
(***************************************************************************)
(* What the request queue of the service promises its callers, with no     *)
(* queue, no thread and no lock in it.  Every request that is handed over  *)
(* gets an answer, gets it once, and the answer never changes.  Once the   *)
(* service state is gone only refusals are answered.                       *)
(*                                                                         *)
(* Scheduler.h, line 15: "Always settles work: rejected/cancelled items    *)
(* receive an Error in reject()."                                          *)
(***************************************************************************)

CONSTANT Requests            \* the calls of Scheduler::enqueue

VARIABLES
    answer,                  \* answer[r]: "none", "pending" or the settled outcome
    open                     \* the service state still exists

vars == <<answer, open>>

\* Outcomes of a request the queue accepted, and of one it turned away.
Served  == {"Completed", "Failed", "Cancelled"}
Refused == {"QueueFull", "ShuttingDown"}
Outcomes == Served \cup Refused

Init ==
    /\ answer = [r \in Requests |-> "none"]
    /\ open = TRUE

Submit(r) ==
    /\ answer[r] = "none"
    /\ answer' = [answer EXCEPT ![r] = "pending"]
    /\ UNCHANGED open

Settle(r, o) ==
    /\ answer[r] = "pending"
    /\ open \/ o \in Refused
    /\ answer' = [answer EXCEPT ![r] = o]
    /\ UNCHANGED open

Close ==
    /\ open
    /\ open' = FALSE
    /\ UNCHANGED answer

Next ==
    \/ \E r \in Requests : Submit(r)
    \/ \E r \in Requests, o \in Outcomes : Settle(r, o)
    \/ Close

Spec == Init /\ [][Next]_vars

\* Nobody waits for an answer forever.
Fairness == \A r \in Requests : WF_vars(\E o \in Outcomes : Settle(r, o))

FairSpec == Spec /\ Fairness
=============================================================================
