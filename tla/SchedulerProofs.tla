--------------------------- MODULE SchedulerProofs ---------------------------
(***************************************************************************)
(* Proofs, for any set of requests and any capacity, of what Scheduler's   *)
(* runs check on four requests.                                            *)
(***************************************************************************)
EXTENDS Scheduler, SequenceTheorems, TLAPS

\* A request is in one place at a time: with its caller on the way to a refusal,
\* in the queue (once), in the worker's hands, or answered.
OneHome ==
    /\ \A i, j \in 1..Len(queue) : queue[i] = queue[j] => i = j
    /\ \A i \in 1..Len(queue) : /\ queue[i] \in submitted
                                /\ queue[i] # item
                                /\ refusing[queue[i]] = "None"
                                /\ answers[queue[i]] = <<>>
    /\ item # NoRequest => /\ item \in submitted
                           /\ refusing[item] = "None"
                           /\ answers[item] = <<>>
    /\ \A r \in Requests : refusing[r] # "None" => r \in submitted /\ answers[r] = <<>>
    /\ \A r \in Requests : r \notin submitted => answers[r] = <<>>

\* The token that shutdown() will cancel is the one of the request being handled.
ActiveIsInHand == worker \in {"taken", "running"} => active = item

\* What the positions of the two long-lived threads say about the rest.
Positions ==
    /\ closer = "open" <=> ~stopping
    /\ closer = "closed" => worker = "exited"
    /\ worker \in {"exiting", "exited"} => stopping /\ queue = <<>>
    /\ worker = "exited" <=> ~state

\* Whatever the worker is done with has an answer.
ServedAreAnswered == \A i \in 1..Len(served) : answers[served[i]] # <<>>

\* The inductive invariant.
IndInv ==
    /\ TypeOK
    /\ OneHome
    /\ SettledAtMostOnce
    /\ ActiveIsInHand
    /\ Positions
    /\ StopReachesEveryone
    /\ QueueBounded
    /\ ServedInOrder
    /\ ServedAreAnswered

-----------------------------------------------------------------------------
\* Next, action by action; the case analysis every preservation proof uses.
LEMMA NextCases ==
    ASSUME [Next]_vars
    PROVE  \/ \E r \in Requests : Enqueue(r)
           \/ \E r \in Requests : Refuse(r)
           \/ \E r \in Requests : Cancel(r)
           \/ Take \/ IdleTick \/ Break
           \/ worker \in {"taken", "running"} /\ \E o \in Served : Finish(o)
           \/ StartRun \/ Maintain \/ OnExit
           \/ Shutdown \/ Join
           \/ UNCHANGED vars
  BY DEF Next, WorkerStep, RejectCancelled, RunEnds, RunObservesCancel, Terminated, Served

\* Every step keeps the types.
LEMMA TypeStep ==
    ASSUME TypeOK, [Next]_vars
    PROVE  TypeOK'
<1> USE DEF TypeOK, Outcomes, Served, Refused
<1>1. ASSUME NEW r \in Requests, Enqueue(r) PROVE TypeOK'
  <2>1. queue' \in Seq(Requests) /\ accepted' \in Seq(Requests)
    <3>1. \/ UNCHANGED <<queue, accepted>>
          \/ queue' = Append(queue, r) /\ accepted' = Append(accepted, r)
      BY <1>1 DEF Enqueue
    <3>2. Append(queue, r) \in Seq(Requests) /\ Append(accepted, r) \in Seq(Requests)
      BY AppendProperties
    <3> QED
      BY <3>1, <3>2
  <2>2. refusing' \in [Requests -> Refused \cup {"None"}]
    BY <1>1 DEF Enqueue
  <2> QED
    BY <1>1, <2>1, <2>2 DEF Enqueue
<1>2. ASSUME NEW r \in Requests, Refuse(r) PROVE TypeOK'
  BY <1>2 DEF Refuse, Answer
<1>3. ASSUME NEW r \in Requests, Cancel(r) PROVE TypeOK'
  BY <1>3 DEF Cancel
<1>4. CASE Take
  BY <1>4, HeadTailProperties, NoRequestAssumption DEF Take
<1>5. CASE IdleTick
  BY <1>5 DEF IdleTick
<1>6. CASE Break
  BY <1>6 DEF Break
<1>7. ASSUME worker \in {"taken", "running"}, NEW o \in Served, Finish(o) PROVE TypeOK'
  BY <1>7, NoRequestAssumption DEF Finish, Answer
<1>8. CASE StartRun
  BY <1>8 DEF StartRun
<1>9. CASE Maintain
  BY <1>9 DEF Maintain
<1>10. CASE OnExit
  BY <1>10 DEF OnExit
<1>11. CASE Shutdown
  BY <1>11 DEF Shutdown
<1>12. CASE Join
  BY <1>12 DEF Join
<1>13. CASE UNCHANGED vars
  BY <1>13 DEF vars
<1> QED
  BY <1>1, <1>2, <1>3, <1>4, <1>5, <1>6, <1>7, <1>8, <1>9, <1>10, <1>11, <1>12, <1>13, NextCases

\* A request never gets a second home, hence never a second answer.
LEMMA HomeStep ==
    ASSUME TypeOK, TypeOK', OneHome, SettledAtMostOnce, [Next]_vars
    PROVE  OneHome' /\ SettledAtMostOnce'
<1> USE DEF OneHome, SettledAtMostOnce
<1>1. ASSUME NEW r \in Requests, Enqueue(r) PROVE OneHome' /\ SettledAtMostOnce'
  <2>1. CASE UNCHANGED queue
    BY <1>1, <2>1, NoRequestAssumption DEF Enqueue, TypeOK
  <2>2. CASE queue' = Append(queue, r)
    <3>1. /\ UNCHANGED <<refusing, answers, item>>
          /\ submitted' = submitted \cup {r}
          /\ r \notin submitted
      BY <1>1, <2>2, AppendProperties DEF Enqueue, TypeOK
    <3>2. /\ Len(queue') = Len(queue) + 1
          /\ \A i \in 1..Len(queue) : queue'[i] = queue[i]
          /\ queue'[Len(queue) + 1] = r
      BY <2>2, AppendProperties DEF TypeOK
    <3>3. r # item /\ answers[r] = <<>> /\ refusing[r] = "None"
      BY <3>1, NoRequestAssumption DEF TypeOK
    <3>4. \A i \in 1..Len(queue) : queue[i] # r
      BY <3>1
    <3>5. \A i, j \in 1..Len(queue') : queue'[i] = queue'[j] => i = j
      <4> SUFFICES ASSUME NEW i \in 1..Len(queue) + 1, NEW j \in 1..Len(queue) + 1,
                          queue'[i] = queue'[j]
                   PROVE  i = j
        BY <3>2
      <4> Len(queue) \in Nat
        BY LenProperties DEF TypeOK
      <4>1. CASE i = Len(queue) + 1
        BY <4>1, <3>2, <3>4
      <4>2. CASE j = Len(queue) + 1
        BY <4>2, <3>2, <3>4
      <4> QED
        BY <4>1, <4>2, <3>2
    <3>6. \A i \in 1..Len(queue') : /\ queue'[i] \in submitted'
                                   /\ queue'[i] # item'
                                   /\ refusing'[queue'[i]] = "None"
                                   /\ answers'[queue'[i]] = <<>>
      <4> SUFFICES ASSUME NEW i \in 1..Len(queue) + 1
                   PROVE  /\ queue'[i] \in submitted'
                          /\ queue'[i] # item
                          /\ refusing[queue'[i]] = "None"
                          /\ answers[queue'[i]] = <<>>
        BY <3>1, <3>2
      <4> Len(queue) \in Nat
        BY LenProperties DEF TypeOK
      <4>1. CASE i = Len(queue) + 1
        BY <4>1, <3>1, <3>2, <3>3
      <4> QED
        BY <4>1, <3>1, <3>2
    <3> QED
      BY <3>1, <3>5, <3>6
  <2> QED
    BY <1>1, <2>1, <2>2 DEF Enqueue
<1>2. ASSUME NEW r \in Requests, Refuse(r) PROVE OneHome' /\ SettledAtMostOnce'
  BY <1>2, NoRequestAssumption DEF Refuse, Answer, TypeOK
<1>3. ASSUME NEW r \in Requests, Cancel(r) PROVE OneHome' /\ SettledAtMostOnce'
  BY <1>3 DEF Cancel
<1>4. CASE Take
  BY <1>4, HeadTailProperties, NoRequestAssumption DEF Take, TypeOK
<1>5. CASE IdleTick
  BY <1>5 DEF IdleTick
<1>6. CASE Break
  BY <1>6 DEF Break
<1>7. ASSUME worker \in {"taken", "running"}, NEW o \in Served, Finish(o)
      PROVE  OneHome' /\ SettledAtMostOnce'
  BY <1>7, NoRequestAssumption DEF Finish, Answer, TypeOK
<1>8. CASE StartRun
  BY <1>8 DEF StartRun
<1>9. CASE Maintain
  BY <1>9 DEF Maintain
<1>10. CASE OnExit
  BY <1>10 DEF OnExit
<1>11. CASE Shutdown
  BY <1>11 DEF Shutdown
<1>12. CASE Join
  BY <1>12 DEF Join
<1>13. CASE UNCHANGED vars
  BY <1>13 DEF vars
<1> QED
  BY <1>1, <1>2, <1>3, <1>4, <1>5, <1>6, <1>7, <1>8, <1>9, <1>10, <1>11, <1>12, <1>13, NextCases

\* The positions of the threads stay consistent.
LEMMA PositionStep ==
    ASSUME TypeOK, Positions, [Next]_vars
    PROVE  Positions'
<1> USE DEF Positions, TypeOK
<1>1. ASSUME NEW r \in Requests, Enqueue(r) PROVE Positions'
  BY <1>1 DEF Enqueue
<1>2. ASSUME NEW r \in Requests, Refuse(r) PROVE Positions'
  BY <1>2 DEF Refuse, Answer
<1>3. ASSUME NEW r \in Requests, Cancel(r) PROVE Positions'
  BY <1>3 DEF Cancel
<1>4. CASE Take
  BY <1>4 DEF Take
<1>5. CASE IdleTick
  BY <1>5 DEF IdleTick
<1>6. CASE Break
  BY <1>6 DEF Break
<1>7. ASSUME worker \in {"taken", "running"}, NEW o \in Served, Finish(o)
      PROVE  Positions'
  BY <1>7 DEF Finish, Answer
<1>8. CASE StartRun
  BY <1>8 DEF StartRun
<1>9. CASE Maintain
  BY <1>9 DEF Maintain
<1>10. CASE OnExit
  BY <1>10 DEF OnExit
<1>11. CASE Shutdown
  BY <1>11 DEF Shutdown
<1>12. CASE Join
  BY <1>12 DEF Join
<1>13. CASE UNCHANGED vars
  BY <1>13 DEF vars
<1> QED
  BY <1>1, <1>2, <1>3, <1>4, <1>5, <1>6, <1>7, <1>8, <1>9, <1>10, <1>11, <1>12, <1>13, NextCases

\* Between a pop and the next one, active_ is the token of the popped item.
LEMMA ActiveStep ==
    ASSUME TypeOK, ActiveIsInHand, [Next]_vars
    PROVE  ActiveIsInHand'
<1> USE DEF ActiveIsInHand
<1>1. ASSUME NEW r \in Requests, Enqueue(r) PROVE ActiveIsInHand'
  BY <1>1 DEF Enqueue
<1>2. ASSUME NEW r \in Requests, Refuse(r) PROVE ActiveIsInHand'
  BY <1>2 DEF Refuse, Answer
<1>3. ASSUME NEW r \in Requests, Cancel(r) PROVE ActiveIsInHand'
  BY <1>3 DEF Cancel
<1>4. CASE Take
  BY <1>4 DEF Take
<1>5. CASE IdleTick
  BY <1>5 DEF IdleTick
<1>6. CASE Break
  BY <1>6 DEF Break
<1>7. ASSUME worker \in {"taken", "running"}, NEW o \in Served, Finish(o)
      PROVE  ActiveIsInHand'
  BY <1>7 DEF Finish, Answer
<1>8. CASE StartRun
  BY <1>8 DEF StartRun
<1>9. CASE Maintain
  BY <1>9 DEF Maintain
<1>10. CASE OnExit
  BY <1>10 DEF OnExit
<1>11. CASE Shutdown
  BY <1>11 DEF Shutdown
<1>12. CASE Join
  BY <1>12 DEF Join
<1>13. CASE UNCHANGED vars
  BY <1>13 DEF vars
<1> QED
  BY <1>1, <1>2, <1>3, <1>4, <1>5, <1>6, <1>7, <1>8, <1>9, <1>10, <1>11, <1>12, <1>13, NextCases

\* shutdown() misses nobody, and nobody gets in after it.
LEMMA StopStep ==
    ASSUME TypeOK, TypeOK', ActiveIsInHand, StopReachesEveryone, [Next]_vars
    PROVE  StopReachesEveryone'
<1> USE DEF StopReachesEveryone
<1>1. ASSUME NEW r \in Requests, Enqueue(r) PROVE StopReachesEveryone'
  BY <1>1 DEF Enqueue, TypeOK
<1>2. ASSUME NEW r \in Requests, Refuse(r) PROVE StopReachesEveryone'
  BY <1>2 DEF Refuse, Answer
<1>3. ASSUME NEW r \in Requests, Cancel(r) PROVE StopReachesEveryone'
  BY <1>3 DEF Cancel
<1>4. CASE Take
  BY <1>4, HeadTailProperties, LenProperties DEF Take, TypeOK
<1>5. CASE IdleTick
  BY <1>5 DEF IdleTick
<1>6. CASE Break
  BY <1>6 DEF Break
<1>7. ASSUME worker \in {"taken", "running"}, NEW o \in Served, Finish(o)
      PROVE  StopReachesEveryone'
  BY <1>7 DEF Finish, Answer
<1>8. CASE StartRun
  BY <1>8 DEF StartRun
<1>9. CASE Maintain
  BY <1>9 DEF Maintain
<1>10. CASE OnExit
  BY <1>10 DEF OnExit
<1>11. CASE Shutdown
  BY <1>11 DEF Shutdown, ActiveIsInHand, TypeOK
<1>12. CASE Join
  BY <1>12 DEF Join
<1>13. CASE UNCHANGED vars
  BY <1>13 DEF vars
<1> QED
  BY <1>1, <1>2, <1>3, <1>4, <1>5, <1>6, <1>7, <1>8, <1>9, <1>10, <1>11, <1>12, <1>13, NextCases

\* enqueue() keeps the queue within its capacity.
LEMMA BoundStep ==
    ASSUME TypeOK, QueueBounded, [Next]_vars
    PROVE  QueueBounded'
<1> USE DEF QueueBounded
<1>1. ASSUME NEW r \in Requests, Enqueue(r) PROVE QueueBounded'
  BY <1>1, CapacityAssumption, AppendProperties, LenProperties DEF Enqueue, TypeOK
<1>2. ASSUME NEW r \in Requests, Refuse(r) PROVE QueueBounded'
  BY <1>2 DEF Refuse, Answer
<1>3. ASSUME NEW r \in Requests, Cancel(r) PROVE QueueBounded'
  BY <1>3 DEF Cancel
<1>4. CASE Take
  BY <1>4, CapacityAssumption, HeadTailProperties, LenProperties DEF Take, TypeOK
<1>5. CASE IdleTick
  BY <1>5 DEF IdleTick
<1>6. CASE Break
  BY <1>6 DEF Break
<1>7. ASSUME worker \in {"taken", "running"}, NEW o \in Served, Finish(o)
      PROVE  QueueBounded'
  BY <1>7 DEF Finish, Answer
<1>8. CASE StartRun
  BY <1>8 DEF StartRun
<1>9. CASE Maintain
  BY <1>9 DEF Maintain
<1>10. CASE OnExit
  BY <1>10 DEF OnExit
<1>11. CASE Shutdown
  BY <1>11 DEF Shutdown
<1>12. CASE Join
  BY <1>12 DEF Join
<1>13. CASE UNCHANGED vars
  BY <1>13 DEF vars
<1> QED
  BY <1>1, <1>2, <1>3, <1>4, <1>5, <1>6, <1>7, <1>8, <1>9, <1>10, <1>11, <1>12, <1>13, NextCases

\* Giving r an answer touches no other request's answer.
LEMMA AnswerAppends ==
    ASSUME TypeOK, NEW r \in Requests, NEW o \in Outcomes, Answer(r, o)
    PROVE  /\ answers'[r] = Append(answers[r], o)
           /\ answers'[r] # <<>>
           /\ \A q \in Requests : q # r => answers'[q] = answers[q]
<1>1. answers[r] \in Seq(Outcomes)
  BY DEF TypeOK
<1>2. Append(answers[r], o) # <<>>
  BY <1>1, AppendProperties
<1> QED
  BY <1>2 DEF TypeOK, Answer

\* The worker answers before it lets go.
LEMMA AnsweredStep ==
    ASSUME TypeOK, TypeOK', ServedAreAnswered, [Next]_vars
    PROVE  ServedAreAnswered'
<1> USE DEF ServedAreAnswered
<1>1. ASSUME NEW r \in Requests, Enqueue(r) PROVE ServedAreAnswered'
  BY <1>1 DEF Enqueue
<1>2. ASSUME NEW r \in Requests, Refuse(r) PROVE ServedAreAnswered'
  <2>1. answers'[r] # <<>> /\ \A q \in Requests : q # r => answers'[q] = answers[q]
    BY <1>2, AnswerAppends DEF Refuse, TypeOK, Outcomes
  <2> QED
    BY <1>2, <2>1 DEF Refuse, TypeOK
<1>3. ASSUME NEW r \in Requests, Cancel(r) PROVE ServedAreAnswered'
  BY <1>3 DEF Cancel
<1>4. CASE Take
  BY <1>4 DEF Take
<1>5. CASE IdleTick
  BY <1>5 DEF IdleTick
<1>6. CASE Break
  BY <1>6 DEF Break
<1>7. ASSUME worker \in {"taken", "running"}, NEW o \in Served, Finish(o)
      PROVE  ServedAreAnswered'
  <2>1. answers'[item] # <<>> /\ \A q \in Requests : q # item => answers'[q] = answers[q]
    BY <1>7, AnswerAppends DEF Finish, TypeOK, Outcomes
  <2>2. /\ Len(served') = Len(served) + 1
        /\ \A i \in 1..Len(served) : served'[i] = served[i]
        /\ served'[Len(served) + 1] = item
    BY <1>7, AppendProperties DEF Finish, TypeOK
  <2> SUFFICES ASSUME NEW i \in 1..Len(served) + 1
               PROVE  answers'[served'[i]] # <<>>
    BY <2>2
  <2>3. Len(served) \in Nat
    BY LenProperties DEF TypeOK
  <2>4. CASE i = Len(served) + 1
    BY <2>1, <2>2, <2>4
  <2>5. CASE i \in 1..Len(served)
    <3>1. served[i] \in Requests /\ answers[served[i]] # <<>>
      BY <2>5, ElementOfSeq DEF TypeOK
    <3> QED
      BY <2>1, <2>2, <2>5, <3>1
  <2> QED
    BY <2>3, <2>4, <2>5
<1>8. CASE StartRun
  BY <1>8 DEF StartRun
<1>9. CASE Maintain
  BY <1>9 DEF Maintain
<1>10. CASE OnExit
  BY <1>10 DEF OnExit
<1>11. CASE Shutdown
  BY <1>11 DEF Shutdown
<1>12. CASE Join
  BY <1>12 DEF Join
<1>13. CASE UNCHANGED vars
  BY <1>13 DEF vars
<1> QED
  BY <1>1, <1>2, <1>3, <1>4, <1>5, <1>6, <1>7, <1>8, <1>9, <1>10, <1>11, <1>12, <1>13, NextCases

\* A non-empty queue is its head followed by its tail.
LEMMA HeadThenTail ==
    ASSUME NEW S, NEW q \in Seq(S), q # <<>>
    PROVE  q = <<Head(q)>> \o Tail(q)
<1>1. /\ Head(q) \in S /\ Tail(q) \in Seq(S) /\ Len(Tail(q)) = Len(q) - 1
      /\ \A i \in 1..Len(Tail(q)) : Tail(q)[i] = q[i + 1]
  BY HeadTailProperties
<1>2. Len(q) \in Nat \ {0} /\ Head(q) = q[1]
  BY EmptySeq
<1>3. <<Head(q)>> \in Seq(S) /\ Len(<<Head(q)>>) = 1 /\ <<Head(q)>>[1] = Head(q)
  BY <1>1
<1>4. /\ <<Head(q)>> \o Tail(q) \in Seq(S)
      /\ Len(<<Head(q)>> \o Tail(q)) = Len(q)
      /\ \A i \in 1..Len(q) : (<<Head(q)>> \o Tail(q))[i] =
             IF i <= 1 THEN <<Head(q)>>[i] ELSE Tail(q)[i - 1]
  BY <1>1, <1>2, <1>3, ConcatProperties
<1>5. ASSUME NEW i \in 1..Len(q) PROVE (<<Head(q)>> \o Tail(q))[i] = q[i]
  <2>1. CASE i = 1
    BY <1>2, <1>3, <1>4, <2>1
  <2>2. CASE i # 1
    BY <1>1, <1>2, <1>4, <2>2
  <2> QED
    BY <2>1, <2>2
<1> QED
  BY <1>4, <1>5, SeqEqual

\* First come, first served, nobody skipped.
LEMMA OrderStep ==
    ASSUME TypeOK, TypeOK', ServedInOrder, [Next]_vars
    PROVE  ServedInOrder'
<1> USE DEF ServedInOrder
<1>0. /\ served \in Seq(Requests) /\ queue \in Seq(Requests) /\ accepted \in Seq(Requests)
      /\ Hand \in Seq(Requests)
  BY DEF TypeOK, Hand
<1>1. ASSUME NEW r \in Requests, Enqueue(r) PROVE ServedInOrder'
  <2>1. Hand' = Hand /\ served' = served
    BY <1>1 DEF Enqueue, Hand
  <2>2. CASE UNCHANGED <<queue, accepted>>
    BY <2>1, <2>2
  <2>3. CASE queue' = Append(queue, r) /\ accepted' = Append(accepted, r)
    <3>1. queue' = queue \o <<r>> /\ accepted' = accepted \o <<r>> /\ <<r>> \in Seq(Requests)
      BY <1>0, <2>3, AppendIsConcat
    <3>2. ((served \o Hand) \o queue) \o <<r>> = (served \o Hand) \o (queue \o <<r>>)
      BY <1>0, <3>1, ConcatProperties, ConcatAssociative
    <3> QED
      BY <2>1, <3>1, <3>2
  <2> QED
    BY <1>1, <2>2, <2>3 DEF Enqueue
<1>2. CASE Take
  <2>1. Hand = <<>> /\ Hand' = <<Head(queue)>> /\ UNCHANGED <<served, accepted>>
    BY <1>2 DEF Take, Hand
  <2>2. Head(queue) \in Requests /\ Tail(queue) \in Seq(Requests) /\ queue' = Tail(queue)
    BY <1>0, <1>2, HeadTailProperties DEF Take
  <2>3. queue = <<Head(queue)>> \o Tail(queue)
    BY <1>0, <1>2, HeadThenTail DEF Take
  <2>4. <<Head(queue)>> \in Seq(Requests)
    BY <2>2
  <2>5. served \o (<<Head(queue)>> \o Tail(queue)) = (served \o <<Head(queue)>>) \o Tail(queue)
    <3>1. \A h, t \in Seq(Requests) : (served \o h) \o t = served \o (h \o t)
      BY <1>0, ConcatAssociative
    <3> QED
      BY <2>2, <2>4, <3>1
  <2>6. (served \o <<>>) \o queue = served \o queue
    BY <1>0, ConcatEmptySeq
  <2>7. (served \o Hand) \o queue = (served \o Hand') \o queue'
    BY <2>1, <2>2, <2>3, <2>5, <2>6
  <2> QED
    BY <2>1, <2>7
<1>3. ASSUME worker \in {"taken", "running"}, NEW o \in Served, Finish(o)
      PROVE  ServedInOrder'
  <2>1. Hand = <<item>> /\ Hand' = <<>> /\ UNCHANGED <<queue, accepted>>
    BY <1>3 DEF Finish, Hand
  <2>2. item \in Requests
    BY <1>3 DEF TypeOK
  <2>3. served' = served \o <<item>>
    <3>1. Append(served, item) = served \o <<item>>
      BY <1>0, <2>2, AppendIsConcat
    <3> QED
      BY <1>3, <3>1 DEF Finish
  <2>4. served' \o <<>> = served'
    BY ConcatEmptySeq DEF TypeOK
  <2> QED
    BY <2>1, <2>3, <2>4
<1>4. ASSUME UNCHANGED <<queue, served, accepted, item>>, Hand' = Hand PROVE ServedInOrder'
  BY <1>4
<1>5. ASSUME \/ \E r \in Requests : Refuse(r)
             \/ \E r \in Requests : Cancel(r)
             \/ IdleTick \/ Break \/ StartRun \/ Maintain \/ OnExit
             \/ Shutdown \/ Join \/ UNCHANGED vars
      PROVE  UNCHANGED <<queue, served, accepted, item>> /\ Hand' = Hand
  BY <1>5 DEF Refuse, Cancel, IdleTick, Break, StartRun, Maintain, OnExit,
              Shutdown, Join, vars, Hand
<1> QED
  BY <1>1, <1>2, <1>3, <1>4, <1>5, NextCases

-----------------------------------------------------------------------------
\* IndInv holds from the start ...
LEMMA IndInvInit == Init => IndInv
<1> SUFFICES ASSUME Init PROVE IndInv
  OBVIOUS
<1>1. TypeOK
  <2>1. \A S : <<>> \in Seq(S)
    BY EmptySeq
  <2>2. answers \in [Requests -> Seq(Outcomes)]
    BY <2>1 DEF Init
  <2> QED
    BY <2>1, <2>2, NoRequestAssumption DEF Init, TypeOK
<1>2. OneHome /\ SettledAtMostOnce
  BY NoRequestAssumption DEF Init, OneHome, SettledAtMostOnce
<1>3. ActiveIsInHand /\ Positions /\ StopReachesEveryone
  BY DEF Init, ActiveIsInHand, Positions, StopReachesEveryone
<1>4. QueueBounded /\ ServedAreAnswered
  BY CapacityAssumption DEF Init, QueueBounded, ServedAreAnswered
<1>5. ServedInOrder
  <2>1. <<>> \o <<>> = <<>>
    BY ConcatEmptySeq, EmptySeq
  <2> QED
    BY <2>1 DEF Init, ServedInOrder, Hand
<1> QED
  BY <1>1, <1>2, <1>3, <1>4, <1>5 DEF IndInv

\* ... and every step keeps it.
LEMMA IndInvStep == IndInv /\ [Next]_vars => IndInv'
<1> SUFFICES ASSUME IndInv, [Next]_vars PROVE IndInv'
  OBVIOUS
<1>1. TypeOK'
  BY TypeStep DEF IndInv
<1> QED
  BY <1>1, HomeStep, PositionStep, ActiveStep, StopStep, BoundStep, AnsweredStep, OrderStep
     DEF IndInv

\* The types of Scheduler hold in every reachable state (Scheduler.h, the members).
THEOREM TypeCorrect == Spec => []TypeOK
<1>1. Spec => []IndInv
  BY IndInvInit, IndInvStep, PTL DEF Spec
<1>2. IndInv => TypeOK
  BY DEF IndInv
<1> QED
  BY <1>1, <1>2, PTL

\* The whole inductive invariant, for the theorems below.
LEMMA IndInvAlways == Spec => []IndInv
  BY IndInvInit, IndInvStep, PTL DEF Spec

\* No promise is settled twice, by enqueue() or by loop().
THEOREM NeverSettledTwice == Spec => []SettledAtMostOnce
<1>1. IndInv => SettledAtMostOnce
  BY DEF IndInv
<1> QED
  BY <1>1, IndInvAlways, PTL

\* Requests are served first come, first served, none lost (enqueue, loop).
THEOREM FirstComeFirstServed == Spec => []ServedInOrder
<1>1. IndInv => ServedInOrder
  BY DEF IndInv
<1> QED
  BY <1>1, IndInvAlways, PTL

\* The queue stays within capacity_ (enqueue).
THEOREM WithinCapacity == Spec => []QueueBounded
<1>1. IndInv => QueueBounded
  BY DEF IndInv
<1> QED
  BY <1>1, IndInvAlways, PTL

\* shutdown() sets the token of everything accepted and unsettled.
THEOREM StopReaches == Spec => []StopReachesEveryone
<1>1. IndInv => StopReachesEveryone
  BY DEF IndInv
<1> QED
  BY <1>1, IndInvAlways, PTL

\* With nothing queued and nothing in hand, everything accepted was served.
LEMMA EmptyIsServed ==
    ASSUME IndInv, queue = <<>>, worker \notin {"taken", "running"}
    PROVE  served = accepted
<1>1. Hand = <<>> /\ served \in Seq(Requests)
  BY DEF IndInv, TypeOK, Hand
<1> QED
  BY <1>1, ConcatEmptySeq DEF IndInv, ServedInOrder

\* onExit_ destroys the state only when nothing can use it any more.
THEOREM StateOutlives == Spec => []StateOutlivesWork
<1>1. IndInv => StateOutlivesWork
  <2> SUFFICES ASSUME IndInv PROVE StateOutlivesWork
    OBVIOUS
  <2>1. worker # "exited" => state
    BY DEF IndInv, Positions, TypeOK
  <2>2. ASSUME ~state PROVE worker = "exited" /\ queue = <<>> /\ stopping /\ item = NoRequest
    BY <2>2 DEF IndInv, Positions, TypeOK
  <2>3. ASSUME ~state PROVE served = accepted
    BY <2>2, <2>3, EmptyIsServed
  <2> QED
    BY <2>1, <2>2, <2>3 DEF StateOutlivesWork
<1> QED
  BY <1>1, IndInvAlways, PTL

\* When shutdown() has returned, whatever was accepted is answered.
THEOREM Drained == Spec => []ClosedIsDrained
<1>1. IndInv => ClosedIsDrained
  <2> SUFFICES ASSUME IndInv, closer = "closed" PROVE ClosedIsDrained
    BY DEF ClosedIsDrained
  <2>1. worker = "exited" /\ queue = <<>> /\ ~state
    BY DEF IndInv, Positions, TypeOK
  <2>2. served = accepted
    BY <2>1, EmptyIsServed
  <2> QED
    BY <2>1, <2>2 DEF IndInv, ServedAreAnswered, ClosedIsDrained
<1> QED
  BY <1>1, IndInvAlways, PTL

\* No run() begins after stopping_ was set.
THEOREM NothingRunsAfterStop == Spec => NoRunAfterStop
<1>1. IndInv /\ [Next]_vars => [stopping => ~(worker # "running" /\ worker' = "running")]_vars
  <2> SUFFICES ASSUME IndInv, [Next]_vars, stopping, worker # "running"
               PROVE  worker' # "running"
    OBVIOUS
  <2>1. ASSUME StartRun PROVE FALSE
    BY <2>1 DEF StartRun, IndInv, StopReachesEveryone
  <2> QED
    BY <2>1, NextCases DEF IndInv, TypeOK, Enqueue, Refuse, Cancel, Take, IdleTick, Break,
       Finish, Maintain, OnExit, Shutdown, Join, vars
<1> QED
  BY <1>1, IndInvAlways, PTL DEF Spec, NoRunAfterStop

\* A cancelled request that does not run never starts to: run() is entered only after a look at
\* the token, on the thread that reads it, and a token is never set back.
LEMMA CancelledStaysOut ==
    ASSUME TypeOK, [Next]_vars, NEW r \in Requests, r \in cancelled, ~Running(r)
    PROVE  r \in cancelled' /\ ~Running(r)'
<1>1. r \in cancelled'
  BY NextCases DEF Enqueue, Refuse, Cancel, Take, IdleTick, Break, Finish, StartRun, Maintain,
     OnExit, Shutdown, Join, vars
<1>2. CASE StartRun
  BY <1>2 DEF StartRun, Running
<1>3. CASE ~StartRun
  BY <1>3, NextCases DEF Enqueue, Refuse, Cancel, Take, IdleTick, Break, Finish, Maintain,
     OnExit, Shutdown, Join, vars, Running
<1> QED
  BY <1>1, <1>2, <1>3

\* A request whose token is set while it waits in queue_ is never run, whatever happens later.
THEOREM CancelledWaitingHolds == Spec => CancelledWaitingNeverRuns
<1>1. ASSUME NEW r \in Requests
      PROVE  Spec => [](r \in cancelled /\ Waiting(r) => []~Running(r))
  <2> DEFINE Out == r \in cancelled /\ ~Running(r)
  <2>1. IndInv /\ r \in cancelled /\ Waiting(r) => Out
    BY DEF IndInv, OneHome, Waiting, Running
  <2>2. IndInv /\ Out /\ [Next]_vars => Out'
    BY CancelledStaysOut DEF IndInv
  <2>3. Out => ~Running(r)
    OBVIOUS
  <2> HIDE DEF Out
  <2> QED
    BY <2>1, <2>2, <2>3, IndInvAlways, PTL DEF Spec
<1> QED
  BY <1>1 DEF CancelledWaitingNeverRuns

-----------------------------------------------------------------------------
\* A step that neither submits nor answers r leaves what is known of it.
LEMMA KnownUnchanged ==
    ASSUME UNCHANGED <<answers, submitted>>
    PROVE  \A r \in Requests : KnownAnswer(r)' = KnownAnswer(r)
  BY DEF KnownAnswer

\* The first answer of a request is what its caller knows from then on.
LEMMA FirstAnswer ==
    ASSUME TypeOK, NEW r \in Requests, NEW o \in Outcomes, Answer(r, o),
           answers[r] = <<>>, r \in submitted, UNCHANGED submitted
    PROVE  /\ KnownAnswer(r) = "pending"
           /\ [q \in Requests |-> KnownAnswer(q)]' =
                 [[q \in Requests |-> KnownAnswer(q)] EXCEPT ![r] = o]
<1>1. answers'[r] = Append(<<>>, o) /\ \A q \in Requests : q # r => answers'[q] = answers[q]
  BY AnswerAppends
<1>2. Len(Append(<<>>, o)) = 1 /\ Append(<<>>, o)[1] = o /\ Append(<<>>, o) # <<>>
  BY EmptySeq, AppendProperties
<1>3. KnownAnswer(r)' = o
  BY <1>1, <1>2 DEF KnownAnswer
<1>4. \A q \in Requests : q # r => KnownAnswer(q)' = KnownAnswer(q)
  BY <1>1 DEF KnownAnswer
<1> QED
  BY <1>3, <1>4 DEF KnownAnswer

\* The scheduler does what Settlement promises: one answer per request, never
\* changed, and none but refusals after the state is gone (Scheduler.h:15).
THEOREM SchedulerSettles == Spec => ImplementsSettlement
<1> DEFINE known == [r \in Requests |-> KnownAnswer(r)]
<1>1. Init => Promise!Init
  BY DEF Init, Promise!Init, KnownAnswer
<1>2. ASSUME IndInv, [Next]_vars PROVE [Promise!Next]_(Promise!vars)
  <2>0. TypeOK
    BY <1>2 DEF IndInv
  <2>1. ASSUME NEW r \in Requests, Enqueue(r) PROVE Promise!Next
    <3>1. r \notin submitted /\ submitted' = submitted \cup {r} /\ UNCHANGED <<answers, state>>
      BY <2>1 DEF Enqueue
    <3>2. answers[r] = <<>>
      BY <1>2, <3>1 DEF IndInv, OneHome
    <3>3. known[r] = "none" /\ known' = [known EXCEPT ![r] = "pending"]
      BY <3>1, <3>2 DEF KnownAnswer
    <3>4. Promise!Submit(r)
      BY <3>1, <3>3 DEF Promise!Submit
    <3> QED
      BY <3>4 DEF Promise!Next
  <2>2. ASSUME NEW r \in Requests, Refuse(r) PROVE Promise!Next
    <3>1. /\ refusing[r] \in Refused /\ Answer(r, refusing[r]) /\ UNCHANGED <<submitted, state>>
          /\ answers[r] = <<>> /\ r \in submitted
      BY <1>2, <2>0, <2>2 DEF Refuse, TypeOK, IndInv, OneHome
    <3>2. refusing[r] \in Outcomes /\ refusing[r] \in Promise!Refused /\ refusing[r] \in Promise!Outcomes
      BY <3>1 DEF Refused, Outcomes, Promise!Refused, Promise!Outcomes
    <3>3. known[r] = "pending" /\ known' = [known EXCEPT ![r] = refusing[r]]
      BY <2>0, <3>1, <3>2, FirstAnswer
    <3>4. Promise!Settle(r, refusing[r])
      BY <3>1, <3>2, <3>3 DEF Promise!Settle
    <3> QED
      BY <3>2, <3>4 DEF Promise!Next
  <2>3. ASSUME worker \in {"taken", "running"}, NEW o \in Served, Finish(o) PROVE Promise!Next
    <3>1. /\ item \in Requests /\ Answer(item, o) /\ UNCHANGED <<submitted, state>>
          /\ answers[item] = <<>> /\ item \in submitted
      BY <1>2, <2>0, <2>3, NoRequestAssumption DEF Finish, TypeOK, IndInv, OneHome
    <3>2. o \in Outcomes /\ o \in Promise!Outcomes
      BY DEF Served, Outcomes, Promise!Served, Promise!Outcomes
    <3>3. known[item] = "pending" /\ known' = [known EXCEPT ![item] = o]
      BY <2>0, <3>1, <3>2, FirstAnswer
    <3>4. state
      BY <1>2, <2>3 DEF IndInv, Positions, TypeOK
    <3>5. Promise!Settle(item, o)
      BY <3>1, <3>3, <3>4 DEF Promise!Settle
    <3> QED
      BY <3>1, <3>2, <3>5 DEF Promise!Next
  <2>4. CASE OnExit
    <3>1. state /\ state' = FALSE /\ UNCHANGED <<answers, submitted>>
      BY <1>2, <2>4 DEF OnExit, IndInv, Positions, TypeOK
    <3>2. Promise!Close
      BY <3>1, KnownUnchanged DEF Promise!Close
    <3> QED
      BY <3>2 DEF Promise!Next
  <2>5. ASSUME \/ \E r \in Requests : Cancel(r)
               \/ Take \/ IdleTick \/ Break \/ StartRun \/ Maintain
               \/ Shutdown \/ Join \/ UNCHANGED vars
        PROVE  UNCHANGED Promise!vars
    <3>1. UNCHANGED <<answers, submitted, state>>
      BY <2>5 DEF Cancel, Take, IdleTick, Break, StartRun, Maintain, Shutdown, Join, vars
    <3> QED
      BY <3>1, KnownUnchanged DEF Promise!vars
  <2> QED
    BY <1>2, <2>1, <2>2, <2>3, <2>4, <2>5, NextCases
<1> QED
  BY <1>1, <1>2, IndInvAlways, PTL DEF Spec, Promise!Spec, ImplementsSettlement
=============================================================================
