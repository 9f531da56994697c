-------------------------- MODULE HttpServerProofs --------------------------
(***************************************************************************)
(* Proofs, for any number of connections, any limits and any methods, of   *)
(* what HttpServer's runs check on a few: the balance of the admission     *)
(* leases, that no operation is left behind, and the order of the frames.  *)
(*                                                                         *)
(* A step belongs to one request and leaves the others alone, so that the  *)
(* inductive invariant is a conjunction over the requests, plus the        *)
(* balance of the two counters.                                            *)
(***************************************************************************)
EXTENDS HttpServer, SequenceTheorems, FiniteSetTheorems, TLAPS

-----------------------------------------------------------------------------
(* The inductive invariant.                                                *)

Waiting == {"none", "queued", "admit", "start"}
Starting == {"register", "accept", "await", "wait"}
Streaming == {"stream", "pause", "drain", "fail"}
Ending == {"guard", "respond", "gone"}

Frames == 0 .. MaxEvents + 2

States == [frames : Seq(Frames), output : Nat, started : BOOLEAN, finished : BOOLEAN,
           overflow : BOOLEAN, abandoned : BOOLEAN]

Places == Waiting \cup Starting \cup Streaming \cup {"write"} \cup Ending

ControlTypes ==
    /\ server \in {"closed", "open", "stopping", "joining"}
    /\ method \in [Requests -> Methods \cup {NoMethod}]
    /\ at \in [Requests -> Places]
    /\ work \in Int /\ control \in Int /\ charged \subseteq Requests
    /\ after \in [Requests -> {"none", "stream", "fail", "guard"}]
    /\ ready \in [Requests -> BOOLEAN]
    /\ active \subseteq Requests
    /\ emitted \in [Requests -> 0 .. MaxEvents]
    /\ result \in [Requests -> {"none", "running", "ok", "error"}]
    /\ cancelled \subseteq Requests /\ broken \subseteq Requests
    /\ gone \subseteq Requests /\ late \subseteq Requests

StateTypes == state \in [Requests -> States]

FrameTypes ==
    /\ batch \in [Requests -> Seq(Frames)]
    /\ wire \in [Requests -> Seq(Frames)]

TypeOK == ControlTypes /\ StateTypes /\ FrameTypes

\* A request that was not dispatched has no operation, and one that has a place has a method.
Dispatched(r) ==
    /\ at[r] # "none" => method[r] \in Methods
    /\ at[r] \in Waiting => /\ result[r] = "none" /\ emitted[r] = 0 /\ state[r] = NoState
                            /\ ~ready[r]
    /\ ready[r] => Settled(r)

\* Which kinds of request get where.
Placed(r) ==
    /\ at[r] \in {"accept", "drain", "fail"} => Is(r, "rpc") /\ Stream(r)
    /\ at[r] \in {"wait", "pause"} => Is(r, "complete")
    /\ at[r] \in Streaming \cup {"write"} => Stream(r)
    /\ at[r] = "await" /\ ~Is(r, "complete") => ~Stream(r)
    /\ at[r] = "register" => HasToken(r)
    /\ at[r] = "write" => after[r] \in {"stream", "fail", "guard"}
    /\ at[r] = "write" /\ after[r] = "fail" => Is(r, "rpc")

\* What the stream state says of the operation while somebody wants its events.
Recorded(r) ==
    /\ state[r].abandoned => at[r] \in {"respond", "gone"}
    /\ Is(r, "complete") /\ ~state[r].abandoned =>
           /\ state[r].started <=> emitted[r] > 0
           /\ state[r].finished <=> Settled(r)
    /\ Is(r, "complete") /\ result[r] = "ok" => emitted[r] > 0

\* Where the lists of leases and of tokens have a request.
Listed(r) ==
    /\ r \in charged => at[r] \notin {"none", "queued", "admit", "gone"}
    /\ r \in active => HasToken(r) /\ at[r] \in Starting \cup Streaming \cup {"write", "guard"}
    /\ at[r] \in {"respond", "gone"} /\ HasToken(r) /\ result[r] = "running" => r \in cancelled

-----------------------------------------------------------------------------
(* The places of the frames.  A stream's are numbered from First on, and   *)
(* Total of them come before the end; an answer in one piece is its end.   *)

First(r) == IF Is(r, "rpc") THEN 0 ELSE 1
Total(r) == IF method[r] # NoMethod /\ Stream(r) THEN (emitted[r] + 1) - First(r) ELSE 0

\* The first n of s are numbered from k on.
Upto(s, k, n) == \A i \in 1 .. n : s[i] + 1 = k + i

\* s is the beginning of r's answer: some of the frames, or all of them and the result, or
\* some and the error.
Proper(r, s) ==
    \/ Len(s) <= Total(r) /\ Upto(s, First(r), Len(s))
    \/ /\ Len(s) > 0
       /\ Upto(s, First(r), Len(s) - 1)
       /\ \/ s[Len(s)] = Final /\ Len(s) = Total(r) + 1 /\ result[r] = "ok"
          \/ s[Len(s)] = Failure /\ Len(s) <= Total(r) + 1

\* What is on the wire and what goes there next.
Written(r) ==
    /\ at[r] \in Waiting \cup Starting => wire[r] = <<>>
    /\ at[r] \notin {"write", "guard", "respond"} => batch[r] = <<>>
    /\ Proper(r, wire[r] \o batch[r])
    /\ at[r] \in Streaming \/ (at[r] = "write" /\ after[r] \in {"stream", "fail"}) =>
           /\ Len(wire[r]) + Len(batch[r]) <= Total(r)
           /\ Upto(wire[r] \o batch[r], First(r), Len(wire[r]) + Len(batch[r]))

\* The buffer of a stream is being filled and emptied in order.
Buffering(r) ==
    /\ method[r] # NoMethod /\ Stream(r) /\ ~state[r].overflow
    /\ \/ at[r] \in Starting \cup {"stream", "pause", "drain"}
       \/ at[r] = "write" /\ after[r] = "stream"

\* Frames that are before those in the buffer; the handle of an RPC comes in front of them.
Ahead(r) == IF Is(r, "rpc") /\ at[r] \in {"register", "accept"} THEN 1
            ELSE Len(wire[r]) + Len(batch[r])

\* A completion's end is put into the buffer behind its events.
EndInBuffer(r) == Is(r, "complete") /\ Settled(r)
EventsIn(r) == IF EndInBuffer(r) THEN Len(state[r].frames) - 1 ELSE Len(state[r].frames)

\* The buffer goes on where the wire ends, until it overflows.
Buffered(r) ==
    Buffering(r) =>
        /\ EventsIn(r) >= 0
        /\ Ahead(r) + EventsIn(r) = Total(r)
        /\ Upto(state[r].frames, First(r) + Ahead(r), EventsIn(r))
        /\ EndInBuffer(r) => state[r].frames[Len(state[r].frames)] =
                                 IF result[r] = "ok" THEN Final ELSE Failure

ReqInv(r) == Dispatched(r) /\ Placed(r) /\ Recorded(r) /\ Listed(r) /\ Written(r) /\ Buffered(r)

\* Each counter is the number of the responses charged to it, and only requests that
\* are alive are charged.
Balance ==
    /\ IsFiniteSet(Busy)
    /\ charged \subseteq Busy
    /\ work = Cardinality({r \in charged : ~method[r].control})
    /\ control = Cardinality({r \in charged : method[r].control})
    /\ work <= Workers /\ control <= Controls
    /\ server = "closed" => \A r \in Requests : at[r] \in {"none", "gone"}

IndInv ==
    /\ TypeOK
    /\ \A r \in Requests : ReqInv(r)
    /\ Balance

-----------------------------------------------------------------------------
(* Types.                                                                  *)

\* Next, action by action.
Acts(r) ==
    \/ \E m \in Methods : Arrive(r, m)
    \/ Route(r) \/ Admit(r) \/ Rejected(r)
    \/ \E outcome \in {"running", "ok", "error"} : Dispatch(r, outcome)
    \/ Register(r) \/ Await(r) \/ Wait(r) \/ AwaitFuture(r) \/ Accept(r)
    \/ Provide(r) \/ Pause(r) \/ ProvideRpc(r) \/ DrainRpc(r) \/ FailRpc(r)
    \/ \E n \in 0..(MaxEvents + 2) : Write(r, n)
    \/ Guard(r) \/ GuardRpc(r)
    \/ \E written \in BOOLEAN : Respond(r, written)
    \/ Event(r) \/ Disconnect(r) \/ Expire(r)
    \/ \E outcome \in {"ok", "error"}, text \in 0..1 : Finish(r, outcome, text)

LEMMA NextCases ==
    ASSUME [Next]_vars
    PROVE  \/ \E r \in Requests : Acts(r)
           \/ Listen \/ Close \/ CloseCancel \/ Join
           \/ UNCHANGED vars
  BY DEF Next, Acts, Handler

LEMMA ActsIsNext ==
    ASSUME NEW r \in Requests, Acts(r)
    PROVE  Next
  BY DEF Next, Acts, Handler

LEMMA FramesFit ==
    /\ Accepted \in Frames /\ Final \in Frames /\ Failure \in Frames
    /\ \A n \in 0 .. MaxEvents : n \in Frames /\ n # Final /\ n # Failure
    /\ Final # Failure
    /\ <<>> \in Seq(Frames)
    /\ <<Accepted>> \in Seq(Frames) /\ <<Final>> \in Seq(Frames) /\ <<Failure>> \in Seq(Frames)
    /\ NoState \in States
  BY HttpAssumption DEF Accepted, Final, Failure, Frames, NoState, States

\* A callback leaves a state a state.
LEMMA NotedType ==
    ASSUME NEW st \in States, NEW frame \in Frames, NEW text \in 0 .. 1
    PROVE  /\ Noted(st, frame, text) \in States
           /\ Noted(st, frame, text).frames = st.frames
           /\ Noted(st, frame, text).abandoned = st.abandoned
           /\ Noted(st, frame, text).overflow = st.overflow
           /\ Noted(st, frame, text).started <=> st.started \/ frame = 1
           /\ Noted(st, frame, text).finished <=> st.finished \/ frame > MaxEvents
<1> DEFINE begun == st.started \/ frame = 1
           ended == st.finished \/ frame > MaxEvents
           total == st.output + text
           noted(b, t, e) == [st EXCEPT !.started = b, !.output = t, !.finished = e]
<1>1. total \in Nat
  BY DEF States
<1>2. begun \in BOOLEAN /\ ended \in BOOLEAN
  OBVIOUS
<1>3. \A b \in BOOLEAN, e \in BOOLEAN, t \in Nat :
          /\ noted(b, t, e) \in States
          /\ noted(b, t, e).frames = st.frames
          /\ noted(b, t, e).abandoned = st.abandoned
          /\ noted(b, t, e).overflow = st.overflow
          /\ noted(b, t, e).started = b
          /\ noted(b, t, e).finished = e
  BY DEF States
<1>4. Noted(st, frame, text) = noted(begun, total, ended)
  BY Zenon DEF Noted
<1> HIDE DEF total, noted
<1>5. (begun <=> st.started \/ frame = 1) /\ (ended <=> st.finished \/ frame > MaxEvents)
  OBVIOUS
<1> HIDE DEF begun, ended
<1>6. /\ noted(begun, total, ended) \in States
      /\ noted(begun, total, ended).frames = st.frames
      /\ noted(begun, total, ended).abandoned = st.abandoned
      /\ noted(begun, total, ended).overflow = st.overflow
      /\ noted(begun, total, ended).started = begun
      /\ noted(begun, total, ended).finished = ended
  BY <1>1, <1>2, <1>3
<1> QED
  BY <1>4, <1>5, <1>6

LEMMA OnEventType ==
    ASSUME TypeOK, NEW r \in Requests, NEW frame \in Frames, NEW text \in 0 .. 1
    PROVE  /\ OnEvent(r, frame, text) \in States
           /\ OnRpcEvent(r, frame) \in States
<1>1. state[r] \in States
  BY DEF TypeOK, StateTypes
<1>2. Append(state[r].frames, frame) \in Seq(Frames)
  BY <1>1, AppendProperties DEF States
<1>3. OnRpcEvent(r, frame) \in States
  BY <1>1, <1>2 DEF OnRpcEvent, States
<1>4. /\ Noted(state[r], frame, text) \in States
      /\ Noted(state[r], frame, text).frames = state[r].frames
  BY <1>1, NotedType
<1>5. OnEvent(r, frame, text) \in States
  BY <1>1, <1>2, <1>4 DEF OnEvent, States
<1> QED
  BY <1>3, <1>5

\* What a callback does to the state: an overflow takes nothing more.
LEMMA OnEventEffect ==
    ASSUME TypeOK, NEW r \in Requests, NEW frame \in Frames, NEW text \in 0 .. 1,
           ~state[r].abandoned
    PROVE  LET st == OnEvent(r, frame, text)
           IN  /\ ~st.abandoned
               /\ st.started <=> state[r].started \/ frame = 1
               /\ st.finished <=> state[r].finished \/ frame > MaxEvents
               /\ ~st.overflow => /\ ~state[r].overflow
                                  /\ Stream(r) => st.frames = Append(state[r].frames, frame)
<1>1. state[r] \in States
  BY DEF TypeOK, StateTypes
<1> DEFINE noted == Noted(state[r], frame, text)
<1>2. /\ noted.started <=> state[r].started \/ frame = 1
      /\ noted.finished <=> state[r].finished \/ frame > MaxEvents
      /\ noted.abandoned = state[r].abandoned /\ noted.overflow = state[r].overflow
      /\ noted.frames = state[r].frames
      /\ noted \in States
  BY <1>1, NotedType
<1> HIDE DEF noted
<1>3. LET st == [noted EXCEPT !.overflow = TRUE]
      IN  st.overflow /\ st.abandoned = noted.abandoned /\ st.started = noted.started
          /\ st.finished = noted.finished
  BY <1>2 DEF States
<1>4. LET st == [noted EXCEPT !.frames = Append(@, frame)]
      IN  /\ st.overflow = noted.overflow /\ st.abandoned = noted.abandoned
          /\ st.started = noted.started /\ st.finished = noted.finished
          /\ st.frames = Append(state[r].frames, frame)
  BY <1>2 DEF States
<1>5. OnEvent(r, frame, text) = IF Overflows(noted, r) THEN [noted EXCEPT !.overflow = TRUE]
                                ELSE IF Stream(r) THEN [noted EXCEPT !.frames = Append(@, frame)]
                                ELSE noted
  BY DEF OnEvent, noted
<1> QED
  BY <1>2, <1>3, <1>4, <1>5

LEMMA OnRpcEventEffect ==
    ASSUME TypeOK, NEW r \in Requests, NEW frame \in Frames, ~state[r].abandoned
    PROVE  LET st == OnRpcEvent(r, frame)
           IN  /\ ~st.abandoned
               /\ st.started = state[r].started /\ st.finished = state[r].finished
               /\ ~st.overflow => /\ ~state[r].overflow
                                  /\ st.frames = Append(state[r].frames, frame)
  BY DEF OnRpcEvent, TypeOK, StateTypes, States

\* Nobody is called who has left.
LEMMA AbandonedStays ==
    ASSUME NEW r, NEW frame, NEW text, state[r].abandoned
    PROVE  OnEvent(r, frame, text) = state[r] /\ OnRpcEvent(r, frame) = state[r]
  BY DEF OnEvent, OnRpcEvent

LEMMA TypeInit ==
    Init => TypeOK
  BY FramesFit, HttpAssumption DEF Init, TypeOK, ControlTypes, StateTypes, FrameTypes, Places, Waiting

LEMMA ControlTypeStep ==
    ASSUME ControlTypes, [Next]_vars
    PROVE  ControlTypes'
<1> USE DEF ControlTypes, Places, Waiting, Starting, Streaming, Ending,
        serviceVars, leaseVars, clientVars
<1>1. ASSUME NEW r \in Requests, Acts(r)
      PROVE  ControlTypes'
  <2>1. ASSUME NEW m \in Methods, Arrive(r, m) PROVE ControlTypes'
    BY <2>1 DEF Arrive, Go
  <2>2. CASE Route(r)
    BY <2>2 DEF Route, Reply, Go
  <2>3. CASE Admit(r)
    BY <2>3 DEF Admit, Reply, Go
  <2>4. CASE Rejected(r)
    BY <2>4 DEF Rejected, Reply, Go
  <2>5. CASE \E outcome \in {"running", "ok", "error"} : Dispatch(r, outcome)
    BY <2>5 DEF Dispatch, Go
  <2>6. CASE Register(r)
    BY <2>6 DEF Register, Go
  <2>7. CASE Await(r)
    BY <2>7 DEF Await, Reply, Go
  <2>8. CASE Wait(r)
    BY <2>8 DEF Wait, Reply, Go
  <2>9. CASE AwaitFuture(r)
    BY <2>9 DEF AwaitFuture, Reply, Go
  <2>10. CASE Accept(r)
    BY <2>10 DEF Accept, Go
  <2>11. CASE Provide(r)
    BY <2>11 DEF Provide, Broken, Take, Go
  <2>12. CASE Pause(r)
    BY <2>12 DEF Pause, Broken, Go
  <2>13. CASE ProvideRpc(r)
    <3>1. ready' \in [Requests -> BOOLEAN]
      <4>1. Settled(r) \in BOOLEAN
        BY DEF Settled
      <4> QED
        BY <2>13, <4>1 DEF ProvideRpc
    <3> QED
      BY <2>13, <3>1 DEF ProvideRpc, Broken, Go
  <2>14. CASE DrainRpc(r)
    BY <2>14 DEF DrainRpc, Drained, Broken, Take, Go
  <2>15. CASE FailRpc(r)
    BY <2>15 DEF FailRpc, Broken, Go
  <2>16. CASE \E n \in 0..(MaxEvents + 2) : Write(r, n)
    BY <2>16 DEF Write, Go
  <2>17. CASE Guard(r)
    BY <2>17 DEF Guard, Go
  <2>18. CASE GuardRpc(r)
    BY <2>18 DEF GuardRpc, Go
  <2>19. CASE \E written \in BOOLEAN : Respond(r, written)
    BY <2>19 DEF Respond, Release, Go
  <2>20. CASE Event(r)
    BY <2>20, HttpAssumption DEF Event
  <2>21. CASE Disconnect(r)
    BY <2>21 DEF Disconnect
  <2>22. CASE Expire(r)
    BY <2>22 DEF Expire
  <2>23. CASE \E outcome \in {"ok", "error"}, text \in 0..1 : Finish(r, outcome, text)
    BY <2>23 DEF Finish
  <2> QED
    BY <1>1, <2>1, <2>2, <2>3, <2>4, <2>5, <2>6, <2>7, <2>8, <2>9, <2>10, <2>11, <2>12, <2>13, <2>14, <2>15, <2>16, <2>17, <2>18, <2>19, <2>20, <2>21, <2>22, <2>23 DEF Acts
<1>2. CASE Listen \/ Close \/ CloseCancel \/ Join
  BY <1>2 DEF Listen, Close, CloseCancel, Join, Owner
<1>3. CASE UNCHANGED vars
  BY <1>3 DEF vars
<1> QED
  BY <1>1, <1>2, <1>3, NextCases

LEMMA StateTypeStep ==
    ASSUME TypeOK, [Next]_vars
    PROVE  StateTypes'
<1> USE DEF StateTypes
<1>0. StateTypes /\ (UNCHANGED state => StateTypes')
  BY DEF TypeOK
<1>1. ASSUME NEW r \in Requests, Acts(r)
      PROVE  StateTypes'
  <2>1. CASE \/ \E m \in Methods : Arrive(r, m)
             \/ Route(r) \/ Admit(r) \/ Rejected(r) \/ Register(r) \/ Await(r) \/ Wait(r)
             \/ AwaitFuture(r) \/ Pause(r) \/ ProvideRpc(r) \/ FailRpc(r)
             \/ \E n \in 0..(MaxEvents + 2) : Write(r, n)
             \/ \E written \in BOOLEAN : Respond(r, written)
             \/ Disconnect(r) \/ Expire(r)
    BY <2>1, <1>0 DEF Arrive, Route, Admit, Rejected, Register, Await, Wait, AwaitFuture, Pause,
                      ProvideRpc, FailRpc, Broken, Write, Respond, Disconnect, Expire
  <2>2. ASSUME NEW outcome, Dispatch(r, outcome) PROVE StateTypes'
    BY <2>2, <1>0, FramesFit, OnEventType DEF Dispatch
  <2>3. CASE Accept(r)
    <3>1. <<Accepted>> \o state[r].frames \in Seq(Frames)
      BY <1>0, FramesFit, ConcatProperties DEF States
    <3> QED
      BY <2>3, <3>1, <1>0 DEF Accept, States
  <2>4. ASSUME NEW frames, NEW then, Take(r, frames, then) PROVE StateTypes'
    BY <2>4, <1>0, FramesFit DEF Take, States
  <2>5. CASE Provide(r)
    BY <2>5, <2>4, <1>0 DEF Provide, Broken
  <2>6. CASE DrainRpc(r)
    BY <2>6, <2>4, <1>0 DEF DrainRpc, Drained, Broken
  <2>7. CASE Guard(r) \/ GuardRpc(r)
    <3>1. CASE Guard(r)
      BY <3>1, <1>0 DEF Guard, States
    <3>2. CASE GuardRpc(r)
      BY <3>2, <1>0, FramesFit DEF GuardRpc, States
    <3> QED
      BY <2>7, <3>1, <3>2
  <2>8. CASE Event(r)
    <3>1. emitted[r] + 1 \in Frames
      BY <2>8, HttpAssumption DEF Event, Frames, TypeOK, ControlTypes
    <3>2. \A text \in 0 .. 1 : /\ OnEvent(r, emitted[r] + 1, text) \in States
                              /\ OnRpcEvent(r, emitted[r] + 1) \in States
      BY <3>1, OnEventType
    <3> QED
      BY <2>8, <3>2, <1>0 DEF Event
  <2>9. ASSUME NEW outcome, NEW text \in 0 .. 1, Finish(r, outcome, text) PROVE StateTypes'
    BY <2>9, <1>0, FramesFit, OnEventType DEF Finish
  <2> QED
    BY <1>1, <2>1, <2>2, <2>3, <2>5, <2>6, <2>7, <2>8, <2>9 DEF Acts
<1>2. CASE Listen \/ Close \/ CloseCancel \/ Join \/ UNCHANGED vars
  BY <1>2, <1>0 DEF Listen, Close, CloseCancel, Join, Owner, vars
<1> QED
  BY <1>1, <1>2, NextCases

LEMMA FrameTypeStep ==
    ASSUME TypeOK, [Next]_vars
    PROVE  FrameTypes'
<1> USE FramesFit DEF TypeOK, FrameTypes
<1>1. ASSUME NEW r \in Requests, Acts(r)
      PROVE  FrameTypes'
  <2>1. CASE \E m \in Methods : Arrive(r, m)
    BY <2>1 DEF Arrive
  <2>2. CASE Route(r)
    BY <2>2 DEF Route, Reply, Go
  <2>3. CASE Admit(r)
    BY <2>3 DEF Admit, Reply, Go
  <2>4. CASE Rejected(r)
    BY <2>4 DEF Rejected, Reply, Go
  <2>5. CASE \E outcome \in {"running", "ok", "error"} : Dispatch(r, outcome)
    BY <2>5 DEF Dispatch, Go
  <2>6. CASE Register(r)
    BY <2>6 DEF Register, Go
  <2>7. CASE Await(r)
    BY <2>7 DEF Await, Reply, Go
  <2>8. CASE Wait(r)
    BY <2>8 DEF Wait, Reply, Go
  <2>9. CASE AwaitFuture(r)
    BY <2>9 DEF AwaitFuture, Reply, Go
  <2>10. CASE Accept(r)
    BY <2>10 DEF Accept, Go
  <2>11. CASE Provide(r)
    <3>1. state[r].frames \in Seq(Frames)
      BY DEF TypeOK, StateTypes, States
    <3> QED
      BY <2>11, <3>1 DEF Provide, Broken, Take
  <2>12. CASE Pause(r)
    BY <2>12 DEF Pause, Broken, Go
  <2>13. CASE ProvideRpc(r)
    BY <2>13 DEF ProvideRpc, Broken, Go
  <2>14. CASE DrainRpc(r)
    <3>1. state[r].frames \in Seq(Frames)
      BY DEF TypeOK, StateTypes, States
    <3>2. Append(state[r].frames, Final) \in Seq(Frames)
      BY <3>1, AppendProperties
    <3> QED
      BY <2>14, <3>1, <3>2 DEF DrainRpc, Drained, Broken, Take
  <2>15. CASE FailRpc(r)
    BY <2>15 DEF FailRpc, Broken, Go
  <2>16. CASE \E n \in 0..(MaxEvents + 2) : Write(r, n)
    BY <2>16 DEF Write, Go
  <2>17. CASE Guard(r)
    BY <2>17 DEF Guard, Go
  <2>18. CASE GuardRpc(r)
    BY <2>18 DEF GuardRpc, Go
  <2>19. CASE \E written \in BOOLEAN : Respond(r, written)
    BY <2>19 DEF Respond, Release, Go
  <2>20. CASE Event(r)
    BY <2>20 DEF Event
  <2>21. CASE Disconnect(r)
    BY <2>21 DEF Disconnect
  <2>22. CASE Expire(r)
    BY <2>22 DEF Expire
  <2>23. CASE \E outcome \in {"ok", "error"}, text \in 0..1 : Finish(r, outcome, text)
    BY <2>23 DEF Finish
  <2> QED
    BY <1>1, <2>1, <2>2, <2>3, <2>4, <2>5, <2>6, <2>7, <2>8, <2>9, <2>10, <2>11, <2>12, <2>13, <2>14, <2>15, <2>16, <2>17, <2>18, <2>19, <2>20, <2>21, <2>22, <2>23 DEF Acts
<1>2. CASE Listen \/ Close \/ CloseCancel \/ Join
  BY <1>2 DEF Listen, Close, CloseCancel, Join, Owner
<1>3. CASE UNCHANGED vars
  BY <1>3 DEF vars
<1> QED
  BY <1>1, <1>2, <1>3, NextCases

\* Every variable of the server keeps its type.
THEOREM HttpTypes == Spec => []TypeOK
<1>1. TypeOK /\ [Next]_vars => TypeOK'
  BY ControlTypeStep, StateTypeStep, FrameTypeStep DEF TypeOK
<1> QED
  BY <1>1, TypeInit, PTL DEF Spec
-----------------------------------------------------------------------------
(* A step of one request leaves the others alone.                          *)

Same(q) ==
    /\ method'[q] = method[q] /\ at'[q] = at[q] /\ state'[q] = state[q]
    /\ batch'[q] = batch[q] /\ after'[q] = after[q] /\ ready'[q] = ready[q]
    /\ emitted'[q] = emitted[q] /\ result'[q] = result[q] /\ wire'[q] = wire[q]
    /\ q \in charged' <=> q \in charged
    /\ q \in active' => q \in active
    /\ q \in cancelled => q \in cancelled'

LEMMA OthersSame ==
    ASSUME TypeOK, NEW r \in Requests, Acts(r), NEW q \in Requests, q # r
    PROVE  Same(q)
<1> USE DEF TypeOK, ControlTypes, StateTypes, FrameTypes, Same, serviceVars, leaseVars, clientVars
<1>1. ASSUME NEW m \in Methods, Arrive(r, m) PROVE Same(q)
  BY <1>1 DEF Arrive, Go
<1>2. CASE Route(r)
  BY <1>2 DEF Route, Reply, Go
<1>3. CASE Admit(r)
  BY <1>3 DEF Admit, Reply, Go
<1>4. CASE Rejected(r)
  BY <1>4 DEF Rejected, Reply, Go
<1>5. CASE \E outcome \in {"running", "ok", "error"} : Dispatch(r, outcome)
  BY <1>5 DEF Dispatch, Go
<1>6. CASE Register(r)
  BY <1>6 DEF Register, Go
<1>7. CASE Await(r)
  BY <1>7 DEF Await, Reply, Go
<1>8. CASE Wait(r)
  BY <1>8 DEF Wait, Reply, Go
<1>9. CASE AwaitFuture(r)
  BY <1>9 DEF AwaitFuture, Reply, Go
<1>10. CASE Accept(r)
  BY <1>10 DEF Accept, Go
<1>11. CASE Provide(r)
  BY <1>11 DEF Provide, Broken, Take, Go
<1>12. CASE Pause(r)
  BY <1>12 DEF Pause, Broken, Go
<1>13. CASE ProvideRpc(r)
  BY <1>13 DEF ProvideRpc, Broken, Go
<1>14. CASE DrainRpc(r)
  BY <1>14 DEF DrainRpc, Drained, Broken, Take, Go
<1>15. CASE FailRpc(r)
  BY <1>15 DEF FailRpc, Broken, Go
<1>16. CASE \E n \in 0..(MaxEvents + 2) : Write(r, n)
  BY <1>16 DEF Write, Go
<1>17. CASE Guard(r)
  BY <1>17 DEF Guard, Go
<1>18. CASE GuardRpc(r)
  BY <1>18 DEF GuardRpc, Go
<1>19. CASE \E written \in BOOLEAN : Respond(r, written)
  BY <1>19 DEF Respond, Release, Go
<1>20. CASE Event(r)
  BY <1>20 DEF Event
<1>21. CASE Disconnect(r)
  BY <1>21 DEF Disconnect
<1>22. CASE Expire(r)
  BY <1>22 DEF Expire
<1>23. CASE \E outcome \in {"ok", "error"}, text \in 0..1 : Finish(r, outcome, text)
  BY <1>23 DEF Finish
<1> QED
  BY <1>1, <1>2, <1>3, <1>4, <1>5, <1>6, <1>7, <1>8, <1>9, <1>10, <1>11, <1>12, <1>13, <1>14, <1>15, <1>16, <1>17, <1>18, <1>19, <1>20, <1>21, <1>22, <1>23 DEF Acts

LEMMA SameKeeps ==
    ASSUME NEW q \in Requests, ReqInv(q), Same(q)
    PROVE  ReqInv(q)'
<1> USE DEF ReqInv, Same
<1>1. Dispatched(q)'
  BY DEF Dispatched, Settled
<1>2. Placed(q)'
  BY DEF Placed, Is, Stream, HasToken
<1>3. Recorded(q)'
  BY DEF Recorded, Is, Settled
<1>4. Listed(q)'
  BY DEF Listed, HasToken
<1>5. Written(q)'
  BY DEF Written, Proper, Upto, First, Total, Is, Stream
<1>6. Buffered(q)'
  <2>1. /\ First(q)' = First(q) /\ Total(q)' = Total(q) /\ Ahead(q)' = Ahead(q)
        /\ EventsIn(q)' = EventsIn(q)
        /\ Buffering(q)' <=> Buffering(q)
        /\ EndInBuffer(q)' <=> EndInBuffer(q)
    BY DEF Buffering, Ahead, EndInBuffer, EventsIn, First, Total, Is, Stream, Settled
  <2> QED
    BY <2>1 DEF Buffered, Upto
<1> QED
  BY <1>1, <1>2, <1>3, <1>4, <1>5, <1>6
-----------------------------------------------------------------------------
(* Where a request is, and what has become of its operation.               *)

Control(r) == Dispatched(r) /\ Placed(r) /\ Recorded(r) /\ Listed(r)

LEMMA ControlStep ==
    ASSUME TypeOK, NEW r \in Requests, Acts(r), Control(r)
    PROVE  Control(r)'
<1> USE HttpAssumption DEF TypeOK, ControlTypes, StateTypes, Control, Dispatched, Placed, Recorded, Listed,
        Waiting, Starting, Streaming, Ending, Is, Stream, Settled, HasToken,
        serviceVars, leaseVars, clientVars
<1>1. ASSUME NEW m \in Methods, Arrive(r, m) PROVE Control(r)'
  BY <1>1 DEF Arrive, Go, NoState
<1>2. CASE Route(r)
  BY <1>2 DEF Route, Reply, Go
<1>3. CASE Admit(r)
  BY <1>3 DEF Admit, Reply, Go
<1>4. CASE Rejected(r)
  BY <1>4 DEF Rejected, Reply, Go
<1>5. ASSUME NEW outcome \in {"running", "ok", "error"}, Dispatch(r, outcome)
      PROVE  Control(r)'
  <2>1. ~state[r].abandoned /\ ~state[r].started /\ ~state[r].finished
    BY <1>5 DEF Dispatch, NoState
  <2>2. LET st == OnEvent(r, Failure, 0) IN ~st.abandoned /\ ~st.started /\ st.finished
    BY <2>1, OnEventEffect, FramesFit DEF Failure
  <2>3. IF Is(r, "complete") /\ outcome = "error"
        THEN state'[r] = OnEvent(r, Failure, 0) ELSE state'[r] = state[r]
    BY <1>5 DEF Dispatch
  <2> QED
    BY <1>5, <2>1, <2>2, <2>3 DEF Dispatch, Go
<1>6. CASE Register(r)
  BY <1>6 DEF Register, Go
<1>7. CASE Await(r)
  BY <1>7 DEF Await, Reply, Go
<1>8. CASE Wait(r)
  BY <1>8 DEF Wait, Reply, Go
<1>9. CASE AwaitFuture(r)
  BY <1>9 DEF AwaitFuture, Reply, Go
<1>10. CASE Accept(r)
  BY <1>10 DEF Accept, Go
<1>11. CASE Provide(r)
  <2>1. /\ state'[r].abandoned = state[r].abandoned /\ state'[r].started = state[r].started
        /\ state'[r].finished = state[r].finished
    BY <1>11 DEF Provide, Broken, Take, States
  <2> QED
    BY <1>11, <2>1 DEF Provide, Broken, Take, Go
<1>12. CASE Pause(r)
  BY <1>12 DEF Pause, Broken, Go
<1>13. CASE ProvideRpc(r)
  BY <1>13 DEF ProvideRpc, Broken, Go
<1>14. CASE DrainRpc(r)
  <2>1. state'[r].abandoned = state[r].abandoned
    BY <1>14 DEF DrainRpc, Drained, Broken, Take, States
  <2> QED
    BY <1>14, <2>1 DEF DrainRpc, Drained, Broken, Take, Go
<1>15. CASE FailRpc(r)
  BY <1>15 DEF FailRpc, Broken, Go
<1>16. CASE \E n \in 0..(MaxEvents + 2) : Write(r, n)
  BY <1>16 DEF Write, Go
<1>17. CASE Guard(r)
  BY <1>17 DEF Guard, Go
<1>18. CASE GuardRpc(r)
  BY <1>18 DEF GuardRpc, Go
<1>19. CASE \E written \in BOOLEAN : Respond(r, written)
  BY <1>19 DEF Respond, Release, Go
<1>20. CASE Event(r)
  <2>1. emitted[r] + 1 \in Frames /\ emitted[r] + 1 <= MaxEvents /\ emitted[r] >= 0
    BY <1>20 DEF Event, Frames
  <2>2. CASE state[r].abandoned
    <3>1. state'[r] = state[r]
      BY <1>20, <2>2, AbandonedStays DEF Event
    <3> QED
      BY <1>20, <2>1, <2>2, <3>1 DEF Event
  <2>3. CASE ~state[r].abandoned
    <3>1. \A text \in 0 .. 1 :
              LET st == OnEvent(r, emitted[r] + 1, text)
              IN  /\ ~st.abandoned /\ (st.finished <=> state[r].finished)
                  /\ st.started <=> state[r].started \/ emitted[r] = 0
      BY <2>1, <2>3, OnEventEffect
    <3>2. ~OnRpcEvent(r, emitted[r] + 1).abandoned
      BY <2>1, <2>3, OnRpcEventEffect
    <3>3. IF Is(r, "rpc") THEN state'[r] = OnRpcEvent(r, emitted[r] + 1)
          ELSE \E text \in 0 .. 1 : state'[r] = OnEvent(r, emitted[r] + 1, text)
      BY <1>20 DEF Event
    <3>4. ~state'[r].abandoned /\ (Is(r, "complete") => (state'[r].finished <=> state[r].finished)
                                                     /\ state'[r].started)
      BY <2>1, <2>3, <3>1, <3>2, <3>3
    <3> QED
      BY <1>20, <2>1, <2>3, <3>4 DEF Event
  <2> QED
    BY <2>2, <2>3
<1>21. CASE Disconnect(r)
  BY <1>21 DEF Disconnect
<1>22. CASE Expire(r)
  BY <1>22 DEF Expire
<1>23. ASSUME NEW outcome \in {"ok", "error"}, NEW text \in 0..1, Finish(r, outcome, text)
       PROVE  Control(r)'
  <2> DEFINE frame == IF outcome = "ok" THEN Final ELSE Failure
  <2>1. frame \in Frames /\ frame > MaxEvents /\ (Is(r, "complete") => frame # 1)
    BY <1>23, FramesFit DEF Finish, Final, Failure
  <2>2. IF Is(r, "complete") THEN state'[r] = OnEvent(r, frame, text) ELSE state'[r] = state[r]
    BY <1>23 DEF Finish
  <2> HIDE DEF frame
  <2>3. CASE state[r].abandoned
    BY <1>23, <2>2, <2>3, AbandonedStays DEF Finish
  <2>4. CASE ~state[r].abandoned
    <3>1. LET st == OnEvent(r, frame, text)
          IN  ~st.abandoned /\ st.finished /\ (frame # 1 => (st.started <=> state[r].started))
      BY <2>1, <2>4, OnEventEffect
    <3> QED
      BY <1>23, <2>1, <2>2, <2>4, <3>1 DEF Finish
  <2> QED
    BY <2>3, <2>4
<1> QED
  BY <1>1, <1>2, <1>3, <1>4, <1>5, <1>6, <1>7, <1>8, <1>9, <1>10, <1>11, <1>12, <1>13, <1>14, <1>15, <1>16, <1>17, <1>18, <1>19, <1>20, <1>21, <1>22, <1>23 DEF Acts

-----------------------------------------------------------------------------
(* The balance of the leases.                                              *)

Lane(m) == {q \in charged : m[q].control}
Others(m) == {q \in charged : ~m[q].control}

LEMMA LanesFinite ==
    ASSUME Balance
    PROVE  /\ IsFiniteSet(charged) /\ IsFiniteSet(Lane(method)) /\ IsFiniteSet(Others(method))
           /\ work = Cardinality(Others(method)) /\ control = Cardinality(Lane(method))
           /\ work \in Nat /\ control \in Nat /\ work <= Workers /\ control <= Controls
<1>1. IsFiniteSet(charged)
  BY FS_Subset DEF Balance
<1>2. IsFiniteSet(Lane(method)) /\ IsFiniteSet(Others(method))
  BY <1>1, FS_Subset DEF Lane, Others
<1> QED
  BY <1>1, <1>2, FS_CardinalityType DEF Balance, Lane, Others

\* Most steps neither charge nor release.
LEMMA BalanceKept ==
    ASSUME Balance, UNCHANGED leaseVars, \A q \in charged : method'[q] = method[q]
    PROVE  /\ work' = Cardinality({q \in charged' : ~method'[q].control})
           /\ control' = Cardinality({q \in charged' : method'[q].control})
           /\ work' <= Workers /\ control' <= Controls
<1>1. /\ {q \in charged' : ~method'[q].control} = {q \in charged : ~method[q].control}
      /\ {q \in charged' : method'[q].control} = {q \in charged : method[q].control}
  BY DEF leaseVars
<1> QED
  BY <1>1 DEF Balance, leaseVars

LEMMA AdmitBalances ==
    ASSUME TypeOK, Balance, NEW r \in Requests, Listed(r), Admit(r)
    PROVE  /\ work' = Cardinality({q \in charged' : ~method'[q].control})
           /\ control' = Cardinality({q \in charged' : method'[q].control})
           /\ work' <= Workers /\ control' <= Controls
<1>1. CASE UNCHANGED leaseVars
  BY <1>1, BalanceKept DEF Admit
<1>2. CASE ~Full(r) /\ charged' = charged \cup {r}
  <2> USE LanesFinite, HttpAssumption
  <2>1. r \notin charged /\ method' = method
    BY <1>2 DEF Admit, Listed
  <2>2. CASE method[r].control
    <3>1. /\ {q \in charged' : method'[q].control} = Lane(method) \cup {r}
          /\ {q \in charged' : ~method'[q].control} = Others(method)
          /\ r \notin Lane(method)
      BY <1>2, <2>1, <2>2 DEF Lane, Others
    <3>2. Cardinality(Lane(method) \cup {r}) = control + 1
      BY <3>1, FS_AddElement
    <3>3. work' = work /\ control' = control + 1 /\ control < Controls
      BY <1>2, <2>1, <2>2 DEF Admit, Full, leaseVars
    <3>4. work' = Cardinality(Others(method)) /\ control' = Cardinality(Lane(method) \cup {r})
      BY <3>2, <3>3
    <3>5. work' <= Workers /\ control' <= Controls
      BY <3>3
    <3> QED
      BY <3>1, <3>4, <3>5, Zenon
  <2>3. CASE ~method[r].control
    <3>1. /\ {q \in charged' : ~method'[q].control} = Others(method) \cup {r}
          /\ {q \in charged' : method'[q].control} = Lane(method)
          /\ r \notin Others(method)
      BY <1>2, <2>1, <2>3 DEF Lane, Others
    <3>2. Cardinality(Others(method) \cup {r}) = work + 1
      BY <3>1, FS_AddElement
    <3>3. work' = work + 1 /\ control' = control /\ work < Workers
      BY <1>2, <2>1, <2>3 DEF Admit, Full, leaseVars
    <3>4. work' = Cardinality(Others(method) \cup {r}) /\ control' = Cardinality(Lane(method))
      BY <3>2, <3>3
    <3>5. work' <= Workers /\ control' <= Controls
      BY <3>3
    <3> QED
      BY <3>1, <3>4, <3>5, Zenon
  <2> QED
    BY <2>2, <2>3
<1> QED
  BY <1>1, <1>2 DEF Admit

LEMMA ReleaseBalances ==
    ASSUME TypeOK, Balance, NEW r \in Requests, Release(r), UNCHANGED method
    PROVE  /\ work' = Cardinality({q \in charged' : ~method'[q].control})
           /\ control' = Cardinality({q \in charged' : method'[q].control})
           /\ work' <= Workers /\ control' <= Controls
<1> USE LanesFinite, HttpAssumption
<1>1. CASE r \notin charged
  BY <1>1, BalanceKept DEF Release, leaseVars
<1>2. CASE r \in charged /\ method[r].control
  <2>1. /\ {q \in charged' : method'[q].control} = Lane(method) \ {r}
        /\ {q \in charged' : ~method'[q].control} = Others(method)
        /\ r \in Lane(method)
    BY <1>2 DEF Lane, Others, Release
  <2>2. Cardinality(Lane(method) \ {r}) = control - 1
    BY <2>1, FS_RemoveElement
  <2>3. work' = work /\ control' = control - 1
    BY <1>2 DEF Release
  <2>4. work' = Cardinality(Others(method)) /\ control' = Cardinality(Lane(method) \ {r})
    BY <2>2, <2>3
  <2>5. work' <= Workers /\ control' <= Controls
    BY <2>3
  <2> QED
    BY <2>1, <2>4, <2>5, Zenon
<1>3. CASE r \in charged /\ ~method[r].control
  <2>1. /\ {q \in charged' : ~method'[q].control} = Others(method) \ {r}
        /\ {q \in charged' : method'[q].control} = Lane(method)
        /\ r \in Others(method)
    BY <1>3 DEF Lane, Others, Release
  <2>2. Cardinality(Others(method) \ {r}) = work - 1
    BY <2>1, FS_RemoveElement
  <2>3. work' = work - 1 /\ control' = control
    BY <1>3 DEF Release
  <2>4. work' = Cardinality(Others(method) \ {r}) /\ control' = Cardinality(Lane(method))
    BY <2>2, <2>3
  <2>5. work' <= Workers /\ control' <= Controls
    BY <2>3
  <2> QED
    BY <2>1, <2>4, <2>5, Zenon
<1> QED
  BY <1>1, <1>2, <1>3

LEMMA BalanceStep ==
    ASSUME TypeOK, \A q \in Requests : ReqInv(q), \A q \in Requests : Listed(q)', Balance,
           NEW r \in Requests, Acts(r)
    PROVE  Balance'
<1> USE DEF TypeOK, ControlTypes
<1>1. Busy' \subseteq Busy \cup {r}
  BY OthersSame DEF Busy, Same
<1>2. IsFiniteSet(Busy')
  BY <1>1, FS_AddElement, FS_Subset DEF Balance
<1>3. charged' \subseteq Requests
  BY ControlTypeStep, ActsIsNext DEF TypeOK, ControlTypes
<1>4. charged' \subseteq Busy'
  BY <1>3 DEF Listed, Busy
<1>5. server' = "closed" => \A q \in Requests : at'[q] \in {"none", "gone"}
  <2>1. UNCHANGED server
    BY DEF Acts, Arrive, Route, Admit, Rejected, Dispatch, Register, Await, Wait, AwaitFuture, Accept,
           Provide, Pause, ProvideRpc, DrainRpc, FailRpc, Write, Guard, GuardRpc, Respond, Event,
           Disconnect, Expire, Finish
  <2>2. server = "closed" => at'[r] = at[r] \/ at'[r] = "gone"
    BY DEF Acts, Balance, Arrive, Route, Admit, Rejected, Dispatch, Register, Await, Wait,
           AwaitFuture, Accept, Provide, Pause, ProvideRpc, DrainRpc, FailRpc, Write, Guard, GuardRpc,
           Respond, Event, Disconnect, Expire, Finish
  <2> QED
    BY <2>1, <2>2, OthersSame DEF Balance, Same
<1>6. /\ work' = Cardinality({q \in charged' : ~method'[q].control})
      /\ control' = Cardinality({q \in charged' : method'[q].control})
      /\ work' <= Workers /\ control' <= Controls
  <2>1. CASE Admit(r)
    BY <2>1, AdmitBalances DEF ReqInv
  <2>2. ASSUME NEW written \in BOOLEAN, Respond(r, written) PROVE <1>6!:
    BY <2>2, ReleaseBalances DEF Respond
  <2>3. CASE UNCHANGED leaseVars
    <3>1. \A q \in charged : method'[q] = method[q]
      <4>1. r \in charged => method'[r] = method[r]
        BY DEF ReqInv, Listed, Acts, Arrive, Route, Admit, Rejected, Dispatch, Register, Await,
           Wait, AwaitFuture, Accept, Provide, Pause, ProvideRpc, DrainRpc, FailRpc, Write, Guard, GuardRpc,
           Respond, Event, Disconnect, Expire, Finish
      <4> QED
        BY <4>1, OthersSame DEF Same
    <3> QED
      BY <2>3, <3>1, BalanceKept
  <2> QED
    BY <2>1, <2>2, <2>3 DEF Acts, Arrive, Route, Rejected, Dispatch, Register, Await, Wait,
           AwaitFuture, Accept, Provide, Pause, ProvideRpc, DrainRpc, FailRpc, Write, Guard, GuardRpc,
           Event, Disconnect, Expire, Finish
<1> QED
  BY <1>2, <1>4, <1>5, <1>6 DEF Balance

-----------------------------------------------------------------------------
(* The order of the frames.                                                *)

LEMMA TotalType ==
    ASSUME TypeOK, NEW r \in Requests
    PROVE  First(r) \in {0, 1} /\ Total(r) \in Nat
  BY HttpAssumption DEF First, Total, TypeOK, ControlTypes

\* The beginning of an answer's beginning is one.
LEMMA ProperPrefix ==
    ASSUME TypeOK, NEW r \in Requests, NEW s \in Seq(Frames), NEW t \in Seq(Frames),
           Proper(r, s \o t), NEW n \in 0 .. Len(t)
    PROVE  Proper(r, s \o SubSeq(t, 1, n))
<1> DEFINE u == SubSeq(t, 1, n)
<1>0. Total(r) \in Nat /\ First(r) \in {0, 1}
  BY TotalType
<1>1. Len(s) \in Nat /\ Len(t) \in Nat
  BY LenProperties
<1>2. \A i \in 1 .. n : t[i] \in Frames
  BY <1>1, ElementOfSeq
<1>3. u \in Seq(Frames) /\ Len(u) = n /\ \A i \in 1 .. n : u[i] = t[i]
  BY <1>1, <1>2, SubSeqProperties, Z3
<1> HIDE DEF u
<1>4. /\ Len(s \o u) = Len(s) + n
      /\ \A i \in 1 .. Len(s) + n : (s \o u)[i] = IF i <= Len(s) THEN s[i] ELSE u[i - Len(s)]
  BY <1>3, ConcatProperties
<1>5. /\ Len(s \o t) = Len(s) + Len(t)
      /\ \A i \in 1 .. Len(s) + Len(t) : (s \o t)[i] = IF i <= Len(s) THEN s[i] ELSE t[i - Len(s)]
  BY ConcatProperties
<1>6. ASSUME NEW i \in 1 .. Len(s) + n
      PROVE  (s \o u)[i] = (s \o t)[i]
  <2>1. i \in 1 .. Len(s) + Len(t)
    BY <1>1
  <2>2. i > Len(s) => i - Len(s) \in 1 .. n
    BY <1>1
  <2> QED
    BY <1>1, <1>3, <1>4, <1>5, <2>1, <2>2
<1> DEFINE su == s \o u
           st == s \o t
<1>7. Len(su) = Len(s) + n /\ Len(st) = Len(s) + Len(t) /\ \A i \in 1 .. Len(s) + n : su[i] = st[i]
  BY <1>4, <1>5, <1>6
<1>8. Proper(r, st)
  OBVIOUS
<1> HIDE DEF su, st
<1>9. Proper(r, su)
  <2>1. CASE n = Len(t)
    BY <1>0, <1>1, <1>7, <1>8, <2>1 DEF Proper, Upto
  <2>2. CASE n < Len(t)
    <3>1. Len(su) <= Total(r)
      BY <1>0, <1>1, <1>7, <1>8, <2>2 DEF Proper
    <3>2. Upto(su, First(r), Len(su))
      BY <1>0, <1>1, <1>7, <1>8, <2>2 DEF Proper, Upto
    <3> QED
      BY <3>1, <3>2 DEF Proper
  <2> QED
    BY <1>1, <2>1, <2>2
<1> QED
  BY <1>9 DEF su, u

\* A piece that goes on with the numbers, alone, with the result or with the error behind.
LEMMA ProperConcat ==
    ASSUME TypeOK, NEW r \in Requests, NEW s \in Seq(Frames), NEW t \in Seq(Frames),
           NEW n \in Nat, Upto(s, First(r), Len(s)), Upto(t, First(r) + Len(s), n)
    PROVE  /\ n = Len(t) => Upto(s \o t, First(r), Len(s) + Len(t))
           /\ n = Len(t) /\ Len(s) + n <= Total(r) => Proper(r, s \o t)
           /\ Len(t) = n + 1 /\ t[n + 1] = Failure /\ Len(s) + n <= Total(r) => Proper(r, s \o t)
           /\ /\ Len(t) = n + 1 /\ t[n + 1] = Final /\ Len(s) + n = Total(r)
              /\ result[r] = "ok"
              => Proper(r, s \o t)
<1>0. Total(r) \in Nat /\ First(r) \in {0, 1}
  BY TotalType
<1>1. Len(s) \in Nat /\ Len(t) \in Nat
  BY LenProperties
<1>2. /\ Len(s \o t) = Len(s) + Len(t)
      /\ \A i \in 1 .. Len(s) + Len(t) : (s \o t)[i] = IF i <= Len(s) THEN s[i] ELSE t[i - Len(s)]
  BY ConcatProperties
<1> DEFINE st == s \o t
<1>3. /\ Len(st) = Len(s) + Len(t)
      /\ \A i \in 1 .. Len(s) + Len(t) : st[i] = IF i <= Len(s) THEN s[i] ELSE t[i - Len(s)]
  BY <1>2
<1> HIDE DEF st
<1>4. ASSUME n <= Len(t)
      PROVE  Upto(st, First(r), Len(s) + n)
  <2> SUFFICES ASSUME NEW i \in 1 .. Len(s) + n
               PROVE  st[i] + 1 = First(r) + i
    BY DEF Upto
  <2>1. CASE i <= Len(s)
    BY <1>1, <1>3, <1>4, <2>1 DEF Upto
  <2>2. CASE i > Len(s)
    <3>1. i - Len(s) \in 1 .. n /\ i \in 1 .. Len(s) + Len(t)
      BY <1>1, <1>4, <2>2
    <3>2. t[i - Len(s)] + 1 = First(r) + Len(s) + (i - Len(s))
      BY <3>1 DEF Upto
    <3>3. st[i] = t[i - Len(s)]
      BY <1>1, <1>3, <2>2, <3>1
    <3> QED
      BY <1>0, <1>1, <3>2, <3>3
  <2> QED
    BY <1>1, <2>1, <2>2
<1>5. Len(t) = n + 1 => st[Len(st)] = t[n + 1]
  <2> HAVE Len(t) = n + 1
  <2>1. Len(st) = Len(s) + n + 1 /\ Len(st) \in 1 .. Len(s) + Len(t) /\ ~(Len(st) <= Len(s))
        /\ Len(st) - Len(s) = n + 1
    BY <1>1, <1>3
  <2> QED
    BY <1>3, <2>1
<1>6. n = Len(t) => Upto(st, First(r), Len(s) + Len(t))
  BY <1>4
<1>7. n = Len(t) /\ Len(s) + n <= Total(r) => Proper(r, st)
  BY <1>0, <1>1, <1>3, <1>4 DEF Proper
<1>8. Len(t) = n + 1 => Len(st) > 0 /\ Len(st) - 1 = Len(s) + n /\ Upto(st, First(r), Len(st) - 1)
  BY <1>1, <1>3, <1>4
<1>9. Len(t) = n + 1 /\ t[n + 1] = Failure /\ Len(s) + n <= Total(r) => Proper(r, st)
  BY <1>0, <1>1, <1>3, <1>5, <1>8 DEF Proper
<1>10. Len(t) = n + 1 /\ t[n + 1] = Final /\ Len(s) + n = Total(r) /\ result[r] = "ok"
       => Proper(r, st)
  BY <1>0, <1>1, <1>3, <1>5, <1>8 DEF Proper
<1> QED
  BY <1>6, <1>7, <1>9, <1>10 DEF st

LEMMA ProperGoesOn ==
    ASSUME TypeOK, NEW r \in Requests, NEW s \in Seq(Frames), NEW t \in Seq(Frames),
           Upto(s, First(r), Len(s)), Upto(t, First(r) + Len(s), Len(t)),
           Len(s) + Len(t) <= Total(r)
    PROVE  /\ Upto(s \o t, First(r), Len(s) + Len(t))
           /\ Proper(r, s \o t)
<1> DEFINE n == Len(t)
<1>1. n \in Nat /\ n = Len(t) /\ Upto(t, First(r) + Len(s), n) /\ Len(s) + n <= Total(r)
  BY LenProperties
<1> HIDE DEF n
<1> QED
  BY <1>1, ProperConcat

LEMMA ProperFails ==
    ASSUME TypeOK, NEW r \in Requests, NEW s \in Seq(Frames),
           Upto(s, First(r), Len(s)), Len(s) <= Total(r)
    PROVE  Proper(r, s \o <<Failure>>)
<1> DEFINE t == <<Failure>>
           n == 0
<1>1. /\ t \in Seq(Frames) /\ n \in Nat /\ Len(t) = n + 1 /\ t[n + 1] = Failure
      /\ Upto(t, First(r) + Len(s), n)
  BY FramesFit DEF Upto
<1>2. Len(s) + n <= Total(r)
  BY LenProperties
<1> HIDE DEF t, n
<1>3. Proper(r, s \o t)
  BY <1>1, <1>2, ProperConcat
<1> QED
  BY <1>3 DEF t

\* An answer in one piece.
LEMMA ProperAlone ==
    ASSUME TypeOK, NEW r \in Requests
    PROVE  /\ Proper(r, <<>>) /\ Proper(r, <<Failure>>)
           /\ Total(r) = 0 /\ result[r] = "ok" => Proper(r, <<Final>>)
  BY TotalType DEF Proper, Upto

LEMMA ConcatEmpty ==
    ASSUME NEW s \in Seq(Frames)
    PROVE  s \o <<>> = s /\ <<>> \o s = s /\ Len(s) + Len(<<>>) = Len(s) /\ Len(s) \in Nat
  BY ConcatEmptySeq, EmptySeq, LenProperties

\* What a step has to leave behind that changes nothing of the request but its place, its
\* buffer and its frames.
SameAnswer(r) == method'[r] = method[r] /\ emitted'[r] = emitted[r] /\ result'[r] = result[r]

LEMMA WrittenFrom ==
    ASSUME NEW r \in Requests, SameAnswer(r),
           at'[r] \in Waiting \cup Starting => wire'[r] = <<>>,
           at'[r] \notin {"write", "guard", "respond"} => batch'[r] = <<>>,
           Proper(r, wire'[r] \o batch'[r]),
           at'[r] \in Streaming \/ (at'[r] = "write" /\ after'[r] \in {"stream", "fail"}) =>
               /\ Len(wire'[r]) + Len(batch'[r]) <= Total(r)
               /\ Upto(wire'[r] \o batch'[r], First(r), Len(wire'[r]) + Len(batch'[r]))
    PROVE  Written(r)'
<1>1. First(r)' = First(r) /\ Total(r)' = Total(r)
  BY DEF SameAnswer, First, Total, Is, Stream
<1>2. (Proper(r, wire[r] \o batch[r]))'
  BY <1>1 DEF SameAnswer, Proper, Upto
<1> QED
  BY <1>1, <1>2 DEF Written, Upto, Streaming

LEMMA BufferedFrom ==
    ASSUME NEW r \in Requests, SameAnswer(r), Buffered(r),
           Buffering(r)' => /\ Buffering(r) /\ state'[r].frames = state[r].frames
                            /\ Ahead(r)' = Ahead(r)
    PROVE  Buffered(r)'
<1>1. First(r)' = First(r) /\ Total(r)' = Total(r) /\ (EndInBuffer(r)' <=> EndInBuffer(r))
  BY DEF SameAnswer, First, Total, EndInBuffer, Is, Stream, Settled
<1>2. Buffering(r)' => EventsIn(r)' = EventsIn(r)
  BY <1>1 DEF EventsIn
<1> QED
  BY <1>1, <1>2 DEF Buffered, Upto, SameAnswer

\* The request goes to another place and takes its frames along.
Quiet(r) ==
    /\ SameAnswer(r)
    /\ wire'[r] = wire[r] /\ batch'[r] = batch[r]
    /\ at'[r] \in {"guard", "respond"} \/ (state'[r] = state[r] /\ after'[r] = after[r])

LEMMA QuietStep ==
    ASSUME TypeOK, TypeOK', NEW r \in Requests, ReqInv(r), Quiet(r),
           \/ at'[r] \in {"guard", "respond"} /\ at[r] \notin Waiting \cup Starting
           \/ at'[r] = at[r]
           \/ at[r] \in Waiting /\ at'[r] \in Waiting
           \/ /\ at[r] \in Starting /\ at'[r] \in (Starting \cup {"stream"}) \ {"register"}
              /\ Is(r, "rpc") /\ Stream(r) => at[r] = "register" /\ at'[r] = "accept"
           \/ at[r] \in Streaming /\ at'[r] \in Streaming
              /\ (at'[r] \in {"stream", "pause", "drain"} => at[r] \in {"stream", "pause", "drain"})
    PROVE  Written(r)' /\ Buffered(r)'
<1> USE DEF Quiet, ReqInv
<1>0. SameAnswer(r) /\ Total(r) \in Nat /\ at[r] \in Places
  BY TotalType DEF TypeOK, ControlTypes
<1>1. Written(r)'
  <2>1. at'[r] \in Waiting \cup Starting => wire'[r] = <<>>
    BY <1>0 DEF Written, Waiting, Starting, Streaming
  <2>2. at'[r] \notin {"write", "guard", "respond"} => batch'[r] = <<>>
    BY <1>0 DEF Written, Waiting, Starting, Streaming
  <2>3. Proper(r, wire'[r] \o batch'[r])
    BY DEF Written
  <2>4. at'[r] \in Streaming \/ (at'[r] = "write" /\ after'[r] \in {"stream", "fail"}) =>
               /\ Len(wire'[r]) + Len(batch'[r]) <= Total(r)
               /\ Upto(wire'[r] \o batch'[r], First(r), Len(wire'[r]) + Len(batch'[r]))
    <3>1. CASE at[r] \in Starting
      <4>1. wire[r] = <<>> /\ batch[r] = <<>>
        BY <3>1 DEF Written, Starting
      <4>2. Len(<<>>) = 0 /\ <<>> \o <<>> = <<>>
        BY ConcatEmpty, FramesFit
      <4> QED
        BY <1>0, <4>1, <4>2 DEF Upto
    <3>2. CASE at[r] \notin Starting
      BY <3>2 DEF Written, Waiting, Starting, Streaming
    <3> QED
      BY <3>1, <3>2
  <2> QED
    BY <1>0, <2>1, <2>2, <2>3, <2>4, WrittenFrom
<1>2. Buffered(r)'
  <2>1. ASSUME Buffering(r)'
        PROVE  Buffering(r) /\ state'[r].frames = state[r].frames /\ Ahead(r)' = Ahead(r)
    BY <1>0, <2>1 DEF Buffering, Ahead, SameAnswer, Stream, Is, Waiting, Starting, Streaming, Places
  <2> QED
    BY <1>0, <2>1, BufferedFrom
<1> QED
  BY <1>1, <1>2

\* An answer in one piece, before anything else of the answer.
LEMMA ReplyStep ==
    ASSUME TypeOK, NEW r \in Requests, ReqInv(r), at[r] \in Waiting \cup Starting,
           NEW place \in {"guard", "respond"}, NEW body \in {Final, Failure}, Reply(r, place, body),
           SameAnswer(r), wire'[r] = wire[r],
           body = Final => method[r] # NoMethod /\ ~Stream(r) /\ result[r] = "ok"
    PROVE  Written(r)' /\ Buffered(r)'
<1>1. at'[r] = place /\ batch'[r] = <<body>> /\ wire[r] = <<>>
  BY DEF Reply, Go, TypeOK, ControlTypes, FrameTypes, ReqInv, Written
<1>2. <<body>> \in Seq(Frames) /\ wire'[r] \o batch'[r] = <<body>>
  BY <1>1, FramesFit, ConcatEmpty
<1>3. Proper(r, wire'[r] \o batch'[r])
  BY <1>2, ProperAlone DEF Total
<1>4. Written(r)'
  BY <1>1, <1>3, WrittenFrom DEF Waiting, Starting, Streaming
<1>5. Buffered(r)'
  BY <1>1, BufferedFrom DEF Buffering, Starting, ReqInv
<1> QED
  BY <1>4, <1>5

\* The error after whatever a stream has written.
LEMMA FailureStep ==
    ASSUME TypeOK, NEW r \in Requests, ReqInv(r), at[r] \in Streaming,
           at'[r] = "write", after'[r] = "guard", batch'[r] = <<Failure>>,
           SameAnswer(r), wire'[r] = wire[r]
    PROVE  Written(r)' /\ Buffered(r)'
<1>0. wire[r] \in Seq(Frames) /\ <<Failure>> \in Seq(Frames) /\ Len(<<Failure>>) = 1
      /\ Total(r) \in Nat /\ <<Failure>>[0 + 1] = Failure /\ Len(wire[r]) \in Nat
  BY FramesFit, TotalType, LenProperties DEF TypeOK, FrameTypes
<1>1. batch[r] = <<>> /\ Len(wire[r]) + Len(batch[r]) <= Total(r)
      /\ Upto(wire[r] \o batch[r], First(r), Len(wire[r]) + Len(batch[r]))
  BY DEF ReqInv, Written, Streaming
<1>2. Len(wire[r]) <= Total(r) /\ Upto(wire[r], First(r), Len(wire[r]))
  BY <1>0, <1>1, ConcatEmpty
<1>3. Proper(r, wire[r] \o <<Failure>>)
  BY <1>0, <1>2, ProperFails
<1>4. Written(r)'
  BY <1>3, WrittenFrom DEF Waiting, Starting, Streaming
<1>5. Buffered(r)'
  BY BufferedFrom DEF Buffering, Starting, ReqInv
<1> QED
  BY <1>4, <1>5

\* A provider takes what is in the buffer, without an end.
LEMMA TakeMore ==
    ASSUME TypeOK, NEW r \in Requests, ReqInv(r), at[r] \in {"stream", "drain"}, ~EndInBuffer(r),
           ~state[r].overflow, NEW then \in {"stream", "fail"}, Take(r, state[r].frames, then),
           SameAnswer(r), wire'[r] = wire[r], method[r] # NoMethod
    PROVE  Written(r)' /\ Buffered(r)'
<1> DEFINE frames == state[r].frames
<1>0. wire[r] \in Seq(Frames) /\ frames \in Seq(Frames) /\ Total(r) \in Nat
      /\ Len(wire[r]) \in Nat /\ Len(frames) \in Nat /\ First(r) \in {0, 1}
  BY TotalType, LenProperties DEF TypeOK, FrameTypes, StateTypes, States
<1>1. /\ at'[r] = "write" /\ after'[r] = then /\ batch'[r] = frames
      /\ state'[r].frames = <<>> /\ state'[r].overflow = FALSE
  BY DEF Take, Go, TypeOK, ControlTypes, FrameTypes, StateTypes, States
<1>2. batch[r] = <<>> /\ Len(wire[r]) + Len(batch[r]) <= Total(r)
      /\ Upto(wire[r] \o batch[r], First(r), Len(wire[r]) + Len(batch[r]))
  BY DEF ReqInv, Written, Streaming
<1>3. Len(wire[r]) <= Total(r) /\ Upto(wire[r], First(r), Len(wire[r]))
  BY <1>0, <1>2, ConcatEmpty
<1>4. Buffering(r) /\ Ahead(r) = Len(wire[r]) /\ EventsIn(r) = Len(frames)
  BY <1>0, <1>2, ConcatEmpty DEF Buffering, Ahead, EventsIn, ReqInv, Placed, Streaming
<1>5. Len(wire[r]) + Len(frames) = Total(r) /\ Upto(frames, First(r) + Len(wire[r]), Len(frames))
  BY <1>4 DEF ReqInv, Buffered
<1> HIDE DEF frames
<1>6. /\ Upto(wire[r] \o frames, First(r), Len(wire[r]) + Len(frames))
      /\ Proper(r, wire[r] \o frames)
  <2>1. Len(wire[r]) + Len(frames) <= Total(r)
    BY <1>0, <1>5
  <2> QED
    BY <1>0, <1>3, <1>5, <2>1, ProperGoesOn
<1>7. Written(r)'
  <2>1. Len(wire'[r]) + Len(batch'[r]) <= Total(r)
    BY <1>0, <1>1, <1>5
  <2>2. Upto(wire'[r] \o batch'[r], First(r), Len(wire'[r]) + Len(batch'[r]))
        /\ Proper(r, wire'[r] \o batch'[r])
    BY <1>1, <1>6
  <2> QED
    BY <1>1, <2>1, <2>2, WrittenFrom DEF Waiting, Starting, Streaming
<1>8. Buffered(r)'
  <2>1. First(r)' = First(r) /\ Total(r)' = Total(r) /\ ~EndInBuffer(r)'
    BY DEF SameAnswer, First, Total, EndInBuffer, Is, Stream, Settled
  <2>2. EventsIn(r)' = 0 /\ Ahead(r)' = Total(r)'
    BY <1>1, <1>5, <2>1, EmptySeq DEF EventsIn, Ahead
  <2> QED
    BY <1>0, <2>1, <2>2 DEF Buffered, Upto
<1> QED
  BY <1>7, <1>8

\* It takes the end as well.
LEMMA TakeLast ==
    ASSUME TypeOK, NEW r \in Requests, ReqInv(r), at[r] \in {"stream", "drain"},
           NEW frames \in Seq(Frames), NEW n \in Nat, Len(frames) = n + 1,
           Take(r, frames, "guard"), SameAnswer(r), wire'[r] = wire[r],
           Len(wire[r]) + n = Total(r), Upto(frames, First(r) + Len(wire[r]), n),
           frames[n + 1] = IF result[r] = "ok" THEN Final ELSE Failure
    PROVE  Written(r)' /\ Buffered(r)'
<1>0. wire[r] \in Seq(Frames) /\ Total(r) \in Nat /\ Len(wire[r]) \in Nat
  BY TotalType, LenProperties DEF TypeOK, FrameTypes
<1>1. /\ at'[r] = "write" /\ after'[r] = "guard" /\ batch'[r] = frames
  BY DEF Take, Go, TypeOK, ControlTypes, FrameTypes
<1>2. batch[r] = <<>> /\ Len(wire[r]) + Len(batch[r]) <= Total(r)
      /\ Upto(wire[r] \o batch[r], First(r), Len(wire[r]) + Len(batch[r]))
  BY DEF ReqInv, Written, Streaming
<1>3. Upto(wire[r], First(r), Len(wire[r]))
  BY <1>0, <1>2, ConcatEmpty
<1>4. Proper(r, wire[r] \o frames)
  BY <1>0, <1>3, ProperConcat
<1>5. Written(r)'
  BY <1>1, <1>4, WrittenFrom DEF Waiting, Starting, Streaming
<1>6. Buffered(r)'
  BY <1>1, BufferedFrom DEF Buffering, Starting, ReqInv
<1> QED
  BY <1>5, <1>6

\* What was taken is written, or a part of it.
LEMMA WriteStep ==
    ASSUME TypeOK, NEW r \in Requests, ReqInv(r), NEW n \in Nat, Write(r, n)
    PROVE  Written(r)' /\ Buffered(r)'
<1>0. wire[r] \in Seq(Frames) /\ batch[r] \in Seq(Frames) /\ Total(r) \in Nat
      /\ Len(wire[r]) \in Nat /\ Len(batch[r]) \in Nat /\ First(r) \in {0, 1}
  BY TotalType, LenProperties DEF TypeOK, FrameTypes
<1> DEFINE piece == SubSeq(batch[r], 1, n)
<1>1. /\ at[r] = "write" /\ n \in 0 .. Len(batch[r])
      /\ wire'[r] = wire[r] \o piece /\ batch'[r] = <<>>
      /\ at'[r] = IF n = Len(batch[r]) THEN after[r] ELSE "guard"
      /\ after'[r] = after[r] /\ state'[r] = state[r]
      /\ SameAnswer(r)
  BY <1>0 DEF Write, Go, TypeOK, ControlTypes, FrameTypes, SameAnswer, serviceVars
<1>2. after[r] \in {"stream", "fail", "guard"} /\ Proper(r, wire[r] \o batch[r])
  BY <1>1 DEF ReqInv, Placed, Written
<1>3. wire[r] \o piece \in Seq(Frames) /\ Proper(r, wire[r] \o piece)
  <2>1. \A i \in 1 .. n : batch[r][i] \in Frames
    BY <1>0, <1>1, ElementOfSeq
  <2>2. piece \in Seq(Frames)
    BY <2>1, SubSeqProperties, Z3
  <2>3. Proper(r, wire[r] \o piece)
    BY <1>0, <1>1, <1>2, ProperPrefix
  <2> QED
    BY <1>0, <2>2, <2>3, ConcatProperties
<1>4. n = Len(batch[r]) => piece = batch[r]
  BY <1>0, SubSeqFull
<1> HIDE DEF piece
<1>5. wire'[r] \o batch'[r] = wire[r] \o piece /\ Len(batch'[r]) = 0
  BY <1>1, <1>3, ConcatEmpty, EmptySeq
<1>6. n = Len(batch[r]) /\ after[r] \in {"stream", "fail"} =>
         /\ Len(wire'[r]) + Len(batch'[r]) = Len(wire[r]) + Len(batch[r])
         /\ Len(wire[r]) + Len(batch[r]) <= Total(r)
         /\ Upto(wire[r] \o batch[r], First(r), Len(wire[r]) + Len(batch[r]))
  <2> HAVE n = Len(batch[r]) /\ after[r] \in {"stream", "fail"}
  <2>1. Len(wire[r] \o batch[r]) = Len(wire[r]) + Len(batch[r])
    BY <1>0, ConcatProperties
  <2>2. Len(wire'[r]) + Len(batch'[r]) = Len(wire[r]) + Len(batch[r])
    <3>1. wire'[r] = wire[r] \o batch[r]
      BY <1>1, <1>4
    <3> QED
      BY <1>0, <1>5, <2>1, <3>1
  <2> QED
    BY <1>1, <2>2 DEF ReqInv, Written
<1>7. Written(r)'
  <2>1. at'[r] \in Streaming \/ (at'[r] = "write" /\ after'[r] \in {"stream", "fail"}) =>
               /\ Len(wire'[r]) + Len(batch'[r]) <= Total(r)
               /\ Upto(wire'[r] \o batch'[r], First(r), Len(wire'[r]) + Len(batch'[r]))
    BY <1>1, <1>2, <1>4, <1>5, <1>6 DEF Streaming
  <2> QED
    BY <1>1, <1>2, <1>3, <1>5, <2>1, WrittenFrom DEF Waiting, Starting
<1>8. Buffered(r)'
  <2>1. ASSUME Buffering(r)'
        PROVE  Buffering(r) /\ state'[r].frames = state[r].frames /\ Ahead(r)' = Ahead(r)
    <3>1. n = Len(batch[r]) /\ after[r] = "stream" /\ at'[r] = "stream"
      BY <1>1, <1>2, <2>1 DEF Buffering, Starting
    <3>2. Ahead(r) = Len(wire[r]) + Len(batch[r]) /\ Ahead(r)' = Len(wire'[r]) + Len(batch'[r])
      BY <1>1, <3>1 DEF Ahead
    <3> QED
      BY <1>1, <1>6, <2>1, <3>1, <3>2 DEF Buffering, SameAnswer, Stream
  <2> QED
    BY <1>1, <2>1, BufferedFrom DEF ReqInv
<1> QED
  BY <1>7, <1>8

LEMMA RespondStep ==
    ASSUME TypeOK, NEW r \in Requests, ReqInv(r), NEW written \in BOOLEAN, Respond(r, written)
    PROVE  Written(r)' /\ Buffered(r)'
<1>0. wire[r] \in Seq(Frames) /\ batch[r] \in Seq(Frames) /\ Len(batch[r]) \in Nat
  BY LenProperties DEF TypeOK, FrameTypes
<1>1. /\ wire'[r] \in {wire[r] \o batch[r], wire[r]} /\ batch'[r] = <<>> /\ at'[r] = "gone"
      /\ SameAnswer(r)
  BY DEF Respond, Go, TypeOK, ControlTypes, FrameTypes, SameAnswer, serviceVars
<1>2. Proper(r, wire[r] \o batch[r])
  BY DEF ReqInv, Written
<1>3. Proper(r, wire[r])
  <2>1. SubSeq(batch[r], 1, 0) = <<>> /\ 0 \in 0 .. Len(batch[r])
    BY <1>0, SubSeqEmpty
  <2>2. Proper(r, wire[r] \o SubSeq(batch[r], 1, 0))
    BY <1>0, <1>2, <2>1, ProperPrefix
  <2> QED
    BY <1>0, <2>1, <2>2, ConcatEmpty
<1>4. wire'[r] \o batch'[r] = wire'[r]
  <2>1. wire[r] \o batch[r] \in Seq(Frames)
    BY <1>0, ConcatProperties
  <2> QED
    BY <1>0, <1>1, <2>1, ConcatEmpty
<1>5. Written(r)'
  BY <1>1, <1>2, <1>3, <1>4, WrittenFrom DEF Waiting, Starting, Streaming
<1>6. Buffered(r)'
  BY <1>1, BufferedFrom DEF Buffering, Starting, ReqInv
<1> QED
  BY <1>5, <1>6

\* Before anything of the answer is written.
LEMMA NothingWritten ==
    ASSUME TypeOK, TypeOK', NEW r \in Requests, ReqInv(r), at[r] \in Waiting \cup Starting,
           wire'[r] = wire[r], batch'[r] = batch[r], at'[r] # "write"
    PROVE  Written(r)'
<1>1. wire[r] = <<>> /\ batch[r] = <<>>
  BY DEF ReqInv, Written, Waiting, Starting
<1>2. <<>> \o <<>> = <<>> /\ Len(<<>>) = 0
  BY ConcatEmpty, FramesFit
<1>3. Total(r)' \in Nat /\ First(r)' \in {0, 1}
  BY HttpAssumption DEF TypeOK, ControlTypes, Total, First
<1> QED
  BY <1>1, <1>2, <1>3 DEF Written, Proper, Upto

LEMMA DispatchStep ==
    ASSUME TypeOK, TypeOK', NEW r \in Requests, ReqInv(r), NEW outcome, Dispatch(r, outcome)
    PROVE  Written(r)' /\ Buffered(r)'
<1>1. /\ at[r] = "start" /\ at'[r] \in {"await", "register"}
      /\ wire'[r] = wire[r] /\ batch'[r] = batch[r] /\ method'[r] = method[r]
      /\ emitted'[r] = emitted[r] /\ result'[r] = outcome
      /\ at'[r] = "await" => Is(r, "models")
  BY DEF Dispatch, Go, TypeOK, ControlTypes
<1>2. Written(r)'
  BY <1>1, NothingWritten DEF Waiting
<1>3. /\ state[r] = NoState /\ emitted[r] = 0 /\ wire[r] = <<>> /\ batch[r] = <<>>
      /\ method[r] \in Methods
  BY <1>1 DEF ReqInv, Dispatched, Written, Waiting
<1>4. ~state[r].abandoned /\ state[r].frames = <<>> /\ Len(<<>>) = 0
  BY <1>3 DEF NoState
<1>5. CASE Is(r, "complete") /\ outcome = "error"
  <2>1. state'[r] = OnEvent(r, Failure, 0)
    BY <1>1, <1>5 DEF Dispatch, TypeOK, StateTypes
  <2>2. ~state'[r].overflow /\ Stream(r) => state'[r].frames = Append(<<>>, Failure)
    BY <1>4, <2>1, OnEventEffect, FramesFit
  <2>3. Append(<<>>, Failure) = <<Failure>>
    BY FramesFit
  <2>4. /\ First(r)' = 1 /\ EndInBuffer(r)' /\ (Stream(r)' <=> Stream(r)) /\ Total(r)' = 0
        /\ Ahead(r)' = 0
    BY <1>1, <1>3, <1>4, <1>5 DEF First, Total, EndInBuffer, Is, Stream, Settled, Ahead
  <2>5. Buffering(r)' => state'[r].frames = <<Failure>> /\ EventsIn(r)' = 0
    BY <2>2, <2>3, <2>4 DEF Buffering, EventsIn
  <2>6. Len(<<Failure>>) = 1 /\ <<Failure>>[1] = Failure
    OBVIOUS
  <2>7. Buffering(r)' => state'[r].frames[Len(state'[r].frames)] = Failure /\ result'[r] # "ok"
    BY <1>1, <1>5, <2>5, <2>6
  <2>8. Buffered(r)'
    BY <2>4, <2>5, <2>7 DEF Buffered, Upto
  <2> QED
    BY <1>2, <2>8
<1>6. CASE ~(Is(r, "complete") /\ outcome = "error")
  <2>1. state'[r] = state[r]
    BY <1>1, <1>6 DEF Dispatch, TypeOK, StateTypes
  <2>2. Buffering(r)' => at'[r] = "register"
    BY <1>1, HttpAssumption DEF Buffering, Is, Stream, TypeOK, ControlTypes
  <2>3. at'[r] = "register" => outcome # "ok"
    BY <1>1 DEF Dispatch, Go, TypeOK, ControlTypes
  <2>4. Buffering(r)' => ~EndInBuffer(r)' /\ EventsIn(r)' = 0 /\ Ahead(r)' = Total(r)'
    BY <1>1, <1>3, <1>4, <1>6, <2>1, <2>2, <2>3
       DEF Buffering, EndInBuffer, EventsIn, Ahead, Total, First, Is, Stream, Settled
  <2>5. Total(r)' \in Nat
    BY HttpAssumption DEF TypeOK, ControlTypes, Total, First
  <2> QED
    BY <1>2, <2>4, <2>5 DEF Buffered, Upto
<1> QED
  BY <1>5, <1>6

\* The handle goes in front of the events that were called back meanwhile.
LEMMA AcceptStep ==
    ASSUME TypeOK, TypeOK', NEW r \in Requests, ReqInv(r), Accept(r)
    PROVE  Written(r)' /\ Buffered(r)'
<1> DEFINE frames == state[r].frames
<1>0. /\ frames \in Seq(Frames) /\ <<Accepted>> \in Seq(Frames) /\ Total(r) \in Nat
      /\ Len(frames) \in Nat /\ Len(<<Accepted>>) = 1 /\ <<Accepted>>[1] = 0
  BY FramesFit, TotalType, LenProperties DEF TypeOK, StateTypes, States, Accepted
<1>1. /\ at[r] = "accept" /\ at'[r] = "stream"
      /\ wire'[r] = wire[r] /\ batch'[r] = batch[r] /\ SameAnswer(r)
      /\ state'[r].frames = <<Accepted>> \o frames
      /\ ~state'[r].overflow => ~state[r].overflow
  BY DEF Accept, Go, TypeOK, ControlTypes, StateTypes, States, SameAnswer, serviceVars
<1>2. Written(r)'
  BY <1>1, NothingWritten DEF Starting
<1>3. ASSUME Buffering(r)'
      PROVE  Buffered(r)'
  <2>1. Is(r, "rpc") /\ Buffering(r) /\ wire[r] = <<>> /\ batch[r] = <<>>
    BY <1>1, <1>3 DEF Buffering, SameAnswer, Stream, ReqInv, Placed, Written, Starting
  <2>2. First(r) = 0 /\ Ahead(r) = 1 /\ ~EndInBuffer(r) /\ EventsIn(r) = Len(frames)
    BY <1>1, <2>1 DEF First, Ahead, EndInBuffer, EventsIn, Is
  <2>3. 1 + Len(frames) = Total(r) /\ Upto(frames, 0 + 1, Len(frames))
    BY <2>1, <2>2 DEF ReqInv, Buffered
  <2>4. First(r)' = 0 /\ Total(r)' = Total(r) /\ ~EndInBuffer(r)'
    BY <1>1, <2>1, <2>2 DEF First, Total, EndInBuffer, Is, Stream, SameAnswer, Settled
  <2>5. Ahead(r)' = 0
    BY <1>1, <2>1, EmptySeq DEF Ahead
  <2> HIDE DEF frames
  <2>6. /\ Len(<<Accepted>> \o frames) = 1 + Len(frames)
        /\ \A i \in 1 .. 1 + Len(frames) :
              (<<Accepted>> \o frames)[i] = IF i <= 1 THEN <<Accepted>>[i] ELSE frames[i - 1]
    BY <1>0, ConcatProperties
  <2>7. Upto(<<Accepted>> \o frames, 0, 1 + Len(frames))
    <3> SUFFICES ASSUME NEW i \in 1 .. 1 + Len(frames)
                 PROVE  (<<Accepted>> \o frames)[i] + 1 = i
      BY <1>0 DEF Upto
    <3>1. CASE i = 1
      BY <1>0, <2>6, <3>1
    <3>2. CASE i > 1
      <4>1. i - 1 \in 1 .. Len(frames)
        BY <1>0, <3>2
      <4>2. frames[i - 1] + 1 = 0 + 1 + (i - 1)
        BY <2>3, <4>1 DEF Upto
      <4>3. (<<Accepted>> \o frames)[i] = frames[i - 1]
        BY <1>0, <2>6, <3>2
      <4> QED
        BY <4>2, <4>3
    <3> QED
      BY <1>0, <3>1, <3>2
  <2>8. EventsIn(r)' = 1 + Len(frames)
    BY <1>1, <2>4, <2>6 DEF EventsIn
  <2> QED
    BY <1>0, <1>1, <2>3, <2>4, <2>5, <2>7, <2>8 DEF Buffered
<1> QED
  BY <1>2, <1>3 DEF Buffered

\* What was proper stays so while the operation goes on, and when it ends.
LEMMA GrowingWritten ==
    ASSUME TypeOK, NEW r \in Requests, ReqInv(r), result[r] # "ok",
           method'[r] = method[r], at'[r] = at[r], wire'[r] = wire[r], batch'[r] = batch[r],
           after'[r] = after[r], emitted'[r] \in {emitted[r], emitted[r] + 1}
    PROVE  /\ Written(r)'
           /\ First(r)' = First(r) /\ Ahead(r)' = Ahead(r)
           /\ method[r] # NoMethod /\ Stream(r) => Total(r)' = Total(r) + (emitted'[r] - emitted[r])
<1>1. First(r)' = First(r) /\ Ahead(r)' = Ahead(r)
  BY DEF First, Ahead, Is
<1>0. Total(r) \in Nat /\ First(r) \in {0, 1} /\ emitted[r] \in Nat
      /\ Len(wire[r]) \in Nat /\ Len(batch[r]) \in Nat /\ Len(wire[r] \o batch[r]) \in Nat
  BY TotalType, LenProperties, ConcatProperties DEF TypeOK, ControlTypes, FrameTypes
<1>2. Total(r)' \in Nat /\ Total(r)' >= Total(r)
  BY <1>0, <1>1 DEF Total, Stream
<1>6. method[r] # NoMethod /\ Stream(r) => Total(r)' = Total(r) + (emitted'[r] - emitted[r])
  BY <1>0, <1>1 DEF Total, Stream
<1>3. (Proper(r, wire[r] \o batch[r]))'
  <2> DEFINE w == wire[r] \o batch[r]
  <2>1. Proper(r, w) /\ w' = w /\ Len(w) \in Nat
    BY <1>0 DEF ReqInv, Written
  <2> HIDE DEF w
  <2>2. Proper(r, w)'
    BY <1>0, <1>1, <1>2, <2>1 DEF Proper, Upto
  <2> QED
    BY <2>2 DEF w
<1>4. Len(wire[r]) + Len(batch[r]) <= Total(r) => Len(wire[r]) + Len(batch[r]) <= Total(r)'
  <2> DEFINE length == Len(wire[r]) + Len(batch[r])
             before == Total(r)
             now == Total(r)'
  <2>3. length \in Nat
    <3>1. \A s \in Seq(Frames), t \in Seq(Frames) : Len(s) + Len(t) \in Nat
      BY LenProperties
    <3> QED
      BY <3>1 DEF TypeOK, FrameTypes
  <2>4. before \in Nat
    BY <1>0
  <2>5. now \in Nat
    BY <1>2
  <2>6. now >= before
    BY <1>2
  <2>1. length \in Nat /\ before \in Nat /\ now \in Nat /\ now >= before
    BY <2>3, <2>4, <2>5, <2>6
  <2> HIDE DEF length, before, now
  <2>2. length <= before => length <= now
    BY <2>1
  <2> QED
    BY <2>2 DEF length, before, now
<1>5. Written(r)'
  BY <1>1, <1>3, <1>4 DEF ReqInv, Written, Upto
<1> QED
  BY <1>1, <1>5, <1>6

LEMMA EventStep ==
    ASSUME TypeOK, TypeOK', NEW r \in Requests, ReqInv(r), Event(r)
    PROVE  Written(r)' /\ Buffered(r)'
<1> DEFINE frames == state[r].frames
           number == emitted[r] + 1
<1>0. frames \in Seq(Frames) /\ Len(frames) \in Nat /\ Total(r) \in Nat /\ First(r) \in {0, 1}
      /\ emitted[r] \in Nat /\ Ahead(r) \in Nat
  <2>1. Ahead(r) \in Nat
    BY LenProperties DEF TypeOK, FrameTypes, Ahead
  <2> QED
    BY <2>1, TotalType, LenProperties DEF TypeOK, ControlTypes, StateTypes, States
<1>1. /\ method'[r] = method[r] /\ at'[r] = at[r] /\ wire'[r] = wire[r] /\ batch'[r] = batch[r]
      /\ after'[r] = after[r] /\ emitted'[r] = number /\ result'[r] = result[r]
      /\ result[r] = "running" /\ number \in 1 .. MaxEvents
  BY HttpAssumption DEF Event, TypeOK, ControlTypes
<1>2. /\ Written(r)' /\ First(r)' = First(r) /\ Ahead(r)' = Ahead(r)
      /\ method[r] # NoMethod /\ Stream(r) => Total(r)' = Total(r) + 1
  BY <1>0, <1>1, GrowingWritten
<1>3. number \in Frames
  BY <1>1, HttpAssumption DEF Frames
<1>4. ASSUME Buffering(r)'
      PROVE  Buffered(r)'
  <2>1. method[r] # NoMethod /\ Stream(r) /\ ~state[r].abandoned
    BY <1>1, <1>4 DEF Buffering, Stream, ReqInv, Recorded, Starting
  <2>2. ~state'[r].overflow => ~state[r].overflow /\ state'[r].frames = Append(frames, number)
    <3>1. \E text \in 0 .. 1 : state'[r] \in {OnEvent(r, number, text), OnRpcEvent(r, number)}
      BY DEF Event, TypeOK, StateTypes
    <3>2. PICK text \in 0 .. 1 : state'[r] \in {OnEvent(r, number, text), OnRpcEvent(r, number)}
      BY <3>1
    <3> QED
      BY <1>3, <2>1, <3>2, OnEventEffect, OnRpcEventEffect
  <2>3. Buffering(r) /\ state'[r].frames = Append(frames, number)
    BY <1>1, <1>4, <2>2 DEF Buffering, Stream
  <2>4. ~EndInBuffer(r) /\ EventsIn(r) = Len(frames) /\ ~EndInBuffer(r)'
    BY <1>1 DEF EndInBuffer, EventsIn, Settled
  <2>5. Ahead(r) + Len(frames) = Total(r) /\ Upto(frames, First(r) + Ahead(r), Len(frames))
    BY <2>3, <2>4 DEF ReqInv, Buffered
  <2>6. Total(r) = (emitted[r] + 1) - First(r)
    BY <2>1 DEF Total, Stream
  <2> HIDE DEF frames, number
  <2>7. /\ Len(Append(frames, number)) = Len(frames) + 1
        /\ \A i \in 1 .. Len(frames) : Append(frames, number)[i] = frames[i]
        /\ Append(frames, number)[Len(frames) + 1] = number
    BY <1>0, <1>3, AppendProperties
  <2>8. Upto(Append(frames, number), First(r) + Ahead(r), Len(frames) + 1)
    <3> SUFFICES ASSUME NEW i \in 1 .. Len(frames) + 1
                 PROVE  Append(frames, number)[i] + 1 = First(r) + Ahead(r) + i
      BY DEF Upto
    <3>1. CASE i = Len(frames) + 1
      <4>1. number + 1 = First(r) + Ahead(r) + i
        BY <1>0, <2>5, <2>6, <3>1 DEF number
      <4> QED
        BY <2>7, <3>1, <4>1
    <3>2. CASE i # Len(frames) + 1
      <4>1. i \in 1 .. Len(frames)
        BY <1>0, <3>2
      <4> QED
        BY <2>5, <2>7, <4>1 DEF Upto
    <3> QED
      BY <3>1, <3>2
  <2>9. EventsIn(r)' = Len(frames) + 1
    BY <2>3, <2>4, <2>7 DEF EventsIn
  <2> QED
    BY <1>0, <1>2, <2>1, <2>3, <2>4, <2>5, <2>8, <2>9 DEF Buffered
<1> QED
  BY <1>2, <1>4 DEF Buffered

LEMMA FinishStep ==
    ASSUME TypeOK, TypeOK', NEW r \in Requests, ReqInv(r),
           NEW outcome \in {"ok", "error"}, NEW text \in 0 .. 1, Finish(r, outcome, text)
    PROVE  Written(r)' /\ Buffered(r)'
<1> DEFINE frames == state[r].frames
           frame == IF outcome = "ok" THEN Final ELSE Failure
<1>0. frames \in Seq(Frames) /\ Len(frames) \in Nat /\ emitted[r] \in Nat /\ frame \in Frames
      /\ Total(r) \in Nat
  BY TotalType, FramesFit, LenProperties DEF TypeOK, ControlTypes, StateTypes, States
<1>1. /\ method'[r] = method[r] /\ at'[r] = at[r] /\ wire'[r] = wire[r] /\ batch'[r] = batch[r]
      /\ after'[r] = after[r] /\ emitted'[r] = emitted[r] /\ result[r] = "running"
      /\ result'[r] = outcome
  BY DEF Finish, TypeOK, ControlTypes
<1>2. /\ Written(r)' /\ First(r)' = First(r) /\ Ahead(r)' = Ahead(r) /\ Total(r)' = Total(r)
  BY <1>0, <1>1, GrowingWritten DEF Total, Stream
<1>3. ~EndInBuffer(r) /\ EventsIn(r) = Len(frames) /\ (EndInBuffer(r)' <=> Is(r, "complete"))
  BY <1>1 DEF EndInBuffer, EventsIn, Settled, Is
<1>4. ASSUME Buffering(r)', ~Is(r, "complete")
      PROVE  Buffered(r)'
  <2>1. state'[r] = state[r]
    BY <1>4 DEF Finish
  <2>2. Buffering(r) /\ EventsIn(r)' = EventsIn(r) /\ ~EndInBuffer(r)'
    BY <1>1, <1>3, <1>4, <2>1 DEF Buffering, Stream, EventsIn
  <2> QED
    BY <1>2, <2>1, <2>2 DEF ReqInv, Buffered, Upto
<1>5. ASSUME Buffering(r)', Is(r, "complete")
      PROVE  Buffered(r)'
  <2>1. method[r] # NoMethod /\ Stream(r) /\ ~state[r].abandoned
    BY <1>1, <1>5 DEF Buffering, Stream, ReqInv, Recorded, Starting
  <2>2. state'[r] = OnEvent(r, frame, text)
    BY <1>5 DEF Finish, TypeOK, StateTypes
  <2>3. Buffering(r) /\ state'[r].frames = Append(frames, frame)
    BY <1>0, <1>1, <1>5, <2>1, <2>2, OnEventEffect DEF Buffering, Stream
  <2>4. Ahead(r) + Len(frames) = Total(r) /\ Upto(frames, First(r) + Ahead(r), Len(frames))
    BY <1>3, <2>3 DEF ReqInv, Buffered
  <2>0. frame = IF result'[r] = "ok" THEN Final ELSE Failure
    BY <1>1
  <2> HIDE DEF frames, frame
  <2>5. /\ Len(Append(frames, frame)) = Len(frames) + 1
        /\ \A i \in 1 .. Len(frames) : Append(frames, frame)[i] = frames[i]
        /\ Append(frames, frame)[Len(frames) + 1] = frame
    BY <1>0, AppendProperties
  <2>6. EventsIn(r)' = Len(frames)
    BY <1>0, <1>3, <1>5, <2>3, <2>5 DEF EventsIn
  <2>7. Upto(Append(frames, frame), First(r) + Ahead(r), Len(frames))
    BY <2>4, <2>5 DEF Upto
  <2> QED
    BY <1>0, <1>2, <1>3, <2>0, <2>3, <2>4, <2>5, <2>6, <2>7 DEF Buffered
<1> QED
  BY <1>2, <1>4, <1>5 DEF Buffered

LEMMA ArriveStep ==
    ASSUME TypeOK, TypeOK', NEW r \in Requests, ReqInv(r), NEW m \in Methods, Arrive(r, m)
    PROVE  Written(r)' /\ Buffered(r)'
<1>1. /\ at[r] = "none" /\ at'[r] = "queued" /\ wire'[r] = wire[r] /\ batch'[r] = batch[r]
  BY DEF Arrive, Go, TypeOK, ControlTypes
<1>2. Written(r)'
  BY <1>1, NothingWritten DEF Waiting
<1>3. Buffered(r)'
  BY <1>1 DEF Buffered, Buffering, Starting
<1> QED
  BY <1>2, <1>3

\* The steps that write no frame and buffer none.
LEMMA QuietCases ==
    ASSUME TypeOK, TypeOK', NEW r \in Requests, ReqInv(r),
           \/ Route(r) /\ ~Stopping
           \/ Admit(r) /\ at'[r] = "start"
           \/ Register(r)
           \/ (Await(r) \/ Wait(r)) /\ at'[r] # "guard"
           \/ (Provide(r) \/ Pause(r) \/ ProvideRpc(r)) /\ at'[r] \in Streaming
           \/ (Provide(r) \/ Pause(r) \/ ProvideRpc(r) \/ DrainRpc(r) \/ FailRpc(r)) /\ at'[r] = "guard"
           \/ Guard(r) \/ GuardRpc(r) \/ Disconnect(r) \/ Expire(r)
    PROVE  Written(r)' /\ Buffered(r)'
<1> USE DEF TypeOK, ControlTypes, StateTypes, FrameTypes, Quiet, SameAnswer, serviceVars
<1>1. CASE Route(r) /\ ~Stopping
  <2>1. Quiet(r) /\ at[r] = "queued" /\ at'[r] = "admit"
    BY <1>1 DEF Route, Go
  <2> QED
    BY <2>1, QuietStep DEF Waiting
<1>2. CASE Admit(r) /\ at'[r] = "start"
  <2>1. Quiet(r) /\ at[r] = "admit" /\ at'[r] = "start"
    BY <1>2 DEF Admit, Reply, Go
  <2> QED
    BY <2>1, QuietStep DEF Waiting
<1>3. CASE Register(r)
  <2>1. Quiet(r) /\ at[r] = "register" /\ at'[r] = IF Is(r, "rpc") /\ Stream(r) THEN "accept" ELSE "await"
    BY <1>3 DEF Register, Go
  <2> QED
    BY <2>1, QuietStep DEF Starting
<1>4. CASE (Await(r) \/ Wait(r)) /\ at'[r] # "guard"
  <2>1. Quiet(r) /\ at[r] \in {"await", "wait"} /\ at'[r] \in {"await", "wait", "stream"}
    BY <1>4 DEF Await, Wait, Reply, Go
  <2>2. ~(Is(r, "rpc") /\ Stream(r))
    BY <2>1 DEF ReqInv, Placed, Is
  <2> QED
    BY <2>1, <2>2, QuietStep DEF Starting
<1>5. CASE (Provide(r) \/ Pause(r) \/ ProvideRpc(r)) /\ at'[r] \in Streaming
  <2>1. CASE Provide(r)
    <3>1. Quiet(r) /\ at[r] = "stream" /\ at'[r] = "pause"
      BY <1>5, <2>1 DEF Provide, Broken, Take, Go, Streaming
    <3> QED
      BY <3>1, QuietStep DEF Streaming
  <2>2. CASE Pause(r)
    <3>1. Quiet(r) /\ at[r] = "pause" /\ at'[r] = "stream"
      BY <1>5, <2>2 DEF Pause, Broken, Go, Streaming
    <3> QED
      BY <3>1, QuietStep DEF Streaming
  <2>3. CASE ProvideRpc(r)
    <3>1. Quiet(r) /\ at[r] = "stream" /\ at'[r] = "drain"
      BY <1>5, <2>3 DEF ProvideRpc, Broken, Go, Streaming
    <3> QED
      BY <3>1, QuietStep DEF Streaming
  <2> QED
    BY <1>5, <2>1, <2>2, <2>3
<1>6. CASE (Provide(r) \/ Pause(r) \/ ProvideRpc(r) \/ DrainRpc(r) \/ FailRpc(r)) /\ at'[r] = "guard"
  <2>1. Quiet(r) /\ at[r] \in Streaming
    BY <1>6 DEF Provide, Pause, ProvideRpc, DrainRpc, Drained, FailRpc, Broken, Take, Go, Streaming
  <2> QED
    BY <1>6, <2>1, QuietStep DEF Waiting, Starting, Streaming
<1>7. CASE Guard(r) \/ GuardRpc(r)
  <2>1. Quiet(r) /\ at[r] = "guard" /\ at'[r] = "respond"
    BY <1>7 DEF Guard, GuardRpc, Go
  <2> QED
    BY <2>1, QuietStep DEF Waiting, Starting
<1>8. CASE Disconnect(r) \/ Expire(r)
  <2>1. Quiet(r) /\ at'[r] = at[r]
    BY <1>8 DEF Disconnect, Expire
  <2> QED
    BY <2>1, QuietStep
<1> QED
  BY <1>1, <1>2, <1>3, <1>4, <1>5, <1>6, <1>7, <1>8

\* The steps that answer in one piece.
LEMMA ReplyCases ==
    ASSUME TypeOK, NEW r \in Requests, ReqInv(r),
           \/ Route(r) /\ Stopping
           \/ Admit(r) /\ at'[r] # "start"
           \/ Rejected(r)
           \/ (Await(r) \/ Wait(r)) /\ at'[r] = "guard"
           \/ AwaitFuture(r)
    PROVE  Written(r)' /\ Buffered(r)'
<1> USE DEF TypeOK, ControlTypes, SameAnswer, serviceVars
<1>1. ASSUME at[r] \in Waiting, Reply(r, "respond", Failure), SameAnswer(r), wire'[r] = wire[r]
      PROVE  Written(r)' /\ Buffered(r)'
  BY <1>1, FramesFit, ReplyStep
<1>5. CASE Route(r) /\ Stopping
  BY <1>1, <1>5 DEF Route, Waiting
<1>6. CASE Admit(r) /\ at'[r] # "start"
  BY <1>1, <1>6 DEF Admit, Go, Waiting
<1>7. CASE Rejected(r)
  BY <1>1, <1>7 DEF Rejected, Waiting
<1>2. CASE Await(r) /\ at'[r] = "guard"
  <2>1. PICK body \in {Final, Failure} :
             /\ Reply(r, "guard", body)
             /\ body = Final => /\ state[r].finished /\ ~(Stream(r) /\ state[r].started)
                                /\ result[r] = "ok"
    BY <1>2, FramesFit DEF Await, Go
  <2>2. at[r] = "await" /\ Is(r, "complete") /\ SameAnswer(r) /\ wire'[r] = wire[r]
    BY <1>2 DEF Await
  <2>3. method[r] # NoMethod /\ (body = Final => ~Stream(r))
    BY <2>1, <2>2 DEF ReqInv, Recorded, Is
  <2> QED
    BY <2>1, <2>2, <2>3, ReplyStep DEF Starting
<1>3. CASE Wait(r) /\ at'[r] = "guard"
  <2>1. /\ Reply(r, "guard", Failure) /\ SameAnswer(r) /\ wire'[r] = wire[r]
        /\ at[r] = "wait"
    BY <1>3 DEF Wait, Go
  <2>2. Failure # Final
    BY FramesFit
  <2> QED
    BY <2>1, <2>2, ReplyStep DEF Starting
<1>4. CASE AwaitFuture(r)
  <2>1. PICK body \in {Final, Failure}, place \in {"guard", "respond"} :
             Reply(r, place, body) /\ (body = Final => result[r] = "ok")
    BY <1>4, FramesFit DEF AwaitFuture
  <2>2. at[r] = "await" /\ ~Is(r, "complete") /\ SameAnswer(r) /\ wire'[r] = wire[r]
    BY <1>4 DEF AwaitFuture
  <2>3. method[r] # NoMethod /\ ~Stream(r)
    BY <2>2, HttpAssumption DEF ReqInv, Dispatched, Placed
  <2> QED
    BY <2>1, <2>2, <2>3, ReplyStep DEF Starting
<1> QED
  BY <1>2, <1>3, <1>4, <1>5, <1>6, <1>7

\* The calls of a provider that write something.
LEMMA ProvideCases ==
    ASSUME TypeOK, NEW r \in Requests, ReqInv(r), at'[r] = "write",
           Provide(r) \/ Pause(r) \/ ProvideRpc(r) \/ DrainRpc(r) \/ FailRpc(r)
    PROVE  Written(r)' /\ Buffered(r)'
<1>0. at[r] \in Streaming /\ SameAnswer(r) /\ wire'[r] = wire[r] /\ method[r] # NoMethod
  BY HttpAssumption DEF Provide, Pause, ProvideRpc, DrainRpc, FailRpc, Streaming, SameAnswer, serviceVars,
     ReqInv, Dispatched
<1>1. ASSUME NEW silent \in BOOLEAN, Broken(r, silent)
      PROVE  Written(r)' /\ Buffered(r)'
  <2>1. after'[r] = "guard" /\ batch'[r] = <<Failure>>
    BY <1>1 DEF Broken, Go, TypeOK, ControlTypes, FrameTypes
  <2> QED
    BY <1>0, <2>1, FailureStep
<1> DEFINE silent == Stopping \/ r \in gone
<1>2. silent \in BOOLEAN /\ FALSE \in BOOLEAN
  BY DEF Stopping
<1>3. CASE Provide(r)
  <2>1. CASE Broken(r, silent) \/ Broken(r, FALSE)
    BY <1>1, <1>2, <2>1
  <2>2. CASE Take(r, state[r].frames, IF state[r].finished THEN "guard" ELSE "stream")
             /\ ~state[r].overflow
    <3>1. at[r] = "stream" /\ Is(r, "complete") /\ (state[r].finished <=> EndInBuffer(r))
      BY <1>3 DEF Provide, ReqInv, Recorded, EndInBuffer
    <3>2. CASE ~state[r].finished
      BY <1>0, <2>2, <3>1, <3>2, TakeMore
    <3>3. CASE state[r].finished
      <4> DEFINE frames == state[r].frames
                 n == Len(frames) - 1
      <4>1. frames \in Seq(Frames) /\ Len(frames) \in Nat
        BY LenProperties DEF TypeOK, StateTypes, States
      <4>2. batch[r] = <<>> /\ Len(wire[r]) \in Nat
        BY <3>1, LenProperties DEF ReqInv, Written, TypeOK, FrameTypes
      <4>3. Buffering(r) /\ Ahead(r) = Len(wire[r]) /\ EventsIn(r) = n
        BY <1>0, <2>2, <3>1, <3>3, <4>2, EmptySeq
           DEF Buffering, Ahead, EventsIn, ReqInv, Placed, Streaming
      <4>4. /\ n >= 0 /\ Len(wire[r]) + n = Total(r) /\ Upto(frames, First(r) + Len(wire[r]), n)
            /\ frames[Len(frames)] = IF result[r] = "ok" THEN Final ELSE Failure
        BY <3>1, <3>3, <4>3 DEF ReqInv, Buffered
      <4>5. n \in Nat /\ Len(frames) = n + 1
        BY <4>1, <4>4
      <4>6. Take(r, frames, "guard")
        BY <2>2, <3>3
      <4> HIDE DEF frames, n
      <4> QED
        BY <1>0, <3>1, <4>1, <4>4, <4>5, <4>6, TakeLast
    <3> QED
      BY <3>2, <3>3
  <2>3. at'[r] # "pause"
    OBVIOUS
  <2>4. Go(r, "pause") => at'[r] = "pause"
    BY DEF Go, TypeOK, ControlTypes
  <2> QED
    BY <1>3, <2>1, <2>2, <2>3, <2>4 DEF Provide
<1>4. CASE Pause(r)
  <2>1. Go(r, "stream") => at'[r] = "stream"
    BY DEF Go, TypeOK, ControlTypes
  <2> QED
    BY <1>1, <1>2, <1>4, <2>1 DEF Pause
<1>5. CASE ProvideRpc(r)
  <2>1. Go(r, "drain") => at'[r] = "drain"
    BY DEF Go, TypeOK, ControlTypes
  <2> QED
    BY <1>1, <1>2, <1>5, <2>1 DEF ProvideRpc
<1>6. CASE DrainRpc(r)
  <2>0. at[r] = "drain" /\ Is(r, "rpc") /\ ~EndInBuffer(r)
    BY <1>6 DEF DrainRpc, ReqInv, Placed, EndInBuffer, Is
  <2>1. CASE Broken(r, silent)
    BY <1>1, <1>2, <2>1
  <2>2. ASSUME ~state[r].overflow, NEW then \in {"stream", "fail"}, Take(r, state[r].frames, then)
        PROVE  Written(r)' /\ Buffered(r)'
    BY <1>0, <2>0, <2>2, TakeMore
  <2>3. CASE ~state[r].overflow /\ result[r] = "ok" /\ Take(r, Append(state[r].frames, Final), "guard")
    <3> DEFINE frames == state[r].frames
               n == Len(frames)
    <3>1. frames \in Seq(Frames) /\ n \in Nat
      BY LenProperties DEF TypeOK, StateTypes, States
    <3>2. batch[r] = <<>> /\ Len(wire[r]) \in Nat
      BY <2>0, LenProperties DEF ReqInv, Written, TypeOK, FrameTypes
    <3>3. Buffering(r) /\ Ahead(r) = Len(wire[r]) /\ EventsIn(r) = n
      BY <1>0, <2>0, <2>3, <3>2, EmptySeq
         DEF Buffering, Ahead, EventsIn, ReqInv, Placed, Streaming
    <3>4. Len(wire[r]) + n = Total(r) /\ Upto(frames, First(r) + Len(wire[r]), n)
      BY <3>3 DEF ReqInv, Buffered
    <3>5. Take(r, Append(frames, Final), "guard")
      BY <2>3
    <3> HIDE DEF frames
    <3> DEFINE all == Append(frames, Final)
    <3>6. /\ all \in Seq(Frames) /\ Len(all) = n + 1 /\ all[n + 1] = Final
          /\ \A i \in 1 .. n : all[i] = frames[i]
      BY <3>1, FramesFit, AppendProperties
    <3>7. Take(r, all, "guard")
      BY <3>5
    <3> HIDE DEF n, all
    <3>8. Upto(all, First(r) + Len(wire[r]), n)
      BY <3>4, <3>6 DEF Upto
    <3>9. all[n + 1] = IF result[r] = "ok" THEN Final ELSE Failure
      BY <2>3, <3>6
    <3> QED
      BY <1>0, <2>0, <3>1, <3>4, <3>6, <3>7, <3>8, <3>9, TakeLast
  <2> QED
    BY <1>6, <2>1, <2>2, <2>3 DEF DrainRpc, Drained
<1>7. CASE FailRpc(r)
  BY <1>1, <1>2, <1>7 DEF FailRpc
<1> QED
  BY <1>3, <1>4, <1>5, <1>6, <1>7

LEMMA WireStep ==
    ASSUME TypeOK, TypeOK', NEW r \in Requests, ReqInv(r), Acts(r)
    PROVE  Written(r)' /\ Buffered(r)'
<1>1. ASSUME NEW m \in Methods, Arrive(r, m) PROVE Written(r)' /\ Buffered(r)'
  BY <1>1, ArriveStep
<1>2. CASE Route(r) \/ Rejected(r) \/ AwaitFuture(r)
  BY <1>2, ReplyCases, QuietCases
<1>3. CASE Admit(r)
  BY <1>3, ReplyCases, QuietCases
<1>4. ASSUME NEW outcome, Dispatch(r, outcome) PROVE Written(r)' /\ Buffered(r)'
  BY <1>4, DispatchStep
<1>5. CASE Await(r) \/ Wait(r)
  BY <1>5, ReplyCases, QuietCases
<1>6. CASE Accept(r)
  BY <1>6, AcceptStep
<1>7. CASE Provide(r) \/ Pause(r) \/ ProvideRpc(r) \/ DrainRpc(r) \/ FailRpc(r)
  <2>1. at'[r] \in {"pause", "stream", "drain"} => ~DrainRpc(r) /\ ~FailRpc(r)
    BY DEF DrainRpc, FailRpc, Drained, Broken, Take, Go, TypeOK, ControlTypes
  <2>2. at'[r] \in {"pause", "stream", "drain", "write", "guard"}
    BY <1>7 DEF Provide, Pause, ProvideRpc, DrainRpc, FailRpc, Drained, Broken, Take, Go, TypeOK, ControlTypes
  <2>3. CASE at'[r] = "write"
    BY <1>7, <2>3, ProvideCases
  <2>4. CASE at'[r] = "guard"
    BY <1>7, <2>4, QuietCases
  <2>5. CASE at'[r] \in {"pause", "stream", "drain"}
    <3>1. at'[r] \in Streaming
      BY <2>5 DEF Streaming
    <3> QED
      BY <1>7, <2>1, <2>5, <3>1, QuietCases
  <2> QED
    BY <2>2, <2>3, <2>4, <2>5
<1>8. ASSUME NEW n \in 0 .. MaxEvents + 2, Write(r, n) PROVE Written(r)' /\ Buffered(r)'
  <2>1. n \in Nat
    BY HttpAssumption
  <2> QED
    BY <1>8, <2>1, WriteStep
<1>9. CASE Register(r) \/ Guard(r) \/ GuardRpc(r) \/ Disconnect(r) \/ Expire(r)
  BY <1>9, QuietCases
<1>10. ASSUME NEW written \in BOOLEAN, Respond(r, written) PROVE Written(r)' /\ Buffered(r)'
  BY <1>10, RespondStep
<1>11. CASE Event(r)
  BY <1>11, EventStep
<1>12. ASSUME NEW outcome \in {"ok", "error"}, NEW text \in 0 .. 1, Finish(r, outcome, text)
       PROVE  Written(r)' /\ Buffered(r)'
  BY <1>12, FinishStep
<1> QED
  BY <1>1, <1>2, <1>3, <1>4, <1>5, <1>6, <1>7, <1>8, <1>9, <1>10, <1>11, <1>12 DEF Acts

-----------------------------------------------------------------------------
(* The invariant, and what follows from it.                                *)

LEMMA InvInit ==
    Init => IndInv
<1> SUFFICES ASSUME Init
             PROVE  IndInv
  OBVIOUS
<1>1. TypeOK
  BY TypeInit
<1>2. ASSUME NEW r \in Requests
      PROVE  ReqInv(r)
  <2>1. Total(r) \in Nat /\ wire[r] = <<>> /\ batch[r] = <<>> /\ at[r] = "none"
    BY <1>1, TotalType DEF Init
  <2>2. <<>> \o <<>> = <<>> /\ Len(<<>>) = 0
    BY ConcatEmpty, FramesFit
  <2>3. Written(r)
    BY <2>1, <2>2 DEF Written, Proper, Upto, Streaming
  <2>4. Buffered(r)
    BY <2>1 DEF Buffered, Buffering, Starting
  <2>5. Control(r)
    BY HttpAssumption DEF Control, Init, Dispatched, Placed, Recorded, Listed, Is, NoState, Streaming
  <2> QED
    BY <2>3, <2>4, <2>5 DEF ReqInv, Control
<1>3. Balance
  <2>1. Busy = {} /\ charged = {}
    BY DEF Init, Busy
  <2>2. {r \in charged : ~method[r].control} = {} /\ {r \in charged : method[r].control} = {}
    BY <2>1
  <2>3. Cardinality({}) = 0 /\ IsFiniteSet({})
    BY FS_EmptySet
  <2> QED
    BY <2>1, <2>2, <2>3, HttpAssumption DEF Init, Balance
<1> QED
  BY <1>1, <1>2, <1>3 DEF IndInv

LEMMA InvStep ==
    ASSUME IndInv, [Next]_vars
    PROVE  IndInv'
<1> USE DEF IndInv
<1>1. TypeOK'
  BY ControlTypeStep, StateTypeStep, FrameTypeStep DEF TypeOK
<1>2. ASSUME NEW r \in Requests, Acts(r)
      PROVE  IndInv'
  <2>1. ReqInv(r)'
    BY <1>1, <1>2, ControlStep, WireStep DEF ReqInv, Control
  <2>2. ASSUME NEW q \in Requests, q # r
        PROVE  ReqInv(q)'
    BY <1>2, <2>2, OthersSame, SameKeeps
  <2>3. \A q \in Requests : ReqInv(q)'
    BY <2>1, <2>2
  <2>4. \A q \in Requests : Listed(q)'
    BY <2>3 DEF ReqInv
  <2>5. Balance'
    BY <1>2, <2>4, BalanceStep
  <2> QED
    BY <1>1, <2>3, <2>5
<1>3. CASE Listen \/ Close \/ CloseCancel \/ Join \/ UNCHANGED vars
  <2>1. /\ UNCHANGED <<method, at, leaseVars, state, batch, after, ready, active, emitted, result, wire>>
        /\ cancelled \subseteq cancelled'
    BY <1>3 DEF Listen, Close, CloseCancel, Join, Owner, vars, serviceVars
  <2>2. ASSUME NEW q \in Requests
        PROVE  ReqInv(q)'
    BY <2>1, <2>2, SameKeeps DEF Same, leaseVars
  <2>3. Busy' = Busy
    BY <2>1 DEF Busy
  <2>4. server' = "closed" => \A r \in Requests : at'[r] \in {"none", "gone"}
    BY <1>3 DEF Listen, Close, CloseCancel, Join, Owner, vars, Balance
  <2>5. /\ work' = Cardinality({q \in charged' : ~method'[q].control})
        /\ control' = Cardinality({q \in charged' : method'[q].control})
        /\ work' <= Workers /\ control' <= Controls
    BY <2>1, BalanceKept
  <2>6. Balance'
    BY <2>1, <2>3, <2>4, <2>5 DEF Balance, leaseVars
  <2> QED
    BY <1>1, <2>2, <2>6
<1> QED
  BY <1>2, <1>3, NextCases

\* Everything said above of a request and of the leases holds of every state of the server.
THEOREM HttpInvariant == Spec => []IndInv
  BY InvInit, InvStep, PTL DEF Spec

\* The counters balance: each lane counts the living responses charged to it, within its
\* limit, and a thread is left for the next client while the others all do admitted work.
\* After close() the list of tokens is empty and every place is free.
THEOREM AdmissionHolds == Spec => []AdmissionBalances
<1>1. IndInv => AdmissionBalances
  <2> SUFFICES ASSUME IndInv
               PROVE  AdmissionBalances
    OBVIOUS
  <2> USE DEF IndInv
  <2>1. \A r \in charged : Alive(r)
    BY DEF Balance, Busy, Alive
  <2>2. Busy \subseteq charged => Cardinality(Busy) < Threads
    <3> HAVE Busy \subseteq charged
    <3>1. Busy = Lane(method) \cup Others(method) /\ Lane(method) \cap Others(method) = {}
      BY DEF Balance, Lane, Others
    <3>2. IsFiniteSet(Lane(method)) /\ IsFiniteSet(Others(method))
          /\ Cardinality(Lane(method)) = control /\ Cardinality(Others(method)) = work
          /\ work \in Nat /\ control \in Nat /\ work <= Workers /\ control <= Controls
      BY LanesFinite
    <3>3. Cardinality(Lane(method) \cup Others(method)) = control + work
      <4>1. Cardinality(Lane(method) \cup Others(method)) =
              Cardinality(Lane(method)) + Cardinality(Others(method))
              - Cardinality(Lane(method) \cap Others(method))
        BY <3>2, FS_Union
      <4>2. Cardinality(Lane(method) \cap Others(method)) = 0
        BY <3>1, FS_EmptySet
      <4> QED
        BY <3>2, <4>1, <4>2
    <3> QED
      BY <3>1, <3>2, <3>3, HttpAssumption DEF Threads
  <2>3. active \subseteq {r \in Requests : Alive(r)}
    BY DEF TypeOK, ControlTypes, ReqInv, Listed, Alive, Starting, Streaming
  <2>4. server = "closed" => active = {} /\ work = 0 /\ control = 0
    <3> HAVE server = "closed"
    <3>1. charged = {} /\ active = {}
      BY <2>1, <2>3 DEF Balance, Alive, TypeOK, ControlTypes
    <3>2. {r \in charged : ~method[r].control} = {} /\ {r \in charged : method[r].control} = {}
      BY <3>1
    <3> QED
      BY <3>1, <3>2, FS_EmptySet DEF Balance
  <2> QED
    BY <2>1, <2>2, <2>3, <2>4 DEF AdmissionBalances, Balance
<1> QED
  BY <1>1, HttpInvariant, PTL

\* A response that is gone leaves no operation running that nobody has told to stop.
THEOREM NothingOrphaned == Spec => []NothingIsOrphaned
<1>1. IndInv => NothingIsOrphaned
  BY DEF IndInv, ReqInv, Listed, NothingIsOrphaned
<1> QED
  BY <1>1, HttpInvariant, PTL

-----------------------------------------------------------------------------
(* What a client reads, and whose operation is told to stop.               *)

LEMMA PrefixByElements ==
    ASSUME NEW S, NEW s \in Seq(S), NEW t \in Seq(S), NEW n \in Nat, n <= Len(s), n <= Len(t),
           \A i \in 1 .. n : s[i] = t[i]
    PROVE  /\ n = Len(s) => IsPrefix(s, t)
           /\ n = Len(s) - 1 => IsPrefix(Front(s), t)
<1>0. Len(s) \in Nat /\ Len(t) \in Nat
  BY LenProperties
<1> DEFINE a == SubSeq(s, 1, n)
           b == SubSeq(t, 1, n)
<1>1. a \in Seq(S) /\ Len(a) = n /\ \A i \in 1 .. n : a[i] = s[i]
  <2>1. \A i \in 1 .. n : s[i] \in S
    BY <1>0, ElementOfSeq
  <2> QED
    BY <2>1, SubSeqProperties, Z3
<1>2. b \in Seq(S) /\ Len(b) = n /\ \A i \in 1 .. n : b[i] = t[i]
  <2>1. \A i \in 1 .. n : t[i] \in S
    BY <1>0, ElementOfSeq
  <2> QED
    BY <2>1, SubSeqProperties, Z3
<1> HIDE DEF a, b
<1>3. a = b
  BY <1>1, <1>2, SeqEqual
<1>4. SubSeq(s, 1, n) = SubSeq(t, 1, n)
  BY <1>3 DEF a, b
<1>5. n = Len(s) => IsPrefix(s, t)
  BY <1>4 DEF IsPrefix
<1>6. ASSUME n = Len(s) - 1
      PROVE  IsPrefix(Front(s), t)
  <2>1. Front(s) = a
    BY <1>6 DEF Front, a
  <2>2. SubSeq(a, 1, n) = a
    BY <1>1, SubSeqFull
  <2> QED
    BY <1>1, <1>3, <2>1, <2>2 DEF IsPrefix, b
<1> QED
  BY <1>5, <1>6

\* A stream's frames, in order.
LEMMA EventsAre ==
    ASSUME TypeOK, NEW r \in Requests, method[r] # NoMethod
    PROVE  LET head == IF Is(r, "rpc") THEN <<Accepted>> ELSE <<>>
               events == IF Stream(r) THEN head \o [n \in 1..emitted[r] |-> n] ELSE <<>>
           IN  /\ events \in Seq(Frames)
               /\ Len(events) = Total(r)
               /\ Upto(events, First(r), Total(r))
<1> DEFINE head == IF Is(r, "rpc") THEN <<Accepted>> ELSE <<>>
           tail == [n \in 1..emitted[r] |-> n]
<1>0. emitted[r] \in 0 .. MaxEvents /\ MaxEvents \in Nat
  BY HttpAssumption DEF TypeOK, ControlTypes
<1>1. CASE ~Stream(r)
  BY <1>1, FramesFit, EmptySeq DEF Total, Upto, Stream
<1>2. CASE Stream(r)
  <2>1. Total(r) = (emitted[r] + 1) - First(r)
    BY <1>2 DEF Total, Stream
  <2>2. tail \in Seq(Frames) /\ Len(tail) = emitted[r] /\ \A i \in 1 .. emitted[r] : tail[i] = i
    BY <1>0 DEF Frames
  <2>3. head \in Seq(Frames) /\ Len(head) = 1 - First(r) /\ First(r) \in {0, 1}
        /\ \A i \in 1 .. 1 - First(r) : head[i] = 0
    <3>1. CASE Is(r, "rpc")
      BY <3>1, FramesFit DEF First, Accepted
    <3>2. CASE ~Is(r, "rpc")
      BY <3>2, FramesFit, EmptySeq DEF First
    <3> QED
      BY <3>1, <3>2
  <2> DEFINE events == head \o tail
  <2> HIDE DEF head, tail
  <2>4. /\ events \in Seq(Frames) /\ Len(events) = Len(head) + Len(tail)
        /\ \A i \in 1 .. Len(head) + Len(tail) :
              events[i] = IF i <= Len(head) THEN head[i] ELSE tail[i - Len(head)]
    BY <2>2, <2>3, ConcatProperties
  <2> HIDE DEF events
  <2>5. Len(events) = Total(r)
    BY <1>0, <2>1, <2>2, <2>3, <2>4
  <2>6. Upto(events, First(r), Total(r))
    <3> SUFFICES ASSUME NEW i \in 1 .. Total(r)
                 PROVE  events[i] + 1 = First(r) + i
      BY DEF Upto
    <3>1. i \in 1 .. Len(head) + Len(tail)
      BY <1>0, <2>1, <2>2, <2>3
    <3>2. CASE i <= Len(head)
      <4>1. i \in 1 .. 1 - First(r) /\ events[i] = head[i]
        BY <2>3, <2>4, <3>1, <3>2
      <4>2. head[i] = 0 /\ First(r) = 0 /\ i = 1
        BY <2>3, <4>1
      <4> QED
        BY <4>1, <4>2
    <3>3. CASE ~(i <= Len(head))
      <4>1. i - Len(head) \in 1 .. emitted[r] /\ events[i] = tail[i - Len(head)]
        BY <1>0, <2>1, <2>2, <2>3, <2>4, <3>1, <3>3
      <4>2. tail[i - Len(head)] = i - Len(head)
        BY <2>2, <4>1
      <4> QED
        BY <2>3, <4>1, <4>2
    <3> QED
      BY <3>2, <3>3
  <2> QED
    BY <1>2, <2>4, <2>5, <2>6 DEF events, head, tail
<1> QED
  BY <1>1, <1>2

LEMMA OrderFollows ==
    ASSUME IndInv
    PROVE  WireInOrder
<1> SUFFICES ASSUME NEW r \in Requests, wire[r] # <<>>
             PROVE  LET head == IF Is(r, "rpc") THEN <<Accepted>> ELSE <<>>
                        events == IF Stream(r) THEN head \o [n \in 1..emitted[r] |-> n] ELSE <<>>
                    IN  \/ IsPrefix(wire[r], Append(events, Final))
                        \/ Last(wire[r]) = Failure /\ IsPrefix(Front(wire[r]), events)
  BY DEF WireInOrder
<1> DEFINE head == IF Is(r, "rpc") THEN <<Accepted>> ELSE <<>>
           events == IF Stream(r) THEN head \o [n \in 1..emitted[r] |-> n] ELSE <<>>
           all == Append(events, Final)
           w == wire[r]
<1>0. TypeOK /\ ReqInv(r)
  BY DEF IndInv
<1>1. method[r] # NoMethod
  BY <1>0, HttpAssumption DEF ReqInv, Written, Dispatched, Waiting
<1>2. events \in Seq(Frames) /\ Len(events) = Total(r) /\ Upto(events, First(r), Total(r))
  BY <1>0, <1>1, EventsAre
<1>3. w \in Seq(Frames) /\ Len(w) \in Nat \ {0} /\ batch[r] \in Seq(Frames)
  BY <1>0, EmptySeq, LenProperties DEF TypeOK, FrameTypes
<1>4. Proper(r, w)
  <2>1. SubSeq(batch[r], 1, 0) = <<>> /\ 0 \in 0 .. Len(batch[r])
    BY <1>3, SubSeqEmpty, LenProperties
  <2>2. Proper(r, w \o SubSeq(batch[r], 1, 0))
    BY <1>0, <1>3, <2>1, ProperPrefix DEF ReqInv, Written
  <2> QED
    BY <1>3, <2>1, <2>2, ConcatEmpty
<1> HIDE DEF events, w
<1>5. /\ all \in Seq(Frames) /\ Len(all) = Total(r) + 1 /\ all[Total(r) + 1] = Final
      /\ \A i \in 1 .. Total(r) : all[i] = events[i]
  BY <1>2, FramesFit, AppendProperties
<1> HIDE DEF all
<1>6. Total(r) \in Nat /\ First(r) \in {0, 1}
  BY <1>0, TotalType
<1>7. ASSUME NEW n \in Nat, n <= Len(w), n <= Total(r), Upto(w, First(r), n)
      PROVE  \A i \in 1 .. n : w[i] = events[i]
  <2> TAKE i \in 1 .. n
  <2>1. i \in 1 .. Total(r)
    BY <1>6, <1>7
  <2>2. w[i] + 1 = First(r) + i /\ events[i] + 1 = First(r) + i
    BY <1>2, <1>7, <2>1 DEF Upto
  <2>3. w[i] \in Frames /\ events[i] \in Frames
    BY <1>2, <1>3, <1>7, <2>1, ElementOfSeq
  <2> QED
    BY <2>2, <2>3, HttpAssumption DEF Frames
<1>8. CASE Len(w) <= Total(r) /\ Upto(w, First(r), Len(w))
  <2>1. \A i \in 1 .. Len(w) : w[i] = all[i]
    BY <1>3, <1>5, <1>6, <1>7, <1>8
  <2>3. Len(w) <= Len(all) /\ Len(w) <= Len(w) /\ Len(w) \in Nat
    BY <1>3, <1>5, <1>6, <1>8
  <2>2. IsPrefix(w, all)
    BY <1>3, <1>5, <2>1, <2>3, PrefixByElements
  <2> QED
    BY <2>2 DEF w, all, events
<1>9. CASE Upto(w, First(r), Len(w) - 1) /\ w[Len(w)] = Final /\ Len(w) = Total(r) + 1
  <2>1. \A i \in 1 .. Total(r) : w[i] = events[i]
    BY <1>3, <1>6, <1>7, <1>9
  <2>2. \A i \in 1 .. Len(w) : w[i] = all[i]
    BY <1>3, <1>5, <1>6, <1>9, <2>1
  <2>3. IsPrefix(w, all)
    BY <1>3, <1>5, <1>9, <2>2, PrefixByElements
  <2> QED
    BY <2>3 DEF w, all, events
<1>10. CASE Upto(w, First(r), Len(w) - 1) /\ w[Len(w)] = Failure /\ Len(w) <= Total(r) + 1
  <2>1. Len(w) - 1 \in Nat /\ Len(w) - 1 <= Len(w) /\ Len(w) - 1 <= Total(r)
    BY <1>3, <1>6, <1>10
  <2>2. \A i \in 1 .. Len(w) - 1 : w[i] = events[i]
    BY <1>7, <1>10, <2>1
  <2>3. IsPrefix(Front(w), events)
    BY <1>2, <1>3, <2>1, <2>2, PrefixByElements
  <2>4. Last(w) = Failure
    BY <1>10 DEF Last
  <2> QED
    BY <2>3, <2>4 DEF w, events
<1> QED
  BY <1>4, <1>8, <1>9, <1>10 DEF Proper

\* What a client has read of an answer is the beginning of it, in the order of the callbacks,
\* or a part of that with the error behind.
THEOREM WireIsInOrder == Spec => []WireInOrder
  BY OrderFollows, HttpInvariant, PTL

\* A result that is on its way comes last, and from an operation that has ended.
LEMMA DeliveredIsLast ==
    ASSUME IndInv, NEW r \in Requests, Final \in Range(wire[r] \o batch[r])
    PROVE  /\ result[r] = "ok"
           /\ at[r] \notin Waiting \cup Starting \cup Streaming
<1> DEFINE w == wire[r] \o batch[r]
<1>0. /\ w \in Seq(Frames) /\ Len(w) \in Nat /\ Proper(r, w) /\ TypeOK
      /\ Total(r) \in Nat /\ First(r) \in {0, 1} /\ Len(w) = Len(wire[r]) + Len(batch[r])
  <2>1. wire[r] \in Seq(Frames) /\ batch[r] \in Seq(Frames)
    BY DEF IndInv, TypeOK, FrameTypes
  <2>2. Proper(r, w) /\ TypeOK
    BY DEF IndInv, ReqInv, Written
  <2> QED
    BY <2>1, <2>2, TotalType, ConcatProperties, LenProperties
<1>1. PICK i \in 1 .. Len(w) : w[i] = Final
  BY <1>0, LenProperties DEF Range
<1>10. at[r] \in Streaming => Len(w) <= Total(r) /\ Upto(w, First(r), Len(w))
  BY <1>0 DEF IndInv, ReqInv, Written
<1>11. at[r] \in Waiting \cup Starting => w = <<>>
  BY ConcatEmpty, FramesFit DEF IndInv, ReqInv, Written, Waiting, Starting
<1> HIDE DEF w
<1>12. Len(w) \in Nat /\ Total(r) \in Nat /\ First(r) \in {0, 1} /\ i \in 1 .. Len(w)
  BY <1>0, <1>1
<1>2. First(r) + Total(r) <= MaxEvents + 1
  BY HttpAssumption, <1>0 DEF First, Total, TypeOK, ControlTypes
<1>3. ASSUME NEW n \in Nat, n <= Total(r), Upto(w, First(r), n)
      PROVE  n < i
  <2> SUFFICES ASSUME i <= n
               PROVE  FALSE
    BY <1>1, <1>0
  <2>1. w[i] + 1 = First(r) + i
    BY <1>3, <1>12 DEF Upto
  <2> QED
    BY <1>0, <1>1, <1>2, <1>3, <2>1, HttpAssumption DEF Final
<1>4. ~(Len(w) <= Total(r) /\ Upto(w, First(r), Len(w)))
  <2> SUFFICES ASSUME Len(w) <= Total(r), Upto(w, First(r), Len(w))
               PROVE  FALSE
    OBVIOUS
  <2>1. Len(w) < i
    BY <1>0, <1>3
  <2> QED
    BY <1>12, <2>1
<1>5. Len(w) > 0 /\ Upto(w, First(r), Len(w) - 1) /\ Len(w) <= Total(r) + 1
  <2>1. Proper(r, w) /\ Len(w) \in Nat /\ Total(r) \in Nat
    BY <1>0
  <2> QED
    BY <1>4, <2>1 DEF Proper
<1>6. i = Len(w)
  <2>1. Len(w) - 1 \in Nat /\ Len(w) - 1 <= Total(r)
    BY <1>12, <1>5
  <2>2. Len(w) - 1 < i
    BY <1>3, <1>5, <2>1
  <2> QED
    BY <1>12, <2>2
<1>7. result[r] = "ok"
  BY <1>0, <1>1, <1>4, <1>6, FramesFit DEF Proper
<1>8. at[r] \notin Streaming
  BY <1>4, <1>10
<1>9. at[r] \notin Waiting \cup Starting
  <2>1. w # <<>>
    BY <1>5, EmptySeq
  <2> QED
    BY <1>11, <2>1
<1> QED
  BY <1>7, <1>8, <1>9

\* The operation of an RPC is not cancelled once its result is on its way, but by close().
THEOREM DeliveredLeftAlone == Spec => DeliveredIsLeftAlone
<1> DEFINE Alone == \A r \in cancelled' \ cancelled :
                        Is(r, "rpc") /\ Final \in Range(wire[r] \o batch[r]) => server = "stopping"
<1>1. ASSUME IndInv, [Next]_vars
      PROVE  Alone
  <2> SUFFICES ASSUME NEW r \in cancelled' \ cancelled, Is(r, "rpc"),
                      Final \in Range(wire[r] \o batch[r])
               PROVE  server = "stopping"
    OBVIOUS
  <2>0. r \in Requests
    BY <1>1, ControlTypeStep DEF IndInv, TypeOK, ControlTypes
  <2>1. result[r] = "ok" /\ at[r] \notin Streaming
    BY <1>1, <2>0, DeliveredIsLast
  <2>2. ASSUME NEW q \in Requests, Acts(q)
        PROVE  FALSE
    <3>1. CASE Provide(q) \/ Pause(q) \/ ProvideRpc(q) \/ DrainRpc(q) \/ FailRpc(q)
      <4>1. at[q] \in Streaming /\ cancelled' \subseteq cancelled \cup {q}
        BY <3>1 DEF Provide, Pause, ProvideRpc, DrainRpc, FailRpc, Broken, Streaming
      <4> QED
        BY <2>1, <4>1
    <3>2. ASSUME NEW n, Write(q, n) PROVE FALSE
      <4>1. cancelled' \subseteq cancelled \cup {q} /\ (Is(q, "rpc") => cancelled' = cancelled)
        BY <3>2 DEF Write, Is
      <4> QED
        BY <4>1
    <3>3. CASE Guard(q)
      <4>1. cancelled' = cancelled \cup {q} /\ Is(q, "complete")
        BY <3>3 DEF Guard
      <4> QED
        BY <4>1 DEF Is
    <3>4. CASE GuardRpc(q)
      <4>1. cancelled' \subseteq cancelled \cup {q} /\ (Settled(q) => cancelled' = cancelled)
        BY <3>4 DEF GuardRpc
      <4> QED
        BY <2>1, <4>1 DEF Settled
    <3>5. cancelled' = cancelled \/ Provide(q) \/ Pause(q) \/ ProvideRpc(q) \/ DrainRpc(q)
          \/ FailRpc(q) \/ (\E n \in 0 .. MaxEvents + 2 : Write(q, n)) \/ Guard(q) \/ GuardRpc(q)
      BY <2>2 DEF Acts, Arrive, Route, Admit, Rejected, Dispatch, Register, Await, Wait, AwaitFuture,
                  Accept, Respond, Event, Disconnect, Expire, Finish
    <3> QED
      BY <3>1, <3>2, <3>3, <3>4, <3>5
  <2>3. CASE Listen \/ Close \/ CloseCancel \/ Join \/ UNCHANGED vars
    BY <2>3 DEF Listen, Close, CloseCancel, Join, Owner, vars
  <2> QED
    BY <1>1, <2>2, <2>3, NextCases
<1>2. IndInv /\ [Next]_vars => [Alone]_vars
  BY <1>1
<1> QED
  BY <1>2, HttpInvariant, PTL DEF Spec, DeliveredIsLeftAlone

=============================================================================
