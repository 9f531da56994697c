----------------------------- MODULE HttpServer -----------------------------
(***************************************************************************)
(* HttpApiServer (src/service/HttpApiServer.cpp): a pool of threads that   *)
(* each take one request through its handler and write its response, the   *)
(* threads of the service and of the RPC handler that call back with       *)
(* events, and the thread that opens and closes the server.                *)
(*                                                                         *)
(* A step of a handler ends where it lets go of a mutex, waits, or calls   *)
(* into the service.  Frames are of one unit each and say whose place in   *)
(* the answer they have.  A request that is not well-formed is turned away *)
(* before any of this and is left out.                                     *)
(***************************************************************************)
EXTENDS Naturals, Sequences, FiniteSets, SequencesExt

CONSTANTS
    Requests,     \* connections; each carries one request (keep_alive_max_count is 1)
    Methods,      \* what they may ask for: [kind, stream, control]
    NoMethod,     \* a connection that has not come yet
    Workers,      \* HttpOptions::workerThreads, the responses of ordinary work
    Controls,     \* HttpOptions::maxControlRequests
    Spare,        \* the threads above those two: 4
    OutputLimit,  \* HttpOptions::maxBufferedOutputBytes
    MaxEvents     \* bound on the events of one request

\* The constructor throws otherwise; only an RPC can be a control method.
ASSUME HttpAssumption ==
    /\ Workers \in Nat \ {0} /\ Controls \in Nat \ {0} /\ Spare \in Nat \ {0}
    /\ OutputLimit \in Nat \ {0} /\ MaxEvents \in Nat
    /\ Methods \subseteq [kind : {"complete", "rpc", "models"}, stream : BOOLEAN, control : BOOLEAN]
    /\ \A m \in Methods : (m.control => m.kind = "rpc") /\ (m.stream => m.kind # "models")
    /\ NoMethod \notin Methods

VARIABLES
    server,      \* "open", or how far close() has come; stopping is server # "open"
    method,      \* method[r]: what r asks for
    at,          \* at[r]: where the thread that has r is
    work,        \* workResponses
    control,     \* controlResponses
    charged,     \* requests whose response holds an admission lease
    state,       \* state[r]: the StreamState or RpcStreamState of r
    batch,       \* batch[r]: frames a provider has taken and is writing
    after,       \* after[r]: where it goes when they are written
    ready,       \* ready[r]: what an RPC provider read of its future
    active,      \* requests whose token is in `active` or `activeRpc`
    emitted,     \* emitted[r]: events r's callback was called with
    result,      \* result[r]: "none" before r is dispatched, "running", then how it ended
    cancelled,   \* requests whose token is cancelled
    broken,      \* requests whose callback threw
    gone,        \* requests whose client has disconnected
    late,        \* requests whose deadline has passed
    wire         \* wire[r]: what was written of r's answer

serviceVars == <<emitted, result, broken>>
leaseVars == <<work, control, charged>>
clientVars == <<gone, late>>
vars == <<server, method, at, leaseVars, state, batch, after, ready, active,
          serviceVars, cancelled, clientVars, wire>>

\* Places in an answer: the accepted frame of an RPC stream, event n as n, its result, or
\* the error that ends it instead.
Accepted == 0
Final == MaxEvents + 1
Failure == MaxEvents + 2

NoState == [frames |-> <<>>, output |-> 0, started |-> FALSE, finished |-> FALSE,
            overflow |-> FALSE, abandoned |-> FALSE]

Init ==
    /\ server = "closed"
    /\ method = [r \in Requests |-> NoMethod]
    /\ at = [r \in Requests |-> "none"]
    /\ work = 0 /\ control = 0 /\ charged = {}
    /\ state = [r \in Requests |-> NoState]
    /\ batch = [r \in Requests |-> <<>>]
    /\ after = [r \in Requests |-> "none"]
    /\ ready = [r \in Requests |-> FALSE]
    /\ active = {}
    /\ emitted = [r \in Requests |-> 0]
    /\ result = [r \in Requests |-> "none"]
    /\ cancelled = {} /\ broken = {}
    /\ gone = {} /\ late = {}
    /\ wire = [r \in Requests |-> <<>>]

Is(r, kind) == method[r] # NoMethod /\ method[r].kind = kind
Stream(r) == method[r].stream
Settled(r) == result[r] \in {"ok", "error"}
Stopping == server # "open"
Go(r, place) == at' = [at EXCEPT ![r] = place]

\* The handler ends with this body; what it holds is let go on the way out.
Reply(r, place, body) ==
    /\ Go(r, place)
    /\ batch' = [batch EXCEPT ![r] = <<body>>]

\* Mutant: check() without its second line.
InterruptedUnlessGone(r) == Stopping \/ r \in late

\* check() throws.
Interrupted(r) == Stopping \/ r \in gone \/ r \in late

-----------------------------------------------------------------------------
(* A connection and its admission.                                         *)

Arrive(r, m) ==
    /\ server = "open"
    /\ at[r] = "none"
    /\ Go(r, "queued")
    /\ method' = [method EXCEPT ![r] = m]
    /\ UNCHANGED <<server, leaseVars, state, batch, after, ready, active, serviceVars,
                   cancelled, clientVars, wire>>

Busy == {r \in Requests : at[r] \notin {"none", "queued", "gone"}}

Threads == Workers + Controls + Spare

\* A thread of the pool takes the connection; the pre-routing handler looks at stopping.
Route(r) ==
    /\ at[r] = "queued"
    /\ Cardinality(Busy) < Threads
    /\ IF Stopping THEN Reply(r, "respond", Failure)
       ELSE Go(r, "admit") /\ UNCHANGED batch
    /\ UNCHANGED <<server, method, leaseVars, state, after, ready, active, serviceVars,
                   cancelled, clientVars, wire>>

Full(r) == IF method[r].control THEN control >= Controls ELSE work >= Workers

\* admit(): the compare-and-exchange either fails for good or charges the response.
Admit(r) ==
    /\ at[r] = "admit"
    /\ \/ /\ Full(r)
          /\ Reply(r, "respond", Failure)
          /\ UNCHANGED leaseVars
       \/ /\ ~Full(r)
          /\ Go(r, "start")
          /\ charged' = charged \cup {r}
          /\ work' = IF method[r].control THEN work ELSE work + 1
          /\ control' = IF method[r].control THEN control + 1 ELSE control
          /\ UNCHANGED batch
    /\ UNCHANGED <<server, method, state, after, ready, active, serviceVars, cancelled,
                   clientVars, wire>>

-----------------------------------------------------------------------------
(* Callbacks, on a thread of the service or of the RPC handler.            *)

\* onEvent of complete() with this frame and this much text; only a stream buffers it.
Overflows(st, r) ==
    \/ st.output > OutputLimit
    \/ Stream(r) /\ Len(st.frames) + 1 > OutputLimit
Noted(st, frame, text) ==
    [st EXCEPT !.started = @ \/ frame = 1,
               !.output = @ + text,
               !.finished = @ \/ frame > MaxEvents]
OnEvent(r, frame, text) ==
    LET st == Noted(state[r], frame, text)
    IN IF state[r].abandoned THEN state[r]
       ELSE IF Overflows(st, r) THEN [st EXCEPT !.overflow = TRUE]
       ELSE IF Stream(r) THEN [st EXCEPT !.frames = Append(@, frame)] ELSE st

\* The callback of rpc().
OnRpcEvent(r, frame) ==
    LET st == state[r]
    IN IF st.abandoned THEN st
       ELSE IF st.overflow \/ Len(st.frames) + 1 > OutputLimit
       THEN [st EXCEPT !.overflow = TRUE]
       ELSE [st EXCEPT !.frames = Append(@, frame)]

\* An event of a running request.  The callback throws what it cannot take, and an RPC's
\* also when nobody wants it any more.
Event(r) ==
    /\ result[r] = "running"
    /\ r \notin broken
    /\ emitted[r] < MaxEvents
    /\ Is(r, "complete") \/ (Is(r, "rpc") /\ Stream(r))
    /\ emitted' = [emitted EXCEPT ![r] = @ + 1]
    /\ LET st == IF Is(r, "rpc") THEN OnRpcEvent(r, emitted[r] + 1)
                                 ELSE OnEvent(r, emitted[r] + 1, IF emitted[r] = 0 THEN 0 ELSE 1)
       IN /\ state' = [state EXCEPT ![r] = st]
          /\ broken' = IF st.overflow \/ (Is(r, "rpc") /\ st.abandoned)
                       THEN broken \cup {r} ELSE broken
    /\ UNCHANGED <<server, method, at, leaseVars, batch, after, ready, active, result,
                   cancelled, clientVars, wire>>

\* The request ends.  A completion calls back with its result, whose tool calls and
\* reasoning count as text; an RPC's future is ready.  An error is an exception, or an RPC
\* result larger than the limit.
Finish(r, outcome, text) ==
    /\ result[r] = "running"
    /\ outcome = "ok" /\ Is(r, "complete") => r \notin broken /\ emitted[r] > 0
    /\ result' = [result EXCEPT ![r] = outcome]
    /\ state' = IF Is(r, "complete")
                THEN [state EXCEPT ![r] = OnEvent(r, IF outcome = "ok" THEN Final ELSE Failure, text)]
                ELSE state
    /\ UNCHANGED <<server, method, at, leaseVars, batch, after, ready, active, emitted, broken,
                   cancelled, clientVars, wire>>

-----------------------------------------------------------------------------
(* complete() and rpc(), up to the response.                               *)

\* check() of rpc(), or the service or handler throws before it takes the request.
Rejected(r) ==
    /\ at[r] = "start"
    /\ Reply(r, "respond", Failure)
    /\ UNCHANGED <<server, method, leaseVars, state, after, ready, active, serviceVars,
                   cancelled, clientVars, wire>>

\* The call into the service.  It may be refused at once, with a callback on this thread;
\* models() answers at once.
Dispatch(r, outcome) ==
    /\ at[r] = "start"
    /\ Is(r, "rpc") => ~Interrupted(r)
    /\ outcome \in (IF Is(r, "models") THEN {"ok"} ELSE {"running", "error"})
    /\ result' = [result EXCEPT ![r] = outcome]
    /\ state' = IF Is(r, "complete") /\ outcome = "error"
                THEN [state EXCEPT ![r] = OnEvent(r, Failure, 0)] ELSE state
    /\ Go(r, IF Is(r, "models") THEN "await" ELSE "register")
    /\ UNCHANGED <<server, method, leaseVars, batch, after, ready, active, emitted, broken,
                   cancelled, clientVars, wire>>

\* The token enters the list that close() cancels; the guard exists from here on.
Register(r) ==
    /\ at[r] = "register"
    /\ active' = active \cup {r}
    /\ Go(r, IF Is(r, "rpc") /\ Stream(r) THEN "accept" ELSE "await")
    /\ UNCHANGED <<server, method, leaseVars, state, batch, after, ready, serviceVars,
                   cancelled, clientVars, wire>>

\* complete() waits under the state's mutex until there is something to say.
Await(r) ==
    /\ at[r] = "await"
    /\ Is(r, "complete")
    /\ LET st == state[r]
       IN \/ /\ ~(Stream(r) /\ st.started) /\ ~st.finished /\ ~st.overflow
             /\ Go(r, "wait")
             /\ UNCHANGED batch
          \/ st.overflow /\ Reply(r, "guard", Failure)
          \/ /\ ~st.overflow
             /\ st.finished /\ ~(Stream(r) /\ st.started)
             /\ Reply(r, "guard", IF result[r] = "ok" THEN Final ELSE Failure)
          \/ /\ ~st.overflow
             /\ Stream(r) /\ st.started
             /\ Go(r, "stream")
             /\ UNCHANGED batch
    /\ UNCHANGED <<server, method, leaseVars, state, after, ready, active, serviceVars,
                   cancelled, clientVars, wire>>

\* wait_for() returned, notified or not: check().
Wait(r) ==
    /\ at[r] = "wait"
    /\ IF Interrupted(r) THEN Reply(r, "guard", Failure)
       ELSE Go(r, "await") /\ UNCHANGED batch
    /\ UNCHANGED <<server, method, leaseVars, state, after, ready, active, serviceVars,
                   cancelled, clientVars, wire>>

\* await() of an RPC without stream, or of models(): check() also when the future is ready.
AwaitFuture(r) ==
    /\ at[r] = "await"
    /\ ~Is(r, "complete")
    /\ Interrupted(r) \/ Settled(r)
    /\ Reply(r, IF Is(r, "rpc") THEN "guard" ELSE "respond",
             IF ~Interrupted(r) /\ result[r] = "ok" THEN Final ELSE Failure)
    /\ UNCHANGED <<server, method, leaseVars, state, after, ready, active, serviceVars,
                   cancelled, clientVars, wire>>

\* Mutant: the accepted frame goes behind what has been called back meanwhile.
AcceptBehind(r) ==
    /\ at[r] = "accept"
    /\ state' = [state EXCEPT ![r].frames = Append(@, Accepted),
                              ![r].overflow = @ \/ Len(state[r].frames) + 1 > OutputLimit]
    /\ Go(r, "stream")
    /\ UNCHANGED <<server, method, leaseVars, batch, after, ready, active, serviceVars,
                   cancelled, clientVars, wire>>

\* An RPC stream begins with its handle, in front of what has been called back meanwhile.
Accept(r) ==
    /\ at[r] = "accept"
    /\ state' = [state EXCEPT ![r].frames = <<Accepted>> \o @,
                              ![r].overflow = @ \/ Len(state[r].frames) + 1 > OutputLimit]
    /\ Go(r, "stream")
    /\ UNCHANGED <<server, method, leaseVars, batch, after, ready, active, serviceVars,
                   cancelled, clientVars, wire>>

-----------------------------------------------------------------------------
(* The content providers of the two streams.                               *)

\* The provider takes these frames out of the buffer and writes them.
Take(r, frames, then) ==
    /\ Go(r, "write")
    /\ batch' = [batch EXCEPT ![r] = frames]
    /\ after' = [after EXCEPT ![r] = then]
    /\ state' = [state EXCEPT ![r].frames = <<>>]

\* The provider's catch block: silent if nobody is there to read, else the stream ends in
\* the error.
Broken(r, silent) ==
    /\ cancelled' = cancelled \cup {r}
    /\ IF silent THEN Go(r, "guard") /\ UNCHANGED <<batch, after>>
       ELSE /\ Go(r, "write")
            /\ batch' = [batch EXCEPT ![r] = <<Failure>>]
            /\ after' = [after EXCEPT ![r] = "guard"]
    /\ UNCHANGED state

\* One call of the provider of complete().
Provide(r) ==
    /\ at[r] = "stream"
    /\ Is(r, "complete")
    /\ LET st == state[r]
           idle == st.frames = <<>> /\ ~st.finished /\ ~st.overflow
       IN \/ idle /\ Go(r, "pause") /\ UNCHANGED <<batch, after, state, cancelled>>
          \/ ~idle /\ Interrupted(r) /\ Broken(r, Stopping \/ r \in gone)
          \/ ~idle /\ ~Interrupted(r) /\ st.overflow /\ Broken(r, FALSE)
          \/ /\ ~idle /\ ~Interrupted(r) /\ ~st.overflow
             /\ Take(r, st.frames, IF st.finished THEN "guard" ELSE "stream")
             /\ UNCHANGED cancelled
    /\ UNCHANGED <<server, method, leaseVars, ready, active, serviceVars, clientVars, wire>>

\* Its wait_for() returned: check().
Pause(r) ==
    /\ at[r] = "pause"
    /\ IF Interrupted(r) THEN Broken(r, Stopping \/ r \in gone)
       ELSE Go(r, "stream") /\ UNCHANGED <<batch, after, state, cancelled>>
    /\ UNCHANGED <<server, method, leaseVars, ready, active, serviceVars, clientVars, wire>>

\* The provider of rpc() looks at the future first, ...
ProvideRpc(r) ==
    /\ at[r] = "stream"
    /\ Is(r, "rpc")
    /\ IF Interrupted(r) THEN Broken(r, Stopping \/ r \in gone) /\ UNCHANGED ready
       ELSE /\ Go(r, "drain")
            /\ ready' = [ready EXCEPT ![r] = Settled(r)]
            /\ UNCHANGED <<batch, after, state, cancelled>>
    /\ UNCHANGED <<server, method, leaseVars, active, serviceVars, clientVars, wire>>

\* What a drained RPC stream writes, and where it goes from there.
Drained(r, done) ==
    IF ~done THEN Take(r, state[r].frames, "stream")
    ELSE IF result[r] = "ok" THEN Take(r, Append(state[r].frames, Final), "guard")
    ELSE Take(r, state[r].frames, "fail")

\* ... and empties the buffer after that: whatever was called back before the future was
\* ready goes out before the result.
DrainRpc(r) ==
    /\ at[r] = "drain"
    /\ \/ state[r].overflow /\ Broken(r, Stopping \/ r \in gone)
       \/ ~state[r].overflow /\ Drained(r, ready[r]) /\ UNCHANGED cancelled
    /\ UNCHANGED <<server, method, leaseVars, ready, active, serviceVars, clientVars, wire>>

\* The future holds an error: failed(), after the frames are out.
FailRpc(r) ==
    /\ at[r] = "fail"
    /\ Broken(r, Stopping \/ r \in gone)
    /\ UNCHANGED <<server, method, leaseVars, ready, active, serviceVars, clientVars, wire>>

\* sink.write() of n frames; a client that reads too slowly, or not at all, fails the next.
Write(r, n) ==
    /\ at[r] = "write"
    /\ n <= Len(batch[r])
    /\ wire' = [wire EXCEPT ![r] = @ \o SubSeq(batch[r], 1, n)]
    /\ batch' = [batch EXCEPT ![r] = <<>>]
    /\ Go(r, IF n = Len(batch[r]) THEN after[r] ELSE "guard")
    /\ cancelled' = IF n < Len(batch[r]) /\ Is(r, "complete") THEN cancelled \cup {r} ELSE cancelled
    /\ UNCHANGED <<server, method, leaseVars, state, after, ready, active, serviceVars, clientVars>>

-----------------------------------------------------------------------------
(* The end of a response.                                                  *)

\* The guard of complete(): the token leaves the list by being cancelled.
Guard(r) ==
    /\ at[r] = "guard"
    /\ Is(r, "complete")
    /\ cancelled' = cancelled \cup {r}
    /\ state' = [state EXCEPT ![r].abandoned = TRUE]
    /\ active' = active \ {q \in active : Is(q, "complete") /\ q \in cancelled'}
    /\ Go(r, "respond")
    /\ UNCHANGED <<server, method, leaseVars, batch, after, ready, serviceVars, clientVars, wire>>

\* Mutants: whatever the operation did, it is cancelled; or it is left to itself.
GuardRpcAlways(r) ==
    /\ at[r] = "guard"
    /\ Is(r, "rpc")
    /\ cancelled' = cancelled \cup {r}
    /\ state' = [state EXCEPT ![r].abandoned = TRUE, ![r].frames = <<>>]
    /\ active' = active \ {r}
    /\ Go(r, "respond")
    /\ UNCHANGED <<server, method, leaseVars, batch, after, ready, serviceVars, clientVars, wire>>
GuardRpcNever(r) ==
    /\ at[r] = "guard"
    /\ Is(r, "rpc")
    /\ state' = [state EXCEPT ![r].abandoned = TRUE, ![r].frames = <<>>]
    /\ active' = active \ {r}
    /\ Go(r, "respond")
    /\ UNCHANGED <<server, method, leaseVars, batch, after, ready, serviceVars, cancelled,
                   clientVars, wire>>

\* The guard of rpc(): an operation that has completed may have handed work over, and is
\* not cancelled.
GuardRpc(r) ==
    /\ at[r] = "guard"
    /\ Is(r, "rpc")
    /\ cancelled' = IF Settled(r) THEN cancelled ELSE cancelled \cup {r}
    /\ state' = [state EXCEPT ![r].abandoned = TRUE, ![r].frames = <<>>]
    /\ active' = active \ {r}
    /\ Go(r, "respond")
    /\ UNCHANGED <<server, method, leaseVars, batch, after, ready, serviceVars, clientVars, wire>>

\* Mutant: the lease of every response is of the same lane.
ReleaseWork(r) ==
    /\ charged' = charged \ {r}
    /\ work' = IF r \in charged /\ work > 0 THEN work - 1 ELSE work
    /\ UNCHANGED control

\* ~Lease.
Release(r) ==
    /\ charged' = charged \ {r}
    /\ work' = IF r \in charged /\ ~method[r].control THEN work - 1 ELSE work
    /\ control' = IF r \in charged /\ method[r].control THEN control - 1 ELSE control

\* A body that is not a stream is written, or not; the Response is destroyed, and with it
\* the locals of the request.
Respond(r, written) ==
    /\ at[r] = "respond"
    /\ wire' = IF written THEN [wire EXCEPT ![r] = @ \o batch[r]] ELSE wire
    /\ batch' = [batch EXCEPT ![r] = <<>>]
    /\ after' = [after EXCEPT ![r] = "none"]
    /\ ready' = [ready EXCEPT ![r] = FALSE]
    /\ gone' = gone \ {r} /\ late' = late \ {r}
    /\ Release(r)
    /\ Go(r, "gone")
    /\ UNCHANGED <<server, method, state, active, serviceVars, cancelled>>

-----------------------------------------------------------------------------
(* Clients, clocks, and the thread that owns the server.                   *)

Disconnect(r) ==
    /\ at[r] \notin {"none", "gone"}
    /\ r \notin gone
    /\ gone' = gone \cup {r}
    /\ UNCHANGED <<server, method, at, leaseVars, state, batch, after, ready, active,
                   serviceVars, cancelled, late, wire>>

\* The deadline, counted from the admission, passes.
Expire(r) ==
    /\ at[r] \notin {"none", "queued", "admit", "gone"}
    /\ r \notin late
    /\ late' = late \cup {r}
    /\ UNCHANGED <<server, method, at, leaseVars, state, batch, after, ready, active,
                   serviceVars, cancelled, gone, wire>>

Owner(from, to) ==
    /\ server = from
    /\ server' = to
    /\ UNCHANGED <<method, at, leaseVars, state, batch, after, ready, active, serviceVars,
                   clientVars, wire>>

Listen == Owner("closed", "open") /\ UNCHANGED cancelled

\* close(): stopping is set and the listener stopped, ...
Close == Owner("open", "stopping") /\ UNCHANGED cancelled

\* ... what is in the lists is cancelled, ...
CloseCancel == Owner("stopping", "joining") /\ cancelled' = cancelled \cup active

\* ... and the listener's thread returns when its pool has no request left.
Join ==
    /\ \A r \in Requests : at[r] \in {"none", "gone"}
    /\ Owner("joining", "closed")
    /\ UNCHANGED cancelled

-----------------------------------------------------------------------------
Handler(r) ==
    \/ Route(r) \/ Admit(r) \/ Rejected(r)
    \/ \E outcome \in {"running", "ok", "error"} : Dispatch(r, outcome)
    \/ Register(r) \/ Await(r) \/ Wait(r) \/ AwaitFuture(r) \/ Accept(r)
    \/ Provide(r) \/ Pause(r) \/ ProvideRpc(r) \/ DrainRpc(r) \/ FailRpc(r)
    \/ \E n \in 0..(MaxEvents + 2) : Write(r, n)
    \/ Guard(r) \/ GuardRpc(r)
    \/ \E written \in BOOLEAN : Respond(r, written)

Next ==
    \/ \E r \in Requests :
           \/ \E m \in Methods : Arrive(r, m)
           \/ Handler(r) \/ Event(r) \/ Disconnect(r) \/ Expire(r)
           \/ \E outcome \in {"ok", "error"}, text \in 0..1 : Finish(r, outcome, text)
    \/ Listen \/ Close \/ CloseCancel \/ Join

Spec == Init /\ [][Next]_vars

\* Threads of the pool and the owner's thread are scheduled; waits and writes have a time
\* limit.  Nothing is assumed of the service, the clients or the deadlines.
FairSpec ==
    /\ Spec
    /\ \A r \in Requests : WF_vars(Handler(r))
    /\ WF_vars(CloseCancel) /\ WF_vars(Join)
-----------------------------------------------------------------------------
(* Properties.                                                             *)

Alive(r) == at[r] \notin {"none", "queued", "gone"}
HasToken(r) == method[r] # NoMethod /\ method[r].kind # "models"

\* Each lane counts the responses that are alive and admitted to it, and is within its
\* limit: however a response ends, its place is given back, once.  If every busy thread
\* has admitted work that never ends, a thread is left to admit or refuse the next client
\* (docs/ControlCapacity.md).  The list that close() walks holds the tokens of living
\* responses only, and after close() it is empty and every place is free.
AdmissionBalances ==
    /\ \A r \in charged : Alive(r)
    /\ work = Cardinality({r \in charged : ~method[r].control})
    /\ control = Cardinality({r \in charged : method[r].control})
    /\ work <= Workers /\ control <= Controls
    /\ Busy \subseteq charged => Cardinality(Busy) < Threads
    /\ active \subseteq {r \in Requests : Alive(r)}
    /\ server = "closed" => active = {} /\ work = 0 /\ control = 0

\* A client reads the beginning of: the handle of an RPC stream, every event in the order
\* of the callbacks, the result; or the error, in the place of whatever was still to come.
\* No result overtakes an event, nothing follows an end, and nothing is left out before
\* a result.  ("the future fences callbacks")
WireInOrder ==
    \A r \in Requests : wire[r] # <<>> =>
        LET head == IF Is(r, "rpc") THEN <<Accepted>> ELSE <<>>
            events == IF Stream(r) THEN head \o [n \in 1..emitted[r] |-> n] ELSE <<>>
        IN \/ IsPrefix(wire[r], Append(events, Final))
           \/ Last(wire[r]) = Failure /\ IsPrefix(Front(wire[r]), events)

\* When a response is gone, so is what it started: over, or told to stop, also where
\* close() came between the start and the list of tokens.
NothingIsOrphaned ==
    \A r \in Requests : at[r] = "gone" /\ HasToken(r) /\ result[r] = "running" => r \in cancelled

\* The operation of an RPC whose result is delivered is not cancelled, except by close():
\* it may have handed work over to its session.
DeliveredIsLeftAlone ==
    [][\A r \in cancelled' \ cancelled :
           Is(r, "rpc") /\ Final \in Range(wire[r] \o batch[r]) => server = "stopping"]_vars

\* A request whose deadline has passed, or whose client has gone, ends, and close()
\* returns, whatever the service does and whether or not anybody reads.
InterruptedEnds ==
    /\ \A r \in Requests : (r \in gone \cup late) ~> (at[r] = "gone")
    /\ (server = "stopping") ~> (server = "closed")
=============================================================================
