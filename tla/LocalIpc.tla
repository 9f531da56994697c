------------------------------ MODULE LocalIpc ------------------------------
(***************************************************************************)
(* LocalIpcServer (src/service/LocalIpcServer.cpp): clients on a local     *)
(* socket, an event-loop thread that reads their requests and writes the   *)
(* answers, and the service's worker thread, whose callbacks put events    *)
(* into a per-connection inbox that the loop drains every 10 ms.           *)
(*                                                                         *)
(* One step of the loop is one frame read, one drain of an inbox, or one   *)
(* look at a pending future: between any two of them the worker may run.   *)
(* Messages are of one unit each; what they say is left out, except whose  *)
(* answer they are and where in it they belong.                            *)
(***************************************************************************)
EXTENDS Integers, Sequences, FiniteSets, SequencesExt

CONSTANTS
    Clients,         \* peers that may connect
    Ids,             \* request ids that clients choose
    Methods,         \* the kinds of method they call
    MaxRequests,     \* bound on the requests of all clients
    MaxEvents,       \* bound on the events of one request
    MaxConnections,  \* IpcOptions::maxConnections
    MaxInFlight,     \* IpcOptions::maxInFlightPerConnection
    OutputLimit      \* IpcOptions::maxBufferedOutputBytes

\* LocalIpcServer::Impl's constructor throws otherwise.
ASSUME IpcAssumption ==
    /\ MaxRequests \in Nat /\ MaxEvents \in Nat
    /\ MaxConnections \in Nat \ {0}
    /\ MaxInFlight \in Nat \ {0}
    /\ OutputLimit \in Nat \ {0}

VARIABLES
    listening,   \* the server accepts connections
    conn,        \* conn[c]: the Client record of c, its socket and its inbox
    request,     \* request[r]: what request r asks for; requests are numbered
    loop,        \* what the event loop is at
    queue,       \* the requests the service's scheduler holds, the running one first
    emitted,     \* emitted[r]: events that r's callback was called with
    settled,     \* requests whose future is ready
    cancelled,   \* requests whose token is cancelled
    broken,      \* requests whose callback threw
    sent         \* sent[r]: what was written to the socket for r

serviceVars == <<queue, emitted, settled, broken>>
vars == <<listening, conn, request, loop, serviceVars, cancelled, sent>>

\* What can be written for a request: its handle, event n as n, its end.
Accepted == 0
Final == MaxEvents + 1
Requests == 1..Len(request)

\* The methods, by how they are answered: at once by the loop; by a future; by a future
\* after progress or rpc events; by a stream that ends in a done event.  A bad frame is
\* no request at all.
Kinds == {"bad", "local", "control", "pull", "chat", "cancel"}
Streams == {"pull", "chat"}

ASSUME MethodsAssumption == Methods \subseteq Kinds

NoConn == [socket |-> "none", input |-> <<>>, ids |-> {}, generations |-> {}, pending |-> <<>>,
           events |-> <<>>, closed |-> FALSE, overflow |-> FALSE, unsent |-> 0]
Resting == [at |-> "rest", client |-> NoConn.socket, todo |-> <<>>]

Init ==
    /\ listening = TRUE
    /\ conn = [c \in Clients |-> NoConn]
    /\ request = <<>>
    /\ loop = Resting
    /\ queue = <<>>
    /\ emitted = [r \in 1..MaxRequests |-> 0]
    /\ settled = {}
    /\ cancelled = {}
    /\ broken = {}
    /\ sent = [r \in 1..MaxRequests |-> <<>>]

-----------------------------------------------------------------------------
(* Effects on one connection, as functions of a state                      *)
(* [conn |-> ..., sent |-> ..., cancelled |-> ...].                        *)

\* The socket closes: the disconnected() slot cancels what the client has running and
\* closes the inbox.
Aborted(st) ==
    [st EXCEPT !.conn.socket = "closed", !.conn.closed = TRUE, !.conn.unsent = 0,
               !.cancelled = @ \cup st.conn.generations]

\* send() of a message for r; one that does not fit breaks the connection.
Send(st, r, part) ==
    IF st.conn.socket # "open" THEN st
    ELSE IF st.conn.unsent >= OutputLimit THEN Aborted(st)
    ELSE [st EXCEPT !.conn.unsent = @ + 1, !.sent[r] = Append(@, part)]

\* drain()'s turn for one event <<request, part>>: a done event frees the id and the token.
Delivered(st, event) ==
    LET r == event[1]
        out == Send(st, r, event[2])
    IN IF event[2] # Final THEN out
       ELSE [out EXCEPT !.conn.ids = @ \ {request[r].id}, !.conn.generations = @ \ {r}]

\* drain() of an inbox that has neither overflowed nor been closed, event by event.
Drain(st) ==
    LET events == st.conn.events
        after[n \in 0..Len(events)] ==
            IF n = 0 THEN [st EXCEPT !.conn.events = <<>>] ELSE Delivered(after[n - 1], events[n])
    IN after
Drained(st) == Drain(st)[Len(st.conn.events)]

Failed(k) == k.overflow \/ k.closed

\* drain() of one that has: the socket is closed.
DrainFailed(st) == Aborted([st EXCEPT !.conn.events = <<>>])

\* Mutant: tokens are dropped, not cancelled.
DisconnectedUncancelled(st) ==
    [st EXCEPT !.conn = [NoConn EXCEPT !.socket = "gone", !.closed = TRUE,
                                       !.overflow = st.conn.overflow]]

\* disconnect(), and the client record is dropped.
Disconnected(st) ==
    [st EXCEPT !.conn = [NoConn EXCEPT !.socket = "gone", !.closed = TRUE,
                                       !.overflow = st.conn.overflow],
               !.cancelled = @ \cup st.conn.generations]

State(c) == [conn |-> conn[c], sent |-> sent, cancelled |-> cancelled]
Become(c, st) ==
    /\ conn' = [conn EXCEPT ![c] = st.conn]
    /\ sent' = st.sent
    /\ cancelled' = st.cancelled

\* A callback of request r, on whatever thread: the event enters the inbox k, or the inbox
\* overflows and the callback throws.
Refuses(k) == Failed(k) \/ Len(k.events) >= OutputLimit
Pushed(k, r, part) ==
    IF Refuses(k) THEN [k EXCEPT !.overflow = TRUE]
    ELSE [k EXCEPT !.events = Append(@, <<r, part>>)]

-----------------------------------------------------------------------------
(* Peers.                                                                  *)

Served == {c \in Clients : conn[c].socket \in {"open", "closed"}}

\* accept(): a peer beyond the limit is turned away.
Accept(c) ==
    /\ listening
    /\ loop = Resting
    /\ conn[c].socket = "none"
    /\ conn' = [conn EXCEPT ![c].socket =
                   IF Cardinality(Served) >= MaxConnections THEN "gone" ELSE "open"]
    /\ UNCHANGED <<listening, request, loop, serviceVars, cancelled, sent>>

\* A peer writes a frame.
ClientSend(c, kind, id, target) ==
    /\ conn[c].socket = "open"
    /\ Len(request) < MaxRequests
    /\ request' = Append(request, [client |-> c, kind |-> kind, id |-> id, target |-> target])
    /\ conn' = [conn EXCEPT ![c].input = Append(@, Len(request) + 1)]
    /\ UNCHANGED <<listening, loop, serviceVars, cancelled, sent>>

\* A peer reads a message.
ClientRead(c) ==
    /\ conn[c].unsent > 0
    /\ conn' = [conn EXCEPT ![c].unsent = @ - 1]
    /\ UNCHANGED <<listening, request, loop, serviceVars, cancelled, sent>>

\* A peer goes away, or sends a frame beyond maxFrameBytes.
ClientGone(c) ==
    /\ loop = Resting
    /\ conn[c].socket = "open"
    /\ Become(c, Aborted(State(c)))
    /\ UNCHANGED <<listening, request, loop, serviceVars>>
-----------------------------------------------------------------------------
(* read(): every frame that has arrived.                                   *)

ReadBegin(c) ==
    /\ loop = Resting
    /\ conn[c].socket = "open"
    /\ conn[c].input # <<>>
    /\ loop' = [at |-> "read", client |-> c, todo |-> conn[c].input]
    /\ conn' = [conn EXCEPT ![c].input = <<>>]
    /\ UNCHANGED <<listening, request, serviceVars, cancelled, sent>>

Reading(c, r) == loop.at = "read" /\ loop.client = c /\ loop.todo # <<>> /\ r = Head(loop.todo)
NextFrame == loop' = [loop EXCEPT !.todo = Tail(@)]

\* The id is taken or the connection has too much in flight.
Refused(c, r) ==
    \/ request[r].kind = "bad"
    \/ request[r].id \in conn[c].ids
    \/ Cardinality(conn[c].ids) >= MaxInFlight /\ request[r].kind # "cancel"

\* The error leaves the ids as they are.
ReadRefused(c, r) ==
    /\ Reading(c, r)
    /\ Refused(c, r)
    /\ Become(c, Send(State(c), r, Final))
    /\ NextFrame
    /\ UNCHANGED <<listening, request, serviceVars>>

\* dispatch() answers, or throws, at once.
ReadLocal(c, r) ==
    /\ Reading(c, r)
    /\ ~Refused(c, r)
    /\ request[r].kind = "local"
    /\ Become(c, Send(State(c), r, Final))
    /\ NextFrame
    /\ UNCHANGED <<listening, request, serviceVars>>

\* Mutant: any connection's token will do.
ReadCancelAny(c, r) ==
    /\ Reading(c, r)
    /\ ~Refused(c, r)
    /\ request[r].kind = "cancel"
    /\ LET found == {request[r].target} \cap UNION {conn[d].generations : d \in Clients}
       IN Become(c, Send([State(c) EXCEPT !.cancelled = @ \cup found], r, Final))
    /\ NextFrame
    /\ UNCHANGED <<listening, request, serviceVars>>

\* dispatch() of cancel: only what this connection has running.
ReadCancel(c, r) ==
    /\ Reading(c, r)
    /\ ~Refused(c, r)
    /\ request[r].kind = "cancel"
    /\ LET found == {request[r].target} \cap conn[c].generations
       IN Become(c, Send([State(c) EXCEPT !.cancelled = @ \cup found], r, Final))
    /\ NextFrame
    /\ UNCHANGED <<listening, request, serviceVars>>

\* The service takes r, or answers it before the call returns: the scheduler refuses it,
\* or the answer is a snapshot.
Submit(r, atOnce) ==
    /\ queue' = IF atOnce THEN queue ELSE Append(queue, r)
    /\ settled' = IF atOnce THEN settled \cup {r} ELSE settled
    /\ UNCHANGED <<emitted, broken>>

\* dispatch() of a method that is answered by a future: watch().
ReadControl(c, r, atOnce) ==
    /\ Reading(c, r)
    /\ ~Refused(c, r)
    /\ request[r].kind = "control"
    /\ Submit(r, atOnce)
    /\ conn' = [conn EXCEPT ![c].ids = @ \cup {request[r].id}, ![c].pending = Append(@, r)]
    /\ NextFrame
    /\ UNCHANGED <<listening, request, cancelled, sent>>

\* dispatch() of models.pull or of an extension method.
ReadPull(c, r, atOnce) ==
    /\ Reading(c, r)
    /\ ~Refused(c, r)
    /\ request[r].kind = "pull"
    /\ Submit(r, atOnce)
    /\ LET held == [State(c) EXCEPT !.conn.ids = @ \cup {request[r].id},
                                    !.conn.generations = @ \cup {r},
                                    !.conn.pending = Append(@, r)]
       IN Become(c, Send(held, r, Accepted))
    /\ NextFrame
    /\ UNCHANGED <<listening, request>>

\* Mutant: a chat the scheduler refuses ends without a done event.
ReadChatSilent(c, r, atOnce) ==
    /\ Reading(c, r)
    /\ ~Refused(c, r)
    /\ request[r].kind = "chat"
    /\ Submit(r, atOnce)
    /\ LET held == [State(c) EXCEPT !.conn.ids = @ \cup {request[r].id},
                                    !.conn.generations = @ \cup {r}]
       IN Become(c, Send(held, r, Accepted))
    /\ NextFrame
    /\ UNCHANGED <<listening, request>>

\* dispatch() of chat; a refusal calls back with the done event before chat() returns.
ReadChat(c, r, atOnce) ==
    /\ Reading(c, r)
    /\ ~Refused(c, r)
    /\ request[r].kind = "chat"
    /\ Submit(r, atOnce)
    /\ LET called == [State(c) EXCEPT !.conn = IF atOnce THEN Pushed(@, r, Final) ELSE @]
           held == [called EXCEPT !.conn.ids = @ \cup {request[r].id},
                                  !.conn.generations = @ \cup {r}]
       IN Become(c, Send(held, r, Accepted))
    /\ NextFrame
    /\ UNCHANGED <<listening, request>>

ReadEnd ==
    /\ loop.at = "read"
    /\ loop.todo = <<>>
    /\ loop' = Resting
    /\ UNCHANGED <<listening, conn, request, serviceVars, cancelled, sent>>

-----------------------------------------------------------------------------
(* poll(): the timer's turn for one connection.                            *)

\* What the first drain() of a turn leaves.
AfterDrain(c) == IF Failed(conn[c]) THEN DrainFailed(State(c)) ELSE Drained(State(c))

\* The connection is lost, or is lost by draining into it.
PollLost(c) ==
    /\ loop = Resting
    /\ c \in Served
    /\ conn[c].socket = "closed" \/ AfterDrain(c).conn.socket = "closed"
    /\ Become(c, Disconnected(IF conn[c].socket = "closed" THEN State(c) ELSE AfterDrain(c)))
    /\ UNCHANGED <<listening, request, loop, serviceVars>>

\* The events are out; the pending futures are next: those that are not ready stay.
PollBegin(c) ==
    /\ loop = Resting
    /\ conn[c].socket = "open"
    /\ AfterDrain(c).conn.socket = "open"
    /\ Become(c, [AfterDrain(c) EXCEPT !.conn.pending = <<>>])
    /\ loop' = [at |-> "poll", client |-> c, todo |-> conn[c].pending]
    /\ UNCHANGED <<listening, request, serviceVars>>

Polling(r) == loop.at = "poll" /\ loop.todo # <<>> /\ r = Head(loop.todo)
NextPending == loop' = [loop EXCEPT !.todo = Tail(@)]

PollNotReady(r) ==
    /\ Polling(r)
    /\ r \notin settled
    /\ NextPending
    /\ conn' = [conn EXCEPT ![loop.client].pending = Append(@, r)]
    /\ UNCHANGED <<listening, request, serviceVars, cancelled, sent>>

\* The answer of r, after st: its token goes, its id is free.
Replied(st, r) ==
    LET replied == Send([st EXCEPT !.conn.generations = @ \ {r}], r, Final)
    IN [replied EXCEPT !.conn.ids = @ \ {request[r].id}]

\* Mutant: the answer does not wait for the events.
PollReadyAtOnce(r) ==
    /\ Polling(r)
    /\ r \in settled
    /\ Become(loop.client, Replied(State(loop.client), r))
    /\ NextPending
    /\ UNCHANGED <<listening, request, serviceVars>>

\* A pending future is ready: what its callbacks left goes out first.
PollReady(r) ==
    /\ Polling(r)
    /\ r \in settled
    /\ LET drained == AfterDrain(loop.client)
       IN Become(loop.client,
                 IF drained.conn.socket = "open" THEN Replied(drained, r) ELSE drained)
    /\ NextPending
    /\ UNCHANGED <<listening, request, serviceVars>>

PollEnd ==
    /\ loop.at = "poll"
    /\ loop.todo = <<>>
    /\ loop' = Resting
    /\ UNCHANGED <<listening, conn, request, serviceVars, cancelled, sent>>

\* close(): every connection goes.
CloseServer ==
    /\ listening
    /\ loop = Resting
    /\ listening' = FALSE
    /\ conn' = [c \in Clients |-> IF c \in Served THEN Disconnected(State(c)).conn ELSE conn[c]]
    /\ cancelled' = cancelled \cup UNION {conn[c].generations : c \in Served}
    /\ UNCHANGED <<request, loop, serviceVars, sent>>

-----------------------------------------------------------------------------
(* The service's worker.                                                   *)

Running(r) == queue # <<>> /\ r = Head(queue)
Inbox(r) == conn[request[r].client]

\* The running request calls back with its next event.
WorkerEvent(r) ==
    /\ Running(r)
    /\ request[r].kind \in Streams
    /\ r \notin broken
    /\ emitted[r] < MaxEvents
    /\ emitted' = [emitted EXCEPT ![r] = @ + 1]
    /\ conn' = [conn EXCEPT ![request[r].client] = Pushed(@, r, emitted[r] + 1)]
    /\ broken' = IF Refuses(Inbox(r)) THEN broken \cup {r} ELSE broken
    /\ UNCHANGED <<listening, request, loop, queue, settled, cancelled, sent>>

\* The running request is over: a chat calls back with its done event.
WorkerFinish(r) ==
    /\ Running(r)
    /\ queue' = Tail(queue)
    /\ settled' = settled \cup {r}
    /\ conn' = [conn EXCEPT ![request[r].client] =
                   IF request[r].kind = "chat" THEN Pushed(@, r, Final) ELSE @]
    /\ UNCHANGED <<listening, request, loop, emitted, broken, cancelled, sent>>

-----------------------------------------------------------------------------
Peers ==
    \/ \E c \in Clients : Accept(c) \/ ClientRead(c) \/ ClientGone(c)
    \/ \E c \in Clients, kind \in Methods \ {"cancel"}, id \in Ids : ClientSend(c, kind, id, 0)
    \/ \E c \in Clients, kind \in Methods \cap {"cancel"}, id \in Ids, target \in Requests :
           ClientSend(c, kind, id, target)

Frame(c, r) ==
    \/ ReadRefused(c, r) \/ ReadLocal(c, r) \/ ReadCancel(c, r)
    \/ \E atOnce \in BOOLEAN :
           ReadControl(c, r, atOnce) \/ ReadPull(c, r, atOnce) \/ ReadChat(c, r, atOnce)

Loop ==
    \/ \E c \in Clients : ReadBegin(c) \/ PollLost(c) \/ PollBegin(c)
    \/ \E c \in Clients, r \in Requests : Frame(c, r)
    \/ \E r \in Requests : PollReady(r) \/ PollNotReady(r)
    \/ ReadEnd \/ PollEnd

Worker == \E r \in Requests : WorkerEvent(r) \/ WorkerFinish(r)

Next == Peers \/ Loop \/ CloseServer \/ Worker

Spec == Init /\ [][Next]_vars

\* The event loop and the worker go on, the timer visits every connection, and what has
\* arrived is read.
FairSpec ==
    /\ Spec
    /\ WF_vars(Loop) /\ WF_vars(Worker)
    /\ \A c \in Clients : SF_vars(PollBegin(c) \/ PollLost(c)) /\ SF_vars(ReadBegin(c))
-----------------------------------------------------------------------------
(* Properties.                                                             *)

\* Requests of c that were dispatched to the service and not answered.
Dispatched(r) == r \in Range(queue) \cup settled
Answered(r) == Final \in Range(sent[r])
InFlight(c) == {r \in Requests : request[r].client = c /\ Dispatched(r) /\ ~Answered(r)}

\* What a client gets for a request is the beginning of: the handle, every event in the
\* order of the callbacks, the end.  No answer overtakes an event, no event is left out
\* or follows the end, and there is one end.  (docs/IPC.md: accepted, progress..., result;
\* "done" is one.)
AnswersInOrder ==
    \A r \in Requests :
        LET head == IF request[r].kind \in Streams /\ Dispatched(r) THEN <<Accepted>> ELSE <<>>
            full == head \o [n \in 1..emitted[r] |-> n] \o <<Final>>
        IN IsPrefix(sent[r], full)

\* On a live connection the ids in use are those of the unanswered requests, each has
\* its own, and a token is kept for each of the streams among them.  What a lost
\* connection had running is cancelled or over, also what was dispatched from frames
\* that were still in its buffer when it broke.
InFlightIsKnown ==
    /\ \A c \in Clients : conn[c].socket = "open" =>
           /\ conn[c].ids = {request[r].id : r \in InFlight(c)}
           /\ Cardinality(conn[c].ids) = Cardinality(InFlight(c))
           /\ conn[c].generations = {r \in InFlight(c) : request[r].kind \in Streams}
    /\ \A r \in Requests :
           /\ conn[request[r].client].socket = "gone"
           /\ request[r].kind \in Streams
           /\ r \in Range(queue)
           => r \in cancelled

\* Nobody cancels a request but its own connection, by asking or by breaking.
CancelledByOwner ==
    [][\A r \in cancelled' \ cancelled :
           \/ conn'[request[r].client].socket # "open"
           \/ loop.at = "read" /\ loop.client = request[r].client]_vars

\* Every request that reached the service is answered, or its connection breaks; a client
\* that does not read is no exception.
DispatchedIsAnswered ==
    \A r \in 1..MaxRequests :
        (r \in Requests /\ Dispatched(r))
            ~> (r \in Requests /\ (Answered(r) \/ conn[request[r].client].socket = "gone"))

=============================================================================
