--------------------------- MODULE LocalIpcProofs ---------------------------
(***************************************************************************)
(* Proofs about LocalIpc, for any number of peers, requests and events and *)
(* any limits: what the server knows to be in flight, what a peer has been *)
(* sent, and who may cancel.                                               *)
(*                                                                         *)
(* The invariant says of each connection what it owes its peer, and where  *)
(* in the inbox that is; drain() is followed event by event.               *)
(***************************************************************************)
EXTENDS LocalIpc, FiniteSetTheorems, SequenceTheorems, WellFoundedInduction, TLAPS

-----------------------------------------------------------------------------
(* The invariant.                                                          *)

All == 1 .. MaxRequests
Parts == 0 .. Final
Serviced == {"control", "pull", "chat"}
Watched == {"control", "pull"}

Connections ==
    [socket : {"none", "open", "closed", "gone"}, input : Seq(All), ids : SUBSET Ids,
     generations : SUBSET All, pending : Seq(All), events : Seq(All \X Parts),
     closed : BOOLEAN, overflow : BOOLEAN, unsent : Nat]
Asked == [client : Clients, kind : Kinds, id : Ids, target : 0 .. MaxRequests]

ServiceTypes ==
    /\ queue \in Seq(All) /\ settled \subseteq All /\ broken \subseteq All
    /\ emitted \in [All -> 0 .. MaxEvents]

TypeOK ==
    /\ listening \in BOOLEAN
    /\ conn \in [Clients -> Connections]
    /\ request \in Seq(Asked) /\ Len(request) <= MaxRequests
    /\ loop \in [at : {"rest", "read", "poll"}, client : Clients \cup {"none"}, todo : Seq(All)]
    /\ ServiceTypes
    /\ cancelled \subseteq All
    /\ sent \in [All -> Seq(Parts)]

Client(r) == request[r].client
Kind(r) == request[r].kind
Elements(s) == {s[i] : i \in 1 .. Len(s)}
Distinct(s) == \A i, j \in 1 .. Len(s) : s[i] = s[j] => i = j

\* A request is with the service in one place at most, and only if the service was asked.
QueueRules ==
    /\ Distinct(queue)
    /\ \A r \in Elements(queue) : r \notin settled
    /\ \A r \in All : Dispatched(r) => r \in Requests /\ Kind(r) \in Serviced
    /\ \A r \in All : emitted[r] > 0 => Dispatched(r) /\ Kind(r) \in Streams

\* A frame that was not looked at.
Fresh(r, c) == r \in Requests /\ Client(r) = c /\ ~Dispatched(r) /\ sent[r] = <<>>

FrameRules ==
    /\ \A c \in Clients : /\ Distinct(conn[c].input)
                          /\ \A r \in Elements(conn[c].input) : Fresh(r, c)
    /\ loop.at = "read" =>
           /\ Distinct(loop.todo)
           /\ \A r \in Elements(loop.todo) : /\ Fresh(r, loop.client)
                                             /\ r \notin Elements(conn[loop.client].input)
    /\ \A r \in All : r \notin Requests => sent[r] = <<>>

LoopRules ==
    loop.at # "rest" => loop.client \in Clients /\ conn[loop.client].socket \in {"open", "closed"}

\* A future that is looked at until it is ready.
Pending(r, c) ==
    /\ Dispatched(r) /\ Client(r) = c /\ Kind(r) \in Watched
    /\ conn[c].socket = "open" => ~Answered(r)

PendingRules ==
    /\ \A c \in Clients : /\ Distinct(conn[c].pending)
                          /\ \A r \in Elements(conn[c].pending) : Pending(r, c)
    /\ loop.at = "poll" =>
           /\ Distinct(loop.todo)
           /\ \A r \in Elements(loop.todo) : /\ Pending(r, loop.client)
                                             /\ r \notin Elements(conn[loop.client].pending)

\* The parts of an answer before its end, and the first n of them.
Limit(r) == IF Kind(r) \in Streams THEN emitted[r] + 1 ELSE 0
First(n) == [i \in 1 .. n |-> i - 1]

\* What may have been sent for r is the beginning of its answer.
TextRule(r, text) ==
    IF Dispatched(r)
    THEN \/ \E n \in 0 .. Limit(r) : text = First(n)
         \/ r \in settled /\ text = Append(First(Limit(r)), Final)
    ELSE text = <<>> \/ text = <<Final>>

TextRules == \A r \in All : TextRule(r, sent[r])

\* What r's connection has still to get by the inbox.
Ends(r) == IF Kind(r) = "chat" /\ r \in settled THEN {Final} ELSE {}
Owed(r, text) == IF Final \in Elements(text) THEN {} ELSE (Len(text) .. Limit(r) - 1) \cup Ends(r)

\* The inbox, from event m + 1 on, is what is owed, in order.
InboxRule(c, text, events, m) ==
    /\ \A i, j \in m + 1 .. Len(events) :
           i < j /\ events[i][1] = events[j][1] => events[i][2] < events[j][2]
    /\ \A r \in All : Dispatched(r) /\ Client(r) = c =>
           {events[i][2] : i \in {j \in m + 1 .. Len(events) : events[j][1] = r}} = Owed(r, text[r])

\* What c has in flight when text was sent.
Flying(c, text) == {r \in All : Dispatched(r) /\ Client(r) = c /\ Final \notin Elements(text[r])}

\* A connection that is open.
Live(c, k, text) ==
    /\ k.ids = {request[r].id : r \in Flying(c, text)}
    /\ \A r, q \in Flying(c, text) : request[r].id = request[q].id => r = q
    /\ k.generations = {r \in Flying(c, text) : Kind(r) \in Streams}
    /\ \A r \in k.generations : text[r] # <<>>

\* What is said of any connection.
Mine(r, c) == Dispatched(r) /\ Client(r) = c /\ Kind(r) \in Streams
EventRule(c, event) ==
    Mine(event[1], c) /\ (event[2] = Final => Kind(event[1]) = "chat" /\ event[1] \in settled)

\* A connection c with record k when text was sent and stopped is cancelled.
ConnRule(c, k, text, stopped) ==
    /\ \A r \in k.generations : Mine(r, c)
    /\ \A i \in 1 .. Len(k.events) : EventRule(c, k.events[i])
    /\ k.socket = "none" => k = NoConn /\ \A r \in Requests : Client(r) # c
    /\ k.socket \in {"none", "open"} => ~k.closed
    /\ k.socket = "closed" => k.closed
    /\ k.socket = "gone" => /\ k.closed \/ \A r \in Requests : Client(r) # c
                            /\ k.generations = {}
    /\ k.socket = "open" => Live(c, k, text) /\ (~k.overflow => InboxRule(c, text, k.events, 0))
    /\ k.socket # "open" => \A r \in Elements(queue) : Mine(r, c) => r \in stopped \cup k.generations

ConnRules == \A c \in Clients : ConnRule(c, conn[c], sent, cancelled)

IndInv ==
    /\ TypeOK
    /\ QueueRules
    /\ FrameRules
    /\ LoopRules
    /\ PendingRules
    /\ TextRules
    /\ ConnRules
-----------------------------------------------------------------------------
(* Sequences.                                                              *)

\* The beginnings of an answer.
LEMMA Beginnings ==
    ASSUME NEW n \in Nat, n <= MaxEvents + 1
    PROVE  /\ First(n) \in Seq(Parts) /\ Len(First(n)) = n
           /\ \A i \in 1 .. n : First(n)[i] = i - 1
           /\ Final \notin Elements(First(n))
           /\ Append(First(n), n) = First(n + 1)
           /\ Elements(Append(First(n), Final)) = Elements(First(n)) \cup {Final}
<1>1. MaxEvents \in Nat /\ Final = MaxEvents + 1
  BY IpcAssumption DEF Final
<1>2. First(n) \in [1 .. n -> Parts] /\ \A i \in 1 .. n : First(n)[i] = i - 1
  BY <1>1 DEF First, Parts
<1>3. First(n) \in Seq(Parts) /\ Len(First(n)) = n
  BY <1>2
<1>4. Final \notin Elements(First(n))
  BY <1>1, <1>2, <1>3 DEF Elements
<1>5. Append(First(n), n) = First(n + 1)
  BY <1>1, <1>2, <1>3 DEF First
<1>6. Elements(Append(First(n), Final)) = Elements(First(n)) \cup {Final}
  <2>1. /\ Len(Append(First(n), Final)) = n + 1
        /\ \A i \in 1 .. n : Append(First(n), Final)[i] = First(n)[i]
        /\ Append(First(n), Final)[n + 1] = Final
    BY <1>1, <1>3, AppendProperties DEF Parts
  <2>2. ASSUME NEW x PROVE x \in Elements(Append(First(n), Final)) <=> x \in Elements(First(n)) \cup {Final}
    BY <2>1, <1>3 DEF Elements
  <2> QED
    BY <2>2
<1> QED
  BY <1>2, <1>3, <1>4, <1>5, <1>6

\* The empty sequence.
LEMMA EmptyElements ==
    Elements(<<>>) = {} /\ Distinct(<<>>)
  BY DEF Elements, Distinct

\* The elements of a sequence and of its tail, and of it and one more.
LEMMA TailElements ==
    ASSUME NEW S, NEW s \in Seq(S), s # <<>>
    PROVE  /\ Head(s) \in S /\ Tail(s) \in Seq(S)
           /\ Head(s) \in Elements(s)
           /\ Elements(s) = Elements(Tail(s)) \cup {Head(s)}
           /\ Distinct(s) => Distinct(Tail(s)) /\ Head(s) \notin Elements(Tail(s))
<1>1. Len(s) \in Nat /\ Len(s) > 0 /\ Head(s) = s[1] /\ s \in [1 .. Len(s) -> S]
  BY EmptySeq, LenProperties
<1>2. /\ Tail(s) \in Seq(S) /\ Len(Tail(s)) = Len(s) - 1
      /\ \A i \in 1 .. Len(s) - 1 : Tail(s)[i] = s[i + 1]
  BY HeadTailProperties
<1>3. Head(s) \in Elements(s) /\ Head(s) \in S
  BY <1>1 DEF Elements
<1>4. ASSUME NEW x PROVE x \in Elements(s) <=> x \in Elements(Tail(s)) \cup {Head(s)}
  <2>1. ASSUME NEW i \in 1 .. Len(s), s[i] = x PROVE x \in Elements(Tail(s)) \cup {Head(s)}
    <3>1. CASE i = 1
      BY <3>1, <1>1, <2>1
    <3>2. CASE i # 1
      <4>1. i - 1 \in 1 .. Len(Tail(s)) /\ Tail(s)[i - 1] = s[i]
        BY <3>2, <1>1, <1>2
      <4> QED
        BY <4>1, <2>1 DEF Elements
    <3> QED
      BY <3>1, <3>2
  <2>2. ASSUME NEW i \in 1 .. Len(Tail(s)), Tail(s)[i] = x PROVE x \in Elements(s)
    <3>1. i + 1 \in 1 .. Len(s) /\ s[i + 1] = x
      BY <2>2, <1>1, <1>2
    <3> QED
      BY <3>1 DEF Elements
  <2> QED
    BY <2>1, <2>2, <1>3 DEF Elements
<1>5. ASSUME Distinct(s) PROVE Distinct(Tail(s)) /\ Head(s) \notin Elements(Tail(s))
  <2>1. ASSUME NEW i \in 1 .. Len(Tail(s)) PROVE i + 1 \in 1 .. Len(s) /\ Tail(s)[i] = s[i + 1] /\ i + 1 # 1
    BY <1>1, <1>2
  <2>2. 1 \in 1 .. Len(s)
    BY <1>1
  <2>3. ASSUME NEW i \in 1 .. Len(Tail(s)), NEW j \in 1 .. Len(Tail(s)), Tail(s)[i] = Tail(s)[j] PROVE i = j
    <3>1. i + 1 = j + 1
      BY <2>1, <2>3, <1>5 DEF Distinct
    <3> QED
      BY <3>1, <1>1, <1>2
  <2>4. ASSUME NEW i \in 1 .. Len(Tail(s)) PROVE Tail(s)[i] # Head(s)
    BY <2>1, <2>2, <1>1, <1>5 DEF Distinct
  <2> QED
    BY <2>3, <2>4 DEF Distinct, Elements
<1> QED
  BY <1>2, <1>3, <1>4, <1>5

\* One element more.
LEMMA AppendElements ==
    ASSUME NEW S, NEW s \in Seq(S), NEW e \in S
    PROVE  /\ Append(s, e) \in Seq(S) /\ Append(s, e) # <<>>
           /\ Elements(Append(s, e)) = Elements(s) \cup {e}
           /\ Distinct(s) /\ e \notin Elements(s) => Distinct(Append(s, e))
<1>1. /\ Append(s, e) \in Seq(S) /\ Len(Append(s, e)) = Len(s) + 1 /\ Len(s) \in Nat
      /\ \A i \in 1 .. Len(s) : Append(s, e)[i] = s[i]
      /\ Append(s, e)[Len(s) + 1] = e
  BY AppendProperties, LenProperties
<1>2. ASSUME NEW x PROVE x \in Elements(Append(s, e)) <=> x \in Elements(s) \cup {e}
  BY <1>1 DEF Elements
<1>3. ASSUME Distinct(s), e \notin Elements(s) PROVE Distinct(Append(s, e))
  <2>1. ASSUME NEW i \in 1 .. Len(s) + 1, NEW j \in 1 .. Len(s) + 1, Append(s, e)[i] = Append(s, e)[j] PROVE i = j
    <3>1. CASE i \in 1 .. Len(s) /\ j \in 1 .. Len(s)
      BY <3>1, <2>1, <1>1, <1>3 DEF Distinct
    <3>2. ASSUME NEW l \in 1 .. Len(s) PROVE Append(s, e)[l] # e
      BY <1>1, <1>3 DEF Elements
    <3> QED
      BY <3>1, <3>2, <2>1, <1>1
  <2> QED
    BY <2>1, <1>1 DEF Distinct
<1> QED
  BY <1>1, <1>2, <1>3

\* A set of numbers that has 0, and the next of every one it has, has all of them.
LEMMA Induction ==
    ASSUME NEW S \in SUBSET Nat, 0 \in S, \A n \in S : n + 1 \in S
    PROVE  \A n \in Nat : n \in S
<1> SUFFICES ASSUME NEW x \in Nat \ S PROVE FALSE
  OBVIOUS
<1>1. PICK n \in Nat \ S : \A y \in Nat \ S : ~(<<y, n>> \in OpToRel(<, Nat))
  <2>1. Nat \ S \subseteq Nat /\ Nat \ S # {}
    OBVIOUS
  <2> QED
    BY <2>1, NatLessThanWellFounded, WFMin, Zenon
<1>2. n # 0 /\ n \in Nat /\ n \notin S
  BY <1>1, Zenon
<1>3. n - 1 \in Nat /\ n - 1 < n /\ (n - 1) + 1 = n
  BY <1>2
<1>4. <<n - 1, n>> \in OpToRel(<, Nat)
  BY <1>2, <1>3, Zenon DEF OpToRel
<1>5. n - 1 \in S
  BY <1>1, <1>3, <1>4, Zenon
<1> QED
  BY <1>2, <1>3, <1>5, Zenon

-----------------------------------------------------------------------------
(* drain() by its turns.                                                   *)

\* The states of a drain are those of its turns.
LEMMA Turns ==
    ASSUME NEW st, Len(st.conn.events) \in Nat
    PROVE  /\ Drain(st)[0] = [st EXCEPT !.conn.events = <<>>]
           /\ \A m \in 0 .. Len(st.conn.events) - 1 :
                  Drain(st)[m + 1] = Delivered(Drain(st)[m], st.conn.events[m + 1])
<1> DEFINE events == st.conn.events
           start == [st EXCEPT !.conn.events = <<>>]
           Step(g, i) == IF i = 0 THEN start ELSE Delivered(g[i - 1], events[i])
           Has(n) == \E g : g = [i \in 0 .. n |-> Step(g, i)]
<1>1. Has(0)
  <2> HIDE DEF start
  <2>1. [i \in 0 .. 0 |-> start] = [i \in 0 .. 0 |-> Step([j \in 0 .. 0 |-> start], i)]
    OBVIOUS
  <2> QED
    BY <2>1
<1>2. ASSUME NEW n \in Nat, Has(n) PROVE Has(n + 1)
  <2> HIDE DEF start
  <2>1. PICK g : g = [i \in 0 .. n |-> Step(g, i)]
    BY <1>2
  <2> DEFINE h == [i \in 0 .. n + 1 |-> IF i = n + 1 THEN Delivered(g[n], events[n + 1]) ELSE g[i]]
  <2>2. ASSUME NEW i \in 0 .. n + 1 PROVE h[i] = Step(h, i)
    <3>1. CASE i = n + 1
      <4>1. h[n] = g[n] /\ i # 0 /\ i - 1 = n
        BY <3>1
      <4> QED
        BY <4>1, <3>1
    <3>2. CASE i = 0
      <4>1. h[i] = g[i] /\ g[i] = Step(g, i)
        BY <3>2, <2>1
      <4> QED
        BY <4>1, <3>2
    <3>3. CASE i \in 1 .. n
      <4>1. i - 1 \in 0 .. n /\ i \in 0 .. n /\ i # n + 1 /\ i - 1 # n + 1 /\ i # 0
        BY <3>3
      <4>2. h[i] = g[i] /\ g[i] = Step(g, i) /\ h[i - 1] = g[i - 1]
        BY <4>1, <2>1
      <4> QED
        BY <4>1, <4>2
    <3> QED
      BY <3>1, <3>2, <3>3
  <2>3. h = [i \in 0 .. n + 1 |-> Step(h, i)]
    <3> HIDE DEF Step
    <3> QED
      BY <2>2
  <2> QED
    BY <2>3
<1>3. \A n \in Nat : Has(n)
  <2> HIDE DEF Has
  <2> DEFINE S == {n \in Nat : Has(n)}
  <2>1. 0 \in S /\ \A n \in S : n + 1 \in S
    BY <1>1, <1>2
  <2>2. S \in SUBSET Nat
    OBVIOUS
  <2> HIDE DEF S
  <2>3. \A n \in Nat : n \in S
    BY <2>1, <2>2, Induction
  <2> QED
    BY <2>3 DEF S
<1>4. PICK g : g = [i \in 0 .. Len(events) |-> Step(g, i)]
  BY <1>3
<1>5. Drain(st) = [i \in 0 .. Len(events) |-> Step(Drain(st), i)]
  BY <1>4 DEF Drain
<1> HIDE DEF events
<1>6. \A i \in 0 .. Len(events) : Drain(st)[i] = Step(Drain(st), i)
  <2> HIDE DEF Step
  <2> QED
    BY <1>5
<1> HIDE DEF start
<1>7. Drain(st)[0] = start
  BY <1>6 DEF events
<1>8. ASSUME NEW m \in 0 .. Len(events) - 1 PROVE Drain(st)[m + 1] = Delivered(Drain(st)[m], events[m + 1])
  <2>1. m + 1 \in 0 .. Len(events) /\ m + 1 # 0 /\ (m + 1) - 1 = m
    BY DEF events
  <2> QED
    BY <1>6, <2>1
<1> QED
  BY <1>7, <1>8 DEF events, start

-----------------------------------------------------------------------------
(* send(), and a connection's state on the way through drain().            *)

States == [conn : Connections, sent : [All -> Seq(Parts)], cancelled : SUBSET All]

\* What sending, breaking and draining leave of a connection.
Kept(st, out) ==
    /\ out.conn.input = st.conn.input /\ out.conn.pending = st.conn.pending
    /\ out.conn.events = st.conn.events /\ out.conn.overflow = st.conn.overflow

Broken(st, out) ==
    /\ out.conn.socket = "closed" /\ out.conn.closed
    /\ out.conn.ids = st.conn.ids /\ out.conn.generations = st.conn.generations
    /\ out.cancelled = st.cancelled \cup st.conn.generations
    /\ out.sent = st.sent

Sent(st, out, r, part) ==
    /\ out.conn.socket = "open" /\ out.conn.closed = st.conn.closed
    /\ out.conn.ids = st.conn.ids /\ out.conn.generations = st.conn.generations
    /\ out.cancelled = st.cancelled
    /\ out.sent = [st.sent EXCEPT ![r] = Append(@, part)]

\* A connection that breaks: its socket is closed and its streams are cancelled.
LEMMA AbortedCase ==
    ASSUME NEW st \in States
    PROVE  Aborted(st) \in States /\ Kept(st, Aborted(st)) /\ Broken(st, Aborted(st))
  BY DEF States, Connections, Aborted, Kept, Broken

\* send() does nothing, breaks the connection, or writes the part.
LEMMA SendCases ==
    ASSUME NEW st \in States, NEW r \in All, NEW part \in Parts
    PROVE  /\ Send(st, r, part) \in States
           /\ Kept(st, Send(st, r, part))
           /\ \/ st.conn.socket # "open" /\ Send(st, r, part) = st
              \/ st.conn.socket = "open" /\ Broken(st, Send(st, r, part))
              \/ st.conn.socket = "open" /\ Sent(st, Send(st, r, part), r, part)
<1>1. CASE st.conn.socket # "open"
  BY <1>1 DEF Send, Kept
<1>2. CASE st.conn.socket = "open" /\ st.conn.unsent >= OutputLimit
  <2>1. Send(st, r, part) = Aborted(st)
    BY <1>2 DEF Send
  <2> QED
    BY <1>2, <2>1, AbortedCase
<1>3. CASE st.conn.socket = "open" /\ ~(st.conn.unsent >= OutputLimit)
  <2> DEFINE text == [st.sent EXCEPT ![r] = Append(@, part)]
  <2>1. text \in [All -> Seq(Parts)]
    <3>1. st.sent \in [All -> Seq(Parts)] /\ st.sent[r] \in Seq(Parts)
      BY DEF States
    <3>2. Append(st.sent[r], part) \in Seq(Parts)
      BY <3>1, AppendProperties
    <3> QED
      BY <3>1, <3>2
  <2>2. Send(st, r, part) = [st EXCEPT !.conn.unsent = @ + 1, !.sent[r] = Append(@, part)]
    BY <1>3 DEF Send
  <2>3. Send(st, r, part).sent = text /\ Send(st, r, part).cancelled = st.cancelled
        /\ Send(st, r, part).conn = [st.conn EXCEPT !.unsent = @ + 1]
    BY <2>2 DEF States
  <2>4. Send(st, r, part) = [conn |-> [st.conn EXCEPT !.unsent = @ + 1], sent |-> text, cancelled |-> st.cancelled]
    BY <2>2 DEF States
  <2>5. [st.conn EXCEPT !.unsent = @ + 1] \in Connections
    <3> HIDE DEF text
    <3>1. st.conn \in Connections
      BY DEF States
    <3>2. ASSUME NEW k \in Connections, NEW n \in Nat PROVE [k EXCEPT !.unsent = n] \in Connections
      BY DEF Connections
    <3>3. st.conn.unsent \in Nat /\ st.conn.unsent + 1 \in Nat
      BY <3>1 DEF Connections
    <3> QED
      BY <3>1, <3>2, <3>3
  <2>6. Send(st, r, part) \in States
    BY <2>1, <2>4, <2>5 DEF States
  <2> QED
    BY <1>3, <2>3, <2>6 DEF States, Connections, Kept, Sent
<1> QED
  BY <1>1, <1>2, <1>3

\* What the services says of a request is never less than what is sent of it.
LEMMA Texts ==
    ASSUME IndInv, NEW r \in All, NEW text \in Seq(Parts), TextRule(r, text), Dispatched(r)
    PROVE  /\ Limit(r) \in Nat /\ Limit(r) <= MaxEvents + 1
           /\ Final \in Elements(text) <=> text = Append(First(Limit(r)), Final)
           /\ Final \in Elements(text) => r \in settled
           /\ Final \notin Elements(text) => text = First(Len(text)) /\ Len(text) \in 0 .. Limit(r)
<1>1. Limit(r) \in Nat /\ Limit(r) <= MaxEvents + 1 /\ MaxEvents \in Nat
  BY IpcAssumption DEF IndInv, TypeOK, ServiceTypes, Limit
<1>2. ASSUME NEW n \in 0 .. Limit(r), text = First(n)
      PROVE  Final \notin Elements(text) /\ text = First(Len(text)) /\ Len(text) \in 0 .. Limit(r)
  <2>1. n \in Nat /\ n <= MaxEvents + 1
    BY <1>1
  <2>2. Len(First(n)) = n /\ Final \notin Elements(First(n))
    BY <2>1, Beginnings
  <2> QED
    BY <1>2, <2>2
<1>3. Final \in Elements(Append(First(Limit(r)), Final))
  BY <1>1, Beginnings
<1> QED
  BY <1>1, <1>2, <1>3 DEF TextRule

\* The next part of an answer.
LEMMA TextGrows ==
    ASSUME IndInv, NEW r \in All, NEW text \in Seq(Parts), TextRule(r, text), Dispatched(r),
           Final \notin Elements(text), NEW part,
           \/ part = Len(text) /\ Len(text) < Limit(r)
           \/ part = Final /\ Len(text) = Limit(r) /\ r \in settled
    PROVE  /\ TextRule(r, Append(text, part))
           /\ Append(text, part) \in Seq(Parts) /\ Len(Append(text, part)) = Len(text) + 1
           /\ Append(text, part) # <<>>
           /\ Final \in Elements(Append(text, part)) <=> part = Final
<1>1. MaxEvents \in Nat /\ Final = MaxEvents + 1 /\ Limit(r) \in Nat /\ Limit(r) <= MaxEvents + 1
  BY Texts, IpcAssumption DEF Final
<1>2. text = First(Len(text)) /\ Len(text) \in 0 .. Limit(r)
  BY Texts
<1>3. part \in Parts
  BY <1>1, <1>2 DEF Parts
<1>4. /\ Append(text, part) \in Seq(Parts) /\ Len(Append(text, part)) = Len(text) + 1
      /\ Append(text, part) # <<>>
  BY <1>3, AppendProperties
<1>5. CASE part = Len(text) /\ Len(text) < Limit(r)
  <2> DEFINE n == Len(text)
  <2>4. n \in Nat /\ n + 1 \in Nat /\ n <= MaxEvents + 1 /\ n + 1 <= MaxEvents + 1 /\ n # Final
    BY <1>1, <1>2, <1>5
  <2>1. Append(text, part) = First(n + 1)
    <3>1. Append(First(n), n) = First(n + 1)
      BY <2>4, Beginnings
    <3> QED
      BY <1>2, <1>5, <3>1
  <2>2. n + 1 \in 0 .. Limit(r)
    BY <1>1, <1>2, <1>5
  <2>3. Final \notin Elements(Append(text, part)) /\ part # Final
    <3>1. Final \notin Elements(First(n + 1))
      BY <2>4, Beginnings
    <3> QED
      BY <1>5, <2>1, <2>4, <3>1
  <2> QED
    BY <1>4, <2>1, <2>2, <2>3 DEF TextRule
<1>6. CASE part = Final /\ Len(text) = Limit(r) /\ r \in settled
  <2>1. Append(text, part) = Append(First(Limit(r)), Final)
    BY <1>2, <1>6
  <2>2. Final \in Elements(Append(text, part))
    BY <1>1, <2>1, Beginnings
  <2> QED
    BY <1>4, <1>6, <2>1, <2>2 DEF TextRule
<1> QED
  BY <1>5, <1>6

\* What is said of c's connection when m events of its inbox were written.
DrainRule(c, st, m) ==
    /\ st \in States
    /\ st.conn.events = <<>> /\ st.conn.input = conn[c].input
    /\ st.conn.pending = conn[c].pending /\ st.conn.overflow = conn[c].overflow
    /\ st.conn.socket \in {"open", "closed"} /\ (st.conn.closed <=> st.conn.socket = "closed")
    /\ \A r \in All : TextRule(r, st.sent[r])
    /\ \A r \in All : ~Mine(r, c) => st.sent[r] = sent[r]
    /\ \A r \in All : Kind(r) # "chat" /\ Final \notin Elements(sent[r]) => Final \notin Elements(st.sent[r])
    /\ \A r \in st.conn.generations : Mine(r, c)
    /\ st.conn.socket = "open" =>
           Live(c, st.conn, st.sent) /\ InboxRule(c, st.sent, conn[c].events, m)
    /\ st.conn.socket # "open" =>
           \A r \in Elements(queue) : Mine(r, c) => r \in st.cancelled \cup st.conn.generations
    /\ cancelled \subseteq st.cancelled
    /\ \A r \in st.cancelled \ cancelled : Mine(r, c) /\ st.conn.socket = "closed"

\* What a turn of drain() does after send().
TurnEnds(out, end, r, part) ==
    /\ Kept(out, end)
    /\ end.conn.socket = out.conn.socket /\ end.conn.closed = out.conn.closed
    /\ end.sent = out.sent /\ end.cancelled = out.cancelled
    /\ end.conn.ids = IF part = Final THEN out.conn.ids \ {request[r].id} ELSE out.conn.ids
    /\ end.conn.generations = IF part = Final THEN out.conn.generations \ {r} ELSE out.conn.generations

\* A turn of drain() is send(), and what a done event frees.
LEMMA DeliveredCases ==
    ASSUME NEW st \in States, NEW r \in All, NEW part \in Parts
    PROVE  /\ Delivered(st, <<r, part>>) \in States
           /\ TurnEnds(Send(st, r, part), Delivered(st, <<r, part>>), r, part)
<1> USE DEF TurnEnds
<1> DEFINE out == Send(st, r, part)
           end == Delivered(st, <<r, part>>)
<1>1. out \in States
  BY SendCases
<1>2. CASE part # Final
  <2>1. end = out
    BY <1>2 DEF Delivered
  <2> QED
    BY <1>1, <1>2, <2>1 DEF Kept
<1>3. CASE part = Final
  <2>1. end = [out EXCEPT !.conn.ids = @ \ {request[r].id}, !.conn.generations = @ \ {r}]
    BY <1>3 DEF Delivered
  <2> HIDE DEF out, end
  <2>2. ASSUME NEW k \in Connections, NEW a \in SUBSET Ids, NEW b \in SUBSET All
        PROVE  [k EXCEPT !.ids = a, !.generations = b] \in Connections
    BY DEF Connections
  <2>3. out.conn \in Connections
    BY <1>1 DEF States
  <2>4. out.conn.ids \ {request[r].id} \in SUBSET Ids /\ out.conn.generations \ {r} \in SUBSET All
    BY <2>3 DEF Connections
  <2> DEFINE k == [out.conn EXCEPT !.ids = @ \ {request[r].id}, !.generations = @ \ {r}]
  <2>5. k \in Connections
    BY <2>2, <2>3, <2>4
  <2>6. end.conn = k /\ end.sent = out.sent /\ end.cancelled = out.cancelled
    BY <1>1, <2>1 DEF States
  <2>7. end = [conn |-> k, sent |-> out.sent, cancelled |-> out.cancelled]
    BY <1>1, <2>1 DEF States
  <2>8. end \in States
    BY <1>1, <2>5, <2>7 DEF States
  <2>9. /\ k.ids = out.conn.ids \ {request[r].id} /\ k.generations = out.conn.generations \ {r}
        /\ k.socket = out.conn.socket /\ k.closed = out.conn.closed /\ k.input = out.conn.input
        /\ k.pending = out.conn.pending /\ k.events = out.conn.events /\ k.overflow = out.conn.overflow
    BY <2>3 DEF Connections
  <2> QED
    BY <1>3, <2>6, <2>8, <2>9 DEF Kept, out, end
<1> QED
  BY <1>2, <1>3

\* The first event of an inbox that is in order is the next part of its answer.
LEMMA NextInbox ==
    ASSUME IndInv, NEW c \in Clients, NEW text \in [All -> Seq(Parts)], \A r \in All : TextRule(r, text[r]),
           NEW events \in Seq(All \X Parts), NEW m \in Nat, m < Len(events),
           InboxRule(c, text, events, m), Mine(events[m + 1][1], c)
    PROVE  LET r == events[m + 1][1]
               part == events[m + 1][2]
           IN  /\ Final \notin Elements(text[r])
               /\ \/ part = Len(text[r]) /\ Len(text[r]) < Limit(r)
                  \/ part = Final /\ Len(text[r]) = Limit(r) /\ r \in settled /\ Kind(r) = "chat"
               /\ InboxRule(c, [text EXCEPT ![r] = Append(@, part)], events, m + 1)
<1> DEFINE r == events[m + 1][1]
           part == events[m + 1][2]
           Of(q, n) == {events[i][2] : i \in {j \in n + 1 .. Len(events) : events[j][1] = q}}
           n == Len(text[r])
<1>1. Len(events) \in Nat /\ m + 1 \in 1 .. Len(events)
      /\ \A i \in 1 .. Len(events) : events[i][1] \in All /\ events[i][2] \in Parts
  <2>1. \A i \in 1 .. Len(events) : events[i] \in All \X Parts
    BY ElementOfSeq
  <2> QED
    BY <2>1
<1>2. r \in All /\ part \in Parts /\ Dispatched(r) /\ Client(r) = c /\ text[r] \in Seq(Parts)
  BY <1>1 DEF Mine
<1>3. /\ Of(r, m) = Owed(r, text[r])
      /\ part \in Of(r, m)
  <2>1. m + 1 \in {j \in m + 1 .. Len(events) : events[j][1] = r}
    BY <1>1
  <2> QED
    BY <2>1, <1>2 DEF InboxRule
<1>4. Final \notin Elements(text[r])
  BY <1>3 DEF Owed
<1>5. /\ MaxEvents \in Nat /\ Final = MaxEvents + 1 /\ Limit(r) \in Nat /\ Limit(r) <= MaxEvents + 1
      /\ n \in 0 .. Limit(r)
  BY <1>2, <1>4, Texts, IpcAssumption DEF Final
<1>6. /\ Owed(r, text[r]) = (n .. Limit(r) - 1) \cup Ends(r)
      /\ Ends(r) \subseteq {Final}
      /\ Final \in Ends(r) => r \in settled /\ Kind(r) = "chat"
  BY <1>4 DEF Owed, Ends
<1>7. ASSUME NEW i \in m + 2 .. Len(events), events[i][1] = r PROVE part < events[i][2]
  <2>1. i \in m + 1 .. Len(events) /\ m + 1 \in m + 1 .. Len(events) /\ m + 1 < i
    BY <1>1
  <2> QED
    BY <2>1, <1>7 DEF InboxRule
<1>8. ASSUME NEW i \in m + 1 .. Len(events), events[i][1] = r PROVE part <= events[i][2]
  <2>1. CASE i = m + 1
    BY <2>1, <1>2 DEF Parts
  <2>2. CASE i # m + 1
    <3>1. i \in m + 2 .. Len(events) /\ i \in 1 .. Len(events)
      BY <2>2, <1>1
    <3>2. events[i][2] \in Parts /\ part \in Parts /\ part < events[i][2]
      BY <3>1, <1>1, <1>2, <1>7, <1>8
    <3> QED
      BY <3>2, <1>5 DEF Parts
  <2> QED
    BY <2>1, <2>2
<1>9. \A p \in Owed(r, text[r]) : part <= p
  <2>1. ASSUME NEW p \in Of(r, m) PROVE part <= p
    BY <2>1, <1>8
  <2> QED
    BY <2>1, <1>3
<1> HIDE DEF Of
<1>10. \/ part = n /\ n < Limit(r)
       \/ part = Final /\ n = Limit(r) /\ r \in settled /\ Kind(r) = "chat"
  <2> HIDE DEF n, r, part
  <2>1. part \in (n .. Limit(r) - 1) \cup Ends(r)
    BY <1>3, <1>6
  <2>2. CASE n < Limit(r)
    <3>1. n \in n .. Limit(r) - 1
      BY <2>2, <1>5
    <3>2. part <= n
      BY <3>1, <1>9, <1>6
    <3>3. part >= n
      BY <2>1, <1>5, <1>6
    <3> QED
      BY <3>2, <3>3, <2>2, <1>5, <2>1, <1>6
  <2>3. CASE n = Limit(r)
    <3>1. n .. Limit(r) - 1 = {}
      BY <2>3, <1>5
    <3> QED
      BY <3>1, <2>1, <2>3, <1>6
  <2> QED
    BY <2>2, <2>3, <1>5
<1>11. \A i, j \in m + 2 .. Len(events) :
           i < j /\ events[i][1] = events[j][1] => events[i][2] < events[j][2]
  <2>1. m + 2 .. Len(events) \subseteq m + 1 .. Len(events)
    BY <1>1
  <2> QED
    BY <2>1 DEF InboxRule
<1> DEFINE next == [text EXCEPT ![r] = Append(@, part)]
<1>12. ASSUME NEW q \in All, Dispatched(q), Client(q) = c PROVE Of(q, m + 1) = Owed(q, next[q])
  <2>1. CASE q # r
    <3>1. {j \in m + 1 .. Len(events) : events[j][1] = q} = {j \in (m + 1) + 1 .. Len(events) : events[j][1] = q}
      BY <2>1, <1>1
    <3>2. Of(q, m + 1) = Of(q, m)
      BY <3>1 DEF Of
    <3>3. Of(q, m) = Owed(q, text[q])
      BY <1>12 DEF InboxRule, Of
    <3>4. next[q] = text[q]
      BY <2>1
    <3> QED
      BY <3>2, <3>3, <3>4
  <2>2. CASE q = r
    <3>1. Of(r, m + 1) = Of(r, m) \ {part}
      <4>1. ASSUME NEW i \in (m + 1) + 1 .. Len(events), events[i][1] = r
            PROVE  events[i][2] # part /\ i \in m + 1 .. Len(events)
        <5>1. i \in m + 2 .. Len(events) /\ i \in 1 .. Len(events) /\ i \in m + 1 .. Len(events)
          BY <1>1
        <5>2. part < events[i][2] /\ events[i][2] \in Parts
          BY <4>1, <5>1, <1>1, <1>7
        <5> HIDE DEF part, r, n, next
        <5>5. Parts \subseteq Int
          BY <1>5 DEF Parts
        <5>3. events[i][2] \in Int /\ part \in Int
          BY <5>2, <5>5, <1>2
        <5>4. \A a, b \in Int : a < b => b # a
          OBVIOUS
        <5> QED
          BY <5>1, <5>2, <5>3, <5>4
      <4>2. ASSUME NEW i \in m + 1 .. Len(events), events[i][1] = r, events[i][2] # part
            PROVE  i \in (m + 1) + 1 .. Len(events)
        <5>1. i # m + 1
          BY <4>2
        <5> QED
          BY <5>1, <1>1
      <4> QED
        BY <4>1, <4>2 DEF Of
    <3>2. next[r] = Append(text[r], part)
      BY <1>2
    <3>3. /\ Len(Append(text[r], part)) = n + 1
          /\ Final \in Elements(Append(text[r], part)) <=> part = Final
      <4> HIDE DEF part, r, n, next
      <4>1. TextRule(r, text[r])
        BY <1>2
      <4>2. n = Len(text[r])
        BY DEF n
      <4> QED
        BY <4>1, <4>2, <1>2, <1>4, <1>10, TextGrows
    <3>4. Of(r, m) \ {part} = Owed(r, Append(text[r], part))
      <4> HIDE DEF n, part, r
      <4>1. CASE part = Final
        <5>1. Owed(r, Append(text[r], part)) = {}
          BY <3>3, <4>1 DEF Owed
        <5>2. n = Limit(r)
          BY <4>1, <1>5, <1>10
        <5>3. n .. Limit(r) - 1 = {}
          BY <5>2, <1>5
        <5> QED
          BY <5>1, <5>3, <4>1, <1>3, <1>6
      <4>2. CASE part # Final
        <5>1. Owed(r, Append(text[r], part)) = (n + 1 .. Limit(r) - 1) \cup Ends(r)
          BY <3>3, <4>2 DEF Owed
        <5>2. part = n /\ n < Limit(r)
          BY <4>2, <1>10
        <5>3. (n .. Limit(r) - 1) \ {n} = n + 1 .. Limit(r) - 1
          BY <5>2, <1>5
        <5>4. n \notin Ends(r)
          BY <4>2, <5>2, <1>6
        <5> QED
          BY <5>1, <5>2, <5>3, <5>4, <1>3, <1>6
      <4> QED
        BY <4>1, <4>2
    <3> QED
      BY <2>2, <3>1, <3>2, <3>4
  <2> QED
    BY <2>1, <2>2
<1>13. InboxRule(c, next, events, m + 1)
  <2>1. (m + 1) + 1 = m + 2
    BY <1>1
  <2> HIDE DEF next
  <2> QED
    BY <1>11, <1>12, <2>1 DEF InboxRule, Of
<1> QED
  BY <1>4, <1>10, <1>13

\* An answer that goes on, in a state of c's connection that is open.
LEMMA LiveSends ==
    ASSUME IndInv, NEW c \in Clients, NEW k, NEW g, NEW text \in [All -> Seq(Parts)], Live(c, k, text),
           NEW r \in All, Dispatched(r), Client(r) = c, Final \notin Elements(text[r]),
           NEW e \in Seq(Parts), e # <<>>,
           g.ids = IF Final \in Elements(e) THEN k.ids \ {request[r].id} ELSE k.ids,
           g.generations = IF Final \in Elements(e) THEN k.generations \ {r} ELSE k.generations
    PROVE  Live(c, g, [text EXCEPT ![r] = e])
<1> DEFINE more == [text EXCEPT ![r] = e]
<1>4. more[r] = e /\ \A q \in All : q # r => more[q] = text[q]
  OBVIOUS
<1> SUFFICES Live(c, g, more)
  OBVIOUS
<1> HIDE DEF more
<1>1. r \in Flying(c, text)
  BY DEF Flying
<1>2. CASE Final \in Elements(e)
  <2>1. Flying(c, more) = Flying(c, text) \ {r}
    BY <1>2, <1>4 DEF Flying
  <2>2. g.ids = {request[q].id : q \in Flying(c, more)}
    <3>1. \A q \in Flying(c, more) : request[q].id # request[r].id
      BY <1>1, <2>1 DEF Live
    <3>2. k.ids = {request[q].id : q \in Flying(c, text)} /\ g.ids = k.ids \ {request[r].id}
      BY <1>2 DEF Live
    <3> QED
      BY <2>1, <3>1, <3>2
  <2>3. g.generations = {q \in Flying(c, more) : Kind(q) \in Streams}
    BY <1>2, <2>1 DEF Live
  <2>4. \A q \in g.generations : q # r /\ q \in k.generations /\ q \in All
    BY <1>2 DEF Live, Flying
  <2> QED
    <3>1. \A q \in g.generations : more[q] # <<>>
      BY <1>4, <2>4 DEF Live
    <3>2. \A q, p \in Flying(c, more) : request[q].id = request[p].id => q = p
      BY <2>1 DEF Live
    <3> QED
      BY <2>2, <2>3, <3>1, <3>2 DEF Live
<1>3. CASE Final \notin Elements(e)
  <2>1. Flying(c, more) = Flying(c, text)
    BY <1>3, <1>4 DEF Flying
  <2>2. \A q \in g.generations : q \in k.generations /\ q \in All
    BY <1>3 DEF Live, Flying
  <2> QED
    <3>1. \A q \in g.generations : more[q] # <<>>
      BY <1>4, <2>2 DEF Live
    <3>2. g.ids = k.ids /\ g.generations = k.generations
      BY <1>3
    <3> QED
      BY <2>1, <3>1, <3>2 DEF Live
<1> QED
  BY <1>2, <1>3

\* One turn of drain().
LEMMA DrainStep ==
    ASSUME IndInv, NEW c \in Clients, NEW m \in Nat, m < Len(conn[c].events),
           NEW st, DrainRule(c, st, m)
    PROVE  DrainRule(c, Delivered(st, conn[c].events[m + 1]), m + 1)
<1> DEFINE events == conn[c].events
           r == events[m + 1][1]
           part == events[m + 1][2]
           out == Send(st, r, part)
           end == Delivered(st, events[m + 1])
<1>1. conn[c] \in Connections /\ events \in Seq(All \X Parts)
  BY DEF IndInv, TypeOK, Connections
<1>2. m + 1 \in 1 .. Len(events) /\ events[m + 1] \in All \X Parts
  BY <1>1, ElementOfSeq
<1>3. r \in All /\ part \in Parts /\ events[m + 1] = <<r, part>>
  BY <1>2
<1>4. EventRule(c, events[m + 1])
  BY <1>2 DEF IndInv, ConnRules, ConnRule
<1>5. Mine(r, c) /\ (part = Final => Kind(r) = "chat" /\ r \in settled)
  BY <1>4 DEF EventRule
<1>6. st \in States /\ st.sent \in [All -> Seq(Parts)]
  BY DEF DrainRule, States
<1> HIDE DEF events, r, part, out, end
<1>7. /\ end \in States
      /\ Kept(out, end)
      /\ end.conn.socket = out.conn.socket /\ end.conn.closed = out.conn.closed
      /\ end.sent = out.sent /\ end.cancelled = out.cancelled
      /\ end.conn.ids = IF part = Final THEN out.conn.ids \ {request[r].id} ELSE out.conn.ids
      /\ end.conn.generations =
             IF part = Final THEN out.conn.generations \ {r} ELSE out.conn.generations
  <2>1. end \in States /\ TurnEnds(out, end, r, part)
    BY <1>3, <1>6, DeliveredCases DEF out, end
  <2> QED
    BY <2>1 DEF TurnEnds
<1>8. Kept(st, out) /\ Kept(st, end)
  BY <1>3, <1>6, <1>7, SendCases DEF out, Kept
<1>9. /\ end.conn.events = <<>> /\ end.conn.input = conn[c].input
      /\ end.conn.pending = conn[c].pending /\ end.conn.overflow = conn[c].overflow
  BY <1>8 DEF Kept, DrainRule
<1>10. CASE st.conn.socket # "open" /\ out = st
  <2>1. \A q \in Elements(queue) : q # r \/ part # Final
    BY <1>5 DEF IndInv, QueueRules
  <2> QED
    BY <1>7, <1>9, <1>10, <2>1 DEF DrainRule, end, events
<1>11. CASE st.conn.socket = "open" /\ Broken(st, out)
  <2>1. ASSUME NEW q \in Elements(queue), Mine(q, c) PROVE q \in st.conn.generations
    <3>1. q \in All /\ q \notin settled /\ Dispatched(q) /\ Kind(q) \in Streams
      BY <2>1, ElementOfSeq DEF IndInv, TypeOK, ServiceTypes, QueueRules, Mine, Elements
    <3>2. Final \notin Elements(st.sent[q])
      BY <3>1, <1>6, Texts DEF DrainRule
    <3> QED
      BY <2>1, <3>1, <3>2, <1>11 DEF DrainRule, Live, Flying, Mine
  <2>2. \A q \in end.conn.generations : q \in st.conn.generations
    BY <1>7, <1>11 DEF Broken
  <2>3. end.cancelled = st.cancelled \cup st.conn.generations /\ end.sent = st.sent
        /\ end.conn.socket = "closed" /\ end.conn.closed
    BY <1>7, <1>11 DEF Broken
  <2> QED
    BY <1>7, <1>9, <2>1, <2>2, <2>3 DEF DrainRule, end, events
<1>12. CASE st.conn.socket = "open" /\ Sent(st, out, r, part)
  <2> DEFINE more == [st.sent EXCEPT ![r] = Append(@, part)]
  <2>1. InboxRule(c, st.sent, events, m) /\ Live(c, st.conn, st.sent) /\ \A q \in All : TextRule(q, st.sent[q])
    BY <1>12 DEF DrainRule, events
  <2>2. /\ Final \notin Elements(st.sent[r])
        /\ \/ part = Len(st.sent[r]) /\ Len(st.sent[r]) < Limit(r)
           \/ part = Final /\ Len(st.sent[r]) = Limit(r) /\ r \in settled /\ Kind(r) = "chat"
        /\ InboxRule(c, more, events, m + 1)
    BY <1>1, <1>2, <1>5, <1>6, <2>1, NextInbox DEF r, part, events
  <2>3. st.sent[r] \in Seq(Parts) /\ TextRule(r, st.sent[r]) /\ Dispatched(r)
    BY <1>3, <1>5, <1>6, <2>1 DEF Mine
  <2>4. /\ TextRule(r, Append(st.sent[r], part))
        /\ Append(st.sent[r], part) \in Seq(Parts)
        /\ Append(st.sent[r], part) # <<>>
        /\ Final \in Elements(Append(st.sent[r], part)) <=> part = Final
    BY <1>3, <2>2, <2>3, TextGrows
  <2>5. /\ more \in [All -> Seq(Parts)]
        /\ more[r] = Append(st.sent[r], part)
        /\ \A q \in All : q # r => more[q] = st.sent[q]
    BY <1>3, <1>6, <2>4
  <2>6. end.sent = more
    BY <1>7, <1>12 DEF Sent
  <2> HIDE DEF more
  <2>7. /\ end.conn.socket = "open" /\ end.conn.closed = st.conn.closed /\ end.cancelled = st.cancelled
        /\ end.conn.ids = IF part = Final THEN st.conn.ids \ {request[r].id} ELSE st.conn.ids
        /\ end.conn.generations = IF part = Final THEN st.conn.generations \ {r} ELSE st.conn.generations
    BY <1>7, <1>12 DEF Sent
  <2>8. Live(c, end.conn, more)
    <3> DEFINE e == Append(st.sent[r], part)
    <3>1. /\ end.conn.ids = IF Final \in Elements(e) THEN st.conn.ids \ {request[r].id} ELSE st.conn.ids
          /\ end.conn.generations =
                 IF Final \in Elements(e) THEN st.conn.generations \ {r} ELSE st.conn.generations
      BY <2>4, <2>7
    <3>2. Mine(r, c) /\ e # <<>> /\ e \in Seq(Parts)
      BY <1>5, <2>4
    <3>3. Live(c, st.conn, st.sent) /\ Final \notin Elements(st.sent[r])
      BY <2>1, <2>2
    <3> HIDE DEF e
    <3>4. Live(c, end.conn, [st.sent EXCEPT ![r] = e])
      BY <1>3, <1>6, <3>1, <3>2, <3>3, LiveSends DEF Mine
    <3> QED
      BY <3>4 DEF e, more
  <2>9. \A q \in All : TextRule(q, more[q])
    BY <2>1, <2>4, <2>5
  <2>10. \A q \in All : ~Mine(q, c) => more[q] = sent[q]
    BY <1>5, <2>5 DEF DrainRule
  <2>11. \A q \in All : Kind(q) # "chat" /\ Final \notin Elements(sent[q]) => Final \notin Elements(more[q])
    BY <1>5, <2>4, <2>5 DEF DrainRule
  <2>12. \A q \in end.conn.generations : Mine(q, c)
    BY <2>7 DEF DrainRule
  <2> QED
    BY <1>7, <1>9, <1>12, <2>2, <2>6, <2>7, <2>8, <2>9, <2>10, <2>11, <2>12 DEF DrainRule, end, events
<1>13. \/ st.conn.socket # "open" /\ out = st
       \/ st.conn.socket = "open" /\ Broken(st, out)
       \/ st.conn.socket = "open" /\ Sent(st, out, r, part)
  BY <1>3, <1>6, SendCases DEF out
<1> QED
  BY <1>10, <1>11, <1>12, <1>13

\* The whole of drain(), for an inbox that is neither closed nor overflowed.
LEMMA DrainWhole ==
    ASSUME IndInv, NEW c \in Clients, conn[c].socket = "open", ~Failed(conn[c])
    PROVE  DrainRule(c, Drained(State(c)), Len(conn[c].events))
<1> DEFINE events == conn[c].events
           After(n) == Drain(State(c))[n]
           S == {n \in Nat : n <= Len(events) => DrainRule(c, After(n), n)}
<1>1. /\ conn[c] \in Connections /\ events \in Seq(All \X Parts) /\ Len(events) \in Nat
      /\ sent \in [All -> Seq(Parts)] /\ cancelled \in SUBSET All
  BY LenProperties DEF IndInv, TypeOK, Connections
<1>2. State(c) \in States /\ State(c).conn = conn[c] /\ State(c).sent = sent /\ State(c).cancelled = cancelled
  BY <1>1 DEF State, States
<1>3. /\ After(0) = [State(c) EXCEPT !.conn.events = <<>>]
      /\ \A n \in 0 .. Len(events) - 1 : After(n + 1) = Delivered(After(n), events[n + 1])
  <2>1. State(c).conn.events = events /\ Len(State(c).conn.events) \in Nat
    BY <1>1, <1>2
  <2> DEFINE st == State(c)
  <2> HIDE DEF st
  <2>2. /\ Drain(st)[0] = [st EXCEPT !.conn.events = <<>>]
        /\ \A n \in 0 .. Len(st.conn.events) - 1 : Drain(st)[n + 1] = Delivered(Drain(st)[n], st.conn.events[n + 1])
    BY <2>1, Turns DEF st
  <2>3. st.conn.events = events
    BY <2>1 DEF st
  <2>4. \A n \in 0 .. Len(events) - 1 : Drain(st)[n + 1] = Delivered(Drain(st)[n], events[n + 1])
    BY <2>2, <2>3
  <2> QED
    BY <2>2, <2>4, Zenon DEF st
<1>4. DrainRule(c, After(0), 0)
  <2> DEFINE k == [conn[c] EXCEPT !.events = <<>>]
  <2>1. k \in Connections
    <3>1. ASSUME NEW g \in Connections, NEW e \in Seq(All \X Parts)
          PROVE  [g EXCEPT !.events = e] \in Connections
      BY DEF Connections
    <3>2. <<>> \in Seq(All \X Parts)
      OBVIOUS
    <3> QED
      BY <1>1, <3>1, <3>2
  <2>2. /\ k.socket = "open" /\ k.closed = conn[c].closed /\ k.ids = conn[c].ids
        /\ k.generations = conn[c].generations /\ k.input = conn[c].input
        /\ k.pending = conn[c].pending /\ k.overflow = conn[c].overflow /\ k.events = <<>>
    BY <1>1 DEF Connections
  <2>3. After(0) = [conn |-> k, sent |-> sent, cancelled |-> cancelled]
    BY <1>3 DEF State
  <2>4. After(0) \in States /\ After(0).conn = k /\ After(0).sent = sent /\ After(0).cancelled = cancelled
    BY <1>1, <2>1, <2>3 DEF States
  <2> HIDE DEF k, After
  <2>5. ConnRule(c, conn[c], sent, cancelled) /\ TextRules
    BY DEF IndInv, ConnRules
  <2>6. Live(c, conn[c], sent) /\ InboxRule(c, sent, events, 0) /\ ~conn[c].closed
    BY <2>5 DEF ConnRule, Failed
  <2>7. Live(c, k, sent)
    BY <2>2, <2>6 DEF Live
  <2> QED
    BY <2>2, <2>4, <2>5, <2>6, <2>7 DEF DrainRule, TextRules, ConnRule
<1>5. ASSUME NEW n \in S PROVE n + 1 \in S
  <2>1. CASE n < Len(events)
    <3>1. DrainRule(c, After(n), n) /\ n \in 0 .. Len(events) - 1
      BY <1>1, <2>1
    <3>2. DrainRule(c, Delivered(After(n), events[n + 1]), n + 1)
      BY <2>1, <3>1, DrainStep
    <3> QED
      BY <1>3, <3>1, <3>2
  <2>2. CASE ~(n < Len(events))
    BY <1>1, <2>2
  <2> QED
    BY <2>1, <2>2
<1>6. 0 \in S /\ S \in SUBSET Nat
  BY <1>4
<1>7. Len(events) \in S
  <2> HIDE DEF S
  <2> QED
    BY <1>1, <1>5, <1>6, Induction
<1>8. Drained(State(c)) = After(Len(events))
  BY <1>2 DEF Drained
<1> QED
  BY <1>1, <1>7, <1>8

-----------------------------------------------------------------------------
(* Steps of the event loop and of peers that leave the service alone.      *)

\* What is said of c's connection after a turn for it.
Fits(c, st) ==
    /\ st \in States
    /\ \A r \in All : TextRule(r, st.sent[r])
    /\ \A r \in All : ~(r \in Requests /\ Client(r) = c) => st.sent[r] = sent[r]
    /\ ConnRule(c, st.conn, st.sent, st.cancelled)
    /\ cancelled \subseteq st.cancelled

\* The rules of a connection are about its record, its requests and their texts alone.
LEMMA OthersKeep ==
    ASSUME NEW c, NEW k, NEW text, NEW more, NEW stopped, NEW further,
           ConnRule(c, k, text, stopped),
           \A r \in All : Dispatched(r) /\ Client(r) = c => more[r] = text[r],
           stopped \subseteq further
    PROVE  ConnRule(c, k, more, further)
<1>1. \A r \in All : Dispatched(r) /\ Client(r) = c => more[r] = text[r]
  OBVIOUS
<1>2. Flying(c, more) = Flying(c, text)
  BY <1>1 DEF Flying
<1>3. ASSUME Live(c, k, text) PROVE Live(c, k, more)
  <2>1. \A r \in k.generations : more[r] = text[r]
    BY <1>1, <1>3 DEF Live, Flying
  <2> QED
    BY <1>2, <1>3, <2>1 DEF Live
<1>4. ASSUME InboxRule(c, text, k.events, 0) PROVE InboxRule(c, more, k.events, 0)
  <2>1. \A r \in All : Dispatched(r) /\ Client(r) = c => Owed(r, more[r]) = Owed(r, text[r])
    BY <1>1
  <2> QED
    BY <1>4, <2>1 DEF InboxRule
<1> QED
  BY <1>3, <1>4 DEF ConnRule

\* They depend on the service by what it has.
LEMMA RulesKeep ==
    ASSUME UNCHANGED <<request, serviceVars>>
    PROVE  /\ (\A c \in Clients : ConnRule(c, conn'[c], sent', cancelled')) => ConnRules'
           /\ (\A r \in All : TextRule(r, sent'[r])) => TextRules'
           /\ QueueRules => QueueRules'
           /\ ServiceTypes => ServiceTypes'
           /\ \A r : Dispatched(r)' <=> Dispatched(r)
<1>1. /\ request' = request /\ queue' = queue /\ settled' = settled
      /\ emitted' = emitted /\ broken' = broken
  BY DEF serviceVars
<1>2. \A r : (Dispatched(r)' <=> Dispatched(r)) /\ Client(r)' = Client(r) /\ Kind(r)' = Kind(r)
             /\ Limit(r)' = Limit(r) /\ Ends(r)' = Ends(r)
  BY <1>1 DEF Dispatched, Client, Kind, Limit, Ends
<1>3. Requests' = Requests
  BY <1>1 DEF Requests
<1>4. \A r, c : Mine(r, c)' <=> Mine(r, c)
  BY <1>2 DEF Mine
<1>5. ASSUME NEW c PROVE Flying(c, sent)' = Flying(c, sent')
  BY <1>2 DEF Flying
<1>6. ASSUME NEW c \in Clients PROVE Live(c, conn[c], sent)' <=> Live(c, conn'[c], sent')
  BY <1>1, <1>2, <1>5 DEF Live
<1>7. ASSUME NEW c \in Clients
      PROVE  InboxRule(c, sent, conn[c].events, 0)' <=> InboxRule(c, sent', conn'[c].events, 0)
  <2>1. \A r : Owed(r, sent[r])' = Owed(r, sent'[r])
    BY <1>2 DEF Owed
  <2> QED
    BY <1>2, <2>1 DEF InboxRule
<1>8. ASSUME NEW c \in Clients, ConnRule(c, conn'[c], sent', cancelled')
      PROVE  ConnRule(c, conn[c], sent, cancelled)'
  <2>1. \A i \in 1 .. Len(conn'[c].events) : EventRule(c, conn'[c].events[i]) <=> EventRule(c, conn[c].events[i])'
    BY <1>1, <1>2, <1>4 DEF EventRule
  <2> QED
    BY <1>1, <1>2, <1>3, <1>4, <1>6, <1>7, <1>8, <2>1 DEF ConnRule
<1>9. (\A r \in All : TextRule(r, sent'[r])) => TextRules'
  BY <1>1, <1>2 DEF TextRules, TextRule
<1>10. QueueRules => QueueRules'
  BY <1>1, <1>2, <1>3 DEF QueueRules
<1>11. ServiceTypes => ServiceTypes'
  BY <1>1 DEF ServiceTypes
<1> QED
  BY <1>2, <1>8, <1>9, <1>10, <1>11 DEF ConnRules

\* What a turn for c keeps.
LEMMA Turn ==
    ASSUME IndInv, NEW c \in Clients, NEW st, Fits(c, st), Become(c, st),
           UNCHANGED <<request, serviceVars>>
    PROVE  /\ QueueRules' /\ TextRules' /\ ConnRules' /\ ServiceTypes'
           /\ conn' \in [Clients -> Connections] /\ cancelled' \subseteq All /\ sent' \in [All -> Seq(Parts)]
           /\ conn'[c] = st.conn /\ \A d \in Clients : d # c => conn'[d] = conn[d]
<1>1. /\ conn \in [Clients -> Connections]
      /\ conn' = [conn EXCEPT ![c] = st.conn] /\ sent' = st.sent /\ cancelled' = st.cancelled
  BY DEF IndInv, TypeOK, Become
<1>2. st.conn \in Connections /\ st.sent \in [All -> Seq(Parts)] /\ st.cancelled \subseteq All
  BY DEF Fits, States
<1>3. conn'[c] = st.conn /\ \A d \in Clients : d # c => conn'[d] = conn[d]
  BY <1>1
<1>4. ASSUME NEW d \in Clients PROVE ConnRule(d, conn'[d], sent', cancelled')
  <2>1. CASE d = c
    BY <1>1, <1>3, <2>1 DEF Fits
  <2>2. CASE d # c
    <3>1. ConnRule(d, conn[d], sent, cancelled) /\ QueueRules
      BY DEF IndInv, ConnRules
    <3>2. \A r \in All : Dispatched(r) /\ Client(r) = d => st.sent[r] = sent[r]
      BY <2>2, <3>1 DEF Fits, QueueRules
    <3>3. cancelled \subseteq st.cancelled
      BY DEF Fits
    <3>4. ConnRule(d, conn[d], st.sent, st.cancelled)
      BY <3>1, <3>2, <3>3, OthersKeep
    <3> QED
      BY <1>1, <1>3, <2>2, <3>4
  <2> QED
    BY <2>1, <2>2
<1>5. \A r \in All : TextRule(r, sent'[r])
  BY <1>1 DEF Fits
<1>6. QueueRules /\ ServiceTypes
  BY DEF IndInv, TypeOK
<1> QED
  BY <1>1, <1>2, <1>3, <1>4, <1>5, <1>6, RulesKeep

\* Frames that were not looked at stay as they are.
LEMMA FramesKeep ==
    ASSUME IndInv, UNCHANGED <<request, serviceVars>>, TypeOK,
           \A d \in Clients : conn'[d].input \in {conn[d].input, <<>>},
           loop'.at = "read" =>
               /\ loop.at = "read" /\ loop'.client = loop.client
               /\ Distinct(loop'.todo) /\ Elements(loop'.todo) \subseteq Elements(loop.todo),
           \A r \in All : sent'[r] # sent[r] =>
               \/ Dispatched(r)
               \/ /\ loop.at = "read" /\ r \in Elements(loop.todo)
                  /\ loop'.at = "read" => r \notin Elements(loop'.todo)
    PROVE  FrameRules'
<1> DEFINE Stays(r, c) == r \in Requests /\ Client(r) = c /\ ~Dispatched(r) /\ sent'[r] = <<>>
<1>1. FrameRules /\ LoopRules /\ QueueRules
  BY DEF IndInv
<1>2. request' = request /\ Requests' = Requests /\ \A r : Client(r)' = Client(r)
  BY DEF Requests, Client
<1>3. \A r : Dispatched(r)' <=> Dispatched(r)
  BY RulesKeep
<1>4. ASSUME NEW r \in All, NEW c \in Clients, Fresh(r, c),
             loop.at = "read" /\ r \in Elements(loop.todo) => loop'.at = "read" /\ r \in Elements(loop'.todo)
      PROVE  Stays(r, c)
  <2>1. sent'[r] = sent[r]
    BY <1>4 DEF Fresh
  <2> QED
    BY <1>4, <2>1 DEF Fresh
<1>5. \A s \in Seq(All) : Elements(s) \subseteq All
  BY ElementOfSeq DEF Elements
<1>6. ASSUME NEW c \in Clients
      PROVE  /\ Distinct(conn'[c].input)
             /\ \A r \in Elements(conn'[c].input) : Stays(r, c)
  <2>1. conn[c].input \in Seq(All) /\ conn'[c].input \in {conn[c].input, <<>>}
    BY DEF TypeOK, Connections
  <2>2. Distinct(conn[c].input)
    BY <1>1 DEF FrameRules
  <2>3. ASSUME NEW r \in Elements(conn[c].input) PROVE Stays(r, c)
    <3>1. r \in All /\ Fresh(r, c)
      BY <1>1, <1>5, <2>1 DEF FrameRules
    <3>2. ~(loop.at = "read" /\ r \in Elements(loop.todo))
      <4>1. ASSUME loop.at = "read", r \in Elements(loop.todo) PROVE FALSE
        <5>1. Fresh(r, loop.client) /\ r \notin Elements(conn[loop.client].input)
          BY <1>1, <4>1 DEF FrameRules
        <5>2. loop.client = c
          BY <3>1, <5>1 DEF Fresh
        <5> QED
          BY <5>1, <5>2
      <4> QED
        BY <4>1
    <3> QED
      BY <1>4, <3>1, <3>2
  <2> QED
    BY <2>1, <2>2, <2>3, EmptyElements
<1>7. ASSUME loop'.at = "read"
      PROVE  /\ Distinct(loop'.todo)
             /\ loop'.client = loop.client
             /\ \A r \in Elements(loop'.todo) : /\ Stays(r, loop.client)
                                                /\ r \notin Elements(conn'[loop.client].input)
  <2>1. /\ loop.at = "read" /\ loop'.client = loop.client /\ loop.client \in Clients
        /\ Distinct(loop'.todo) /\ Elements(loop'.todo) \subseteq Elements(loop.todo)
    BY <1>1, <1>7 DEF LoopRules
  <2>2. ASSUME NEW r \in Elements(loop'.todo)
        PROVE  Stays(r, loop.client) /\ r \notin Elements(conn'[loop.client].input)
    <3>1. r \in All /\ Fresh(r, loop.client) /\ r \notin Elements(conn[loop.client].input)
      BY <1>1, <1>5, <2>1 DEF FrameRules, TypeOK
    <3> QED
      BY <1>4, <1>7, <2>1, <3>1, EmptyElements
  <2> QED
    BY <2>1, <2>2
<1>8. \A r \in All : r \notin Requests => sent'[r] = <<>>
  <2>1. \A r \in All : r \notin Requests => sent[r] = <<>> /\ ~Dispatched(r)
    BY <1>1 DEF FrameRules, QueueRules
  <2>2. loop.at = "read" => \A r \in Elements(loop.todo) : r \in Requests
    BY <1>1 DEF FrameRules, Fresh
  <2> QED
    BY <2>1, <2>2
<1>9. ASSUME NEW r, NEW c, Stays(r, c) PROVE r \in Requests' /\ Client(r)' = c /\ ~Dispatched(r)' /\ sent'[r] = <<>>
  BY <1>2, <1>3, <1>9
<1> HIDE DEF Stays
<1>10. \A c \in Clients : /\ Distinct(conn'[c].input)
                         /\ \A r \in Elements(conn'[c].input) : Fresh(r, c)'
  BY <1>6, <1>9 DEF Fresh
<1>11. loop'.at = "read" =>
          /\ Distinct(loop'.todo)
          /\ \A r \in Elements(loop'.todo) : /\ Fresh(r, loop.client)'
                                             /\ r \notin Elements(conn'[loop'.client].input)
  BY <1>7, <1>9 DEF Fresh
<1> QED
  BY <1>2, <1>8, <1>10, <1>11 DEF FrameRules

\* What a turn leaves to wait for was waited for.
WasPending(r, d) ==
    \/ r \in Elements(conn[d].pending)
    \/ loop.at = "poll" /\ loop.client = d /\ r \in Elements(loop.todo)

\* PendingRules of steps that leave the service alone.
LEMMA PendingKeep ==
    ASSUME IndInv, UNCHANGED <<request, serviceVars>>, sent' \in [All -> Seq(Parts)],
           \A d \in Clients :
               /\ Distinct(conn'[d].pending)
               /\ \A r \in Elements(conn'[d].pending) :
                      WasPending(r, d) /\ (Final \notin Elements(sent[r]) => Final \notin Elements(sent'[r]))
               /\ conn'[d].socket = "open" => conn[d].socket \in {"open", "none"},
           loop'.at = "poll" =>
               /\ loop'.client \in Clients /\ Distinct(loop'.todo)
               /\ \A r \in Elements(loop'.todo) :
                      /\ WasPending(r, loop'.client)
                      /\ Final \notin Elements(sent[r]) => Final \notin Elements(sent'[r])
                      /\ r \notin Elements(conn'[loop'.client].pending)
    PROVE  PendingRules'
<1>1. PendingRules /\ LoopRules /\ ConnRules
  BY DEF IndInv
<1>2. \A r : (Dispatched(r)' <=> Dispatched(r)) /\ Client(r)' = Client(r) /\ Kind(r)' = Kind(r)
  BY RulesKeep DEF Client, Kind
<1>3. \A s \in Seq(All) : Elements(s) \subseteq All
  BY ElementOfSeq DEF Elements
<1>4. ASSUME NEW r \in All PROVE Answered(r) <=> Final \in Elements(sent[r])
  <2>1. sent[r] \in Seq(Parts)
    BY DEF IndInv, TypeOK
  <2> QED
    BY <2>1 DEF Answered, Elements, Range
<1>5. ASSUME NEW r \in All PROVE Answered(r)' <=> Final \in Elements(sent'[r])
  <2>1. sent'[r] \in Seq(Parts)
    OBVIOUS
  <2> QED
    BY <2>1 DEF Answered, Elements, Range
<1>6. \A d \in Clients : conn[d].pending \in Seq(All)
  BY DEF IndInv, TypeOK, Connections
<1>7. ASSUME NEW d \in Clients, NEW r, WasPending(r, d), Final \notin Elements(sent[r]) => Final \notin Elements(sent'[r])
      PROVE  /\ Dispatched(r)' /\ Client(r)' = d /\ Kind(r)' \in Watched
             /\ conn'[d].socket = "open" => ~Answered(r)'
  <2>1. r \in All /\ Pending(r, d) /\ conn[d].socket # "none"
    <3>1. CASE r \in Elements(conn[d].pending)
      <4>1. conn[d] # NoConn
        BY <3>1, EmptyElements DEF NoConn
      <4> QED
        BY <1>1, <1>3, <1>6, <3>1, <4>1 DEF PendingRules, ConnRules, ConnRule
    <3>2. CASE loop.at = "poll" /\ loop.client = d /\ r \in Elements(loop.todo)
      <4>1. loop.todo \in Seq(All)
        BY DEF IndInv, TypeOK
      <4> QED
        BY <1>1, <1>3, <3>2, <4>1 DEF PendingRules, LoopRules
    <3> QED
      BY <1>7, <3>1, <3>2 DEF WasPending
  <2>2. Dispatched(r) /\ Client(r) = d /\ Kind(r) \in Watched /\ (conn[d].socket = "open" => ~Answered(r))
    BY <2>1 DEF Pending
  <2>3. conn'[d].socket = "open" => conn[d].socket = "open"
    BY <2>1
  <2> QED
    BY <1>2, <1>4, <1>5, <1>7, <2>1, <2>2, <2>3
<1>8. \A d \in Clients : /\ Distinct(conn'[d].pending)
                         /\ \A r \in Elements(conn'[d].pending) : Pending(r, d)'
  BY <1>7 DEF Pending
<1>9. loop'.at = "poll" =>
          /\ Distinct(loop'.todo)
          /\ \A r \in Elements(loop'.todo) : /\ Pending(r, loop.client)'
                                             /\ r \notin Elements(conn'[loop'.client].pending)
  BY <1>7 DEF Pending
<1> QED
  BY <1>8, <1>9 DEF PendingRules

\* A change of what no rule of a connection is about.
LEMMA MinorChange ==
    ASSUME IndInv, NEW c \in Clients, NEW k \in Connections, conn[c].socket # "none",
           k.socket = conn[c].socket, k.ids = conn[c].ids, k.generations = conn[c].generations,
           k.events = conn[c].events, k.closed = conn[c].closed, k.overflow = conn[c].overflow
    PROVE  Fits(c, [conn |-> k, sent |-> sent, cancelled |-> cancelled])
<1> DEFINE st == [conn |-> k, sent |-> sent, cancelled |-> cancelled]
<1> SUFFICES Fits(c, st)
  OBVIOUS
<1>1. st \in States /\ st.conn = k /\ st.sent = sent /\ st.cancelled = cancelled
  BY DEF States, IndInv, TypeOK
<1>2. ConnRule(c, conn[c], sent, cancelled) /\ TextRules
  BY DEF IndInv, ConnRules
<1>3. Live(c, conn[c], sent) => Live(c, k, sent)
  BY DEF Live
<1>4. ConnRule(c, k, sent, cancelled)
  BY <1>2, <1>3 DEF ConnRule
<1> HIDE DEF st
<1> QED
  BY <1>1, <1>2, <1>4 DEF Fits, TextRules

\* A connection of which one field is replaced.
LEMMA ChangedRecords ==
    ASSUME NEW k \in Connections
    PROVE  /\ \A n \in Nat : [k EXCEPT !.unsent = n] \in Connections
           /\ \A s \in Seq(All) : [k EXCEPT !.input = s] \in Connections
           /\ \A s \in Seq(All) : [k EXCEPT !.pending = s] \in Connections
           /\ \A s \in Seq(All \X Parts) : [k EXCEPT !.events = s] \in Connections
           /\ [k EXCEPT !.overflow = TRUE] \in Connections
           /\ \A s \in {"open", "gone"} : [k EXCEPT !.socket = s] \in Connections
<1>1. \A n \in Nat : [k EXCEPT !.unsent = n] \in Connections
  BY DEF Connections
<1>2. \A s \in Seq(All) : [k EXCEPT !.input = s] \in Connections
  BY DEF Connections
<1>3. \A s \in Seq(All) : [k EXCEPT !.pending = s] \in Connections
  BY DEF Connections
<1>4. \A s \in Seq(All \X Parts) : [k EXCEPT !.events = s] \in Connections
  BY DEF Connections
<1>5. [k EXCEPT !.overflow = TRUE] \in Connections
  BY DEF Connections
<1>6. \A s \in {"open", "gone"} : [k EXCEPT !.socket = s] \in Connections
  BY DEF Connections
<1> QED
  BY <1>1, <1>2, <1>3, <1>4, <1>5, <1>6

\* A turn that leaves frames, futures and the loop alone.
LEMMA AsideStep ==
    ASSUME IndInv, NEW c \in Clients, NEW st, Fits(c, st), Become(c, st),
           UNCHANGED <<listening, request, loop, serviceVars>>,
           st.conn.input = conn[c].input, st.conn.pending = conn[c].pending,
           st.sent = sent,
           loop.at # "rest" /\ loop.client = c => st.conn.socket \in {"open", "closed"},
           st.conn.socket = "open" => conn[c].socket \in {"open", "none"}
    PROVE  IndInv'
<1>1. /\ QueueRules' /\ TextRules' /\ ConnRules' /\ ServiceTypes'
      /\ conn' \in [Clients -> Connections] /\ cancelled' \subseteq All /\ sent' \in [All -> Seq(Parts)]
      /\ conn'[c] = st.conn /\ \A d \in Clients : d # c => conn'[d] = conn[d]
  BY Turn
<1>2. /\ sent' = sent /\ loop' = loop /\ listening' = listening /\ request' = request
      /\ UNCHANGED <<request, serviceVars>>
  BY DEF Become
<1>3. /\ \A d \in Clients : conn'[d].input = conn[d].input /\ conn'[d].pending = conn[d].pending
      /\ \A d \in Clients : conn'[d].socket = "open" => conn[d].socket \in {"open", "none"}
  BY <1>1
<1>4. TypeOK /\ LoopRules /\ FrameRules /\ PendingRules
  BY DEF IndInv
<1>5. TypeOK'
  BY <1>1, <1>2, <1>4 DEF TypeOK
<1>6. LoopRules'
  BY <1>1, <1>2, <1>4 DEF LoopRules
<1>7. FrameRules'
  <2>1. loop.at = "read" => Distinct(loop.todo)
    BY <1>4 DEF FrameRules
  <2> QED
    BY <1>2, <1>3, <1>4, <2>1, FramesKeep
<1>8. PendingRules'
  <2>1. /\ \A d \in Clients : Distinct(conn'[d].pending)
        /\ \A d \in Clients : \A r \in Elements(conn'[d].pending) : WasPending(r, d)
    BY <1>3, <1>4 DEF PendingRules, WasPending
  <2>2. loop'.at = "poll" =>
            /\ loop'.client \in Clients /\ Distinct(loop'.todo)
            /\ \A r \in Elements(loop'.todo) : /\ WasPending(r, loop'.client)
                                               /\ r \notin Elements(conn'[loop'.client].pending)
    BY <1>2, <1>3, <1>4 DEF PendingRules, WasPending, LoopRules
  <2> QED
    BY <1>1, <1>2, <1>3, <2>1, <2>2, PendingKeep
<1> QED
  BY <1>1, <1>5, <1>6, <1>7, <1>8 DEF IndInv

\* accept(): nothing is asked on a connection that is new.
LEMMA AcceptStep ==
    ASSUME IndInv, NEW c \in Clients, Accept(c)
    PROVE  IndInv'
<1> DEFINE s == IF Cardinality(Served) >= MaxConnections THEN "gone" ELSE "open"
           k == [conn[c] EXCEPT !.socket = s]
           st == [conn |-> k, sent |-> sent, cancelled |-> cancelled]
<1>1. /\ loop = Resting /\ conn[c].socket = "none"
      /\ conn' = [conn EXCEPT ![c] = k]
      /\ UNCHANGED <<listening, request, loop, serviceVars, cancelled, sent>>
  BY DEF Accept
<1>2. conn[c] \in Connections /\ sent \in [All -> Seq(Parts)] /\ cancelled \in SUBSET All
  BY DEF IndInv, TypeOK
<1> HIDE DEF s
<1>3. k \in Connections /\ s \in {"open", "gone"}
  BY <1>2, ChangedRecords DEF s
<1>4. conn[c] = NoConn /\ \A r \in Requests : Client(r) # c
  BY <1>1 DEF IndInv, ConnRules, ConnRule
<1>5. /\ k.socket = s /\ k.events = <<>> /\ k.ids = {} /\ k.generations = {} /\ ~k.closed
      /\ k.input = <<>> /\ k.pending = <<>>
  BY <1>4 DEF NoConn
<1> HIDE DEF k
<1>6. \A r \in All : ~Mine(r, c) /\ ~(Dispatched(r) /\ Client(r) = c)
  BY <1>4 DEF Mine, IndInv, QueueRules
<1>7. Flying(c, sent) = {}
  BY <1>6 DEF Flying
<1>8. Live(c, k, sent)
  BY <1>5, <1>7 DEF Live
<1>9. InboxRule(c, sent, k.events, 0)
  BY <1>5, <1>6 DEF InboxRule
<1>10. ConnRule(c, k, sent, cancelled)
  <2>1. \A r \in Elements(queue) : r \in All
    BY ElementOfSeq DEF IndInv, TypeOK, ServiceTypes, Elements
  <2> QED
    BY <1>3, <1>4, <1>5, <1>6, <1>8, <1>9, <2>1 DEF ConnRule
<1>11. st \in States /\ st.conn = k /\ st.sent = sent /\ st.cancelled = cancelled
  BY <1>2, <1>3 DEF States
<1> HIDE DEF st
<1>12. Fits(c, st)
  BY <1>10, <1>11 DEF Fits, IndInv, TextRules
<1>13. Become(c, st)
  BY <1>1, <1>11 DEF Become
<1>14. loop.at = "rest"
  BY <1>1 DEF Resting
<1>15. st.conn.input = conn[c].input /\ st.conn.pending = conn[c].pending
  BY <1>4, <1>5, <1>11 DEF NoConn
<1> QED
  BY <1>1, <1>11, <1>12, <1>13, <1>14, <1>15, AsideStep

\* A peer reads a message.
LEMMA ClientReadStep ==
    ASSUME IndInv, NEW c \in Clients, ClientRead(c)
    PROVE  IndInv'
<1> DEFINE k == [conn[c] EXCEPT !.unsent = @ - 1]
           st == [conn |-> k, sent |-> sent, cancelled |-> cancelled]
<1>1. /\ conn[c].unsent > 0
      /\ conn' = [conn EXCEPT ![c] = k]
      /\ UNCHANGED <<listening, request, loop, serviceVars, cancelled, sent>>
  BY DEF ClientRead
<1>2. conn[c] \in Connections /\ conn[c].unsent - 1 \in Nat
  <2>1. conn[c] \in Connections
    BY DEF IndInv, TypeOK
  <2>2. conn[c].unsent \in Nat
    BY <2>1 DEF Connections
  <2> QED
    BY <1>1, <2>1, <2>2
<1>3. conn[c].socket # "none"
  <2>1. conn[c].socket = "none" => conn[c] = NoConn
    BY DEF IndInv, ConnRules, ConnRule
  <2> QED
    BY <1>1, <2>1 DEF NoConn
<1>4. /\ k \in Connections /\ k.socket = conn[c].socket /\ k.ids = conn[c].ids
      /\ k.generations = conn[c].generations /\ k.events = conn[c].events /\ k.closed = conn[c].closed
      /\ k.overflow = conn[c].overflow /\ k.input = conn[c].input /\ k.pending = conn[c].pending
  <2>1. k \in Connections
    BY <1>2, ChangedRecords
  <2> QED
    BY <1>2, <2>1 DEF Connections
<1> HIDE DEF k
<1>5. Fits(c, st)
  BY <1>3, <1>4, MinorChange
<1>6. st.conn = k /\ st.sent = sent /\ st.cancelled = cancelled
  OBVIOUS
<1> HIDE DEF st
<1>7. Become(c, st)
  BY <1>1, <1>6 DEF Become
<1>8. loop.at # "rest" /\ loop.client = c => conn[c].socket \in {"open", "closed"}
  BY DEF IndInv, LoopRules
<1> QED
  BY <1>1, <1>4, <1>5, <1>6, <1>7, <1>8, AsideStep

\* A state of c's connection as it is.
LEMMA StateOf ==
    ASSUME IndInv, NEW c \in Clients
    PROVE  /\ State(c) \in States
           /\ State(c).conn = conn[c] /\ State(c).sent = sent /\ State(c).cancelled = cancelled
  BY DEF IndInv, TypeOK, State, States

\* A connection breaks.
LEMMA AbortFits ==
    ASSUME IndInv, NEW c \in Clients, NEW st, Fits(c, st), st.conn.socket = "open",
           NEW out \in States, Kept(st, out), Broken(st, out)
    PROVE  Fits(c, out)
<1>1. /\ out.conn.socket = "closed" /\ out.conn.closed /\ out.conn.generations = st.conn.generations
      /\ out.cancelled = st.cancelled \cup st.conn.generations /\ out.sent = st.sent
      /\ out.conn.events = st.conn.events
  BY DEF Broken, Kept
<1>2. ConnRule(c, st.conn, st.sent, st.cancelled) /\ Live(c, st.conn, st.sent)
  BY DEF Fits, ConnRule
<1>3. ASSUME NEW r \in Elements(queue), Mine(r, c) PROVE r \in out.cancelled
  <2>1. r \in All /\ r \notin settled /\ Dispatched(r) /\ Client(r) = c /\ Kind(r) \in Streams
    BY <1>3, ElementOfSeq DEF IndInv, TypeOK, ServiceTypes, QueueRules, Mine, Elements
  <2>2. TextRule(r, st.sent[r]) /\ st.sent[r] \in Seq(Parts)
    BY <2>1 DEF Fits, States
  <2>3. Final \notin Elements(st.sent[r])
    BY <2>1, <2>2, Texts
  <2> QED
    BY <1>1, <1>2, <2>1, <2>3 DEF Live, Flying
<1>4. ConnRule(c, out.conn, out.sent, out.cancelled)
  BY <1>1, <1>2, <1>3 DEF ConnRule
<1> QED
  BY <1>1, <1>4 DEF Fits

\* A connection as it is.
LEMMA StateFits ==
    ASSUME IndInv, NEW c \in Clients
    PROVE  Fits(c, State(c))
  BY StateOf DEF Fits, IndInv, TextRules, ConnRules

\* A peer goes away.
LEMMA ClientGoneStep ==
    ASSUME IndInv, NEW c \in Clients, ClientGone(c)
    PROVE  IndInv'
<1> DEFINE st == Aborted(State(c))
<1>1. /\ loop = Resting /\ conn[c].socket = "open" /\ Become(c, st)
      /\ UNCHANGED <<listening, request, loop, serviceVars>>
  BY DEF ClientGone
<1>2. st \in States /\ Kept(State(c), st) /\ Broken(State(c), st)
  BY StateOf, AbortedCase
<1> HIDE DEF st
<1>3. Fits(c, st)
  BY <1>1, <1>2, StateOf, StateFits, AbortFits
<1>4. /\ st.conn.input = conn[c].input /\ st.conn.pending = conn[c].pending /\ st.sent = sent
      /\ st.conn.socket = "closed"
  BY <1>2, StateOf DEF Kept, Broken
<1> QED
  BY <1>1, <1>3, <1>4, AsideStep

\* read() takes what has arrived.
LEMMA ReadBeginStep ==
    ASSUME IndInv, NEW c \in Clients, ReadBegin(c)
    PROVE  IndInv'
<1> DEFINE k == [conn[c] EXCEPT !.input = <<>>]
           st == [conn |-> k, sent |-> sent, cancelled |-> cancelled]
<1>1. /\ loop = Resting /\ conn[c].socket = "open"
      /\ loop' = [at |-> "read", client |-> c, todo |-> conn[c].input]
      /\ conn' = [conn EXCEPT ![c] = k]
      /\ UNCHANGED <<listening, request, serviceVars, cancelled, sent>>
  BY DEF ReadBegin
<1>2. conn[c] \in Connections /\ conn[c].input \in Seq(All) /\ <<>> \in Seq(All)
  BY DEF IndInv, TypeOK, Connections
<1>3. k \in Connections
  BY <1>2, ChangedRecords
<1>4. /\ k.socket = conn[c].socket /\ k.ids = conn[c].ids
      /\ k.generations = conn[c].generations /\ k.events = conn[c].events /\ k.closed = conn[c].closed
      /\ k.overflow = conn[c].overflow /\ k.input = <<>> /\ k.pending = conn[c].pending
  BY <1>2 DEF Connections
<1> HIDE DEF k
<1>5. Fits(c, st)
  BY <1>1, <1>3, <1>4, MinorChange
<1>6. st.conn = k /\ st.sent = sent /\ st.cancelled = cancelled
  OBVIOUS
<1> HIDE DEF st
<1>7. Become(c, st)
  BY <1>1, <1>6 DEF Become
<1>8. /\ QueueRules' /\ TextRules' /\ ConnRules' /\ ServiceTypes'
      /\ conn' \in [Clients -> Connections] /\ cancelled' \subseteq All /\ sent' \in [All -> Seq(Parts)]
      /\ conn'[c] = k /\ \A d \in Clients : d # c => conn'[d] = conn[d]
  BY <1>1, <1>5, <1>6, <1>7, Turn
<1>9. TypeOK /\ LoopRules /\ FrameRules /\ PendingRules
  BY DEF IndInv
<1>10. loop'.at = "read" /\ loop'.client = c /\ loop'.todo = conn[c].input /\ loop.at = "rest"
  BY <1>1 DEF Resting
<1>11. TypeOK'
  BY <1>1, <1>2, <1>8, <1>9 DEF TypeOK
<1>12. LoopRules'
  BY <1>1, <1>4, <1>8, <1>10 DEF LoopRules
<1>13. FrameRules'
  <2>1. UNCHANGED <<request, sent>> /\ Requests' = Requests /\ \A r : Client(r)' = Client(r)
    BY <1>1 DEF Requests, Client
  <2>2. \A r : Dispatched(r)' <=> Dispatched(r)
    BY <1>1, RulesKeep
  <2>3. \A d \in Clients : \A r : Fresh(r, d) => Fresh(r, d)'
    BY <2>1, <2>2 DEF Fresh
  <2>4. \A d \in Clients : d # c => conn'[d].input = conn[d].input
    BY <1>8
  <2>5. conn'[c].input = <<>>
    BY <1>4, <1>8
  <2>6. \A d \in Clients : Distinct(conn'[d].input) /\ \A r \in Elements(conn'[d].input) : Fresh(r, d)'
    BY <1>9, <2>3, <2>4, <2>5, EmptyElements DEF FrameRules
  <2>7. Distinct(conn[c].input) /\ \A r \in Elements(conn[c].input) : Fresh(r, c)'
    BY <1>9, <2>3 DEF FrameRules
  <2>8. \A r \in Elements(loop'.todo) : Fresh(r, loop.client)' /\ r \notin Elements(conn'[loop'.client].input)
    BY <1>10, <2>5, <2>7, EmptyElements DEF Fresh
  <2> QED
    BY <1>9, <1>10, <2>1, <2>6, <2>7, <2>8 DEF FrameRules
<1>14. PendingRules'
  <2>1. \A d \in Clients : /\ conn'[d].pending = conn[d].pending
                           /\ conn'[d].socket = "open" => conn[d].socket = "open"
    BY <1>4, <1>8
  <2>2. \A d \in Clients : Distinct(conn'[d].pending) /\ \A r \in Elements(conn'[d].pending) : WasPending(r, d)
    BY <1>9, <2>1 DEF PendingRules, WasPending
  <2> QED
    BY <1>1, <1>8, <1>10, <2>1, <2>2, PendingKeep
<1> QED
  BY <1>8, <1>11, <1>12, <1>13, <1>14 DEF IndInv

\* read() and the futures end.
LEMMA RestStep ==
    ASSUME IndInv, ReadEnd \/ PollEnd
    PROVE  IndInv'
<1>1. /\ loop' = Resting
      /\ UNCHANGED <<listening, conn, request, serviceVars, cancelled, sent>>
  BY DEF ReadEnd, PollEnd
<1>2. TypeOK /\ FrameRules /\ PendingRules /\ QueueRules /\ TextRules /\ ConnRules
  BY DEF IndInv
<1>3. loop'.at = "rest" /\ loop' \in [at : {"rest", "read", "poll"}, client : Clients \cup {"none"}, todo : Seq(All)]
  BY <1>1 DEF Resting, NoConn
<1>4. QueueRules' /\ TextRules' /\ ConnRules' /\ ServiceTypes'
  <2>1. \A c \in Clients : ConnRule(c, conn'[c], sent', cancelled')
    BY <1>1, <1>2 DEF ConnRules
  <2>2. \A r \in All : TextRule(r, sent'[r])
    BY <1>1, <1>2 DEF TextRules
  <2> QED
    BY <1>1, <1>2, <2>1, <2>2, RulesKeep DEF TypeOK
<1>5. TypeOK'
  BY <1>1, <1>2, <1>3, <1>4 DEF TypeOK
<1>6. FrameRules'
  BY <1>1, <1>2, <1>3, FramesKeep
<1>7. PendingRules'
  <2>1. \A d \in Clients : Distinct(conn'[d].pending) /\ \A r \in Elements(conn'[d].pending) : WasPending(r, d)
    BY <1>1, <1>2 DEF PendingRules, WasPending
  <2>2. sent' \in [All -> Seq(Parts)]
    BY <1>1, <1>2 DEF TypeOK
  <2> QED
    BY <1>1, <1>3, <2>1, <2>2, PendingKeep
<1> QED
  BY <1>3, <1>4, <1>5, <1>6, <1>7 DEF IndInv, LoopRules

-----------------------------------------------------------------------------
(* Frames that are answered at once.                                       *)

\* The answer to a request that the service was not asked.
LEMMA AnswerFits ==
    ASSUME IndInv, NEW c \in Clients, NEW st, Fits(c, st), NEW r \in All, Fresh(r, c), st.sent = sent
    PROVE  LET out == Send(st, r, Final)
           IN  /\ Fits(c, out) /\ Kept(st, out)
               /\ out.conn.socket \in {st.conn.socket, "closed"}
               /\ st.conn.socket # "open" => out.conn.socket = st.conn.socket
               /\ \A q \in All : q # r => out.sent[q] = sent[q]
<1> DEFINE out == Send(st, r, Final)
<1>1. Final \in Parts /\ MaxEvents \in Nat
  BY IpcAssumption DEF Parts, Final
<1>2. st \in States
  BY DEF Fits
<1>3. /\ out \in States /\ Kept(st, out)
      /\ \/ st.conn.socket # "open" /\ out = st
         \/ st.conn.socket = "open" /\ Broken(st, out)
         \/ st.conn.socket = "open" /\ Sent(st, out, r, Final)
  BY <1>1, <1>2, SendCases
<1> HIDE DEF out
<1>4. CASE st.conn.socket # "open" /\ out = st
  BY <1>3, <1>4 DEF out
<1>5. CASE st.conn.socket = "open" /\ Broken(st, out)
  <2>1. Fits(c, out)
    BY <1>3, <1>5, AbortFits
  <2> QED
    BY <1>3, <1>5, <2>1 DEF Broken, out
<1>6. CASE st.conn.socket = "open" /\ Sent(st, out, r, Final)
  <2>1. /\ out.conn.socket = "open" /\ out.conn.closed = st.conn.closed /\ out.conn.ids = st.conn.ids
        /\ out.conn.generations = st.conn.generations /\ out.cancelled = st.cancelled
        /\ out.sent = [sent EXCEPT ![r] = Append(@, Final)]
        /\ out.conn.events = st.conn.events /\ out.conn.overflow = st.conn.overflow
    BY <1>3, <1>6 DEF Sent, Kept
  <2>2. sent \in [All -> Seq(Parts)] /\ sent[r] = <<>> /\ ~Dispatched(r) /\ r \in Requests /\ Client(r) = c
    BY DEF IndInv, TypeOK, Fresh
  <2>3. out.sent[r] = <<Final>> /\ \A q \in All : q # r => out.sent[q] = sent[q]
    BY <2>1, <2>2
  <2>4. ConnRule(c, st.conn, out.sent, out.cancelled)
    <3>1. ConnRule(c, st.conn, sent, st.cancelled)
      BY DEF Fits
    <3>2. \A q \in All : Dispatched(q) /\ Client(q) = c => out.sent[q] = sent[q]
      BY <2>2, <2>3
    <3>3. st.cancelled \subseteq out.cancelled
      BY <2>1
    <3> QED
      BY <3>1, <3>2, <3>3, OthersKeep
  <2>5. Live(c, st.conn, out.sent) => Live(c, out.conn, out.sent)
    BY <2>1 DEF Live
  <2>6. ConnRule(c, out.conn, out.sent, out.cancelled)
    BY <1>6, <2>1, <2>4, <2>5 DEF ConnRule
  <2>7. \A q \in All : TextRule(q, out.sent[q])
    BY <2>2, <2>3 DEF TextRule, Fits
  <2>8. Fits(c, out)
    BY <1>3, <2>1, <2>2, <2>3, <2>6, <2>7 DEF Fits
  <2> QED
    BY <1>3, <1>6, <2>1, <2>3, <2>8 DEF out
<1> QED
  BY <1>3, <1>4, <1>5, <1>6

\* A frame was looked at.
LEMMA LookedAt ==
    ASSUME IndInv, NEW c \in Clients, NEW r, Reading(c, r), NextFrame
    PROVE  /\ loop.at = "read" /\ loop.client = c /\ loop.todo \in Seq(All)
           /\ r \in All /\ Fresh(r, c) /\ r \in Elements(loop.todo)
           /\ conn[c].socket \in {"open", "closed"}
           /\ loop'.at = "read" /\ loop'.client = c /\ loop'.todo \in Seq(All)
           /\ loop' \in [at : {"rest", "read", "poll"}, client : Clients \cup {"none"}, todo : Seq(All)]
           /\ Distinct(loop'.todo)
           /\ Elements(loop'.todo) \subseteq Elements(loop.todo) /\ r \notin Elements(loop'.todo)
<1>1. /\ loop \in [at : {"rest", "read", "poll"}, client : Clients \cup {"none"}, todo : Seq(All)]
      /\ loop.at = "read" /\ loop.client = c /\ loop.todo # <<>> /\ r = Head(loop.todo)
      /\ loop' = [loop EXCEPT !.todo = Tail(@)]
  BY DEF IndInv, TypeOK, Reading, NextFrame
<1>2. loop.todo \in Seq(All)
  BY <1>1
<1>3. /\ r \in All /\ Tail(loop.todo) \in Seq(All)
      /\ r \in Elements(loop.todo)
      /\ Elements(loop.todo) = Elements(Tail(loop.todo)) \cup {r}
      /\ Distinct(loop.todo) => Distinct(Tail(loop.todo)) /\ r \notin Elements(Tail(loop.todo))
  BY <1>1, <1>2, TailElements
<1>4. loop'.at = "read" /\ loop'.client = c /\ loop'.todo = Tail(loop.todo)
      /\ loop' \in [at : {"rest", "read", "poll"}, client : Clients \cup {"none"}, todo : Seq(All)]
  BY <1>1, <1>3
<1>5. Distinct(loop.todo) /\ Fresh(r, c) /\ conn[c].socket \in {"open", "closed"}
  BY <1>1, <1>3 DEF IndInv, FrameRules, LoopRules
<1> QED
  BY <1>1, <1>2, <1>3, <1>4, <1>5

\* A frame that is answered at once, refused or not.
LEMMA FrameStep ==
    ASSUME IndInv, NEW c \in Clients, NEW r, Reading(c, r), NextFrame,
           NEW st, Fits(c, st), Become(c, st), UNCHANGED <<listening, request, serviceVars>>,
           st.conn.input = conn[c].input, st.conn.pending = conn[c].pending,
           st.conn.socket \in {conn[c].socket, "closed"},
           \A q \in All : q # r => st.sent[q] = sent[q]
    PROVE  IndInv'
<1>1. /\ QueueRules' /\ TextRules' /\ ConnRules' /\ ServiceTypes'
      /\ conn' \in [Clients -> Connections] /\ cancelled' \subseteq All /\ sent' \in [All -> Seq(Parts)]
      /\ conn'[c] = st.conn /\ \A d \in Clients : d # c => conn'[d] = conn[d]
  BY Turn
<1>2. /\ loop.at = "read" /\ loop.client = c /\ loop.todo \in Seq(All)
      /\ r \in All /\ Fresh(r, c) /\ r \in Elements(loop.todo)
      /\ conn[c].socket \in {"open", "closed"}
      /\ loop'.at = "read" /\ loop'.client = c /\ loop'.todo \in Seq(All)
      /\ loop' \in [at : {"rest", "read", "poll"}, client : Clients \cup {"none"}, todo : Seq(All)]
      /\ Distinct(loop'.todo)
      /\ Elements(loop'.todo) \subseteq Elements(loop.todo) /\ r \notin Elements(loop'.todo)
  BY LookedAt
<1>3. sent' = st.sent
  BY DEF Become
<1>4. TypeOK /\ PendingRules /\ QueueRules
  BY DEF IndInv
<1>5. TypeOK'
  BY <1>1, <1>2, <1>4 DEF TypeOK
<1>6. LoopRules'
  BY <1>1, <1>2 DEF LoopRules
<1>7. \A d \in Clients : /\ conn'[d].input = conn[d].input /\ conn'[d].pending = conn[d].pending
                         /\ conn'[d].socket = "open" => conn[d].socket = "open"
  BY <1>1, <1>2
<1>8. FrameRules'
  BY <1>2, <1>3, <1>4, <1>7, FramesKeep
<1>9. PendingRules'
  <2>1. \A d \in Clients : Distinct(conn'[d].pending) /\ \A q \in Elements(conn'[d].pending) : WasPending(q, d)
    BY <1>4, <1>7 DEF PendingRules, WasPending
  <2>2. ASSUME NEW d \in Clients, NEW q \in Elements(conn'[d].pending) PROVE sent'[q] = sent[q]
    <3>1. q \in All /\ Dispatched(q)
      <4>1. conn[d].pending \in Seq(All) /\ conn'[d].pending = conn[d].pending
        BY <1>4, <1>7 DEF TypeOK, Connections
      <4> QED
        BY <1>4, <2>2, <4>1, ElementOfSeq DEF PendingRules, Pending, Elements
    <3> QED
      BY <1>2, <1>3, <3>1 DEF Fresh
  <2> QED
    BY <1>1, <1>2, <1>7, <2>1, <2>2, PendingKeep
<1> QED
  BY <1>1, <1>5, <1>6, <1>8, <1>9 DEF IndInv

\* dispatch() refuses, or answers by itself.
LEMMA ReadRefusedStep ==
    ASSUME IndInv, NEW c \in Clients, NEW r, ReadRefused(c, r) \/ ReadLocal(c, r)
    PROVE  IndInv'
<1> DEFINE out == Send(State(c), r, Final)
<1>1. /\ Reading(c, r) /\ NextFrame /\ Become(c, out) /\ UNCHANGED <<listening, request, serviceVars>>
  BY DEF ReadRefused, ReadLocal
<1>2. r \in All /\ Fresh(r, c)
  BY <1>1, LookedAt
<1>3. /\ Fits(c, out) /\ Kept(State(c), out) /\ out.conn.socket \in {conn[c].socket, "closed"}
      /\ \A q \in All : q # r => out.sent[q] = sent[q]
  BY <1>2, StateOf, StateFits, AnswerFits
<1>4. out.conn.input = conn[c].input /\ out.conn.pending = conn[c].pending
  BY <1>3, StateOf DEF Kept
<1> HIDE DEF out
<1> QED
  BY <1>1, <1>3, <1>4, FrameStep

\* cancel: the token of a stream of this connection, if there is one.
LEMMA ReadCancelStep ==
    ASSUME IndInv, NEW c \in Clients, NEW r, ReadCancel(c, r)
    PROVE  IndInv'
<1> DEFINE found == {request[r].target} \cap conn[c].generations
           st == [State(c) EXCEPT !.cancelled = @ \cup found]
           out == Send(st, r, Final)
<1>1. /\ Reading(c, r) /\ NextFrame /\ Become(c, out) /\ UNCHANGED <<listening, request, serviceVars>>
  BY DEF ReadCancel
<1>2. r \in All /\ Fresh(r, c)
  BY <1>1, LookedAt
<1>3. found \subseteq All
  BY DEF IndInv, TypeOK, Connections
<1> HIDE DEF found
<1>4. st \in States /\ st.conn = conn[c] /\ st.sent = sent /\ st.cancelled = cancelled \cup found
  BY <1>3, StateOf DEF States
<1> HIDE DEF st
<1>5. Fits(c, st)
  <2>1. ConnRule(c, conn[c], sent, cancelled) /\ TextRules
    BY DEF IndInv, ConnRules
  <2>2. ConnRule(c, conn[c], sent, cancelled \cup found)
    BY <2>1, OthersKeep
  <2> QED
    BY <1>4, <2>1, <2>2 DEF Fits, TextRules
<1>6. /\ Fits(c, out) /\ Kept(st, out) /\ out.conn.socket \in {conn[c].socket, "closed"}
      /\ \A q \in All : q # r => out.sent[q] = sent[q]
  BY <1>2, <1>4, <1>5, AnswerFits
<1>7. out.conn.input = conn[c].input /\ out.conn.pending = conn[c].pending
  BY <1>4, <1>6 DEF Kept
<1> HIDE DEF out
<1> QED
  BY <1>1, <1>6, <1>7, FrameStep

-----------------------------------------------------------------------------
(* The timer's turn.                                                       *)

\* The streams of c that the service holds are known to a connection that was not dropped.
LEMMA StreamsStop ==
    ASSUME IndInv, NEW c \in Clients, NEW st, Fits(c, st), st.conn.socket \in {"open", "closed"},
           NEW r \in Elements(queue), Mine(r, c)
    PROVE  r \in st.cancelled \cup st.conn.generations
<1>1. ConnRule(c, st.conn, st.sent, st.cancelled)
  BY DEF Fits
<1>2. CASE st.conn.socket = "closed"
  BY <1>1, <1>2 DEF ConnRule
<1>3. CASE st.conn.socket = "open"
  <2>1. r \in All /\ r \notin settled /\ Dispatched(r) /\ Client(r) = c /\ Kind(r) \in Streams
    BY ElementOfSeq DEF IndInv, TypeOK, ServiceTypes, QueueRules, Mine, Elements
  <2>2. TextRule(r, st.sent[r]) /\ st.sent[r] \in Seq(Parts)
    BY <2>1 DEF Fits, States
  <2>3. Final \notin Elements(st.sent[r])
    BY <2>1, <2>2, Texts
  <2> QED
    BY <1>1, <1>3, <2>1, <2>3 DEF ConnRule, Live, Flying
<1> QED
  BY <1>2, <1>3

\* disconnect() leaves nothing of a connection.
LEMMA GoneFits ==
    ASSUME IndInv, NEW c \in Clients, NEW st, Fits(c, st), st.conn.socket \in {"open", "closed"}
    PROVE  /\ Fits(c, Disconnected(st))
           /\ Disconnected(st).conn.input = <<>> /\ Disconnected(st).conn.pending = <<>>
           /\ Disconnected(st).conn.socket = "gone"
           /\ Disconnected(st).sent = st.sent
           /\ Disconnected(st).cancelled = st.cancelled \cup st.conn.generations
<1> DEFINE out == Disconnected(st)
           k == [NoConn EXCEPT !.socket = "gone", !.closed = TRUE, !.overflow = st.conn.overflow]
<1>1. st \in States /\ st.conn \in Connections
  BY DEF Fits, States
<1>2. /\ k.socket = "gone" /\ k.closed /\ k.generations = {} /\ k.events = <<>>
      /\ k.input = <<>> /\ k.pending = <<>> /\ k \in Connections
  <2>1. ASSUME NEW b \in BOOLEAN, NEW g, g = [NoConn EXCEPT !.socket = "gone", !.closed = TRUE, !.overflow = b]
        PROVE  /\ g.socket = "gone" /\ g.closed = TRUE /\ g.generations = {} /\ g.events = <<>>
               /\ g.input = <<>> /\ g.pending = <<>>
               /\ g \in Connections
    <3>1. g = [socket |-> "gone", input |-> <<>>, ids |-> {}, generations |-> {}, pending |-> <<>>,
               events |-> <<>>, closed |-> TRUE, overflow |-> b, unsent |-> 0]
      BY <2>1 DEF NoConn
    <3>2. <<>> \in Seq(All) /\ <<>> \in Seq(All \X Parts)
      OBVIOUS
    <3>3. g \in Connections
      BY <3>1, <3>2 DEF Connections
    <3> QED
      BY <3>1, <3>3
  <2>2. st.conn.overflow \in BOOLEAN
    BY <1>1 DEF Connections
  <2> QED
    BY <2>1, <2>2
<1> HIDE DEF k
<1>3. /\ out.conn = k /\ out.sent = st.sent /\ out.cancelled = st.cancelled \cup st.conn.generations
      /\ out \in States
  <2>1. out = [st EXCEPT !.conn = k, !.cancelled = @ \cup st.conn.generations]
    BY Zenon DEF Disconnected, k
  <2>2. st.conn.generations \subseteq All
    BY <1>1 DEF Connections
  <2> HIDE DEF out
  <2> QED
    BY <1>1, <1>2, <2>1, <2>2 DEF States
<1> HIDE DEF out
<1>4. \A r \in Elements(queue) : Mine(r, c) => r \in out.cancelled \cup k.generations
  BY <1>3, StreamsStop
<1>5. ConnRule(c, out.conn, out.sent, out.cancelled)
  BY <1>2, <1>3, <1>4 DEF ConnRule
<1>6. Fits(c, out)
  BY <1>3, <1>5 DEF Fits
<1> QED
  BY <1>2, <1>3, <1>6 DEF out

\* What drain() leaves of a connection, also of one that failed.
DrainedRule(c, st) ==
    /\ Fits(c, st)
    /\ st.conn.input = conn[c].input /\ st.conn.pending = conn[c].pending
    /\ st.conn.socket \in {"open", "closed"}
    /\ st.conn.socket = "open" => conn[c].socket = "open"
    /\ \A r \in All : ~Mine(r, c) => st.sent[r] = sent[r]
    /\ \A r \in All : Kind(r) # "chat" /\ Final \notin Elements(sent[r]) => Final \notin Elements(st.sent[r])
    /\ st.conn.socket = "open" =>
           /\ st.conn.events = <<>>
           /\ \A r \in All : Dispatched(r) /\ Client(r) = c => Owed(r, st.sent[r]) = {}
    /\ \A r \in st.cancelled \ cancelled : Mine(r, c) /\ st.conn.socket = "closed"

\* The first drain() of a turn, of an inbox that has failed and of one that has not.
LEMMA AfterDrainRule ==
    ASSUME IndInv, NEW c \in Clients, conn[c].socket \in {"open", "closed"}
    PROVE  DrainedRule(c, AfterDrain(c))
<1>1. /\ conn[c] \in Connections /\ conn[c].events \in Seq(All \X Parts)
      /\ sent \in [All -> Seq(Parts)] /\ cancelled \in SUBSET All
  BY DEF IndInv, TypeOK, Connections
<1>2. ConnRule(c, conn[c], sent, cancelled) /\ TextRules /\ QueueRules
  BY DEF IndInv, ConnRules
<1>3. CASE Failed(conn[c])
  <2> DEFINE k == [conn[c] EXCEPT !.events = <<>>]
             st == [conn |-> k, sent |-> sent, cancelled |-> cancelled]
             out == Aborted(st)
  <2>1. /\ k \in Connections /\ k.events = <<>> /\ k.input = conn[c].input /\ k.pending = conn[c].pending
        /\ k.socket = conn[c].socket /\ k.generations = conn[c].generations
    <3>1. <<>> \in Seq(All \X Parts)
      OBVIOUS
    <3>2. k \in Connections
      BY <1>1, <3>1, ChangedRecords
    <3> QED
      BY <1>1, <3>2 DEF Connections
  <2>2. AfterDrain(c) = out
    BY <1>3 DEF AfterDrain, DrainFailed, State
  <2> HIDE DEF k
  <2>3. st \in States /\ st.conn = k /\ st.sent = sent /\ st.cancelled = cancelled
    BY <1>1, <2>1 DEF States
  <2> HIDE DEF st
  <2>4. out \in States /\ Kept(st, out) /\ Broken(st, out)
    BY <2>3, AbortedCase
  <2> HIDE DEF out
  <2>5. /\ out.conn.socket = "closed" /\ out.conn.closed /\ out.conn.generations = conn[c].generations
        /\ out.cancelled = cancelled \cup conn[c].generations /\ out.sent = sent
        /\ out.conn.events = <<>> /\ out.conn.input = conn[c].input /\ out.conn.pending = conn[c].pending
    BY <2>1, <2>3, <2>4 DEF Kept, Broken
  <2>6. \A r \in Elements(queue) : Mine(r, c) => r \in out.cancelled \cup out.conn.generations
    BY <2>5, StateOf, StateFits, StreamsStop
  <2>7. ConnRule(c, out.conn, out.sent, out.cancelled)
    BY <1>2, <2>5, <2>6 DEF ConnRule
  <2>8. Fits(c, out)
    BY <1>2, <2>4, <2>5, <2>7 DEF Fits, TextRules
  <2>9. \A r \in out.cancelled \ cancelled : Mine(r, c)
    BY <1>2, <2>5 DEF ConnRule
  <2> QED
    BY <2>2, <2>5, <2>8, <2>9 DEF DrainedRule
<1>4. CASE ~Failed(conn[c])
  <2> DEFINE events == conn[c].events
             m == Len(events)
             out == Drained(State(c))
  <2>1. conn[c].socket = "open"
    BY <1>2, <1>4 DEF ConnRule, Failed
  <2>2. AfterDrain(c) = out
    BY <1>4 DEF AfterDrain
  <2>3. DrainRule(c, out, m)
    BY <1>4, <2>1, DrainWhole
  <2> HIDE DEF out
  <2>4. m \in Nat
    BY <1>1, LenProperties
  <2>5. ASSUME out.conn.socket = "open", NEW r \in All, Dispatched(r), Client(r) = c
        PROVE  Owed(r, out.sent[r]) = {}
    <3>1. InboxRule(c, out.sent, events, m)
      BY <2>3, <2>5 DEF DrainRule
    <3>2. m + 1 .. Len(events) = {}
      BY <2>4
    <3> QED
      BY <2>5, <3>1, <3>2 DEF InboxRule
  <2>6. out.conn.socket = "open" => InboxRule(c, out.sent, <<>>, 0)
    <3>1. 0 + 1 .. Len(<<>>) = {}
      OBVIOUS
    <3> QED
      BY <2>5, <3>1 DEF InboxRule
  <2>7. /\ out \in States /\ out.conn.events = <<>> /\ out.conn.input = conn[c].input
        /\ out.conn.pending = conn[c].pending /\ out.conn.overflow = conn[c].overflow
        /\ out.conn.socket \in {"open", "closed"} /\ (out.conn.closed <=> out.conn.socket = "closed")
        /\ \A r \in out.conn.generations : Mine(r, c)
        /\ out.conn.socket = "open" => Live(c, out.conn, out.sent)
        /\ out.conn.socket # "open" =>
               \A r \in Elements(queue) : Mine(r, c) => r \in out.cancelled \cup out.conn.generations
    BY <2>3 DEF DrainRule
  <2>8. \A i \in 1 .. Len(<<>>) : EventRule(c, <<>>[i])
    OBVIOUS
  <2>9. ConnRule(c, out.conn, out.sent, out.cancelled)
    BY <2>6, <2>7, <2>8 DEF ConnRule
  <2>10. \A r \in All : ~(r \in Requests /\ Client(r) = c) => out.sent[r] = sent[r]
    BY <1>2, <2>3 DEF DrainRule, Mine, QueueRules
  <2>11. Fits(c, out)
    BY <2>3, <2>7, <2>9, <2>10 DEF Fits, DrainRule
  <2> QED
    BY <2>1, <2>2, <2>3, <2>5, <2>7, <2>11 DEF DrainedRule, DrainRule
<1> QED
  BY <1>3, <1>4

\* A turn of the timer: what waits in the connection and in the loop was waiting before.
LEMMA TimerStep ==
    ASSUME IndInv, NEW c \in Clients, NEW st, Fits(c, st), Become(c, st),
           UNCHANGED <<listening, request, serviceVars>>,
           loop.at # "read", loop'.at \in {"rest", "poll"},
           loop' \in [at : {"rest", "read", "poll"}, client : Clients \cup {"none"}, todo : Seq(All)],
           loop'.at = "poll" => loop'.client = c /\ st.conn.socket \in {"open", "closed"},
           st.conn.input \in {conn[c].input, <<>>},
           st.conn.socket = "open" => conn[c].socket = "open",
           \A r \in All : st.sent[r] # sent[r] => Dispatched(r),
           Distinct(st.conn.pending),
           \A r \in Elements(st.conn.pending) :
               WasPending(r, c) /\ (Final \notin Elements(sent[r]) => Final \notin Elements(st.sent[r])),
           loop'.at = "poll" => Distinct(loop'.todo),
           loop'.at = "poll" =>
               \A r \in Elements(loop'.todo) :
                   /\ WasPending(r, c)
                   /\ Final \notin Elements(sent[r]) => Final \notin Elements(st.sent[r])
                   /\ r \notin Elements(st.conn.pending)
    PROVE  IndInv'
<1>1. /\ QueueRules' /\ TextRules' /\ ConnRules' /\ ServiceTypes'
      /\ conn' \in [Clients -> Connections] /\ cancelled' \subseteq All /\ sent' \in [All -> Seq(Parts)]
      /\ conn'[c] = st.conn /\ \A d \in Clients : d # c => conn'[d] = conn[d]
  BY Turn
<1>2. sent' = st.sent /\ listening' = listening /\ request' = request /\ UNCHANGED <<request, serviceVars>>
  BY DEF Become
<1>3. TypeOK /\ PendingRules /\ QueueRules
  BY DEF IndInv
<1>4. TypeOK'
  BY <1>1, <1>2, <1>3 DEF TypeOK
<1>5. LoopRules'
  BY <1>1 DEF LoopRules
<1>6. FrameRules'
  <2>1. \A d \in Clients : conn'[d].input \in {conn[d].input, <<>>}
    BY <1>1
  <2>2. \A r \in All : sent'[r] # sent[r] => Dispatched(r)
    BY <1>2
  <2>3. loop'.at # "read"
    OBVIOUS
  <2> QED
    BY <1>2, <1>3, <2>1, <2>2, <2>3, FramesKeep
<1>7. PendingRules'
  <2>1. ASSUME NEW d \in Clients, d # c, NEW r \in Elements(conn'[d].pending)
        PROVE  WasPending(r, d) /\ sent'[r] = sent[r]
    <3>1. conn'[d].pending = conn[d].pending /\ conn[d].pending \in Seq(All)
      BY <1>1, <1>3, <2>1 DEF TypeOK, Connections
    <3>2. r \in All /\ Client(r) = d /\ WasPending(r, d)
      BY <1>3, <2>1, <3>1, ElementOfSeq DEF PendingRules, Pending, WasPending, Elements
    <3> QED
      BY <1>2, <2>1, <3>2 DEF Fits
  <2>2. \A d \in Clients : /\ Distinct(conn'[d].pending)
                           /\ conn'[d].socket = "open" => conn[d].socket = "open"
    BY <1>1, <1>3 DEF PendingRules
  <2>3. \A d \in Clients : \A r \in Elements(conn'[d].pending) :
            WasPending(r, d) /\ (Final \notin Elements(sent[r]) => Final \notin Elements(sent'[r]))
    BY <1>1, <1>2, <2>1
  <2>4. loop'.at = "poll" =>
            /\ loop'.client \in Clients /\ Distinct(loop'.todo)
            /\ \A r \in Elements(loop'.todo) :
                   /\ WasPending(r, loop'.client)
                   /\ Final \notin Elements(sent[r]) => Final \notin Elements(sent'[r])
                   /\ r \notin Elements(conn'[loop'.client].pending)
    BY <1>1, <1>2
  <2> QED
    BY <1>1, <1>2, <2>2, <2>3, <2>4, PendingKeep
<1> QED
  BY <1>1, <1>4, <1>5, <1>6, <1>7 DEF IndInv

\* A future that is waited for.
LEMMA Waiting ==
    ASSUME IndInv, NEW c \in Clients, NEW r, WasPending(r, c)
    PROVE  /\ r \in All /\ Dispatched(r) /\ Client(r) = c /\ Kind(r) \in Watched
           /\ conn[c].socket = "open" => Final \notin Elements(sent[r])
<1>1. PendingRules /\ conn[c].pending \in Seq(All) /\ loop.todo \in Seq(All)
  BY DEF IndInv, TypeOK, Connections
<1>2. \A s \in Seq(All) : Elements(s) \subseteq All
  BY ElementOfSeq DEF Elements
<1>3. r \in All /\ Pending(r, c)
  BY <1>1, <1>2 DEF WasPending, PendingRules
<1>4. sent[r] \in Seq(Parts)
  BY <1>3 DEF IndInv, TypeOK
<1>5. Answered(r) <=> Final \in Elements(sent[r])
  BY <1>4 DEF Answered, Elements, Range
<1> QED
  BY <1>3, <1>5 DEF Pending

\* The timer drops a connection that is lost.
LEMMA PollLostStep ==
    ASSUME IndInv, NEW c \in Clients, PollLost(c)
    PROVE  IndInv'
<1> DEFINE st == IF conn[c].socket = "closed" THEN State(c) ELSE AfterDrain(c)
           out == Disconnected(st)
<1>1. /\ loop = Resting /\ c \in Served /\ Become(c, out)
      /\ UNCHANGED <<listening, request, loop, serviceVars>>
  BY DEF PollLost
<1>2. conn[c].socket \in {"open", "closed"}
  BY <1>1 DEF Served
<1>3. /\ Fits(c, st) /\ st.conn.socket \in {"open", "closed"}
      /\ \A r \in All : ~Mine(r, c) => st.sent[r] = sent[r]
  <2>1. CASE conn[c].socket = "closed"
    BY <2>1, StateOf, StateFits
  <2>2. CASE conn[c].socket # "closed"
    BY <1>2, <2>2, AfterDrainRule DEF DrainedRule
  <2> QED
    BY <2>1, <2>2
<1> HIDE DEF st
<1>4. /\ Fits(c, out) /\ out.conn.input = <<>> /\ out.conn.pending = <<>>
      /\ out.conn.socket = "gone" /\ out.sent = st.sent
  BY <1>3, GoneFits
<1> HIDE DEF out
<1>5. loop.at = "rest" /\ loop'.at = "rest"
  BY <1>1 DEF Resting
<1>6. \A r \in All : out.sent[r] # sent[r] => Dispatched(r)
  BY <1>3, <1>4 DEF Mine
<1>7. loop' \in [at : {"rest", "read", "poll"}, client : Clients \cup {"none"}, todo : Seq(All)]
  BY <1>1 DEF IndInv, TypeOK
<1>8. Distinct(out.conn.pending) /\ Elements(out.conn.pending) = {}
  BY <1>4, EmptyElements
<1> QED
  BY <1>1, <1>4, <1>5, <1>6, <1>7, <1>8, TimerStep

\* The timer has drained an inbox and goes on to the futures.
LEMMA PollBeginStep ==
    ASSUME IndInv, NEW c \in Clients, PollBegin(c)
    PROVE  IndInv'
<1> DEFINE st == AfterDrain(c)
           k == [st.conn EXCEPT !.pending = <<>>]
           out == [st EXCEPT !.conn.pending = <<>>]
<1>1. /\ loop = Resting /\ conn[c].socket = "open" /\ st.conn.socket = "open" /\ Become(c, out)
      /\ loop' = [at |-> "poll", client |-> c, todo |-> conn[c].pending]
      /\ UNCHANGED <<listening, request, serviceVars>>
  BY DEF PollBegin
<1>2. DrainedRule(c, st)
  BY <1>1, AfterDrainRule
<1> HIDE DEF st
<1>3. st \in States /\ st.conn \in Connections /\ <<>> \in Seq(All)
  BY <1>2 DEF DrainedRule, Fits, States
<1>4. k \in Connections
  BY <1>3, ChangedRecords
<1>5. /\ k.socket = st.conn.socket /\ k.ids = st.conn.ids /\ k.generations = st.conn.generations
      /\ k.events = st.conn.events /\ k.closed = st.conn.closed /\ k.overflow = st.conn.overflow
      /\ k.input = st.conn.input /\ k.pending = <<>>
  BY <1>3 DEF Connections
<1>6. out = [st EXCEPT !.conn = k]
  BY Zenon
<1> HIDE DEF k, out
<1>7. out \in States /\ out.conn = k /\ out.sent = st.sent /\ out.cancelled = st.cancelled
  BY <1>3, <1>4, <1>6 DEF States
<1>8. ConnRule(c, st.conn, st.sent, st.cancelled)
  BY <1>2 DEF DrainedRule, Fits
<1>9. Live(c, st.conn, st.sent) => Live(c, k, st.sent)
  BY <1>5 DEF Live
<1>10. ConnRule(c, k, st.sent, st.cancelled)
  BY <1>1, <1>5, <1>8, <1>9 DEF ConnRule
<1>11. Fits(c, out)
  BY <1>2, <1>7, <1>10 DEF Fits, DrainedRule
<1>12. /\ out.conn.input = conn[c].input /\ out.conn.pending = <<>> /\ out.conn.socket = "open"
       /\ \A r \in All : out.sent[r] # sent[r] => Dispatched(r)
  BY <1>1, <1>2, <1>5, <1>7 DEF DrainedRule, Mine
<1>13. /\ loop.at = "rest" /\ loop'.at = "poll" /\ loop'.client = c /\ loop'.todo = conn[c].pending
       /\ conn[c].pending \in Seq(All) /\ Distinct(conn[c].pending)
       /\ loop' \in [at : {"rest", "read", "poll"}, client : Clients \cup {"none"}, todo : Seq(All)]
  BY <1>1 DEF Resting, IndInv, TypeOK, Connections, PendingRules
<1>14. Distinct(out.conn.pending) /\ Elements(out.conn.pending) = {}
  BY <1>12, EmptyElements
<1>15. \A r \in Elements(conn[c].pending) :
           WasPending(r, c) /\ (Final \notin Elements(sent[r]) => Final \notin Elements(out.sent[r]))
  <2>1. ASSUME NEW r \in Elements(conn[c].pending)
        PROVE  r \in All /\ Kind(r) # "chat" /\ WasPending(r, c)
    <3>1. WasPending(r, c)
      BY DEF WasPending
    <3> QED
      BY <3>1, Waiting DEF Watched
  <2> QED
    BY <1>2, <1>7, <2>1 DEF DrainedRule
<1> QED
  BY <1>1, <1>11, <1>12, <1>13, <1>14, <1>15, TimerStep

\* A future is looked at.
LEMMA FutureLookedAt ==
    ASSUME IndInv, NEW r, Polling(r), NextPending
    PROVE  /\ loop.at = "poll" /\ loop.client \in Clients /\ conn[loop.client].socket \in {"open", "closed"}
           /\ r \in All /\ WasPending(r, loop.client)
           /\ Elements(loop'.todo) \subseteq Elements(loop.todo)
           /\ r \in Elements(loop.todo) /\ r \notin Elements(loop'.todo)
           /\ \A q \in Elements(loop.todo) :
                  WasPending(q, loop.client) /\ q \notin Elements(conn[loop.client].pending)
           /\ loop'.at = "poll" /\ loop'.client = loop.client /\ Distinct(loop'.todo)
           /\ loop' \in [at : {"rest", "read", "poll"}, client : Clients \cup {"none"}, todo : Seq(All)]
<1>1. /\ loop \in [at : {"rest", "read", "poll"}, client : Clients \cup {"none"}, todo : Seq(All)]
      /\ loop.at = "poll" /\ loop.todo # <<>> /\ r = Head(loop.todo)
      /\ loop' = [loop EXCEPT !.todo = Tail(@)]
  BY DEF IndInv, TypeOK, Polling, NextPending
<1>2. loop.todo \in Seq(All)
  BY <1>1
<1>3. /\ r \in All /\ Tail(loop.todo) \in Seq(All)
      /\ r \in Elements(loop.todo)
      /\ Elements(loop.todo) = Elements(Tail(loop.todo)) \cup {r}
      /\ Distinct(loop.todo) => Distinct(Tail(loop.todo)) /\ r \notin Elements(Tail(loop.todo))
  BY <1>1, <1>2, TailElements
<1>4. loop'.at = "poll" /\ loop'.client = loop.client /\ loop'.todo = Tail(loop.todo)
      /\ loop' \in [at : {"rest", "read", "poll"}, client : Clients \cup {"none"}, todo : Seq(All)]
  BY <1>1, <1>3
<1>5. /\ Distinct(loop.todo) /\ loop.client \in Clients /\ conn[loop.client].socket \in {"open", "closed"}
      /\ \A q \in Elements(loop.todo) : q \notin Elements(conn[loop.client].pending)
  BY <1>1 DEF IndInv, PendingRules, LoopRules
<1>6. \A q \in Elements(loop.todo) : WasPending(q, loop.client)
  BY <1>1 DEF WasPending
<1> QED
  BY <1>1, <1>3, <1>4, <1>5, <1>6

\* A future that is not ready is kept.
LEMMA PollNotReadyStep ==
    ASSUME IndInv, NEW r, PollNotReady(r)
    PROVE  IndInv'
<1> DEFINE c == loop.client
           k == [conn[c] EXCEPT !.pending = Append(@, r)]
           st == [conn |-> k, sent |-> sent, cancelled |-> cancelled]
<1>1. /\ Polling(r) /\ NextPending
      /\ conn' = [conn EXCEPT ![c] = k]
      /\ UNCHANGED <<listening, request, serviceVars, cancelled, sent>>
  BY DEF PollNotReady
<1>2. /\ loop.at = "poll" /\ c \in Clients /\ conn[c].socket \in {"open", "closed"}
      /\ r \in All /\ WasPending(r, c)
      /\ Elements(loop'.todo) \subseteq Elements(loop.todo)
      /\ r \in Elements(loop.todo) /\ r \notin Elements(loop'.todo)
      /\ \A q \in Elements(loop.todo) : WasPending(q, c) /\ q \notin Elements(conn[c].pending)
      /\ loop'.at = "poll" /\ loop'.client = c /\ Distinct(loop'.todo)
      /\ loop' \in [at : {"rest", "read", "poll"}, client : Clients \cup {"none"}, todo : Seq(All)]
  BY <1>1, FutureLookedAt
<1> HIDE DEF c
<1>3. conn[c] \in Connections /\ conn[c].pending \in Seq(All)
  BY <1>2 DEF IndInv, TypeOK, Connections
<1> DEFINE p == Append(conn[c].pending, r)
<1>4. /\ p \in Seq(All) /\ Elements(p) = Elements(conn[c].pending) \cup {r}
      /\ Distinct(conn[c].pending) /\ r \notin Elements(conn[c].pending) => Distinct(p)
  BY <1>2, <1>3, AppendElements
<1>5. Distinct(conn[c].pending) /\ r \notin Elements(conn[c].pending)
  BY <1>2 DEF IndInv, PendingRules
<1>6. k = [conn[c] EXCEPT !.pending = p]
  OBVIOUS
<1> HIDE DEF p
<1>7. k \in Connections
  BY <1>3, <1>4, <1>6, ChangedRecords
<1>8. /\ k.socket = conn[c].socket /\ k.ids = conn[c].ids /\ k.generations = conn[c].generations
      /\ k.events = conn[c].events /\ k.closed = conn[c].closed /\ k.overflow = conn[c].overflow
      /\ k.input = conn[c].input /\ k.pending = p
  BY <1>3, <1>6 DEF Connections
<1> HIDE DEF k
<1>9. Fits(c, st)
  BY <1>2, <1>7, <1>8, MinorChange
<1>10. st.conn = k /\ st.sent = sent /\ st.cancelled = cancelled
  OBVIOUS
<1> HIDE DEF st
<1>11. Become(c, st) /\ UNCHANGED <<listening, request, serviceVars>>
  BY <1>1, <1>10 DEF Become
<1>12. \A q \in Elements(p) : WasPending(q, c)
  BY <1>2, <1>4 DEF WasPending
<1>13. /\ loop.at # "read" /\ loop'.at \in {"rest", "poll"} /\ st.conn.input \in {conn[c].input, <<>>}
       /\ st.conn.socket = conn[c].socket
       /\ \A q \in All : st.sent[q] = sent[q]
       /\ Distinct(st.conn.pending)
       /\ \A q \in Elements(st.conn.pending) : WasPending(q, c) /\ st.sent[q] = sent[q]
       /\ \A q \in Elements(loop'.todo) : /\ WasPending(q, c) /\ st.sent[q] = sent[q]
                                          /\ q \notin Elements(st.conn.pending)
  BY <1>2, <1>4, <1>5, <1>8, <1>10, <1>12
<1> QED
  BY <1>2, <1>9, <1>11, <1>13, TimerStep

\* The answer to a request whose future is ready, when its events are out.
LEMMA ReplyFits ==
    ASSUME IndInv, NEW c \in Clients, NEW st, DrainedRule(c, st), st.conn.socket = "open",
           NEW r \in All, WasPending(r, c), r \in settled
    PROVE  /\ Fits(c, Replied(st, r))
           /\ Replied(st, r).conn.input = conn[c].input /\ Replied(st, r).conn.pending = conn[c].pending
           /\ Replied(st, r).conn.socket \in {"open", "closed"}
           /\ \A q \in All : q # r => Replied(st, r).sent[q] = st.sent[q]
           /\ \A q \in Replied(st, r).cancelled \ cancelled : Mine(q, c) /\ Replied(st, r).conn.socket = "closed"
<1> DEFINE g == [st.conn EXCEPT !.generations = @ \ {r}]
           mid == [st EXCEPT !.conn.generations = @ \ {r}]
           replied == Send(mid, r, Final)
           k == [replied.conn EXCEPT !.ids = @ \ {request[r].id}]
           out == [replied EXCEPT !.conn.ids = @ \ {request[r].id}]
<1>1. Replied(st, r) = out
  BY Zenon DEF Replied
<1>2. /\ st \in States /\ st.conn \in Connections /\ st.sent \in [All -> Seq(Parts)]
      /\ st.conn.input = conn[c].input /\ st.conn.pending = conn[c].pending
      /\ conn[c].socket = "open" /\ st.conn.events = <<>>
      /\ Owed(r, st.sent[r]) = {}
      /\ ConnRule(c, st.conn, st.sent, st.cancelled)
      /\ st.cancelled \ cancelled = {}
  <2>1. Dispatched(r) /\ Client(r) = c
    BY Waiting
  <2> QED
    BY <2>1 DEF DrainedRule, Fits, States
<1>3. Dispatched(r) /\ Client(r) = c /\ Kind(r) \in Watched /\ r \in Requests
  BY Waiting DEF IndInv, QueueRules
<1>4. Final \notin Elements(st.sent[r])
  <2>1. Final \notin Elements(sent[r]) /\ Kind(r) # "chat"
    BY <1>2, <1>3, Waiting DEF Watched
  <2> QED
    BY <2>1 DEF DrainedRule
<1>5. TextRule(r, st.sent[r]) /\ st.sent[r] \in Seq(Parts)
  BY <1>2 DEF DrainedRule, Fits
<1>6. Len(st.sent[r]) = Limit(r)
  <2>1. /\ Limit(r) \in Nat /\ Len(st.sent[r]) \in 0 .. Limit(r)
    BY <1>3, <1>4, <1>5, Texts
  <2>2. (Len(st.sent[r]) .. Limit(r) - 1) = {}
    BY <1>2, <1>4 DEF Owed
  <2>3. \A a \in Nat : \A b \in 0 .. a : (b .. a - 1) = {} => b = a
    <3>1. ASSUME NEW a \in Nat, NEW b \in 0 .. a, (b .. a - 1) = {}, b # a PROVE FALSE
      <4>1. b \in b .. a - 1
        BY <3>1
      <4> QED
        BY <3>1, <4>1
    <3> QED
      BY <3>1
  <2> QED
    BY <2>1, <2>2, <2>3
<1> DEFINE e == Append(st.sent[r], Final)
<1>7. TextRule(r, e) /\ e \in Seq(Parts) /\ e # <<>> /\ Final \in Elements(e)
  <2>1. \/ Final = Len(st.sent[r]) /\ Len(st.sent[r]) < Limit(r)
        \/ Final = Final /\ Len(st.sent[r]) = Limit(r) /\ r \in settled
    BY <1>6
  <2> QED
    BY <1>3, <1>4, <1>5, <2>1, TextGrows
<1> HIDE DEF e
<1>8. /\ g \in Connections /\ g.generations = st.conn.generations \ {r}
      /\ g.socket = "open" /\ g.ids = st.conn.ids /\ g.events = <<>> /\ g.closed = st.conn.closed
      /\ g.overflow = st.conn.overflow /\ g.input = conn[c].input /\ g.pending = conn[c].pending
  <2>1. ASSUME NEW h \in Connections, NEW s \in SUBSET All PROVE [h EXCEPT !.generations = s] \in Connections
    BY DEF Connections
  <2>2. st.conn.generations \ {r} \in SUBSET All
    BY <1>2 DEF Connections
  <2>3. g \in Connections
    BY <1>2, <2>1, <2>2
  <2> QED
    BY <1>2, <2>3 DEF Connections
<1>9. mid = [st EXCEPT !.conn = g]
  BY Zenon
<1> HIDE DEF g, mid
<1>10. mid \in States /\ mid.conn = g /\ mid.sent = st.sent /\ mid.cancelled = st.cancelled
  BY <1>2, <1>8, <1>9 DEF States
<1>11. /\ replied \in States /\ Kept(mid, replied)
       /\ Broken(mid, replied) \/ Sent(mid, replied, r, Final)
  <2>1. Final \in Parts
    BY IpcAssumption DEF Parts, Final
  <2> QED
    BY <1>8, <1>10, <2>1, SendCases
<1> HIDE DEF replied
<1>12. /\ k \in Connections /\ k.ids = replied.conn.ids \ {request[r].id}
       /\ k.socket = replied.conn.socket /\ k.generations = replied.conn.generations
       /\ k.events = replied.conn.events /\ k.closed = replied.conn.closed
       /\ k.input = replied.conn.input /\ k.pending = replied.conn.pending
       /\ k.overflow = replied.conn.overflow
  <2>1. ASSUME NEW h \in Connections, NEW s \in SUBSET Ids PROVE [h EXCEPT !.ids = s] \in Connections
    BY DEF Connections
  <2>2. replied.conn \in Connections
    BY <1>11 DEF States
  <2>3. replied.conn.ids \ {request[r].id} \in SUBSET Ids
    BY <2>2 DEF Connections
  <2>4. k \in Connections
    BY <2>1, <2>2, <2>3
  <2> QED
    BY <2>2, <2>4 DEF Connections
<1>13. out = [replied EXCEPT !.conn = k]
  BY Zenon
<1> HIDE DEF k, out
<1>14. out \in States /\ out.conn = k /\ out.sent = replied.sent /\ out.cancelled = replied.cancelled
  BY <1>11, <1>12, <1>13 DEF States
<1>15. k.events = <<>> /\ k.input = conn[c].input /\ k.pending = conn[c].pending /\ k.overflow = st.conn.overflow
  BY <1>8, <1>10, <1>11, <1>12 DEF Kept
<1>16. CASE Broken(mid, replied)
  <2>1. /\ k.socket = "closed" /\ k.closed /\ k.generations = st.conn.generations \ {r}
        /\ out.cancelled = st.cancelled \cup (st.conn.generations \ {r}) /\ out.sent = st.sent
    BY <1>8, <1>10, <1>12, <1>14, <1>16 DEF Broken
  <2>2. ASSUME NEW q \in Elements(queue), Mine(q, c) PROVE q \in out.cancelled
    <3>1. q \in st.cancelled \cup st.conn.generations
      BY <2>2, StreamsStop DEF DrainedRule
    <3>2. q # r
      BY DEF IndInv, QueueRules
    <3> QED
      BY <2>1, <3>1, <3>2
  <2>3. ConnRule(c, k, out.sent, out.cancelled)
    BY <1>2, <1>15, <2>1, <2>2 DEF ConnRule
  <2>4. Fits(c, out)
    BY <1>14, <2>1, <2>3 DEF DrainedRule, Fits
  <2>5. \A q \in out.cancelled \ cancelled : Mine(q, c)
    BY <1>2, <2>1 DEF ConnRule
  <2> QED
    BY <1>1, <1>14, <1>15, <2>1, <2>4, <2>5
<1>17. CASE Sent(mid, replied, r, Final)
  <2>1. /\ k.socket = "open" /\ k.closed = st.conn.closed /\ k.generations = st.conn.generations \ {r}
        /\ k.ids = st.conn.ids \ {request[r].id}
        /\ out.cancelled = st.cancelled /\ out.sent = [st.sent EXCEPT ![r] = e]
    BY <1>8, <1>10, <1>12, <1>14, <1>17 DEF Sent, e
  <2>2. out.sent[r] = e /\ \A q \in All : q # r => out.sent[q] = st.sent[q]
    BY <1>2, <2>1
  <2>3. Live(c, k, out.sent)
    <3>1. Live(c, st.conn, st.sent)
      BY <1>2 DEF ConnRule
    <3>2. /\ k.ids = IF Final \in Elements(e) THEN st.conn.ids \ {request[r].id} ELSE st.conn.ids
          /\ k.generations = IF Final \in Elements(e) THEN st.conn.generations \ {r} ELSE st.conn.generations
      BY <1>7, <2>1
    <3>3. Live(c, k, [st.sent EXCEPT ![r] = e])
      BY <1>2, <1>3, <1>4, <1>7, <3>1, <3>2, LiveSends
    <3> QED
      BY <2>1, <3>3
  <2>4. InboxRule(c, out.sent, k.events, 0)
    <3>1. \A q \in All : Dispatched(q) /\ Client(q) = c => Owed(q, out.sent[q]) = {}
      <4>1. Owed(r, out.sent[r]) = {}
        BY <1>7, <2>2 DEF Owed
      <4>2. \A q \in All : q # r /\ Dispatched(q) /\ Client(q) = c => Owed(q, out.sent[q]) = {}
        BY <2>2 DEF DrainedRule
      <4> QED
        BY <4>1, <4>2
    <3>2. 0 + 1 .. Len(<<>>) = {}
      OBVIOUS
    <3> QED
      BY <1>15, <3>1, <3>2 DEF InboxRule
  <2>5. \A q \in k.generations : Mine(q, c)
    BY <1>2, <2>1 DEF ConnRule
  <2>6. \A i \in 1 .. Len(k.events) : EventRule(c, k.events[i])
    BY <1>15
  <2>7. k.socket = "open" /\ ~k.closed
    BY <1>2, <2>1 DEF ConnRule
  <2>8. ConnRule(c, k, out.sent, out.cancelled)
    BY <2>3, <2>4, <2>5, <2>6, <2>7 DEF ConnRule
  <2>9. \A q \in All : TextRule(q, out.sent[q])
    BY <1>7, <2>2 DEF DrainedRule, Fits
  <2>10. \A q \in All : ~(q \in Requests /\ Client(q) = c) => out.sent[q] = sent[q]
    BY <1>3, <2>2 DEF DrainedRule, Fits
  <2>11. Fits(c, out)
    BY <1>14, <2>1, <2>8, <2>9, <2>10 DEF DrainedRule, Fits
  <2> QED
    BY <1>1, <1>2, <1>14, <1>15, <2>1, <2>2, <2>11
<1> QED
  BY <1>11, <1>16, <1>17

\* A future that is ready is answered when its events are out.
LEMMA PollReadyStep ==
    ASSUME IndInv, NEW r, PollReady(r)
    PROVE  IndInv'
<1> DEFINE c == loop.client
           drained == AfterDrain(c)
           st == IF drained.conn.socket = "open" THEN Replied(drained, r) ELSE drained
<1>1. /\ Polling(r) /\ r \in settled /\ NextPending /\ Become(c, st)
      /\ UNCHANGED <<listening, request, serviceVars>>
  BY DEF PollReady
<1>2. /\ loop.at = "poll" /\ c \in Clients /\ conn[c].socket \in {"open", "closed"}
      /\ r \in All /\ WasPending(r, c)
      /\ Elements(loop'.todo) \subseteq Elements(loop.todo) /\ r \notin Elements(loop'.todo)
      /\ r \in Elements(loop.todo)
      /\ \A q \in Elements(loop.todo) : WasPending(q, c) /\ q \notin Elements(conn[c].pending)
      /\ loop'.at = "poll" /\ loop'.client = c /\ Distinct(loop'.todo)
      /\ loop' \in [at : {"rest", "read", "poll"}, client : Clients \cup {"none"}, todo : Seq(All)]
  BY <1>1, FutureLookedAt
<1> HIDE DEF c
<1>3. DrainedRule(c, drained)
  BY <1>2, AfterDrainRule
<1> HIDE DEF drained
<1>4. /\ Fits(c, st) /\ st.conn.input = conn[c].input /\ st.conn.pending = conn[c].pending
      /\ st.conn.socket \in {"open", "closed"}
      /\ st.conn.socket = "open" => conn[c].socket = "open"
      /\ \A q \in All : q # r => st.sent[q] = drained.sent[q]
      /\ drained.conn.socket # "open" => st.sent = drained.sent
  <2>1. CASE drained.conn.socket = "open"
    <3>1. conn[c].socket = "open"
      BY <1>3, <2>1 DEF DrainedRule
    <3>2. st = Replied(drained, r)
      BY <2>1
    <3> HIDE DEF st
    <3> QED
      BY <1>1, <1>2, <1>3, <2>1, <3>1, <3>2, ReplyFits
  <2>2. CASE drained.conn.socket # "open"
    BY <1>3, <2>2 DEF DrainedRule
  <2> QED
    BY <2>1, <2>2
<1> HIDE DEF st
<1>5. Dispatched(r)
  BY <1>2, Waiting
<1>6. \A q \in All : st.sent[q] # sent[q] => Dispatched(q)
  BY <1>3, <1>4, <1>5 DEF DrainedRule, Mine
<1>7. ASSUME NEW q, WasPending(q, c), q # r
      PROVE  Final \notin Elements(sent[q]) => Final \notin Elements(st.sent[q])
  <2>1. q \in All /\ Kind(q) # "chat"
    BY <1>2, <1>7, Waiting DEF Watched
  <2> QED
    BY <1>3, <1>4, <1>7, <2>1 DEF DrainedRule
<1>8. Distinct(conn[c].pending) /\ \A q \in Elements(conn[c].pending) : WasPending(q, c) /\ q # r
  BY <1>2 DEF IndInv, PendingRules, WasPending
<1>9. /\ Distinct(st.conn.pending)
      /\ \A q \in Elements(st.conn.pending) :
             WasPending(q, c) /\ (Final \notin Elements(sent[q]) => Final \notin Elements(st.sent[q]))
  BY <1>4, <1>7, <1>8
<1>10. \A q \in Elements(loop'.todo) :
           /\ WasPending(q, c)
           /\ Final \notin Elements(sent[q]) => Final \notin Elements(st.sent[q])
           /\ q \notin Elements(st.conn.pending)
  BY <1>2, <1>4, <1>7
<1>11. loop.at # "read" /\ loop'.at \in {"rest", "poll"}
  BY <1>2
<1> QED
  BY <1>1, <1>2, <1>4, <1>6, <1>9, <1>10, <1>11, TimerStep

\* close() takes every connection in turn.
LEMMA CloseServerStep ==
    ASSUME IndInv, CloseServer
    PROVE  IndInv'
<1>1. /\ loop.at = "rest" /\ listening' = FALSE
      /\ conn' = [c \in Clients |-> IF c \in Served THEN Disconnected(State(c)).conn ELSE conn[c]]
      /\ cancelled' = cancelled \cup UNION {conn[c].generations : c \in Served}
      /\ UNCHANGED <<request, loop, serviceVars, sent>> /\ UNCHANGED <<request, serviceVars>>
  BY DEF CloseServer, Resting
<1>2. TypeOK /\ QueueRules /\ FrameRules /\ LoopRules /\ PendingRules /\ TextRules /\ ConnRules
  BY DEF IndInv
<1>3. ASSUME NEW c \in Clients
      PROVE  /\ ConnRule(c, conn'[c], sent', cancelled')
             /\ conn'[c] \in Connections
             /\ conn'[c].input \in {conn[c].input, <<>>}
             /\ conn'[c].pending \in {conn[c].pending, <<>>}
             /\ conn'[c].socket = "open" => conn[c].socket = "open"
  <2>1. CASE c \in Served
    <3> DEFINE out == Disconnected(State(c))
    <3>1. /\ Fits(c, out) /\ out.conn.input = <<>> /\ out.conn.pending = <<>>
          /\ out.conn.socket = "gone" /\ out.sent = sent
          /\ out.cancelled = cancelled \cup conn[c].generations
      <4>1. conn[c].socket \in {"open", "closed"}
        BY <2>1 DEF Served
      <4> QED
        BY <4>1, StateOf, StateFits, GoneFits
    <3>2. conn'[c] = out.conn
      BY <1>1, <2>1
    <3> HIDE DEF out
    <3>3. ConnRule(c, out.conn, out.sent, out.cancelled) /\ out.conn \in Connections
      BY <3>1 DEF Fits, States
    <3>4. out.cancelled \subseteq cancelled'
      BY <1>1, <2>1, <3>1
    <3>5. ConnRule(c, out.conn, sent, cancelled')
      BY <3>1, <3>3, <3>4, OthersKeep
    <3> QED
      BY <1>1, <3>1, <3>2, <3>3, <3>5
  <2>2. CASE c \notin Served
    <3>1. conn'[c] = conn[c] /\ conn[c] \in Connections
      BY <1>1, <1>2, <2>2 DEF TypeOK
    <3>2. ConnRule(c, conn[c], sent, cancelled) /\ cancelled \subseteq cancelled'
      BY <1>1, <1>2 DEF ConnRules
    <3>3. ConnRule(c, conn[c], sent, cancelled')
      BY <3>2, OthersKeep
    <3> QED
      BY <1>1, <3>1, <3>3
  <2> QED
    BY <2>1, <2>2
<1>4. QueueRules' /\ TextRules' /\ ConnRules' /\ ServiceTypes'
  <2>1. \A c \in Clients : ConnRule(c, conn'[c], sent', cancelled')
    BY <1>3
  <2>2. \A r \in All : TextRule(r, sent'[r])
    BY <1>1, <1>2 DEF TextRules
  <2> QED
    BY <1>1, <1>2, <2>1, <2>2, RulesKeep DEF TypeOK
<1>5. TypeOK'
  <2>1. conn' \in [Clients -> Connections]
    <3>1. DOMAIN conn' = Clients /\ conn' = [c \in Clients |-> conn'[c]]
      BY <1>1
    <3> QED
      BY <1>3, <3>1
  <2>2. cancelled' \subseteq All
    <3>1. \A c \in Served : conn[c].generations \subseteq All
      BY <1>2 DEF TypeOK, Connections, Served
    <3> QED
      BY <1>1, <1>2, <3>1 DEF TypeOK
  <2> QED
    BY <1>1, <1>2, <1>4, <2>1, <2>2 DEF TypeOK
<1>6. FrameRules'
  BY <1>1, <1>2, <1>3, FramesKeep
<1>7. PendingRules'
  <2>1. \A d \in Clients : \A r \in Elements(conn'[d].pending) : WasPending(r, d)
    BY <1>3, EmptyElements DEF WasPending
  <2>2. \A d \in Clients : Distinct(conn'[d].pending)
    BY <1>2, <1>3, EmptyElements DEF PendingRules
  <2>3. sent' \in [All -> Seq(Parts)] /\ sent' = sent
    BY <1>1, <1>2 DEF TypeOK
  <2>4. loop'.at # "poll"
    BY <1>1
  <2> QED
    BY <1>1, <1>3, <2>1, <2>2, <2>3, <2>4, PendingKeep
<1>8. LoopRules'
  BY <1>1 DEF LoopRules
<1> QED
  BY <1>4, <1>5, <1>6, <1>7, <1>8 DEF IndInv
-----------------------------------------------------------------------------
(* Steps that change what the service has been asked, or has answered.     *)

\* A connection whose requests are left alone.
LEMMA ConnKeeps ==
    ASSUME IndInv, NEW d \in Clients, queue' \in Seq(All), cancelled \subseteq cancelled',
           \/ conn'[d] = conn[d]
           \/ /\ conn[d].socket = "open" /\ conn'[d].socket = "open"
              /\ conn'[d].ids = conn[d].ids /\ conn'[d].generations = conn[d].generations
              /\ conn'[d].events = conn[d].events /\ conn'[d].closed = conn[d].closed
              /\ conn'[d].overflow = conn[d].overflow,
           \A q \in All : Dispatched(q)' /\ Client(q)' = d <=> Dispatched(q) /\ Client(q) = d,
           \A q \in All : Dispatched(q) /\ Client(q) = d =>
               /\ request'[q] = request[q] /\ emitted'[q] = emitted[q] /\ sent'[q] = sent[q]
               /\ q \in settled' <=> q \in settled
               /\ q \in Elements(queue') => q \in Elements(queue),
           \A q \in Requests' : Client(q)' = d /\ conn[d].socket # "open" => q \in Requests /\ Client(q) = d
    PROVE  ConnRule(d, conn[d], sent, cancelled)'
<1>1. ConnRule(d, conn[d], sent, cancelled) /\ TypeOK
  BY DEF IndInv, ConnRules
<1>2. \A q \in All : Dispatched(q) /\ Client(q) = d =>
          /\ Kind(q)' = Kind(q) /\ request'[q] = request[q] /\ sent'[q] = sent[q]
          /\ Owed(q, sent[q])' = Owed(q, sent[q])
  BY DEF Kind, Limit, Ends, Owed
<1>3. \A q \in All : Mine(q, d)' <=> Mine(q, d)
  BY <1>2 DEF Mine
<1>4. Flying(d, sent)' = Flying(d, sent)
  BY <1>2 DEF Flying
<1>5. \A q \in Flying(d, sent) : Kind(q)' = Kind(q) /\ request'[q] = request[q] /\ sent'[q] = sent[q]
  BY <1>2 DEF Flying
<1>6. /\ conn'[d].socket = conn[d].socket
      /\ conn'[d].ids = conn[d].ids /\ conn'[d].generations = conn[d].generations
      /\ conn'[d].events = conn[d].events /\ conn'[d].closed = conn[d].closed
      /\ conn'[d].overflow = conn[d].overflow
  OBVIOUS
<1>7. Live(d, conn[d], sent) => Live(d, conn[d], sent)'
  <2> SUFFICES ASSUME Live(d, conn[d], sent) PROVE Live(d, conn[d], sent)'
    OBVIOUS
  <2>1. conn'[d].ids = {request'[q].id : q \in Flying(d, sent)'}
    BY <1>4, <1>5, <1>6 DEF Live
  <2>2. \A q, p \in Flying(d, sent)' : request'[q].id = request'[p].id => q = p
    BY <1>4, <1>5 DEF Live
  <2>3. conn'[d].generations = {q \in Flying(d, sent)' : Kind(q)' \in Streams}
    BY <1>4, <1>5, <1>6 DEF Live
  <2>4. \A q \in conn'[d].generations : sent'[q] # <<>>
    BY <1>5, <1>6 DEF Live
  <2> QED
    BY <2>1, <2>2, <2>3, <2>4 DEF Live
<1>8. InboxRule(d, sent, conn[d].events, 0) => InboxRule(d, sent, conn[d].events, 0)'
  BY <1>2, <1>6 DEF InboxRule
<1>9. /\ conn[d].events \in Seq(All \X Parts) /\ conn[d].generations \subseteq All
      /\ Elements(queue') \subseteq All
  BY <1>1, ElementOfSeq DEF TypeOK, Connections, Elements
<1>10. \A i \in 1 .. Len(conn'[d].events) : EventRule(d, conn[d].events[i])'
  <2> SUFFICES ASSUME NEW i \in 1 .. Len(conn[d].events) PROVE EventRule(d, conn[d].events[i])'
    BY <1>6
  <2>1. conn[d].events[i] \in All \X Parts /\ conn'[d].events[i] = conn[d].events[i]
    BY <1>6, <1>9, ElementOfSeq
  <2>2. conn[d].events[i][1] \in All /\ EventRule(d, conn[d].events[i])
    BY <1>1, <2>1 DEF ConnRule
  <2>3. Mine(conn[d].events[i][1], d) /\ Mine(conn[d].events[i][1], d)'
    BY <1>3, <2>2 DEF EventRule
  <2> QED
    BY <1>2, <2>1, <2>2, <2>3 DEF EventRule, Mine
<1>11. \A q \in Elements(queue') : Mine(q, d)' => q \in Elements(queue) /\ Mine(q, d)
  BY <1>3, <1>9 DEF Mine
<1>12. \A q \in conn'[d].generations : Mine(q, d)'
  BY <1>1, <1>3, <1>6, <1>9 DEF ConnRule
<1>13. conn'[d].socket # "open" /\ (\A q \in Requests : Client(q) # d) => \A q \in Requests' : Client(q)' # d
  BY <1>6
<1>14. conn'[d].socket = "none" => conn'[d] = NoConn /\ \A q \in Requests' : Client(q)' # d
  BY <1>1, <1>6, <1>13 DEF ConnRule
<1>15. conn'[d].socket = "gone" => /\ conn'[d].closed \/ \A q \in Requests' : Client(q)' # d
                                  /\ conn'[d].generations = {}
  BY <1>1, <1>6, <1>13 DEF ConnRule
<1>16. /\ conn'[d].socket \in {"none", "open"} => ~conn'[d].closed
       /\ conn'[d].socket = "closed" => conn'[d].closed
       /\ conn'[d].socket = "open" =>
              /\ Live(d, conn[d], sent)'
              /\ ~conn'[d].overflow => InboxRule(d, sent, conn[d].events, 0)'
  BY <1>1, <1>6, <1>7, <1>8 DEF ConnRule
<1>17. conn'[d].socket # "open" =>
          \A q \in Elements(queue') : Mine(q, d)' => q \in cancelled' \cup conn'[d].generations
  BY <1>1, <1>6, <1>11 DEF ConnRule
<1> QED
  BY <1>10, <1>12, <1>14, <1>15, <1>16, <1>17 DEF ConnRule

\* A peer writes a frame: it will be looked at.
LEMMA ClientSendStep ==
    ASSUME IndInv, NEW c \in Clients, NEW kind \in Kinds, NEW id \in Ids, NEW target \in 0 .. MaxRequests,
           ClientSend(c, kind, id, target)
    PROVE  IndInv'
<1> PICK n : n = Len(request) + 1
  OBVIOUS
<1> DEFINE frame == [client |-> c, kind |-> kind, id |-> id, target |-> target]
           k == [conn[c] EXCEPT !.input = Append(@, n)]
<1>1. /\ conn[c].socket = "open" /\ Len(request) < MaxRequests
      /\ request' = Append(request, frame)
      /\ conn' = [conn EXCEPT ![c] = k]
      /\ UNCHANGED <<listening, loop, serviceVars, cancelled, sent>>
      /\ queue' = queue /\ emitted' = emitted /\ settled' = settled /\ broken' = broken
      /\ sent' = sent /\ loop' = loop /\ cancelled' = cancelled /\ listening' = listening
  BY DEF ClientSend, serviceVars
<1>2. TypeOK /\ QueueRules /\ FrameRules /\ LoopRules /\ PendingRules /\ TextRules
  BY DEF IndInv
<1>3. /\ request \in Seq(Asked) /\ Len(request) \in Nat /\ frame \in Asked /\ n \in All /\ MaxRequests \in Nat
      /\ request' \in Seq(Asked) /\ Len(request') = n /\ request'[n] = frame
      /\ \A q \in Requests : request'[q] = request[q]
      /\ Requests' = Requests \cup {n} /\ n \notin Requests
  <2>1. request \in Seq(Asked) /\ Len(request) \in Nat /\ frame \in Asked /\ MaxRequests \in Nat
    BY <1>2, IpcAssumption, LenProperties DEF TypeOK, Asked
  <2> HIDE DEF frame
  <2>2. /\ n \in All /\ request' \in Seq(Asked) /\ Len(request') = n /\ request'[n] = frame
        /\ \A q \in 1 .. Len(request) : request'[q] = request[q]
    BY <1>1, <2>1, AppendProperties DEF All
  <2> QED
    BY <2>1, <2>2 DEF Requests
<1> HIDE DEF frame
<1>4. /\ \A q \in Requests : Client(q)' = Client(q) /\ Kind(q)' = Kind(q)
      /\ Client(n)' = c
      /\ \A q : Dispatched(q)' <=> Dispatched(q)
      /\ \A q \in All : Dispatched(q) => q \in Requests
      /\ ~Dispatched(n) /\ sent[n] = <<>>
  <2>1. \A q : Dispatched(q)' <=> Dispatched(q)
    BY <1>1 DEF Dispatched
  <2>2. \A q \in All : Dispatched(q) => q \in Requests
    BY <1>2 DEF QueueRules
  <2>3. sent[n] = <<>>
    BY <1>2, <1>3 DEF FrameRules
  <2>4. \A q \in Requests : Client(q)' = Client(q) /\ Kind(q)' = Kind(q)
    BY <1>3 DEF Client, Kind
  <2>5. Client(n)' = c
    BY <1>3 DEF Client, frame
  <2> QED
    BY <1>3, <2>1, <2>2, <2>3, <2>4, <2>5
<1>5. conn[c] \in Connections /\ conn[c].input \in Seq(All)
  BY <1>2 DEF TypeOK, Connections
<1> DEFINE s == Append(conn[c].input, n)
<1>6. /\ s \in Seq(All) /\ Elements(s) = Elements(conn[c].input) \cup {n}
      /\ Distinct(conn[c].input) /\ n \notin Elements(conn[c].input) => Distinct(s)
  BY <1>3, <1>5, AppendElements
<1>7. \A q \in Elements(conn[c].input) : q \in Requests
  BY <1>2 DEF FrameRules, Fresh
<1>8. k = [conn[c] EXCEPT !.input = s]
  OBVIOUS
<1> HIDE DEF s
<1>9. k \in Connections
  BY <1>5, <1>6, <1>8, ChangedRecords
<1>10. /\ k.socket = conn[c].socket /\ k.ids = conn[c].ids /\ k.generations = conn[c].generations
       /\ k.events = conn[c].events /\ k.closed = conn[c].closed /\ k.overflow = conn[c].overflow
       /\ k.input = s /\ k.pending = conn[c].pending
  BY <1>5, <1>8 DEF Connections
<1> HIDE DEF k
<1>11. /\ conn' \in [Clients -> Connections] /\ conn'[c] = k
       /\ \A d \in Clients : d # c => conn'[d] = conn[d]
  BY <1>1, <1>2, <1>9 DEF TypeOK
<1>12. \A d \in Clients : /\ conn'[d].socket = conn[d].socket /\ conn'[d].pending = conn[d].pending
                          /\ d # c => conn'[d].input = conn[d].input
  BY <1>10, <1>11
<1>13. TypeOK'
  <2>1. Len(request') <= MaxRequests
    BY <1>3 DEF All
  <2>2. ServiceTypes'
    BY <1>1, <1>2 DEF TypeOK, ServiceTypes
  <2> QED
    BY <1>1, <1>2, <1>3, <1>11, <2>1, <2>2 DEF TypeOK
<1>14. QueueRules'
  BY <1>1, <1>2, <1>3, <1>4 DEF QueueRules
<1>15. FrameRules'
  <2>1. \A d \in Clients : \A q : Fresh(q, d) => Fresh(q, d)'
    BY <1>1, <1>3, <1>4 DEF Fresh
  <2>2. Fresh(n, c)'
    BY <1>1, <1>3, <1>4 DEF Fresh
  <2>3. \A d \in Clients : Distinct(conn'[d].input) /\ \A q \in Elements(conn'[d].input) : Fresh(q, d)'
    BY <1>2, <1>3, <1>6, <1>7, <1>10, <1>11, <2>1, <2>2 DEF FrameRules
  <2>4. ASSUME loop.at = "read", NEW q \in Elements(loop.todo)
        PROVE  Fresh(q, loop.client)' /\ q \notin Elements(conn'[loop.client].input)
    <3>1. /\ Fresh(q, loop.client) /\ q \notin Elements(conn[loop.client].input)
          /\ loop.client \in Clients /\ q \in Requests
      BY <1>2, <2>4 DEF FrameRules, LoopRules, Fresh
    <3>2. Fresh(q, loop.client)'
      BY <1>1, <1>3, <1>4, <3>1 DEF Fresh
    <3> QED
      BY <1>3, <1>6, <1>10, <1>11, <3>1, <3>2
  <2>5. \A q \in All : q \notin Requests' => sent'[q] = <<>>
    BY <1>1, <1>2, <1>3 DEF FrameRules
  <2> QED
    BY <1>1, <1>2, <2>3, <2>4, <2>5 DEF FrameRules
<1>16. LoopRules'
  BY <1>1, <1>2, <1>12 DEF LoopRules
<1>17. PendingRules'
  <2>1. ASSUME NEW d \in Clients, NEW q \in All, Pending(q, d) PROVE Pending(q, d)'
    <3>1. Answered(q)' <=> Answered(q)
      BY <1>1 DEF Answered
    <3>2. Dispatched(q) /\ Client(q) = d /\ Kind(q) \in Watched /\ (conn[d].socket = "open" => ~Answered(q))
      BY <2>1 DEF Pending
    <3>3. Dispatched(q)' /\ Client(q)' = d /\ Kind(q)' \in Watched
      BY <1>4, <3>2
    <3>4. conn'[d].socket = conn[d].socket
      BY <1>12
    <3> QED
      BY <3>1, <3>2, <3>3, <3>4 DEF Pending
  <2>2. \A d \in Clients : Elements(conn[d].pending) \subseteq All
    <3>1. \A p \in Seq(All) : Elements(p) \subseteq All
      BY ElementOfSeq DEF Elements
    <3>2. \A d \in Clients : conn[d].pending \in Seq(All)
      BY <1>2 DEF TypeOK, Connections
    <3> QED
      BY <3>1, <3>2
  <2>3. Elements(loop.todo) \subseteq All
    BY <1>2, ElementOfSeq DEF TypeOK, Elements
  <2>4. \A d \in Clients : Distinct(conn'[d].pending) /\ \A q \in Elements(conn'[d].pending) : Pending(q, d)'
    BY <1>2, <1>12, <2>1, <2>2 DEF PendingRules
  <2>5. ASSUME loop.at = "poll", NEW q \in Elements(loop.todo)
        PROVE  Pending(q, loop.client)' /\ q \notin Elements(conn'[loop.client].pending)
    <3>1. loop.client \in Clients /\ Pending(q, loop.client) /\ q \notin Elements(conn[loop.client].pending)
      BY <1>2, <2>5 DEF PendingRules, LoopRules
    <3>2. Dispatched(q)' /\ Client(q)' = loop.client /\ Kind(q)' \in Watched
          /\ (conn'[loop.client].socket = "open" => ~Answered(q)')
      BY <1>1, <1>4, <1>12, <2>3, <2>5, <3>1 DEF Pending, Answered
    <3> QED
      BY <1>1, <1>12, <3>1, <3>2 DEF Pending
  <2> QED
    BY <1>1, <1>2, <2>4, <2>5 DEF PendingRules
<1>18. TextRules'
  <2>1. ASSUME NEW q \in All PROVE TextRule(q, sent[q])'
    <3>1. TextRule(q, sent[q])
      BY <1>2 DEF TextRules
    <3>2. Dispatched(q) => Limit(q)' = Limit(q)
      BY <1>1, <1>4 DEF Limit
    <3> QED
      BY <1>1, <1>4, <3>1, <3>2 DEF TextRule
  <2> QED
    BY <2>1 DEF TextRules
<1>19. ConnRules'
  <2>1. ASSUME NEW d \in Clients PROVE ConnRule(d, conn[d], sent, cancelled)'
    <3>1. \A q \in All : Dispatched(q)' /\ Client(q)' = d <=> Dispatched(q) /\ Client(q) = d
      BY <1>4
    <3>2. \A q \in All : Dispatched(q) /\ Client(q) = d =>
              /\ request'[q] = request[q] /\ emitted'[q] = emitted[q] /\ sent'[q] = sent[q]
              /\ q \in settled' <=> q \in settled
              /\ q \in Elements(queue') => q \in Elements(queue)
      BY <1>1, <1>3, <1>4
    <3>3. \A q \in Requests' : Client(q)' = d /\ conn[d].socket # "open" => q \in Requests /\ Client(q) = d
      BY <1>1, <1>3, <1>4
    <3>4. queue' \in Seq(All) /\ cancelled \subseteq cancelled'
      BY <1>1, <1>2 DEF TypeOK, ServiceTypes
    <3>5. \/ conn'[d] = conn[d]
          \/ /\ conn[d].socket = "open" /\ conn'[d].socket = "open"
             /\ conn'[d].ids = conn[d].ids /\ conn'[d].generations = conn[d].generations
             /\ conn'[d].events = conn[d].events /\ conn'[d].closed = conn[d].closed
             /\ conn'[d].overflow = conn[d].overflow
      BY <1>1, <1>10, <1>11
    <3> QED
      BY <3>1, <3>2, <3>3, <3>4, <3>5, ConnKeeps
  <2> QED
    BY <2>1 DEF ConnRules
<1> QED
  BY <1>13, <1>14, <1>15, <1>16, <1>17, <1>18, <1>19 DEF IndInv

\* The community modules' name for the elements of a sequence.
LEMMA RangeElements ==
    ASSUME NEW S, NEW s \in Seq(S)
    PROVE  Range(s) = Elements(s) /\ Elements(s) \subseteq S
<1>1. DOMAIN s = 1 .. Len(s)
  BY LenProperties
<1>2. Elements(s) \subseteq S
  BY ElementOfSeq DEF Elements
<1> QED
  BY <1>1, <1>2 DEF Range, Elements

\* The service takes a request, or answers it at once.
LEMMA Submitted ==
    ASSUME IndInv, NEW c \in Clients, NEW r, Reading(c, r), NextFrame, Kind(r) \in Serviced,
           NEW atOnce \in BOOLEAN, Submit(r, atOnce), UNCHANGED request
    PROVE  /\ r \in All /\ Fresh(r, c) /\ emitted[r] = 0 /\ r \notin settled /\ r \notin Elements(queue)
           /\ queue' \in Seq(All) /\ settled' \subseteq All /\ emitted' = emitted
           /\ Requests' = Requests
           /\ \A q \in Elements(queue') : q \in Elements(queue) \/ (q = r /\ ~atOnce)
           /\ settled' = settled \cup (IF atOnce THEN {r} ELSE {})
           /\ \A q : Dispatched(q)' <=> Dispatched(q) \/ q = r
           /\ \A q : Client(q)' = Client(q) /\ Kind(q)' = Kind(q)
           /\ QueueRules' /\ ServiceTypes'
<1>1. TypeOK /\ QueueRules /\ ServiceTypes
  BY DEF IndInv, TypeOK
<1>2. r \in All /\ Fresh(r, c)
  BY LookedAt
<1>3. /\ queue' = IF atOnce THEN queue ELSE Append(queue, r)
      /\ settled' = IF atOnce THEN settled \cup {r} ELSE settled
      /\ emitted' = emitted /\ broken' = broken /\ request' = request
  BY DEF Submit
<1>4. queue \in Seq(All) /\ settled \subseteq All
  BY <1>1 DEF ServiceTypes
<1>5. \A q : Dispatched(q) <=> q \in Elements(queue) \cup settled
  BY <1>4, RangeElements DEF Dispatched
<1>6. /\ Append(queue, r) \in Seq(All) /\ Elements(Append(queue, r)) = Elements(queue) \cup {r}
      /\ Distinct(queue) /\ r \notin Elements(queue) => Distinct(Append(queue, r))
  BY <1>2, <1>4, AppendElements
<1>7. ~Dispatched(r) /\ r \in Requests
  BY <1>2 DEF Fresh
<1>8. /\ queue' \in Seq(All) /\ settled' \subseteq All /\ Distinct(queue')
      /\ Elements(queue') = Elements(queue) \cup (IF atOnce THEN {} ELSE {r})
      /\ settled' = settled \cup (IF atOnce THEN {r} ELSE {})
  BY <1>1, <1>2, <1>3, <1>4, <1>5, <1>6, <1>7 DEF QueueRules
<1>9. \A q : Dispatched(q)' <=> q \in Elements(queue') \cup settled'
  BY <1>8, RangeElements DEF Dispatched
<1>10. \A q : Dispatched(q)' <=> Dispatched(q) \/ q = r
  BY <1>5, <1>8, <1>9
<1>11. Requests' = Requests /\ \A q : Client(q)' = Client(q) /\ Kind(q)' = Kind(q)
  BY <1>3 DEF Requests, Client, Kind
<1>12. emitted[r] = 0
  BY <1>1, <1>2, <1>7 DEF QueueRules, ServiceTypes
<1>13. ServiceTypes'
  BY <1>1, <1>3, <1>8 DEF ServiceTypes
<1>14. \A q \in Elements(queue') : q \notin settled'
  BY <1>1, <1>5, <1>7, <1>8 DEF QueueRules
<1>15. \A q \in All : Dispatched(q)' => q \in Requests' /\ Kind(q)' \in Serviced
  BY <1>1, <1>7, <1>10, <1>11 DEF QueueRules
<1>16. \A q \in All : emitted'[q] > 0 => Dispatched(q)' /\ Kind(q)' \in Streams
  BY <1>1, <1>3, <1>10, <1>11 DEF QueueRules
<1>17. QueueRules'
  BY <1>8, <1>14, <1>15, <1>16 DEF QueueRules
<1> QED
  BY <1>2, <1>3, <1>5, <1>7, <1>8, <1>10, <1>11, <1>12, <1>13, <1>17

\* What the loop makes of a connection that asked the service for r.
Admitted(c, r, atOnce, out) ==
    LET refused == Kind(r) = "chat" /\ atOnce
    IN  /\ out \in States
        /\ out.conn.input = conn[c].input
        /\ out.conn.pending = IF Kind(r) \in Watched THEN Append(conn[c].pending, r) ELSE conn[c].pending
        /\ out.conn.ids = conn[c].ids \cup {request[r].id}
        /\ out.conn.generations = conn[c].generations \cup (IF Kind(r) \in Streams THEN {r} ELSE {})
        /\ out.conn.events = IF refused /\ ~Refuses(conn[c]) THEN Append(conn[c].events, <<r, Final>>)
                                                             ELSE conn[c].events
        /\ ~out.conn.overflow => ~conn[c].overflow /\ ~(refused /\ Refuses(conn[c]))
        /\ \/ /\ conn[c].socket # "open" /\ out.conn.socket = conn[c].socket
              /\ out.conn.closed = conn[c].closed /\ out.sent = sent /\ out.cancelled = cancelled
           \/ /\ conn[c].socket = "open" /\ out.conn.socket = "closed" /\ out.conn.closed = TRUE
              /\ out.sent = sent /\ out.cancelled = cancelled \cup out.conn.generations
           \/ /\ conn[c].socket = "open" /\ out.conn.socket = "open"
              /\ out.conn.closed = conn[c].closed /\ out.cancelled = cancelled
              /\ out.sent = IF Kind(r) \in Streams THEN [sent EXCEPT ![r] = <<Accepted>>] ELSE sent

\* Every connection but c's, every frame, future and text, when r is asked for.
LEMMA AskedAround ==
    ASSUME IndInv, NEW c \in Clients, NEW r, Reading(c, r), NextFrame, Kind(r) \in Serviced,
           NEW atOnce \in BOOLEAN, Submit(r, atOnce), UNCHANGED <<listening, request>>,
           NEW out, Admitted(c, r, atOnce, out), Become(c, out)
    PROVE  /\ TypeOK' /\ FrameRules' /\ LoopRules' /\ PendingRules' /\ TextRules'
           /\ conn'[c] = out.conn /\ sent' = out.sent /\ cancelled' = out.cancelled
           /\ \A q \in All : q # r => sent'[q] = sent[q]
           /\ \A d \in Clients : d # c => ConnRule(d, conn[d], sent, cancelled)'
<1>1. /\ r \in All /\ Fresh(r, c) /\ emitted[r] = 0 /\ r \notin settled /\ r \notin Elements(queue)
      /\ queue' \in Seq(All) /\ settled' \subseteq All /\ emitted' = emitted
      /\ Requests' = Requests
      /\ \A q \in Elements(queue') : q \in Elements(queue) \/ (q = r /\ ~atOnce)
      /\ settled' = settled \cup (IF atOnce THEN {r} ELSE {})
      /\ \A q : Dispatched(q)' <=> Dispatched(q) \/ q = r
      /\ \A q : Client(q)' = Client(q) /\ Kind(q)' = Kind(q)
      /\ QueueRules' /\ ServiceTypes'
  BY Submitted
<1>2. /\ loop.at = "read" /\ loop.client = c /\ loop.todo \in Seq(All)
      /\ r \in Elements(loop.todo)
      /\ conn[c].socket \in {"open", "closed"}
      /\ loop'.at = "read" /\ loop'.client = c /\ loop'.todo \in Seq(All)
      /\ loop' \in [at : {"rest", "read", "poll"}, client : Clients \cup {"none"}, todo : Seq(All)]
      /\ Distinct(loop'.todo)
      /\ Elements(loop'.todo) \subseteq Elements(loop.todo) /\ r \notin Elements(loop'.todo)
  BY LookedAt
<1>3. TypeOK /\ QueueRules /\ FrameRules /\ PendingRules /\ TextRules
  BY DEF IndInv
<1>4. /\ r \in Requests /\ Client(r) = c /\ ~Dispatched(r) /\ sent[r] = <<>>
  BY <1>1 DEF Fresh
<1>5. /\ out \in States /\ out.conn.input = conn[c].input
      /\ out.conn.pending = IF Kind(r) \in Watched THEN Append(conn[c].pending, r) ELSE conn[c].pending
      /\ out.conn.socket \in {"open", "closed"} /\ (out.conn.socket = "open" => conn[c].socket = "open")
      /\ out.sent \in {sent, [sent EXCEPT ![r] = <<Accepted>>]}
      /\ Kind(r) \notin Streams => out.sent = sent
      /\ cancelled \subseteq out.cancelled
  BY <1>2 DEF Admitted
<1>6. /\ out.conn \in Connections /\ out.sent \in [All -> Seq(Parts)] /\ out.cancelled \subseteq All
  BY <1>5 DEF States
<1>7. /\ conn' = [conn EXCEPT ![c] = out.conn] /\ sent' = out.sent /\ cancelled' = out.cancelled
      /\ conn \in [Clients -> Connections] /\ sent \in [All -> Seq(Parts)]
  BY <1>3 DEF Become, TypeOK
<1>8. /\ conn' \in [Clients -> Connections] /\ conn'[c] = out.conn
      /\ \A d \in Clients : d # c => conn'[d] = conn[d]
  BY <1>6, <1>7
<1>9. /\ \A q \in All : q # r => sent'[q] = sent[q]
      /\ sent'[r] \in {<<>>, <<Accepted>>} /\ (Kind(r) \notin Streams => sent'[r] = <<>>)
  BY <1>1, <1>4, <1>5, <1>7
<1>10. TypeOK'
  BY <1>1, <1>2, <1>3, <1>6, <1>7, <1>8 DEF TypeOK
<1>11. LoopRules'
  BY <1>2, <1>5, <1>8 DEF LoopRules
<1>12. \A s \in Seq(All) : Elements(s) \subseteq All
  BY RangeElements
<1>13. FrameRules'
  <2>1. \A d \in Clients : \A q \in All : Fresh(q, d) /\ q # r => Fresh(q, d)'
    BY <1>1, <1>9 DEF Fresh
  <2>2. \A d \in Clients : /\ conn'[d].input = conn[d].input /\ conn[d].input \in Seq(All)
                           /\ r \notin Elements(conn[d].input)
    <3>1. \A d \in Clients : conn'[d].input = conn[d].input /\ conn[d].input \in Seq(All)
      BY <1>3, <1>5, <1>8 DEF TypeOK, Connections
    <3>2. r \notin Elements(conn[c].input)
      BY <1>2, <1>3 DEF FrameRules
    <3>3. \A d \in Clients : d # c => r \notin Elements(conn[d].input)
      BY <1>3, <1>4 DEF FrameRules, Fresh
    <3> QED
      BY <3>1, <3>2, <3>3
  <2>3. \A d \in Clients : Distinct(conn'[d].input) /\ \A q \in Elements(conn'[d].input) : Fresh(q, d)'
    BY <1>3, <1>12, <2>1, <2>2 DEF FrameRules
  <2>4. \A q \in Elements(loop'.todo) : Fresh(q, c)' /\ q \notin Elements(conn'[c].input)
    BY <1>2, <1>3, <1>12, <2>1, <2>2 DEF FrameRules
  <2>5. \A q \in Elements(loop'.todo) : Fresh(q, loop.client)'
    BY <1>2, <2>4 DEF Fresh
  <2>6. \A q \in All : q \notin Requests' => sent'[q] = <<>>
    BY <1>1, <1>3, <1>4, <1>9 DEF FrameRules
  <2> QED
    BY <1>2, <2>3, <2>4, <2>5, <2>6 DEF FrameRules
<1>14. PendingRules'
  <2>1. ASSUME NEW d \in Clients, NEW q \in All, Pending(q, d) PROVE Pending(q, d)' /\ q # r
    <3>1. q # r /\ sent'[q] = sent[q]
      BY <1>4, <1>9, <2>1 DEF Pending
    <3>2. Answered(q)' <=> Answered(q)
      BY <3>1 DEF Answered
    <3>3. Dispatched(q)' /\ Client(q)' = d /\ Kind(q)' \in Watched
      BY <1>1, <2>1 DEF Pending
    <3>4. conn'[d].socket = "open" => conn[d].socket = "open"
      BY <1>5, <1>8
    <3> QED
      BY <2>1, <3>1, <3>2, <3>3, <3>4 DEF Pending
  <2>2. \A d \in Clients : conn[d].pending \in Seq(All)
    BY <1>3 DEF TypeOK, Connections
  <2>3. \A d \in Clients : /\ Distinct(conn[d].pending)
                           /\ \A q \in Elements(conn[d].pending) : Pending(q, d)' /\ q # r
    BY <1>3, <1>12, <2>1, <2>2 DEF PendingRules
  <2>4. Kind(r) \in Watched => Pending(r, c)'
    <3>1. ~Answered(r)'
      <4>1. Accepted # Final
        BY IpcAssumption DEF Accepted, Final
      <4> QED
        BY <1>9, <4>1 DEF Answered, Range
    <3> QED
      BY <1>1, <1>4, <3>1 DEF Pending
  <2>5. /\ Distinct(Append(conn[c].pending, r))
        /\ Elements(Append(conn[c].pending, r)) = Elements(conn[c].pending) \cup {r}
    BY <1>1, <2>2, <2>3, AppendElements
  <2>6. \A d \in Clients : Distinct(conn'[d].pending) /\ \A q \in Elements(conn'[d].pending) : Pending(q, d)'
    BY <1>5, <1>8, <2>3, <2>4, <2>5
  <2> QED
    BY <1>2, <2>6 DEF PendingRules
<1>15. TextRules'
  <2>1. ASSUME NEW q \in All, q # r PROVE TextRule(q, sent[q])'
    <3>1. TextRule(q, sent[q])
      BY <1>3 DEF TextRules
    <3>2. /\ Dispatched(q)' <=> Dispatched(q)
          /\ Limit(q)' = Limit(q) /\ sent'[q] = sent[q] /\ (q \in settled => q \in settled')
      BY <1>1, <1>9, <2>1 DEF Limit
    <3> QED
      BY <3>1, <3>2 DEF TextRule
  <2>2. TextRule(r, sent[r])'
    <3>1. Limit(r)' = IF Kind(r) \in Streams THEN 1 ELSE 0
      BY <1>1 DEF Limit
    <3>2. First(0) = <<>> /\ First(1) = <<Accepted>>
      <4>1. First(0) \in Seq(Parts) /\ Len(First(0)) = 0 /\ Append(First(0), 0) = First(0 + 1)
        BY IpcAssumption, Beginnings
      <4>2. First(0) = <<>>
        BY <4>1, EmptySeq
      <4>3. Append(<<>>, 0) = <<0>> /\ 0 + 1 = 1
        OBVIOUS
      <4>4. First(1) = <<0>>
        BY <4>1, <4>2, <4>3, Zenon
      <4> QED
        BY <4>2, <4>4 DEF Accepted
    <3> QED
      BY <1>1, <1>9, <3>1, <3>2 DEF TextRule
  <2> QED
    BY <2>1, <2>2 DEF TextRules
<1>16. ASSUME NEW d \in Clients, d # c PROVE ConnRule(d, conn[d], sent, cancelled)'
  <2>1. \A q \in All : Dispatched(q)' /\ Client(q)' = d <=> Dispatched(q) /\ Client(q) = d
    BY <1>1, <1>4, <1>16
  <2>2. \A q \in All : Dispatched(q) /\ Client(q) = d =>
            /\ request'[q] = request[q] /\ emitted'[q] = emitted[q] /\ sent'[q] = sent[q]
            /\ q \in settled' <=> q \in settled
            /\ q \in Elements(queue') => q \in Elements(queue)
    BY <1>1, <1>4, <1>9
  <2>3. \A q \in Requests' : Client(q)' = d /\ conn[d].socket # "open" => q \in Requests /\ Client(q) = d
    BY <1>1
  <2>4. conn'[d] = conn[d] /\ queue' \in Seq(All) /\ cancelled \subseteq cancelled'
    BY <1>1, <1>5, <1>7, <1>8, <1>16
  <2> QED
    BY <2>1, <2>2, <2>3, <2>4, ConnKeeps
<1> QED
  BY <1>7, <1>8, <1>9, <1>10, <1>11, <1>13, <1>14, <1>15, <1>16

\* The parts of q in an inbox, and their order; one event more.
PartsOf(q, events) == {events[i][2] : i \in {j \in 1 .. Len(events) : events[j][1] = q}}
Ordered(events) ==
    \A i, j \in 1 .. Len(events) : i < j /\ events[i][1] = events[j][1] => events[i][2] < events[j][2]

\* InboxRule in those terms.
LEMMA InboxParts ==
    ASSUME NEW c, NEW text, NEW events
    PROVE  InboxRule(c, text, events, 0) <=>
               /\ Ordered(events)
               /\ \A r \in All : Dispatched(r) /\ Client(r) = c => PartsOf(r, events) = Owed(r, text[r])
  BY DEF InboxRule, Ordered, PartsOf

\* A callback puts a part that is later than any in the inbox.
LEMMA Pushing ==
    ASSUME NEW events \in Seq(All \X Parts), NEW r \in All, NEW part \in Parts,
           Ordered(events), \A x \in PartsOf(r, events) : x < part
    PROVE  /\ Append(events, <<r, part>>) \in Seq(All \X Parts)
           /\ Ordered(Append(events, <<r, part>>))
           /\ PartsOf(r, Append(events, <<r, part>>)) = PartsOf(r, events) \cup {part}
           /\ \A q \in All : q # r => PartsOf(q, Append(events, <<r, part>>)) = PartsOf(q, events)
           /\ \A i \in 1 .. Len(events) + 1 :
                  \/ Append(events, <<r, part>>)[i] = <<r, part>>
                  \/ i \in 1 .. Len(events) /\ Append(events, <<r, part>>)[i] = events[i]
           /\ Len(Append(events, <<r, part>>)) = Len(events) + 1
<1> DEFINE more == Append(events, <<r, part>>)
           n == Len(events)
<1>1. /\ more \in Seq(All \X Parts) /\ Len(more) = n + 1 /\ n \in Nat
      /\ \A i \in 1 .. n : more[i] = events[i]
      /\ more[n + 1] = <<r, part>>
  BY AppendProperties, LenProperties
<1> HIDE DEF more
<1>2. 1 .. n + 1 = (1 .. n) \cup {n + 1}
  BY <1>1
<1>3. Ordered(more)
  <2>1. ASSUME NEW i \in 1 .. n + 1, NEW j \in 1 .. n + 1, i < j, more[i][1] = more[j][1]
        PROVE  more[i][2] < more[j][2]
    <3>1. i \in 1 .. n /\ more[i] = events[i]
      BY <1>1, <2>1
    <3>2. CASE j \in 1 .. n
      BY <1>1, <2>1, <3>1, <3>2 DEF Ordered
    <3>3. CASE j = n + 1
      <4>1. more[j][1] = r /\ more[j][2] = part
        BY <1>1, <3>3
      <4>2. events[i][2] \in PartsOf(r, events)
        BY <2>1, <3>1, <4>1 DEF PartsOf
      <4> QED
        BY <3>1, <4>1, <4>2
    <3> QED
      BY <1>2, <3>2, <3>3
  <2> QED
    BY <1>1, <2>1 DEF Ordered
<1>4. ASSUME NEW q \in All PROVE PartsOf(q, more) = PartsOf(q, events) \cup (IF q = r THEN {part} ELSE {})
  <2>1. \A x : x \in PartsOf(q, more) <=> \E j \in 1 .. n + 1 : more[j][1] = q /\ x = more[j][2]
    BY <1>1 DEF PartsOf
  <2>2. \A x : x \in PartsOf(q, events) <=> \E j \in 1 .. n : events[j][1] = q /\ x = events[j][2]
    BY DEF PartsOf
  <2>3. more[n + 1][1] = r /\ more[n + 1][2] = part
    BY <1>1
  <2>4. \A x : (\E j \in 1 .. n + 1 : more[j][1] = q /\ x = more[j][2])
               <=> (\E j \in 1 .. n : events[j][1] = q /\ x = events[j][2]) \/ (q = r /\ x = part)
    BY <1>1, <1>2, <2>3
  <2> QED
    BY <2>1, <2>2, <2>4
<1> QED
  BY <1>1, <1>2, <1>3, <1>4 DEF more

\* The connection that asked.
LEMMA AskedConn ==
    ASSUME IndInv, NEW c \in Clients, NEW r, Reading(c, r), NextFrame, Kind(r) \in Serviced, ~Refused(c, r),
           NEW atOnce \in BOOLEAN, Submit(r, atOnce), UNCHANGED <<listening, request>>,
           NEW out, Admitted(c, r, atOnce, out), Become(c, out)
    PROVE  ConnRule(c, conn[c], sent, cancelled)'
<1>1. /\ r \in All /\ Fresh(r, c) /\ emitted[r] = 0 /\ r \notin settled /\ r \notin Elements(queue)
      /\ queue' \in Seq(All) /\ settled' \subseteq All /\ emitted' = emitted
      /\ Requests' = Requests
      /\ \A q \in Elements(queue') : q \in Elements(queue) \/ (q = r /\ ~atOnce)
      /\ settled' = settled \cup (IF atOnce THEN {r} ELSE {})
      /\ \A q : Dispatched(q)' <=> Dispatched(q) \/ q = r
      /\ \A q : Client(q)' = Client(q) /\ Kind(q)' = Kind(q)
  BY Submitted
<1>2. /\ conn'[c] = out.conn /\ sent' = out.sent /\ cancelled' = out.cancelled
      /\ \A q \in All : q # r => sent'[q] = sent[q]
  BY AskedAround
<1>3. conn[c].socket \in {"open", "closed"}
  BY LookedAt
<1>4. ConnRule(c, conn[c], sent, cancelled) /\ QueueRules /\ TypeOK
  BY DEF IndInv, ConnRules
<1>5. r \in Requests /\ Client(r) = c /\ ~Dispatched(r) /\ sent[r] = <<>> /\ request' = request
  BY <1>1 DEF Fresh
<1> DEFINE refused == Kind(r) = "chat" /\ atOnce
           k == out.conn
<1>6. /\ k.ids = conn[c].ids \cup {request[r].id}
      /\ k.generations = conn[c].generations \cup (IF Kind(r) \in Streams THEN {r} ELSE {})
      /\ k.events = IF refused /\ ~Refuses(conn[c]) THEN Append(conn[c].events, <<r, Final>>)
                                                    ELSE conn[c].events
      /\ ~k.overflow => ~conn[c].overflow /\ ~(refused /\ Refuses(conn[c]))
      /\ \/ conn[c].socket # "open" /\ k.socket = conn[c].socket /\ k.closed = conn[c].closed
         \/ conn[c].socket = "open" /\ k.socket = "closed" /\ k.closed = TRUE
         \/ conn[c].socket = "open" /\ k.socket = "open" /\ k.closed = conn[c].closed
      /\ cancelled \subseteq cancelled'
  BY <1>2 DEF Admitted
<1>7. k.socket = "open" => sent' = IF Kind(r) \in Streams THEN [sent EXCEPT ![r] = <<Accepted>>] ELSE sent
  BY <1>2 DEF Admitted
<1> HIDE DEF k, refused
<1>8. \A q : Mine(q, c)' <=> Mine(q, c) \/ (q = r /\ Kind(r) \in Streams)
  BY <1>1, <1>5 DEF Mine
<1>9. \A q \in k.generations : Mine(q, c)'
  BY <1>4, <1>6, <1>8 DEF ConnRule
<1>10. /\ conn[c].events \in Seq(All \X Parts) /\ sent \in [All -> Seq(Parts)] /\ Final \in Parts
       /\ Len(conn[c].events) \in Nat /\ Final \in Nat \ {0}
  BY <1>4, IpcAssumption, LenProperties DEF TypeOK, Connections, Parts, Final
<1>11. PartsOf(r, conn[c].events) = {}
  <2>1. \A i \in 1 .. Len(conn[c].events) : Dispatched(conn[c].events[i][1])
    BY <1>4 DEF ConnRule, EventRule, Mine
  <2> QED
    BY <1>5, <2>1 DEF PartsOf
<1>12. ASSUME NEW i \in 1 .. Len(k.events) PROVE EventRule(c, k.events[i])'
  <2>1. ASSUME NEW e, EventRule(c, e) PROVE /\ Mine(e[1], c)'
                                            /\ e[2] = Final => Kind(e[1])' = "chat" /\ e[1] \in settled'
    BY <1>1, <1>8, <2>1 DEF EventRule
  <2>2. \A j \in 1 .. Len(conn[c].events) : EventRule(c, conn[c].events[j])
    BY <1>4 DEF ConnRule
  <2>3. \/ i \in 1 .. Len(conn[c].events) /\ k.events[i] = conn[c].events[i]
        \/ refused /\ k.events[i] = <<r, Final>>
    <3>1. CASE refused /\ ~Refuses(conn[c])
      <4>1. k.events = Append(conn[c].events, <<r, Final>>)
        BY <1>6, <3>1
      <4>2. <<r, Final>> \in All \X Parts
        BY <1>1, <1>10
      <4>3. /\ Len(k.events) = Len(conn[c].events) + 1
            /\ \A j \in 1 .. Len(conn[c].events) : k.events[j] = conn[c].events[j]
            /\ k.events[Len(conn[c].events) + 1] = <<r, Final>>
        BY <1>10, <4>1, <4>2, AppendProperties
      <4>4. i \in 1 .. Len(conn[c].events) \/ i = Len(conn[c].events) + 1
        BY <1>10, <4>3
      <4> QED
        BY <3>1, <4>3, <4>4
    <3>2. CASE ~(refused /\ ~Refuses(conn[c]))
      BY <1>6, <3>2
    <3> QED
      BY <3>1, <3>2
  <2>4. /\ Mine(k.events[i][1], c)'
        /\ k.events[i][2] = Final => Kind(k.events[i][1])' = "chat" /\ k.events[i][1] \in settled'
    <3>1. CASE i \in 1 .. Len(conn[c].events) /\ k.events[i] = conn[c].events[i]
      BY <2>1, <2>2, <3>1
    <3>2. CASE refused /\ k.events[i] = <<r, Final>>
      <4>1. k.events[i][1] = r /\ Kind(r) = "chat" /\ r \in settled'
        BY <1>1, <3>2 DEF refused
      <4> QED
        BY <1>1, <1>8, <4>1 DEF Streams
    <3> QED
      BY <2>3, <3>1, <3>2
  <2> QED
    BY <1>2, <2>4 DEF EventRule, k
<1>13. k.socket # "open" => \A q \in Elements(queue') : Mine(q, c)' => q \in cancelled' \cup k.generations
  <2>1. ASSUME NEW q \in Elements(queue), Mine(q, c) PROVE q \in cancelled' \cup k.generations
    <3>1. q \in cancelled \cup conn[c].generations
      BY <1>3, <2>1, StateOf, StateFits, StreamsStop
    <3> QED
      BY <1>6, <3>1
  <2>2. ~Mine(r, c)
    BY <1>5 DEF Mine
  <2> QED
    BY <1>1, <1>6, <1>8, <2>1, <2>2
<1>14. ASSUME k.socket = "open" PROVE Live(c, conn[c], sent)' /\ (~k.overflow => InboxRule(c, sent, conn[c].events, 0)')
  <2>1. conn[c].socket = "open" /\ Live(c, conn[c], sent)
    BY <1>4, <1>6, <1>14 DEF ConnRule
  <2>2. Final \notin Elements(sent'[r]) /\ (Kind(r) \in Streams => sent'[r] = <<Accepted>>) /\ (Kind(r) \notin Streams => sent'[r] = <<>>)
    <3>1. Accepted # Final
      BY IpcAssumption DEF Accepted, Final
    <3> QED
      BY <1>1, <1>5, <1>7, <1>10, <1>14, <3>1 DEF Elements
  <2>3. Flying(c, sent)' = Flying(c, sent) \cup {r}
    BY <1>1, <1>2, <1>5, <2>2 DEF Flying
  <2>4. \A q \in Flying(c, sent) : q \in All /\ q # r /\ sent'[q] = sent[q]
    BY <1>2, <1>5 DEF Flying
  <2>5. request[r].id \notin conn[c].ids
    BY DEF Refused
  <2>6. Live(c, conn[c], sent)'
    <3>1. k.ids = {request'[q].id : q \in Flying(c, sent)'}
      BY <1>5, <1>6, <2>1, <2>3 DEF Live
    <3>2. \A q, p \in Flying(c, sent)' : request'[q].id = request'[p].id => q = p
      BY <1>5, <2>1, <2>3, <2>5 DEF Live
    <3>3. k.generations = {q \in Flying(c, sent)' : Kind(q)' \in Streams}
      BY <1>1, <1>6, <2>1, <2>3 DEF Live
    <3>4. \A q \in k.generations : sent'[q] # <<>>
      <4>1. \A q \in conn[c].generations : sent'[q] # <<>>
        BY <2>1, <2>4 DEF Live
      <4>2. Kind(r) \in Streams => sent'[r] # <<>>
        BY <2>2
      <4> QED
        BY <1>6, <4>1, <4>2
    <3> QED
      BY <1>2, <3>1, <3>2, <3>3, <3>4 DEF Live, k
  <2>7. ASSUME ~k.overflow PROVE InboxRule(c, sent, conn[c].events, 0)'
    <3>1. InboxRule(c, sent, conn[c].events, 0) /\ ~(refused /\ Refuses(conn[c]))
      BY <1>4, <1>6, <2>1, <2>7 DEF ConnRule
    <3>2. /\ Ordered(conn[c].events)
          /\ \A q \in All : Dispatched(q) /\ Client(q) = c => PartsOf(q, conn[c].events) = Owed(q, sent[q])
      BY <3>1, InboxParts
    <3>3. /\ Ordered(k.events)
          /\ \A q \in All : q # r => PartsOf(q, k.events) = PartsOf(q, conn[c].events)
          /\ PartsOf(r, k.events) = IF refused THEN {Final} ELSE {}
      <4>1. CASE refused
        <5>1. k.events = Append(conn[c].events, <<r, Final>>)
          BY <1>6, <3>1, <4>1
        <5>2. \A x \in PartsOf(r, conn[c].events) : x < Final
          BY <1>11
        <5>3. r \in All /\ conn[c].events \in Seq(All \X Parts) /\ Final \in Parts /\ Ordered(conn[c].events)
          BY <1>1, <1>10, <3>2
        <5>4. /\ Ordered(k.events)
              /\ PartsOf(r, k.events) = PartsOf(r, conn[c].events) \cup {Final}
              /\ \A q \in All : q # r => PartsOf(q, k.events) = PartsOf(q, conn[c].events)
          BY <5>1, <5>2, <5>3, Pushing
        <5> QED
          BY <1>11, <4>1, <5>4
      <4>2. CASE ~refused
        BY <1>6, <1>11, <3>2, <4>2
      <4> QED
        BY <4>1, <4>2
    <3>4. \A q \in All : q # r /\ Dispatched(q) => Owed(q, sent[q])' = Owed(q, sent[q])
      BY <1>1, <1>2 DEF Owed, Limit, Ends
    <3>5. Owed(r, sent[r])' = IF refused THEN {Final} ELSE {}
      <4>1. Limit(r)' = IF Kind(r) \in Streams THEN 1 ELSE 0
        BY <1>1 DEF Limit
      <4>2. Ends(r)' = IF refused THEN {Final} ELSE {}
        BY <1>1 DEF Ends, refused
      <4>3. Owed(r, sent[r])' = (Len(sent'[r]) .. Limit(r)' - 1) \cup Ends(r)'
        BY <2>2 DEF Owed
      <4>4. (Len(sent'[r]) .. Limit(r)' - 1) = {}
        BY <2>2, <4>1
      <4> QED
        BY <4>2, <4>3, <4>4
    <3>6. \A q \in All : Dispatched(q)' /\ Client(q)' = c => PartsOf(q, k.events) = Owed(q, sent[q])'
      BY <1>1, <3>2, <3>3, <3>4, <3>5
    <3>7. conn'[c].events = k.events /\ 0 + 1 = 1
      BY <1>2 DEF k
    <3> HIDE DEF k
    <3>8. \A i, j \in 0 + 1 .. Len(conn'[c].events) :
              i < j /\ conn'[c].events[i][1] = conn'[c].events[j][1] => conn'[c].events[i][2] < conn'[c].events[j][2]
      BY <3>3, <3>7 DEF Ordered
    <3>9. \A q \in All : Dispatched(q)' /\ Client(q)' = c =>
              {conn'[c].events[i][2] : i \in {j \in 0 + 1 .. Len(conn'[c].events) : conn'[c].events[j][1] = q}}
                  = Owed(q, sent[q])'
      BY <3>6, <3>7 DEF PartsOf
    <3> QED
      BY <3>8, <3>9 DEF InboxRule
  <2> QED
    BY <2>6, <2>7
<1>15. /\ k.socket \in {"open", "closed"} /\ (k.socket = "open" => ~k.closed) /\ (k.socket = "closed" => k.closed)
  BY <1>3, <1>4, <1>6 DEF ConnRule
<1> QED
  BY <1>2, <1>9, <1>12, <1>13, <1>14, <1>15 DEF ConnRule, k

\* A method is dispatched: all that it leaves to show is Admitted.
LEMMA AskStep ==
    ASSUME IndInv, NEW c \in Clients, NEW r, Reading(c, r), NextFrame, Kind(r) \in Serviced, ~Refused(c, r),
           NEW atOnce \in BOOLEAN, Submit(r, atOnce), UNCHANGED <<listening, request>>,
           NEW out, Admitted(c, r, atOnce, out), Become(c, out)
    PROVE  IndInv'
<1>1. QueueRules'
  BY Submitted
<1>2. /\ TypeOK' /\ FrameRules' /\ LoopRules' /\ PendingRules' /\ TextRules'
      /\ \A d \in Clients : d # c => ConnRule(d, conn[d], sent, cancelled)'
  BY AskedAround
<1>3. ConnRule(c, conn[c], sent, cancelled)'
  BY AskedConn
<1>4. ConnRules'
  BY <1>2, <1>3 DEF ConnRules
<1> QED
  BY <1>1, <1>2, <1>4 DEF IndInv

\* The id of a request.
LEMMA IdOf ==
    ASSUME IndInv, NEW r \in Requests
    PROVE  request[r].id \in Ids
<1>1. request \in Seq(Asked) /\ r \in 1 .. Len(request)
  BY DEF IndInv, TypeOK, Requests
<1>2. request[r] \in Asked
  BY <1>1, ElementOfSeq
<1> QED
  BY <1>2 DEF Asked

\* A state with a connection that holds a request.
HeldRule(k, s, t, i, g, p) ==
    /\ [[conn |-> k, sent |-> s, cancelled |-> t] EXCEPT !.conn.ids = i, !.conn.generations = g]
           = [conn |-> [k EXCEPT !.ids = i, !.generations = g], sent |-> s, cancelled |-> t]
    /\ [[conn |-> k, sent |-> s, cancelled |-> t] EXCEPT !.conn.ids = i, !.conn.generations = g, !.conn.pending = p]
           = [conn |-> [k EXCEPT !.ids = i, !.generations = g, !.pending = p], sent |-> s, cancelled |-> t]

\* Replacing the fields of a connection in a state.
LEMMA HeldStates ==
    ASSUME NEW k, NEW s, NEW t, NEW i, NEW g, NEW p
    PROVE  HeldRule(k, s, t, i, g, p)
<1> DEFINE k1 == [k EXCEPT !.ids = i]
           k2 == [k1 EXCEPT !.generations = g]
           k3 == [k2 EXCEPT !.pending = p]
           Of(h) == [conn |-> h, sent |-> s, cancelled |-> t]
<1>1. [Of(k) EXCEPT !.conn.ids = i] = Of(k1)
  OBVIOUS
<1>2. [Of(k1) EXCEPT !.conn.generations = g] = Of(k2)
  <2> HIDE DEF k1
  <2> QED
    OBVIOUS
<1>3. [Of(k2) EXCEPT !.conn.pending = p] = Of(k3)
  <2> HIDE DEF k2
  <2> QED
    OBVIOUS
<1>4. [k EXCEPT !.ids = i, !.generations = g] = k2 /\ [k EXCEPT !.ids = i, !.generations = g, !.pending = p] = k3
  OBVIOUS
<1>5. [Of(k) EXCEPT !.conn.ids = i, !.conn.generations = g] = [[Of(k) EXCEPT !.conn.ids = i] EXCEPT !.conn.generations = g]
  BY Zenon
<1>6. [Of(k) EXCEPT !.conn.ids = i, !.conn.generations = g, !.conn.pending = p]
     = [[[Of(k) EXCEPT !.conn.ids = i] EXCEPT !.conn.generations = g] EXCEPT !.conn.pending = p]
  BY Zenon
<1> HIDE DEF k1, k2, k3
<1>7. [Of(k) EXCEPT !.conn.ids = i, !.conn.generations = g] = Of(k2)
  BY <1>1, <1>2, <1>5, Zenon
<1>8. [Of(k) EXCEPT !.conn.ids = i, !.conn.generations = g, !.conn.pending = p] = Of(k3)
  BY <1>1, <1>2, <1>3, <1>6, Zenon
<1> QED
  BY <1>4, <1>7, <1>8, Zenon DEF HeldRule

\* What dispatch() makes of a connection k for a stream r that it admits.
Opened(k, r) == [k EXCEPT !.ids = k.ids \cup {request[r].id}, !.generations = k.generations \cup {r}]
Pulling(k, r) == [k EXCEPT !.ids = k.ids \cup {request[r].id}, !.generations = k.generations \cup {r},
                           !.pending = Append(k.pending, r)]

OpenedRule(k, r, st) ==
    /\ [st EXCEPT !.conn.ids = @ \cup {request[r].id}, !.conn.generations = @ \cup {r}]
           = [conn |-> Opened(k, r), sent |-> sent, cancelled |-> cancelled]
    /\ [st EXCEPT !.conn.ids = @ \cup {request[r].id}, !.conn.generations = @ \cup {r},
                  !.conn.pending = Append(@, r)]
           = [conn |-> Pulling(k, r), sent |-> sent, cancelled |-> cancelled]

\* The state in which ReadPull and ReadChat send the handle.
LEMMA OpenedStates ==
    ASSUME NEW k, NEW r, NEW st, st = [conn |-> k, sent |-> sent, cancelled |-> cancelled]
    PROVE  OpenedRule(k, r, st)
<1> DEFINE ids == k.ids \cup {request[r].id}
           generations == k.generations \cup {r}
           pending == Append(k.pending, r)
<1>1. st.conn = k
  OBVIOUS
<1>2. /\ [st EXCEPT !.conn.ids = @ \cup {request[r].id}, !.conn.generations = @ \cup {r}]
             = [st EXCEPT !.conn.ids = ids, !.conn.generations = generations]
      /\ [st EXCEPT !.conn.ids = @ \cup {request[r].id}, !.conn.generations = @ \cup {r},
                    !.conn.pending = Append(@, r)]
             = [st EXCEPT !.conn.ids = ids, !.conn.generations = generations, !.conn.pending = pending]
  BY <1>1, Zenon
<1>3. HeldRule(k, sent, cancelled, ids, generations, pending)
  BY HeldStates
<1>4. /\ [st EXCEPT !.conn.ids = ids, !.conn.generations = generations]
             = [conn |-> [k EXCEPT !.ids = ids, !.generations = generations], sent |-> sent, cancelled |-> cancelled]
      /\ [st EXCEPT !.conn.ids = ids, !.conn.generations = generations, !.conn.pending = pending]
             = [conn |-> [k EXCEPT !.ids = ids, !.generations = generations, !.pending = pending],
                sent |-> sent, cancelled |-> cancelled]
  <2> HIDE DEF ids, generations, pending
  <2> QED
    BY <1>3, Zenon DEF HeldRule
<1> QED
  BY <1>2, <1>4, Zenon DEF OpenedRule, Opened, Pulling

\* A method that is answered by a future.
LEMMA ReadControlStep ==
    ASSUME IndInv, NEW c \in Clients, NEW r, NEW atOnce \in BOOLEAN, ReadControl(c, r, atOnce)
    PROVE  IndInv'
<1> DEFINE ids == conn[c].ids \cup {request[r].id}
           pending == Append(conn[c].pending, r)
           k == [conn[c] EXCEPT !.ids = ids, !.pending = pending]
           out == [conn |-> k, sent |-> sent, cancelled |-> cancelled]
<1>1. /\ Reading(c, r) /\ ~Refused(c, r) /\ Kind(r) = "control" /\ Submit(r, atOnce) /\ NextFrame
      /\ conn' = [conn EXCEPT ![c].ids = ids, ![c].pending = pending]
      /\ UNCHANGED <<listening, request, cancelled, sent>> /\ UNCHANGED <<listening, request>>
  BY DEF ReadControl, Kind
<1>2. TypeOK
  BY DEF IndInv
<1>3. r \in All /\ Fresh(r, c) /\ conn[c].socket \in {"open", "closed"}
  BY <1>1, LookedAt
<1>4. /\ conn[c] \in Connections /\ ids \subseteq Ids /\ pending \in Seq(All)
      /\ sent \in [All -> Seq(Parts)] /\ cancelled \in SUBSET All
  <2>1. request[r].id \in Ids
    BY <1>3, IdOf DEF Fresh
  <2>2. conn[c] \in Connections /\ conn[c].pending \in Seq(All) /\ conn[c].ids \subseteq Ids
    BY <1>2 DEF TypeOK, Connections
  <2>3. pending \in Seq(All)
    BY <1>3, <2>2
  <2> QED
    BY <1>2, <2>1, <2>2, <2>3 DEF TypeOK
<1> HIDE DEF ids, pending
<1>5. /\ k \in Connections /\ k.ids = ids /\ k.pending = pending
      /\ k.socket = conn[c].socket /\ k.generations = conn[c].generations
      /\ k.events = conn[c].events /\ k.closed = conn[c].closed
      /\ k.overflow = conn[c].overflow /\ k.input = conn[c].input
  <2>1. ASSUME NEW h \in Connections, NEW i \in SUBSET Ids, NEW p \in Seq(All)
        PROVE  [h EXCEPT !.ids = i, !.pending = p] \in Connections
    BY DEF Connections
  <2>2. k \in Connections
    BY <1>4, <2>1
  <2> QED
    BY <1>4, <2>2 DEF Connections
<1>6. conn' = [conn EXCEPT ![c] = k]
  <2>1. conn \in [Clients -> Connections]
    BY <1>2 DEF TypeOK
  <2> QED
    BY <1>1, <2>1
<1> HIDE DEF k
<1>7. out \in States /\ out.conn = k /\ out.sent = sent /\ out.cancelled = cancelled
  BY <1>4, <1>5 DEF States
<1> HIDE DEF out
<1>8. Become(c, out)
  BY <1>1, <1>6, <1>7 DEF Become
<1>9. Admitted(c, r, atOnce, out)
  BY <1>1, <1>3, <1>5, <1>7 DEF Admitted, Watched, Streams, ids, pending
<1>10. Kind(r) \in Serviced
  BY <1>1 DEF Serviced
<1> QED
  BY <1>1, <1>8, <1>9, <1>10, AskStep

\* The handle is sent to a connection that holds the request.
LEMMA HeldAdmitted ==
    ASSUME IndInv, NEW c \in Clients, NEW r \in All, sent[r] = <<>>, Kind(r) \in Streams,
           conn[c].socket \in {"open", "closed"}, NEW atOnce \in BOOLEAN,
           NEW h \in Connections, h.input = conn[c].input,
           h.pending = IF Kind(r) \in Watched THEN Append(conn[c].pending, r) ELSE conn[c].pending,
           h.ids = conn[c].ids \cup {request[r].id}, h.generations = conn[c].generations \cup {r},
           h.events = IF Kind(r) = "chat" /\ atOnce /\ ~Refuses(conn[c])
                      THEN Append(conn[c].events, <<r, Final>>) ELSE conn[c].events,
           ~h.overflow => ~conn[c].overflow /\ ~(Kind(r) = "chat" /\ atOnce /\ Refuses(conn[c])),
           h.socket = conn[c].socket, h.closed = conn[c].closed
    PROVE  Admitted(c, r, atOnce, Send([conn |-> h, sent |-> sent, cancelled |-> cancelled], r, Accepted))
<1> DEFINE st == [conn |-> h, sent |-> sent, cancelled |-> cancelled]
           out == Send(st, r, Accepted)
<1> SUFFICES Admitted(c, r, atOnce, out)
  OBVIOUS
<1>1. st \in States /\ st.conn = h /\ st.sent = sent /\ st.cancelled = cancelled
  BY DEF IndInv, TypeOK, States
<1>2. Accepted \in Parts /\ sent \in [All -> Seq(Parts)]
  BY IpcAssumption DEF Accepted, Parts, Final, IndInv, TypeOK
<1> HIDE DEF st
<1>3. /\ out \in States /\ Kept(st, out)
      /\ \/ st.conn.socket # "open" /\ out = st
         \/ st.conn.socket = "open" /\ Broken(st, out)
         \/ st.conn.socket = "open" /\ Sent(st, out, r, Accepted)
  BY <1>1, <1>2, SendCases
<1> HIDE DEF out
<1>4. /\ out.conn.input = h.input /\ out.conn.pending = h.pending /\ out.conn.events = h.events
      /\ out.conn.overflow = h.overflow /\ out.conn.ids = h.ids /\ out.conn.generations = h.generations
  BY <1>1, <1>3 DEF Kept, Broken, Sent
<1>5. \/ /\ conn[c].socket # "open" /\ out.conn.socket = conn[c].socket
         /\ out.conn.closed = conn[c].closed /\ out.sent = sent /\ out.cancelled = cancelled
      \/ /\ conn[c].socket = "open" /\ out.conn.socket = "closed" /\ out.conn.closed = TRUE
         /\ out.sent = sent /\ out.cancelled = cancelled \cup out.conn.generations
      \/ /\ conn[c].socket = "open" /\ out.conn.socket = "open"
         /\ out.conn.closed = conn[c].closed /\ out.cancelled = cancelled
         /\ out.sent = [sent EXCEPT ![r] = <<Accepted>>]
  <2>1. CASE st.conn.socket # "open" /\ out = st
    BY <1>1, <2>1
  <2>2. CASE st.conn.socket = "open" /\ Broken(st, out)
    <3>1. out.conn.closed = TRUE
      <4>1. out.conn.closed \in BOOLEAN
        BY <1>3 DEF States, Connections
      <4> QED
        BY <2>2, <4>1 DEF Broken
    <3> QED
      BY <1>1, <1>4, <2>2, <3>1 DEF Broken
  <2>3. CASE st.conn.socket = "open" /\ Sent(st, out, r, Accepted)
    <3>1. Append(sent[r], Accepted) = <<Accepted>>
      OBVIOUS
    <3>2. out.sent = [sent EXCEPT ![r] = Append(sent[r], Accepted)]
      BY <1>1, <2>3 DEF Sent
    <3> QED
      BY <1>1, <2>3, <3>1, <3>2 DEF Sent
  <2> QED
    BY <1>3, <2>1, <2>2, <2>3
<1> QED
  BY <1>3, <1>4, <1>5 DEF Admitted

\* A pull: its handle is sent, and its events and its answer are to come.
LEMMA ReadPullStep ==
    ASSUME IndInv, NEW c \in Clients, NEW r, NEW atOnce \in BOOLEAN, ReadPull(c, r, atOnce)
    PROVE  IndInv'
<1> DEFINE ids == conn[c].ids \cup {request[r].id}
           generations == conn[c].generations \cup {r}
           pending == Append(conn[c].pending, r)
           h == [conn[c] EXCEPT !.ids = ids, !.generations = generations, !.pending = pending]
           st == [conn |-> h, sent |-> sent, cancelled |-> cancelled]
           out == Send(st, r, Accepted)
<1>1. /\ Reading(c, r) /\ ~Refused(c, r) /\ Kind(r) = "pull" /\ Submit(r, atOnce) /\ NextFrame
      /\ Become(c, Send([State(c) EXCEPT !.conn.ids = @ \cup {request[r].id},
                                         !.conn.generations = @ \cup {r},
                                         !.conn.pending = Append(@, r)], r, Accepted))
      /\ UNCHANGED <<listening, request>>
  BY DEF ReadPull, Kind
<1>2. TypeOK
  BY DEF IndInv
<1>3. r \in All /\ Fresh(r, c) /\ conn[c].socket \in {"open", "closed"}
  BY <1>1, LookedAt
<1>4. /\ conn[c] \in Connections /\ ids \subseteq Ids /\ pending \in Seq(All) /\ generations \subseteq All
  <2>1. request[r].id \in Ids
    BY <1>3, IdOf DEF Fresh
  <2>2. /\ conn[c] \in Connections /\ conn[c].pending \in Seq(All) /\ conn[c].ids \subseteq Ids
        /\ conn[c].generations \subseteq All
    BY <1>2 DEF TypeOK, Connections
  <2> QED
    BY <1>3, <2>1, <2>2
<1>5. Become(c, out)
  <2>1. State(c) = [conn |-> conn[c], sent |-> sent, cancelled |-> cancelled]
    BY DEF State
  <2>2. [State(c) EXCEPT !.conn.ids = @ \cup {request[r].id}, !.conn.generations = @ \cup {r},
                         !.conn.pending = Append(@, r)] = st
    <3>1. OpenedRule(conn[c], r, State(c))
      BY <2>1, OpenedStates
    <3> QED
      BY <3>1, Zenon DEF OpenedRule, Pulling
  <2> QED
    BY <1>1, <2>2, Zenon
<1> HIDE DEF ids, pending, generations
<1>6. /\ h \in Connections /\ h.ids = ids /\ h.pending = pending /\ h.generations = generations
      /\ h.socket = conn[c].socket
      /\ h.events = conn[c].events /\ h.closed = conn[c].closed
      /\ h.overflow = conn[c].overflow /\ h.input = conn[c].input
  <2>1. ASSUME NEW g \in Connections, NEW i \in SUBSET Ids, NEW s \in SUBSET All, NEW p \in Seq(All)
        PROVE  [g EXCEPT !.ids = i, !.generations = s, !.pending = p] \in Connections
    BY DEF Connections
  <2>2. h \in Connections
    BY <1>4, <2>1
  <2> QED
    BY <1>4, <2>2 DEF Connections
<1> HIDE DEF h
<1>7. Admitted(c, r, atOnce, out)
  <2>1. sent[r] = <<>> /\ Kind(r) \in Streams /\ Kind(r) # "chat" /\ Kind(r) \in Watched
    BY <1>1, <1>3 DEF Fresh, Streams, Watched
  <2> QED
    BY <1>3, <1>6, <2>1, HeldAdmitted DEF ids, pending, generations
<1>8. Kind(r) \in Serviced
  BY <1>1 DEF Serviced
<1> HIDE DEF out
<1> QED
  BY <1>1, <1>5, <1>7, <1>8, AskStep

\* A connection whose inbox got a part or overflowed.
LEMMA PushedRecord ==
    ASSUME NEW k \in Connections, NEW r \in All, NEW part \in Parts
    PROVE  /\ Pushed(k, r, part) \in Connections
           /\ Pushed(k, r, part).socket = k.socket /\ Pushed(k, r, part).input = k.input
           /\ Pushed(k, r, part).ids = k.ids /\ Pushed(k, r, part).generations = k.generations
           /\ Pushed(k, r, part).pending = k.pending /\ Pushed(k, r, part).closed = k.closed
           /\ Pushed(k, r, part).events = IF Refuses(k) THEN k.events ELSE Append(k.events, <<r, part>>)
           /\ Pushed(k, r, part).overflow = IF Refuses(k) THEN TRUE ELSE k.overflow
<1> DEFINE more == Append(k.events, <<r, part>>)
<1>1. more \in Seq(All \X Parts)
  <2>1. k.events \in Seq(All \X Parts) /\ <<r, part>> \in All \X Parts
    BY DEF Connections
  <2> QED
    BY <2>1
<1> HIDE DEF more
<1>2. CASE Refuses(k)
  <2>1. Pushed(k, r, part) = [k EXCEPT !.overflow = TRUE] /\ Pushed(k, r, part) \in Connections
    BY <1>2, ChangedRecords DEF Pushed
  <2> QED
    BY <1>2, <2>1 DEF Connections
<1>3. CASE ~Refuses(k)
  <2>1. Pushed(k, r, part) = [k EXCEPT !.events = more]
    BY <1>3 DEF Pushed, more
  <2>2. Pushed(k, r, part) \in Connections
    BY <1>1, <2>1, ChangedRecords
  <2> QED
    BY <1>3, <2>1, <2>2 DEF Connections, more
<1> QED
  BY <1>2, <1>3

\* A chat; one that the scheduler refuses has its done event in the inbox already.
LEMMA ReadChatStep ==
    ASSUME IndInv, NEW c \in Clients, NEW r, NEW atOnce \in BOOLEAN, ReadChat(c, r, atOnce)
    PROVE  IndInv'
<1> DEFINE p == IF atOnce THEN Pushed(conn[c], r, Final) ELSE conn[c]
           ids == p.ids \cup {request[r].id}
           generations == p.generations \cup {r}
           h == [p EXCEPT !.ids = ids, !.generations = generations]
           st == [conn |-> h, sent |-> sent, cancelled |-> cancelled]
           called == [State(c) EXCEPT !.conn = IF atOnce THEN Pushed(@, r, Final) ELSE @]
           out == Send(st, r, Accepted)
<1>1. /\ Reading(c, r) /\ ~Refused(c, r) /\ Kind(r) = "chat" /\ Submit(r, atOnce) /\ NextFrame
      /\ Become(c, Send([called EXCEPT !.conn.ids = @ \cup {request[r].id},
                                       !.conn.generations = @ \cup {r}], r, Accepted))
      /\ UNCHANGED <<listening, request>>
  BY DEF ReadChat, Kind
<1>2. TypeOK
  BY DEF IndInv
<1>3. r \in All /\ Fresh(r, c) /\ conn[c].socket \in {"open", "closed"}
  BY <1>1, LookedAt
<1>4. Final \in Parts /\ conn[c] \in Connections
  BY <1>2, IpcAssumption DEF Parts, Final, TypeOK
<1>5. /\ p \in Connections
      /\ p.socket = conn[c].socket /\ p.input = conn[c].input
      /\ p.ids = conn[c].ids /\ p.generations = conn[c].generations
      /\ p.pending = conn[c].pending /\ p.closed = conn[c].closed
      /\ p.events = IF atOnce /\ ~Refuses(conn[c]) THEN Append(conn[c].events, <<r, Final>>) ELSE conn[c].events
      /\ p.overflow = IF atOnce /\ Refuses(conn[c]) THEN TRUE ELSE conn[c].overflow
  <2>1. CASE atOnce
    BY <1>3, <1>4, <2>1, PushedRecord
  <2>2. CASE ~atOnce
    BY <1>4, <2>2
  <2> QED
    BY <2>1, <2>2
<1>6. called = [conn |-> p, sent |-> sent, cancelled |-> cancelled]
  BY DEF State
<1> HIDE DEF p, called
<1>7. ids \subseteq Ids /\ generations \subseteq All
  <2>1. request[r].id \in Ids
    BY <1>3, IdOf DEF Fresh
  <2>2. p.ids \subseteq Ids /\ p.generations \subseteq All
    BY <1>5 DEF Connections
  <2> QED
    BY <1>3, <2>1, <2>2
<1>8. Become(c, out)
  <2>1. [called EXCEPT !.conn.ids = @ \cup {request[r].id}, !.conn.generations = @ \cup {r}] = st
    <3>1. OpenedRule(p, r, called)
      BY <1>6, OpenedStates
    <3> QED
      BY <3>1, Zenon DEF OpenedRule, Opened
  <2> QED
    BY <1>1, <2>1, Zenon
<1> HIDE DEF ids, generations
<1>9. /\ h \in Connections /\ h.ids = ids /\ h.generations = generations
      /\ h.pending = p.pending /\ h.socket = p.socket
      /\ h.events = p.events /\ h.closed = p.closed
      /\ h.overflow = p.overflow /\ h.input = p.input
  <2>1. ASSUME NEW g \in Connections, NEW i \in SUBSET Ids, NEW s \in SUBSET All
        PROVE  [g EXCEPT !.ids = i, !.generations = s] \in Connections
    BY DEF Connections
  <2>2. h \in Connections
    BY <1>5, <1>7, <2>1
  <2> QED
    BY <1>5, <2>2 DEF Connections
<1> HIDE DEF h
<1>10. Admitted(c, r, atOnce, out)
  <2>1. sent[r] = <<>> /\ Kind(r) \in Streams /\ Kind(r) = "chat" /\ Kind(r) \notin Watched
    BY <1>1, <1>3 DEF Fresh, Streams, Watched
  <2>2. /\ h.ids = conn[c].ids \cup {request[r].id} /\ h.generations = conn[c].generations \cup {r}
        /\ h.pending = conn[c].pending
        /\ h.input = conn[c].input /\ h.socket = conn[c].socket /\ h.closed = conn[c].closed
    BY <1>5, <1>9 DEF ids, generations
  <2>3. /\ h.events = IF Kind(r) = "chat" /\ atOnce /\ ~Refuses(conn[c])
                      THEN Append(conn[c].events, <<r, Final>>) ELSE conn[c].events
        /\ ~h.overflow => ~conn[c].overflow /\ ~(Kind(r) = "chat" /\ atOnce /\ Refuses(conn[c]))
    BY <1>5, <1>9, <2>1
  <2> QED
    BY <1>3, <1>9, <2>1, <2>2, <2>3, HeldAdmitted
<1>11. Kind(r) \in Serviced
  BY <1>1 DEF Serviced
<1> HIDE DEF out
<1> QED
  BY <1>1, <1>8, <1>10, <1>11, AskStep
-----------------------------------------------------------------------------
(* The worker.                                                             *)

\* What may change when the running request r calls back, or ends.
Worked(r) ==
    /\ UNCHANGED <<listening, request, loop, cancelled, sent>>
    /\ queue' \in Seq(All) /\ Distinct(queue') /\ Elements(queue') \subseteq Elements(queue)
    /\ settled \subseteq settled' /\ settled' \subseteq settled \cup {r}
    /\ \A q \in Elements(queue') : q \notin settled'
    /\ Elements(queue') \cup settled' = Elements(queue) \cup settled
    /\ ServiceTypes'
    /\ \A q \in All : q # r => emitted'[q] = emitted[q]
    /\ emitted'[r] >= emitted[r] /\ (emitted'[r] # emitted[r] => Kind(r) \in Streams)

\* The running request is with the service and not settled.
LEMMA RunningRequest ==
    ASSUME IndInv, NEW r, Running(r)
    PROVE  /\ r \in All /\ r \in Requests /\ Dispatched(r) /\ Kind(r) \in Serviced /\ r \notin settled
           /\ Client(r) \in Clients /\ conn[Client(r)].socket # "none"
           /\ r \in Elements(queue) /\ queue \in Seq(All) /\ Tail(queue) \in Seq(All)
           /\ Distinct(Tail(queue)) /\ r \notin Elements(Tail(queue))
           /\ Elements(queue) = Elements(Tail(queue)) \cup {r}
<1>1. TypeOK /\ QueueRules /\ ConnRules /\ queue \in Seq(All)
  BY DEF IndInv, TypeOK, ServiceTypes
<1>2. queue # <<>> /\ r = Head(queue)
  BY DEF Running
<1>3. /\ r \in All /\ Tail(queue) \in Seq(All) /\ r \in Elements(queue)
      /\ Elements(queue) = Elements(Tail(queue)) \cup {r}
      /\ Distinct(queue) => Distinct(Tail(queue)) /\ r \notin Elements(Tail(queue))
  BY <1>1, <1>2, TailElements
<1>4. Dispatched(r) /\ r \notin settled
  BY <1>1, <1>3, RangeElements DEF Dispatched, QueueRules
<1>5. r \in Requests /\ Kind(r) \in Serviced
  BY <1>1, <1>3, <1>4 DEF QueueRules
<1>6. Client(r) \in Clients
  <2>1. request[r] \in Asked
    BY <1>1, <1>5, ElementOfSeq DEF TypeOK, Requests
  <2> QED
    BY <2>1 DEF Asked, Client
<1>7. conn[Client(r)].socket # "none"
  BY <1>1, <1>5, <1>6 DEF ConnRules, ConnRule
<1> QED
  BY <1>1, <1>3, <1>4, <1>5, <1>6, <1>7 DEF QueueRules

\* What the worker does keeps all but the rule of the connection it calls back to.
LEMMA WorkedAround ==
    ASSUME IndInv, NEW r, Running(r), Worked(r), NEW c \in Clients, c = Client(r), NEW k \in Connections,
           conn' = [conn EXCEPT ![c] = k],
           k.input = conn[c].input, k.pending = conn[c].pending, k.socket = conn[c].socket
    PROVE  /\ TypeOK' /\ QueueRules' /\ FrameRules' /\ LoopRules' /\ PendingRules' /\ TextRules'
           /\ conn'[c] = k
           /\ \A q : Dispatched(q)' <=> Dispatched(q)
           /\ \A q : Client(q)' = Client(q) /\ Kind(q)' = Kind(q)
           /\ \A d \in Clients : d # c => ConnRule(d, conn[d], sent, cancelled)'
<1>1. /\ listening' = listening /\ request' = request /\ loop' = loop /\ cancelled' = cancelled /\ sent' = sent
      /\ queue' \in Seq(All) /\ Distinct(queue') /\ Elements(queue') \subseteq Elements(queue)
      /\ settled \subseteq settled' /\ settled' \subseteq settled \cup {r}
      /\ \A q \in Elements(queue') : q \notin settled'
      /\ Elements(queue') \cup settled' = Elements(queue) \cup settled
      /\ ServiceTypes'
      /\ \A q \in All : q # r => emitted'[q] = emitted[q]
      /\ emitted'[r] >= emitted[r] /\ (emitted'[r] # emitted[r] => Kind(r) \in Streams)
  BY DEF Worked
<1>2. TypeOK /\ QueueRules /\ FrameRules /\ LoopRules /\ PendingRules /\ TextRules /\ ServiceTypes
  BY DEF IndInv, TypeOK
<1>3. r \in All /\ r \in Requests /\ Dispatched(r) /\ r \notin settled
  BY RunningRequest
<1>4. \A q : Dispatched(q)' <=> Dispatched(q)
  <2>1. \A q : Dispatched(q) <=> q \in Elements(queue) \cup settled
    BY <1>2, RangeElements DEF Dispatched, ServiceTypes
  <2>2. \A q : Dispatched(q)' <=> q \in Elements(queue') \cup settled'
    BY <1>1, RangeElements DEF Dispatched
  <2> QED
    BY <1>1, <2>1, <2>2
<1>5. Requests' = Requests /\ \A q : Client(q)' = Client(q) /\ Kind(q)' = Kind(q)
  BY <1>1 DEF Requests, Client, Kind
<1>6. /\ conn' \in [Clients -> Connections] /\ conn'[c] = k
      /\ \A d \in Clients : d # c => conn'[d] = conn[d]
  BY <1>2 DEF TypeOK
<1>7. \A d \in Clients : /\ conn'[d].input = conn[d].input /\ conn'[d].pending = conn[d].pending
                         /\ conn'[d].socket = conn[d].socket
  BY <1>6
<1>8. TypeOK'
  BY <1>1, <1>2, <1>6 DEF TypeOK
<1>9. QueueRules'
  <2>1. \A q \in All : Dispatched(q)' => q \in Requests' /\ Kind(q)' \in Serviced
    BY <1>2, <1>4, <1>5 DEF QueueRules
  <2>2. ASSUME NEW q \in All, emitted'[q] > 0 PROVE Dispatched(q)' /\ Kind(q)' \in Streams
    <3>1. CASE q # r
      BY <1>1, <1>2, <1>4, <1>5, <2>2, <3>1 DEF QueueRules
    <3>2. CASE q = r
      BY <1>1, <1>2, <1>3, <1>4, <1>5, <2>2, <3>2 DEF QueueRules
    <3> QED
      BY <3>1, <3>2
  <2> QED
    BY <1>1, <2>1, <2>2 DEF QueueRules
<1>10. FrameRules'
  <2>1. \A d \in Clients : \A q : Fresh(q, d) => Fresh(q, d)'
    BY <1>1, <1>4, <1>5 DEF Fresh
  <2>2. \A d \in Clients : Distinct(conn'[d].input) /\ \A q \in Elements(conn'[d].input) : Fresh(q, d)'
    BY <1>2, <1>7, <2>1 DEF FrameRules
  <2>3. ASSUME loop.at = "read", NEW q \in Elements(loop.todo)
        PROVE  Fresh(q, loop.client)' /\ q \notin Elements(conn'[loop.client].input)
    <3>1. /\ Fresh(q, loop.client) /\ q \notin Elements(conn[loop.client].input)
          /\ loop.client \in Clients
      BY <1>2, <2>3 DEF FrameRules, LoopRules
    <3>2. Fresh(q, loop.client)'
      BY <1>1, <1>4, <1>5, <3>1 DEF Fresh
    <3> QED
      BY <1>7, <3>1, <3>2
  <2> QED
    BY <1>1, <1>2, <1>5, <2>2, <2>3 DEF FrameRules
<1>11. LoopRules'
  BY <1>1, <1>2, <1>7 DEF LoopRules
<1>12. PendingRules'
  <2>1. \A q : Answered(q)' <=> Answered(q)
    BY <1>1 DEF Answered
  <2>2. ASSUME NEW d \in Clients, NEW q, Pending(q, d)
        PROVE  /\ Dispatched(q)' /\ Client(q)' = d /\ Kind(q)' \in Watched
               /\ conn'[d].socket = "open" => ~Answered(q)'
    BY <1>4, <1>5, <1>7, <2>1, <2>2 DEF Pending
  <2>3. \A d \in Clients : Distinct(conn'[d].pending) /\ \A q \in Elements(conn'[d].pending) : Pending(q, d)'
    BY <1>2, <1>7, <2>2 DEF PendingRules, Pending
  <2>4. ASSUME loop.at = "poll", NEW q \in Elements(loop.todo)
        PROVE  Pending(q, loop.client)' /\ q \notin Elements(conn'[loop.client].pending)
    <3>1. loop.client \in Clients /\ Pending(q, loop.client) /\ q \notin Elements(conn[loop.client].pending)
      BY <1>2, <2>4 DEF PendingRules, LoopRules
    <3>2. Pending(q, loop.client)'
      BY <1>1, <2>2, <3>1 DEF Pending
    <3> QED
      BY <1>7, <3>1, <3>2
  <2> QED
    BY <1>1, <1>2, <2>3, <2>4 DEF PendingRules
<1>13. TextRules'
  <2>1. ASSUME NEW q \in All PROVE TextRule(q, sent[q])'
    <3>1. TextRule(q, sent[q]) /\ sent[q] \in Seq(Parts)
      BY <1>2 DEF TextRules, TypeOK
    <3>2. CASE q # r
      <4>1. Limit(q)' = Limit(q) /\ (q \in settled => q \in settled')
        BY <1>1, <1>5, <3>2 DEF Limit
      <4> QED
        BY <1>1, <1>4, <3>1, <4>1 DEF TextRule
    <3>3. CASE q = r
      <4>1. PICK n \in 0 .. Limit(r) : sent[r] = First(n)
        BY <1>3, <3>1, <3>3 DEF TextRule
      <4>2. Limit(r) \in Nat /\ Limit(r)' \in Nat /\ Limit(r) <= Limit(r)'
        <5>1. emitted[r] \in Nat /\ emitted'[r] \in Nat
          BY <1>1, <1>2, <1>3 DEF ServiceTypes
        <5> QED
          BY <1>1, <1>5, <5>1 DEF Limit
      <4>3. n \in 0 .. Limit(r)'
        BY <4>2
      <4> QED
        BY <1>1, <1>3, <1>4, <3>3, <4>1, <4>3 DEF TextRule
    <3> QED
      BY <3>2, <3>3
  <2> QED
    BY <2>1 DEF TextRules
<1>14. ASSUME NEW d \in Clients, d # c PROVE ConnRule(d, conn[d], sent, cancelled)'
  <2>1. \A q \in All : Dispatched(q)' /\ Client(q)' = d <=> Dispatched(q) /\ Client(q) = d
    BY <1>4, <1>5
  <2>2. \A q \in All : Dispatched(q) /\ Client(q) = d =>
            /\ request'[q] = request[q] /\ emitted'[q] = emitted[q] /\ sent'[q] = sent[q]
            /\ q \in settled' <=> q \in settled
            /\ q \in Elements(queue') => q \in Elements(queue)
    BY <1>1, <1>14
  <2>3. \A q \in Requests' : Client(q)' = d /\ conn[d].socket # "open" => q \in Requests /\ Client(q) = d
    BY <1>5
  <2>4. conn'[d] = conn[d] /\ queue' \in Seq(All) /\ cancelled \subseteq cancelled'
    BY <1>1, <1>6, <1>14
  <2> QED
    BY <2>1, <2>2, <2>3, <2>4, ConnKeeps
<1> QED
  BY <1>4, <1>5, <1>6, <1>8, <1>9, <1>10, <1>11, <1>12, <1>13, <1>14

\* The connection of the running request, when it is called back with part or not at all.
LEMMA WorkedConn ==
    ASSUME IndInv, NEW r, Running(r), Worked(r), NEW c \in Clients, c = Client(r), NEW k \in Connections,
           conn' = [conn EXCEPT ![c] = k], NEW part \in Parts, NEW calls \in BOOLEAN,
           k = IF calls THEN Pushed(conn[c], r, part) ELSE conn[c],
           calls => /\ Kind(r) \in Streams
                    /\ part = Final => Kind(r) = "chat" /\ r \in settled'
                    /\ \A x \in Owed(r, sent[r]) : x < part,
           Owed(r, sent[r])' = Owed(r, sent[r]) \cup (IF calls THEN {part} ELSE {})
    PROVE  IndInv'
<1>1. /\ k.socket = conn[c].socket /\ k.input = conn[c].input
      /\ k.ids = conn[c].ids /\ k.generations = conn[c].generations
      /\ k.pending = conn[c].pending /\ k.closed = conn[c].closed
      /\ k.events = IF calls /\ ~Refuses(conn[c]) THEN Append(conn[c].events, <<r, part>>) ELSE conn[c].events
      /\ k.overflow = IF calls /\ Refuses(conn[c]) THEN TRUE ELSE conn[c].overflow
  <2>1. conn[c] \in Connections /\ r \in All
    BY RunningRequest DEF IndInv, TypeOK
  <2>2. CASE calls
    BY <2>1, <2>2, PushedRecord
  <2>3. CASE ~calls
    BY <2>3
  <2> QED
    BY <2>2, <2>3
<1>2. /\ TypeOK' /\ QueueRules' /\ FrameRules' /\ LoopRules' /\ PendingRules' /\ TextRules'
      /\ conn'[c] = k
      /\ \A q : Dispatched(q)' <=> Dispatched(q)
      /\ \A q : Client(q)' = Client(q) /\ Kind(q)' = Kind(q)
      /\ \A d \in Clients : d # c => ConnRule(d, conn[d], sent, cancelled)'
  BY <1>1, WorkedAround
<1>3. /\ request' = request /\ cancelled' = cancelled /\ sent' = sent
      /\ Elements(queue') \subseteq Elements(queue) /\ settled \subseteq settled' /\ settled' \subseteq settled \cup {r}
      /\ \A q \in All : q # r => emitted'[q] = emitted[q]
  BY DEF Worked
<1>4. r \in All /\ Dispatched(r) /\ conn[c].socket # "none"
  BY RunningRequest
<1>5. ConnRule(c, conn[c], sent, cancelled) /\ TypeOK
  BY DEF IndInv, ConnRules
<1>6. \A q : Mine(q, c)' <=> Mine(q, c)
  BY <1>2 DEF Mine
<1>7. Requests' = Requests
  BY <1>3 DEF Requests
<1>8. conn[c].events \in Seq(All \X Parts) /\ Len(conn[c].events) \in Nat
  BY <1>5, LenProperties DEF TypeOK, Connections
<1>9. ASSUME NEW i \in 1 .. Len(k.events) PROVE EventRule(c, k.events[i])'
  <2>1. \/ i \in 1 .. Len(conn[c].events) /\ k.events[i] = conn[c].events[i]
        \/ calls /\ k.events[i] = <<r, part>>
    <3>1. CASE calls /\ ~Refuses(conn[c])
      <4>1. k.events = Append(conn[c].events, <<r, part>>) /\ <<r, part>> \in All \X Parts
        BY <1>1, <1>4, <3>1
      <4>2. /\ Len(k.events) = Len(conn[c].events) + 1
            /\ \A j \in 1 .. Len(conn[c].events) : k.events[j] = conn[c].events[j]
            /\ k.events[Len(conn[c].events) + 1] = <<r, part>>
        BY <1>8, <4>1, AppendProperties
      <4>3. i \in 1 .. Len(conn[c].events) \/ i = Len(conn[c].events) + 1
        BY <1>8, <4>2
      <4> QED
        BY <3>1, <4>2, <4>3
    <3>2. CASE ~(calls /\ ~Refuses(conn[c]))
      BY <1>1, <3>2
    <3> QED
      BY <3>1, <3>2
  <2>2. /\ Mine(k.events[i][1], c)
        /\ k.events[i][2] = Final => Kind(k.events[i][1]) = "chat" /\ k.events[i][1] \in settled'
    <3>1. CASE i \in 1 .. Len(conn[c].events) /\ k.events[i] = conn[c].events[i]
      BY <1>3, <1>5, <3>1 DEF ConnRule, EventRule
    <3>2. CASE calls /\ k.events[i] = <<r, part>>
      <4>1. k.events[i][1] = r /\ k.events[i][2] = part /\ Mine(r, c)
        BY <1>4, <3>2 DEF Mine
      <4> QED
        BY <3>2, <4>1
    <3> QED
      BY <2>1, <3>1, <3>2
  <2> DEFINE e == k.events[i]
  <2>3. conn'[c].events[i] = e
    BY <1>2
  <2>4. Mine(k.events[i][1], c)' /\ (k.events[i][2] = Final => Kind(k.events[i][1])' = "chat")
    BY <1>2, <1>6, <2>2
  <2> QED
    BY <2>2, <2>4 DEF EventRule
<1>10. /\ Flying(c, sent)' = Flying(c, sent)
       /\ Live(c, conn[c], sent) => Live(c, conn[c], sent)'
  <2>1. Flying(c, sent)' = Flying(c, sent)
    BY <1>2, <1>3 DEF Flying
  <2> QED
    BY <1>1, <1>2, <1>3, <2>1 DEF Live
<1>11. ASSUME conn[c].socket = "open", ~k.overflow PROVE InboxRule(c, sent, conn[c].events, 0)'
  <2>1. InboxRule(c, sent, conn[c].events, 0) /\ ~(calls /\ Refuses(conn[c]))
    BY <1>1, <1>5, <1>11 DEF ConnRule
  <2>2. /\ Ordered(conn[c].events)
        /\ \A q \in All : Dispatched(q) /\ Client(q) = c => PartsOf(q, conn[c].events) = Owed(q, sent[q])
    BY <2>1, InboxParts
  <2>3. /\ Ordered(k.events)
        /\ \A q \in All : q # r => PartsOf(q, k.events) = PartsOf(q, conn[c].events)
        /\ PartsOf(r, k.events) = PartsOf(r, conn[c].events) \cup (IF calls THEN {part} ELSE {})
    <3>1. CASE calls
      <4>1. k.events = Append(conn[c].events, <<r, part>>)
        BY <1>1, <2>1, <3>1
      <4>2. \A x \in PartsOf(r, conn[c].events) : x < part
        BY <1>4, <2>2, <3>1
      <4> DEFINE events == conn[c].events
                 more == Append(events, <<r, part>>)
      <4>3. events \in Seq(All \X Parts) /\ r \in All /\ Ordered(events) /\ \A x \in PartsOf(r, events) : x < part
        BY <1>4, <1>8, <2>2, <4>2
      <4> HIDE DEF events
      <4>4. /\ Ordered(more)
            /\ PartsOf(r, more) = PartsOf(r, events) \cup {part}
            /\ \A q \in All : q # r => PartsOf(q, more) = PartsOf(q, events)
        BY <4>3, Pushing
      <4>5. k.events = more
        BY <4>1 DEF events
      <4> HIDE DEF more
      <4>6. /\ Ordered(k.events)
            /\ PartsOf(r, k.events) = PartsOf(r, conn[c].events) \cup {part}
            /\ \A q \in All : q # r => PartsOf(q, k.events) = PartsOf(q, conn[c].events)
        BY <4>4, <4>5 DEF events
      <4> QED
        BY <3>1, <4>6
    <3>2. CASE ~calls
      BY <1>1, <2>2, <3>2
    <3> QED
      BY <3>1, <3>2
  <2>4. \A q \in All : q # r => Owed(q, sent[q])' = Owed(q, sent[q])
    BY <1>2, <1>3 DEF Owed, Limit, Ends
  <2>5. \A q \in All : Dispatched(q)' /\ Client(q)' = c => PartsOf(q, k.events) = Owed(q, sent[q])'
    BY <1>2, <2>2, <2>3, <2>4
  <2>6. conn'[c].events = k.events /\ 0 + 1 = 1
    BY <1>2
  <2>7. \A i, j \in 0 + 1 .. Len(conn'[c].events) :
            i < j /\ conn'[c].events[i][1] = conn'[c].events[j][1] => conn'[c].events[i][2] < conn'[c].events[j][2]
    BY <2>3, <2>6 DEF Ordered
  <2>8. \A q \in All : Dispatched(q)' /\ Client(q)' = c =>
            {conn'[c].events[i][2] : i \in {j \in 0 + 1 .. Len(conn'[c].events) : conn'[c].events[j][1] = q}}
                = Owed(q, sent[q])'
    BY <2>5, <2>6 DEF PartsOf
  <2> QED
    BY <2>7, <2>8 DEF InboxRule
<1>12. ConnRule(c, conn[c], sent, cancelled)'
  <2>1. \A q \in conn'[c].generations : Mine(q, c)'
    BY <1>1, <1>2, <1>5, <1>6 DEF ConnRule
  <2>2. \A i \in 1 .. Len(conn'[c].events) : EventRule(c, conn[c].events[i])'
    <3>1. ASSUME NEW i \in 1 .. Len(conn'[c].events) PROVE EventRule(c, conn[c].events[i])'
      <4>1. i \in 1 .. Len(k.events) /\ conn'[c].events = k.events
        BY <1>2
      <4> QED
        BY <1>9, <4>1 DEF EventRule
    <3> QED
      BY <3>1
  <2>3. \A q \in Elements(queue') : Mine(q, c)' => q \in Elements(queue) /\ Mine(q, c)
    BY <1>3, <1>6
  <2>4. conn'[c].socket = conn[c].socket /\ conn'[c].closed = conn[c].closed /\ conn'[c].generations = conn[c].generations
    BY <1>1, <1>2
  <2>5. (\A q \in Requests : Client(q) # c) => \A q \in Requests' : Client(q)' # c
    BY <1>2, <1>7
  <2>6. conn'[c].socket = "gone" => conn'[c].generations = {} /\ (conn'[c].closed \/ \A q \in Requests' : Client(q)' # c)
    BY <1>5, <2>4, <2>5 DEF ConnRule
  <2>7. conn'[c].socket = "open" => Live(c, conn[c], sent)' /\ (~conn'[c].overflow => InboxRule(c, sent, conn[c].events, 0)')
    BY <1>2, <1>5, <1>10, <1>11, <2>4 DEF ConnRule
  <2>8. conn'[c].socket # "open" => \A q \in Elements(queue') : Mine(q, c)' => q \in cancelled' \cup conn'[c].generations
    BY <1>3, <1>5, <2>3, <2>4 DEF ConnRule
  <2>9. /\ conn'[c].socket # "none"
        /\ conn'[c].socket \in {"none", "open"} => ~conn'[c].closed
        /\ conn'[c].socket = "closed" => conn'[c].closed
    BY <1>4, <1>5, <2>4 DEF ConnRule
  <2> QED
    BY <2>1, <2>2, <2>6, <2>7, <2>8, <2>9 DEF ConnRule
<1>13. ConnRules'
  BY <1>2, <1>12 DEF ConnRules
<1> QED
  BY <1>2, <1>13 DEF IndInv

\* The running request calls back.
LEMMA WorkerEventStep ==
    ASSUME IndInv, NEW r, WorkerEvent(r)
    PROVE  IndInv'
<1> DEFINE part == emitted[r] + 1
<1>1. PICK c : c = Client(r)
  OBVIOUS
<1>2. PICK k : k = Pushed(conn[c], r, part)
  OBVIOUS
<1>3. /\ Running(r) /\ Kind(r) \in Streams /\ emitted[r] < MaxEvents
      /\ emitted' = [emitted EXCEPT ![r] = @ + 1]
      /\ conn' = [conn EXCEPT ![c] = Pushed(@, r, emitted[r] + 1)]
      /\ broken' = (IF Refuses(Inbox(r)) THEN broken \cup {r} ELSE broken)
      /\ UNCHANGED <<listening, request, loop, queue, settled, cancelled, sent>>
  BY <1>1 DEF WorkerEvent, Kind, Client
<1>4. /\ r \in All /\ r \in Requests /\ Dispatched(r) /\ r \notin settled /\ c \in Clients
  BY <1>1, <1>3, RunningRequest
<1>5. TypeOK /\ QueueRules /\ ServiceTypes /\ conn[c] \in Connections /\ sent[r] \in Seq(Parts) /\ TextRule(r, sent[r])
  BY <1>4 DEF IndInv, TypeOK, TextRules
<1>6. /\ emitted[r] \in Nat /\ part \in Nat /\ part <= MaxEvents /\ part \in Parts /\ part # Final /\ MaxEvents \in Nat
      /\ emitted \in [All -> 0 .. MaxEvents]
  <2>1. emitted[r] \in Nat /\ MaxEvents \in Nat /\ emitted \in [All -> 0 .. MaxEvents]
    BY <1>4, <1>5, IpcAssumption DEF ServiceTypes
  <2> QED
    BY <1>3, <2>1 DEF Parts, Final
<1>7. /\ emitted' \in [All -> 0 .. MaxEvents] /\ emitted'[r] = part
      /\ \A q \in All : q # r => emitted'[q] = emitted[q]
  BY <1>3, <1>4, <1>6
<1> HIDE DEF part
<1>8. conn' = [conn EXCEPT ![c] = k]
  <2>1. conn \in [Clients -> Connections]
    BY <1>5 DEF TypeOK
  <2> QED
    BY <1>2, <1>3, <2>1 DEF part
<1>9. k \in Connections
  BY <1>2, <1>4, <1>5, <1>6, PushedRecord
<1>10. Worked(r)
  <2>1. /\ queue' = queue /\ settled' = settled /\ queue \in Seq(All) /\ Distinct(queue)
        /\ \A q \in Elements(queue) : q \notin settled
    BY <1>3, <1>5 DEF QueueRules, ServiceTypes
  <2>2. ServiceTypes'
    BY <1>3, <1>4, <1>5, <1>7 DEF ServiceTypes
  <2>3. emitted'[r] >= emitted[r]
    BY <1>6, <1>7 DEF part
  <2> QED
    BY <1>3, <1>7, <2>1, <2>2, <2>3 DEF Worked
<1>11. Final \notin Elements(sent[r]) /\ Len(sent[r]) \in 0 .. Limit(r) /\ Ends(r) = {}
  BY <1>4, <1>5, Texts DEF Ends
<1>12. Limit(r) = part /\ Limit(r)' = part + 1
  BY <1>3, <1>7 DEF Limit, Kind, part
<1>13. Owed(r, sent[r]) = Len(sent[r]) .. part - 1
  BY <1>11, <1>12 DEF Owed
<1>14. Owed(r, sent[r])' = Len(sent[r]) .. part
  <2>1. Ends(r)' = {}
    BY <1>3, <1>4 DEF Ends
  <2>2. sent' = sent
    BY <1>3
  <2>3. Owed(r, sent[r])' = (Len(sent[r]) .. Limit(r)' - 1) \cup Ends(r)'
    BY <1>11, <2>2 DEF Owed
  <2> QED
    BY <1>6, <1>12, <2>1, <2>3
<1>15. /\ Owed(r, sent[r])' = Owed(r, sent[r]) \cup (IF TRUE THEN {part} ELSE {})
       /\ \A x \in Owed(r, sent[r]) : x < part
  <2>1. Len(sent[r]) \in 0 .. part
    BY <1>11, <1>12
  <2>2. \A n \in 0 .. part : /\ (n .. part) = (n .. part - 1) \cup {part}
                             /\ \A x \in n .. part - 1 : x < part
    BY <1>6
  <2> QED
    BY <1>13, <1>14, <2>1, <2>2
<1>16. TRUE => /\ Kind(r) \in Streams
               /\ part = Final => Kind(r) = "chat" /\ r \in settled'
               /\ \A x \in Owed(r, sent[r]) : x < part
  BY <1>3, <1>6, <1>15
<1>17. k = IF TRUE THEN Pushed(conn[c], r, part) ELSE conn[c]
  BY <1>2
<1> QED
  BY <1>1, <1>3, <1>4, <1>6, <1>8, <1>9, <1>10, <1>15, <1>16, <1>17, WorkedConn

\* The running request is over.
LEMMA WorkerFinishStep ==
    ASSUME IndInv, NEW r, WorkerFinish(r)
    PROVE  IndInv'
<1>1. PICK c : c = Client(r)
  OBVIOUS
<1>2. PICK calls \in BOOLEAN : calls <=> Kind(r) = "chat"
  OBVIOUS
<1>3. PICK k : k = IF calls THEN Pushed(conn[c], r, Final) ELSE conn[c]
  OBVIOUS
<1>4. /\ Running(r) /\ queue' = Tail(queue) /\ settled' = settled \cup {r}
      /\ conn' = [conn EXCEPT ![c] = IF Kind(r) = "chat" THEN Pushed(@, r, Final) ELSE @]
      /\ UNCHANGED <<listening, request, loop, emitted, broken, cancelled, sent>>
  BY <1>1 DEF WorkerFinish, Kind, Client
<1>5. /\ r \in All /\ r \in Requests /\ Dispatched(r) /\ r \notin settled /\ c \in Clients
      /\ Tail(queue) \in Seq(All) /\ Distinct(Tail(queue)) /\ r \notin Elements(Tail(queue))
      /\ Elements(queue) = Elements(Tail(queue)) \cup {r}
  BY <1>1, <1>4, RunningRequest
<1>6. TypeOK /\ QueueRules /\ ServiceTypes /\ conn[c] \in Connections /\ sent[r] \in Seq(Parts) /\ TextRule(r, sent[r])
  BY <1>5 DEF IndInv, TypeOK, TextRules
<1>7. Final \in Parts /\ Final = MaxEvents + 1 /\ MaxEvents \in Nat
  BY IpcAssumption DEF Parts, Final
<1>8. conn' = [conn EXCEPT ![c] = k]
  <2>1. conn \in [Clients -> Connections]
    BY <1>6 DEF TypeOK
  <2> QED
    BY <1>2, <1>3, <1>4, <2>1
<1>9. k \in Connections
  BY <1>3, <1>5, <1>6, <1>7, PushedRecord
<1>10. Worked(r)
  <2>1. ServiceTypes'
    BY <1>4, <1>5, <1>6 DEF ServiceTypes
  <2>2. \A q \in Elements(queue') : q \notin settled'
    BY <1>4, <1>5, <1>6 DEF QueueRules
  <2>3. /\ \A q \in All : q # r => emitted'[q] = emitted[q]
        /\ emitted'[r] >= emitted[r] /\ emitted'[r] = emitted[r]
    <3>1. emitted[r] \in Nat
      BY <1>5, <1>6 DEF ServiceTypes
    <3> QED
      BY <1>4, <3>1
  <2> QED
    BY <1>4, <1>5, <2>1, <2>2, <2>3 DEF Worked
<1>11. /\ Final \notin Elements(sent[r]) /\ Len(sent[r]) \in 0 .. Limit(r) /\ Ends(r) = {}
       /\ Limit(r) \in Nat /\ Limit(r) <= MaxEvents + 1
  BY <1>5, <1>6, Texts DEF Ends
<1>12. Limit(r)' = Limit(r) /\ Ends(r)' = IF calls THEN {Final} ELSE {}
  BY <1>2, <1>4 DEF Limit, Kind, Ends
<1>13. Owed(r, sent[r]) = Len(sent[r]) .. Limit(r) - 1
  BY <1>11 DEF Owed
<1>14. Owed(r, sent[r])' = Owed(r, sent[r]) \cup (IF calls THEN {Final} ELSE {})
  <2>1. sent' = sent
    BY <1>4
  <2>2. Owed(r, sent[r])' = (Len(sent[r]) .. Limit(r)' - 1) \cup Ends(r)'
    BY <1>11, <2>1 DEF Owed
  <2> QED
    BY <1>12, <1>13, <2>2
<1>15. \A x \in Owed(r, sent[r]) : x < Final
  <2>1. \A n \in 0 .. Limit(r) : \A x \in n .. Limit(r) - 1 : x < Final
    BY <1>7, <1>11
  <2> QED
    BY <1>11, <1>13, <2>1
<1> DEFINE part == Final
<1>16. calls => /\ Kind(r) \in Streams
                /\ part = Final => Kind(r) = "chat" /\ r \in settled'
                /\ \A x \in Owed(r, sent[r]) : x < part
  BY <1>2, <1>4, <1>15 DEF Streams
<1>17. /\ part \in Parts /\ k = IF calls THEN Pushed(conn[c], r, part) ELSE conn[c]
       /\ Owed(r, sent[r])' = Owed(r, sent[r]) \cup (IF calls THEN {part} ELSE {})
  BY <1>3, <1>7, <1>14
<1>18. Running(r)
  BY <1>4
<1> HIDE DEF part
<1> QED
  BY <1>1, <1>5, <1>8, <1>9, <1>10, <1>16, <1>17, <1>18, WorkedConn

-----------------------------------------------------------------------------
(* The invariant holds.                                                    *)

\* Nothing has been asked.
LEMMA InitStep ==
    ASSUME Init
    PROVE  IndInv
<1>1. /\ listening = TRUE /\ conn = [c \in Clients |-> NoConn] /\ request = <<>>
      /\ loop = [at |-> "rest", client |-> "none", todo |-> <<>>]
      /\ queue = <<>> /\ emitted = [r \in All |-> 0] /\ settled = {} /\ cancelled = {} /\ broken = {}
      /\ sent = [r \in All |-> <<>>]
  BY DEF Init, Resting, NoConn, All
<1>2. /\ NoConn \in Connections /\ NoConn.input = <<>> /\ NoConn.pending = <<>> /\ NoConn.events = <<>>
      /\ NoConn.generations = {} /\ NoConn.socket = "none" /\ ~NoConn.closed
  BY DEF NoConn, Connections
<1>3. Requests = {} /\ Elements(<<>>) = {} /\ Distinct(<<>>)
  BY <1>1, EmptyElements DEF Requests
<1>4. \A r : ~Dispatched(r)
  <2>1. <<>> \in Seq(All)
    OBVIOUS
  <2>2. Range(queue) = {}
    BY <1>1, <1>3, <2>1, RangeElements
  <2> QED
    BY <1>1, <2>2 DEF Dispatched
<1>5. TypeOK
  BY <1>1, <1>2, IpcAssumption DEF TypeOK, ServiceTypes
<1>6. QueueRules
  BY <1>1, <1>3, <1>4 DEF QueueRules
<1>7. FrameRules
  BY <1>1, <1>2, <1>3 DEF FrameRules
<1>8. LoopRules
  BY <1>1 DEF LoopRules
<1>9. PendingRules
  BY <1>1, <1>2, <1>3 DEF PendingRules
<1>10. TextRules
  BY <1>1, <1>4 DEF TextRules, TextRule
<1>11. ConnRules
  <2>1. \A i \in 1 .. Len(<<>>) : FALSE
    OBVIOUS
  <2> QED
    BY <1>1, <1>2, <1>3, <2>1 DEF ConnRules, ConnRule
<1> QED
  BY <1>5, <1>6, <1>7, <1>8, <1>9, <1>10, <1>11 DEF IndInv

\* The steps of peers.
LEMMA PeersStep ==
    ASSUME IndInv, Peers
    PROVE  IndInv'
<1>1. ASSUME NEW c \in Clients, NEW kind \in Methods \ {"cancel"}, NEW id \in Ids, ClientSend(c, kind, id, 0)
      PROVE  IndInv'
  <2>1. kind \in Kinds /\ 0 \in 0 .. MaxRequests
    BY MethodsAssumption, IpcAssumption
  <2> QED
    BY <1>1, <2>1, ClientSendStep
<1>2. ASSUME NEW c \in Clients, NEW kind \in Methods \cap {"cancel"}, NEW id \in Ids,
             NEW target \in Requests, ClientSend(c, kind, id, target)
      PROVE  IndInv'
  <2>1. kind \in Kinds
    BY MethodsAssumption
  <2>2. target \in 0 .. MaxRequests
    <3>1. Len(request) \in Nat /\ Len(request) <= MaxRequests
      BY LenProperties DEF IndInv, TypeOK
    <3> QED
      BY <3>1, IpcAssumption DEF Requests
  <2> QED
    BY <1>2, <2>1, <2>2, ClientSendStep
<1> QED
  BY <1>1, <1>2, AcceptStep, ClientReadStep, ClientGoneStep DEF Peers

\* The steps of the event loop.
LEMMA LoopStep ==
    ASSUME IndInv, Loop
    PROVE  IndInv'
<1>1. ASSUME NEW c \in Clients, NEW r \in Requests, Frame(c, r)
      PROVE  IndInv'
  BY <1>1, ReadRefusedStep, ReadCancelStep, ReadControlStep, ReadPullStep, ReadChatStep DEF Frame
<1> QED
  BY <1>1, ReadBeginStep, PollLostStep, PollBeginStep, PollReadyStep, PollNotReadyStep, RestStep DEF Loop

\* Stuttering.
LEMMA StutterStep ==
    ASSUME IndInv, UNCHANGED vars
    PROVE  IndInv'
<1>1. /\ listening' = listening /\ conn' = conn /\ request' = request /\ loop' = loop
      /\ queue' = queue /\ emitted' = emitted /\ settled' = settled /\ broken' = broken
      /\ cancelled' = cancelled /\ sent' = sent
  BY DEF vars, serviceVars
<1>2. \A c \in Clients : ConnRule(c, conn'[c], sent', cancelled')
  BY <1>1 DEF IndInv, ConnRules
<1>3. \A r \in All : TextRule(r, sent'[r])
  BY <1>1 DEF IndInv, TextRules
<1>4. UNCHANGED <<request, serviceVars>>
  BY DEF vars
<1>5. QueueRules' /\ TextRules' /\ ConnRules' /\ ServiceTypes'
  BY <1>2, <1>3, <1>4, RulesKeep DEF IndInv, TypeOK
<1>6. TypeOK'
  BY <1>1, <1>5 DEF IndInv, TypeOK
<1>7. FrameRules'
  BY <1>1 DEF IndInv, FrameRules, Fresh, Requests, Dispatched, Client
<1>8. LoopRules' /\ PendingRules'
  BY <1>1 DEF IndInv, LoopRules, PendingRules, Pending, Dispatched, Client, Kind, Answered
<1> QED
  BY <1>5, <1>6, <1>7, <1>8 DEF IndInv

\* What every step keeps.
LEMMA InvariantStep ==
    ASSUME IndInv, [Next]_vars
    PROVE  IndInv'
<1>1. ASSUME NEW r, WorkerEvent(r) \/ WorkerFinish(r)
      PROVE  IndInv'
  BY <1>1, WorkerEventStep, WorkerFinishStep
<1> QED
  BY <1>1, PeersStep, LoopStep, CloseServerStep, StutterStep DEF Next, Worker

\* What a peer was sent and is owed, what a connection has in flight and who waits for
\* what agree at all times: the invariant on which the properties rest.
THEOREM IpcInvariant == Spec => []IndInv
<1>1. Init => IndInv
  BY InitStep
<1>2. IndInv /\ [Next]_vars => IndInv'
  BY InvariantStep
<1> QED
  BY <1>1, <1>2, PTL DEF Spec

\* The type invariant of the server's connections, requests and texts.
THEOREM IpcTypes == Spec => []TypeOK
<1>1. IndInv => TypeOK
  BY DEF IndInv
<1> QED
  BY <1>1, IpcInvariant, PTL

-----------------------------------------------------------------------------
(* The properties.                                                         *)

\* The answer as AnswersInOrder writes it.
LEMMA Answers ==
    ASSUME NEW n \in Nat, n <= MaxEvents
    PROVE  /\ <<Accepted>> \o [i \in 1 .. n |-> i] \o <<Final>> = Append(First(n + 1), Final)
           /\ <<>> \o [i \in 1 .. 0 |-> i] \o <<Final>> = Append(First(0), Final)
<1>1. MaxEvents \in Nat /\ Final = MaxEvents + 1 /\ Accepted = 0
  BY IpcAssumption DEF Final, Accepted
<1>2. \A m \in Nat : m <= MaxEvents => [i \in 1 .. m |-> i] \in Seq(Parts) /\ Len([i \in 1 .. m |-> i]) = m
  <2>1. ASSUME NEW m \in Nat, m <= MaxEvents PROVE [i \in 1 .. m |-> i] \in [1 .. m -> Parts]
    BY <1>1, <2>1 DEF Parts
  <2> QED
    BY <2>1
<1>3. ASSUME NEW h \in Seq(Parts), NEW m \in Nat, m <= MaxEvents,
             NEW l \in Nat, l <= MaxEvents + 1, l = Len(h) + m, Len(h) <= 1, Len(h) = 1 => h[1] = 0, m > 0 => Len(h) = 1
      PROVE  h \o [i \in 1 .. m |-> i] \o <<Final>> = Append(First(l), Final)
  <2> DEFINE e == [i \in 1 .. m |-> i]
             s == h \o e
  <2>1. e \in Seq(Parts) /\ Len(e) = m /\ \A i \in 1 .. m : e[i] = i
    BY <1>2, <1>3
  <2> HIDE DEF e
  <2>2. s \in Seq(Parts) /\ Len(s) = l /\ \A i \in 1 .. l : s[i] = i - 1
    <3>1. Len(h) \in Nat
      BY LenProperties
    <3>2. /\ s \in Seq(Parts) /\ Len(s) = Len(h) + Len(e)
          /\ \A i \in 1 .. Len(h) + Len(e) : s[i] = IF i <= Len(h) THEN h[i] ELSE e[i - Len(h)]
      BY <2>1, ConcatProperties
    <3>3. ASSUME NEW i \in 1 .. l PROVE s[i] = i - 1
      <4>1. CASE i <= Len(h)
        <5>1. i = 1 /\ Len(h) = 1
          <6>1. \A a \in Nat : \A b \in 1 .. l : b <= a /\ a <= 1 => b = 1 /\ a = 1
            OBVIOUS
          <6> QED
            BY <1>3, <3>1, <4>1, <6>1
        <5>2. i \in 1 .. Len(h) + Len(e)
          BY <1>3, <2>1
        <5>3. s[i] = h[i]
          BY <3>2, <4>1, <5>2
        <5> QED
          BY <1>3, <5>1, <5>3
      <4>2. CASE ~(i <= Len(h))
        <5>1. m > 0 /\ Len(h) = 1 /\ i - Len(h) \in 1 .. m
          BY <1>3, <3>1, <4>2
        <5> QED
          BY <1>3, <2>1, <3>2, <4>2, <5>1
      <4> QED
        BY <4>1, <4>2
    <3> QED
      BY <1>3, <2>1, <3>2, <3>3
  <2> HIDE DEF s
  <2>3. First(l) \in Seq(Parts) /\ Len(First(l)) = l /\ \A i \in 1 .. l : First(l)[i] = i - 1
    BY <1>3, Beginnings
  <2>4. s = First(l)
    BY <1>3, <2>2, <2>3, SeqEqual
  <2>5. s \o <<Final>> = Append(s, Final)
    <3>1. Final \in Parts
      BY <1>1 DEF Parts
    <3> QED
      BY <2>2, <3>1
  <2> QED
    BY <2>4, <2>5 DEF s, e
<1>4. <<Accepted>> \in Seq(Parts) /\ Len(<<Accepted>>) = 1 /\ <<Accepted>>[1] = 0
  BY <1>1 DEF Parts
<1>5. <<>> \in Seq(Parts) /\ Len(<<>>) = 0
  OBVIOUS
<1>6. <<Accepted>> \o [i \in 1 .. n |-> i] \o <<Final>> = Append(First(n + 1), Final)
  <2>1. /\ n + 1 \in Nat /\ n + 1 <= MaxEvents + 1 /\ n + 1 = Len(<<Accepted>>) + n
        /\ Len(<<Accepted>>) <= 1 /\ (Len(<<Accepted>>) = 1 => <<Accepted>>[1] = 0)
        /\ (n > 0 => Len(<<Accepted>>) = 1)
    BY <1>1, <1>4
  <2> QED
    BY <1>3, <1>4, <2>1
<1>7. <<>> \o [i \in 1 .. 0 |-> i] \o <<Final>> = Append(First(0), Final)
  <2>1. /\ 0 \in Nat /\ 0 <= MaxEvents /\ 0 <= MaxEvents + 1 /\ 0 = Len(<<>>) + 0
        /\ Len(<<>>) <= 1 /\ (Len(<<>>) = 1 => <<>>[1] = 0) /\ (0 > 0 => Len(<<>>) = 1)
    BY <1>1, <1>5
  <2> QED
    BY <1>3, <1>5, <2>1
<1> QED
  BY <1>6, <1>7

\* The beginnings of an answer are what TextRule says.
LEMMA AnswerBegins ==
    ASSUME NEW n \in Nat, n <= MaxEvents + 1
    PROVE  LET full == Append(First(n), Final)
           IN  IsPrefix(full, full) /\ \A m \in 0 .. n : IsPrefix(First(m), full)
<1> DEFINE full == Append(First(n), Final)
<1>1. MaxEvents \in Nat /\ Final \in Parts
  BY IpcAssumption DEF Final, Parts
<1>2. /\ full \in Seq(Parts) /\ Len(full) = n + 1
      /\ \A i \in 1 .. n : full[i] = i - 1
  <2>1. First(n) \in Seq(Parts) /\ Len(First(n)) = n /\ \A i \in 1 .. n : First(n)[i] = i - 1
    BY <1>1, Beginnings
  <2> QED
    BY <1>1, <2>1, AppendProperties
<1> HIDE DEF full
<1>3. IsPrefix(full, full)
  BY <1>2 DEF IsPrefix
<1>4. ASSUME NEW m \in 0 .. n PROVE IsPrefix(First(m), full)
  <2>1. First(m) \in Seq(Parts) /\ Len(First(m)) = m /\ \A i \in 1 .. m : First(m)[i] = i - 1
    BY <1>1, Beginnings
  <2> DEFINE f == First(m)
             a == SubSeq(f, 1, m)
             b == SubSeq(full, 1, m)
  <2> HIDE DEF f
  <2>2. f \in Seq(Parts) /\ Len(f) = m /\ \A i \in 1 .. m : f[i] = i - 1
    BY <2>1 DEF f
  <2>3. a \in Seq(Parts) /\ Len(a) = m /\ \A i \in 1 .. m : a[i] = f[i]
    BY <2>2, SubSeqProperties, Z3
  <2>4. b \in Seq(Parts) /\ Len(b) = m /\ \A i \in 1 .. m : b[i] = full[i]
    BY <1>2, SubSeqProperties, Z3
  <2> HIDE DEF a, b
  <2>5. a = b
    <3>1. \A i \in 1 .. m : a[i] = b[i]
      BY <1>2, <2>2, <2>3, <2>4
    <3> QED
      BY <2>3, <2>4, <3>1, SeqEqual
  <2> QED
    BY <1>2, <2>2, <2>5 DEF IsPrefix, a, b, f
<1> QED
  BY <1>3, <1>4 DEF full

\* What a peer gets for a request is the beginning of its answer: no event is skipped,
\* repeated or overtaken, and nothing follows the end.
THEOREM AnswersComeInOrder == Spec => []AnswersInOrder
<1>1. ASSUME IndInv
      PROVE  AnswersInOrder
  <2> SUFFICES ASSUME NEW r \in Requests
               PROVE  LET head == IF request[r].kind \in Streams /\ Dispatched(r) THEN <<Accepted>> ELSE <<>>
                          full == head \o [n \in 1..emitted[r] |-> n] \o <<Final>>
                      IN  IsPrefix(sent[r], full)
    BY DEF AnswersInOrder
  <2> DEFINE head == IF request[r].kind \in Streams /\ Dispatched(r) THEN <<Accepted>> ELSE <<>>
             full == head \o [n \in 1..emitted[r] |-> n] \o <<Final>>
  <2>1. r \in All /\ TextRule(r, sent[r]) /\ emitted[r] \in 0 .. MaxEvents /\ MaxEvents \in Nat
    <3>1. Len(request) \in Nat /\ Len(request) <= MaxRequests
      BY <1>1, LenProperties DEF IndInv, TypeOK
    <3> QED
      BY <1>1, <3>1, IpcAssumption DEF IndInv, TypeOK, ServiceTypes, TextRules, Requests, All
  <2>2. ~(Dispatched(r) /\ Kind(r) \in Streams) => emitted[r] = 0
    BY <1>1, <2>1 DEF IndInv, QueueRules
  <2>3. CASE Dispatched(r) /\ Kind(r) \in Streams
    <3>1. full = Append(First(Limit(r)), Final) /\ Limit(r) \in Nat /\ Limit(r) <= MaxEvents + 1
      <4>1. head = <<Accepted>> /\ Limit(r) = emitted[r] + 1
        BY <2>3 DEF Limit, Kind
      <4>2. PICK l \in Nat : l = emitted[r] /\ l <= MaxEvents
        BY <2>1
      <4>3. <<Accepted>> \o [n \in 1 .. l |-> n] \o <<Final>> = Append(First(l + 1), Final)
        BY <4>2, Answers
      <4>4. full = Append(First(Limit(r)), Final)
        BY <4>1, <4>2, <4>3
      <4>5. l + 1 \in Nat /\ l + 1 <= MaxEvents + 1
        BY <2>1, <4>2
      <4>6. Limit(r) \in Nat /\ Limit(r) <= MaxEvents + 1
        BY <4>1, <4>2, <4>5
      <4> QED
        BY <4>4, <4>6, Zenon
    <3>2. sent[r] = Append(First(Limit(r)), Final) \/ \E n \in 0 .. Limit(r) : sent[r] = First(n)
      BY <2>1, <2>3 DEF TextRule
    <3> HIDE DEF full
    <3>3. IsPrefix(sent[r], full)
      BY <3>1, <3>2, AnswerBegins
    <3> QED
      BY <3>3 DEF full
  <2>4. CASE ~(Dispatched(r) /\ Kind(r) \in Streams)
    <3>1. full = Append(First(0), Final)
      <4>1. head = <<>> /\ emitted[r] = 0
        BY <2>2, <2>4 DEF Kind
      <4>2. 0 \in Nat /\ 0 <= MaxEvents
        BY <2>1
      <4> QED
        BY <4>1, <4>2, Answers
    <3>2. First(0) = <<>> /\ Append(First(0), Final) = <<Final>>
      BY DEF First
    <3>3. sent[r] = Append(First(0), Final) \/ sent[r] = First(0)
      <4>1. CASE Dispatched(r)
        BY <2>1, <2>4, <4>1, <3>2 DEF TextRule, Limit
      <4>2. CASE ~Dispatched(r)
        BY <2>1, <4>2, <3>2 DEF TextRule
      <4> QED
        BY <4>1, <4>2
    <3> HIDE DEF full
    <3>4. 0 \in Nat /\ 0 <= MaxEvents + 1 /\ 0 \in 0 .. 0
      BY <2>1
    <3>5. IsPrefix(sent[r], full)
      BY <3>1, <3>3, <3>4, AnswerBegins
    <3> QED
      BY <3>5 DEF full
  <2> QED
    BY <2>3, <2>4
<1> QED
  BY <1>1, IpcInvariant, PTL

\* A request that was made has a number and a connection.
LEMMA RequestsAll ==
    ASSUME IndInv, NEW r \in Requests
    PROVE  r \in All /\ Client(r) \in Clients
<1>1. request \in Seq(Asked) /\ Len(request) \in Nat /\ Len(request) <= MaxRequests
  BY LenProperties DEF IndInv, TypeOK
<1>2. request[r] \in Asked
  BY <1>1, ElementOfSeq DEF Requests
<1> QED
  BY <1>1, <1>2, IpcAssumption DEF Requests, All, Asked, Client

\* What Live speaks of is what is in flight.
LEMMA FlyingIsInFlight ==
    ASSUME IndInv, NEW c \in Clients
    PROVE  InFlight(c) = Flying(c, sent)
<1>1. \A r \in All : Answered(r) <=> Final \in Elements(sent[r])
  BY RangeElements DEF IndInv, TypeOK, Answered
<1>2. \A r \in All : Dispatched(r) => r \in Requests
  BY DEF IndInv, QueueRules
<1>3. ASSUME NEW r PROVE r \in InFlight(c) <=> r \in Flying(c, sent)
  BY <1>1, <1>2, RequestsAll DEF InFlight, Flying, Client
<1> QED
  BY <1>3

\* On a live connection ids and tokens are those of its unanswered requests, and what a
\* lost connection had running is cancelled.
THEOREM InFlightKnown == Spec => []InFlightIsKnown
<1>1. ASSUME IndInv
      PROVE  InFlightIsKnown
  <2>1. ASSUME NEW c \in Clients, conn[c].socket = "open"
        PROVE  /\ conn[c].ids = {request[r].id : r \in InFlight(c)}
               /\ Cardinality(conn[c].ids) = Cardinality(InFlight(c))
               /\ conn[c].generations = {r \in InFlight(c) : request[r].kind \in Streams}
    <3> DEFINE F == InFlight(c)
               I == conn[c].ids
    <3>1. Live(c, conn[c], sent)
      BY <1>1, <2>1 DEF IndInv, ConnRules, ConnRule
    <3>2. F = Flying(c, sent)
      BY <1>1, FlyingIsInFlight
    <3>3. /\ I = {request[r].id : r \in F}
          /\ \A r, q \in F : request[r].id = request[q].id => r = q
          /\ conn[c].generations = {r \in F : request[r].kind \in Streams}
      BY <3>1, <3>2 DEF Live, Kind
    <3>4. IsFiniteSet(F)
      <4>1. F \subseteq All
        BY <3>2 DEF Flying
      <4>2. IsFiniteSet(All)
        BY IpcAssumption, FS_Interval DEF All
      <4> QED
        BY <4>1, <4>2, FS_Subset
    <3> HIDE DEF F, I
    <3>5. ExistsBijection(F, I)
      <4> DEFINE f == [r \in F |-> request[r].id]
      <4>1. f \in Bijection(F, I)
        <5>1. f \in [F -> I] /\ \A r, q \in F : f[r] = f[q] => r = q
          BY <3>3
        <5>2. \A i \in I : \E r \in F : f[r] = i
          BY <3>3
        <5> HIDE DEF f
        <5> QED
          BY <5>1, <5>2, Zenon DEF Bijection, Injection, IsInjective, Surjection
      <4> HIDE DEF f
      <4> QED
        BY <4>1, Zenon DEF ExistsBijection
    <3>6. Cardinality(I) = Cardinality(F)
      BY <3>4, <3>5, FS_Bijection
    <3> QED
      BY <3>3, <3>6 DEF F, I
  <2>2. ASSUME NEW r \in Requests, conn[request[r].client].socket = "gone",
               request[r].kind \in Streams, r \in Range(queue)
        PROVE  r \in cancelled
    <3>1. r \in All /\ Client(r) \in Clients
      BY <1>1, RequestsAll
    <3>2. r \in Elements(queue)
      BY <1>1, <2>2, RangeElements DEF IndInv, TypeOK, ServiceTypes
    <3>3. Mine(r, Client(r))
      BY <2>2 DEF Mine, Dispatched, Kind
    <3>4. ConnRule(Client(r), conn[Client(r)], sent, cancelled) /\ conn[Client(r)].socket = "gone"
      BY <1>1, <2>2, <3>1 DEF IndInv, ConnRules, Client
    <3> QED
      BY <3>2, <3>3, <3>4 DEF ConnRule
  <2> QED
    BY <2>1, <2>2 DEF InFlightIsKnown
<1> QED
  BY <1>1, IpcInvariant, PTL

\* What send() cancels is what the connection had.
LEMMA SendCancels ==
    ASSUME NEW k, NEW texts, NEW stopped, NEW r, NEW part, NEW st,
           st = [conn |-> k, sent |-> texts, cancelled |-> stopped]
    PROVE  Send(st, r, part).cancelled \subseteq stopped \cup k.generations
<1>1. Aborted(st).cancelled = stopped \cup k.generations
  BY DEF Aborted
<1>2. [st EXCEPT !.conn.unsent = @ + 1, !.sent[r] = Append(@, part)].cancelled = stopped
  OBVIOUS
<1> QED
  BY <1>1, <1>2 DEF Send

\* Only its own connection cancels a request: by asking for it, which only a frame that
\* is read can do, or by breaking.
THEOREM CancelledByOwnerOnly == Spec => CancelledByOwner
<1> DEFINE ByOwner == \A r \in cancelled' \ cancelled :
                          \/ conn'[request[r].client].socket # "open"
                          \/ loop.at = "read" /\ loop.client = request[r].client
           Owned(c) == \A r \in cancelled' \ cancelled :
                           Client(r) = c /\ (conn'[c].socket # "open" \/ (loop.at = "read" /\ loop.client = c))
<1>1. ASSUME IndInv, NEW c \in Clients, Owned(c)
      PROVE  ByOwner
  BY <1>1 DEF Client
<1>2. ASSUME IndInv, NEW c \in Clients, ClientGone(c) \/ PollLost(c) \/ PollBegin(c)
      PROVE  ByOwner
  <2>1. conn[c] \in Connections /\ conn \in [Clients -> Connections] /\ \A r \in conn[c].generations : Mine(r, c)
    BY <1>2 DEF IndInv, TypeOK, ConnRules, ConnRule
  <2>2. CASE ClientGone(c)
    <3>1. Become(c, Aborted(State(c)))
      BY <2>2 DEF ClientGone
    <3>2. /\ State(c) \in States /\ State(c).conn = conn[c] /\ State(c).cancelled = cancelled
      BY <1>2, StateOf
    <3>3. Broken(State(c), Aborted(State(c)))
      BY <3>2, AbortedCase
    <3> DEFINE out == Aborted(State(c))
    <3> HIDE DEF out
    <3>4. out.conn.socket = "closed" /\ out.cancelled = cancelled \cup conn[c].generations
      BY <3>2, <3>3 DEF Broken, out
    <3>5. conn'[c] = out.conn /\ cancelled' = out.cancelled
      BY <2>1, <3>1 DEF Become, out
    <3> QED
      BY <1>1, <1>2, <2>1, <3>4, <3>5 DEF Mine
  <2>3. CASE PollBegin(c)
    <3> DEFINE drained == AfterDrain(c)
    <3>1. DrainedRule(c, drained) /\ drained.conn.socket = "open"
      BY <1>2, <2>3, AfterDrainRule DEF PollBegin
    <3>2. cancelled' = [drained EXCEPT !.conn.pending = <<>>].cancelled
      BY <2>3 DEF PollBegin, Become
    <3> HIDE DEF drained
    <3>3. drained \in States
      BY <3>1 DEF DrainedRule, Fits
    <3>4. cancelled' = drained.cancelled
      BY <3>2, <3>3 DEF States
    <3> QED
      BY <3>1, <3>4 DEF DrainedRule
  <2>4. CASE PollLost(c)
    <3> DEFINE st == IF conn[c].socket = "closed" THEN State(c) ELSE AfterDrain(c)
               out == Disconnected(st)
    <3>1. Become(c, out) /\ conn[c].socket \in {"open", "closed"}
      BY <2>4 DEF PollLost, Served
    <3>2. /\ Fits(c, st) /\ st.conn.socket \in {"open", "closed"}
          /\ \A r \in st.cancelled \ cancelled : Mine(r, c)
      BY <1>2, <3>1, StateOf, StateFits, AfterDrainRule DEF DrainedRule
    <3> HIDE DEF st
    <3>3. out.conn.socket = "gone" /\ out.cancelled = st.cancelled \cup st.conn.generations
      BY <1>2, <3>2, GoneFits
    <3> HIDE DEF out
    <3>4. \A r \in st.conn.generations : Mine(r, c)
      BY <3>2 DEF Fits, ConnRule
    <3>5. conn'[c] = out.conn /\ cancelled' = out.cancelled
      BY <2>1, <3>1 DEF Become
    <3> QED
      BY <1>1, <1>2, <3>2, <3>3, <3>4, <3>5 DEF Mine
  <2> QED
    BY <1>2, <2>2, <2>3, <2>4
<1>3. ASSUME IndInv, NEW r, PollReady(r)
      PROVE  ByOwner
  <2> DEFINE c == loop.client
             drained == AfterDrain(c)
             st == IF drained.conn.socket = "open" THEN Replied(drained, r) ELSE drained
  <2>1. Polling(r) /\ r \in settled /\ NextPending /\ Become(c, st)
    BY <1>3 DEF PollReady
  <2>2. /\ c \in Clients /\ conn[c].socket \in {"open", "closed"} /\ r \in All /\ WasPending(r, c)
    BY <1>3, <2>1, FutureLookedAt
  <2>3. conn \in [Clients -> Connections]
    BY <1>3 DEF IndInv, TypeOK
  <2>4. PICK d \in Clients : d = c
    BY <2>2
  <2> HIDE DEF c
  <2>5. DrainedRule(c, drained)
    BY <1>3, <2>2, AfterDrainRule
  <2> HIDE DEF drained
  <2>6. \A q \in st.cancelled \ cancelled : Mine(q, c) /\ st.conn.socket = "closed"
    <3>1. CASE drained.conn.socket = "open"
      BY <1>3, <2>1, <2>2, <2>5, <3>1, ReplyFits
    <3>2. CASE drained.conn.socket # "open"
      BY <2>5, <3>2 DEF DrainedRule
    <3> QED
      BY <3>1, <3>2
  <2> HIDE DEF st
  <2>7. conn'[c] = st.conn /\ cancelled' = st.cancelled
    BY <2>1, <2>2, <2>3 DEF Become
  <2> QED
    BY <1>1, <1>3, <2>4, <2>6, <2>7 DEF Mine
<1>4. ASSUME IndInv, NEW c \in Clients, NEW r, Frame(c, r)
      PROVE  ByOwner
  <2>1. conn[c] \in Connections /\ \A q \in conn[c].generations : Client(q) = c
    BY <1>4 DEF IndInv, TypeOK, ConnRules, ConnRule, Mine
  <2>2. Reading(c, r) /\ NextFrame
    BY <1>4 DEF Frame, ReadRefused, ReadLocal, ReadCancel, ReadControl, ReadPull, ReadChat
  <2>3. r \in All /\ Client(r) = c /\ loop.at = "read" /\ loop.client = c
    BY <1>4, <2>2, LookedAt DEF Fresh
  <2>4. ASSUME NEW k, NEW stopped, NEW st, st = [conn |-> k, sent |-> sent, cancelled |-> stopped],
               NEW part, cancelled' = Send(st, r, part).cancelled,
               k.generations \subseteq conn[c].generations \cup {r},
               stopped \subseteq cancelled \cup conn[c].generations
        PROVE  ByOwner
    <3>1. cancelled' \subseteq stopped \cup k.generations
      BY <2>4, SendCancels
    <3>2. Owned(c)
      BY <2>1, <2>3, <2>4, <3>1
    <3> QED
      BY <1>1, <1>4, <3>2
  <2>5. State(c) = [conn |-> conn[c], sent |-> sent, cancelled |-> cancelled]
    BY DEF State
  <2>6. CASE ReadRefused(c, r) \/ ReadLocal(c, r)
    <3>1. cancelled' = Send(State(c), r, Final).cancelled
      BY <2>6 DEF ReadRefused, ReadLocal, Become
    <3> QED
      BY <2>4, <2>5, <3>1
  <2>7. CASE ReadCancel(c, r)
    <3> DEFINE found == {request[r].target} \cap conn[c].generations
               st == [State(c) EXCEPT !.cancelled = @ \cup found]
    <3>1. cancelled' = Send(st, r, Final).cancelled
      BY <2>7 DEF ReadCancel, Become
    <3>2. found \subseteq conn[c].generations
      OBVIOUS
    <3> HIDE DEF found
    <3>3. st = [conn |-> conn[c], sent |-> sent, cancelled |-> cancelled \cup found]
      BY DEF State
    <3> HIDE DEF st
    <3> QED
      BY <2>4, <3>1, <3>2, <3>3
  <2>8. CASE \E atOnce \in BOOLEAN : ReadControl(c, r, atOnce)
    BY <2>8 DEF ReadControl
  <2>9. CASE \E atOnce \in BOOLEAN : ReadPull(c, r, atOnce)
    <3> DEFINE st == [State(c) EXCEPT !.conn.ids = @ \cup {request[r].id}, !.conn.generations = @ \cup {r},
                                      !.conn.pending = Append(@, r)]
    <3>1. cancelled' = Send(st, r, Accepted).cancelled
      BY <2>9, Zenon DEF ReadPull, Become
    <3>2. st = [conn |-> Pulling(conn[c], r), sent |-> sent, cancelled |-> cancelled]
      <4>1. OpenedRule(conn[c], r, State(c))
        BY <2>5, OpenedStates
      <4> QED
        BY <4>1, Zenon DEF OpenedRule
    <3> HIDE DEF st
    <3>3. Pulling(conn[c], r).generations = conn[c].generations \cup {r}
      BY <2>1 DEF Pulling, Connections
    <3> QED
      BY <2>4, <3>1, <3>2, <3>3
  <2>10. ASSUME NEW atOnce \in BOOLEAN, ReadChat(c, r, atOnce)
         PROVE  ByOwner
    <3> DEFINE p == IF atOnce THEN Pushed(conn[c], r, Final) ELSE conn[c]
               called == [State(c) EXCEPT !.conn = IF atOnce THEN Pushed(@, r, Final) ELSE @]
               st == [called EXCEPT !.conn.ids = @ \cup {request[r].id}, !.conn.generations = @ \cup {r}]
    <3>1. cancelled' = Send(st, r, Accepted).cancelled
      BY <2>10, Zenon DEF ReadChat, Become
    <3>2. p \in Connections /\ p.generations = conn[c].generations
      <4>1. Final \in Parts
        BY IpcAssumption DEF Parts, Final
      <4> QED
        BY <2>1, <2>3, <4>1, PushedRecord
    <3>3. called = [conn |-> p, sent |-> sent, cancelled |-> cancelled]
      BY DEF State
    <3> HIDE DEF called, p
    <3>4. st = [conn |-> Opened(p, r), sent |-> sent, cancelled |-> cancelled]
      <4>1. OpenedRule(p, r, called)
        BY <3>3, OpenedStates
      <4> QED
        BY <4>1, Zenon DEF OpenedRule
    <3> HIDE DEF st
    <3>5. Opened(p, r).generations = conn[c].generations \cup {r}
      BY <3>2 DEF Opened, Connections
    <3> QED
      BY <2>4, <3>1, <3>4, <3>5
  <2> QED
    BY <1>4, <2>6, <2>7, <2>8, <2>9, <2>10 DEF Frame
<1>5. ASSUME IndInv, CloseServer
      PROVE  ByOwner
  <2>1. ASSUME NEW r \in cancelled' \ cancelled
        PROVE  conn'[request[r].client].socket # "open"
    <3>1. PICK c \in Served : r \in conn[c].generations
      BY <1>5, <2>1 DEF CloseServer
    <3>2. c \in Clients /\ Mine(r, c)
      BY <1>5, <3>1 DEF Served, IndInv, ConnRules, ConnRule
    <3>3. conn'[c] = Disconnected(State(c)).conn
      BY <1>5, <3>1, <3>2 DEF CloseServer
    <3>4. conn'[c].socket = "gone"
      BY <1>5, <3>1, <3>2, <3>3, StateOf, StateFits, GoneFits DEF Served
    <3> QED
      BY <3>2, <3>4 DEF Mine, Client
  <2> QED
    BY <2>1
<1>6. ASSUME IndInv, [Next]_vars
      PROVE  ByOwner
  <2>1. \/ \E c \in Clients : ClientGone(c) \/ PollLost(c) \/ PollBegin(c)
        \/ \E c \in Clients, r \in Requests : Frame(c, r)
        \/ \E r \in Requests : PollReady(r)
        \/ CloseServer
        \/ cancelled' = cancelled
    BY <1>6 DEF Next, Peers, Loop, Worker, Accept, ClientRead, ClientSend, ReadBegin, PollNotReady,
       ReadEnd, PollEnd, WorkerEvent, WorkerFinish, vars
  <2> QED
    BY <1>2, <1>3, <1>4, <1>5, <1>6, <2>1
<1>7. IndInv /\ [Next]_vars => [ByOwner]_vars
  BY <1>6
<1> QED
  BY <1>7, IpcInvariant, PTL DEF Spec, CancelledByOwner
=============================================================================
