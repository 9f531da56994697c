---------------------------- MODULE Conversation ----------------------------
(***************************************************************************)
(* A structured conversation as the service sees it: a client takes its    *)
(* generation options from its parameters, sends the whole history with    *)
(* every request, and appends what it gets.  Conversation.cpp checks what  *)
(* comes in (validateConversationRequest) and what the runtime says        *)
(* (validateConversationReply).  The client here does what an SDK's does:  *)
(* it appends a reply that says something, answers every call in any       *)
(* order, and drops the oldest complete turns when it must.                *)
(***************************************************************************)
EXTENDS Naturals, Sequences, SequencesExt, FiniteSets

CONSTANTS
    Tools,         \* the names of the functions the request offers
    CallIds,       \* ids a runtime may give a call
    MaxCalls,      \* calls in one reply; 64 in the code
    MaxMessages    \* how long a history gets here

VARIABLES
    messages,   \* the history the client keeps
    request,    \* [tools, toolChoice, parallel] of the conversation
    options,    \* the generation options, in a set; none before the conversation
    turn        \* whose turn it is; "refused" after an invalid request

vars == <<messages, request, options, turn>>

NoId == <<"none">>
Unknown == "no such tool"
ToolChoices == {"auto", "none", "required"}

\* A message with content (text that is not blank), the calls it makes, the call it answers.
Message(role, content, calls, id) == [role |-> role, content |-> content, calls |-> calls, id |-> id]

\* A call: its id, the function, and whether its arguments are a JSON object.
Call(id, name, object_) == [id |-> id, name |-> name, object |-> object_]

\* checkCall()
CheckCall(c) == c.id # NoId /\ c.object

IdsOf(calls) == {calls[i].id : i \in DOMAIN calls}
AllIds(ms) == UNION {IdsOf(ms[i].calls) : i \in DOMAIN ms}

-----------------------------------------------------------------------------
\* The loop of validateConversationRequest(): ids seen and calls that wait for a result.
CheckMessage(s, m) ==
    [ok |-> /\ s.ok
            /\ m.role = "system" => s.first
            /\ m.role # "tool" => s.pending = {}
            /\ m.role # "assistant" => m.calls = <<>>
            /\ CASE m.role = "tool" -> m.id \in s.pending
                 [] m.role = "assistant" /\ m.calls # <<>> ->
                       /\ Len(m.calls) <= MaxCalls
                       /\ \A i \in DOMAIN m.calls : CheckCall(m.calls[i])
                       /\ Cardinality(IdsOf(m.calls)) = Len(m.calls)
                       /\ IdsOf(m.calls) \cap s.ids = {}
                 [] OTHER -> m.content,
     first |-> FALSE,
     ids |-> s.ids \cup IdsOf(m.calls),
     pending |-> IF m.role = "tool" THEN s.pending \ {m.id} ELSE s.pending \cup IdsOf(m.calls)]

Checked(ms) == FoldLeft(CheckMessage, [ok |-> TRUE, first |-> TRUE, ids |-> {}, pending |-> {}], ms)

\* validateConversationRequest()
RequestOk(r, ms, o) ==
    /\ o # {}
    /\ r.toolChoice \in ToolChoices
    /\ r.toolChoice = "required" => r.tools # {}
    /\ ms # <<>>
    /\ Checked(ms).ok /\ Checked(ms).pending = {}
    /\ ms[Len(ms)].role \in {"user", "tool"}

\* The calls of a reply, those without an id given one that is new: QUuid::createUuid().
WithIds(calls) ==
    LET used == AllIds(messages)
        base == CHOOSE n \in 0 .. MaxMessages * MaxCalls :
                   \A i \in DOMAIN calls : <<"uuid", n + i>> \notin used
    IN  [i \in DOMAIN calls |->
            IF calls[i].id = NoId THEN [calls[i] EXCEPT !.id = <<"uuid", base + i>>] ELSE calls[i]]

\* Mutant: ids are compared within the reply alone.
ReplyOkAlone(calls) ==
    /\ Len(calls) <= MaxCalls
    /\ ~request.parallel => Len(calls) <= 1
    /\ request.toolChoice = "none" => calls = <<>>
    /\ request.toolChoice = "required" => calls # <<>>
    /\ \A i \in DOMAIN calls : CheckCall(calls[i]) /\ calls[i].name \in request.tools
    /\ Cardinality(IdsOf(calls)) = Len(calls)

\* validateConversationReply()
ReplyOk(calls) ==
    /\ Len(calls) <= MaxCalls
    /\ ~request.parallel => Len(calls) <= 1
    /\ request.toolChoice = "none" => calls = <<>>
    /\ request.toolChoice = "required" => calls # <<>>
    /\ \A i \in DOMAIN calls : CheckCall(calls[i]) /\ calls[i].name \in request.tools
    /\ Cardinality(IdsOf(calls)) = Len(calls)
    /\ IdsOf(calls) \cap AllIds(messages) = {}

-----------------------------------------------------------------------------
Init ==
    /\ messages = <<>> /\ options = {} /\ turn = "client"
    /\ request = [tools |-> {}, toolChoice |-> "auto", parallel |-> TRUE]

\* The client has its options, whatever its parameters make them, and begins.
Begin(tools, choice, parallel, system) ==
    /\ options = {}
    /\ options' # {}
    /\ request' = [tools |-> tools, toolChoice |-> choice, parallel |-> parallel]
    /\ messages' = IF system THEN <<Message("system", TRUE, <<>>, NoId)>> ELSE <<>>
    /\ UNCHANGED turn

Waiting == Checked(messages).pending
LastRole == IF messages = <<>> THEN "none" ELSE messages[Len(messages)].role

\* The user says something.
Say ==
    /\ turn = "client" /\ options # {} /\ Waiting = {}
    /\ LastRole \in {"none", "system", "assistant"} /\ Len(messages) < MaxMessages
    /\ messages' = Append(messages, Message("user", TRUE, <<>>, NoId))
    /\ UNCHANGED <<request, options, turn>>

\* A call comes back, perhaps with an empty result.
Answer(id, content) ==
    /\ turn = "client" /\ id \in Waiting
    /\ messages' = Append(messages, Message("tool", content, <<>>, id))
    /\ UNCHANGED <<request, options, turn>>

\* The oldest turn goes, up to the next thing the user said.
Compact ==
    /\ turn = "client" /\ Waiting = {}
    /\ LET users == {i \in DOMAIN messages : messages[i].role = "user"}
       IN  /\ Cardinality(users) > 1
           /\ LET first == CHOOSE i \in users : \A j \in users : i <= j
                  next == CHOOSE i \in users \ {first} : \A j \in users \ {first} : i <= j
              IN  messages' = SubSeq(messages, 1, first - 1) \o SubSeq(messages, next, Len(messages))
    /\ UNCHANGED <<request, options, turn>>

\* The next request offers something else.
Revise(tools, choice, parallel) ==
    /\ turn # "runtime" /\ options # {} /\ Waiting = {}
    /\ request' = [tools |-> tools, toolChoice |-> choice, parallel |-> parallel]
    /\ turn' = "client"
    /\ UNCHANGED <<messages, options>>

\* converse(), up to the runtime.
Send ==
    /\ turn = "client" /\ options # {} /\ Waiting = {} /\ LastRole \in {"user", "tool"}
    /\ turn' = IF RequestOk(request, messages, options) THEN "runtime" ELSE "refused"
    /\ UNCHANGED <<messages, request, options>>

\* The runtime's reply.  The client keeps it if it was valid and says something.
Reply(text, calls) ==
    /\ turn = "runtime"
    /\ turn' = "client"
    /\ LET given == WithIds(calls)
       IN  messages' = IF /\ text \/ calls # <<>>
                          /\ Len(messages) + 1 + Len(calls) <= MaxMessages
                          /\ ReplyOk(given)
                       THEN Append(messages, Message("assistant", text, given, NoId)) ELSE messages
    /\ UNCHANGED <<request, options>>

\* What a runtime may say: as many calls as the service takes or fewer, good ones and bad
\* ones, or one more that are all good.
Replies ==
    LET good == {Call(i, n, TRUE) : i \in CallIds \cup {NoId}, n \in Tools}
        bad == {Call(i, n, n \notin Tools) : i \in CallIds \cup {NoId}, n \in Tools \cup {Unknown}}
    IN  SeqOf(good \cup bad, MaxCalls) \cup SeqOf(good, MaxCalls + 1)

Continue ==
    \/ \E tools \in SUBSET Tools, choice \in ToolChoices, parallel \in BOOLEAN : Revise(tools, choice, parallel)
    \/ Say
    \/ \E id \in Waiting, content \in BOOLEAN : Answer(id, content)
    \/ Compact
    \/ Send
    \/ turn = "runtime" /\ \E text \in BOOLEAN, calls \in Replies : Reply(text, calls)

Next ==
    \/ \E tools \in SUBSET Tools, choice \in ToolChoices, parallel, system \in BOOLEAN :
          Begin(tools, choice, parallel, system)
    \/ Continue

Spec == Init /\ [][Next]_vars

-----------------------------------------------------------------------------
\* What the service hands out it takes back: a client that appends valid replies, answers
\* their calls and drops old turns is never told that its history is invalid, except that
\* tools are required where it offers none.
HistoryStaysValid ==
    turn = "refused" => request.toolChoice = "required" /\ request.tools = {}
=============================================================================
