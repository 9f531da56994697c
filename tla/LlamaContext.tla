---------------------------- MODULE LlamaContext ----------------------------
(***************************************************************************)
(* LlamaContext of LlamaRuntime.cpp: one llama.cpp context that serves one *)
(* request after another.  The native memory keeps the tokens evaluated so *)
(* far, previous_ is the context's own account of them, and a request      *)
(* evaluates only what its prompt does not share with that account.  Every *)
(* step can be cut short, by the request's token or by llama.cpp, and the  *)
(* next request finds what is left.  Service drops a context whose request *)
(* failed; the interface does not demand that, and here the next request   *)
(* may find it.                                                            *)
(*                                                                         *)
(* The samplers, the grammar and the token's special rendering are left    *)
(* out: any token of the request's vocabulary may be sampled.              *)
(***************************************************************************)
EXTENDS TextStream

CONSTANTS
    Requests,   \* what a caller may ask for, see LlamaAssumption
    Piece,      \* llama_token_to_piece(): the bytes of a token
    NCtx,       \* llama_n_ctx()
    NBatch      \* llama_n_batch()

Eog == "end of generation"

ASSUME LlamaAssumption ==
    /\ NCtx \in Nat /\ NBatch \in Nat \ {0}
    /\ \A r \in Requests :
          /\ r.prompt \in Seq(DOMAIN Piece) /\ r.prompt # <<>>
          /\ r.max \in Nat \ {0}
          /\ r.media \in BOOLEAN             \* the prompt is evaluated in chunks
          /\ r.tools \in BOOLEAN             \* singleTurnTools is not empty
          /\ r.prefilled \in BOOLEAN         \* the template ends with <tool_call>
          /\ r.vocab \subseteq DOMAIN Piece  \* what the model may say
          /\ \A s \in r.stops : s \in Seq(STRING) /\ s # <<>>
    /\ \A t \in DOMAIN Piece : Piece[t] \in Seq(STRING)
    /\ Eog \notin DOMAIN Piece              \* whatever token ends the answer, it adds no text

VARIABLES
    kv,            \* the native memory: the tokens it holds, in the order of their positions
    logits,        \* what the native logits were computed from
    previous,      \* previous_
    nextPosition,  \* nextPosition_
    req,           \* the request in progress, or the last one
    at,            \* where generateImpl() is
    todo,          \* what is still to be evaluated
    batch,         \* what llama_decode() was just given
    ok,            \* and whether it said that it had worked
    answer,        \* the tokens sampled
    sink,          \* the decoder, the tool turn's wrapper and the stop filter
    cancelled,     \* the request's token
    finish         \* the finish reason; "error" if the call threw

nativeVars == <<kv, logits>>
historyVars == <<previous, nextPosition>>
textVars == <<answer, sink>>
vars == <<kv, logits, previous, nextPosition, req, at, todo, batch, ok, answer, sink, cancelled, finish>>

-----------------------------------------------------------------------------
\* The locals of generateConversation(), and the filter of its caller.
NewSink == [carry |-> <<>>, generated |-> <<>>, delivered |-> 0, yielded |-> FALSE, filter |-> NewFilter]

\* Mutant: what comes after the end of the turn is delivered.
DeliverPastTheCall(s, text) ==
    LET generated == s.generated \o text
        ends == IF Contains(text, ">") THEN CompleteTurn(req.prefilled, generated) ELSE {}
    IN  [s EXCEPT !.generated = generated, !.delivered = Len(generated), !.yielded = ends # {},
                  !.filter = Push(req.stops, @, SubSeq(generated, s.delivered + 1, Len(generated)))]

\* The callback of generateConversation(): the filter gets the text up to the turn's end.
DeliverTurn(s, text) ==
    LET generated == s.generated \o text
        ends == IF Contains(text, ">") THEN CompleteTurn(req.prefilled, generated) ELSE {}
        end == IF ends = {} THEN Len(generated) ELSE Min(ends)
    IN  IF s.yielded THEN s
        ELSE [s EXCEPT !.generated = generated, !.delivered = end, !.yielded = ends # {},
                       !.filter = Push(req.stops, @, SubSeq(generated, s.delivered + 1, end))]

\* onText()
Deliver(s, text) ==
    IF text = <<>> THEN s
    ELSE IF req.tools THEN DeliverTurn(s, text)
    ELSE [s EXCEPT !.filter = Push(req.stops, @, text)]

\* A sampled token's bytes go through the decoder.
Feed(s, bytes) ==
    LET d == Utf8(s.carry, bytes)
    IN  Deliver([s EXCEPT !.carry = d.carry], d.text)

\* The callback's answer.
KeepGoing(s) == ~s.yielded /\ ~s.filter.stopped

-----------------------------------------------------------------------------
Init ==
    /\ kv = <<>> /\ logits = <<>> /\ previous = <<>> /\ nextPosition = 0
    /\ req \in Requests /\ at = "rest" /\ finish = "error"
    /\ todo = <<>> /\ batch = <<>> /\ ok = TRUE
    /\ answer = <<>> /\ sink = NewSink /\ cancelled = FALSE

\* generate() and generateConversation()
Generate(r) ==
    /\ at = "rest"
    /\ req' = r /\ at' = "begin"
    /\ answer' = <<>> /\ sink' = NewSink /\ cancelled' = FALSE /\ finish' = "none"
    /\ UNCHANGED <<nativeVars, historyVars, todo, batch, ok>>

\* The caller drops the context and makes another.
Recreate ==
    /\ at = "rest" /\ kv # <<>>
    /\ kv' = <<>> /\ logits' = <<>> /\ previous' = <<>> /\ nextPosition' = 0
    /\ UNCHANGED <<req, at, todo, batch, ok, textVars, cancelled, finish>>

Cancel ==
    /\ at # "rest" /\ ~cancelled
    /\ cancelled' = TRUE
    /\ UNCHANGED <<nativeVars, historyVars, req, at, todo, batch, ok, textVars, finish>>

\* An exception leaves generateImpl(); the members stay as they are.
Throw ==
    /\ at' = "rest" /\ finish' = "error" /\ cancelled' = FALSE
    /\ todo' = <<>> /\ batch' = <<>> /\ ok' = TRUE /\ answer' = <<>> /\ sink' = NewSink
    /\ UNCHANGED <<nativeVars, historyVars, req>>

\* Invalid options, a prompt that does not fit, no sampler, a token that has no text, a
\* consumer that throws, or the token found cancelled.
Fails ==
    /\ at \in {"begin", "sample", "tail"}
    /\ Throw

-----------------------------------------------------------------------------
\* Mutant: a prompt that is all there is not evaluated again.
ReuseAll ==
    IF req.media THEN 0 ELSE Len(LongestCommonPrefix({previous, req.prompt}))

\* How many tokens need not be evaluated again.  The last one always is: it gives the logits.
Reuse ==
    IF req.media THEN 0 ELSE Len(LongestCommonPrefix({previous, Front(req.prompt)}))

\* The first part of generateImpl(): the memory is cut to what is reused.  A recurrent
\* model cannot be cut in the middle, and is cleared.
Begin ==
    /\ at = "begin" /\ ~cancelled
    /\ Len(req.prompt) + req.max <= NCtx
    /\ \E reuse \in {Reuse, 0} :
          /\ reuse # Reuse => Reuse < Len(kv)
          /\ kv' = SubSeq(kv, 1, reuse)
          /\ previous' = SubSeq(previous, 1, reuse)
          /\ nextPosition' = reuse
          /\ todo' = SubSeq(req.prompt, reuse + 1, Len(req.prompt))
    /\ at' = IF todo' = <<>> THEN "sample" ELSE "decode"
    /\ UNCHANGED <<logits, req, batch, ok, textVars, cancelled, finish>>

\* A prompt with media is evaluated in chunks, by mtmd_helper_eval_chunk_single(), which
\* counts the positions itself.
Chunked == req.media /\ answer = <<>>

\* One llama_decode(), or one chunk.  The logits are those of the last token; a chunk that
\* is not the last has none.  A failure leaves any part of the batch in the memory;
\* positions that do not follow what is there fail.
Decode ==
    /\ at = "decode" /\ ~cancelled
    /\ LET count == IF req.media THEN 1 ELSE Min({NBatch, Len(todo)})
           given == SubSeq(todo, 1, count)
           evaluated == kv \o given
       IN  /\ batch' = given
           /\ \/ /\ ok' = TRUE
                 /\ nextPosition = Len(kv)
                 /\ kv' = evaluated
                 /\ logits' = IF Chunked /\ Len(todo) > 1 THEN logits ELSE evaluated
                 /\ nextPosition' = IF Chunked THEN Len(evaluated) ELSE nextPosition
              \/ /\ ok' = FALSE
                 /\ \E n \in 0 .. count : kv' = kv \o SubSeq(given, 1, n)
                 /\ logits' \in {logits, <<>>}
                 /\ UNCHANGED nextPosition
    /\ at' = "decoded"
    /\ UNCHANGED <<previous, req, todo, textVars, cancelled, finish>>

\* Mutant: the account is kept before the outcome is looked at.
AccountFirst ==
    /\ at = "decoded"
    /\ previous' = IF req.media THEN previous ELSE previous \o batch
    /\ nextPosition' = IF Chunked THEN nextPosition ELSE nextPosition + Len(batch)
    /\ IF ok /\ ~cancelled
       THEN /\ todo' = SubSeq(todo, Len(batch) + 1, Len(todo))
            /\ at' = IF todo' = <<>> THEN "sample" ELSE "decode"
            /\ UNCHANGED finish
       ELSE /\ todo' = <<>> /\ at' = "rest" /\ finish' = "error"
    /\ batch' = <<>> /\ ok' = TRUE
    /\ cancelled' = (cancelled /\ at' # "rest")
    /\ UNCHANGED <<nativeVars, req, textVars>>

\* What decode() does when llama_decode() is back.
Account ==
    /\ at = "decoded" /\ ok /\ ~cancelled
    /\ previous' = IF req.media THEN previous ELSE previous \o batch
    /\ nextPosition' = IF Chunked THEN nextPosition ELSE nextPosition + Len(batch)
    /\ todo' = SubSeq(todo, Len(batch) + 1, Len(todo))
    /\ at' = IF todo' = <<>> THEN "sample" ELSE "decode"
    /\ batch' = <<>> /\ ok' = TRUE
    /\ UNCHANGED <<nativeVars, req, textVars, cancelled, finish>>

\* throwIfCancelled() around it, and its status.
DecodeFails ==
    /\ \/ at \in {"decode", "decoded"} /\ cancelled
       \/ at = "decoded" /\ ~ok
    /\ Throw

\* One turn of the sampling loop, for a token that is text.  The last one is not evaluated.
Sample(t) ==
    /\ at = "sample" /\ ~cancelled
    /\ answer' = Append(answer, t)
    /\ sink' = Feed(sink, Piece[t])
    /\ LET more == KeepGoing(sink') /\ Len(answer') < req.max
       IN  /\ at' = IF more THEN "decode" ELSE "tail"
           /\ todo' = IF more THEN <<t>> ELSE <<>>
    /\ finish' = IF KeepGoing(sink') THEN "length" ELSE "stop"
    /\ UNCHANGED <<nativeVars, historyVars, req, batch, ok, cancelled>>

SampleEog ==
    /\ at = "sample" /\ ~cancelled
    /\ answer' = Append(answer, Eog)
    /\ at' = "tail" /\ finish' = "stop"
    /\ UNCHANGED <<nativeVars, historyVars, req, todo, batch, ok, sink, cancelled>>

\* After the loop: an unfinished character is delivered, and the caller flushes its filter.
EndOfText ==
    /\ at = "tail" /\ ~cancelled
    /\ sink' = LET s == Deliver(sink, Utf8Tail(sink.carry))
               IN  [s EXCEPT !.carry = <<>>, !.filter = Release(@)]
    /\ previous' = IF req.media THEN <<>> ELSE previous
    /\ at' = "rest"
    /\ UNCHANGED <<kv, logits, nextPosition, req, todo, batch, ok, answer, cancelled, finish>>

Next ==
    \/ \E r \in Requests : Generate(r)
    \/ Recreate
    \/ Cancel
    \/ Fails
    \/ Begin
    \/ Decode
    \/ Account
    \/ DecodeFails
    \/ \E t \in req.vocab : Sample(t)
    \/ SampleEog
    \/ EndOfText

Spec == Init /\ [][Next]_vars

-----------------------------------------------------------------------------
\* A token is sampled from logits that were computed from exactly the request's prompt and
\* the answer so far, whatever the requests before it left in the memory and however they
\* ended: generateImpl()'s reuse of the memory changes what is computed, never the result.
LogitsAreCurrent == at = "sample" => logits = req.prompt \o answer

\* previous_ never claims a token that is not in the native memory at that place, not
\* after a failed or a cancelled llama_decode() and not after a prompt with media either:
\* the next request would build on it.
AccountIsTrue == IsPrefix(previous, kv)

\* An answer that is over, and the bytes it was made of.
Answered == at = "rest" /\ finish # "error"
Spoken == IF answer # <<>> /\ Last(answer) = Eog THEN Front(answer) ELSE answer
BytesOf(tokens) == FlattenSeq([i \in DOMAIN tokens |-> Piece[tokens[i]]])
TextOf(tokens) == LET text == WholeText(BytesOf(tokens))
                  IN  IF req.tools THEN UpToCall(req.prefilled, text) ELSE text

\* What a caller gets is what it would have got of the whole text at once, however the
\* tokens cut it: the tool turn ends with the first complete call, no character is lost or
\* broken by the decoder, and the text ends before the first stop string.  (When one stop
\* string lies strictly inside another, the cuts decide which of the two is seen first, and
\* so how far the text goes.)
AnswerIsTheText ==
    Answered => /\ IsPrefix(sink.filter.out, TextOf(Spoken))
                /\ NoneInside(req.stops) => sink.filter.out = UpToStop(req.stops, TextOf(Spoken))

\* No stop string is in the text a caller gets, for any stop strings and however StopFilter
\* gets the text.
StopsAreCutOut ==
    Answered => \A s \in req.stops : Places(s, sink.filter.out) = {}
=============================================================================
