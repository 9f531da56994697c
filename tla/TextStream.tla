----------------------------- MODULE TextStream -----------------------------
(***************************************************************************)
(* How the pieces a model produces become the text a caller sees: Utf8Stream *)
(* turns bytes into characters, the wrapper in generateConversation() ends *)
(* the turn at the first complete tool call (ToolTurn.h), and StopFilter   *)
(* cuts the text at a stop string.  Each of the three sees the text in     *)
(* pieces and keeps what it cannot decide yet.                             *)
(*                                                                         *)
(* Bytes are "L" and "W", which begin a character of several bytes, "C",   *)
(* which continues one, and any other symbol, a character by itself.       *)
(* <tool_call> is the two symbols "<" ">", </tool_call> is "/" ">"; "{"    *)
(* and "}" bound a JSON object and "q" is a quote.                         *)
(***************************************************************************)
EXTENDS Naturals, Sequences, SequencesExt, FiniteSetsExt

Bad == "U+FFFD"
High == "high surrogate"
Character(lead) == IF lead = "L" THEN <<"LC">> ELSE <<High, "low surrogate">>

\* Utf8Stream, a QStringDecoder: a lead byte waits for the byte that continues it.
Decode1(s, byte) ==
    LET broken == IF s.carry # <<>> THEN <<Bad>> ELSE <<>>
    IN  IF byte = "C"
        THEN [text |-> s.text \o IF s.carry = <<>> THEN <<Bad>> ELSE Character(s.carry[1]),
              carry |-> <<>>]
        ELSE IF byte \in {"L", "W"}
        THEN [text |-> s.text \o broken, carry |-> <<byte>>]
        ELSE [text |-> s.text \o broken \o <<byte>>, carry |-> <<>>]

Utf8(carry, bytes) == FoldLeft(Decode1, [text |-> <<>>, carry |-> carry], bytes)

\* finish()
Utf8Tail(carry) == IF carry = <<>> THEN <<>> ELSE <<Bad>>

-----------------------------------------------------------------------------
Occurs(s, t, i) == i + Len(s) - 1 <= Len(t) /\ SubSeq(t, i, i + Len(s) - 1) = s
Places(s, t) == {i \in DOMAIN t : Occurs(s, t, i)}

OpenTag == <<"<", ">">>
CloseTag == <<"/", ">">>

\* The payload is one JSON object that names a tool.  All that is kept of its arguments is
\* one string, which may hold anything but its own quote.
IsCall(s) ==
    \/ s = <<"{", "}">>
    \/ /\ Len(s) >= 4
       /\ s[1] = "{" /\ s[Len(s)] = "}"
       /\ {i \in DOMAIN s : s[i] = "q"} = {2, Len(s) - 1}

\* completeSingleToolTurn(): how much of the text is the turn, in a set; none if it goes on.
CompleteTurn(prefilled, text) ==
    LET begins == IF prefilled \/ (text # <<>> /\ text[1] = "{") THEN {1}
                  ELSE {i + Len(OpenTag) : i \in Places(OpenTag, text)}
        begin == Min(begins)
        ends == {i \in Places(CloseTag, text) : i >= begin /\ IsCall(SubSeq(text, begin, i - 1))}
    IN  IF begins = {} \/ ends = {} THEN {} ELSE {Min(ends) + Len(CloseTag) - 1}

-----------------------------------------------------------------------------
\* StopFilter: the text it holds back, whether a stop string was met, what it let out.
NewFilter == [pending |-> <<>>, stopped |-> FALSE, out |-> <<>>]

\* Mutant: the longest beginning of a stop string is let out.
HoldTooLittle(stops, text) ==
    Max({0} \cup {n \in DOMAIN text : \E s \in stops : n + 1 < Len(s) /\ IsSuffix(SubSeq(s, 1, n), text)}
            \cup {n \in DOMAIN text : n = 1 /\ text[Len(text)] = High})

\* How much of the text might be the beginning of a stop string, or of a surrogate pair.
HeldBack(stops, text) ==
    Max({0} \cup {n \in DOMAIN text : \E s \in stops : n < Len(s) /\ IsSuffix(SubSeq(s, 1, n), text)}
            \cup {n \in DOMAIN text : n = 1 /\ text[Len(text)] = High})

\* push()
Push(stops, f, text) ==
    LET pending == f.pending \o text
        matches == UNION {Places(s, pending) : s \in stops}
        keep == Len(pending) - HeldBack(stops, pending)
    IN  IF f.stopped THEN f
        ELSE IF matches # {}
        THEN [pending |-> <<>>, stopped |-> TRUE, out |-> f.out \o SubSeq(pending, 1, Min(matches) - 1)]
        ELSE [f EXCEPT !.pending = SubSeq(pending, keep + 1, Len(pending)),
                       !.out = @ \o SubSeq(pending, 1, keep)]

\* finish()
Release(f) == [f EXCEPT !.pending = <<>>, !.out = @ \o f.pending]

-----------------------------------------------------------------------------
\* What a caller gets of a text that arrives in one piece.

WholeText(bytes) == LET d == Utf8(<<>>, bytes) IN d.text \o Utf8Tail(d.carry)

UpToCall(prefilled, text) ==
    LET ends == CompleteTurn(prefilled, text)
    IN  IF ends = {} THEN text ELSE SubSeq(text, 1, Min(ends))

UpToStop(stops, text) ==
    LET matches == UNION {Places(s, text) : s \in stops}
    IN  IF matches = {} THEN text ELSE SubSeq(text, 1, Min(matches) - 1)

\* No stop string has another strictly inside it, that is, one which ends before it does
\* and begins after it.
NoneInside(stops) ==
    \A s, t \in stops : \A i \in Places(t, s) : i = 1 \/ i + Len(t) - 1 = Len(s)
=============================================================================
