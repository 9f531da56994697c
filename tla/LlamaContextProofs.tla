------------------------- MODULE LlamaContextProofs -------------------------
(***************************************************************************)
(* Proofs about LlamaContext.tla, for any requests, pieces, context and    *)
(* batch sizes: the context's account of the native memory is true, every  *)
(* token is sampled from logits of exactly the request's text, and what a  *)
(* caller gets of the answer is what it would have got of the whole of it. *)
(***************************************************************************)
EXTENDS LlamaContext, SequenceTheorems, WellFoundedInduction, TLAPS

-----------------------------------------------------------------------------
(* The inductive invariant.                                                *)

Token == DOMAIN Piece
Tokens == Seq(Token)
Stages == {"rest", "begin", "decode", "decoded", "sample", "tail"}

TypeOK ==
    /\ req \in Requests /\ at \in Stages
    /\ kv \in Tokens /\ logits \in Tokens /\ previous \in Tokens /\ todo \in Tokens /\ batch \in Tokens
    /\ nextPosition \in Nat /\ ok \in BOOLEAN /\ cancelled \in BOOLEAN
    /\ at \in {"begin", "decode", "decoded", "sample"} => answer \in Tokens
    /\ at = "begin" => answer = <<>>

\* The text so far.
Text == req.prompt \o answer

\* The account says all of what the memory holds, except of a prompt with media, of which it
\* keeps the number of positions only.
Exact ==
    /\ nextPosition = Len(kv)
    /\ previous = IF req.media THEN <<>> ELSE kv

\* Before a batch is evaluated: the memory and what is to be done make the text.
Before ==
    at = "decode" => /\ todo # <<>>
                     /\ Exact
                     /\ kv \o todo = Text

\* What is to be done after the batch.
Left == SubSeq(todo, Len(batch) + 1, Len(todo))

\* After it: so do the memory, which has the batch, and what is left, and the account is what
\* decode() will make it.
After ==
    at = "decoded" /\ ok =>
        /\ kv \o Left = Text
        /\ Left = <<>> => logits = kv
        /\ (IF Chunked THEN nextPosition ELSE nextPosition + Len(batch)) = Len(kv)
        /\ IF req.media THEN previous = <<>> ELSE previous \o batch = kv

\* When the model is asked for a token, it was given the text.
Current ==
    at = "sample" => /\ Exact
                     /\ kv = Text
                     /\ logits = kv

IndInv ==
    /\ TypeOK
    /\ AccountIsTrue
    /\ Before
    /\ After
    /\ Current

-----------------------------------------------------------------------------
(* Sequences.                                                              *)

\* The first n elements of a sequence.
LEMMA FirstElements ==
    ASSUME NEW S, NEW s \in Seq(S), NEW n \in 0 .. Len(s)
    PROVE  /\ SubSeq(s, 1, n) \in Seq(S)
           /\ Len(SubSeq(s, 1, n)) = n
           /\ \A i \in 1 .. n : SubSeq(s, 1, n)[i] = s[i]
<1>1. Len(s) \in Nat
  BY LenProperties
<1>2. n \in Int /\ 1 \in Int /\ n - 1 + 1 = n /\ n \in Nat
  BY <1>1
<1>3. \A i \in 1 .. n : s[i] \in S
  BY <1>1, <1>2, ElementOfSeq
<1>4. CASE n = 0
  <2>1. SubSeq(s, 1, n) = <<>>
    BY <1>4, SubSeqEmpty
  <2> QED
    BY <1>4, <2>1, EmptySeq
<1>5. CASE n > 0
  <2>1. /\ SubSeq(s, 1, n) \in Seq(S)
        /\ Len(SubSeq(s, 1, n)) = (IF 1 <= n THEN n - 1 + 1 ELSE 0)
        /\ \A i \in 1 .. n - 1 + 1 : SubSeq(s, 1, n)[i] = s[1 + i - 1]
    BY <1>2, <1>3, SubSeqProperties, Z3
  <2>2. Len(SubSeq(s, 1, n)) = n
    BY <1>2, <1>5, <2>1
  <2>3. ASSUME NEW i \in 1 .. n PROVE SubSeq(s, 1, n)[i] = s[i]
    <3>1. i \in 1 .. n - 1 + 1 /\ 1 + i - 1 = i
      BY <1>2
    <3> QED
      BY <2>1, <3>1
  <2> QED
    BY <2>1, <2>2, <2>3
<1> QED
  BY <1>2, <1>4, <1>5

\* Sequences that agree up to n.
LEMMA SameFirst ==
    ASSUME NEW S, NEW s \in Seq(S), NEW t \in Seq(S), NEW n \in Nat, n <= Len(s), n <= Len(t)
    PROVE  (\A i \in 1 .. n : s[i] = t[i]) <=> SubSeq(s, 1, n) = SubSeq(t, 1, n)
<1> DEFINE a == SubSeq(s, 1, n)
           b == SubSeq(t, 1, n)
<1>1. Len(s) \in Nat /\ Len(t) \in Nat
  BY LenProperties
<1>2. n \in 0 .. Len(s) /\ n \in 0 .. Len(t)
  BY <1>1
<1>3. a \in Seq(S) /\ Len(a) = n /\ \A i \in 1 .. n : a[i] = s[i]
  BY <1>2, FirstElements
<1>4. b \in Seq(S) /\ Len(b) = n /\ \A i \in 1 .. n : b[i] = t[i]
  BY <1>2, FirstElements
<1> HIDE DEF a, b
<1>5. ASSUME \A i \in 1 .. n : s[i] = t[i] PROVE a = b
  BY <1>3, <1>4, <1>5, SeqEqual
<1>6. ASSUME a = b PROVE \A i \in 1 .. n : s[i] = t[i]
  BY <1>3, <1>4, <1>6
<1> QED
  BY <1>5, <1>6 DEF a, b

LEMMA PrefixByElements ==
    ASSUME NEW S, NEW s \in Seq(S), NEW t \in Seq(S)
    PROVE  IsPrefix(s, t) <=> Len(s) <= Len(t) /\ \A i \in 1 .. Len(s) : s[i] = t[i]
<1>1. Len(s) \in Nat /\ Len(s) <= Len(s)
  BY LenProperties
<1>2. ASSUME Len(s) <= Len(t)
      PROVE  (\A i \in 1 .. Len(s) : s[i] = t[i]) <=> SubSeq(s, 1, Len(s)) = SubSeq(t, 1, Len(s))
  BY <1>1, <1>2, SameFirst
<1> QED
  BY <1>2 DEF IsPrefix

\* What a prefix is a prefix of, and what is cut from both.
LEMMA Prefixed ==
    ASSUME NEW S, NEW s \in Seq(S), NEW t \in Seq(S), IsPrefix(s, t)
    PROVE  /\ \A u \in Seq(S) : IsPrefix(s, t \o u)
           /\ \A n \in 0 .. Len(s) : SubSeq(s, 1, n) = SubSeq(t, 1, n) /\ n \in 0 .. Len(t)
<1>1. /\ Len(s) \in Nat /\ Len(t) \in Nat /\ Len(s) <= Len(t)
      /\ \A i \in 1 .. Len(s) : s[i] = t[i]
  BY PrefixByElements, LenProperties
<1>2. ASSUME NEW u \in Seq(S) PROVE IsPrefix(s, t \o u)
  <2> DEFINE v == t \o u
             n == Len(s)
             m == Len(t)
             k == Len(u)
             l == Len(v)
  <2>1. v \in Seq(S) /\ l = m + k /\ k \in Nat
    BY ConcatProperties, LenProperties
  <2>2. \A i \in 1 .. m + k : v[i] = IF i <= m THEN t[i] ELSE u[i - m]
    BY ConcatProperties
  <2>3. n \in Nat /\ m \in Nat /\ n <= m /\ \A i \in 1 .. n : s[i] = t[i]
    BY <1>1
  <2> HIDE DEF v, n, m, k, l
  <2>4. n <= l /\ \A i \in 1 .. n : s[i] = v[i]
    BY <2>1, <2>2, <2>3
  <2>5. Len(s) <= Len(v) /\ \A i \in 1 .. Len(s) : s[i] = v[i]
    BY <2>4 DEF n, l
  <2>6. IsPrefix(s, v)
    BY <2>1, <2>5, PrefixByElements
  <2> QED
    BY <2>6 DEF v
<1>3. ASSUME NEW n \in 0 .. Len(s) PROVE SubSeq(s, 1, n) = SubSeq(t, 1, n) /\ n \in 0 .. Len(t)
  <2>1. n \in Nat /\ n <= Len(s) /\ n <= Len(t) /\ \A i \in 1 .. n : s[i] = t[i]
    BY <1>1
  <2> QED
    BY <2>1, SameFirst
<1> QED
  BY <1>2, <1>3

\* A sequence in two parts.
LEMMA TwoParts ==
    ASSUME NEW S, NEW s \in Seq(S), NEW n \in 0 .. Len(s)
    PROVE  /\ SubSeq(s, 1, n) \o SubSeq(s, n + 1, Len(s)) = s
           /\ SubSeq(s, n + 1, Len(s)) \in Seq(S)
           /\ SubSeq(s, n + 1, Len(s)) = <<>> <=> n = Len(s)
<1>1. Len(s) \in Nat /\ n \in Nat /\ n <= Len(s)
  BY LenProperties
<1>2. SubSeq(s, 1, n) \o SubSeq(s, n + 1, Len(s)) = SubSeq(s, 1, Len(s))
  <2>1. 1 \in 1 .. Len(s) + 1 /\ n \in 1 - 1 .. Len(s) /\ Len(s) \in n .. Len(s)
    BY <1>1
  <2> QED
    BY <2>1, ConcatAdjacentSubSeq
<1>3. SubSeq(s, 1, Len(s)) = s
  BY SubSeqFull
<1>4. n + 1 \in Int /\ Len(s) \in Int /\ \A i \in n + 1 .. Len(s) : s[i] \in S
  BY <1>1, ElementOfSeq
<1>5. /\ SubSeq(s, n + 1, Len(s)) \in Seq(S)
      /\ Len(SubSeq(s, n + 1, Len(s))) = IF n + 1 <= Len(s) THEN Len(s) - (n + 1) + 1 ELSE 0
  BY <1>4, SubSeqProperties, Z3
<1>6. SubSeq(s, n + 1, Len(s)) = <<>> <=> n = Len(s)
  <2> DEFINE t == SubSeq(s, n + 1, Len(s))
             l == Len(s)
             k == Len(t)
  <2>1. t \in Seq(S) /\ k = (IF n + 1 <= l THEN l - (n + 1) + 1 ELSE 0) /\ l \in Nat /\ n \in Nat /\ n <= l
    BY <1>1, <1>5
  <2>2. t = <<>> <=> k = 0
    BY <2>1, EmptySeq
  <2> HIDE DEF t, l, k
  <2>3. k = 0 <=> n = l
    BY <2>1
  <2> QED
    BY <2>2, <2>3 DEF t, l
<1> QED
  BY <1>2, <1>3, <1>5, <1>6

\* The longest common prefix is one.
LEMMA CommonPrefixExists ==
    ASSUME NEW S, NEW s \in Seq(S), NEW t \in Seq(S)
    PROVE  LET p == LongestCommonPrefix({s, t})
           IN p \in Seq(S) /\ IsPrefix(p, s) /\ IsPrefix(p, t)
<1> DEFINE P == CommonPrefixes({s, t})
           T == {n \in 0 .. Len(s) : \E p \in P : n = Len(s) - Len(p)}
           R == OpToRel(<, Nat)
<1>1. \A p \in P : p \in Seq(S) /\ IsPrefix(p, s) /\ IsPrefix(p, t) /\ Len(p) \in 0 .. Len(s)
  <2> SUFFICES ASSUME NEW p \in P
               PROVE  p \in Seq(S) /\ IsPrefix(p, s) /\ IsPrefix(p, t) /\ Len(p) \in 0 .. Len(s)
    OBVIOUS
  <2>1. IsPrefix(p, s) /\ IsPrefix(p, t)
    BY DEF CommonPrefixes
  <2>2. PICK u \in {s, t} : \E n \in 0 .. Len(u) : p = SubSeq(u, 1, n)
    BY DEF CommonPrefixes, Prefixes
  <2>3. PICK n \in 0 .. Len(u) : p = SubSeq(u, 1, n)
    BY <2>2
  <2>4. u \in Seq(S)
    OBVIOUS
  <2>5. p \in Seq(S) /\ Len(p) = n
    BY <2>3, <2>4, FirstElements
  <2>6. Len(p) \in Nat /\ Len(s) \in Nat /\ Len(p) <= Len(s)
    BY <2>1, <2>5, LenProperties, PrefixByElements
  <2> QED
    BY <2>1, <2>5, <2>6
<1>2. T \subseteq Nat /\ T # {}
  <2>1. <<>> \in Seq(S) /\ Len(<<>>) = 0 /\ Len(s) \in Nat /\ Len(t) \in Nat
    BY EmptySeq, LenProperties
  <2>2. IsPrefix(<<>>, s) /\ IsPrefix(<<>>, t)
    <3>1. \A u, v \in Seq(S) : IsPrefix(u, v) <=> Len(u) <= Len(v) /\ \A i \in 1 .. Len(u) : u[i] = v[i]
      BY PrefixByElements, Zenon
    <3> HIDE DEF P, T, R
    <3>2. Len(<<>>) <= Len(s) /\ Len(<<>>) <= Len(t) /\ 1 .. Len(<<>>) = {}
      BY <2>1
    <3> QED
      BY <2>1, <3>1, <3>2, Zenon
  <2>3. SubSeq(s, 1, 0) = <<>> /\ 0 \in 0 .. Len(s)
    BY <2>1, SubSeqEmpty
  <2>4. <<>> \in P
    BY <2>2, <2>3 DEF CommonPrefixes, Prefixes
  <2> HIDE DEF P
  <2>5. Len(s) - Len(<<>>) \in T
    BY <2>1, <2>4
  <2> QED
    BY <2>1, <2>5
<1> HIDE DEF P
<1>3. PICK x \in T : \A y \in T : y >= x
  <2>1. \A x, y \in Nat : y < x => <<y, x>> \in R
    BY DEF OpToRel
  <2>2. IsWellFoundedOn(R, Nat)
    BY NatLessThanWellFounded
  <2> HIDE DEF T, R
  <2>3. PICK x \in T : \A y \in T : ~ (<<y, x>> \in R)
    BY <1>2, <2>2, WFMin
  <2>4. x \in Nat /\ \A y \in T : y \in Nat /\ ~ (y < x)
    BY <1>2, <2>1, <2>3, Zenon
  <2>5. \A y \in T : y >= x
    BY <2>4
  <2> QED
    BY <2>3, <2>5
<1>4. PICK p \in P : x = Len(s) - Len(p)
  BY <1>3
<1>5. \A q \in P : Len(q) <= Len(p)
  <2> TAKE q \in P
  <2>1. Len(q) \in 0 .. Len(s) /\ Len(p) \in 0 .. Len(s) /\ Len(s) \in Nat
    BY <1>1, LenProperties
  <2>2. Len(s) - Len(q) \in T
    BY <2>1
  <2>3. Len(s) - Len(q) >= Len(s) - Len(p)
    BY <1>3, <1>4, <2>2
  <2> QED
    BY <2>1, <2>3
<1>6. LongestCommonPrefix({s, t}) \in P
  BY <1>4, <1>5 DEF LongestCommonPrefix, P
<1> QED
  BY <1>1, <1>6

\* What Begin keeps of the memory is where the prompt begins, and not all of it.
LEMMA Reused ==
    ASSUME NEW old \in Tokens, NEW prompt \in Tokens, prompt # <<>>
    PROVE  LET n == Len(LongestCommonPrefix({old, Front(prompt)}))
           IN /\ n \in Nat /\ n <= Len(old) /\ n < Len(prompt)
              /\ SubSeq(old, 1, n) = SubSeq(prompt, 1, n)
<1> DEFINE front == Front(prompt)
           p == LongestCommonPrefix({old, front})
           n == Len(p)
<1>1. Len(prompt) \in Nat /\ Len(prompt) > 0 /\ Len(prompt) - 1 \in 0 .. Len(prompt) /\ prompt \in Seq(Token)
  BY EmptySeq, LenProperties DEF Tokens
<1>2. /\ front \in Tokens /\ Len(front) = Len(prompt) - 1
      /\ \A i \in 1 .. Len(prompt) - 1 : front[i] = prompt[i]
  BY <1>1, FirstElements DEF Front, Tokens
<1> HIDE DEF front
<1>3. p \in Tokens /\ IsPrefix(p, old) /\ IsPrefix(p, front)
  BY <1>2, CommonPrefixExists DEF Tokens
<1> HIDE DEF p
<1>4. /\ n \in Nat /\ Len(old) \in Nat /\ n <= Len(old) /\ n <= Len(front)
      /\ \A i \in 1 .. n : p[i] = old[i]
      /\ \A i \in 1 .. n : p[i] = front[i]
  BY <1>2, <1>3, PrefixByElements, LenProperties DEF Tokens
<1>5. n < Len(prompt) /\ n <= Len(prompt) /\ \A i \in 1 .. n : old[i] = prompt[i]
  <2> DEFINE l == Len(prompt)
             k == Len(front)
  <2>1. l \in Nat /\ k = l - 1 /\ n \in Nat /\ n <= k
    BY <1>1, <1>2, <1>4
  <2>2. \A i \in 1 .. l - 1 : front[i] = prompt[i]
    BY <1>2
  <2> HIDE DEF l, k, n
  <2>3. n < l /\ n <= l /\ \A i \in 1 .. n : front[i] = prompt[i]
    BY <2>1, <2>2
  <2>4. \A i \in 1 .. n : old[i] = prompt[i]
    BY <1>4, <2>3
  <2> QED
    BY <2>3, <2>4 DEF l
<1>6. SubSeq(old, 1, n) = SubSeq(prompt, 1, n)
  <2> HIDE DEF n
  <2> QED
    BY <1>1, <1>4, <1>5, SameFirst DEF Tokens
<1> QED
  BY <1>4, <1>5, <1>6 DEF p, front

-----------------------------------------------------------------------------
(* The invariant.                                                          *)

LEMMA Asked ==
    /\ \A r \in Requests : /\ r.prompt \in Tokens /\ r.prompt # <<>> /\ r.media \in BOOLEAN
                           /\ r.vocab \subseteq Token
    /\ <<>> \in Tokens /\ Len(<<>>) = 0 /\ IsPrefix(<<>>, <<>>)
    /\ NBatch \in Nat \ {0}
<1>1. <<>> \in Tokens /\ Len(<<>>) = 0
  BY EmptySeq DEF Tokens
<1>2. IsPrefix(<<>>, <<>>)
  BY DEF IsPrefix
<1> QED
  BY <1>1, <1>2, LlamaAssumption DEF Tokens, Token

LEMMA Joined ==
    \A a, b, c \in Tokens : (a \o b) \o c = a \o (b \o c)
  BY ConcatAssociative DEF Tokens

LEMMA InvariantInit ==
    Init => IndInv
<1> SUFFICES ASSUME Init
             PROVE  IndInv
  OBVIOUS
<1>1. /\ kv = <<>> /\ logits = <<>> /\ previous = <<>> /\ nextPosition = 0 /\ req \in Requests
      /\ at = "rest" /\ todo = <<>> /\ batch = <<>> /\ ok = TRUE /\ cancelled = FALSE
  BY DEF Init
<1>2. TypeOK
  BY <1>1, Asked DEF TypeOK, Stages
<1>3. AccountIsTrue
  BY <1>1, Asked, Zenon DEF AccountIsTrue
<1>4. Before /\ After /\ Current
  BY <1>1 DEF Before, After, Current
<1> QED
  BY <1>2, <1>3, <1>4 DEF IndInv

\* Steps that leave the memory and the account alone and evaluate nothing.
LEMMA QuietStep ==
    ASSUME IndInv,
           \/ \E r \in Requests : Generate(r)
           \/ Cancel \/ Fails \/ DecodeFails \/ SampleEog \/ UNCHANGED vars
    PROVE  IndInv'
<1> USE DEF IndInv, TypeOK, Stages
<1>1. UNCHANGED <<kv, logits, previous, nextPosition>>
  BY DEF Generate, Cancel, Fails, DecodeFails, Throw, SampleEog, vars, nativeVars, historyVars
<1>2. AccountIsTrue'
  BY <1>1 DEF AccountIsTrue
<1>3. ASSUME NEW r \in Requests, Generate(r) PROVE IndInv'
  BY <1>1, <1>2, <1>3, Asked DEF Generate, Before, After, Current
<1>4. CASE Cancel
  BY <1>1, <1>2, <1>4 DEF Cancel, Before, After, Current, Exact, Text, Left, Chunked, textVars
<1>5. CASE Fails \/ DecodeFails
  BY <1>1, <1>2, <1>5, Asked DEF Fails, DecodeFails, Throw, Before, After, Current
<1>6. CASE SampleEog
  BY <1>1, <1>2, <1>6 DEF SampleEog, Before, After, Current
<1>7. CASE UNCHANGED vars
  BY <1>1, <1>2, <1>7 DEF vars, Before, After, Current, Exact, Text, Left, Chunked
<1> QED
  BY <1>3, <1>4, <1>5, <1>6, <1>7

LEMMA RecreateStep ==
    ASSUME IndInv, Recreate
    PROVE  IndInv'
<1>1. /\ at = "rest" /\ kv' = <<>> /\ logits' = <<>> /\ previous' = <<>> /\ nextPosition' = 0
      /\ UNCHANGED <<req, at, todo, batch, ok, answer, cancelled>>
  BY DEF Recreate, textVars
<1>2. AccountIsTrue'
  BY <1>1, Asked DEF AccountIsTrue
<1> QED
  BY <1>1, <1>2, Asked DEF IndInv, TypeOK, Stages, Before, After, Current

\* The memory is cut, with the account, to what the prompt shares with it.
LEMMA BeginStep ==
    ASSUME IndInv, Begin
    PROVE  IndInv'
<1> DEFINE prompt == req.prompt
<1> USE DEF IndInv, TypeOK
<1>1. /\ prompt \in Tokens /\ prompt # <<>> /\ req.media \in BOOLEAN /\ Len(prompt) \in Nat /\ Len(prompt) > 0
      /\ Len(previous) \in Nat /\ Len(kv) \in Nat /\ IsPrefix(previous, kv)
  BY Asked, LenProperties, EmptySeq DEF Tokens, AccountIsTrue
<1>2. PICK n \in {Reuse, 0} :
          /\ kv' = SubSeq(kv, 1, n)
          /\ previous' = SubSeq(previous, 1, n)
          /\ nextPosition' = n
          /\ todo' = SubSeq(prompt, n + 1, Len(prompt))
  BY DEF Begin
<1>3. /\ at' = IF todo' = <<>> THEN "sample" ELSE "decode"
      /\ at = "begin" /\ UNCHANGED <<logits, req, batch, ok, answer, cancelled>>
  BY DEF Begin, textVars
<1>4. /\ n \in Nat /\ n <= Len(previous) /\ n < Len(prompt) /\ SubSeq(previous, 1, n) = SubSeq(prompt, 1, n)
      /\ req.media => n = 0
  <2>1. /\ SubSeq(previous, 1, 0) = <<>> /\ SubSeq(prompt, 1, 0) = <<>>
    BY SubSeqEmpty
  <2>2. CASE n = 0
    BY <1>1, <2>1, <2>2
  <2>3. CASE n = Reuse /\ ~req.media
    <3>1. n = Len(LongestCommonPrefix({previous, Front(prompt)}))
      BY <2>3 DEF Reuse
    <3> HIDE DEF prompt
    <3> QED
      BY <1>1, <2>3, <3>1, Reused
  <2>4. CASE n = Reuse /\ req.media
    BY <2>2, <2>4 DEF Reuse
  <2> QED
    BY <1>1, <1>2, <2>2, <2>3, <2>4
<1>5. n \in 0 .. Len(previous) /\ n \in 0 .. Len(prompt) /\ n # Len(prompt)
  BY <1>1, <1>4
<1> HIDE DEF prompt
<1>6. SubSeq(kv, 1, n) = SubSeq(previous, 1, n) /\ n \in 0 .. Len(kv)
  BY <1>1, <1>5, Prefixed DEF Tokens
<1>7. kv' \in Tokens /\ Len(kv') = n /\ kv' = previous' /\ kv' = SubSeq(prompt, 1, n)
  BY <1>2, <1>4, <1>6, FirstElements DEF Tokens
<1>8. todo' \in Tokens /\ kv' \o todo' = prompt /\ todo' # <<>>
  BY <1>1, <1>2, <1>5, <1>7, TwoParts DEF Tokens
<1>9. answer = <<>> /\ prompt \o <<>> = prompt
  BY <1>1, <1>3, ConcatEmptySeq DEF Tokens
<1>10. AccountIsTrue'
  <2>1. Len(kv') <= Len(kv')
    BY <1>4, <1>7
  <2> QED
    BY <1>7, <2>1 DEF AccountIsTrue, IsPrefix
<1>11. Exact'
  <2>1. req.media => previous' = <<>>
    BY <1>4, <1>7, EmptySeq DEF Tokens
  <2> QED
    BY <1>2, <1>3, <1>7, <2>1 DEF Exact
<1>12. Before'
  BY <1>3, <1>8, <1>9, <1>11 DEF Before, Text, prompt
<1>13. TypeOK' /\ After' /\ Current'
  BY <1>2, <1>3, <1>4, <1>7, <1>8 DEF After, Current, Stages
<1> QED
  BY <1>10, <1>12, <1>13

\* A batch is evaluated, or a part of it.
LEMMA DecodeStep ==
    ASSUME IndInv, Decode
    PROVE  IndInv'
<1> DEFINE count == IF req.media THEN 1 ELSE Min({NBatch, Len(todo)})
           given == SubSeq(todo, 1, count)
           left == SubSeq(todo, count + 1, Len(todo))
           evaluated == kv \o given
<1> USE DEF IndInv, TypeOK
<1>1. /\ at = "decode" /\ batch' = given /\ at' = "decoded"
      /\ UNCHANGED <<previous, req, todo, answer, cancelled>>
      /\ \/ /\ ok' = TRUE
            /\ nextPosition = Len(kv)
            /\ kv' = evaluated
            /\ logits' = IF Chunked /\ Len(todo) > 1 THEN logits ELSE evaluated
            /\ nextPosition' = IF Chunked THEN Len(evaluated) ELSE nextPosition
         \/ /\ ok' = FALSE
            /\ \E n \in 0 .. count : kv' = kv \o SubSeq(given, 1, n)
            /\ logits' \in {logits, <<>>}
            /\ UNCHANGED nextPosition
  BY DEF Decode, textVars
<1>2. todo # <<>> /\ Exact /\ kv \o todo = Text
  BY <1>1 DEF Before
<1>3. Len(todo) \in Nat /\ Len(todo) > 0 /\ Len(kv) \in Nat
  BY <1>2, EmptySeq, LenProperties DEF Tokens
<1>4. count \in 1 .. Len(todo) /\ count \in 0 .. Len(todo) /\ (req.media => count = 1)
  <2>1. NBatch \in Nat /\ NBatch > 0
    BY Asked
  <2>2. \A a, b \in Nat : Min({a, b}) = IF a <= b THEN a ELSE b
    <3> SUFFICES ASSUME NEW a \in Nat, NEW b \in Nat
                 PROVE  Min({a, b}) = IF a <= b THEN a ELSE b
      OBVIOUS
    <3>1. \A x \in {a, b} : (\A y \in {a, b} : x <= y) => x = IF a <= b THEN a ELSE b
      OBVIOUS
    <3>2. \E x \in {a, b} : \A y \in {a, b} : x <= y
      OBVIOUS
    <3> QED
      BY <3>1, <3>2 DEF Min
  <2>3. Min({NBatch, Len(todo)}) = IF NBatch <= Len(todo) THEN NBatch ELSE Len(todo)
    BY <1>3, <2>1, <2>2
  <2> QED
    BY <1>3, <2>1, <2>3
<1> HIDE DEF count
<1>5. /\ given \in Tokens /\ left \in Tokens /\ Len(given) = count
      /\ given \o left = todo /\ (left = <<>> <=> count = Len(todo))
  <2>1. given \in Tokens /\ Len(given) = count
    BY <1>4, FirstElements DEF Tokens
  <2>2. /\ given \o left = todo /\ left \in Tokens
        /\ left = <<>> <=> count = Len(todo)
    BY <1>4, TwoParts DEF Tokens
  <2> QED
    BY <2>1, <2>2
<1> HIDE DEF given, left
<1>6. evaluated \in Tokens /\ Len(evaluated) = Len(kv) + count /\ evaluated \o left = Text
  <2>1. kv \o given \in Tokens /\ Len(kv \o given) = Len(kv) + Len(given)
    BY <1>5, ConcatProperties DEF Tokens
  <2>2. (kv \o given) \o left = kv \o (given \o left)
    <3>1. kv \in Tokens /\ given \in Tokens /\ left \in Tokens
      BY <1>5
    <3> HIDE DEF IndInv, TypeOK
    <3> QED
      BY <3>1, Joined
  <2>3. kv \o (given \o left) = Text
    BY <1>2, <1>5
  <2> QED
    BY <1>5, <2>1, <2>2, <2>3
<1>7. ASSUME NEW s \in Tokens, kv' = kv \o s
      PROVE  kv' \in Tokens /\ AccountIsTrue'
  <2>1. kv \o s \in Tokens
    BY <1>7, ConcatProperties DEF Tokens
  <2>2. IsPrefix(previous, kv \o s)
    BY <1>7, Prefixed DEF AccountIsTrue, Tokens
  <2> QED
    BY <1>1, <1>7, <2>1, <2>2 DEF AccountIsTrue
<1>8. Text' = Text /\ Left' = left /\ Chunked' = Chunked
  BY <1>1, <1>5 DEF Text, Left, Chunked, left
<1>9. CASE /\ ok' = TRUE
           /\ kv' = evaluated
           /\ logits' = IF Chunked /\ Len(todo) > 1 THEN logits ELSE evaluated
           /\ nextPosition' = IF Chunked THEN Len(evaluated) ELSE nextPosition
  <2>1. kv' \in Tokens /\ AccountIsTrue'
    BY <1>5, <1>7, <1>9
  <2>2. Left' = <<>> => logits' = kv'
    <3>1. ASSUME left = <<>>, Chunked, Len(todo) > 1 PROVE FALSE
      BY <1>3, <1>4, <1>5, <3>1 DEF Chunked
    <3> QED
      BY <1>8, <1>9, <3>1
  <2>3. (IF Chunked' THEN nextPosition' ELSE nextPosition' + Len(batch')) = Len(kv')
    BY <1>1, <1>2, <1>3, <1>5, <1>6, <1>8, <1>9 DEF Exact
  <2>4. IF req'.media THEN previous' = <<>> ELSE previous' \o batch' = kv'
    BY <1>1, <1>2, <1>9 DEF Exact
  <2>5. kv' \o Left' = Text'
    BY <1>6, <1>8, <1>9
  <2>6. After'
    BY <2>2, <2>3, <2>4, <2>5 DEF After
  <2>7. nextPosition' \in Nat /\ logits' \in Tokens
    BY <1>3, <1>4, <1>6, <1>9
  <2> QED
    BY <1>1, <1>5, <1>9, <2>1, <2>6, <2>7 DEF Before, Current, Stages
<1>10. CASE /\ ok' = FALSE
            /\ \E n \in 0 .. count : kv' = kv \o SubSeq(given, 1, n)
            /\ logits' \in {logits, <<>>}
            /\ UNCHANGED nextPosition
  <2>1. PICK n \in 0 .. count : kv' = kv \o SubSeq(given, 1, n)
    BY <1>10
  <2>2. SubSeq(given, 1, n) \in Tokens
    BY <1>5, FirstElements DEF Tokens
  <2>3. kv' \in Tokens /\ AccountIsTrue'
    BY <1>7, <2>1, <2>2
  <2> QED
    BY <1>1, <1>5, <1>10, <2>3, Asked DEF Before, After, Current, Stages
<1> QED
  BY <1>1, <1>9, <1>10

\* decode() keeps the account.
LEMMA AccountStep ==
    ASSUME IndInv, Account
    PROVE  IndInv'
<1> USE DEF IndInv, TypeOK
<1>1. /\ at = "decoded" /\ ok
      /\ previous' = (IF req.media THEN previous ELSE previous \o batch)
      /\ nextPosition' = (IF Chunked THEN nextPosition ELSE nextPosition + Len(batch))
      /\ todo' = Left
      /\ at' = (IF todo' = <<>> THEN "sample" ELSE "decode")
      /\ batch' = <<>> /\ ok' = TRUE
      /\ UNCHANGED <<kv, logits, req, answer, cancelled>>
  BY DEF Account, Left, nativeVars, textVars
<1>2. /\ kv \o Left = Text
      /\ Left = <<>> => logits = kv
      /\ (IF Chunked THEN nextPosition ELSE nextPosition + Len(batch)) = Len(kv)
      /\ IF req.media THEN previous = <<>> ELSE previous \o batch = kv
  BY <1>1 DEF After
<1>3. Len(kv) \in Nat /\ kv \o <<>> = kv
  BY LenProperties, ConcatEmptySeq DEF Tokens
<1>4. Exact' /\ previous' \in Tokens /\ nextPosition' \in Nat
  BY <1>1, <1>2, <1>3, Asked DEF Exact
<1>5. AccountIsTrue'
  <2>1. CASE req.media
    <3>1. IsPrefix(<<>>, kv)
      <4>1. SubSeq(kv, 1, 0) = <<>> /\ SubSeq(<<>>, 1, 0) = <<>>
        BY SubSeqEmpty
      <4> QED
        BY <1>3, <4>1, Asked DEF IsPrefix
    <3> QED
      BY <1>1, <1>2, <2>1, <3>1 DEF AccountIsTrue
  <2>2. CASE ~req.media
    <3>1. Len(kv) <= Len(kv)
      BY <1>3
    <3> QED
      BY <1>1, <1>2, <2>2, <3>1 DEF AccountIsTrue, IsPrefix
  <2> QED
    BY <2>1, <2>2
<1>6. Left \in Tokens
  <2>1. Len(todo) \in Int /\ Len(batch) + 1 \in Int /\ \A i \in Len(batch) + 1 .. Len(todo) : todo[i] \in Token
    <3> DEFINE n == Len(batch)
               m == Len(todo)
    <3>1. n \in Nat /\ m \in Nat /\ \A i \in 1 .. m : todo[i] \in Token
      BY LenProperties, ElementOfSeq DEF Tokens
    <3> HIDE DEF n, m
    <3>2. m \in Int /\ n + 1 \in Int /\ \A i \in n + 1 .. m : todo[i] \in Token
      BY <3>1
    <3> QED
      BY <3>2 DEF n, m
  <2> QED
    BY <2>1, SubSeqProperties, Z3 DEF Left, Tokens
<1>7. Text' = Text
  BY <1>1 DEF Text
<1>8. Before'
  BY <1>1, <1>2, <1>4, <1>7 DEF Before
<1>9. Current'
  BY <1>1, <1>2, <1>3, <1>4, <1>7 DEF Current
<1>10. TypeOK' /\ After'
  BY <1>1, <1>4, <1>6, Asked DEF After, Stages
<1> QED
  BY <1>5, <1>8, <1>9, <1>10

\* A token is sampled, and may have to be evaluated.
LEMMA SampleStep ==
    ASSUME IndInv, NEW t \in req.vocab, Sample(t)
    PROVE  IndInv'
<1> USE DEF IndInv, TypeOK
<1>1. /\ at = "sample" /\ answer' = Append(answer, t)
      /\ \/ at' = "decode" /\ todo' = <<t>>
         \/ at' = "tail" /\ todo' = <<>>
      /\ UNCHANGED <<kv, logits, previous, nextPosition, req, batch, ok, cancelled>>
  BY DEF Sample, nativeVars, historyVars
<1>2. t \in Token /\ req.prompt \in Tokens
  BY Asked
<1>3. Exact /\ kv = Text /\ answer \in Tokens
  BY <1>1 DEF Current
<1>4. AccountIsTrue'
  BY <1>1 DEF AccountIsTrue
<1>5. answer' \in Tokens /\ answer' = answer \o <<t>> /\ <<t>> \in Tokens /\ <<t>> # <<>>
  BY <1>1, <1>2, <1>3, AppendProperties, AppendIsConcat DEF Tokens
<1>6. kv \o <<t>> = Text'
  <2>1. (req.prompt \o answer) \o <<t>> = req.prompt \o (answer \o <<t>>)
    <3> DEFINE prompt == req.prompt
               last == <<t>>
    <3>1. prompt \in Tokens /\ answer \in Tokens /\ last \in Tokens
      BY <1>2, <1>3, <1>5
    <3> HIDE DEF prompt, last, IndInv, TypeOK
    <3>2. (prompt \o answer) \o last = prompt \o (answer \o last)
      BY <3>1, Joined
    <3> QED
      BY <3>2 DEF prompt, last
  <2> QED
    BY <1>1, <1>3, <1>5, <2>1 DEF Text
<1>7. Before'
  BY <1>1, <1>3, <1>5, <1>6 DEF Before, Exact
<1>8. TypeOK' /\ After' /\ Current'
  BY <1>1, <1>5, Asked DEF After, Current, Stages
<1> QED
  BY <1>4, <1>7, <1>8

LEMMA EndOfTextStep ==
    ASSUME IndInv, EndOfText
    PROVE  IndInv'
<1> USE DEF IndInv, TypeOK
<1>1. /\ at' = "rest" /\ previous' = (IF req.media THEN <<>> ELSE previous)
      /\ UNCHANGED <<kv, logits, nextPosition, req, todo, batch, ok, answer, cancelled>>
  BY DEF EndOfText
<1>2. AccountIsTrue'
  <2>1. IsPrefix(<<>>, kv)
    <3>1. SubSeq(kv, 1, 0) = <<>> /\ SubSeq(<<>>, 1, 0) = <<>> /\ Len(kv) \in Nat
      BY SubSeqEmpty, LenProperties DEF Tokens
    <3> QED
      BY <3>1, Asked DEF IsPrefix
  <2> QED
    BY <1>1, <2>1 DEF AccountIsTrue
<1> QED
  BY <1>1, <1>2, Asked DEF Before, After, Current, Stages

\* What the memory, the account and what is to be done have to do with the request's text, in
\* every state.
THEOREM ContextInvariant ==
    Spec => []IndInv
<1>1. ASSUME IndInv, [Next]_vars PROVE IndInv'
  BY <1>1, QuietStep, RecreateStep, BeginStep, DecodeStep, AccountStep, SampleStep, EndOfTextStep DEF Next
<1> QED
  BY <1>1, InvariantInit, PTL DEF Spec

\* The types of the context's state.
THEOREM ContextTypes ==
    Spec => []TypeOK
<1>1. IndInv => TypeOK
  BY DEF IndInv
<1> QED
  BY <1>1, ContextInvariant, PTL

\* generateImpl()'s account: previous_ never claims a token that the memory does not hold
\* there, whatever failed or was cancelled.
THEOREM AccountHolds ==
    Spec => []AccountIsTrue
<1>1. IndInv => AccountIsTrue
  BY DEF IndInv
<1> QED
  BY <1>1, ContextInvariant, PTL

\* Every token is sampled from logits of exactly the prompt and the answer so far: reuse
\* changes what is computed and never the result.
THEOREM LogitsHold ==
    Spec => []LogitsAreCurrent
<1>1. IndInv => LogitsAreCurrent
  BY DEF IndInv, Current, Text, LogitsAreCurrent
<1> QED
  BY <1>1, ContextInvariant, PTL

-----------------------------------------------------------------------------
(* Stop strings: the invariant.  Places are told by their symbols.         *)

\* The symbols of bytes and texts: strings.  That the literals are strings, which the provers
\* do not know, is said here.
Char == STRING \cup {Bad, High, "LC", "low surrogate"}
Chars == Seq(Char)

\* s is at place i of t.
Stands(s, t, i) == i + Len(s) - 1 <= Len(t) /\ \A j \in 1 .. Len(s) : t[i + j - 1] = s[j]

\* t ends with the first n symbols of s.
EndsWith(t, s, n) == \A j \in 1 .. n : t[Len(t) - n + j] = s[j]

NoStop(stops, t) == \A s \in stops : \A i \in 1 .. Len(t) : ~Stands(s, t, i)

\* A stop string that may have begun in t has begun in its last k symbols.
Held(stops, t, k) ==
    \A s \in stops : \A n \in 1 .. Len(t) : n < Len(s) /\ EndsWith(t, s, n) => n <= k

Filters == [pending : Chars, stopped : BOOLEAN, out : Chars]

\* No stop string is in what was let out and what is held back together, and what was let
\* out ends with no beginning of one.
FilterRules(stops, f) ==
    /\ f \in Filters
    /\ NoStop(stops, f.out \o f.pending)
    /\ f.stopped => f.pending = <<>>
    /\ ~f.stopped => Held(stops, f.out \o f.pending, Len(f.pending))

SinkRules(stops, s) ==
    /\ s \in [carry : Chars, generated : Chars, delivered : Nat, yielded : BOOLEAN, filter : Filters]
    /\ FilterRules(stops, s.filter)

StopRules ==
    /\ at # "rest" => SinkRules(req.stops, sink)
    /\ StopsAreCutOut

-----------------------------------------------------------------------------
(* Stop strings: places, beginnings and extrema.                           *)

LEMMA Placed ==
    ASSUME NEW s \in Chars, NEW t \in Chars, s # <<>>
    PROVE  Places(s, t) = {i \in 1 .. Len(t) : Stands(s, t, i)}
<1>1. Len(s) \in Nat /\ Len(s) > 0 /\ Len(t) \in Nat /\ DOMAIN t = 1 .. Len(t)
  BY EmptySeq, LenProperties DEF Chars
<1>2. ASSUME NEW i \in 1 .. Len(t) PROVE Occurs(s, t, i) <=> Stands(s, t, i)
  <2> DEFINE n == i + Len(s) - 1
             u == SubSeq(t, i, n)
  <2>1. CASE ~(n <= Len(t))
    BY <2>1 DEF Occurs, Stands
  <2>2. CASE n <= Len(t)
    <3>1. i \in Int /\ n \in Int /\ i <= n /\ n - i + 1 = Len(s) /\ \A j \in i .. n : j \in 1 .. Len(t)
      BY <1>1, <2>2
    <3>2. \A j \in i .. n : t[j] \in Char
      BY <3>1, ElementOfSeq DEF Chars
    <3> HIDE DEF n
    <3>3. u \in Chars /\ Len(u) = n - i + 1 /\ \A j \in 1 .. n - i + 1 : u[j] = t[i + j - 1]
      BY <3>1, <3>2, SubSeqProperties, Z3 DEF Chars
    <3>4. u \in Chars /\ Len(u) = Len(s) /\ \A j \in 1 .. Len(s) : u[j] = t[i + j - 1]
      BY <3>1, <3>3
    <3> HIDE DEF u
    <3>5. u = s <=> \A j \in 1 .. Len(s) : u[j] = s[j]
      BY <3>4, SeqEqual DEF Chars
    <3>6. u = s <=> \A j \in 1 .. Len(s) : t[i + j - 1] = s[j]
      BY <3>4, <3>5
    <3> QED
      BY <2>2, <3>6 DEF Occurs, Stands, u, n
  <2> QED
    BY <2>1, <2>2
<1> QED
  BY <1>1, <1>2 DEF Places

\* What IsSuffix says by reversing.
LEMMA Suffixed ==
    ASSUME NEW s \in Chars, NEW t \in Chars, NEW n \in 1 .. Len(t), n < Len(s), EndsWith(t, s, n)
    PROVE  IsSuffix(SubSeq(s, 1, n), t)
<1> DEFINE u == SubSeq(s, 1, n)
           a == Reverse(u)
           b == Reverse(t)
<1>1. Len(s) \in Nat /\ Len(t) \in Nat /\ n \in Nat /\ n >= 1 /\ n <= Len(t) /\ n \in 0 .. Len(s)
  BY LenProperties DEF Chars
<1>2. u \in Chars /\ Len(u) = n /\ \A i \in 1 .. n : u[i] = s[i]
  BY <1>1, FirstElements DEF Chars
<1> HIDE DEF u
<1>3. a \in Chars /\ Len(a) = n /\ \A i \in 1 .. n : a[i] = u[n - i + 1]
  <2>1. \A i \in 1 .. n : n - i + 1 \in 1 .. Len(u)
    BY <1>1, <1>2
  <2>2. a = [i \in 1 .. n |-> u[n - i + 1]]
    BY <1>2 DEF Reverse
  <2>3. \A i \in 1 .. n : u[n - i + 1] \in Char
    BY <1>2, <2>1, ElementOfSeq DEF Chars
  <2> HIDE DEF a
  <2>4. a \in Chars
    BY <1>1, <2>2, <2>3, IsASeq DEF Chars
  <2> QED
    BY <1>1, <2>2, <2>4, LenProperties DEF Chars
<1>4. b \in Chars /\ Len(b) = Len(t) /\ \A i \in 1 .. Len(t) : b[i] = t[Len(t) - i + 1]
  <2> DEFINE m == Len(t)
  <2>1. \A i \in 1 .. m : m - i + 1 \in 1 .. Len(t)
    BY <1>1
  <2>2. b = [i \in 1 .. m |-> t[m - i + 1]]
    BY DEF Reverse
  <2>3. \A i \in 1 .. m : t[m - i + 1] \in Char
    BY <2>1, ElementOfSeq DEF Chars
  <2>4. m \in Nat
    BY <1>1
  <2> HIDE DEF b, m
  <2>5. b \in Chars
    BY <2>2, <2>3, <2>4, IsASeq DEF Chars
  <2>6. Len(b) = m /\ \A i \in 1 .. m : b[i] = t[m - i + 1]
    BY <2>2, <2>4, <2>5, LenProperties DEF Chars
  <2> QED
    BY <2>5, <2>6 DEF m
<1>5. ASSUME NEW i \in 1 .. n PROVE a[i] = b[i]
  <2> DEFINE m == Len(t)
             j == n - i + 1
  <2>1. j \in 1 .. n /\ i \in 1 .. m /\ m - n + j = m - i + 1
    BY <1>1
  <2>2. a[i] = s[j] /\ b[i] = t[m - i + 1]
    BY <1>2, <1>3, <1>4, <2>1
  <2>3. t[m - n + j] = s[j]
    BY <2>1 DEF EndsWith
  <2> QED
    BY <2>1, <2>2, <2>3
<1> HIDE DEF a, b
<1>6. IsPrefix(a, b)
  BY <1>1, <1>3, <1>4, <1>5, PrefixByElements DEF Chars
<1> QED
  BY <1>6 DEF IsSuffix, a, b, u

LEMMA Minimum ==
    ASSUME NEW S \in SUBSET Nat, S # {}
    PROVE  Min(S) \in S /\ \A y \in S : Min(S) <= y
<1>1. PICK x \in S : \A y \in S : ~(<<y, x>> \in OpToRel(<, Nat))
  BY NatLessThanWellFounded, WFMin, Zenon
<1>2. \A y \in S : y < x => <<y, x>> \in OpToRel(<, Nat)
  BY DEF OpToRel
<1>3. \A y \in S : ~(y < x)
  BY <1>1, <1>2, Zenon
<1>4. \A y \in S : x <= y
  BY <1>3
<1> QED
  BY <1>4 DEF Min

LEMMA Maximum ==
    ASSUME NEW k \in Nat, NEW S \in SUBSET (0 .. k), S # {}
    PROVE  Max(S) \in S /\ \A y \in S : y <= Max(S)
<1> DEFINE T == {k - x : x \in S}
<1>1. T \in SUBSET Nat /\ T # {}
  <2>1. \A x \in S : k - x \in Nat
    OBVIOUS
  <2>2. \A y \in T : y \in Nat
    BY <2>1, Zenon
  <2>3. T # {}
    OBVIOUS
  <2> HIDE DEF T
  <2> QED
    BY <2>2, <2>3
<1>2. \A y \in S : k - y \in T
  OBVIOUS
<1>3. \A m \in T : k - m \in S /\ m \in Nat
  OBVIOUS
<1> HIDE DEF T
<1>4. Min(T) \in T /\ \A y \in T : Min(T) <= y
  BY <1>1, Minimum
<1>5. PICK x \in S : x = k - Min(T)
  BY <1>3, <1>4
<1>6. \A y \in S : x >= y
  BY <1>2, <1>3, <1>4, <1>5
<1>7. Max(S) \in S /\ \A y \in S : Max(S) >= y
  BY <1>6 DEF Max
<1> QED
  BY <1>7

\* push() holds back enough.
LEMMA HeldBackEnough ==
    ASSUME NEW stops \in SUBSET Chars, NEW t \in Chars
    PROVE  HeldBack(stops, t) \in 0 .. Len(t) /\ Held(stops, t, HeldBack(stops, t))
<1> DEFINE A == {n \in DOMAIN t : \E s \in stops : n < Len(s) /\ IsSuffix(SubSeq(s, 1, n), t)}
           B == {n \in DOMAIN t : n = 1 /\ t[Len(t)] = High}
           S == {0} \cup A \cup B
<1>1. Len(t) \in Nat /\ DOMAIN t = 1 .. Len(t)
  BY LenProperties DEF Chars
<1>2. S \in SUBSET (0 .. Len(t)) /\ S # {} /\ A \subseteq S
  BY <1>1
<1>3. HeldBack(stops, t) = Max(S)
  BY DEF HeldBack
<1> HIDE DEF S
<1>4. Max(S) \in S /\ \A y \in S : y <= Max(S)
  BY <1>1, <1>2, Maximum
<1>5. ASSUME NEW s \in stops, NEW n \in 1 .. Len(t), n < Len(s), EndsWith(t, s, n)
      PROVE  n \in A
  BY <1>1, <1>5, Suffixed
<1> HIDE DEF A
<1> QED
  BY <1>2, <1>3, <1>4, <1>5 DEF Held

-----------------------------------------------------------------------------
(* Stop strings: the filter.                                               *)

\* What was let out, what is held back and what comes, told by their symbols.
Joints(o, p, x) ==
    /\ o \o p \in Chars /\ p \o x \in Chars /\ o \o (p \o x) \in Chars
    /\ o \o (p \o x) = (o \o p) \o x
    /\ Len(o) \in Nat /\ Len(p) \in Nat /\ Len(x) \in Nat
    /\ Len(o \o p) = Len(o) + Len(p)
    /\ Len(p \o x) = Len(p) + Len(x)
    /\ Len(o \o (p \o x)) = Len(o) + Len(p) + Len(x)
    /\ \A i \in 1 .. Len(o) + Len(p) : (o \o (p \o x))[i] = (o \o p)[i]
    /\ \A i \in 1 .. Len(p) + Len(x) : (o \o (p \o x))[Len(o) + i] = (p \o x)[i]

LEMMA Threefold ==
    ASSUME NEW o \in Chars, NEW p \in Chars, NEW x \in Chars
    PROVE  Joints(o, p, x)
<1> DEFINE a == Len(o)
           b == Len(p)
           c == Len(x)
           op == o \o p
           px == p \o x
           w == o \o px
<1>1. a \in Nat /\ b \in Nat /\ c \in Nat
  BY LenProperties DEF Chars
<1>2. op \in Chars /\ Len(op) = a + b
  BY ConcatProperties DEF Chars
<1>3. px \in Chars /\ Len(px) = b + c
  BY ConcatProperties DEF Chars
<1>4. w = op \o x
  BY ConcatAssociative DEF Chars
<1> HIDE DEF op, px
<1>5. w \in Chars /\ Len(w) = Len(o) + Len(px)
      /\ \A i \in 1 .. Len(o) + Len(px) : w[i] = IF i <= Len(o) THEN o[i] ELSE px[i - Len(o)]
  <2>1. w \in Chars
    BY <1>3, ConcatProperties DEF Chars
  <2>2. Len(w) = Len(o) + Len(px)
    BY <1>3, ConcatProperties DEF Chars
  <2>3. \A i \in 1 .. Len(o) + Len(px) : w[i] = IF i <= Len(o) THEN o[i] ELSE px[i - Len(o)]
    BY <1>3, ConcatProperties DEF Chars
  <2> QED
    BY <2>1, <2>2, <2>3
<1>6. \A i \in 1 .. Len(op) + Len(x) : w[i] = IF i <= Len(op) THEN op[i] ELSE x[i - Len(op)]
  BY <1>2, <1>4, ConcatProperties DEF Chars
<1> HIDE DEF w, a, b, c
<1>7. Len(w) = a + b + c
  BY <1>1, <1>3, <1>5 DEF a, b, c
<1>8. \A i \in 1 .. a + b : w[i] = op[i]
  <2>1. \A i \in 1 .. a + b + c : w[i] = IF i <= a + b THEN op[i] ELSE x[i - Len(op)]
    BY <1>2, <1>6 DEF c
  <2> QED
    BY <1>1, <2>1
<1>9. \A i \in 1 .. b + c : w[a + i] = px[i]
  <2>1. \A i \in 1 .. a + b + c : w[i] = IF i <= a THEN o[i] ELSE px[i - a]
    BY <1>1, <1>3, <1>5, <1>7 DEF a
  <2>2. \A i \in 1 .. b + c : a + i \in 1 .. a + b + c /\ ~(a + i <= a) /\ (a + i) - a = i
    BY <1>1
  <2> QED
    BY <2>1, <2>2
<1> QED
  BY <1>1, <1>2, <1>3, <1>4, <1>5, <1>7, <1>8, <1>9, Zenon DEF Joints, w, op, px, a, b, c

\* A stop string can only begin in what is held back or comes.
LEMMA BeginsLate ==
    ASSUME NEW stops \in SUBSET Chars, NEW o \in Chars, NEW p \in Chars, NEW x \in Chars,
           NoStop(stops, o \o p), Held(stops, o \o p, Len(p)),
           NEW s \in stops, s # <<>>, NEW i \in 1 .. Len(o \o (p \o x)), Stands(s, o \o (p \o x), i)
    PROVE  /\ i > Len(o) /\ i - Len(o) \in 1 .. Len(p \o x)
           /\ Stands(s, p \o x, i - Len(o))
<1> DEFINE a == Len(o)
           b == Len(p)
           c == Len(x)
           m == Len(s)
           op == o \o p
           px == p \o x
           w == o \o px
<1>1. /\ a \in Nat /\ b \in Nat /\ c \in Nat
      /\ Len(op) = a + b /\ Len(px) = b + c /\ Len(w) = a + b + c
      /\ \A j \in 1 .. a + b : w[j] = op[j]
      /\ \A j \in 1 .. b + c : w[a + j] = px[j]
  <2>1. Joints(o, p, x)
    BY Threefold, Zenon
  <2> QED
    BY <2>1, Zenon DEF Joints
<1>2. m \in Nat /\ m > 0
  BY EmptySeq, LenProperties DEF Chars
<1>3. i \in 1 .. Len(w) /\ i + m - 1 <= Len(w) /\ \A j \in 1 .. m : w[i + j - 1] = s[j]
  BY DEF Stands
<1>4. \A j \in 1 .. Len(op) : ~Stands(s, op, j)
  BY DEF NoStop
<1>5. \A n \in 1 .. Len(op) : n < m /\ EndsWith(op, s, n) => n <= b
  BY DEF Held
<1> HIDE DEF a, b, c, m, op, px, w
<1>6. i > a
  <2> SUFFICES ASSUME i <= a PROVE FALSE
    BY <1>1, <1>3
  <2>1. CASE i + m - 1 <= a + b
    <3>1. i \in 1 .. Len(op) /\ i + m - 1 <= Len(op)
      BY <1>1, <1>3, <2>1
    <3>2. \A j \in 1 .. m : i + j - 1 \in 1 .. a + b
      BY <1>1, <1>2, <1>3, <2>1
    <3>3. \A j \in 1 .. m : op[i + j - 1] = s[j]
      BY <1>1, <1>3, <3>2
    <3> QED
      BY <1>4, <3>1, <3>3 DEF Stands, m
  <2>2. CASE i + m - 1 > a + b
    <3> DEFINE n == a + b - i + 1
    <3>1. n \in 1 .. Len(op) /\ n < m /\ n > b /\ n \in Nat
      BY <1>1, <1>2, <1>3, <2>2
    <3>2. \A j \in 1 .. n : j \in 1 .. m /\ Len(op) - n + j = i + j - 1 /\ i + j - 1 \in 1 .. a + b
      BY <1>1, <1>2, <1>3, <3>1
    <3>3. \A j \in 1 .. n : op[Len(op) - n + j] = s[j]
      BY <1>1, <1>3, <3>2
    <3> HIDE DEF n
    <3>4. n <= b
      BY <1>5, <3>1, <3>3 DEF EndsWith
    <3> QED
      BY <1>1, <3>1, <3>4
  <2> QED
    BY <1>1, <1>2, <1>3, <2>1, <2>2
<1>7. i - a \in 1 .. Len(px) /\ (i - a) + m - 1 <= Len(px)
  BY <1>1, <1>2, <1>3, <1>6
<1>8. \A j \in 1 .. m : (i - a) + j - 1 \in 1 .. b + c /\ a + ((i - a) + j - 1) = i + j - 1
  BY <1>1, <1>2, <1>3, <1>6
<1>9. \A j \in 1 .. m : px[(i - a) + j - 1] = s[j]
  BY <1>1, <1>3, <1>8
<1> QED
  BY <1>6, <1>7, <1>9 DEF Stands, a, m, px

\* A stop string that may have begun in all of it has begun in what comes or in what is held
\* back of it.
LEMMA StillHeld ==
    ASSUME NEW stops \in SUBSET Chars, NEW o \in Chars, NEW p \in Chars, NEW x \in Chars, NEW k \in 0 .. Len(p \o x),
           Held(stops, o \o p, Len(p)), Held(stops, p \o x, k)
    PROVE  Held(stops, o \o (p \o x), k)
<1> DEFINE a == Len(o)
           b == Len(p)
           c == Len(x)
           op == o \o p
           px == p \o x
           w == o \o px
<1> SUFFICES ASSUME NEW s \in stops, NEW n \in 1 .. Len(w), n < Len(s), EndsWith(w, s, n)
             PROVE  n <= k
  BY DEF Held
<1> DEFINE m == Len(s)
<1>1. /\ a \in Nat /\ b \in Nat /\ c \in Nat
      /\ Len(op) = a + b /\ Len(px) = b + c /\ Len(w) = a + b + c
      /\ \A j \in 1 .. a + b : w[j] = op[j]
      /\ \A j \in 1 .. b + c : w[a + j] = px[j]
  <2>1. Joints(o, p, x)
    BY Threefold, Zenon
  <2> QED
    BY <2>1, Zenon DEF Joints
<1>2. m \in Nat /\ n \in Nat /\ n >= 1 /\ n < m /\ n <= a + b + c /\ k \in Nat
  BY <1>1, LenProperties DEF Chars
<1>3. \A j \in 1 .. n : w[a + b + c - n + j] = s[j]
  BY <1>1 DEF EndsWith
<1>4. \A l \in 1 .. Len(op) : l < m /\ EndsWith(op, s, l) => l <= b
  BY DEF Held
<1>5. \A l \in 1 .. Len(px) : l < m /\ EndsWith(px, s, l) => l <= k
  BY DEF Held
<1> HIDE DEF a, b, c, m, op, px, w
<1>6. CASE n <= b + c
  <2>1. \A j \in 1 .. n : b + c - n + j \in 1 .. b + c /\ a + (b + c - n + j) = a + b + c - n + j
    BY <1>1, <1>2, <1>6
  <2>2. \A j \in 1 .. n : px[b + c - n + j] = s[j]
    BY <1>1, <1>3, <2>1
  <2>3. n \in 1 .. Len(px)
    BY <1>1, <1>2, <1>6
  <2>4. Len(px) = b + c
    BY <1>1
  <2>5. EndsWith(px, s, n)
    <3>1. ASSUME NEW j \in 1 .. n PROVE px[Len(px) - n + j] = s[j]
      <4>1. Len(px) - n + j = b + c - n + j
        BY <1>1, <1>2, <2>4
      <4> QED
        BY <2>2, <4>1, Zenon
    <3> QED
      BY <3>1, Zenon DEF EndsWith
  <2> QED
    BY <1>2, <1>5, <2>3, <2>5
<1>7. CASE n > b + c
  <2> DEFINE l == n - c
  <2>1. l \in 1 .. Len(op) /\ l < m /\ l > b /\ l \in Nat
    BY <1>1, <1>2, <1>7
  <2>2. \A j \in 1 .. l : j \in 1 .. n /\ a + b - l + j \in 1 .. a + b /\ a + b - l + j = a + b + c - n + j
    BY <1>1, <1>2, <2>1
  <2>3. \A j \in 1 .. l : op[a + b - l + j] = s[j]
    BY <1>1, <1>3, <2>2
  <2> HIDE DEF l
  <2>4. l <= b
    BY <1>1, <1>4, <2>1, <2>3 DEF EndsWith
  <2> QED
    BY <1>1, <2>1, <2>4
<1> QED
  BY <1>1, <1>2, <1>6, <1>7

\* The places where a stop string is in what push() looks at.
Matches(stops, t) == UNION {Places(s, t) : s \in stops}

LEMMA MatchesAre ==
    ASSUME NEW stops \in SUBSET Chars, <<>> \notin stops, NEW t \in Chars
    PROVE  Matches(stops, t) = {i \in 1 .. Len(t) : \E s \in stops : Stands(s, t, i)}
<1>1. \A s \in stops : Places(s, t) = {i \in 1 .. Len(t) : Stands(s, t, i)}
  BY Placed
<1> QED
  BY <1>1 DEF Matches

\* push(), whatever it is given and however often.
LEMMA PushKeeps ==
    ASSUME NEW stops \in SUBSET Chars, <<>> \notin stops, NEW f, FilterRules(stops, f), NEW x \in Chars
    PROVE  FilterRules(stops, Push(stops, f, x))
<1> DEFINE o == f.out
           p == f.pending
           px == p \o x
           w == o \o px
           found == Matches(stops, px)
           keep == Len(px) - HeldBack(stops, px)
           g == Push(stops, f, x)
<1>1. f \in Filters /\ o \in Chars /\ p \in Chars /\ f.stopped \in BOOLEAN
  BY DEF FilterRules, Filters
<1>2. CASE f.stopped
  BY <1>2 DEF Push
<1>3. CASE ~f.stopped
  <2>1. NoStop(stops, o \o p) /\ Held(stops, o \o p, Len(p))
    BY <1>3 DEF FilterRules
  <2>2. px \in Chars /\ w \in Chars /\ Len(px) \in Nat /\ Len(o) \in Nat /\ Len(w) = Len(o) + Len(px)
    BY <1>1, LenProperties, ConcatProperties DEF Chars
  <2>3. \A s \in stops : \A i \in 1 .. Len(w) :
           Stands(s, w, i) => i > Len(o) /\ i - Len(o) \in 1 .. Len(px) /\ Stands(s, px, i - Len(o))
    <3> HIDE DEF o, p
    <3> QED
      BY <1>1, <2>1, BeginsLate DEF w, px
  <2>4. found = {i \in 1 .. Len(px) : \E s \in stops : Stands(s, px, i)}
    <3> HIDE DEF px
    <3> QED
      BY <2>2, MatchesAre
  <2>5. CASE found # {}
    <3> DEFINE n == Min(found)
               u == SubSeq(px, 1, n - 1)
               v == o \o u
    <3>1. g = [pending |-> <<>>, stopped |-> TRUE, out |-> v]
      BY <1>3, <2>5 DEF Push, Matches
    <3> HIDE DEF px, found
    <3>2. n \in found /\ \A i \in found : n <= i
      <4>1. found \in SUBSET Nat
        BY <2>2, <2>4
      <4> QED
        BY <2>5, <4>1, Minimum
    <3>3. n \in 1 .. Len(px) /\ n - 1 \in 0 .. Len(px) /\ n \in Nat
      BY <2>2, <2>4, <3>2
    <3> HIDE DEF n
    <3>4. u \in Chars /\ Len(u) = n - 1 /\ \A i \in 1 .. n - 1 : u[i] = px[i]
      BY <2>2, <3>3, FirstElements DEF Chars
    <3> HIDE DEF u, o
    <3>5. v \in Chars /\ Len(v) = Len(o) + (n - 1)
          /\ \A i \in 1 .. Len(o) + (n - 1) : v[i] = IF i <= Len(o) THEN o[i] ELSE u[i - Len(o)]
      <4>1. v \in Chars
        BY <1>1, <3>4, ConcatProperties DEF Chars
      <4>2. Len(v) = Len(o) + Len(u)
        BY <1>1, <3>4, ConcatProperties DEF Chars
      <4>3. \A i \in 1 .. Len(o) + Len(u) : v[i] = IF i <= Len(o) THEN o[i] ELSE u[i - Len(o)]
        BY <1>1, <3>4, ConcatProperties DEF Chars
      <4>4. Len(u) = n - 1
        BY <3>4
      <4> HIDE DEF v
      <4> QED
        BY <4>1, <4>2, <4>3, <4>4
    <3>6. \A i \in 1 .. Len(o) + Len(px) : w[i] = IF i <= Len(o) THEN o[i] ELSE px[i - Len(o)]
      BY <1>1, <2>2, ConcatProperties DEF Chars
    <3> HIDE DEF v, w
    <3>7. \A i \in 1 .. Len(v) : v[i] = w[i] /\ i \in 1 .. Len(w)
      <4> DEFINE a == Len(o)
                 b == Len(px)
      <4>0. a \in Nat /\ b \in Nat /\ n \in 1 .. b
        BY <2>2, <3>3
      <4> SUFFICES ASSUME NEW i \in 1 .. a + (n - 1) PROVE v[i] = w[i] /\ i \in 1 .. Len(w)
        BY <3>5
      <4>1. i \in 1 .. a + b /\ ~(i <= a) => i - a \in 1 .. n - 1
        <5> HIDE DEF a, b
        <5> QED
          BY <4>0
      <4>2. i \in 1 .. a + b
        <5> HIDE DEF a, b
        <5> QED
          BY <4>0
      <4>3. i \in 1 .. Len(w)
        BY <2>2, <4>2
      <4>4. v[i] = (IF i <= a THEN o[i] ELSE u[i - a]) /\ w[i] = (IF i <= a THEN o[i] ELSE px[i - a])
        BY <3>5, <3>6, <4>2
      <4> QED
        BY <3>4, <4>1, <4>2, <4>3, <4>4
    <3>8. ASSUME NEW s \in stops, NEW i \in 1 .. Len(v), Stands(s, v, i) PROVE FALSE
      <4> DEFINE a == Len(o)
                 b == Len(px)
                 m == Len(s)
      <4>1. m \in Nat /\ m > 0 /\ a \in Nat /\ b \in Nat /\ n \in 1 .. b /\ Len(v) = a + (n - 1) /\ Len(w) = a + b
        BY <2>2, <3>3, <3>5, EmptySeq, LenProperties DEF Chars
      <4>2. i + m - 1 <= Len(v) /\ \A j \in 1 .. m : v[i + j - 1] = s[j]
        BY <3>8 DEF Stands
      <4>3. \A j \in 1 .. m : i + j - 1 \in 1 .. Len(v)
        <5> HIDE DEF a, b, m
        <5> QED
          BY <4>1, <4>2
      <4>4. i \in 1 .. Len(w) /\ i + m - 1 <= Len(w)
        <5> HIDE DEF a, b, m
        <5> QED
          BY <4>1, <4>2
      <4>5. Stands(s, w, i)
        BY <3>7, <4>2, <4>3, <4>4 DEF Stands
      <4>6. i - a \in found
        BY <2>3, <2>4, <4>4, <4>5
      <4>7. n <= i - a
        BY <3>2, <4>6
      <4> HIDE DEF a, b, m
      <4> QED
        BY <4>1, <4>2, <4>7
    <3>9. v \o <<>> = v /\ <<>> \in Chars
      BY <3>5, ConcatEmptySeq, EmptySeq DEF Chars
    <3>10. NoStop(stops, v)
      BY <3>8 DEF NoStop
    <3> QED
      BY <3>1, <3>5, <3>9, <3>10 DEF FilterRules, Filters
  <2>6. CASE found = {}
    <3> DEFINE h == HeldBack(stops, px)
               u == SubSeq(px, 1, keep)
               q == SubSeq(px, keep + 1, Len(px))
    <3>1. g = [f EXCEPT !.pending = q, !.out = @ \o u]
      BY <1>3, <2>6 DEF Push, Matches
    <3> HIDE DEF px, found
    <3>2. h \in 0 .. Len(px) /\ Held(stops, px, h)
      BY <2>2, HeldBackEnough
    <3> HIDE DEF h
    <3>3. keep = Len(px) - h
      BY DEF h
    <3>4. keep \in 0 .. Len(px) /\ Len(px) - (keep + 1) + 1 = h /\ (keep + 1 <= Len(px) <=> h > 0)
          /\ keep + 1 \in Int /\ Len(px) \in Int
      BY <2>2, <3>2, <3>3
    <3> HIDE DEF keep
    <3>5. u \in Chars /\ q \in Chars /\ u \o q = px
      BY <2>2, <3>4, FirstElements, TwoParts DEF Chars
    <3>6. Len(q) = h
      <4>1. \A i \in 1 .. Len(px) : px[i] \in Char
        BY <2>2, ElementOfSeq DEF Chars
      <4>2. \A i \in keep + 1 .. Len(px) : px[i] \in Char
        BY <2>2, <3>4, <4>1
      <4>3. Len(q) = IF keep + 1 <= Len(px) THEN Len(px) - (keep + 1) + 1 ELSE 0
        BY <3>4, <4>2, SubSeqProperties, Z3
      <4> QED
        BY <3>2, <3>4, <4>3
    <3> HIDE DEF u, q
    <3>7. (o \o u) \o q = w
      <4> HIDE DEF o
      <4>1. o \in Chars /\ u \in Chars /\ q \in Chars
        BY <1>1, <3>5
      <4>2. Joints(o, u, q)
        BY <4>1, Threefold, Zenon
      <4>3. o \o (u \o q) = (o \o u) \o q
        BY <4>2, Zenon DEF Joints
      <4> QED
        BY <3>5, <4>3
    <3>8. o \o u \in Chars
      <4> HIDE DEF o
      <4> QED
        BY <1>1, <3>5, ConcatProperties DEF Chars
    <3>9. NoStop(stops, w)
      <4> HIDE DEF w
      <4> QED
        BY <2>3, <2>4, <2>6 DEF NoStop
    <3>10. Held(stops, w, h)
      <4> HIDE DEF o, p
      <4> QED
        BY <1>1, <2>1, <3>2, StillHeld DEF w, px
    <3>11. g \in Filters /\ g.out = o \o u /\ g.pending = q /\ g.stopped = FALSE
      BY <1>1, <1>3, <3>1, <3>5, <3>8 DEF Filters
    <3> HIDE DEF g, w, o
    <3>12. g.out \o g.pending = w /\ Len(g.pending) = h
      BY <3>6, <3>7, <3>11
    <3>13. NoStop(stops, g.out \o g.pending) /\ Held(stops, g.out \o g.pending, Len(g.pending))
      BY <3>9, <3>10, <3>12, Zenon
    <3>14. g \in Filters /\ ~g.stopped
      BY <3>11
    <3> QED
      BY <3>13, <3>14 DEF FilterRules, g
  <2> QED
    BY <2>5, <2>6
<1> QED
  BY <1>1, <1>2, <1>3

\* finish() lets out what is held back.
LEMMA ReleaseKeeps ==
    ASSUME NEW stops \in SUBSET Chars, <<>> \notin stops, NEW f, FilterRules(stops, f)
    PROVE  \A s \in stops : Places(s, Release(f).out) = {}
<1> DEFINE v == f.out \o f.pending
<1>1. v \in Chars /\ NoStop(stops, v) /\ Release(f).out = v
  <2>1. f \in Filters /\ f.out \in Chars /\ f.pending \in Chars
    BY DEF FilterRules, Filters
  <2>2. Release(f).out = v
    BY <2>1 DEF Release, Filters
  <2>3. NoStop(stops, v)
    BY DEF FilterRules
  <2> QED
    BY <2>1, <2>2, <2>3, ConcatProperties DEF Chars
<1> HIDE DEF v
<1>2. \A s \in stops : Places(s, v) = {i \in 1 .. Len(v) : Stands(s, v, i)}
  BY <1>1, Placed
<1> QED
  BY <1>1, <1>2 DEF NoStop

-----------------------------------------------------------------------------
(* Stop strings: the decoder and the tool turn before the filter.          *)

Decoded == [text : Chars, carry : Chars]

LEMMA Decode1Type ==
    ASSUME NEW d \in Decoded, NEW byte \in Char
    PROVE  Decode1(d, byte) \in Decoded
<1>1. d.text \in Chars /\ d.carry \in Chars
  BY DEF Decoded
<1>0. ASSUME NEW S PROVE /\ <<>> \in Seq(S)
                         /\ \A a \in S : <<a>> \in Seq(S)
                         /\ \A a, b \in S : <<a, b>> \in Seq(S)
  OBVIOUS
<1>2. <<>> \in Chars /\ <<byte>> \in Chars /\ <<Bad>> \in Chars
  <2>1. Bad \in Char
    BY DEF Char
  <2> QED
    BY <1>0, <2>1, Zenon DEF Chars
<1>3. \A lead : Character(lead) \in Chars
  <2>1. "LC" \in Char /\ High \in Char /\ "low surrogate" \in Char
    BY DEF Char
  <2>2. <<"LC">> \in Chars /\ <<High, "low surrogate">> \in Chars
    BY <1>0, <2>1, Zenon DEF Chars
  <2> QED
    BY <2>2, Zenon DEF Character
<1>4. \A u, v \in Chars : u \o v \in Chars
  BY ConcatProperties DEF Chars
<1> DEFINE broken == IF d.carry # <<>> THEN <<Bad>> ELSE <<>>
           made == IF d.carry = <<>> THEN <<Bad>> ELSE Character(d.carry[1])
<1>5. broken \in Chars /\ made \in Chars
  BY <1>2, <1>3
<1>6. Decode1(d, byte) =
        IF byte = "C" THEN [text |-> d.text \o made, carry |-> <<>>]
        ELSE IF byte \in {"L", "W"} THEN [text |-> d.text \o broken, carry |-> <<byte>>]
        ELSE [text |-> d.text \o broken \o <<byte>>, carry |-> <<>>]
  BY DEF Decode1
<1> HIDE DEF broken, made
<1>7. /\ d.text \o broken \in Chars
      /\ d.text \o made \in Chars
  BY <1>1, <1>4, <1>5
<1>8. (d.text \o broken) \o <<byte>> \in Chars
  BY <1>2, <1>4, <1>7
<1> QED
  BY <1>2, <1>6, <1>7, <1>8 DEF Decoded

\* g decodes the bytes at the places s, from the first to the last.
Decodes(bytes, d, g, s) ==
    IF s = {} THEN d ELSE Decode1(g[s \ {Max(s)}], bytes[Max(s)])

\* All but the last of some numbers up to n + 1 are up to n.
LEMMA AllButTheLast ==
    ASSUME NEW n \in Nat, NEW s \in SUBSET (1 .. n + 1), s # {}
    PROVE  Max(s) \in s /\ s \ {Max(s)} \in SUBSET (1 .. n)
<1>1. n + 1 \in Nat /\ s \in SUBSET (0 .. n + 1)
  OBVIOUS
<1>2. Max(s) \in s /\ \A y \in s : y <= Max(s)
  BY <1>1, Maximum
<1> DEFINE x == Max(s)
<1> HIDE DEF x
<1>3. x \in 1 .. n + 1 /\ \A y \in s : y \in 1 .. n + 1 /\ y <= x
  BY <1>2 DEF x
<1>4. \A y \in s : y # x => y \in 1 .. n
  BY <1>3
<1> QED
  BY <1>2, <1>4 DEF x

\* Numbers, one after the other.
LEMMA OneByOne ==
    ASSUME NEW S \in SUBSET Nat, 0 \in S, \A n \in S : n + 1 \in S
    PROVE  \A n \in Nat : n \in S
<1> SUFFICES ASSUME Nat \ S # {} PROVE FALSE
  OBVIOUS
<1> DEFINE T == Nat \ S
<1>1. Min(T) \in T /\ \A y \in T : Min(T) <= y
  BY Minimum
<1>2. Min(T) \in Nat /\ Min(T) \notin S /\ Min(T) # 0
  BY <1>1
<1> HIDE DEF T
<1>3. Min(T) - 1 \in Nat /\ ~(Min(T) <= Min(T) - 1) /\ (Min(T) - 1) + 1 = Min(T)
  BY <1>2
<1>4. Min(T) - 1 \in S
  BY <1>1, <1>3 DEF T
<1> QED
  BY <1>2, <1>3, <1>4

LEMMA DecodingExists ==
    ASSUME NEW bytes, NEW d, NEW n \in Nat
    PROVE  \E g : g = [s \in SUBSET (1 .. n) |-> Decodes(bytes, d, g, s)]
<1> DEFINE Good == {m \in Nat : \E g : \A s \in SUBSET (1 .. m) : g[s] = Decodes(bytes, d, g, s)}
<1>1. 0 \in Good
  <2> DEFINE g == [s \in SUBSET (1 .. 0) |-> d]
  <2>1. \A s \in SUBSET (1 .. 0) : g[s] = Decodes(bytes, d, g, s)
    BY DEF Decodes
  <2> QED
    BY <2>1
<1>2. ASSUME NEW m \in Good PROVE m + 1 \in Good
  <2>1. PICK g : \A s \in SUBSET (1 .. m) : g[s] = Decodes(bytes, d, g, s)
    OBVIOUS
  <2> DEFINE h == [s \in SUBSET (1 .. m + 1) |-> Decodes(bytes, d, g, s)]
  <2>2. ASSUME NEW s \in SUBSET (1 .. m + 1) PROVE h[s] = Decodes(bytes, d, h, s)
    <3>1. CASE s = {}
      BY <3>1 DEF Decodes
    <3>2. CASE s # {}
      <4> DEFINE t == s \ {Max(s)}
      <4>1. t \in SUBSET (1 .. m)
        BY <3>2, AllButTheLast
      <4>2. t \in SUBSET (1 .. m + 1)
        OBVIOUS
      <4> HIDE DEF t
      <4>3. h[t] = g[t]
        BY <2>1, <4>1, <4>2
      <4> QED
        BY <3>2, <4>3 DEF Decodes, t
    <3> QED
      BY <3>1, <3>2
  <2>3. m + 1 \in Nat
    OBVIOUS
  <2> HIDE DEF h
  <2>4. \E k : \A s \in SUBSET (1 .. m + 1) : k[s] = Decodes(bytes, d, k, s)
    BY <2>2
  <2> QED
    BY <2>3, <2>4
<1>3. n \in Good
  <2>1. Good \in SUBSET Nat
    OBVIOUS
  <2> HIDE DEF Good
  <2> QED
    BY <1>1, <1>2, <2>1, OneByOne
<1>4. PICK g : \A s \in SUBSET (1 .. n) : g[s] = Decodes(bytes, d, g, s)
  BY <1>3
<1> DEFINE h == [s \in SUBSET (1 .. n) |-> g[s]]
<1>5. ASSUME NEW s \in SUBSET (1 .. n) PROVE Decodes(bytes, d, h, s) = Decodes(bytes, d, g, s)
  BY DEF Decodes
<1>6. h = [s \in SUBSET (1 .. n) |-> Decodes(bytes, d, h, s)]
  BY <1>4, <1>5
<1> QED
  BY <1>6

\* The decoder, byte by byte.
Decoding(carry, bytes, h) ==
    /\ \A k \in 0 .. Len(bytes) : h[k] \in Decoded
    /\ h[0] = [text |-> <<>>, carry |-> carry]
    /\ \A k \in 0 .. Len(bytes) - 1 : h[k + 1] = Decode1(h[k], bytes[k + 1])

LEMMA Utf8Steps ==
    ASSUME NEW carry \in Chars, NEW bytes \in Chars
    PROVE  \E h : Decoding(carry, bytes, h) /\ Utf8(carry, bytes) = h[Len(bytes)]
<1> DEFINE n == Len(bytes)
           d == [text |-> <<>>, carry |-> carry]
           g == CHOOSE g : g = [s \in SUBSET (1 .. n) |-> Decodes(bytes, d, g, s)]
           h == [k \in 0 .. n |-> g[1 .. k]]
           Good == {m \in Nat : m <= n => h[m] \in Decoded}
<1>1. n \in Nat /\ DOMAIN bytes = 1 .. n /\ \A i \in 1 .. n : bytes[i] \in Char
  BY LenProperties, ElementOfSeq DEF Chars
<1>2. d \in Decoded
  BY DEF Decoded, Chars
<1>3. Utf8(carry, bytes) = g[1 .. n]
  BY <1>1 DEF Utf8, FoldLeft, MapThenFoldSet, Decodes
<1> HIDE DEF d, n
<1>4. g = [s \in SUBSET (1 .. n) |-> Decodes(bytes, d, g, s)]
  BY <1>1, DecodingExists
<1> HIDE DEF g
<1>5. 0 \in 0 .. n /\ h[0] = d
  <2>1. 1 .. 0 = {} /\ {} \in SUBSET (1 .. n)
    OBVIOUS
  <2>2. g[{}] = d
    BY <1>4, <2>1 DEF Decodes
  <2> QED
    BY <1>1, <2>1, <2>2
<1>6. ASSUME NEW k \in 0 .. n - 1 PROVE h[k + 1] = Decode1(h[k], bytes[k + 1])
  <2> DEFINE s == 1 .. k + 1
  <2>0. k \in Nat /\ k + 1 \in 0 .. n /\ k \in 0 .. n /\ k + 1 <= n
    BY <1>1
  <2>1. s \in SUBSET (1 .. n) /\ s # {} /\ s \in SUBSET (1 .. k + 1) /\ k + 1 \in s
    <3>1. k + 1 \in s /\ s \in SUBSET (1 .. k + 1)
      BY <2>0
    <3>2. \A i \in s : i \in 1 .. n
      BY <1>1, <2>0
    <3> HIDE DEF s
    <3> QED
      BY <3>1, <3>2
  <2>2. s \ {k + 1} = 1 .. k
    BY <2>0
  <2>3. Max(s) = k + 1
    <3>1. s \in SUBSET (0 .. k + 1) /\ k + 1 \in Nat
      BY <2>0
    <3> HIDE DEF s
    <3>2. Max(s) \in s /\ \A y \in s : y <= Max(s)
      BY <2>1, <3>1, Maximum
    <3> DEFINE m == Max(s)
    <3>3. m \in 0 .. k + 1 /\ k + 1 <= m
      <4>1. m \in s /\ \A y \in s : y <= m
        BY <3>2
      <4> HIDE DEF m
      <4> QED
        BY <2>1, <3>1, <4>1
    <3> HIDE DEF m
    <3>4. m = k + 1
      BY <2>0, <3>3
    <3> QED
      BY <3>4 DEF m
  <2> HIDE DEF s
  <2>4. g[s] = Decode1(g[s \ {Max(s)}], bytes[Max(s)])
    BY <1>4, <2>1 DEF Decodes
  <2>5. h[k + 1] = g[s] /\ h[k] = g[1 .. k]
    BY <2>0 DEF s
  <2> QED
    BY <2>2, <2>3, <2>4, <2>5
<1> HIDE DEF h
<1>7. 0 \in Good
  BY <1>2, <1>5
<1>8. ASSUME NEW m \in Good PROVE m + 1 \in Good
  <2> SUFFICES ASSUME m + 1 <= n PROVE h[m + 1] \in Decoded
    OBVIOUS
  <2>1. m \in 0 .. n - 1 /\ m <= n /\ m + 1 \in 1 .. n
    BY <1>1
  <2>2. h[m] \in Decoded /\ bytes[m + 1] \in Char
    BY <1>1, <2>1
  <2> QED
    BY <1>6, <2>1, <2>2, Decode1Type
<1>9. \A k \in 0 .. n : h[k] \in Decoded
  <2>1. Good \in SUBSET Nat
    OBVIOUS
  <2> HIDE DEF Good
  <2>2. \A m \in Nat : m \in Good
    BY <1>7, <1>8, <2>1, OneByOne
  <2> QED
    BY <1>1, <2>2 DEF Good
<1>10. Utf8(carry, bytes) = h[n]
  BY <1>1, <1>3 DEF h
<1> QED
  BY <1>5, <1>6, <1>9, <1>10 DEF Decoding, d, n

\* What the decoder makes of bytes is text.
LEMMA Utf8Type ==
    ASSUME NEW carry \in Chars, NEW bytes \in Chars
    PROVE  Utf8(carry, bytes) \in Decoded
<1>1. PICK h : Decoding(carry, bytes, h) /\ Utf8(carry, bytes) = h[Len(bytes)]
  BY Utf8Steps
<1>2. Len(bytes) \in 0 .. Len(bytes)
  BY LenProperties DEF Chars
<1> QED
  BY <1>1, <1>2 DEF Decoding

\* A tool turn ends inside the text.
LEMMA TurnEnds ==
    ASSUME NEW prefilled, NEW text \in Chars, CompleteTurn(prefilled, text) # {}
    PROVE  Min(CompleteTurn(prefilled, text)) \in 1 .. Len(text)
<1>1. PICK E \in SUBSET Places(CloseTag, text) :
         E # {} /\ CompleteTurn(prefilled, text) = {Min(E) + Len(CloseTag) - 1}
  <2> DEFINE begins == IF prefilled \/ (text # <<>> /\ text[1] = "{") THEN {1}
                       ELSE {i + Len(OpenTag) : i \in Places(OpenTag, text)}
             begin == Min(begins)
             ends == {i \in Places(CloseTag, text) : i >= begin /\ IsCall(SubSeq(text, begin, i - 1))}
  <2>1. CompleteTurn(prefilled, text) =
           IF begins = {} \/ ends = {} THEN {} ELSE {Min(ends) + Len(CloseTag) - 1}
    BY DEF CompleteTurn
  <2>2. ends \in SUBSET Places(CloseTag, text)
    OBVIOUS
  <2> HIDE DEF begins, ends
  <2> QED
    BY <2>1, <2>2
<1>2. Len(text) \in Nat /\ DOMAIN text = 1 .. Len(text) /\ Len(CloseTag) = 2
  BY LenProperties DEF Chars, CloseTag
<1>3. Min(E) \in E
  <2>1. E \in SUBSET Nat
    BY <1>2 DEF Places
  <2> QED
    BY <1>1, <2>1, Minimum
<1>4. Min(E) \in 1 .. Len(text) /\ Min(E) + 2 - 1 <= Len(text)
  BY <1>2, <1>3 DEF Places, Occurs
<1> DEFINE x == Min(E) + Len(CloseTag) - 1
<1>5. x \in 1 .. Len(text) /\ x <= x
  BY <1>2, <1>4
<1> HIDE DEF x
<1>6. Min({x}) = x
  BY <1>5 DEF Min
<1> QED
  BY <1>1, <1>5, <1>6 DEF x

\* onText(): the filter gets a part of the text, or nothing.
LEMMA DeliverKeeps ==
    ASSUME req.stops \in SUBSET Chars, <<>> \notin req.stops,
           NEW s, SinkRules(req.stops, s), NEW text \in Chars
    PROVE  SinkRules(req.stops, Deliver(s, text))
<1> DEFINE stops == req.stops
           Sinks == [carry : Chars, generated : Chars, delivered : Nat, yielded : BOOLEAN, filter : Filters]
<1>1. s \in Sinks /\ FilterRules(stops, s.filter)
  BY DEF SinkRules
<1>2. \A x \in Chars : LET f == Push(stops, s.filter, x) IN f \in Filters /\ FilterRules(stops, f)
  <2> TAKE x \in Chars
  <2>1. FilterRules(stops, Push(stops, s.filter, x))
    BY <1>1, PushKeeps
  <2> QED
    BY <2>1 DEF FilterRules
<1>3. ASSUME NEW f \in Filters, FilterRules(stops, f), NEW r \in Sinks
      PROVE  SinkRules(stops, [r EXCEPT !.filter = f])
  BY <1>3 DEF SinkRules
<1>4. CASE text = <<>>
  BY <1>1, <1>4 DEF Deliver, SinkRules
<1>5. CASE text # <<>> /\ ~req.tools
  <2>1. Deliver(s, text) = [s EXCEPT !.filter = Push(stops, s.filter, text)]
    BY <1>1, <1>5 DEF Deliver
  <2> QED
    BY <1>1, <1>2, <1>3, <2>1
<1>6. CASE text # <<>> /\ req.tools
  <2> DEFINE generated == s.generated \o text
             ends == IF Contains(text, ">") THEN CompleteTurn(req.prefilled, generated) ELSE {}
             end == IF ends = {} THEN Len(generated) ELSE Min(ends)
             part == SubSeq(generated, s.delivered + 1, end)
             f == Push(stops, s.filter, part)
  <2>1. Deliver(s, text) = IF s.yielded THEN s
                           ELSE [s EXCEPT !.generated = generated, !.delivered = end, !.yielded = (ends # {}),
                                          !.filter = f]
    BY <1>6 DEF Deliver, DeliverTurn
  <2>2. generated \in Chars /\ Len(generated) \in Nat /\ s.delivered \in Nat
    BY <1>1, ConcatProperties, LenProperties DEF Chars
  <2> HIDE DEF generated
  <2>3. end \in 0 .. Len(generated)
    <3>1. CASE ends = {}
      BY <2>2, <3>1
    <3>2. CASE ends # {}
      <4>1. ends = CompleteTurn(req.prefilled, generated)
        BY <3>2
      <4> HIDE DEF ends
      <4>2. Min(ends) \in 1 .. Len(generated)
        BY <2>2, <3>2, <4>1, TurnEnds
      <4> QED
        BY <2>2, <3>2, <4>2
    <3> QED
      BY <3>1, <3>2
  <2> HIDE DEF end, ends
  <2>4. part \in Chars
    <3> DEFINE n == s.delivered + 1
    <3>1. n \in Int /\ end \in Int /\ \A i \in n .. end : i \in 1 .. Len(generated)
      BY <2>2, <2>3
    <3>2. \A i \in n .. end : generated[i] \in Char
      BY <2>2, <3>1, ElementOfSeq DEF Chars
    <3> HIDE DEF n
    <3>3. SubSeq(generated, n, end) \in Chars
      BY <3>1, <3>2, SubSeqProperties, Z3 DEF Chars
    <3> QED
      BY <3>3 DEF n
  <2> HIDE DEF part
  <2>5. f \in Filters /\ FilterRules(stops, f)
    BY <1>2, <2>4
  <2> HIDE DEF f
  <2>6. CASE s.yielded
    BY <1>1, <2>1, <2>6 DEF SinkRules
  <2>7. CASE ~s.yielded
    <3> DEFINE r == [s EXCEPT !.generated = generated, !.delivered = end, !.yielded = (ends # {}), !.filter = f]
    <3>1. end \in Nat
      BY <2>2, <2>3
    <3>2. r \in Sinks /\ r.filter = f
      BY <1>1, <2>2, <2>5, <3>1
    <3>3. Deliver(s, text) = r
      BY <2>1, <2>7
    <3> HIDE DEF r
    <3> QED
      BY <2>5, <3>2, <3>3 DEF SinkRules
  <2> QED
    BY <2>6, <2>7
<1> QED
  BY <1>4, <1>5, <1>6

-----------------------------------------------------------------------------
(* Stop strings: the context.                                              *)

LEMMA Given ==
    /\ \A r \in Requests : r.stops \in SUBSET Chars /\ <<>> \notin r.stops
    /\ \A t \in Token : Piece[t] \in Chars
    /\ <<>> \in Chars
    /\ \A carry : Utf8Tail(carry) \in Chars
<1>0. \A s \in Seq(STRING) : s \in Chars
  BY SeqMonotonic DEF Char, Chars
<1>1. \A r \in Requests : r.stops \in SUBSET Chars /\ <<>> \notin r.stops
  BY <1>0, LlamaAssumption
<1>2. \A t \in Token : Piece[t] \in Chars
  BY <1>0, LlamaAssumption DEF Token
<1>3. <<>> \in Chars
  BY EmptySeq DEF Chars
<1>4. <<Bad>> \in Chars
  <2>1. ASSUME NEW S, NEW a \in S PROVE <<a>> \in Seq(S)
    OBVIOUS
  <2>2. Bad \in Char
    BY DEF Char
  <2> QED
    BY <2>1, <2>2, Zenon DEF Chars
<1> QED
  BY <1>1, <1>2, <1>3, <1>4 DEF Utf8Tail

\* What a request begins with.
LEMMA NewSinkKeeps ==
    ASSUME NEW stops
    PROVE  SinkRules(stops, NewSink)
<1>1. <<>> \in Chars /\ Len(<<>>) = 0 /\ <<>> \o <<>> = <<>>
  BY EmptySeq, ConcatEmptySeq DEF Chars
<1>2. NewFilter \in Filters
  BY <1>1 DEF Filters, NewFilter
<1>3. FilterRules(stops, NewFilter)
  <2>1. 1 .. Len(<<>>) = {}
    BY <1>1
  <2>2. NoStop(stops, <<>>) /\ Held(stops, <<>>, 0)
    BY <2>1 DEF NoStop, Held
  <2>3. NewFilter.out = <<>> /\ NewFilter.pending = <<>> /\ NewFilter.stopped = FALSE
    BY DEF NewFilter
  <2> QED
    BY <1>1, <1>2, <2>2, <2>3 DEF FilterRules
<1> QED
  BY <1>1, <1>2, <1>3 DEF SinkRules, NewSink

LEMMA StopsSampleStep ==
    ASSUME IndInv, StopRules, NEW t \in req.vocab, Sample(t)
    PROVE  StopRules'
<1>1. /\ at = "sample" /\ at' \in {"decode", "tail"} /\ req' = req
      /\ sink' = Feed(sink, Piece[t])
  BY DEF Sample
<1>2. /\ req.stops \in SUBSET Chars /\ <<>> \notin req.stops
      /\ Piece[t] \in Chars /\ SinkRules(req.stops, sink)
  <2>1. req \in Requests
    BY DEF IndInv, TypeOK
  <2>2. t \in Token
    BY <2>1, Asked
  <2> QED
    BY <1>1, <2>1, <2>2, Given DEF StopRules
<1> DEFINE d == Utf8(sink.carry, Piece[t])
           s == [sink EXCEPT !.carry = d.carry]
<1>3. d.text \in Chars /\ d.carry \in Chars
  <2>1. sink.carry \in Chars
    BY <1>2 DEF SinkRules
  <2>2. d \in Decoded
    BY <1>2, <2>1, Utf8Type
  <2> HIDE DEF d
  <2> QED
    BY <2>2 DEF Decoded
<1>4. sink' = Deliver(s, d.text)
  BY <1>1 DEF Feed
<1> HIDE DEF d
<1>5. SinkRules(req.stops, s)
  BY <1>2, <1>3 DEF SinkRules
<1> HIDE DEF s
<1>6. SinkRules(req.stops, sink')
  BY <1>2, <1>3, <1>4, <1>5, DeliverKeeps
<1> QED
  BY <1>1, <1>6 DEF StopRules, StopsAreCutOut, Answered

LEMMA StopsEndOfTextStep ==
    ASSUME IndInv, StopRules, EndOfText
    PROVE  StopRules'
<1> DEFINE s == Deliver(sink, Utf8Tail(sink.carry))
<1>1. /\ at = "tail" /\ at' = "rest" /\ req' = req
      /\ sink' = [s EXCEPT !.carry = <<>>, !.filter = Release(@)]
  BY DEF EndOfText
<1>2. /\ req.stops \in SUBSET Chars /\ <<>> \notin req.stops
      /\ Utf8Tail(sink.carry) \in Chars /\ SinkRules(req.stops, sink)
  BY <1>1, Given DEF StopRules, IndInv, TypeOK
<1>3. SinkRules(req.stops, s)
  BY <1>2, DeliverKeeps
<1> HIDE DEF s
<1>4. FilterRules(req.stops, s.filter) /\ sink'.filter = Release(s.filter)
  BY <1>1, <1>3 DEF SinkRules
<1>5. \A stop \in req.stops : Places(stop, Release(s.filter).out) = {}
  BY <1>2, <1>4, ReleaseKeeps
<1> QED
  BY <1>1, <1>4, <1>5 DEF StopRules, StopsAreCutOut

\* The other steps leave the text alone, or begin or give up a request.
LEMMA StopsQuietStep ==
    ASSUME IndInv, StopRules,
           \/ \E r \in Requests : Generate(r)
           \/ Recreate \/ Cancel \/ Fails \/ Begin \/ Decode \/ Account \/ DecodeFails \/ SampleEog
           \/ UNCHANGED vars
    PROVE  StopRules'
<1>1. ASSUME NEW r \in Requests, Generate(r) PROVE StopRules'
  BY <1>1, NewSinkKeeps DEF Generate, StopRules, StopsAreCutOut, Answered
<1>2. CASE Fails \/ DecodeFails
  BY <1>2 DEF Fails, DecodeFails, Throw, StopRules, StopsAreCutOut, Answered
<1>3. CASE Begin \/ Decode \/ Account \/ SampleEog
  <2>1. at # "rest" /\ at' # "rest" /\ req' = req /\ sink' = sink
    BY <1>3 DEF Begin, Decode, Account, SampleEog, textVars
  <2> QED
    BY <2>1 DEF StopRules, StopsAreCutOut, Answered
<1>4. CASE Recreate \/ Cancel \/ UNCHANGED vars
  <2>1. UNCHANGED <<at, req, sink, finish>>
    BY <1>4 DEF Recreate, Cancel, vars, textVars
  <2> QED
    BY <2>1 DEF StopRules, StopsAreCutOut, Answered
<1> QED
  BY <1>1, <1>2, <1>3, <1>4

\* StopFilter: no stop string is in the text a caller gets, however the tokens, the decoder
\* and the tool turn cut what the filter is given.
THEOREM StopsHold ==
    Spec => []StopsAreCutOut
<1>1. Init => StopRules
  BY DEF Init, StopRules, StopsAreCutOut, Answered
<1>2. ASSUME IndInv, StopRules, [Next]_vars PROVE StopRules'
  BY <1>2, StopsSampleStep, StopsEndOfTextStep, StopsQuietStep DEF Next
<1>3. StopRules => StopsAreCutOut
  BY DEF StopRules
<1> QED
  BY <1>1, <1>2, <1>3, ContextInvariant, PTL DEF Spec

-----------------------------------------------------------------------------
(* The text: what the filter lets out is what it is given, up to a stop string. *)

\* What the filter makes of what it is given: it lets it out up to the first stop string.
Fed(stops, f, given) ==
    /\ given \in Chars
    /\ IsPrefix(f.out, given)
    /\ ~f.stopped => f.out \o f.pending = given
    /\ f.stopped /\ NoneInside(stops) =>
          /\ Matches(stops, given) # {}
          /\ f.out = SubSeq(given, 1, Min(Matches(stops, given)) - 1)

\* Two texts, one after the other.
LEMMA Twofold ==
    ASSUME NEW a \in Chars, NEW b \in Chars
    PROVE  /\ a \o b \in Chars
           /\ Len(a) \in Nat /\ Len(b) \in Nat /\ Len(a \o b) = Len(a) + Len(b)
           /\ \A i \in 1 .. Len(a) : (a \o b)[i] = a[i]
           /\ \A i \in 1 .. Len(b) : (a \o b)[Len(a) + i] = b[i]
<1> DEFINE w == a \o b
           k == Len(a)
           l == Len(b)
<1>1. w \in Chars
  BY ConcatProperties DEF Chars
<1>2. Len(w) = k + l
  BY ConcatProperties DEF Chars
<1>3. \A i \in 1 .. k + l : w[i] = IF i <= k THEN a[i] ELSE b[i - k]
  BY ConcatProperties DEF Chars
<1>4. k \in Nat /\ l \in Nat
  BY LenProperties DEF Chars
<1> HIDE DEF w, k, l
<1>5. \A i \in 1 .. k : w[i] = a[i]
  BY <1>3, <1>4
<1>6. \A i \in 1 .. l : w[k + i] = b[i]
  <2>1. \A i \in 1 .. l : k + i \in 1 .. k + l /\ ~(k + i <= k) /\ (k + i) - k = i
    BY <1>4
  <2> QED
    BY <1>3, <2>1
<1> QED
  BY <1>1, <1>2, <1>4, <1>5, <1>6 DEF w, k, l

\* The beginning of a text stays when it grows.
LEMMA Begun ==
    ASSUME NEW a \in Chars, NEW b \in Chars, NEW n \in 0 .. Len(a)
    PROVE  SubSeq(a \o b, 1, n) = SubSeq(a, 1, n)
<1> DEFINE w == a \o b
<1>0. w \in Chars /\ Len(a) \in Nat /\ Len(b) \in Nat /\ Len(w) = Len(a) + Len(b)
  BY Twofold
<1>1. w \in Chars /\ Len(a) \in Nat /\ Len(w) \in Nat /\ n \in Nat /\ n <= Len(a) /\ n <= Len(w)
  <2> HIDE DEF w
  <2> QED
    BY <1>0
<1>2. \A i \in 1 .. n : w[i] = a[i]
  BY <1>1, Twofold
<1> HIDE DEF w
<1>3. SubSeq(w, 1, n) = SubSeq(a, 1, n)
  BY <1>1, <1>2, SameFirst DEF Chars
<1> QED
  BY <1>3 DEF w

LEMMA BeginningIsPrefix ==
    ASSUME NEW a \in Chars, NEW b \in Chars
    PROVE  IsPrefix(a, a \o b)
<1> DEFINE w == a \o b
<1>1. w \in Chars /\ Len(a) <= Len(w)
  BY Twofold
<1>2. \A i \in 1 .. Len(a) : w[i] = a[i]
  BY Twofold
<1> HIDE DEF w
<1>3. IsPrefix(a, w)
  BY <1>1, <1>2, PrefixByElements DEF Chars
<1> QED
  BY <1>3 DEF w

\* What stood in a text stands in it when it grows.
LEMMA StandsOn ==
    ASSUME NEW s \in Chars, s # <<>>, NEW a \in Chars, NEW b \in Chars, NEW i \in 1 .. Len(a)
    PROVE  /\ Stands(s, a, i) => Stands(s, a \o b, i)
           /\ Stands(s, a \o b, i) /\ i + Len(s) - 1 <= Len(a) => Stands(s, a, i)
           /\ i \in 1 .. Len(a \o b)
<1> DEFINE w == a \o b
           k == Len(a)
           l == Len(b)
           m == Len(s)
<1>1. /\ Len(w) = k + l /\ k \in Nat /\ l \in Nat /\ m \in Nat /\ m > 0
      /\ \A j \in 1 .. k : w[j] = a[j]
  BY Twofold, EmptySeq, LenProperties DEF Chars
<1> HIDE DEF w, k, l, m
<1>2. i \in 1 .. k
  BY DEF k
<1>3. ASSUME i + m - 1 <= k PROVE \A j \in 1 .. m : w[i + j - 1] = a[i + j - 1]
  <2>1. \A j \in 1 .. m : i + j - 1 \in 1 .. k
    BY <1>1, <1>2, <1>3
  <2> QED
    BY <1>1, <2>1
<1>4. i + m - 1 <= k => i + m - 1 <= Len(w)
  BY <1>1, <1>2
<1>5. i \in 1 .. Len(w)
  BY <1>1, <1>2
<1> QED
  BY <1>3, <1>4, <1>5 DEF Stands, w, k, m

\* A text that was cut at a stop string is not cut elsewhere when it grows, unless a stop
\* string has another inside it.
LEMMA CutStays ==
    ASSUME NEW stops \in SUBSET Chars, <<>> \notin stops, NoneInside(stops),
           NEW a \in Chars, NEW b \in Chars, Matches(stops, a) # {}
    PROVE  /\ Matches(stops, a \o b) # {}
           /\ Min(Matches(stops, a \o b)) = Min(Matches(stops, a))
           /\ Min(Matches(stops, a)) \in 1 .. Len(a)
<1> DEFINE w == a \o b
           A == Matches(stops, a)
           W == Matches(stops, w)
           m == Min(A)
           n == Min(W)
<1>1. w \in Chars /\ Len(a) \in Nat /\ Len(b) \in Nat /\ Len(w) = Len(a) + Len(b)
  BY Twofold
<1>2. A = {i \in 1 .. Len(a) : \E s \in stops : Stands(s, a, i)}
  BY MatchesAre
<1> HIDE DEF w
<1>3. W = {i \in 1 .. Len(w) : \E s \in stops : Stands(s, w, i)}
  BY <1>1, MatchesAre
<1>4. \A s \in stops : s \in Chars /\ s # <<>> /\ Len(s) \in Nat /\ Len(s) > 0
  BY EmptySeq, LenProperties DEF Chars
<1>5. \A s \in stops : \A i \in 1 .. Len(a) :
         /\ Stands(s, a, i) => Stands(s, w, i)
         /\ Stands(s, w, i) /\ i + Len(s) - 1 <= Len(a) => Stands(s, a, i)
         /\ i \in 1 .. Len(w)
  BY <1>4, StandsOn DEF w
<1>6. A \in SUBSET Nat /\ W \in SUBSET Nat /\ A \subseteq W /\ A # {} /\ W # {}
  <2>1. A \in SUBSET Nat /\ W \in SUBSET Nat
    BY <1>1, <1>2, <1>3
  <2>2. A \subseteq W
    BY <1>2, <1>3, <1>5
  <2> QED
    BY <2>1, <2>2
<1> HIDE DEF A, W
<1>7. m \in A /\ \A i \in A : m <= i
  BY <1>6, Minimum
<1>8. n \in W /\ \A i \in W : n <= i
  BY <1>6, Minimum
<1> HIDE DEF m, n
<1>9. PICK s \in stops : Stands(s, a, m)
  BY <1>2, <1>7
<1>10. PICK t \in stops : Stands(t, w, n)
  BY <1>3, <1>8
<1>11. m \in Nat /\ n \in Nat /\ n <= m /\ m \in 1 .. Len(a) /\ n \in 1 .. Len(a) /\ n \in 1 .. Len(w)
  BY <1>1, <1>2, <1>3, <1>6, <1>7, <1>8
<1>12. n = m
  <2> SUFFICES ASSUME n < m PROVE FALSE
    BY <1>11
  <2> DEFINE p == Len(s)
             q == Len(t)
             i == m - n + 1
  <2>1. s \in Chars /\ t \in Chars /\ s # <<>> /\ p \in Nat /\ q \in Nat /\ p > 0 /\ q > 0
    BY <1>4
  <2>2. m + p - 1 <= Len(a) /\ \A j \in 1 .. p : a[m + j - 1] = s[j]
    BY <1>9 DEF Stands
  <2>3. n + q - 1 <= Len(w) /\ \A j \in 1 .. q : w[n + j - 1] = t[j]
    BY <1>10 DEF Stands
  <2>4. \A j \in 1 .. Len(a) : w[j] = a[j]
    BY Twofold DEF w
  <2>5. ~(n + q - 1 <= Len(a))
    <3> SUFFICES ASSUME n + q - 1 <= Len(a) PROVE FALSE
      OBVIOUS
    <3>1. n \in A
      BY <1>2, <1>5, <1>10, <1>11
    <3> QED
      BY <1>7, <1>11, <3>1
  <2> HIDE DEF p, q
  <2>6. i \in 1 .. q /\ i # 1 /\ i + p - 1 # q /\ i + p - 1 <= q
    BY <1>1, <1>11, <2>1, <2>2, <2>5
  <2>7. \A j \in 1 .. p : i + j - 1 \in 1 .. q /\ n + (i + j - 1) - 1 = m + j - 1 /\ m + j - 1 \in 1 .. Len(a)
    BY <1>1, <1>11, <2>1, <2>2, <2>6
  <2> HIDE DEF i
  <2>8. \A j \in 1 .. p : t[i + j - 1] = s[j]
    BY <2>2, <2>3, <2>4, <2>7
  <2>9. Stands(s, t, i)
    BY <2>6, <2>8 DEF Stands, p, q
  <2>10. i \in Places(s, t)
    BY <2>1, <2>6, <2>9, Placed DEF q
  <2> QED
    BY <2>6, <2>10 DEF NoneInside, p, q
<1> QED
  BY <1>6, <1>11, <1>12 DEF w, A, W, m, n

\* push(), for what it lets out.
LEMMA PushFeeds ==
    ASSUME NEW stops \in SUBSET Chars, <<>> \notin stops, NEW f, FilterRules(stops, f),
           NEW given, Fed(stops, f, given), NEW x \in Chars
    PROVE  Fed(stops, Push(stops, f, x), given \o x)
<1> DEFINE o == f.out
           p == f.pending
           px == p \o x
           w == given \o x
           found == Matches(stops, px)
           g == Push(stops, f, x)
<1>1. f \in Filters /\ o \in Chars /\ p \in Chars /\ f.stopped \in BOOLEAN /\ given \in Chars
  BY DEF FilterRules, Filters, Fed
<1>2. w \in Chars
  BY <1>1, Twofold
<1>3. CASE f.stopped
  <2>1. g = f
    BY <1>3 DEF Push
  <2>2. IsPrefix(o, w)
    BY <1>1, Prefixed DEF Fed, Chars
  <2>3. ASSUME NoneInside(stops)
        PROVE  Matches(stops, w) # {} /\ o = SubSeq(w, 1, Min(Matches(stops, w)) - 1)
    <3> DEFINE m == Min(Matches(stops, given))
    <3>1. Matches(stops, given) # {} /\ o = SubSeq(given, 1, m - 1)
      BY <1>3, <2>3 DEF Fed
    <3>2. Matches(stops, w) # {} /\ Min(Matches(stops, w)) = m /\ m \in 1 .. Len(given)
      BY <1>1, <2>3, <3>1, CutStays
    <3> HIDE DEF m
    <3>3. m - 1 \in 0 .. Len(given)
      <4>1. Len(given) \in Nat
        BY <1>1, Twofold
      <4> QED
        BY <3>2, <4>1
    <3>4. SubSeq(w, 1, m - 1) = SubSeq(given, 1, m - 1)
      BY <1>1, <3>3, Begun
    <3> QED
      BY <3>1, <3>2, <3>4
  <2> HIDE DEF g, w
  <2> QED
    BY <1>2, <1>3, <2>1, <2>2, <2>3 DEF Fed, g, w
<1>4. CASE ~f.stopped
  <2>1. NoStop(stops, o \o p) /\ Held(stops, o \o p, Len(p)) /\ o \o p = given
    BY <1>4 DEF FilterRules, Fed
  <2>2. px \in Chars /\ Len(px) \in Nat /\ Len(o) \in Nat /\ w = o \o px /\ Len(w) = Len(o) + Len(px)
    <3> HIDE DEF o, p
    <3>1. Joints(o, p, x)
      BY <1>1, Threefold, Zenon
    <3>2. w = o \o px
      BY <2>1, <3>1, Zenon DEF Joints
    <3>3. px \in Chars
      BY <3>1, Zenon DEF Joints
    <3>4. Len(o \o px) = Len(o) + Len(px) /\ Len(o) \in Nat /\ Len(px) \in Nat
      <4> HIDE DEF px
      <4> QED
        BY <1>1, <3>3, Twofold
    <3> QED
      BY <3>2, <3>3, <3>4
  <2>3. \A s \in stops : \A i \in 1 .. Len(w) :
           Stands(s, w, i) => i > Len(o) /\ i - Len(o) \in 1 .. Len(px) /\ Stands(s, px, i - Len(o))
    <3> HIDE DEF o, p, w
    <3> QED
      BY <1>1, <2>1, <2>2, BeginsLate DEF px
  <2>4. found = {i \in 1 .. Len(px) : \E s \in stops : Stands(s, px, i)}
    <3> HIDE DEF px
    <3> QED
      BY <2>2, MatchesAre
  <2>5. Matches(stops, w) = {i \in 1 .. Len(w) : \E s \in stops : Stands(s, w, i)}
    <3> HIDE DEF w
    <3> QED
      BY <1>2, MatchesAre
  <2>6. CASE found # {}
    <3> DEFINE n == Min(found)
               u == SubSeq(px, 1, n - 1)
               m == Len(o) + n
               W == Matches(stops, w)
    <3>1. g = [pending |-> <<>>, stopped |-> TRUE, out |-> o \o u]
      BY <1>4, <2>6 DEF Push, Matches
    <3> HIDE DEF px, found, w, W, o, g
    <3>2. n \in found /\ \A i \in found : n <= i
      <4>1. found \in SUBSET Nat
        BY <2>2, <2>4
      <4> QED
        BY <2>6, <4>1, Minimum
    <3>3. n \in 1 .. Len(px) /\ n - 1 \in 0 .. Len(px) /\ n \in Nat
      BY <2>2, <2>4, <3>2
    <3> HIDE DEF n
    <3>4. m \in W
      <4>1. PICK s \in stops : Stands(s, px, n)
        BY <2>4, <3>2
      <4> DEFINE k == Len(s)
      <4>2. s \in Chars /\ k \in Nat /\ k > 0
        BY EmptySeq, LenProperties DEF Chars
      <4>3. n + k - 1 <= Len(px) /\ \A j \in 1 .. k : px[n + j - 1] = s[j]
        BY <4>1 DEF Stands
      <4> HIDE DEF k
      <4>4. m \in 1 .. Len(w) /\ m + k - 1 <= Len(w)
        BY <2>2, <3>3, <4>2, <4>3
      <4>5. \A j \in 1 .. Len(px) : w[Len(o) + j] = px[j]
        BY <1>1, <2>2, Twofold DEF o
      <4>6. \A j \in 1 .. k : n + j - 1 \in 1 .. Len(px) /\ Len(o) + (n + j - 1) = m + j - 1
        BY <2>2, <3>3, <4>2, <4>3
      <4> HIDE DEF m
      <4>7. \A j \in 1 .. k : w[m + j - 1] = s[j]
        BY <4>3, <4>5, <4>6
      <4>8. Stands(s, w, m)
        BY <4>4, <4>7 DEF Stands, k
      <4> QED
        BY <2>5, <4>4, <4>8 DEF W
    <3>5. \A i \in W : m <= i
      <4> TAKE i \in W
      <4>1. PICK s \in stops : Stands(s, w, i)
        BY <2>5 DEF W
      <4>2. i \in 1 .. Len(w)
        BY <2>5 DEF W
      <4>3. i > Len(o) /\ i - Len(o) \in found
        BY <2>3, <2>4, <4>1, <4>2
      <4>4. n <= i - Len(o)
        BY <3>2, <4>3
      <4> QED
        BY <2>2, <3>3, <4>2, <4>4
    <3>6. Min(W) = m
      <4>1. W \in SUBSET Nat /\ W # {}
        BY <2>2, <2>5, <3>4 DEF W
      <4>2. Min(W) \in W /\ \A y \in W : Min(W) <= y
        BY <4>1, Minimum
      <4>3. Min(W) \in Nat /\ m \in Nat /\ Min(W) <= m /\ m <= Min(W)
        BY <3>4, <3>5, <4>1, <4>2
      <4> HIDE DEF m
      <4> QED
        BY <4>3
    <3>7. o \o u = SubSeq(w, 1, m - 1) /\ m - 1 \in 0 .. Len(w)
      <4> DEFINE v == SubSeq(px, (n - 1) + 1, Len(px))
      <4>1. u \in Chars /\ Len(u) = n - 1
        BY <2>2, <3>3, FirstElements DEF Chars
      <4>2. u \o v = px /\ v \in Chars
        BY <2>2, <3>3, TwoParts DEF Chars
      <4> HIDE DEF u, v
      <4>3. Joints(o, u, v) /\ o \in Chars
        BY <1>1, <4>1, <4>2, Threefold, Zenon DEF o
      <4>4. w = (o \o u) \o v /\ o \o u \in Chars /\ Len(o \o u) = Len(o) + Len(u)
        BY <2>2, <4>2, <4>3, Zenon DEF Joints
      <4>5. m - 1 = Len(o \o u) /\ m - 1 \in 0 .. Len(o \o u) /\ m - 1 \in 0 .. Len(w)
        BY <2>2, <3>3, <4>1, <4>4
      <4>6. SubSeq(w, 1, m - 1) = SubSeq(o \o u, 1, m - 1)
        BY <4>2, <4>4, <4>5, Begun
      <4>7. SubSeq(o \o u, 1, Len(o \o u)) = o \o u
        BY <4>4, SubSeqFull DEF Chars
      <4> QED
        BY <4>5, <4>6, <4>7
    <3> HIDE DEF m, u
    <3>8. IsPrefix(o \o u, w)
      <4> DEFINE v == SubSeq(w, (m - 1) + 1, Len(w))
      <4>1. SubSeq(w, 1, m - 1) \in Chars
        BY <1>2, <3>7, FirstElements DEF Chars
      <4>2. SubSeq(w, 1, m - 1) \o v = w /\ v \in Chars
        BY <1>2, <3>7, TwoParts DEF Chars
      <4> HIDE DEF v
      <4>3. o \o u \in Chars /\ (o \o u) \o v = w
        BY <3>7, <4>1, <4>2
      <4> QED
        BY <4>2, <4>3, BeginningIsPrefix
    <3>9. g.out = o \o u /\ g.stopped = TRUE
      BY <3>1
    <3>10. W # {} /\ g.out = SubSeq(w, 1, Min(W) - 1)
      BY <3>4, <3>6, <3>7, <3>9
    <3> QED
      BY <1>2, <3>8, <3>9, <3>10 DEF Fed, g, w, W
  <2>7. CASE found = {}
    <3> DEFINE keep == Len(px) - HeldBack(stops, px)
               u == SubSeq(px, 1, keep)
               q == SubSeq(px, keep + 1, Len(px))
    <3>1. g = [f EXCEPT !.pending = q, !.out = @ \o u]
      BY <1>4, <2>7 DEF Push, Matches
    <3> HIDE DEF px, found
    <3>2. keep \in 0 .. Len(px)
      <4>1. HeldBack(stops, px) \in 0 .. Len(px)
        BY <2>2, HeldBackEnough
      <4> QED
        BY <2>2, <4>1
    <3> HIDE DEF keep
    <3>3. u \in Chars /\ q \in Chars /\ u \o q = px
      BY <2>2, <3>2, FirstElements, TwoParts DEF Chars
    <3> HIDE DEF u, q, o, w
    <3>4. o \o u \in Chars /\ (o \o u) \o q = w
      <4>1. Joints(o, u, q)
        BY <1>1, <3>3, Threefold, Zenon DEF o
      <4> QED
        BY <2>2, <3>3, <4>1, Zenon DEF Joints
    <3>5. IsPrefix(o \o u, w)
      BY <3>3, <3>4, BeginningIsPrefix
    <3>6. g.out = o \o u /\ g.pending = q /\ ~g.stopped
      BY <1>1, <1>4, <3>1 DEF Filters, o
    <3> HIDE DEF g
    <3> QED
      BY <1>2, <3>4, <3>5, <3>6 DEF Fed, g, w
  <2> QED
    BY <2>6, <2>7
<1> QED
  BY <1>1, <1>3, <1>4

\* finish(): in the end the text is let out up to the first stop string.
LEMMA ReleaseFeeds ==
    ASSUME NEW stops \in SUBSET Chars, <<>> \notin stops, NEW f, FilterRules(stops, f),
           NEW given, Fed(stops, f, given)
    PROVE  /\ IsPrefix(Release(f).out, given)
           /\ NoneInside(stops) => Release(f).out = UpToStop(stops, given)
<1>1. f \in Filters /\ f.out \in Chars /\ f.pending \in Chars /\ given \in Chars /\ f.stopped \in BOOLEAN
  BY DEF FilterRules, Filters, Fed
<1>2. Release(f).out = f.out \o f.pending
  BY <1>1 DEF Release, Filters
<1>3. CASE f.stopped
  <2>1. f.out \o f.pending = f.out
    BY <1>1, <1>3, ConcatEmptySeq DEF FilterRules, Chars
  <2> QED
    BY <1>2, <1>3, <2>1 DEF Fed, UpToStop, Matches
<1>4. CASE ~f.stopped
  <2>1. Release(f).out = given /\ NoStop(stops, given)
    BY <1>2, <1>4 DEF Fed, FilterRules
  <2>2. Matches(stops, given) = {}
    <3>1. Matches(stops, given) = {i \in 1 .. Len(given) : \E s \in stops : Stands(s, given, i)}
      BY <1>1, MatchesAre
    <3> QED
      BY <2>1, <3>1 DEF NoStop
  <2>3. UpToStop(stops, given) = given
    BY <2>2 DEF UpToStop, Matches
  <2>4. IsPrefix(given, given)
    <3>1. Len(given) <= Len(given)
      BY <1>1, LenProperties DEF Chars
    <3> QED
      BY <3>1 DEF IsPrefix
  <2> QED
    BY <2>1, <2>3, <2>4
<1> QED
  BY <1>1, <1>3, <1>4

-----------------------------------------------------------------------------
(* The text: a tool turn is complete where it is, whatever comes later.     *)

\* Where a turn's call may begin, and where it may end, from the beginning.
Begins(prefilled, text) ==
    IF prefilled \/ (text # <<>> /\ text[1] = "{") THEN {1}
    ELSE {i + Len(OpenTag) : i \in Places(OpenTag, text)}

Least(S, b) == b \in S /\ \A c \in S : b <= c

EndsAt(prefilled, text, b, i) ==
    /\ Least(Begins(prefilled, text), b)
    /\ i \in Places(CloseTag, text) /\ i >= b /\ IsCall(SubSeq(text, b, i - 1))

Ends(prefilled, text) == {i \in DOMAIN text : \E b \in Nat : EndsAt(prefilled, text, b, i)}

\* A tag is two symbols.
LEMMA Tagged ==
    ASSUME NEW a, NEW b, NEW t \in Chars
    PROVE  Places(<<a, b>>, t) = {i \in 1 .. Len(t) : i + 1 <= Len(t) /\ t[i] = a /\ t[i + 1] = b}
<1> DEFINE tag == <<a, b>>
<1>1. Len(t) \in Nat /\ DOMAIN t = 1 .. Len(t) /\ Len(tag) = 2
  BY LenProperties DEF Chars
<1>2. ASSUME NEW i \in 1 .. Len(t), i + 1 <= Len(t)
      PROVE  SubSeq(t, i, i + 1) = tag <=> t[i] = a /\ t[i + 1] = b
  <2> DEFINE u == SubSeq(t, i, i + 1)
             n == i + 1
  <2>1. i \in Int /\ n \in Int /\ i <= n /\ n - i + 1 = 2 /\ \A j \in i .. n : j \in 1 .. Len(t)
    BY <1>1, <1>2
  <2>2. \A j \in i .. n : t[j] \in Char
    BY <2>1, ElementOfSeq DEF Chars
  <2> HIDE DEF n
  <2>3. SubSeq(t, i, n) \in Chars /\ Len(SubSeq(t, i, n)) = n - i + 1
        /\ \A j \in 1 .. n - i + 1 : SubSeq(t, i, n)[j] = t[i + j - 1]
    BY <2>1, <2>2, SubSeqProperties, Z3 DEF Chars
  <2>4. u \in Chars /\ Len(u) = 2 /\ \A j \in 1 .. 2 : u[j] = t[i + j - 1]
    BY <2>1, <2>3 DEF n
  <2> HIDE DEF u
  <2>5. u[1] = t[i] /\ u[2] = t[i + 1]
    <3>1. 1 \in 1 .. 2 /\ 2 \in 1 .. 2 /\ i + 1 - 1 = i /\ i + 2 - 1 = i + 1
      BY <1>1
    <3> QED
      BY <2>4, <3>1
  <2>6. u = <<u[1], u[2]>>
    BY <2>4 DEF Chars
  <2>7. u = tag <=> u[1] = a /\ u[2] = b
    BY <2>6
  <2> QED
    BY <2>5, <2>7 DEF u
<1>3. \A i \in 1 .. Len(t) : i + Len(tag) - 1 = i + 1
  BY <1>1
<1>4. Places(tag, t) = {i \in 1 .. Len(t) : i + Len(tag) - 1 <= Len(t) /\ SubSeq(t, i, i + Len(tag) - 1) = tag}
  BY <1>1 DEF Places, Occurs
<1> HIDE DEF tag
<1>5. Places(tag, t) = {i \in 1 .. Len(t) : i + 1 <= Len(t) /\ SubSeq(t, i, i + 1) = tag}
  BY <1>3, <1>4
<1> QED
  BY <1>2, <1>5 DEF tag

\* A part of a text that grows.
LEMMA Within ==
    ASSUME NEW t \in Chars, NEW x \in Chars, NEW b \in Nat \ {0}, NEW n \in Int, n <= Len(t)
    PROVE  SubSeq(t \o x, b, n) = SubSeq(t, b, n)
<1> DEFINE w == t \o x
<1>1. /\ w \in Chars /\ Len(w) = Len(t) + Len(x) /\ Len(t) \in Nat /\ Len(x) \in Nat
      /\ \A i \in 1 .. Len(t) : w[i] = t[i]
  BY Twofold
<1> HIDE DEF w
<1>2. CASE b > n
  BY <1>2, SubSeqEmpty DEF w
<1>3. CASE b <= n
  <2>1. b \in Int /\ \A j \in b .. n : j \in 1 .. Len(t) /\ j \in 1 .. Len(w)
    BY <1>1, <1>3
  <2>2. \A j \in b .. n : t[j] \in Char /\ w[j] \in Char
    BY <1>1, <2>1, ElementOfSeq DEF Chars
  <2>3. /\ SubSeq(t, b, n) \in Chars /\ Len(SubSeq(t, b, n)) = n - b + 1
        /\ \A j \in 1 .. n - b + 1 : SubSeq(t, b, n)[j] = t[b + j - 1]
    BY <1>3, <2>1, <2>2, SubSeqProperties, Z3 DEF Chars
  <2>4. /\ SubSeq(w, b, n) \in Chars /\ Len(SubSeq(w, b, n)) = n - b + 1
        /\ \A j \in 1 .. n - b + 1 : SubSeq(w, b, n)[j] = w[b + j - 1]
    BY <1>3, <2>1, <2>2, SubSeqProperties, Z3 DEF Chars
  <2>5. \A j \in 1 .. n - b + 1 : b + j - 1 \in 1 .. Len(t)
    BY <1>1, <1>3
  <2>6. \A j \in 1 .. n - b + 1 : SubSeq(w, b, n)[j] = SubSeq(t, b, n)[j]
    BY <1>1, <2>3, <2>4, <2>5
  <2> DEFINE u == SubSeq(w, b, n)
             v == SubSeq(t, b, n)
  <2>7. u \in Chars /\ v \in Chars /\ Len(u) = Len(v) /\ \A j \in 1 .. Len(u) : u[j] = v[j]
    BY <2>3, <2>4, <2>6
  <2> HIDE DEF u, v
  <2>8. u = v
    BY <2>7, SeqEqual DEF Chars
  <2> QED
    BY <2>8 DEF u, v, w
<1> QED
  BY <1>1, <1>2, <1>3

\* The tags of a text that grows.
LEMMA TagsStay ==
    ASSUME NEW a, NEW b, NEW t \in Chars, NEW x \in Chars
    PROVE  /\ Places(<<a, b>>, t) \in SUBSET Nat
           /\ Places(<<a, b>>, t) \subseteq Places(<<a, b>>, t \o x)
           /\ \A i \in Places(<<a, b>>, t \o x) :
                 /\ i \in Nat /\ i >= 1 /\ i + 1 <= Len(t \o x) /\ (t \o x)[i + 1] = b
                 /\ i + 1 <= Len(t) => i \in Places(<<a, b>>, t)
           /\ \A i \in Places(<<a, b>>, t) : i \in Nat /\ i >= 1 /\ i + 1 <= Len(t) /\ t[i + 1] = b
<1> DEFINE w == t \o x
<1>1. /\ w \in Chars /\ Len(w) = Len(t) + Len(x) /\ Len(t) \in Nat /\ Len(x) \in Nat
      /\ \A i \in 1 .. Len(t) : w[i] = t[i]
  BY Twofold
<1>2. Places(<<a, b>>, t) = {i \in 1 .. Len(t) : i + 1 <= Len(t) /\ t[i] = a /\ t[i + 1] = b}
  BY Tagged
<1> HIDE DEF w
<1>3. Places(<<a, b>>, w) = {i \in 1 .. Len(w) : i + 1 <= Len(w) /\ w[i] = a /\ w[i + 1] = b}
  BY <1>1, Tagged
<1>4. \A i \in 1 .. Len(t) : i + 1 <= Len(t) => w[i] = t[i] /\ w[i + 1] = t[i + 1] /\ i \in 1 .. Len(w) /\ i + 1 <= Len(w)
  BY <1>1
<1>5. \A i \in 1 .. Len(w) : i + 1 <= Len(t) => i \in 1 .. Len(t)
  BY <1>1
<1>6. \A i \in 1 .. Len(w) : i \in Nat /\ i >= 1
  BY <1>1
<1>7. \A i \in 1 .. Len(t) : i \in Nat /\ i >= 1
  BY <1>1
<1>8. Places(<<a, b>>, t) \subseteq Places(<<a, b>>, w)
  BY <1>2, <1>3, <1>4
<1>9. \A i \in Places(<<a, b>>, w) :
                 /\ i \in Nat /\ i >= 1 /\ i + 1 <= Len(w) /\ w[i + 1] = b
                 /\ i + 1 <= Len(t) => i \in Places(<<a, b>>, t)
  BY <1>2, <1>3, <1>4, <1>5, <1>6
<1>10. \A i \in Places(<<a, b>>, t) : i \in Nat /\ i >= 1 /\ i + 1 <= Len(t) /\ t[i + 1] = b
  BY <1>2, <1>7
<1> QED
  BY <1>2, <1>7, <1>8, <1>9, <1>10 DEF w

\* Where the call begins is not moved by what comes later.
LEMMA BeginStays ==
    ASSUME NEW prefilled, NEW t \in Chars, NEW x \in Chars, t # <<>>, NEW b \in Nat, b <= Len(t) + 1
    PROVE  /\ Least(Begins(prefilled, t), b) <=> Least(Begins(prefilled, t \o x), b)
           /\ Least(Begins(prefilled, t), b) => b >= 1
<1> DEFINE w == t \o x
           P == Places(OpenTag, t)
           Q == Places(OpenTag, w)
<1>1. /\ w \in Chars /\ Len(t) \in Nat /\ Len(t) > 0 /\ w # <<>> /\ w[1] = t[1]
  <2>1. w \in Chars /\ Len(t) \in Nat /\ Len(x) \in Nat /\ Len(w) = Len(t) + Len(x) /\ \A i \in 1 .. Len(t) : w[i] = t[i]
    BY Twofold
  <2>2. Len(t) > 0
    BY <2>1, EmptySeq DEF Chars
  <2> HIDE DEF w
  <2>3. w # <<>> /\ 1 \in 1 .. Len(t)
    BY <2>1, <2>2, EmptySeq
  <2> QED
    BY <2>1, <2>2, <2>3
<1>2. CASE prefilled \/ t[1] = "{"
  <2>1. Begins(prefilled, t) = {1} /\ Begins(prefilled, w) = {1}
    BY <1>1, <1>2 DEF Begins
  <2> HIDE DEF w
  <2> QED
    BY <2>1 DEF Least, w
<1>3. CASE ~(prefilled \/ t[1] = "{")
  <2>1. Begins(prefilled, t) = {i + 2 : i \in P} /\ Begins(prefilled, w) = {i + 2 : i \in Q}
    <3>1. Len(OpenTag) = 2
      BY DEF OpenTag
    <3> QED
      BY <1>1, <1>3, <3>1 DEF Begins
  <2>2. /\ P \in SUBSET Nat /\ P \subseteq Q
        /\ \A i \in Q : i \in Nat /\ i >= 1 /\ (i + 1 <= Len(t) => i \in P)
        /\ \A i \in P : i \in Nat /\ i >= 1 /\ i + 1 <= Len(t)
    BY TagsStay DEF OpenTag
  <2> HIDE DEF P, Q, w
  <2>3. Least(Begins(prefilled, t), b) <=> \E i \in P : b = i + 2 /\ \A j \in P : b <= j + 2
    BY <2>1 DEF Least
  <2>4. Least(Begins(prefilled, w), b) <=> \E i \in Q : b = i + 2 /\ \A j \in Q : b <= j + 2
    BY <2>1 DEF Least
  <2>5. ASSUME NEW i \in P, b = i + 2, \A j \in P : b <= j + 2
        PROVE  i \in Q /\ (\A j \in Q : b <= j + 2) /\ b >= 1
    <3>1. \A j \in Q : j + 1 <= Len(t) => b <= j + 2
      BY <2>2, <2>5
    <3>2. \A j \in Q : ~(j + 1 <= Len(t)) => b <= j + 2
      BY <1>1, <2>2, <2>5
    <3> QED
      BY <2>2, <2>5, <3>1, <3>2
  <2>6. ASSUME NEW i \in Q, b = i + 2, \A j \in Q : b <= j + 2
        PROVE  i \in P /\ \A j \in P : b <= j + 2
    <3>1. i + 1 <= Len(t)
      BY <1>1, <2>2, <2>6
    <3> QED
      BY <2>2, <2>6, <3>1
  <2> QED
    BY <2>3, <2>4, <2>5, <2>6 DEF w
<1> QED
  BY <1>2, <1>3

LEMMA TurnIs ==
    ASSUME NEW prefilled, NEW t \in Chars
    PROVE  /\ CompleteTurn(prefilled, t) = IF Ends(prefilled, t) = {} THEN {} ELSE {Min(Ends(prefilled, t)) + 1}
           /\ Ends(prefilled, t) \in SUBSET Nat
           /\ \A i \in Ends(prefilled, t) : i >= 1 /\ i + 1 <= Len(t) /\ t[i + 1] = ">"
<1> DEFINE begins == Begins(prefilled, t)
           begin == Min(begins)
           ends == {i \in Places(CloseTag, t) : i >= begin /\ IsCall(SubSeq(t, begin, i - 1))}
           E == Ends(prefilled, t)
<1>1. DOMAIN t = 1 .. Len(t) /\ Len(t) \in Nat
  BY LenProperties DEF Chars
<1>2. /\ Places(CloseTag, t) \in SUBSET Nat
      /\ \A i \in Places(CloseTag, t) : i \in Nat /\ i >= 1 /\ i + 1 <= Len(t) /\ t[i + 1] = ">"
  BY TagsStay DEF CloseTag
<1>3. begins \in SUBSET Nat
  <2>1. Len(OpenTag) = 2
    BY DEF OpenTag
  <2>2. Places(OpenTag, t) \in SUBSET Nat
    BY TagsStay DEF OpenTag
  <2>3. \A i \in Places(OpenTag, t) : i + Len(OpenTag) \in Nat
    BY <2>1, <2>2
  <2>4. begins = {1} \/ begins = {i + Len(OpenTag) : i \in Places(OpenTag, t)}
    BY DEF Begins
  <2> HIDE DEF begins
  <2> QED
    BY <2>3, <2>4
<1>4. CompleteTurn(prefilled, t) =
         IF begins = {} \/ ends = {} THEN {} ELSE {Min(ends) + Len(CloseTag) - 1}
  BY DEF CompleteTurn, Begins
<1> HIDE DEF begins
<1>5. E \subseteq Places(CloseTag, t)
  BY DEF Ends, EndsAt
<1>6. CASE begins = {}
  <2>1. E = {}
    BY <1>6 DEF Ends, EndsAt, Least, begins
  <2> QED
    BY <1>2, <1>4, <1>5, <1>6, <2>1
<1>7. CASE begins # {}
  <2>1. Least(begins, begin) /\ begin \in Nat
    BY <1>3, <1>7, Minimum DEF Least
  <2>2. \A b \in Nat : Least(begins, b) => b = begin
    BY <1>3, <2>1 DEF Least
  <2> HIDE DEF begin
  <2>3. \A i \in DOMAIN t : (\E b \in Nat : EndsAt(prefilled, t, b, i)) <=> EndsAt(prefilled, t, begin, i)
    BY <2>1, <2>2 DEF EndsAt, begins
  <2>4. \A i \in DOMAIN t : EndsAt(prefilled, t, begin, i) <=> i \in ends
    BY <2>1 DEF EndsAt, begins
  <2>5. \A i \in ends : i \in DOMAIN t
    BY DEF Places
  <2>6. E = ends
    BY <2>3, <2>4, <2>5 DEF Ends
  <2>7. ends # {} => Min(ends) + Len(CloseTag) - 1 = Min(ends) + 1
    <3>1. Len(CloseTag) = 2
      BY DEF CloseTag
    <3>2. ends # {} => Min(ends) \in Nat
      <4>1. ends \in SUBSET Nat
        BY <1>2
      <4> HIDE DEF ends
      <4> QED
        BY <4>1, Minimum
    <3> HIDE DEF ends
    <3> QED
      BY <3>1, <3>2
  <2> HIDE DEF ends, E
  <2>8. CompleteTurn(prefilled, t) = IF E = {} THEN {} ELSE {Min(E) + 1}
    BY <1>4, <1>7, <2>6, <2>7
  <2> QED
    BY <1>2, <1>5, <2>8 DEF E
<1> QED
  BY <1>6, <1>7

\* Nor is where it may end.
LEMMA EndsStay ==
    ASSUME NEW prefilled, NEW t \in Chars, NEW x \in Chars, NEW i \in Nat, i + 1 <= Len(t)
    PROVE  i \in Ends(prefilled, t) <=> i \in Ends(prefilled, t \o x)
<1> DEFINE w == t \o x
           close(u) == Places(CloseTag, u)
           call(u, b) == IsCall(SubSeq(u, b, i - 1))
<1>1. /\ w \in Chars /\ Len(t) \in Nat /\ Len(x) \in Nat /\ Len(w) = Len(t) + Len(x)
      /\ t # <<>> /\ DOMAIN t = 1 .. Len(t) /\ DOMAIN w = 1 .. Len(w)
  <2>1. w \in Chars /\ Len(t) \in Nat /\ Len(x) \in Nat /\ Len(w) = Len(t) + Len(x)
    BY Twofold
  <2>2. t # <<>>
    BY <2>1, EmptySeq
  <2> HIDE DEF w
  <2> QED
    BY <2>1, <2>2, LenProperties DEF Chars
<1>2. i \in close(t) <=> i \in close(w)
  BY TagsStay DEF CloseTag
<1>3. \A b \in Nat : b >= 1 => (call(t, b) <=> call(w, b))
  <2> TAKE b \in Nat
  <2> HAVE b >= 1
  <2>1. i - 1 \in Int /\ i - 1 <= Len(t) /\ b \in Nat \ {0}
    BY <1>1
  <2>2. SubSeq(w, b, i - 1) = SubSeq(t, b, i - 1)
    BY <2>1, Within
  <2> QED
    BY <2>2
<1>4. \A b \in Nat : i >= b => /\ Least(Begins(prefilled, t), b) <=> Least(Begins(prefilled, w), b)
                               /\ Least(Begins(prefilled, t), b) => b >= 1
  <2> TAKE b \in Nat
  <2> HAVE i >= b
  <2>1. b <= Len(t) + 1
    BY <1>1
  <2> QED
    BY <1>1, <2>1, BeginStays
<1> HIDE DEF w, close, call
<1>5. \A b \in Nat : EndsAt(prefilled, t, b, i) <=> EndsAt(prefilled, w, b, i)
  BY <1>2, <1>3, <1>4 DEF EndsAt, close, call
<1>6. i \in close(t) => i \in 1 .. Len(t) /\ i \in 1 .. Len(w)
  BY <1>1 DEF close, Places
<1>7. i \in Ends(prefilled, t) => i \in Ends(prefilled, w)
  BY <1>1, <1>5, <1>6 DEF Ends, EndsAt, close
<1>8. i \in Ends(prefilled, w) => i \in Ends(prefilled, t)
  BY <1>1, <1>2, <1>5, <1>6 DEF Ends, EndsAt, close
<1> QED
  BY <1>7, <1>8 DEF w

\* What more text does to a tool turn.
LEMMA TurnStays ==
    ASSUME NEW prefilled, NEW t \in Chars, NEW x \in Chars
    PROVE  /\ CompleteTurn(prefilled, t) # {} => CompleteTurn(prefilled, t \o x) = CompleteTurn(prefilled, t)
           /\ CompleteTurn(prefilled, t) = {} /\ CompleteTurn(prefilled, t \o x) # {} =>
                 /\ Contains(x, ">")
                 /\ Min(CompleteTurn(prefilled, t \o x)) \in Len(t) + 1 .. Len(t \o x)
<1> DEFINE w == t \o x
           S == Ends(prefilled, t)
           W == Ends(prefilled, w)
<1>1. /\ w \in Chars /\ Len(t) \in Nat /\ Len(x) \in Nat /\ Len(w) = Len(t) + Len(x)
      /\ \A i \in 1 .. Len(x) : w[Len(t) + i] = x[i]
  BY Twofold
<1>2. /\ CompleteTurn(prefilled, t) = IF S = {} THEN {} ELSE {Min(S) + 1}
      /\ S \in SUBSET Nat /\ \A i \in S : i >= 1 /\ i + 1 <= Len(t)
  BY TurnIs
<1>3. \A i \in Nat : i + 1 <= Len(t) => (i \in S <=> i \in W)
  BY EndsStay
<1> HIDE DEF w
<1>4. /\ CompleteTurn(prefilled, w) = IF W = {} THEN {} ELSE {Min(W) + 1}
      /\ W \in SUBSET Nat /\ \A i \in W : i >= 1 /\ i + 1 <= Len(w) /\ w[i + 1] = ">"
  BY <1>1, TurnIs
<1> HIDE DEF S, W
<1>5. ASSUME S # {}
      PROVE  W # {} /\ Min(W) = Min(S)
  <2>1. Min(S) \in S /\ \A i \in S : Min(S) <= i
    BY <1>2, <1>5, Minimum
  <2>2. Min(S) \in W /\ Min(S) \in Nat /\ Min(S) + 1 <= Len(t)
    BY <1>2, <1>3, <2>1
  <2>3. Min(W) \in W /\ \A i \in W : Min(W) <= i
    BY <1>4, <2>2, Minimum
  <2>4. Min(W) \in Nat /\ Min(W) <= Min(S)
    BY <1>4, <2>2, <2>3
  <2>5. Min(W) + 1 <= Len(t)
    BY <1>1, <2>2, <2>4
  <2>6. Min(S) <= Min(W)
    BY <1>3, <2>1, <2>3, <2>4, <2>5
  <2> QED
    BY <2>2, <2>4, <2>6
<1>6. CompleteTurn(prefilled, t) # {} => CompleteTurn(prefilled, w) = CompleteTurn(prefilled, t)
  BY <1>2, <1>4, <1>5
<1>7. ASSUME S = {}, W # {}
      PROVE  /\ Contains(x, ">")
             /\ Min(CompleteTurn(prefilled, w)) \in Len(t) + 1 .. Len(w)
  <2> DEFINE m == Min(W)
  <2>1. m \in W
    BY <1>4, <1>7, Minimum
  <2> HIDE DEF m
  <2>2. m \in Nat /\ m >= 1 /\ m + 1 <= Len(w) /\ w[m + 1] = ">" /\ ~(m + 1 <= Len(t))
    BY <1>3, <1>4, <1>7, <2>1
  <2> DEFINE j == m + 1 - Len(t)
  <2>3. j \in 1 .. Len(x) /\ Len(t) + j = m + 1
    BY <1>1, <2>2
  <2> HIDE DEF j
  <2>4. x[j] = ">"
    BY <1>1, <2>2, <2>3
  <2>5. Contains(x, ">")
    BY <2>3, <2>4 DEF Contains
  <2>6. m + 1 \in Len(t) + 1 .. Len(w)
    BY <1>1, <2>2
  <2>7. Min({m + 1}) = m + 1
    <3>1. m + 1 <= m + 1
      BY <2>2
    <3> HIDE DEF m
    <3> QED
      BY <3>1 DEF Min
  <2> QED
    BY <1>4, <1>7, <2>5, <2>6, <2>7 DEF m
<1> QED
  BY <1>2, <1>4, <1>6, <1>7 DEF w

-----------------------------------------------------------------------------
(* The text: the decoder and the tool turn before the filter.              *)

\* The part of the decoded text that is meant for the filter.
Part(r, text) == IF r.tools THEN UpToCall(r.prefilled, text) ELSE text

\* What generateConversation() and the filter have made of the decoded text so far.
Heard(r, s, text) ==
    /\ text \in Chars
    /\ Fed(r.stops, s.filter, Part(r, text))
    /\ r.tools => /\ s.yielded <=> CompleteTurn(r.prefilled, text) # {}
                  /\ ~s.yielded => s.generated = text /\ s.delivered = Len(text)

\* A turn that is complete is not changed by what comes later.
LEMMA CompleteStays ==
    ASSUME NEW text \in Chars, NEW x \in Chars, CompleteTurn(req.prefilled, text) # {}
    PROVE  UpToCall(req.prefilled, text \o x) = UpToCall(req.prefilled, text)
<1> DEFINE n == Min(CompleteTurn(req.prefilled, text))
<1>1. CompleteTurn(req.prefilled, text \o x) = CompleteTurn(req.prefilled, text)
  BY TurnStays
<1>2. n \in 1 .. Len(text) /\ Len(text) \in Nat
  BY TurnEnds, Twofold
<1> HIDE DEF n
<1>3. n \in 0 .. Len(text)
  BY <1>2
<1>4. SubSeq(text \o x, 1, n) = SubSeq(text, 1, n)
  BY <1>3, Begun
<1> QED
  BY <1>1, <1>4 DEF UpToCall, n

\* onText(): what it is given is heard.
LEMMA DeliverHears ==
    ASSUME req.stops \in SUBSET Chars, <<>> \notin req.stops, req.tools \in BOOLEAN,
           NEW s, SinkRules(req.stops, s), NEW text, Heard(req, s, text), NEW x \in Chars
    PROVE  Heard(req, Deliver(s, x), text \o x)
<1> DEFINE stops == req.stops
           Sinks == [carry : Chars, generated : Chars, delivered : Nat, yielded : BOOLEAN, filter : Filters]
           w == text \o x
           turn(u) == CompleteTurn(req.prefilled, u)
<1>1. s \in Sinks /\ FilterRules(stops, s.filter) /\ text \in Chars /\ Fed(stops, s.filter, Part(req, text))
  BY DEF SinkRules, Heard
<1>2. /\ w \in Chars /\ Len(text) \in Nat /\ Len(x) \in Nat /\ Len(w) = Len(text) + Len(x)
  BY <1>1, Twofold
<1>3. CASE x = <<>>
  <2>1. w = text
    BY <1>1, <1>3, ConcatEmptySeq DEF Chars
  <2> QED
    BY <1>3, <2>1 DEF Deliver
<1>4. CASE x # <<>> /\ ~req.tools
  <2>1. Deliver(s, x).filter = Push(stops, s.filter, x)
    BY <1>1, <1>4 DEF Deliver
  <2>2. Part(req, text) = text /\ Part(req, w) = w
    BY <1>4 DEF Part
  <2>3. Fed(stops, Push(stops, s.filter, x), w)
    BY <1>1, <2>2, PushFeeds
  <2> HIDE DEF w
  <2> QED
    BY <1>2, <1>4, <2>1, <2>2, <2>3 DEF Heard, w
<1>5. CASE x # <<>> /\ req.tools /\ s.yielded
  <2>1. Deliver(s, x) = s
    BY <1>5 DEF Deliver, DeliverTurn
  <2>2. turn(text) # {}
    BY <1>5 DEF Heard
  <2>3. turn(w) # {}
    BY <1>1, <2>2, TurnStays
  <2>4. Part(req, w) = Part(req, text)
    BY <1>1, <1>5, <2>2, CompleteStays DEF Part
  <2> HIDE DEF w, turn
  <2> QED
    BY <1>1, <1>2, <1>5, <2>1, <2>3, <2>4 DEF Heard, w, turn
<1>6. CASE x # <<>> /\ req.tools /\ ~s.yielded
  <2> DEFINE ends == IF Contains(x, ">") THEN turn(w) ELSE {}
             end == IF ends = {} THEN Len(w) ELSE Min(ends)
             part == SubSeq(w, Len(text) + 1, end)
             r == [s EXCEPT !.generated = w, !.delivered = end, !.yielded = (ends # {}),
                            !.filter = Push(stops, s.filter, part)]
  <2>1. s.generated = text /\ s.delivered = Len(text) /\ turn(text) = {}
    BY <1>6 DEF Heard
  <2>2. Deliver(s, x) = r
    BY <1>1, <1>6, <2>1 DEF Deliver, DeliverTurn
  <2>3. ends = turn(w)
    BY <1>1, <2>1, TurnStays
  <2>4. turn(w) # {} => Min(turn(w)) \in Len(text) + 1 .. Len(w)
    BY <1>1, <2>1, TurnStays
  <2>5. r.generated = w /\ r.delivered = end /\ r.yielded = (ends # {}) /\ r.filter = Push(stops, s.filter, part)
    BY <1>1
  <2>6. UpToCall(req.prefilled, text) = text
    BY <2>1 DEF UpToCall
  <2>7. UpToCall(req.prefilled, w) = SubSeq(w, 1, end)
    <3>1. SubSeq(w, 1, Len(w)) = w
      BY <1>2, SubSeqFull DEF Chars
    <3> HIDE DEF w, ends
    <3> QED
      BY <2>3, <3>1 DEF UpToCall
  <2>8. end \in Len(text) .. Len(w)
    <3>1. Len(text) <= Len(w)
      BY <1>2
    <3> HIDE DEF w, turn, ends
    <3> QED
      BY <1>2, <2>3, <2>4, <3>1
  <2> HIDE DEF r, end, ends
  <2>9. text \o part = SubSeq(w, 1, end)
    <3>1. SubSeq(w, 1, Len(text)) = text
      <4>1. Len(text) \in 0 .. Len(text)
        BY <1>2
      <4>2. SubSeq(w, 1, Len(text)) = SubSeq(text, 1, Len(text))
        BY <1>1, <4>1, Begun
      <4> QED
        BY <1>1, <4>2, SubSeqFull DEF Chars
    <3> HIDE DEF w
    <3>2. 1 \in 1 .. Len(w) + 1 /\ Len(text) \in 1 - 1 .. Len(w) /\ end \in Len(text) .. Len(w)
      BY <1>2, <2>8
    <3>3. SubSeq(w, 1, Len(text)) \o SubSeq(w, Len(text) + 1, end) = SubSeq(w, 1, end)
      BY <1>2, <3>2, ConcatAdjacentSubSeq DEF Chars
    <3> QED
      BY <3>1, <3>3
  <2>10. part \in Chars
    <3> DEFINE n == Len(text) + 1
    <3>1. n \in Int /\ end \in Int /\ \A i \in n .. end : i \in 1 .. Len(w)
      BY <1>2, <2>8
    <3> HIDE DEF w
    <3>2. \A i \in n .. end : w[i] \in Char
      BY <1>2, <3>1, ElementOfSeq DEF Chars
    <3> HIDE DEF n
    <3>3. SubSeq(w, n, end) \in Chars
      BY <3>1, <3>2, SubSeqProperties, Z3 DEF Chars
    <3> QED
      BY <3>3 DEF n
  <2> HIDE DEF part, w
  <2>11. Fed(stops, Push(stops, s.filter, part), text \o part)
    <3>1. Fed(stops, s.filter, text)
      BY <1>1, <1>6, <2>6 DEF Part
    <3> QED
      BY <1>1, <2>10, <3>1, PushFeeds
  <2>12. Part(req, w) = text \o part
    BY <1>6, <2>7, <2>9 DEF Part
  <2>13. Fed(stops, r.filter, Part(req, w))
    BY <2>5, <2>11, <2>12
  <2>14. r.yielded <=> turn(w) # {}
    BY <2>3, <2>5
  <2>15. ~r.yielded => r.generated = w /\ r.delivered = Len(w)
    BY <2>5 DEF end
  <2> HIDE DEF turn
  <2>16. Heard(req, r, w)
    BY <1>2, <2>13, <2>14, <2>15 DEF Heard, turn
  <2> QED
    BY <2>2, <2>16 DEF w
<1> QED
  BY <1>3, <1>4, <1>5, <1>6

\* A decoder that has already made some text makes the same of the next byte.
LEMMA Decode1Adds ==
    ASSUME NEW u \in Chars, NEW d \in Decoded, NEW byte \in Char
    PROVE  Decode1([text |-> u \o d.text, carry |-> d.carry], byte) =
              [text |-> u \o Decode1(d, byte).text, carry |-> Decode1(d, byte).carry]
<1>1. d.text \in Chars /\ d.carry \in Chars
  BY DEF Decoded
<1>0. ASSUME NEW S PROVE /\ <<>> \in Seq(S)
                         /\ \A a \in S : <<a>> \in Seq(S)
                         /\ \A a, b \in S : <<a, b>> \in Seq(S)
  OBVIOUS
<1>2. <<>> \in Chars /\ <<byte>> \in Chars /\ <<Bad>> \in Chars
  <2>1. Bad \in Char
    BY DEF Char
  <2> QED
    BY <1>0, <2>1, Zenon DEF Chars
<1>3. \A lead : Character(lead) \in Chars
  <2>1. "LC" \in Char /\ High \in Char /\ "low surrogate" \in Char
    BY DEF Char
  <2>2. <<"LC">> \in Chars /\ <<High, "low surrogate">> \in Chars
    BY <1>0, <2>1, Zenon DEF Chars
  <2> QED
    BY <2>2, Zenon DEF Character
<1> DEFINE broken == IF d.carry # <<>> THEN <<Bad>> ELSE <<>>
           made == IF d.carry = <<>> THEN <<Bad>> ELSE Character(d.carry[1])
           v == d.text
           c == [text |-> u \o v, carry |-> d.carry]
<1>4. broken \in Chars /\ made \in Chars
  BY <1>2, <1>3
<1>5. Decode1(d, byte) =
        IF byte = "C" THEN [text |-> v \o made, carry |-> <<>>]
        ELSE IF byte \in {"L", "W"} THEN [text |-> v \o broken, carry |-> <<byte>>]
        ELSE [text |-> (v \o broken) \o <<byte>>, carry |-> <<>>]
  BY DEF Decode1
<1>6. Decode1(c, byte) =
        IF byte = "C" THEN [text |-> (u \o v) \o made, carry |-> <<>>]
        ELSE IF byte \in {"L", "W"} THEN [text |-> (u \o v) \o broken, carry |-> <<byte>>]
        ELSE [text |-> ((u \o v) \o broken) \o <<byte>>, carry |-> <<>>]
  BY DEF Decode1
<1> DEFINE last == <<byte>>
<1>7. v \in Chars /\ last \in Chars
  BY <1>1, <1>2
<1> HIDE DEF broken, made, v, last
<1>8. \A a, b, e \in Chars : (a \o b) \o e = a \o (b \o e)
  BY ConcatAssociative DEF Chars
<1>9. (u \o v) \o made = u \o (v \o made)
  BY <1>4, <1>7, <1>8
<1>10. (u \o v) \o broken = u \o (v \o broken)
  BY <1>4, <1>7, <1>8
<1>11. (u \o (v \o broken)) \o last = u \o ((v \o broken) \o last)
  <2>1. v \o broken \in Chars
    BY <1>4, <1>7, ConcatProperties DEF Chars
  <2> QED
    BY <1>7, <1>8, <2>1
<1>12. Decode1(c, byte) = [text |-> u \o Decode1(d, byte).text, carry |-> Decode1(d, byte).carry]
  <2> HIDE DEF c
  <2>1. CASE byte = "C"
    BY <1>5, <1>6, <1>9, <2>1
  <2>2. CASE byte # "C" /\ byte \in {"L", "W"}
    BY <1>5, <1>6, <1>10, <2>2
  <2>3. CASE byte # "C" /\ byte \notin {"L", "W"}
    <3>1. Decode1(d, byte) = [text |-> (v \o broken) \o last, carry |-> <<>>]
      BY <1>5, <2>3 DEF last
    <3>2. Decode1(c, byte) = [text |-> ((u \o v) \o broken) \o last, carry |-> <<>>]
      BY <1>6, <2>3 DEF last
    <3>3. ((u \o v) \o broken) \o last = u \o ((v \o broken) \o last)
      BY <1>10, <1>11, Zenon
    <3> DEFINE y == (v \o broken) \o last
               z == Decode1(d, byte)
    <3>4. Decode1(c, byte) = [text |-> u \o y, carry |-> <<>>]
      BY <3>2, <3>3
    <3> HIDE DEF y, z
    <3>5. z.text = y /\ z.carry = <<>>
      BY <3>1 DEF y, z
    <3> QED
      BY <3>4, <3>5 DEF z
  <2> QED
    BY <2>1, <2>2, <2>3
<1> QED
  BY <1>12 DEF c, v

\* Bytes that come in two parts are decoded as they are in one.
LEMMA Utf8Joins ==
    ASSUME NEW carry \in Chars, NEW a \in Chars, NEW b \in Chars
    PROVE  LET d == Utf8(carry, a)
               e == Utf8(d.carry, b)
           IN  Utf8(carry, a \o b) = [text |-> d.text \o e.text, carry |-> e.carry]
<1> DEFINE d == Utf8(carry, a)
           e == Utf8(d.carry, b)
           w == a \o b
           k == Len(a)
           l == Len(b)
           add(x) == [text |-> d.text \o x.text, carry |-> x.carry]
<1>1. /\ w \in Chars /\ k \in Nat /\ l \in Nat /\ Len(w) = k + l
      /\ \A i \in 1 .. k : w[i] = a[i] /\ a[i] \in Char
      /\ \A i \in 1 .. l : w[k + i] = b[i] /\ b[i] \in Char
  <2>1. (\A i \in 1 .. k : a[i] \in Char) /\ (\A i \in 1 .. l : b[i] \in Char)
    BY ElementOfSeq DEF Chars
  <2> QED
    BY <2>1, Twofold
<1>2. d \in Decoded /\ d.text \in Chars /\ d.carry \in Chars
  <2>1. d \in Decoded
    BY Utf8Type
  <2> HIDE DEF d
  <2> QED
    BY <2>1 DEF Decoded
<1>3. PICK f : Decoding(carry, a, f) /\ d = f[k]
  BY Utf8Steps
<1> HIDE DEF d
<1>4. PICK g : Decoding(d.carry, b, g) /\ e = g[l]
  BY <1>2, Utf8Steps
<1> HIDE DEF e, w
<1>5. PICK h : Decoding(carry, w, h) /\ Utf8(carry, w) = h[Len(w)]
  BY <1>1, Utf8Steps
<1> HIDE DEF k, l
<1>6. \A n \in 0 .. k : h[n] = f[n]
  <2> DEFINE Good == {n \in Nat : n <= k => h[n] = f[n]}
  <2>1. 0 \in Good
    BY <1>3, <1>5 DEF Decoding
  <2>2. ASSUME NEW n \in Good PROVE n + 1 \in Good
    <3> SUFFICES ASSUME n + 1 <= k PROVE h[n + 1] = f[n + 1]
      OBVIOUS
    <3>1. n \in 0 .. k - 1 /\ n \in 0 .. Len(w) - 1 /\ n <= k /\ n + 1 \in 1 .. k
      BY <1>1
    <3>2. h[n] = f[n] /\ w[n + 1] = a[n + 1]
      BY <1>1, <3>1
    <3>3. h[n + 1] = Decode1(h[n], w[n + 1])
      BY <1>5, <3>1 DEF Decoding
    <3>4. f[n + 1] = Decode1(f[n], a[n + 1])
      BY <1>3, <3>1 DEF Decoding, k
    <3> QED
      BY <3>2, <3>3, <3>4
  <2>3. Good \in SUBSET Nat
    OBVIOUS
  <2> HIDE DEF Good
  <2>4. \A n \in Nat : n \in Good
    BY <2>1, <2>2, <2>3, OneByOne
  <2> QED
    BY <1>1, <2>4 DEF Good
<1>7. \A n \in 0 .. l : h[k + n] = add(g[n])
  <2> DEFINE Good == {n \in Nat : n <= l => h[k + n] = add(g[n])}
  <2>1. 0 \in Good
    <3>1. k + 0 = k /\ k \in 0 .. k
      BY <1>1
    <3>2. h[k] = d
      BY <1>3, <1>6, <3>1
    <3>3. g[0] = [text |-> <<>>, carry |-> d.carry]
      BY <1>4 DEF Decoding
    <3>4. d.text \o <<>> = d.text
      BY <1>2, ConcatEmptySeq DEF Chars
    <3>5. add(g[0]) = [text |-> d.text, carry |-> d.carry]
      BY <3>3, <3>4
    <3>6. d = [text |-> d.text, carry |-> d.carry]
      BY <1>2 DEF Decoded
    <3>7. h[k + 0] = add(g[0])
      BY <3>1, <3>2, <3>5, <3>6
    <3> HIDE DEF add
    <3> QED
      BY <3>7
  <2>2. ASSUME NEW n \in Good PROVE n + 1 \in Good
    <3> SUFFICES ASSUME n + 1 <= l PROVE h[k + (n + 1)] = add(g[n + 1])
      OBVIOUS
    <3>1. n \in 0 .. l - 1 /\ k + n \in 0 .. Len(w) - 1 /\ n <= l /\ n + 1 \in 1 .. l /\ k + (n + 1) = (k + n) + 1
          /\ n \in 0 .. l
      BY <1>1
    <3>2. h[k + n] = add(g[n]) /\ w[k + (n + 1)] = b[n + 1] /\ b[n + 1] \in Char
      BY <1>1, <3>1
    <3>3. h[(k + n) + 1] = Decode1(h[k + n], w[(k + n) + 1])
      BY <1>5, <3>1 DEF Decoding
    <3>4. g[n + 1] = Decode1(g[n], b[n + 1]) /\ g[n] \in Decoded
      BY <1>4, <3>1 DEF Decoding, l
    <3>5. Decode1(add(g[n]), b[n + 1]) = add(Decode1(g[n], b[n + 1]))
      BY <1>2, <3>2, <3>4, Decode1Adds
    <3> HIDE DEF add
    <3> QED
      BY <3>1, <3>2, <3>3, <3>4, <3>5
  <2>3. Good \in SUBSET Nat
    OBVIOUS
  <2> HIDE DEF Good, add
  <2>4. \A n \in Nat : n \in Good
    BY <2>1, <2>2, <2>3, OneByOne
  <2> QED
    BY <1>1, <2>4 DEF Good
<1>8. h[Len(w)] = add(e)
  <2>1. l \in 0 .. l
    BY <1>1
  <2> QED
    BY <1>1, <1>4, <1>7, <2>1
<1>9. Utf8(carry, w) = [text |-> d.text \o e.text, carry |-> e.carry]
  BY <1>5, <1>8
<1> QED
  BY <1>9 DEF d, e, w


\* The bytes of tokens, token by token.
LEMMA FlatteningExists ==
    ASSUME NEW q, NEW n \in Nat
    PROVE  \E h : h = [i \in 1 .. n |-> IF i = 1 THEN q[i] ELSE h[i - 1] \o q[i]]
<1> DEFINE step(h, i) == IF i = 1 THEN q[i] ELSE h[i - 1] \o q[i]
           Good == {m \in Nat : \E h : \A i \in 1 .. m : h[i] = step(h, i)}
<1>1. 0 \in Good
  <2>1. 1 .. 0 = {}
    OBVIOUS
  <2> QED
    BY <2>1
<1>2. ASSUME NEW m \in Good PROVE m + 1 \in Good
  <2>1. PICK g : \A i \in 1 .. m : g[i] = step(g, i)
    OBVIOUS
  <2> DEFINE h == [i \in 1 .. m + 1 |-> step(g, i)]
  <2>2. ASSUME NEW i \in 1 .. m + 1 PROVE h[i] = step(h, i)
    <3>1. CASE i = 1
      BY <3>1
    <3>2. CASE i # 1
      <4>1. i - 1 \in 1 .. m /\ i - 1 \in 1 .. m + 1
        BY <3>2
      <4>2. h[i - 1] = g[i - 1]
        BY <2>1, <4>1
      <4> QED
        BY <3>2, <4>2
    <3> QED
      BY <3>1, <3>2
  <2>3. m + 1 \in Nat
    OBVIOUS
  <2> HIDE DEF h, step
  <2>4. \E k : \A i \in 1 .. m + 1 : k[i] = step(k, i)
    BY <2>2
  <2> QED
    BY <2>3, <2>4
<1>3. n \in Good
  <2>1. Good \in SUBSET Nat
    OBVIOUS
  <2> HIDE DEF Good
  <2> QED
    BY <1>1, <1>2, <2>1, OneByOne
<1>4. PICK g : \A i \in 1 .. n : g[i] = step(g, i)
  BY <1>3
<1> DEFINE h == [i \in 1 .. n |-> g[i]]
<1>5. ASSUME NEW i \in 1 .. n PROVE step(h, i) = step(g, i)
  <2>1. i # 1 => i - 1 \in 1 .. n
    OBVIOUS
  <2> QED
    BY <2>1
<1>6. h = [i \in 1 .. n |-> step(h, i)]
  <2> HIDE DEF step
  <2> QED
    BY <1>4, <1>5
<1> QED
  BY <1>6

LEMMA Flattened ==
    ASSUME NEW q \in Seq(Chars), Len(q) > 0
    PROVE  \E h : /\ h[1] = q[1]
                  /\ \A i \in 1 .. Len(q) - 1 : h[i + 1] = h[i] \o q[i + 1]
                  /\ FlattenSeq(q) = h[Len(q)]
<1> DEFINE n == Len(q)
           g == CHOOSE g : g = [i \in 1 .. n |-> IF i = 1 THEN q[i] ELSE g[i - 1] \o q[i]]
<1>1. n \in Nat /\ n > 0 /\ n # 0
  BY LenProperties
<1>2. FlattenSeq(q) = g[n]
  BY <1>1 DEF FlattenSeq
<1>3. g = [i \in 1 .. n |-> IF i = 1 THEN q[i] ELSE g[i - 1] \o q[i]]
  <2> HIDE DEF n
  <2> QED
    BY <1>1, FlatteningExists
<1> HIDE DEF g, n
<1>4. \A i \in 1 .. n : g[i] = IF i = 1 THEN q[i] ELSE g[i - 1] \o q[i]
  BY <1>3
<1>5. g[1] = q[1]
  BY <1>1, <1>4
<1>6. ASSUME NEW i \in 1 .. n - 1 PROVE g[i + 1] = g[i] \o q[i + 1]
  <2>1. i + 1 \in 1 .. n /\ i + 1 # 1 /\ (i + 1) - 1 = i
    BY <1>1
  <2> QED
    BY <1>4, <2>1
<1> QED
  BY <1>2, <1>5, <1>6 DEF n

LEMMA FlattenAppend ==
    ASSUME NEW q \in Seq(Chars), NEW p \in Chars
    PROVE  /\ FlattenSeq(q) \in Chars
           /\ FlattenSeq(Append(q, p)) = FlattenSeq(q) \o p
<1> DEFINE n == Len(q)
           w == Append(q, p)
<1>1. /\ n \in Nat /\ w \in Seq(Chars) /\ Len(w) = n + 1 /\ w[n + 1] = p
      /\ \A i \in 1 .. n : w[i] = q[i] /\ q[i] \in Chars
  BY LenProperties, AppendProperties, ElementOfSeq
<1> HIDE DEF w
<1>2. PICK g : /\ g[1] = w[1]
               /\ \A i \in 1 .. n : g[i + 1] = g[i] \o w[i + 1]
               /\ FlattenSeq(w) = g[n + 1]
  <2>1. Len(w) > 0 /\ Len(w) - 1 = n
    BY <1>1
  <2> QED
    BY <1>1, <2>1, Flattened
<1>3. CASE n = 0
  <2>1. q = <<>> /\ FlattenSeq(q) = q /\ <<>> \in Chars
    BY <1>3, EmptySeq DEF FlattenSeq, Chars
  <2>2. FlattenSeq(w) = p
    BY <1>1, <1>2, <1>3
  <2>3. <<>> \o p = p
    BY ConcatEmptySeq DEF Chars
  <2> QED
    BY <2>1, <2>2, <2>3 DEF w
<1>4. CASE n > 0
  <2>1. PICK h : /\ h[1] = q[1]
                 /\ \A i \in 1 .. n - 1 : h[i + 1] = h[i] \o q[i + 1]
                 /\ FlattenSeq(q) = h[n]
    BY <1>4, Flattened
  <2> DEFINE Good == {m \in Nat : m + 1 <= n => h[m + 1] \in Chars /\ g[m + 1] = h[m + 1]}
  <2>2. 0 \in Good
    <3>1. 1 \in 1 .. n /\ 0 + 1 = 1
      BY <1>1, <1>4
    <3> QED
      BY <1>1, <1>2, <2>1, <3>1
  <2>3. ASSUME NEW m \in Good PROVE m + 1 \in Good
    <3> DEFINE k == m + 1
    <3> SUFFICES ASSUME k + 1 <= n PROVE h[k + 1] \in Chars /\ g[k + 1] = h[k + 1]
      OBVIOUS
    <3>1. k \in 1 .. n - 1 /\ k + 1 \in 1 .. n /\ k \in 1 .. n /\ m + 1 <= n
      BY <1>1
    <3>2. h[k] \in Chars /\ g[k] = h[k]
      BY <3>1
    <3> HIDE DEF k, Good
    <3>3. h[k + 1] = h[k] \o q[k + 1] /\ g[k + 1] = g[k] \o w[k + 1]
      BY <1>2, <2>1, <3>1
    <3>4. w[k + 1] = q[k + 1] /\ q[k + 1] \in Chars
      BY <1>1, <3>1
    <3>5. h[k] \o q[k + 1] \in Chars
      BY <3>2, <3>4, ConcatProperties DEF Chars
    <3> QED
      BY <3>2, <3>3, <3>4, <3>5
  <2>4. Good \in SUBSET Nat
    OBVIOUS
  <2> HIDE DEF Good
  <2>5. \A m \in Nat : m \in Good
    BY <2>2, <2>3, <2>4, OneByOne
  <2>6. n - 1 \in Good /\ (n - 1) + 1 = n /\ n \in 1 .. n
    BY <1>1, <1>4, <2>5
  <2>7. h[n] \in Chars /\ g[n] = h[n]
    BY <1>1, <2>6 DEF Good
  <2>8. g[n + 1] = g[n] \o p
    BY <1>1, <1>2, <2>6
  <2> QED
    BY <1>2, <2>1, <2>7, <2>8 DEF w
<1> QED
  BY <1>1, <1>3, <1>4

\* The bytes of one more token.
LEMMA BytesAppend ==
    ASSUME NEW tokens \in Tokens, NEW t \in Token
    PROVE  /\ BytesOf(tokens) \in Chars
           /\ BytesOf(Append(tokens, t)) = BytesOf(tokens) \o Piece[t]
<1> DEFINE pieces(u) == [i \in DOMAIN u |-> Piece[u[i]]]
           n == Len(tokens)
           w == Append(tokens, t)
           q == pieces(tokens)
           p == Piece[t]
<1>1. /\ n \in Nat /\ DOMAIN tokens = 1 .. n /\ \A i \in 1 .. n : tokens[i] \in Token
      /\ w \in Tokens /\ Len(w) = n + 1 /\ w[n + 1] = t
      /\ \A i \in 1 .. n : w[i] = tokens[i]
  BY LenProperties, AppendProperties, ElementOfSeq DEF Tokens
<1>2. DOMAIN w = 1 .. n + 1
  BY <1>1, LenProperties DEF Tokens
<1> HIDE DEF w
<1>3. p \in Chars /\ \A i \in 1 .. n : Piece[tokens[i]] \in Chars
  BY <1>1, Given
<1>4. q \in Seq(Chars) /\ Len(q) = n
  <2>1. q = [i \in 1 .. n |-> Piece[tokens[i]]]
    BY <1>1
  <2> HIDE DEF q
  <2>2. q \in Seq(Chars)
    BY <1>1, <1>3, <2>1, IsASeq
  <2> QED
    BY <1>1, <2>1, <2>2, LenProperties
<1>5. pieces(w) = Append(q, p)
  <2> DEFINE a == pieces(w)
             b == Append(q, p)
  <2>0. \A i \in 1 .. n + 1 : i = n + 1 \/ i \in 1 .. n
    BY <1>1
  <2>1. a = [i \in 1 .. n + 1 |-> Piece[w[i]]]
    BY <1>2
  <2>2. \A i \in 1 .. n + 1 : Piece[w[i]] \in Chars
    BY <1>1, <1>3, <2>0
  <2>3. a \in Seq(Chars) /\ Len(a) = n + 1
    <3>1. n + 1 \in Nat
      BY <1>1
    <3> HIDE DEF a
    <3>2. a \in Seq(Chars)
      BY <2>1, <2>2, <3>1, IsASeq
    <3> QED
      BY <2>1, <3>1, <3>2, LenProperties
  <2>4. /\ b \in Seq(Chars) /\ Len(b) = n + 1 /\ b[n + 1] = p
        /\ \A i \in 1 .. n : b[i] = q[i]
    <3> HIDE DEF q, p
    <3> QED
      BY <1>3, <1>4, AppendProperties
  <2>5. \A i \in 1 .. n : q[i] = Piece[tokens[i]]
    BY <1>1
  <2>6. \A i \in 1 .. n : a[i] = Piece[w[i]] /\ w[i] = tokens[i]
    BY <1>1, <2>1
  <2>7. a[n + 1] = Piece[w[n + 1]] /\ w[n + 1] = t
    BY <1>1, <2>1
  <2> HIDE DEF a, b, q, pieces
  <2>8. \A i \in 1 .. n + 1 : a[i] = b[i]
    BY <2>0, <2>4, <2>5, <2>6, <2>7 DEF p
  <2>9. a = b
    BY <2>3, <2>4, <2>8, SeqEqual
  <2> QED
    BY <2>9 DEF a, b
<1>6. BytesOf(tokens) = FlattenSeq(q) /\ BytesOf(w) = FlattenSeq(pieces(w))
  BY DEF BytesOf
<1> HIDE DEF q, p, pieces
<1>7. FlattenSeq(q) \in Chars /\ FlattenSeq(Append(q, p)) = FlattenSeq(q) \o p
  BY <1>3, <1>4, FlattenAppend
<1> QED
  BY <1>5, <1>6, <1>7 DEF w, p

LEMMA NoBytes ==
    /\ BytesOf(<<>>) = <<>>
    /\ Utf8(<<>>, <<>>) = [text |-> <<>>, carry |-> <<>>]
<1>1. Len(<<>>) = 0 /\ <<>> \in Chars /\ DOMAIN <<>> = {}
  BY EmptySeq DEF Chars
<1>2. BytesOf(<<>>) = <<>>
  <2>1. [i \in DOMAIN <<>> |-> Piece[<<>>[i]]] = <<>>
    BY <1>1
  <2> QED
    BY <1>1, <2>1 DEF BytesOf, FlattenSeq
<1>3. PICK h : Decoding(<<>>, <<>>, h) /\ Utf8(<<>>, <<>>) = h[Len(<<>>)]
  BY <1>1, Utf8Steps
<1> QED
  BY <1>1, <1>2, <1>3 DEF Decoding

-----------------------------------------------------------------------------
(* The text: the context.                                                  *)

\* What was decoded of the answer so far.
SoFar == Utf8(<<>>, BytesOf(Spoken))

TextRules ==
    /\ at # "rest" => /\ Spoken \in Tokens
                      /\ sink.carry = SoFar.carry
                      /\ Heard(req, sink, SoFar.text)
    /\ AnswerIsTheText

\* An answer that has not ended is all text.
LEMMA LastIsText ==
    ASSUME NEW a \in Tokens, a # <<>>
    PROVE  Last(a) # Eog
<1>1. Len(a) \in Nat /\ Len(a) > 0
  BY EmptySeq, LenProperties DEF Tokens
<1>2. Len(a) \in 1 .. Len(a)
  BY <1>1
<1>3. Last(a) \in Token
  BY <1>2, ElementOfSeq DEF Last, Tokens
<1> QED
  BY <1>3, LlamaAssumption DEF Token

LEMMA FrontIsText ==
    ASSUME NEW a \in Tokens
    PROVE  Append(a, Eog) # <<>> /\ Last(Append(a, Eog)) = Eog /\ Front(Append(a, Eog)) = a
<1> DEFINE S == Token \cup {Eog}
           w == Append(a, Eog)
           n == Len(a)
<1>1. a \in Seq(S)
  BY SeqMonotonic DEF Tokens
<1>2. Eog \in S
  OBVIOUS
<1> HIDE DEF S
<1>3. /\ w \in Seq(S) /\ Len(w) = n + 1 /\ w[n + 1] = Eog /\ n \in Nat
      /\ \A i \in 1 .. n : w[i] = a[i]
  BY <1>1, <1>2, AppendProperties, LenProperties
<1> HIDE DEF w, n
<1>4. w # <<>> /\ Last(w) = Eog
  BY <1>3, EmptySeq DEF Last
<1>5. Len(w) - 1 = n /\ n <= Len(w) /\ n <= Len(a) /\ n = Len(a)
  BY <1>3 DEF n
<1>6. SubSeq(w, 1, n) = SubSeq(a, 1, n)
  BY <1>1, <1>3, <1>5, SameFirst
<1>7. SubSeq(a, 1, n) = a
  BY <1>1, <1>5, SubSeqFull
<1>8. Front(w) = a
  BY <1>5, <1>6, <1>7 DEF Front
<1> QED
  BY <1>4, <1>8 DEF w

\* Nothing was heard of nothing.
LEMMA NothingHeard ==
    ASSUME NEW r
    PROVE  Heard(r, NewSink, <<>>)
<1>1. <<>> \in Chars /\ Len(<<>>) = 0 /\ <<>> \o <<>> = <<>>
  BY EmptySeq, ConcatEmptySeq DEF Chars
<1>2. CompleteTurn(r.prefilled, <<>>) = {}
  <2> SUFFICES ASSUME CompleteTurn(r.prefilled, <<>>) # {} PROVE FALSE
    OBVIOUS
  <2> DEFINE n == Min(CompleteTurn(r.prefilled, <<>>))
  <2>1. n \in 1 .. Len(<<>>)
    BY <1>1, TurnEnds
  <2> HIDE DEF n
  <2> QED
    BY <1>1, <2>1
<1>3. Part(r, <<>>) = <<>>
  BY <1>2 DEF Part, UpToCall
<1>4. /\ NewSink.filter = NewFilter /\ NewSink.yielded = FALSE /\ NewSink.generated = <<>>
      /\ NewSink.delivered = 0
  BY DEF NewSink
<1>5. NewFilter.out = <<>> /\ NewFilter.pending = <<>> /\ NewFilter.stopped = FALSE
  BY DEF NewFilter
<1>6. Fed(r.stops, NewFilter, <<>>)
  BY <1>1, <1>5, Asked DEF Fed
<1> QED
  BY <1>1, <1>2, <1>3, <1>4, <1>6 DEF Heard

\* onText() leaves the decoder alone.
LEMMA DeliverCarries ==
    ASSUME NEW s, SinkRules(req.stops, s), NEW x
    PROVE  Deliver(s, x).carry = s.carry
<1>1. s \in [carry : Chars, generated : Chars, delivered : Nat, yielded : BOOLEAN, filter : Filters]
  BY DEF SinkRules
<1> QED
  BY <1>1 DEF Deliver, DeliverTurn

LEMMA TextSampleStep ==
    ASSUME IndInv, StopRules, TextRules, NEW t \in req.vocab, Sample(t)
    PROVE  TextRules'
<1>1. /\ at = "sample" /\ at' \in {"decode", "tail"} /\ req' = req /\ answer' = Append(answer, t)
      /\ sink' = Feed(sink, Piece[t])
  BY DEF Sample
<1>2. req \in Requests /\ answer \in Tokens
  BY <1>1 DEF IndInv, TypeOK
<1>3. /\ t \in Token /\ req.stops \in SUBSET Chars /\ <<>> \notin req.stops /\ req.tools \in BOOLEAN
      /\ Piece[t] \in Chars
  <2>1. t \in Token
    BY <1>2, Asked
  <2> QED
    BY <1>2, <2>1, Given, LlamaAssumption
<1>4. SinkRules(req.stops, sink)
  BY <1>1 DEF StopRules
<1>5. Spoken = answer /\ sink.carry = SoFar.carry /\ Heard(req, sink, SoFar.text)
  BY <1>1, <1>2, LastIsText DEF TextRules, Spoken
<1>6. answer' \in Tokens /\ Spoken' = answer'
  <2>1. answer' \in Tokens
    BY <1>1, <1>2, <1>3, AppendProperties DEF Tokens
  <2> QED
    BY <2>1, LastIsText DEF Spoken
<1> DEFINE b == BytesOf(answer)
           d == Utf8(<<>>, b)
           e == Utf8(d.carry, Piece[t])
           s == [sink EXCEPT !.carry = e.carry]
<1>7. b \in Chars /\ BytesOf(answer') = b \o Piece[t] /\ <<>> \in Chars
  BY <1>1, <1>2, <1>3, BytesAppend, Given
<1>8. SoFar = d
  BY <1>5 DEF SoFar
<1> HIDE DEF b
<1>9. d \in Decoded /\ d.text \in Chars /\ d.carry \in Chars
  <2>1. d \in Decoded
    BY <1>7, Utf8Type
  <2> HIDE DEF d
  <2> QED
    BY <2>1 DEF Decoded
<1>10. SoFar' = [text |-> d.text \o e.text, carry |-> e.carry]
  <2>1. SoFar' = Utf8(<<>>, b \o Piece[t])
    BY <1>6, <1>7 DEF SoFar
  <2> QED
    BY <1>3, <1>7, <2>1, Utf8Joins
<1> HIDE DEF d
<1>11. e \in Decoded /\ e.text \in Chars /\ e.carry \in Chars
  <2>1. e \in Decoded
    BY <1>3, <1>9, Utf8Type
  <2> HIDE DEF e
  <2> QED
    BY <2>1 DEF Decoded
<1>12. sink' = Deliver(s, e.text)
  BY <1>1, <1>5, <1>8 DEF Feed
<1> HIDE DEF e
<1>13. SinkRules(req.stops, s) /\ s.carry = e.carry
  BY <1>4, <1>11 DEF SinkRules
<1>14. Heard(req, s, d.text)
  <2>1. s.filter = sink.filter /\ s.yielded = sink.yielded /\ s.generated = sink.generated /\ s.delivered = sink.delivered
    BY <1>4 DEF SinkRules
  <2> HIDE DEF s
  <2> QED
    BY <1>5, <1>8, <2>1 DEF Heard
<1> HIDE DEF s
<1>15. Heard(req, sink', d.text \o e.text)
  BY <1>3, <1>11, <1>12, <1>13, <1>14, DeliverHears
<1>16. sink'.carry = e.carry
  BY <1>12, <1>13, DeliverCarries
<1>17. SoFar'.text = d.text \o e.text /\ SoFar'.carry = e.carry
  BY <1>10
<1>18. Heard(req, sink, SoFar.text)'
  BY <1>1, <1>15, <1>17 DEF Heard, Part
<1>19. AnswerIsTheText'
  BY <1>1 DEF AnswerIsTheText, Answered
<1>20. Spoken' \in Tokens
  BY <1>6
<1> QED
  BY <1>16, <1>17, <1>18, <1>19, <1>20 DEF TextRules

LEMMA TextEndOfTextStep ==
    ASSUME IndInv, StopRules, TextRules, EndOfText
    PROVE  TextRules'
<1> DEFINE s == Deliver(sink, Utf8Tail(sink.carry))
           whole == SoFar.text \o Utf8Tail(SoFar.carry)
<1>1. /\ at = "tail" /\ at' = "rest" /\ req' = req /\ answer' = answer
      /\ sink' = [s EXCEPT !.carry = <<>>, !.filter = Release(@)]
  BY DEF EndOfText
<1>2. /\ req.stops \in SUBSET Chars /\ <<>> \notin req.stops /\ req.tools \in BOOLEAN
      /\ Utf8Tail(sink.carry) \in Chars /\ SinkRules(req.stops, sink)
  BY <1>1, Given, LlamaAssumption DEF StopRules, IndInv, TypeOK
<1>3. sink.carry = SoFar.carry /\ Heard(req, sink, SoFar.text)
  BY <1>1 DEF TextRules
<1>4. SinkRules(req.stops, s) /\ Heard(req, s, whole)
  <2>1. SinkRules(req.stops, s)
    BY <1>2, DeliverKeeps
  <2>2. Heard(req, s, SoFar.text \o Utf8Tail(sink.carry))
    BY <1>2, <1>3, DeliverHears
  <2> QED
    BY <1>3, <2>1, <2>2
<1> HIDE DEF s
<1>5. /\ FilterRules(req.stops, s.filter) /\ Fed(req.stops, s.filter, Part(req, whole))
      /\ sink'.filter = Release(s.filter)
  BY <1>1, <1>4 DEF SinkRules, Heard
<1>6. /\ IsPrefix(Release(s.filter).out, Part(req, whole))
      /\ NoneInside(req.stops) => Release(s.filter).out = UpToStop(req.stops, Part(req, whole))
  BY <1>2, <1>5, ReleaseFeeds
<1>7. TextOf(Spoken) = Part(req, whole)
  BY DEF TextOf, Part, WholeText, SoFar
<1>8. TextOf(Spoken)' = TextOf(Spoken)
  BY <1>1 DEF TextOf, Spoken
<1>9. AnswerIsTheText'
  BY <1>1, <1>5, <1>6, <1>7, <1>8 DEF AnswerIsTheText
<1> QED
  BY <1>1, <1>9 DEF TextRules

LEMMA TextQuietStep ==
    ASSUME IndInv, TextRules,
           \/ \E r \in Requests : Generate(r)
           \/ Recreate \/ Cancel \/ Fails \/ Begin \/ Decode \/ Account \/ DecodeFails \/ SampleEog
           \/ UNCHANGED vars
    PROVE  TextRules'
<1>1. ASSUME NEW r \in Requests, Generate(r) PROVE TextRules'
  <2>1. req' = r /\ at' = "begin" /\ answer' = <<>> /\ sink' = NewSink
    BY <1>1 DEF Generate
  <2>2. Spoken' = <<>> /\ <<>> \in Tokens
    BY <2>1, Asked DEF Spoken
  <2>3. SoFar' = [text |-> <<>>, carry |-> <<>>]
    BY <2>2, NoBytes DEF SoFar
  <2>4. SoFar'.text = <<>> /\ SoFar'.carry = <<>> /\ NewSink.carry = <<>>
    BY <2>3 DEF NewSink
  <2>5. Heard(r, NewSink, <<>>)
    BY NothingHeard
  <2>6. Heard(req, sink, SoFar.text)'
    BY <2>1, <2>4, <2>5 DEF Heard, Part
  <2>7. AnswerIsTheText'
    BY <2>1 DEF AnswerIsTheText, Answered
  <2> QED
    BY <2>1, <2>2, <2>4, <2>6, <2>7 DEF TextRules
<1>2. CASE Fails \/ DecodeFails
  BY <1>2 DEF Fails, DecodeFails, Throw, TextRules, AnswerIsTheText, Answered
<1>3. CASE Begin \/ Decode \/ Account \/ SampleEog
  <2>1. at # "rest" /\ at' # "rest" /\ req' = req /\ sink' = sink
    BY <1>3 DEF Begin, Decode, Account, SampleEog, textVars
  <2>2. Spoken' = Spoken
    <3>1. CASE Begin \/ Decode \/ Account
      <4>1. answer' = answer
        BY <3>1 DEF Begin, Decode, Account, textVars
      <4> QED
        BY <4>1 DEF Spoken
    <3>2. CASE SampleEog
      <4>1. answer \in Tokens /\ answer' = Append(answer, Eog)
        BY <3>2 DEF SampleEog, IndInv, TypeOK
      <4>2. Spoken = answer /\ Spoken' = answer
        BY <4>1, LastIsText, FrontIsText DEF Spoken
      <4> QED
        BY <4>2
    <3> QED
      BY <1>3, <3>1, <3>2
  <2>3. SoFar' = SoFar
    BY <2>2 DEF SoFar
  <2>4. Heard(req, sink, SoFar.text)' <=> Heard(req, sink, SoFar.text)
    BY <2>1, <2>3 DEF Heard, Part
  <2> QED
    BY <2>1, <2>2, <2>3, <2>4 DEF TextRules, AnswerIsTheText, Answered
<1>4. CASE Recreate \/ Cancel \/ UNCHANGED vars
  <2>1. UNCHANGED <<at, req, answer, sink, finish>>
    BY <1>4 DEF Recreate, Cancel, vars, textVars
  <2>2. Spoken' = Spoken
    BY <2>1 DEF Spoken
  <2>3. SoFar' = SoFar
    BY <2>2 DEF SoFar
  <2>4. Heard(req, sink, SoFar.text)' <=> Heard(req, sink, SoFar.text)
    BY <2>1, <2>3 DEF Heard, Part
  <2>5. AnswerIsTheText' <=> AnswerIsTheText
    BY <2>1, <2>2 DEF AnswerIsTheText, Answered, TextOf
  <2> QED
    BY <2>1, <2>2, <2>3, <2>4, <2>5 DEF TextRules
<1> QED
  BY <1>1, <1>2, <1>3, <1>4

\* What a caller gets is what it would have got of the whole text at once: however the tokens
\* cut characters, tool calls and stop strings, the decoder, the tool turn's wrapper and the
\* stop filter together lose, break, reorder and add nothing.
THEOREM TextHolds ==
    Spec => []AnswerIsTheText
<1>1. Init => StopRules /\ TextRules
  BY DEF Init, StopRules, StopsAreCutOut, TextRules, AnswerIsTheText, Answered
<1>2. ASSUME IndInv, StopRules, [Next]_vars PROVE StopRules'
  BY <1>2, StopsSampleStep, StopsEndOfTextStep, StopsQuietStep DEF Next
<1>3. ASSUME IndInv, StopRules, TextRules, [Next]_vars PROVE TextRules'
  BY <1>3, TextSampleStep, TextEndOfTextStep, TextQuietStep DEF Next
<1>4. TextRules => AnswerIsTheText
  BY DEF TextRules
<1> QED
  BY <1>1, <1>2, <1>3, <1>4, ContextInvariant, PTL DEF Spec

=============================================================================
