----------------------------- MODULE LoopProofs -----------------------------
(***************************************************************************)
(* Proofs about modules whose functions are loops or recursive.            *)
(*                                                                         *)
(* Conversation.tla, for any tools, ids and bounds: a history that grows   *)
(* by what the service hands out, and shrinks by the oldest turn, is one   *)
(* that validateConversationRequest() takes.  The loop of that function is *)
(* a fold.  CheckedSteps unrolls it into a function h of the number of     *)
(* messages read, and everything else is about h: what one more message    *)
(* does to it, what a good end says of every place before it, and what is  *)
(* left when the messages between two places where nothing is pending are  *)
(* taken out.                                                              *)
(*                                                                         *)
(* RuntimeManager.tla, for any machine and runtimes: the nested loops of   *)
(* load() try exactly what the policy permits, in the order it prefers, so *)
(* that a model is where it should be.                                     *)
(*                                                                         *)
(* Parameters.tla and Agent.tla, for any groups, schemas and values: what  *)
(* redactValue() shows of a value hides every sensitive field of it.  By   *)
(* induction over the levels it shows the value or covers some of it       *)
(* (Covering), and covering more of what hides a value hides it still, so  *)
(* that the alternatives of a schema can be followed one after the other.  *)
(***************************************************************************)
EXTENDS Agent, RuntimeManager, SequenceTheorems, FiniteSetTheorems, WellFoundedInduction, TLAPS

Nothing == [ok |-> TRUE, first |-> TRUE, ids |-> {}, pending |-> {}]

\* h follows the loop over ms.
Reading(ms, h) ==
    /\ h[0] = Nothing
    /\ \A k \in 0 .. Len(ms) - 1 : h[k + 1] = CheckMessage(h[k], ms[k + 1])

HistoryIsSequence == \E S : messages \in Seq(S)

\* The history is valid, whosever turn it is.
HistoryIsGood == Checked(messages).ok

\* Nobody converses without options.
OptionsFirst == options = {} => turn = "client" /\ messages = <<>>

\* The runtime is asked when every call has its result.
NothingPending == turn = "runtime" => Checked(messages).pending = {}

ChoiceIsKnown == request.toolChoice \in ToolChoices

Turns == turn \in {"client", "runtime", "refused"}

ConversationInv ==
    /\ HistoryIsSequence
    /\ HistoryIsGood
    /\ OptionsFirst
    /\ NothingPending
    /\ ChoiceIsKnown
    /\ Turns
    /\ HistoryStaysValid

-----------------------------------------------------------------------------
(***************************************************************************)
(* Numbers.                                                                *)
(***************************************************************************)
\* A set of numbers has a least one.
LEMMA Minimum ==
    ASSUME NEW S \in SUBSET Nat, S # {}
    PROVE  Min(S) \in S /\ \A y \in S : Min(S) <= y
<1>1. PICK x \in S : \A y \in S : ~(<<y, x>> \in OpToRel(<, Nat))
  BY NatLessThanWellFounded, WFMin, Zenon
<1>2. \A y \in S : y < x => <<y, x>> \in OpToRel(<, Nat)
  BY DEF OpToRel
<1>3. \A y \in S : ~(y < x)
  BY <1>1, <1>2, Zenon
<1>4. \A y \in S : x <= y
  BY <1>3
<1> QED
  BY <1>4 DEF Min

\* And, when there are few, a last one.
LEMMA Maximum ==
    ASSUME NEW k \in Nat, NEW S \in SUBSET (0 .. k), S # {}
    PROVE  Max(S) \in S /\ \A y \in S : y <= Max(S)
<1> DEFINE T == {k - x : x \in S}
<1>1. T \in SUBSET Nat /\ T # {}
  <2>1. \A x \in S : k - x \in Nat
    OBVIOUS
  <2>2. \A y \in T : y \in Nat
    BY <2>1, Zenon
  <2>3. T # {}
    OBVIOUS
  <2> HIDE DEF T
  <2> QED
    BY <2>2, <2>3
<1>2. \A y \in S : k - y \in T
  OBVIOUS
<1>3. \A m \in T : k - m \in S /\ m \in Nat
  OBVIOUS
<1> HIDE DEF T
<1>4. Min(T) \in T /\ \A y \in T : Min(T) <= y
  BY <1>1, Minimum
<1>5. PICK x \in S : x = k - Min(T)
  BY <1>3, <1>4
<1>6. \A y \in S : x >= y
  BY <1>2, <1>3, <1>4, <1>5
<1>7. Max(S) \in S /\ \A y \in S : Max(S) >= y
  BY <1>6 DEF Max
<1> QED
  BY <1>7

\* All but the last of some numbers up to n + 1 are up to n.
LEMMA AllButTheLast ==
    ASSUME NEW n \in Nat, NEW s \in SUBSET (1 .. n + 1), s # {}
    PROVE  Max(s) \in s /\ s \ {Max(s)} \in SUBSET (1 .. n)
<1>1. n + 1 \in Nat /\ s \in SUBSET (0 .. n + 1)
  OBVIOUS
<1>2. Max(s) \in s /\ \A y \in s : y <= Max(s)
  BY <1>1, Maximum
<1> DEFINE x == Max(s)
<1> HIDE DEF x
<1>3. x \in 1 .. n + 1 /\ \A y \in s : y \in 1 .. n + 1 /\ y <= x
  BY <1>2 DEF x
<1>4. \A y \in s : y # x => y \in 1 .. n
  BY <1>3
<1> QED
  BY <1>2, <1>4 DEF x

\* Numbers, one after the other.
LEMMA OneByOne ==
    ASSUME NEW S \in SUBSET Nat, 0 \in S, \A n \in S : n + 1 \in S
    PROVE  \A n \in Nat : n \in S
<1> SUFFICES ASSUME Nat \ S # {} PROVE FALSE
  OBVIOUS
<1> DEFINE T == Nat \ S
<1>1. Min(T) \in T /\ \A y \in T : Min(T) <= y
  BY Minimum
<1>2. Min(T) \in Nat /\ Min(T) \notin S /\ Min(T) # 0
  BY <1>1
<1> HIDE DEF T
<1>3. Min(T) - 1 \in Nat /\ ~(Min(T) <= Min(T) - 1) /\ (Min(T) - 1) + 1 = Min(T)
  BY <1>2
<1>4. Min(T) - 1 \in S
  BY <1>1, <1>3 DEF T
<1> QED
  BY <1>2, <1>3, <1>4

-----------------------------------------------------------------------------
(***************************************************************************)
(* The loop, unrolled.                                                     *)
(***************************************************************************)
\* g reads the messages at the places s, from the first to the last.
Reads(ms, g, s) ==
    IF s = {} THEN Nothing ELSE CheckMessage(g[s \ {Max(s)}], ms[Max(s)])

LEMMA ReadingExists ==
    ASSUME NEW ms, NEW n \in Nat
    PROVE  \E g : g = [s \in SUBSET (1 .. n) |-> Reads(ms, g, s)]
<1> DEFINE Good == {m \in Nat : \E g : \A s \in SUBSET (1 .. m) : g[s] = Reads(ms, g, s)}
<1>1. 0 \in Good
  <2> DEFINE g == [s \in SUBSET (1 .. 0) |-> Nothing]
  <2>1. \A s \in SUBSET (1 .. 0) : g[s] = Reads(ms, g, s)
    BY DEF Reads
  <2> QED
    BY <2>1
<1>2. ASSUME NEW m \in Good PROVE m + 1 \in Good
  <2>1. PICK g : \A s \in SUBSET (1 .. m) : g[s] = Reads(ms, g, s)
    OBVIOUS
  <2> DEFINE h == [s \in SUBSET (1 .. m + 1) |-> Reads(ms, g, s)]
  <2>2. ASSUME NEW s \in SUBSET (1 .. m + 1) PROVE h[s] = Reads(ms, h, s)
    <3>1. CASE s = {}
      BY <3>1 DEF Reads
    <3>2. CASE s # {}
      <4> DEFINE t == s \ {Max(s)}
      <4>1. t \in SUBSET (1 .. m)
        BY <3>2, AllButTheLast
      <4>2. t \in SUBSET (1 .. m + 1)
        OBVIOUS
      <4> HIDE DEF t
      <4>3. h[t] = g[t]
        BY <2>1, <4>1, <4>2
      <4> QED
        BY <3>2, <4>3 DEF Reads, t
    <3> QED
      BY <3>1, <3>2
  <2>3. m + 1 \in Nat
    OBVIOUS
  <2> HIDE DEF h
  <2>4. \E k : \A s \in SUBSET (1 .. m + 1) : k[s] = Reads(ms, k, s)
    BY <2>2
  <2> QED
    BY <2>3, <2>4
<1>3. n \in Good
  <2>1. Good \in SUBSET Nat
    OBVIOUS
  <2> HIDE DEF Good
  <2> QED
    BY <1>1, <1>2, <2>1, OneByOne
<1>4. PICK g : \A s \in SUBSET (1 .. n) : g[s] = Reads(ms, g, s)
  BY <1>3
<1> DEFINE h == [s \in SUBSET (1 .. n) |-> g[s]]
<1>5. ASSUME NEW s \in SUBSET (1 .. n) PROVE Reads(ms, h, s) = Reads(ms, g, s)
  BY DEF Reads
<1>6. h = [s \in SUBSET (1 .. n) |-> Reads(ms, h, s)]
  BY <1>4, <1>5
<1> QED
  BY <1>6

LEMMA CheckedSteps ==
    ASSUME NEW S, NEW ms \in Seq(S)
    PROVE  \E h : Reading(ms, h) /\ Checked(ms) = h[Len(ms)]
<1> DEFINE n == Len(ms)
           g == CHOOSE g : g = [s \in SUBSET (1 .. n) |-> Reads(ms, g, s)]
           h == [k \in 0 .. n |-> g[1 .. k]]
<1>1. n \in Nat /\ DOMAIN ms = 1 .. n
  BY LenProperties
<1>3. Checked(ms) = g[1 .. n]
  BY <1>1 DEF Checked, FoldLeft, MapThenFoldSet, Reads, Nothing
<1> HIDE DEF n
<1>4. g = [s \in SUBSET (1 .. n) |-> Reads(ms, g, s)]
  BY <1>1, ReadingExists
<1> HIDE DEF g
<1>5. 0 \in 0 .. n /\ h[0] = Nothing
  <2>1. 1 .. 0 = {} /\ {} \in SUBSET (1 .. n)
    OBVIOUS
  <2>2. g[{}] = Nothing
    BY <1>4, <2>1 DEF Reads
  <2> QED
    BY <1>1, <2>1, <2>2
<1>6. ASSUME NEW k \in 0 .. n - 1 PROVE h[k + 1] = CheckMessage(h[k], ms[k + 1])
  <2> DEFINE s == 1 .. k + 1
  <2>0. k \in Nat /\ k + 1 \in 0 .. n /\ k \in 0 .. n /\ k + 1 <= n
    BY <1>1
  <2>1. s \in SUBSET (1 .. n) /\ s # {} /\ s \in SUBSET (1 .. k + 1) /\ k + 1 \in s
    <3>1. k + 1 \in s /\ s \in SUBSET (1 .. k + 1)
      BY <2>0
    <3>2. \A i \in s : i \in 1 .. n
      BY <1>1, <2>0
    <3> HIDE DEF s
    <3> QED
      BY <3>1, <3>2
  <2>2. s \ {k + 1} = 1 .. k
    BY <2>0
  <2>3. Max(s) = k + 1
    <3>1. s \in SUBSET (0 .. k + 1) /\ k + 1 \in Nat
      BY <2>0
    <3> HIDE DEF s
    <3>2. Max(s) \in s /\ \A y \in s : y <= Max(s)
      BY <2>1, <3>1, Maximum
    <3> DEFINE m == Max(s)
    <3>3. m \in 0 .. k + 1 /\ k + 1 <= m
      <4>1. m \in s /\ \A y \in s : y <= m
        BY <3>2
      <4> HIDE DEF m
      <4> QED
        BY <2>1, <3>1, <4>1
    <3> HIDE DEF m
    <3>4. m = k + 1
      BY <2>0, <3>3
    <3> QED
      BY <3>4 DEF m
  <2> HIDE DEF s
  <2>4. g[s] = CheckMessage(g[s \ {Max(s)}], ms[Max(s)])
    BY <1>4, <2>1 DEF Reads
  <2>5. h[k + 1] = g[s] /\ h[k] = g[1 .. k]
    BY <2>0 DEF s
  <2> QED
    BY <2>2, <2>3, <2>4, <2>5
<1>7. Checked(ms) = h[n]
  BY <1>1, <1>3
<1> HIDE DEF h
<1>8. Reading(ms, h)
  BY <1>5, <1>6 DEF Reading, n
<1> QED
  BY <1>7, <1>8 DEF n

-----------------------------------------------------------------------------
(***************************************************************************)
(* What one message does, and what the loop says of the messages before.   *)
(***************************************************************************)
\* The parts of a step that do not ask whether the message is good.
LEMMA OneMessage ==
    ASSUME NEW s, NEW m
    PROVE  /\ CheckMessage(s, m).ok => s.ok
           /\ CheckMessage(s, m).first = FALSE
           /\ CheckMessage(s, m).ids = s.ids \cup IdsOf(m.calls)
           /\ CheckMessage(s, m).pending =
                 IF m.role = "tool" THEN s.pending \ {m.id} ELSE s.pending \cup IdsOf(m.calls)
  BY DEF CheckMessage

LEMMA NoCalls == IdsOf(<<>>) = {}
  BY DEF IdsOf

\* Two histories with the same beginning.
Alike(ls, ms, n) ==
    /\ n \in Nat /\ Len(ls) \in Nat /\ Len(ms) \in Nat /\ n <= Len(ls) /\ n <= Len(ms)
    /\ \A k \in 1 .. n : ls[k] = ms[k]

LEMMA SamePlaces ==
    ASSUME NEW ls, NEW ms, NEW g, NEW h, NEW n, Alike(ls, ms, n), Reading(ls, g), Reading(ms, h)
    PROVE  g[n] = h[n]
<1> USE DEF Alike
<1> DEFINE Good == {k \in Nat : k <= n => g[k] = h[k]}
<1>1. 0 \in Good
  BY DEF Reading
<1>2. ASSUME NEW k \in Good PROVE k + 1 \in Good
  <2> SUFFICES ASSUME k + 1 <= n PROVE g[k + 1] = h[k + 1]
    OBVIOUS
  <2>1. k \in 0 .. Len(ls) - 1 /\ k \in 0 .. Len(ms) - 1 /\ k + 1 \in 1 .. n /\ k <= n
    OBVIOUS
  <2>2. g[k] = h[k] /\ ls[k + 1] = ms[k + 1]
    BY <2>1
  <2> QED
    BY <2>1, <2>2 DEF Reading
<1>3. Good \in SUBSET Nat
  OBVIOUS
<1>4. n \in Good => g[n] = h[n]
  OBVIOUS
<1> HIDE DEF Good
<1>5. \A k \in Good : k + 1 \in Good
  BY <1>2
<1> QED
  BY <1>1, <1>3, <1>4, <1>5, OneByOne

\* The check of no message, and of one more.
LEMMA CheckedEmpty == Checked(<<>>) = Nothing
<1>1. <<>> \in Seq({}) /\ Len(<<>>) = 0
  OBVIOUS
<1> QED
  BY <1>1, CheckedSteps DEF Reading

LEMMA CheckedAppend ==
    ASSUME NEW S, NEW ms \in Seq(S), NEW m
    PROVE  /\ \E T : Append(ms, m) \in Seq(T)
           /\ Checked(Append(ms, m)) = CheckMessage(Checked(ms), m)
<1> DEFINE T == S \cup {m}
           ls == Append(ms, m)
           n == Len(ms)
<1>1. ms \in Seq(T) /\ m \in T
  <2>1. n \in Nat /\ ms \in [1 .. n -> S]
    BY LenProperties
  <2>2. ms \in [1 .. n -> T]
    BY <2>1
  <2> QED
    BY <2>1, <2>2 DEF Seq
<1> HIDE DEF T
<1>2. ls \in Seq(T) /\ Len(ls) = n + 1 /\ ls[n + 1] = m /\ \A k \in 1 .. n : ls[k] = ms[k]
  BY <1>1, AppendProperties
<1> HIDE DEF ls
<1>3. PICK g : Reading(ls, g) /\ Checked(ls) = g[Len(ls)]
  BY <1>2, CheckedSteps
<1>4. PICK h : Reading(ms, h) /\ Checked(ms) = h[n]
  BY CheckedSteps
<1>5. n \in Nat
  BY LenProperties
<1> HIDE DEF n
<1>6. g[n] = h[n]
  <2>1. Alike(ls, ms, n)
    BY <1>2, <1>5 DEF Alike, n
  <2>2. Reading(ls, g) /\ Reading(ms, h)
    BY <1>3, <1>4
  <2> QED
    BY <2>1, <2>2, SamePlaces
<1>7. g[n + 1] = CheckMessage(g[n], ls[n + 1])
  BY <1>2, <1>3, <1>5 DEF Reading
<1> QED
  BY <1>2, <1>3, <1>4, <1>6, <1>7 DEF ls

\* A good end had no bad place before it.
LEMMA GoodBefore ==
    ASSUME NEW ms, NEW h, NEW n \in Nat, n = Len(ms), Reading(ms, h), h[n].ok
    PROVE  \A k \in 0 .. n : h[k].ok
<1> DEFINE Good == {j \in Nat : j <= n => h[n - j].ok}
<1>1. 0 \in Good
  OBVIOUS
<1>2. ASSUME NEW j \in Good PROVE j + 1 \in Good
  <2> SUFFICES ASSUME j + 1 <= n PROVE h[n - (j + 1)].ok
    OBVIOUS
  <2> DEFINE k == n - (j + 1)
  <2>1. k \in 0 .. n - 1 /\ k + 1 = n - j /\ j <= n
    OBVIOUS
  <2>2. h[k + 1].ok
    BY <2>1
  <2> HIDE DEF k
  <2>3. h[k + 1] = CheckMessage(h[k], ms[k + 1])
    BY <2>1 DEF Reading
  <2>4. CheckMessage(h[k], ms[k + 1]).ok => h[k].ok
    BY OneMessage, Zenon
  <2> QED
    BY <2>2, <2>3, <2>4 DEF k
<1>3. Good \in SUBSET Nat
  OBVIOUS
<1>4. \A k \in 0 .. n : n - k \in Good => h[k].ok
  OBVIOUS
<1>5. \A k \in 0 .. n : n - k \in Nat
  OBVIOUS
<1> HIDE DEF Good
<1>6. \A k \in Good : k + 1 \in Good
  BY <1>2
<1>7. \A k \in Nat : k \in Good
  BY <1>1, <1>3, <1>6, OneByOne
<1> QED
  BY <1>4, <1>5, <1>7

\* The ids seen so far, and those of all messages.
LEMMA IdsRead ==
    ASSUME NEW ms, NEW h, NEW n \in Nat, n = Len(ms), Reading(ms, h)
    PROVE  \A k \in 0 .. n : h[k].ids = UNION {IdsOf(ms[i].calls) : i \in 1 .. k}
<1> DEFINE Union(k) == UNION {IdsOf(ms[i].calls) : i \in 1 .. k}
           Good == {k \in Nat : k <= n => h[k].ids = Union(k)}
<1>1. 0 \in Good
  <2>1. h[0].ids = {}
    BY DEF Reading, Nothing
  <2>2. 1 .. 0 = {}
    OBVIOUS
  <2> QED
    BY <2>1, <2>2
<1>2. ASSUME NEW k \in Good PROVE k + 1 \in Good
  <2> SUFFICES ASSUME k + 1 <= n PROVE h[k + 1].ids = Union(k + 1)
    OBVIOUS
  <2>1. k \in 0 .. n - 1 /\ k <= n
    OBVIOUS
  <2>2. h[k + 1].ids = Union(k) \cup IdsOf(ms[k + 1].calls)
    <3>1. h[k].ids = Union(k)
      BY <2>1
    <3>2. h[k + 1] = CheckMessage(h[k], ms[k + 1])
      BY <2>1 DEF Reading
    <3>3. CheckMessage(h[k], ms[k + 1]).ids = h[k].ids \cup IdsOf(ms[k + 1].calls)
      BY OneMessage, Zenon
    <3> QED
      BY <3>1, <3>2, <3>3
  <2>3. 1 .. k + 1 = (1 .. k) \cup {k + 1}
    BY <2>1
  <2>4. Union(k + 1) = Union(k) \cup IdsOf(ms[k + 1].calls)
    BY <2>3
  <2> QED
    BY <2>2, <2>4
<1>3. Good \in SUBSET Nat
  OBVIOUS
<1>4. \A k \in 0 .. n : k \in Good => h[k].ids = Union(k)
  OBVIOUS
<1> HIDE DEF Good
<1>5. \A k \in Good : k + 1 \in Good
  BY <1>2
<1>6. \A k \in Nat : k \in Good
  BY <1>1, <1>3, <1>5, OneByOne
<1> QED
  BY <1>4, <1>6

LEMMA CheckedIds ==
    ASSUME NEW S, NEW ms \in Seq(S)
    PROVE  Checked(ms).ids = AllIds(ms)
<1>1. PICK h : Reading(ms, h) /\ Checked(ms) = h[Len(ms)]
  BY CheckedSteps
<1>2. Len(ms) \in Nat /\ DOMAIN ms = 1 .. Len(ms) /\ Len(ms) \in 0 .. Len(ms)
  BY LenProperties
<1> QED
  BY <1>1, <1>2, IdsRead DEF AllIds

-----------------------------------------------------------------------------
(***************************************************************************)
(* A history from which the messages between two places are taken out.     *)
(***************************************************************************)
\* What the loop knows at t is at least as good as what it knows at s.
Easier(s, t) == t.ok /\ t.ids \subseteq s.ids /\ t.pending = s.pending

\* A message that is good after s, and not the first, is good after t.
LEMMA EasierStays ==
    ASSUME NEW s, NEW t, NEW m, Easier(s, t), CheckMessage(s, m).ok, s.first = FALSE
    PROVE  Easier(CheckMessage(s, m), CheckMessage(t, m))
<1>1. CheckMessage(t, m).ok
  BY DEF Easier, CheckMessage
<1>2. CheckMessage(t, m).ids \subseteq CheckMessage(s, m).ids
  <2>1. /\ CheckMessage(s, m).ids = s.ids \cup IdsOf(m.calls)
        /\ CheckMessage(t, m).ids = t.ids \cup IdsOf(m.calls)
    BY OneMessage, Zenon
  <2> QED
    BY <2>1 DEF Easier
<1>3. CheckMessage(t, m).pending = CheckMessage(s, m).pending
  BY DEF Easier, CheckMessage
<1> QED
  BY <1>1, <1>2, <1>3 DEF Easier

\* The history without the messages from a up to, not with, b.
Without(ms, a, b) == SubSeq(ms, 1, a - 1) \o SubSeq(ms, b, Len(ms))

LEMMA WithoutPlaces ==
    ASSUME NEW S, NEW ms \in Seq(S), NEW a \in 1 .. Len(ms), NEW b \in 1 .. Len(ms), a < b
    PROVE  /\ Without(ms, a, b) \in Seq(S)
           /\ Len(Without(ms, a, b)) = (a - 1) + ((Len(ms) - b) + 1)
           /\ \A k \in 1 .. a - 1 : Without(ms, a, b)[k] = ms[k]
           /\ \A j \in 1 .. (Len(ms) - b) + 1 : Without(ms, a, b)[(a - 1) + j] = ms[(b - 1) + j]
<1> DEFINE n == Len(ms)
           q == (n - b) + 1
           u == SubSeq(ms, 1, a - 1)
           v == SubSeq(ms, b, n)
<1>0. n \in Nat
  BY LenProperties
<1> HIDE DEF n
<1>1. a \in Nat /\ b \in Nat /\ a >= 1 /\ b >= 1 /\ a <= n /\ b <= n /\ q \in Nat
  BY <1>0 DEF n
<1>2. \A i \in 1 .. n : ms[i] \in S
  BY ElementOfSeq DEF n
<1>3. u \in Seq(S) /\ Len(u) = a - 1 /\ \A k \in 1 .. a - 1 : u[k] = ms[k]
  <2>1. \A i \in 1 .. a - 1 : i \in 1 .. n /\ (1 + i) - 1 = i
    BY <1>0, <1>1
  <2>2. u = [i \in 1 .. a - 1 |-> ms[i]]
    BY <1>1, <2>1
  <2>3. a - 1 \in Nat /\ \A i \in 1 .. a - 1 : ms[i] \in S
    BY <1>1, <1>2, <2>1
  <2> HIDE DEF u
  <2> QED
    BY <2>2, <2>3
<1>4. v \in Seq(S) /\ Len(v) = q /\ \A j \in 1 .. q : v[j] = ms[(b - 1) + j]
  <2>1. \A j \in 1 .. q : (b - 1) + j \in 1 .. n /\ (b + j) - 1 = (b - 1) + j
    BY <1>0, <1>1
  <2>2. v = [j \in 1 .. q |-> ms[(b - 1) + j]]
    BY <1>0, <1>1, <2>1
  <2>3. \A j \in 1 .. q : ms[(b - 1) + j] \in S
    BY <1>2, <2>1
  <2> HIDE DEF v, q
  <2> QED
    BY <1>1, <2>2, <2>3
<1> HIDE DEF u, v, q
<1>5. u \o v \in Seq(S)
  BY <1>3, <1>4, ConcatProperties
<1>6. Len(u \o v) = Len(u) + Len(v)
  BY <1>3, <1>4, ConcatProperties
<1>7. \A k \in 1 .. Len(u) + Len(v) :
         (u \o v)[k] = IF k <= Len(u) THEN u[k] ELSE v[k - Len(u)]
  BY <1>3, <1>4, ConcatProperties
<1>8. \A k \in 1 .. a - 1 : (u \o v)[k] = ms[k]
  <2>1. \A k \in 1 .. a - 1 : k \in 1 .. (a - 1) + q /\ k <= a - 1
    BY <1>1
  <2> QED
    BY <1>3, <1>4, <1>7, <2>1
<1>9. \A j \in 1 .. q : (u \o v)[(a - 1) + j] = ms[(b - 1) + j]
  <2>1. \A j \in 1 .. q : /\ (a - 1) + j \in 1 .. (a - 1) + q
                          /\ ~((a - 1) + j <= a - 1) /\ ((a - 1) + j) - (a - 1) = j
    BY <1>1
  <2> QED
    BY <1>3, <1>4, <1>7, <2>1
<1> QED
  BY <1>3, <1>4, <1>5, <1>6, <1>8, <1>9 DEF Without, u, v, q, n

\* Compact: where a user speaks nothing is pending, so from b on the loop goes on from
\* a as it did from b.
LEMMA TurnTakenOut ==
    ASSUME NEW S, NEW ms \in Seq(S), NEW a \in 1 .. Len(ms), NEW b \in 1 .. Len(ms), a < b,
           ms[a].role = "user", ms[b].role = "user", Checked(ms).ok
    PROVE  /\ Without(ms, a, b) \in Seq(S)
           /\ Checked(Without(ms, a, b)).ok
           /\ Checked(Without(ms, a, b)).pending = Checked(ms).pending
<1> DEFINE n == Len(ms)
           q == (n - b) + 1
           ls == Without(ms, a, b)
<1>1. /\ ls \in Seq(S) /\ Len(ls) = (a - 1) + q
      /\ \A k \in 1 .. a - 1 : ls[k] = ms[k]
      /\ \A j \in 1 .. q : ls[(a - 1) + j] = ms[(b - 1) + j]
  BY WithoutPlaces
<1> HIDE DEF ls
<1>2. PICK h : Reading(ms, h) /\ Checked(ms) = h[n]
  BY CheckedSteps
<1>3. PICK g : Reading(ls, g) /\ Checked(ls) = g[Len(ls)]
  BY <1>1, CheckedSteps
<1>4. n \in Nat
  BY LenProperties
<1> HIDE DEF n
<1>5. /\ a \in Nat /\ b \in Nat /\ a >= 1 /\ a < b /\ b <= n /\ q \in Nat
      /\ a - 1 \in Nat /\ b - 1 \in Nat /\ (a - 1) + q \in Nat
  BY <1>4 DEF n
<1>6. \A k \in 0 .. n : h[k].ok
  <2>1. h[n].ok
    BY <1>2
  <2> QED
    BY <1>2, <1>4, <2>1, GoodBefore DEF n
<1>7. \A k \in 0 .. n - 1 : h[k + 1] = CheckMessage(h[k], ms[k + 1])
  BY <1>2 DEF Reading, n
<1>8. \A k \in 0 .. (a - 1) + q - 1 : g[k + 1] = CheckMessage(g[k], ls[k + 1])
  <2>1. Len(ls) - 1 = (a - 1) + q - 1
    BY <1>1, <1>5
  <2> QED
    BY <1>3, <2>1 DEF Reading
\* A user's message leaves nothing pending before it.
<1>9. \A k \in 0 .. n - 1 : ms[k + 1].role = "user" => h[k].pending = {}
  <2> SUFFICES ASSUME NEW k \in 0 .. n - 1, ms[k + 1].role = "user" PROVE h[k].pending = {}
    OBVIOUS
  <2>1. k + 1 \in 0 .. n
    BY <1>4
  <2>2. CheckMessage(h[k], ms[k + 1]).ok
    BY <1>6, <1>7, <2>1
  <2> QED
    BY <2>2 DEF CheckMessage
<1>10. h[a - 1].pending = {} /\ h[b - 1].pending = {}
  <2>1. a - 1 \in 0 .. n - 1 /\ b - 1 \in 0 .. n - 1 /\ (a - 1) + 1 = a /\ (b - 1) + 1 = b
    BY <1>4, <1>5
  <2> QED
    BY <1>9, <2>1
<1>11. g[a - 1] = h[a - 1]
  <2>1. Alike(ls, ms, a - 1)
    BY <1>1, <1>4, <1>5 DEF Alike, n
  <2>2. Reading(ls, g) /\ Reading(ms, h)
    BY <1>2, <1>3
  <2> QED
    BY <2>1, <2>2, SamePlaces
<1>12. h[a - 1].ids \subseteq h[b - 1].ids
  <2>1. \A k \in 0 .. n : h[k].ids = UNION {IdsOf(ms[i].calls) : i \in 1 .. k}
    <3>1. Len(ms) \in Nat /\ Reading(ms, h)
      BY <1>2, <1>4 DEF n
    <3> QED
      BY <3>1, IdsRead DEF n
  <2>2. a - 1 \in 0 .. n /\ b - 1 \in 0 .. n
    BY <1>4, <1>5
  <2>5. \A i \in 1 .. a - 1 : i \in 1 .. b - 1
    BY <1>5
  <2>3. h[a - 1].ids = UNION {IdsOf(ms[i].calls) : i \in 1 .. a - 1}
    BY <2>1, <2>2
  <2>4. h[b - 1].ids = UNION {IdsOf(ms[i].calls) : i \in 1 .. b - 1}
    BY <2>1, <2>2
  <2> QED
    BY <2>3, <2>4, <2>5
<1> DEFINE Good == {j \in Nat : j <= q => Easier(h[(b - 1) + j], g[(a - 1) + j])}
<1>13. 0 \in Good
  <2>1. (b - 1) + 0 = b - 1 /\ (a - 1) + 0 = a - 1 /\ a - 1 \in 0 .. n
    BY <1>4, <1>5
  <2> QED
    BY <1>6, <1>10, <1>11, <1>12, <2>1 DEF Easier
<1>14. ASSUME NEW j \in Good PROVE j + 1 \in Good
  <2> SUFFICES ASSUME j + 1 <= q PROVE Easier(h[(b - 1) + (j + 1)], g[(a - 1) + (j + 1)])
    OBVIOUS
  <2> DEFINE k == (b - 1) + j
             l == (a - 1) + j
  <2>1. /\ k \in 0 .. n - 1 /\ k + 1 \in 0 .. n /\ k - 1 \in 0 .. n - 1 /\ (k - 1) + 1 = k
        /\ k + 1 = (b - 1) + (j + 1)
        /\ l \in 0 .. (a - 1) + q - 1 /\ l + 1 = (a - 1) + (j + 1) /\ j + 1 \in 1 .. q /\ j <= q
    BY <1>4, <1>5
  <2>2. Easier(h[k], g[l])
    BY <2>1
  <2>3. ls[l + 1] = ms[k + 1]
    BY <1>1, <2>1
  <2> HIDE DEF k, l
  <2>4. h[k + 1] = CheckMessage(h[k], ms[k + 1]) /\ g[l + 1] = CheckMessage(g[l], ms[k + 1])
    BY <1>7, <1>8, <2>1, <2>3
  <2>5. h[k].first = FALSE
    <3>1. h[k] = CheckMessage(h[k - 1], ms[k])
      BY <1>7, <2>1
    <3>2. CheckMessage(h[k - 1], ms[k]).first = FALSE
      BY OneMessage, Zenon
    <3> QED
      BY <3>1, <3>2
  <2>6. CheckMessage(h[k], ms[k + 1]).ok
    BY <1>6, <2>1, <2>4
  <2>7. Easier(CheckMessage(h[k], ms[k + 1]), CheckMessage(g[l], ms[k + 1]))
    BY <2>2, <2>5, <2>6, EasierStays
  <2> QED
    BY <2>1, <2>4, <2>7
<1>15. Good \in SUBSET Nat
  OBVIOUS
<1>16. q \in Good => Easier(h[(b - 1) + q], g[(a - 1) + q])
  BY <1>5
<1> HIDE DEF Good
<1>17. \A j \in Good : j + 1 \in Good
  BY <1>14
<1>18. q \in Good
  BY <1>5, <1>13, <1>15, <1>17, OneByOne
<1>19. (b - 1) + q = n
  BY <1>4, <1>5
<1>20. Easier(Checked(ms), Checked(ls))
  BY <1>1, <1>2, <1>3, <1>16, <1>18, <1>19
<1> QED
  BY <1>1, <1>20 DEF Easier, ls

-----------------------------------------------------------------------------
(***************************************************************************)
(* The invariant.                                                          *)
(***************************************************************************)
LEMMA ConversationInit ==
    Init => ConversationInv
<1> SUFFICES ASSUME Init PROVE ConversationInv
  OBVIOUS
<1>1. messages = <<>> /\ options = {} /\ turn = "client" /\ request.toolChoice = "auto"
  BY DEF Init
<1>2. messages \in Seq({})
  BY <1>1
<1>3. Checked(messages).ok
  BY <1>1, CheckedEmpty DEF Nothing
<1> QED
  BY <1>1, <1>2, <1>3 DEF ConversationInv, HistoryIsSequence, HistoryIsGood, OptionsFirst,
     NothingPending, ChoiceIsKnown, ToolChoices, Turns, HistoryStaysValid

\* A good message at the end.
LEMMA OneMore ==
    ASSUME HistoryIsSequence, NEW m, messages' = Append(messages, m),
           CheckMessage(Checked(messages), m).ok
    PROVE  HistoryIsSequence' /\ HistoryIsGood'
<1>1. PICK S : messages \in Seq(S)
  BY DEF HistoryIsSequence
<1>2. PICK T : Append(messages, m) \in Seq(T)
  BY <1>1, CheckedAppend
<1>3. Checked(Append(messages, m)) = CheckMessage(Checked(messages), m)
  BY <1>1, CheckedAppend
<1>4. messages' \in Seq(T) /\ Checked(messages').ok
  BY <1>2, <1>3
<1> QED
  BY <1>4 DEF HistoryIsSequence, HistoryIsGood

\* With its own turn, options and a good history the client has nothing else to keep.
LEMMA ClientsTurn ==
    ASSUME HistoryIsSequence', HistoryIsGood', turn' = "client", options' # {},
           request'.toolChoice \in ToolChoices
    PROVE  ConversationInv'
  BY DEF ConversationInv, OptionsFirst, NothingPending, ChoiceIsKnown, Turns, HistoryStaysValid

\* A message without calls that says something, when nothing is pending.
LEMMA SpokenIsGood ==
    ASSUME NEW s, s.ok, s.pending = {}, NEW role \in {"user", "assistant", "system"},
           role = "system" => s.first
    PROVE  CheckMessage(s, Message(role, TRUE, <<>>, NoId)).ok
<1> DEFINE m == Message(role, TRUE, <<>>, NoId)
<1>1. m.role = role /\ m.content = TRUE /\ m.calls = <<>>
  BY DEF Message
<1>2. m.role # "tool"
  BY <1>1
<1> HIDE DEF m
<1>3. CheckMessage(s, m).ok
  BY <1>1, <1>2 DEF CheckMessage
<1> QED
  BY <1>3 DEF m

LEMMA BeginKeeps ==
    ASSUME ConversationInv, NEW tools, NEW choice \in ToolChoices, NEW parallel, NEW system \in BOOLEAN,
           Begin(tools, choice, parallel, system)
    PROVE  ConversationInv'
<1> DEFINE m == Message("system", TRUE, <<>>, NoId)
<1>1. /\ messages = <<>> /\ turn' = "client" /\ options' # {} /\ request'.toolChoice = choice
      /\ messages' = IF system THEN <<m>> ELSE <<>>
  BY DEF Begin, ConversationInv, OptionsFirst
<1>2. HistoryIsSequence' /\ HistoryIsGood'
  <2>1. CASE system
    <3>1. messages' = Append(messages, m)
      <4>1. messages' = <<m>> /\ messages = <<>>
        BY <1>1, <2>1
      <4> HIDE DEF m
      <4>2. Append(<<>>, m) = <<m>>
        OBVIOUS
      <4> QED
        BY <4>1, <4>2
    <3>2. Checked(messages) = Nothing
      BY <1>1, CheckedEmpty
    <3>3. CheckMessage(Checked(messages), m).ok
      BY <3>2, SpokenIsGood DEF Nothing
    <3> HIDE DEF m
    <3> QED
      BY <3>1, <3>3, OneMore DEF ConversationInv
  <2>2. CASE ~system
    BY <1>1, <2>2 DEF ConversationInv, HistoryIsSequence, HistoryIsGood
  <2> QED
    BY <2>1, <2>2
<1> QED
  BY <1>1, <1>2, ClientsTurn

LEMMA SayKeeps ==
    ASSUME ConversationInv, Say
    PROVE  ConversationInv'
<1> DEFINE m == Message("user", TRUE, <<>>, NoId)
<1>1. /\ messages' = Append(messages, m) /\ Checked(messages).pending = {} /\ Checked(messages).ok
      /\ turn' = "client" /\ options' # {} /\ request'.toolChoice \in ToolChoices
  BY DEF Say, Waiting, ConversationInv, HistoryIsGood, ChoiceIsKnown
<1>2. CheckMessage(Checked(messages), m).ok
  BY <1>1, SpokenIsGood
<1> HIDE DEF m
<1>3. HistoryIsSequence' /\ HistoryIsGood'
  BY <1>1, <1>2, OneMore DEF ConversationInv
<1> QED
  BY <1>1, <1>3, ClientsTurn

LEMMA AnswerKeeps ==
    ASSUME ConversationInv, NEW id \in Waiting, NEW content \in BOOLEAN, Answer(id, content)
    PROVE  ConversationInv'
<1> DEFINE m == Message("tool", content, <<>>, id)
           s == Checked(messages)
<1>1. /\ messages' = Append(messages, m) /\ id \in s.pending /\ s.ok
      /\ turn' = "client" /\ request'.toolChoice \in ToolChoices
  BY DEF Answer, Waiting, ConversationInv, HistoryIsGood, ChoiceIsKnown
<1>2. options' # {}
  <2>1. messages = <<>> => s.pending = {}
    BY CheckedEmpty DEF Nothing
  <2>2. messages # <<>>
    BY <1>1, <2>1
  <2> QED
    BY <2>2 DEF Answer, ConversationInv, OptionsFirst
<1>3. m.role = "tool" /\ m.id = id /\ m.calls = <<>>
  BY DEF Message
<1> HIDE DEF m, s
<1>4. CheckMessage(s, m).ok
  BY <1>1, <1>3 DEF CheckMessage
<1>5. HistoryIsSequence' /\ HistoryIsGood'
  BY <1>1, <1>4, OneMore DEF ConversationInv, s
<1> QED
  BY <1>1, <1>2, <1>5, ClientsTurn

\* The two things the user said between which a turn goes.
LEMMA CompactPlaces ==
    ASSUME HistoryIsSequence, Compact
    PROVE  \E a, b \in 1 .. Len(messages) :
              /\ a < b /\ messages[a].role = "user" /\ messages[b].role = "user"
              /\ messages' = Without(messages, a, b)
<1> DEFINE users == {i \in DOMAIN messages : messages[i].role = "user"}
           first == CHOOSE i \in users : \A j \in users : i <= j
           others == users \ {first}
           next == CHOOSE i \in others : \A j \in others : i <= j
<1>1. Cardinality(users) > 1 /\ messages' = Without(messages, first, next)
  BY DEF Compact, Without
<1>2. DOMAIN messages = 1 .. Len(messages) /\ Len(messages) \in Nat
  BY LenProperties DEF HistoryIsSequence
<1>3. users \in SUBSET (1 .. Len(messages)) /\ users \in SUBSET Nat
  BY <1>2
<1>4. \A i \in users : messages[i].role = "user"
  OBVIOUS
<1> HIDE DEF users
<1>5. users # {}
  BY <1>1, FS_EmptySet
<1>6. first \in users /\ \A j \in users : first <= j
  <2>1. Min(users) \in users /\ \A j \in users : Min(users) <= j
    BY <1>3, <1>5, Minimum
  <2> QED
    BY <2>1
<1> HIDE DEF first
<1>7. others # {}
  <2>1. others = {} => users = {first}
    BY <1>6
  <2>2. Cardinality({first}) = 1
    BY FS_Singleton
  <2> QED
    BY <1>1, <2>1, <2>2
<1>8. others \in SUBSET users /\ first \notin others /\ others \in SUBSET Nat
  BY <1>3
<1> HIDE DEF others
<1>9. next \in others /\ \A j \in others : next <= j
  <2>1. Min(others) \in others /\ \A j \in others : Min(others) <= j
    BY <1>7, <1>8, Minimum
  <2> QED
    BY <2>1
<1> HIDE DEF next
<1>10. first < next
  BY <1>3, <1>6, <1>8, <1>9
<1> QED
  BY <1>1, <1>3, <1>4, <1>6, <1>8, <1>9, <1>10

LEMMA CompactKeeps ==
    ASSUME ConversationInv, Compact
    PROVE  ConversationInv'
<1>1. PICK S : messages \in Seq(S)
  BY DEF ConversationInv, HistoryIsSequence
<1>2. PICK a, b \in 1 .. Len(messages) :
         /\ a < b /\ messages[a].role = "user" /\ messages[b].role = "user"
         /\ messages' = Without(messages, a, b)
  BY CompactPlaces DEF ConversationInv
<1>3. Checked(messages).ok
  BY DEF ConversationInv, HistoryIsGood
<1>4. Without(messages, a, b) \in Seq(S) /\ Checked(Without(messages, a, b)).ok
  BY <1>1, <1>2, <1>3, TurnTakenOut
<1>5. HistoryIsSequence' /\ HistoryIsGood'
  BY <1>2, <1>4 DEF HistoryIsSequence, HistoryIsGood
<1>6. turn' = "client" /\ request'.toolChoice \in ToolChoices
  BY DEF Compact, ConversationInv, ChoiceIsKnown
<1>7. options' # {}
  <2>1. Len(<<>>) = 0 /\ 1 .. 0 = {}
    OBVIOUS
  <2>2. messages # <<>>
    BY <1>2, <2>1
  <2> QED
    BY <2>2 DEF Compact, ConversationInv, OptionsFirst
<1> QED
  BY <1>5, <1>6, <1>7, ClientsTurn

LEMMA ReviseKeeps ==
    ASSUME ConversationInv, NEW tools, NEW choice \in ToolChoices, NEW parallel,
           Revise(tools, choice, parallel)
    PROVE  ConversationInv'
<1>1. HistoryIsSequence' /\ HistoryIsGood'
  BY DEF Revise, ConversationInv, HistoryIsSequence, HistoryIsGood
<1> QED
  BY <1>1, ClientsTurn DEF Revise

\* converse() refuses no history; all that it can refuse is that tools are required.
LEMMA SendKeeps ==
    ASSUME ConversationInv, Send
    PROVE  ConversationInv'
<1>1. HistoryIsSequence' /\ HistoryIsGood' /\ OptionsFirst' /\ ChoiceIsKnown'
  BY DEF Send, ConversationInv, HistoryIsSequence, HistoryIsGood, OptionsFirst, ChoiceIsKnown
<1>2. NothingPending' /\ Turns'
  BY DEF Send, ConversationInv, NothingPending, Turns, Waiting
<1>3. HistoryStaysValid'
  <2> SUFFICES ASSUME ~RequestOk(request, messages, options)
               PROVE  request.toolChoice = "required" /\ request.tools = {}
    BY DEF Send, HistoryStaysValid
  <2>1. messages # <<>> /\ messages[Len(messages)].role \in {"user", "tool"}
    BY DEF Send, LastRole
  <2>2. options # {} /\ Checked(messages).pending = {}
    BY DEF Send, Waiting
  <2>3. Checked(messages).ok /\ request.toolChoice \in ToolChoices
    BY DEF ConversationInv, HistoryIsGood, ChoiceIsKnown
  <2> QED
    BY <2>1, <2>2, <2>3 DEF RequestOk
<1> QED
  BY <1>1, <1>2, <1>3 DEF ConversationInv

\* A reply that validateConversationReply() finds nothing wrong with is a message that
\* validateConversationRequest() finds nothing wrong with.
LEMMA ReplyIsGood ==
    ASSUME HistoryIsSequence, NEW s, s = Checked(messages), s.ok, s.pending = {},
           NEW text \in BOOLEAN, NEW calls, ReplyOk(calls), text \/ calls # <<>>
    PROVE  CheckMessage(s, Message("assistant", text, calls, NoId)).ok
<1> DEFINE m == Message("assistant", text, calls, NoId)
<1>1. m.role = "assistant" /\ m.content = text /\ m.calls = calls
  BY DEF Message
<1>2. s.ids = AllIds(messages)
  BY CheckedIds DEF HistoryIsSequence
<1>3. /\ Len(calls) <= MaxCalls /\ \A i \in DOMAIN calls : CheckCall(calls[i])
      /\ Cardinality(IdsOf(calls)) = Len(calls) /\ IdsOf(calls) \cap s.ids = {}
  BY <1>2 DEF ReplyOk
<1> HIDE DEF m
<1>4. CheckMessage(s, m).ok
  <2>1. m.role # "tool" /\ m.role # "system"
    BY <1>1
  <2>2. CASE calls = <<>>
    BY <1>1, <2>1, <2>2 DEF CheckMessage
  <2>3. CASE calls # <<>>
    BY <1>1, <1>3, <2>1, <2>3 DEF CheckMessage
  <2> QED
    BY <2>2, <2>3
<1> QED
  BY <1>4 DEF m

\* The calls of a reply are a sequence.
LEMMA FewCalls ==
    ASSUME NEW set, NEW n, NEW calls \in SeqOf(set, n), DOMAIN calls = {}
    PROVE  calls = <<>>
<1>1. PICK m \in 0 .. n : calls \in [1 .. m -> set]
  BY DEF SeqOf
<1> QED
  BY <1>1

LEMMA ReplyKeeps ==
    ASSUME ConversationInv, NEW text \in BOOLEAN, NEW calls \in Replies, Reply(text, calls)
    PROVE  ConversationInv'
<1> DEFINE given == WithIds(calls)
           m == Message("assistant", text, given, NoId)
           s == Checked(messages)
<1>1. s.ok /\ s.pending = {} /\ HistoryIsSequence
  BY DEF ConversationInv, HistoryIsGood, NothingPending, Reply
<1>2. turn' = "client" /\ options' # {} /\ request'.toolChoice \in ToolChoices
  BY DEF Reply, ConversationInv, ChoiceIsKnown, OptionsFirst
<1>3. \/ messages' = messages
      \/ messages' = Append(messages, m) /\ ReplyOk(given) /\ (text \/ calls # <<>>)
  BY DEF Reply
<1>4. CASE messages' = messages
  <2>1. HistoryIsSequence' /\ HistoryIsGood'
    BY <1>1, <1>4 DEF HistoryIsSequence, HistoryIsGood
  <2> QED
    BY <1>2, <2>1, ClientsTurn
<1>5. CASE messages' = Append(messages, m) /\ ReplyOk(given) /\ (text \/ calls # <<>>)
  <2>1. DOMAIN given = DOMAIN calls
    BY DEF WithIds
  <2>2. calls # <<>> => given # <<>>
    <3>1. DOMAIN calls = {} => calls = <<>>
      BY FewCalls DEF Replies
    <3>2. DOMAIN <<>> = {}
      OBVIOUS
    <3> HIDE DEF given
    <3> QED
      BY <2>1, <3>1, <3>2
  <2> HIDE DEF given
  <2>3. CheckMessage(s, m).ok
    BY <1>1, <1>5, <2>2, ReplyIsGood
  <2> HIDE DEF m
  <2>4. HistoryIsSequence' /\ HistoryIsGood'
    BY <1>1, <1>5, <2>3, OneMore
  <2> QED
    BY <1>2, <2>4, ClientsTurn
<1> QED
  BY <1>3, <1>4, <1>5

LEMMA ConversationStep ==
    ASSUME ConversationInv, [Next]_vars
    PROVE  ConversationInv'
<1>1. CASE UNCHANGED vars
  BY <1>1 DEF vars, ConversationInv, HistoryIsSequence, HistoryIsGood, OptionsFirst,
     NothingPending, ChoiceIsKnown, Turns, HistoryStaysValid
<1>2. CASE \E tools \in SUBSET Tools, choice \in ToolChoices, parallel, system \in BOOLEAN :
              Begin(tools, choice, parallel, system)
  BY <1>2, BeginKeeps
<1>3. CASE \E tools \in SUBSET Tools, choice \in ToolChoices, parallel \in BOOLEAN :
              Revise(tools, choice, parallel)
  BY <1>3, ReviseKeeps
<1>4. CASE Say
  BY <1>4, SayKeeps
<1>5. CASE \E id \in Waiting, content \in BOOLEAN : Answer(id, content)
  BY <1>5, AnswerKeeps
<1>6. CASE Compact
  BY <1>6, CompactKeeps
<1>7. CASE Send
  BY <1>7, SendKeeps
<1>8. CASE \E text \in BOOLEAN, calls \in Replies : Reply(text, calls)
  BY <1>8, ReplyKeeps
<1> QED
  BY <1>1, <1>2, <1>3, <1>4, <1>5, <1>6, <1>7, <1>8 DEF Next, Continue

THEOREM ConversationInvariant == Spec => []ConversationInv
  BY ConversationInit, ConversationStep, PTL DEF Spec

\* A client that appends the replies that validateConversationReply() let through, answers
\* their calls in any order and drops its oldest turns is never refused for its history, for
\* any tools, ids and bounds, and however long it goes on.
THEOREM HistoryHolds == Spec => []HistoryStaysValid
<1>1. ConversationInv => HistoryStaysValid
  BY DEF ConversationInv
<1> QED
  BY <1>1, ConversationInvariant, PTL

-----------------------------------------------------------------------------
(***************************************************************************)
(* Sequences in the order of a relation R, a set of pairs.                 *)
(***************************************************************************)
StrictlyOrders(R, T) ==
    /\ \A x \in T : <<x, x>> \notin R
    /\ \A x, y \in T : x # y => <<x, y>> \in R \/ <<y, x>> \in R
    /\ \A x, y, z \in T : <<x, y>> \in R /\ <<y, z>> \in R => <<x, z>> \in R

InOrder(R, s) == \A i, j \in DOMAIN s : i < j => <<s[i], s[j]>> \in R

\* s lists the n elements of T in order.
Sorts(R, T, n, s) == s \in [1 .. n -> T] /\ Range(s) = T /\ InOrder(R, s)

\* One more element finds its place.
LEMMA Inserted ==
    ASSUME NEW R, NEW T, NEW x, x \notin T, StrictlyOrders(R, T \cup {x}),
           NEW n \in Nat, NEW s, Sorts(R, T, n, s)
    PROVE  \E t : Sorts(R, T \cup {x}, n + 1, t)
<1> DEFINE U == T \cup {x}
           before == {i \in 1 .. n : <<s[i], x>> \in R}
<1>1. s \in [1 .. n -> T] /\ Range(s) = T
  BY DEF Sorts
<1>2. \A i, j \in 1 .. n : i < j => <<s[i], s[j]>> \in R
  BY <1>1 DEF Sorts, InOrder
<1>3. PICK p \in 0 .. n : /\ \A i \in 1 .. n : i <= p => <<s[i], x>> \in R
                         /\ \A i \in 1 .. n : i > p => <<x, s[i]>> \in R
  <2>1. \A i \in 1 .. n : s[i] \in T /\ s[i] # x /\ s[i] \in U /\ x \in U
    BY <1>1
  <2>2. \A i \in 1 .. n : i \notin before => <<x, s[i]>> \in R
    BY <2>1 DEF StrictlyOrders
  <2>3. CASE before = {}
    <3>1. 0 \in 0 .. n /\ \A i \in 1 .. n : ~(i <= 0)
      OBVIOUS
    <3> QED
      BY <2>2, <2>3, <3>1
  <2>4. CASE before # {}
    <3>1. before \in SUBSET (0 .. n)
      OBVIOUS
    <3> DEFINE p == Max(before)
    <3>2. p \in before /\ \A y \in before : y <= p
      <4> HIDE DEF before
      <4> QED
        BY <2>4, <3>1, Maximum
    <3> HIDE DEF p
    <3>3. p \in 1 .. n /\ <<s[p], x>> \in R
      BY <3>2
    <3>4. \A i \in 1 .. n : i < p => <<s[i], x>> \in R
      BY <1>2, <2>1, <3>3 DEF StrictlyOrders
    <3>5. \A i \in 1 .. n : i <= p => <<s[i], x>> \in R
      BY <3>3, <3>4
    <3>6. \A i \in 1 .. n : i > p => i \notin before
      BY <3>2, <3>3
    <3>7. p \in 0 .. n
      BY <3>3
    <3> HIDE DEF before
    <3> QED
      BY <2>2, <3>5, <3>6, <3>7
  <2> QED
    BY <2>3, <2>4
<1> DEFINE t == [i \in 1 .. n + 1 |-> IF i <= p THEN s[i] ELSE IF i = p + 1 THEN x ELSE s[i - 1]]
<1>4. /\ \A i \in 1 .. n + 1 : i <= p => i \in 1 .. n
      /\ \A i \in 1 .. n + 1 : i > p + 1 => i - 1 \in 1 .. n /\ i - 1 > p
      /\ p + 1 \in 1 .. n + 1 /\ ~(p + 1 <= p)
  OBVIOUS
<1>5. /\ \A i \in 1 .. n + 1 : i <= p => t[i] = s[i]
      /\ t[p + 1] = x
      /\ \A i \in 1 .. n + 1 : i > p + 1 => t[i] = s[i - 1]
  BY <1>4
<1>6. \A i \in 1 .. n + 1 : i <= p \/ i = p + 1 \/ i > p + 1
  OBVIOUS
<1>7. t \in [1 .. n + 1 -> U]
  <2>1. \A i \in 1 .. n + 1 : t[i] \in U
    <3> HIDE DEF t
    <3> QED
      BY <1>1, <1>4, <1>5, <1>6
  <2> QED
    BY <2>1
<1>8. DOMAIN t = 1 .. n + 1
  OBVIOUS
<1> HIDE DEF t
<1>9. Range(t) = U
  <2>1. \A i \in 1 .. n : i <= p => i \in 1 .. n + 1 /\ t[i] = s[i]
    BY <1>5
  <2>2. \A i \in 1 .. n : ~(i <= p) => i + 1 \in 1 .. n + 1 /\ t[i + 1] = s[i]
    <3>1. \A i \in 1 .. n : ~(i <= p) => i + 1 \in 1 .. n + 1 /\ i + 1 > p + 1 /\ (i + 1) - 1 = i
      OBVIOUS
    <3> QED
      BY <1>5, <3>1
  <2>3. \A y \in T : \E i \in 1 .. n : s[i] = y
    BY <1>1 DEF Range
  <2>4. \A y \in T : \E i \in 1 .. n + 1 : t[i] = y
    BY <2>1, <2>2, <2>3
  <2> QED
    BY <1>4, <1>5, <1>7, <1>8, <2>4 DEF Range
<1>10. InOrder(R, t)
  <2> SUFFICES ASSUME NEW i \in 1 .. n + 1, NEW j \in 1 .. n + 1, i < j PROVE <<t[i], t[j]>> \in R
    BY <1>8 DEF InOrder
  <2>1. CASE j <= p
    <3>1. i <= p /\ i \in 1 .. n /\ j \in 1 .. n
      BY <2>1
    <3> QED
      BY <1>2, <1>5, <2>1, <3>1
  <2>2. CASE j = p + 1
    <3>1. i <= p /\ i \in 1 .. n
      BY <2>2
    <3> QED
      BY <1>3, <1>5, <2>2, <3>1
  <2>3. CASE j > p + 1
    <3>1. j - 1 \in 1 .. n /\ j - 1 > p /\ t[j] = s[j - 1]
      BY <1>4, <1>5, <2>3
    <3>2. CASE i <= p
      <4>1. i \in 1 .. n /\ i < j - 1 /\ t[i] = s[i]
        BY <1>5, <2>3, <3>2
      <4> QED
        BY <1>2, <3>1, <4>1
    <3>3. CASE i = p + 1
      BY <1>3, <1>5, <3>1, <3>3
    <3>4. CASE i > p + 1
      <4>1. i - 1 \in 1 .. n /\ i - 1 < j - 1 /\ t[i] = s[i - 1]
        BY <1>4, <1>5, <3>4
      <4> QED
        BY <1>2, <3>1, <4>1
    <3> QED
      BY <1>6, <3>2, <3>3, <3>4
  <2> QED
    BY <1>6, <2>1, <2>2, <2>3
<1> QED
  BY <1>7, <1>9, <1>10 DEF Sorts

\* So every finite set can be put in order: the sort() of orderExecutionDevices() ends well.
LEMMA SortedExists ==
    ASSUME NEW R, NEW T, IsFiniteSet(T), StrictlyOrders(R, T)
    PROVE  \E s : Sorts(R, T, Cardinality(T), s)
<1> DEFINE Sortable(U, n) == \E s : Sorts(R, U, n, s)
           Good == {n \in Nat : \A U \in SUBSET T : IsFiniteSet(U) /\ Cardinality(U) = n => Sortable(U, n)}
<1>1. 0 \in Good
  <2> SUFFICES ASSUME NEW U \in SUBSET T, IsFiniteSet(U), Cardinality(U) = 0 PROVE Sortable(U, 0)
    OBVIOUS
  <2>1. U = {} /\ 1 .. 0 = {}
    BY FS_EmptySet
  <2> DEFINE s == [i \in 1 .. 0 |-> i]
  <2>2. Sorts(R, U, 0, s)
    BY <2>1 DEF Sorts, Range, InOrder
  <2> QED
    BY <2>2
<1>2. ASSUME NEW n \in Good PROVE n + 1 \in Good
  <2> SUFFICES ASSUME NEW U \in SUBSET T, IsFiniteSet(U), Cardinality(U) = n + 1 PROVE Sortable(U, n + 1)
    OBVIOUS
  <2>1. PICK x : x \in U
    <3>1. n + 1 # 0
      OBVIOUS
    <3> QED
      BY <3>1, FS_EmptySet
  <2> DEFINE V == U \ {x}
  <2>2. IsFiniteSet(V) /\ Cardinality(V) = n /\ V \in SUBSET T
    <3>1. Cardinality(V) = Cardinality(U) - 1 /\ IsFiniteSet(V)
      BY <2>1, FS_RemoveElement
    <3> QED
      BY <3>1
  <2>3. x \notin V /\ V \cup {x} = U /\ StrictlyOrders(R, U)
    BY <2>1 DEF StrictlyOrders
  <2> HIDE DEF V
  <2>4. PICK s : Sorts(R, V, n, s)
    BY <2>2
  <2>5. n \in Nat
    OBVIOUS
  <2> HIDE DEF Good
  <2>6. \E t : Sorts(R, V \cup {x}, n + 1, t)
    BY <2>3, <2>4, <2>5, Inserted
  <2> QED
    BY <2>3, <2>6
<1>3. Good \in SUBSET Nat
  OBVIOUS
<1>4. Cardinality(T) \in Nat
  BY FS_CardinalityType
<1>5. Cardinality(T) \in Good => Sortable(T, Cardinality(T))
  OBVIOUS
<1> HIDE DEF Good
<1>6. \A n \in Good : n + 1 \in Good
  BY <1>2
<1> QED
  BY <1>1, <1>3, <1>4, <1>5, <1>6, OneByOne

\* A concatenation is in order when its parts are, and one goes before the other.
LEMMA ConcatInOrder ==
    ASSUME NEW S, NEW R, NEW u \in Seq(S), NEW v \in Seq(S)
    PROVE  /\ u \o v \in Seq(S)
           /\ Range(u \o v) = Range(u) \cup Range(v)
           /\ InOrder(R, u) /\ InOrder(R, v) /\ (\A x \in Range(u), y \in Range(v) : <<x, y>> \in R)
              => InOrder(R, u \o v)
<1> DEFINE m == Len(u)
           n == Len(v)
           w == u \o v
<1>1. m \in Nat /\ n \in Nat /\ DOMAIN u = 1 .. m /\ DOMAIN v = 1 .. n
  BY LenProperties
<1>2. w \in Seq(S)
  BY ConcatProperties
<1>3. Len(w) = m + n
  BY ConcatProperties
<1>4. \A i \in 1 .. m + n : w[i] = IF i <= m THEN u[i] ELSE v[i - m]
  BY ConcatProperties
<1>5. DOMAIN w = 1 .. m + n
  BY <1>2, <1>3, LenProperties
<1> HIDE DEF w, m, n
<1>6. \A i \in 1 .. m : i \in 1 .. m + n /\ w[i] = u[i]
  <2>1. \A i \in 1 .. m : i \in 1 .. m + n /\ i <= m
    BY <1>1
  <2> QED
    BY <1>4, <2>1
<1>7. \A i \in 1 .. n : m + i \in 1 .. m + n /\ w[m + i] = v[i]
  <2>1. \A i \in 1 .. n : m + i \in 1 .. m + n /\ ~(m + i <= m) /\ (m + i) - m = i
    BY <1>1
  <2> QED
    BY <1>4, <2>1
<1>8. \A i \in 1 .. m + n : i \in 1 .. m \/ (i - m \in 1 .. n /\ m + (i - m) = i)
  BY <1>1
<1>9. Range(w) = Range(u) \cup Range(v)
  <2>1. /\ Range(u) = {u[i] : i \in 1 .. m} /\ Range(v) = {v[i] : i \in 1 .. n}
        /\ Range(w) = {w[i] : i \in 1 .. m + n}
    BY <1>1, <1>5 DEF Range
  <2>2. \A i \in 1 .. m + n : w[i] \in Range(u) \cup Range(v)
    <3> SUFFICES ASSUME NEW i \in 1 .. m + n PROVE w[i] \in Range(u) \cup Range(v)
      OBVIOUS
    <3>1. CASE i \in 1 .. m
      BY <1>6, <2>1, <3>1
    <3>2. CASE i - m \in 1 .. n /\ m + (i - m) = i
      <4>1. w[i] = v[i - m]
        BY <1>7, <3>2
      <4> QED
        BY <2>1, <3>2, <4>1
    <3> QED
      BY <1>8, <3>1, <3>2
  <2>3. \A x \in Range(u) : x \in Range(w)
    BY <1>6, <2>1
  <2>4. \A x \in Range(v) : x \in Range(w)
    BY <1>7, <2>1
  <2> QED
    BY <2>1, <2>2, <2>3, <2>4
<1>10. ASSUME InOrder(R, u), InOrder(R, v), \A x \in Range(u), y \in Range(v) : <<x, y>> \in R
       PROVE  InOrder(R, w)
  <2> SUFFICES ASSUME NEW i \in 1 .. m + n, NEW j \in 1 .. m + n, i < j PROVE <<w[i], w[j]>> \in R
    BY <1>5 DEF InOrder
  <2>1. CASE j \in 1 .. m
    <3>1. i \in 1 .. m
      BY <1>1, <2>1
    <3> QED
      BY <1>1, <1>6, <1>10, <2>1, <3>1 DEF InOrder
  <2>2. CASE i \in 1 .. m /\ j - m \in 1 .. n /\ m + (j - m) = j
    <3>1. w[i] = u[i] /\ w[j] = v[j - m]
      BY <1>6, <1>7, <2>2
    <3>2. u[i] \in Range(u) /\ v[j - m] \in Range(v)
      BY <1>1, <2>2 DEF Range
    <3> QED
      BY <1>10, <3>1, <3>2
  <2>3. CASE i - m \in 1 .. n /\ m + (i - m) = i /\ j - m \in 1 .. n /\ m + (j - m) = j
    <3>1. w[i] = v[i - m] /\ w[j] = v[j - m]
      BY <1>7, <2>3
    <3>2. i - m < j - m
      BY <1>1
    <3> QED
      BY <1>1, <1>10, <2>3, <3>1, <3>2 DEF InOrder
  <2>4. j \in 1 .. m \/ (j - m \in 1 .. n /\ m + (j - m) = j)
    BY <1>8
  <2>5. i \in 1 .. m \/ (i - m \in 1 .. n /\ m + (i - m) = i)
    BY <1>8
  <2> QED
    BY <2>1, <2>2, <2>3, <2>4, <2>5
<1> QED
  BY <1>2, <1>9, <1>10 DEF w

-----------------------------------------------------------------------------
(***************************************************************************)
(* FlattenSeq, one sequence after the other.                               *)
(***************************************************************************)
LEMMA FlatteningExists ==
    ASSUME NEW q, NEW n \in Nat
    PROVE  \E h : h = [i \in 1 .. n |-> IF i = 1 THEN q[i] ELSE h[i - 1] \o q[i]]
<1> DEFINE step(h, i) == IF i = 1 THEN q[i] ELSE h[i - 1] \o q[i]
           Good == {m \in Nat : \E h : \A i \in 1 .. m : h[i] = step(h, i)}
<1>1. 0 \in Good
  <2>1. 1 .. 0 = {}
    OBVIOUS
  <2> QED
    BY <2>1
<1>2. ASSUME NEW m \in Good PROVE m + 1 \in Good
  <2>1. PICK g : \A i \in 1 .. m : g[i] = step(g, i)
    OBVIOUS
  <2> DEFINE h == [i \in 1 .. m + 1 |-> step(g, i)]
  <2>2. ASSUME NEW i \in 1 .. m + 1 PROVE h[i] = step(h, i)
    <3>1. CASE i = 1
      BY <3>1
    <3>2. CASE i # 1
      <4>1. i - 1 \in 1 .. m /\ i - 1 \in 1 .. m + 1
        BY <3>2
      <4>2. h[i - 1] = g[i - 1]
        BY <2>1, <4>1
      <4> QED
        BY <3>2, <4>2
    <3> QED
      BY <3>1, <3>2
  <2>3. m + 1 \in Nat
    OBVIOUS
  <2> HIDE DEF h, step
  <2>4. \E k : \A i \in 1 .. m + 1 : k[i] = step(k, i)
    BY <2>2
  <2> QED
    BY <2>3, <2>4
<1>3. n \in Good
  <2>1. Good \in SUBSET Nat
    OBVIOUS
  <2> HIDE DEF Good
  <2> QED
    BY <1>1, <1>2, <2>1, OneByOne
<1>4. PICK g : \A i \in 1 .. n : g[i] = step(g, i)
  BY <1>3
<1> DEFINE h == [i \in 1 .. n |-> g[i]]
<1>5. ASSUME NEW i \in 1 .. n PROVE step(h, i) = step(g, i)
  <2>1. i # 1 => i - 1 \in 1 .. n
    OBVIOUS
  <2> QED
    BY <2>1
<1>6. h = [i \in 1 .. n |-> step(h, i)]
  <2> HIDE DEF step
  <2> QED
    BY <1>4, <1>5
<1> QED
  BY <1>6

LEMMA Flattened ==
    ASSUME NEW S, NEW q \in Seq(S)
    PROVE  \E h : /\ h[0] = <<>>
                  /\ \A i \in 0 .. Len(q) - 1 : h[i + 1] = IF i = 0 THEN q[1] ELSE h[i] \o q[i + 1]
                  /\ FlattenSeq(q) = h[Len(q)]
<1> DEFINE n == Len(q)
           g == CHOOSE g : g = [i \in 1 .. n |-> IF i = 1 THEN q[i] ELSE g[i - 1] \o q[i]]
           h == [i \in 0 .. n |-> IF i = 0 THEN <<>> ELSE g[i]]
<1>1. n \in Nat
  BY LenProperties
<1>2. CASE n = 0
  <2>1. q = <<>> /\ FlattenSeq(q) = <<>>
    <3>1. q = <<>>
      BY <1>2, EmptySeq
    <3> QED
      BY <1>2, <3>1 DEF FlattenSeq
  <2>2. h[0] = <<>> /\ 0 .. n - 1 = {}
    BY <1>1, <1>2
  <2> HIDE DEF h
  <2> QED
    BY <1>2, <2>1, <2>2
<1>3. CASE n # 0
  <2>1. FlattenSeq(q) = g[n]
    BY <1>1, <1>3 DEF FlattenSeq
  <2>2. g = [i \in 1 .. n |-> IF i = 1 THEN q[i] ELSE g[i - 1] \o q[i]]
    <3> HIDE DEF n
    <3> QED
      BY <1>1, FlatteningExists
  <2> HIDE DEF g, n
  <2>3. \A i \in 1 .. n : g[i] = IF i = 1 THEN q[i] ELSE g[i - 1] \o q[i]
    BY <2>2
  <2>4. h[0] = <<>> /\ \A i \in 1 .. n : h[i] = g[i]
    BY <1>1
  <2> HIDE DEF h
  <2>5. ASSUME NEW i \in 0 .. n - 1 PROVE h[i + 1] = IF i = 0 THEN q[1] ELSE h[i] \o q[i + 1]
    <3>1. i + 1 \in 1 .. n /\ (i = 0 <=> i + 1 = 1) /\ (i + 1) - 1 = i /\ (i # 0 => i \in 1 .. n)
      BY <1>1
    <3>2. h[i + 1] = IF i + 1 = 1 THEN q[i + 1] ELSE g[i] \o q[i + 1]
      BY <2>3, <2>4, <3>1
    <3> QED
      BY <2>4, <3>1, <3>2
  <2>6. n \in 1 .. n
    BY <1>1, <1>3
  <2> QED
    BY <2>1, <2>4, <2>5, <2>6 DEF n
<1> QED
  BY <1>2, <1>3

\* Lists that are in order, one list before the other, make a list in order.
LEMMA FlattenInOrder ==
    ASSUME NEW S, NEW R, NEW q \in Seq(Seq(S)),
           \A i \in DOMAIN q : InOrder(R, q[i]),
           \A i, j \in DOMAIN q : i < j => \A x \in Range(q[i]), y \in Range(q[j]) : <<x, y>> \in R
    PROVE  /\ FlattenSeq(q) \in Seq(S)
           /\ Range(FlattenSeq(q)) = UNION {Range(q[i]) : i \in DOMAIN q}
           /\ InOrder(R, FlattenSeq(q))
<1> DEFINE n == Len(q)
<1>1. PICK h : /\ h[0] = <<>>
               /\ \A i \in 0 .. n - 1 : h[i + 1] = IF i = 0 THEN q[1] ELSE h[i] \o q[i + 1]
               /\ FlattenSeq(q) = h[n]
  BY Flattened
<1>2. n \in Nat /\ DOMAIN q = 1 .. n /\ \A i \in 1 .. n : q[i] \in Seq(S)
  BY LenProperties, ElementOfSeq
<1> HIDE DEF n
<1> DEFINE Listed(k) == UNION {Range(q[i]) : i \in 1 .. k}
           Fine(k) == h[k] \in Seq(S) /\ Range(h[k]) = Listed(k) /\ InOrder(R, h[k])
           Good == {k \in Nat : k <= n => Fine(k)}
<1>3. 0 \in Good
  <2>1. 1 .. 0 = {} /\ DOMAIN <<>> = {} /\ <<>> \in Seq(S)
    OBVIOUS
  <2> QED
    BY <1>1, <2>1 DEF Range, InOrder
<1>4. ASSUME NEW k \in Good PROVE k + 1 \in Good
  <2> SUFFICES ASSUME k + 1 <= n PROVE Fine(k + 1)
    OBVIOUS
  <2>1. k \in Nat /\ k \in 0 .. n - 1 /\ k + 1 \in 1 .. n /\ 1 .. k + 1 = (1 .. k) \cup {k + 1} /\ Fine(k)
    BY <1>2
  <2>2. Listed(k + 1) = Listed(k) \cup Range(q[k + 1])
    BY <2>1
  <2>3. q[k + 1] \in Seq(S) /\ InOrder(R, q[k + 1])
    BY <1>2, <2>1
  <2>4. CASE k = 0
    <3>1. h[k + 1] = q[k + 1] /\ Listed(k) = {}
      BY <1>1, <2>1, <2>4
    <3> QED
      BY <2>2, <2>3, <3>1
  <2>5. CASE k # 0
    <3>1. h[k + 1] = h[k] \o q[k + 1]
      BY <1>1, <2>1, <2>5
    <3>2. \A x \in Range(h[k]), y \in Range(q[k + 1]) : <<x, y>> \in R
      <4>1. \A i \in 1 .. k : i \in 1 .. n /\ i < k + 1
        BY <1>2, <2>1
      <4>2. \A x \in Listed(k) : \E i \in 1 .. k : x \in Range(q[i])
        OBVIOUS
      <4> QED
        BY <1>2, <2>1, <4>1, <4>2
    <3>3. h[k] \in Seq(S) /\ Range(h[k]) = Listed(k) /\ InOrder(R, h[k])
      BY <2>1
    <3> HIDE DEF Good, Listed
    <3>4. /\ h[k] \o q[k + 1] \in Seq(S)
          /\ Range(h[k] \o q[k + 1]) = Range(h[k]) \cup Range(q[k + 1])
          /\ InOrder(R, h[k] \o q[k + 1])
      BY <2>3, <3>2, <3>3, ConcatInOrder
    <3> QED
      BY <2>2, <3>1, <3>3, <3>4
  <2> QED
    BY <2>4, <2>5
<1>5. Good \in SUBSET Nat
  OBVIOUS
<1>6. n \in Good => Fine(n)
  BY <1>2
<1> HIDE DEF Good
<1>7. \A k \in Good : k + 1 \in Good
  BY <1>4
<1>8. Fine(n)
  BY <1>2, <1>3, <1>5, <1>6, <1>7, OneByOne
<1> QED
  BY <1>1, <1>2, <1>8

-----------------------------------------------------------------------------
(***************************************************************************)
(* The devices of a machine, and which of two goes first.                  *)
(***************************************************************************)
GpuBackends == {"metal", "cuda", "vulkan"}
GpuIds(h) == {gpu.id : gpu \in Gpus(h)}
Known(h) == {Cpu} \cup {Device(backend, id) : backend \in GpuBackends, id \in GpuIds(h)}

\* Where a runtime is in the map.
PlaceOf(r) == CHOOSE i \in DOMAIN Runtimes : Runtimes[i] = r

LEMMA Adapters ==
    ASSUME NEW h \in Inventories
    PROVE  /\ h.gpus \in Seq(Gpus(h))
           /\ \A gpu \in Gpus(h) : gpu.id \in Nat /\ gpu.memory \in Nat /\ gpu.backends \subseteq GpuBackends
           /\ IsFiniteSet(GpuIds(h)) /\ GpuIds(h) \subseteq Nat
<1>1. /\ h.gpus \in Seq(Gpus(h))
      /\ \A gpu \in Gpus(h) : gpu.id \in Nat /\ gpu.memory \in Nat /\ gpu.backends \subseteq GpuBackends
  BY RuntimeAssumption DEF Gpus, GpuBackends
<1> DEFINE n == Len(h.gpus)
           id == [i \in 1 .. n |-> h.gpus[i].id]
<1>2. n \in Nat /\ DOMAIN h.gpus = 1 .. n
  BY <1>1, LenProperties
<1>3. Gpus(h) = {h.gpus[i] : i \in 1 .. n}
  BY <1>2 DEF Gpus, Range
<1> HIDE DEF n
<1>4. id \in Surjection(1 .. n, GpuIds(h))
  <2>1. \A i \in 1 .. n : id[i] \in GpuIds(h)
    BY <1>3 DEF GpuIds
  <2>2. \A x \in GpuIds(h) : \E i \in 1 .. n : id[i] = x
    BY <1>3 DEF GpuIds
  <2>3. id \in [1 .. n -> GpuIds(h)]
    BY <2>1
  <2> HIDE DEF id
  <2> QED
    BY <2>2, <2>3 DEF Surjection
<1> HIDE DEF id
<1>5. IsFiniteSet(1 .. n)
  BY <1>2, FS_Interval
<1>6. IsFiniteSet(GpuIds(h))
  BY <1>4, <1>5, FS_Surjection
<1>7. GpuIds(h) \subseteq Nat
  BY <1>1 DEF GpuIds
<1> QED
  BY <1>1, <1>6, <1>7

\* Every runtime offers the CPU, or a GPU of the inventory with one of its backends.
LEMMA DevicesKnown ==
    ASSUME NEW h \in Inventories, NEW r \in Range(Runtimes)
    PROVE  Devices(h, r) \subseteq Known(h)
<1>1. \A gpu \in Gpus(h) : gpu.id \in GpuIds(h) /\ gpu.backends \subseteq GpuBackends
  BY Adapters DEF GpuIds
<1>2. \A gpu \in Gpus(h) : \A backend \in gpu.backends : Device(backend, gpu.id) \in Known(h)
  BY <1>1 DEF Known
<1>3. LlamaDevices(h) \subseteq Known(h)
  <2>1. Cpu \in Known(h)
    BY DEF Known
  <2> QED
    BY <1>2, <2>1 DEF LlamaDevices
<1>4. OtherDevices(h) \subseteq Known(h)
  BY <1>2 DEF OtherDevices
<1>5. MlxDevices(h) \subseteq Known(h)
  <2>1. \A i \in DOMAIN h.gpus : h.gpus[i] \in Gpus(h)
    BY DEF Gpus, Range
  <2>2. \A i \in DOMAIN h.gpus : Device("metal", h.gpus[i].id) \in Known(h)
    BY <1>1, <2>1 DEF Known, GpuBackends
  <2> QED
    BY <2>2 DEF MlxDevices, Known
<1>6. Kind[r] \in {"llama", "mlx", "other"}
  BY RuntimeAssumption
<1> QED
  BY <1>3, <1>4, <1>5, <1>6 DEF Devices

LEMMA KnownFinite ==
    ASSUME NEW h \in Inventories
    PROVE  IsFiniteSet(Known(h))
<1> DEFINE pairs == (GpuBackends \cup {"cpu"}) \X (GpuIds(h) \cup {0})
           pair == [d \in Known(h) |-> <<d.backend, d.id>>]
<1>1. IsFiniteSet(GpuBackends \cup {"cpu"})
  <2>1. /\ GpuBackends \cup {"cpu"} = (({"metal"} \cup {"cuda"}) \cup {"vulkan"}) \cup {"cpu"}
        /\ IsFiniteSet({"metal"})
    BY FS_Singleton DEF GpuBackends
  <2>2. IsFiniteSet({"metal"} \cup {"cuda"})
    BY <2>1, FS_AddElement
  <2>3. IsFiniteSet(({"metal"} \cup {"cuda"}) \cup {"vulkan"})
    BY <2>2, FS_AddElement
  <2>4. IsFiniteSet((({"metal"} \cup {"cuda"}) \cup {"vulkan"}) \cup {"cpu"})
    BY <2>3, FS_AddElement
  <2> QED
    BY <2>1, <2>4
<1>2. IsFiniteSet(GpuIds(h) \cup {0})
  BY Adapters, FS_AddElement
<1>3. IsFiniteSet(pairs)
  BY <1>1, <1>2, FS_Product
<1>4. pair \in Injection(Known(h), pairs)
  <2>1. \A d \in Known(h) : d = [backend |-> d.backend, id |-> d.id]
    BY DEF Known, Cpu, Device
  <2>2. \A d \in Known(h) : <<d.backend, d.id>> \in pairs
    BY DEF Known, Cpu, Device
  <2>3. \A d, e \in Known(h) : <<d.backend, d.id>> = <<e.backend, e.id>> => d = e
    BY <2>1
  <2>4. pair \in [Known(h) -> pairs] /\ \A d \in Known(h) : pair[d] = <<d.backend, d.id>>
    BY <2>2
  <2> HIDE DEF pair, pairs
  <2>5. \A d, e \in Known(h) : pair[d] = pair[e] => d = e
    BY <2>3, <2>4
  <2> QED
    BY <2>4, <2>5 DEF Injection, IsInjective
<1> HIDE DEF pair, pairs
<1> QED
  BY <1>3, <1>4, FS_Injection

\* What orderExecutionDevices() lets through is what the policy permits.
LEMMA AllowedIsPermitted ==
    ASSUME NEW h \in Inventories, NEW d \in Known(h)
    PROVE  Allowed(h, d) <=> Permitted(h, d)
<1>1. CASE d = Cpu
  BY <1>1 DEF Allowed, Permitted, Cpu
<1>2. CASE d # Cpu
  <2>1. PICK backend \in GpuBackends, id \in GpuIds(h) : d = Device(backend, id)
    BY <1>2 DEF Known
  <2>2. d.backend = backend /\ d.id = id
    BY <2>1 DEF Device
  <2>3. CASE backend = "metal"
    BY <1>2, <2>2, <2>3 DEF Allowed, Permitted, Vendors, Available
  <2>4. CASE backend = "cuda"
    BY <1>2, <2>2, <2>4 DEF Allowed, Permitted, Vendors, Available
  <2>5. CASE backend = "vulkan"
    BY <1>2, <2>2, <2>5 DEF Allowed, Permitted, Vendors, Available
  <2> QED
    BY <2>1, <2>3, <2>4, <2>5 DEF GpuBackends
<1> QED
  BY <1>1, <1>2

\* The numbers that devices are compared by.
LEMMA Measures ==
    ASSUME NEW h \in Inventories, NEW d \in Known(h)
    PROVE  /\ d.backend \in GpuBackends \cup {"cpu"} /\ d.id \in Nat
           /\ d.backend = "cpu" <=> d = Cpu
           /\ d = [backend |-> d.backend, id |-> d.id]
           /\ Rank(d) = Policy[d.backend] /\ Rank(d) \in Nat
           /\ Memory(h, d) \in Nat
           /\ Memory(h, d) = IF d.backend = "cpu" THEN 0 ELSE (CHOOSE gpu \in Gpus(h) : gpu.id = d.id).memory
<1>1. /\ d.backend \in GpuBackends \cup {"cpu"} /\ d.id \in Nat
      /\ d.backend = "cpu" <=> d = Cpu
      /\ d = [backend |-> d.backend, id |-> d.id]
      /\ d # Cpu => d.id \in GpuIds(h)
  BY Adapters DEF Known, Cpu, Device, GpuBackends
<1>2. Rank(d) = Policy[d.backend] /\ Rank(d) \in Nat
  BY <1>1 DEF Rank, Policy, GpuBackends
<1>3. Memory(h, d) = IF d.backend = "cpu" THEN 0 ELSE (CHOOSE gpu \in Gpus(h) : gpu.id = d.id).memory
  BY <1>1 DEF Memory, Adapter
<1>4. Memory(h, d) \in Nat
  <2>1. CASE d = Cpu
    BY <1>1, <1>3, <2>1
  <2>2. CASE d # Cpu
    <3>1. \E gpu \in Gpus(h) : gpu.id = d.id
      BY <1>1, <2>2 DEF GpuIds
    <3>2. (CHOOSE gpu \in Gpus(h) : gpu.id = d.id) \in Gpus(h)
      BY <3>1
    <3> QED
      BY <1>1, <1>3, <2>2, <3>2, Adapters
  <2> QED
    BY <2>1, <2>2
<1> QED
  BY <1>1, <1>2, <1>3, <1>4

\* Two devices are the same when nothing tells them apart in the comparison.
LEMMA NothingBetween ==
    ASSUME NEW h \in Inventories, NEW d \in Known(h), NEW e \in Known(h),
           Rank(d) = Rank(e), d.id = e.id
    PROVE  d = e
<1>1. /\ d.backend \in GpuBackends \cup {"cpu"} /\ e.backend \in GpuBackends \cup {"cpu"}
      /\ d = [backend |-> d.backend, id |-> d.id] /\ e = [backend |-> e.backend, id |-> e.id]
  BY Measures
<1>2. d.backend = e.backend
  BY <1>1 DEF Rank, GpuBackends
<1> QED
  BY <1>1, <1>2

\* The comparison orders the devices, so sort() has one result.
LEMMA BeforeOrders ==
    ASSUME NEW h \in Inventories, NEW D \in SUBSET Known(h)
    PROVE  StrictlyOrders({p \in D \X D : Before(h, p[1], p[2])}, D)
<1> DEFINE R == {p \in D \X D : Before(h, p[1], p[2])}
<1>1. \A d, e \in D : <<d, e>> \in R <=> Before(h, d, e)
  OBVIOUS
<1>2. \A d \in D : Rank(d) \in Nat /\ Memory(h, d) \in Nat /\ d.id \in Nat
  BY Measures
<1>3. \A d, e \in D : Rank(d) = Rank(e) /\ d.id = e.id => d = e
  BY NothingBetween
<1>4. \A d \in D : ~Before(h, d, d)
  BY <1>2 DEF Before
<1>5. \A d, e \in D : d # e => Before(h, d, e) \/ Before(h, e, d)
  BY <1>2, <1>3 DEF Before
<1>6. \A c, d, e \in D : Before(h, c, d) /\ Before(h, d, e) => Before(h, c, e)
  BY <1>2 DEF Before
<1> HIDE DEF R
<1> QED
  BY <1>1, <1>4, <1>5, <1>6 DEF StrictlyOrders

\* orderExecutionDevices() returns the devices it lets through, each once, in order.
LEMMA OrderedDevices ==
    ASSUME NEW h \in Inventories, NEW supported \in SUBSET Known(h)
    PROVE  LET D == {d \in supported : Allowed(h, d)}
               s == OrderExecutionDevices(h, supported)
           IN  /\ s \in Seq(D) /\ Range(s) = D
               /\ \A i, j \in DOMAIN s : i < j => Before(h, s[i], s[j])
<1> DEFINE D == {d \in supported : Allowed(h, d)}
           n == Cardinality(D)
           R == {p \in D \X D : Before(h, p[1], p[2])}
           Right(s) == Range(s) = D /\ \A i, j \in DOMAIN s : i < j => Before(h, s[i], s[j])
<1>1. D \in SUBSET Known(h)
  OBVIOUS
<1>2. OrderExecutionDevices(h, supported) = CHOOSE s \in [1 .. n -> D] : Right(s)
  BY DEF OrderExecutionDevices
<1>3. \A d, e \in D : <<d, e>> \in R <=> Before(h, d, e)
  OBVIOUS
<1> HIDE DEF D
<1>4. IsFiniteSet(D) /\ n \in Nat
  BY <1>1, KnownFinite, FS_Subset, FS_CardinalityType
<1>5. StrictlyOrders(R, D)
  BY <1>1, BeforeOrders
<1> HIDE DEF R
<1>6. PICK t : Sorts(R, D, n, t)
  BY <1>4, <1>5, SortedExists
<1>7. t \in [1 .. n -> D] /\ Right(t)
  BY <1>3, <1>6 DEF Sorts, InOrder
<1> DEFINE s == OrderExecutionDevices(h, supported)
<1>8. s \in [1 .. n -> D] /\ Right(s)
  <2> HIDE DEF Right
  <2> QED
    BY <1>2, <1>7
<1> HIDE DEF s
<1>9. s \in Seq(D)
  BY <1>4, <1>8
<1> QED
  BY <1>8, <1>9 DEF s, D

-----------------------------------------------------------------------------
(***************************************************************************)
(* What load() tries.                                                      *)
(***************************************************************************)
Better(h, supporting) ==
    {p \in Offers(h, supporting) \X Offers(h, supporting) : Preferred(h, p[1][1], p[1][2], p[2][1], p[2][2])}

LEMMA OffersAre ==
    ASSUME NEW h \in Inventories, NEW supporting \in SUBSET Range(Runtimes)
    PROVE  /\ UNION {Devices(h, r) : r \in supporting} \in SUBSET Known(h)
           /\ Offers(h, supporting) =
                 {o \in Known(h) \X supporting : o[1] \in Devices(h, o[2]) /\ Allowed(h, o[1])}
<1>1. \A r \in supporting : Devices(h, r) \subseteq Known(h)
  BY DevicesKnown
<1>2. \A d \in Known(h) : Allowed(h, d) <=> Permitted(h, d)
  BY AllowedIsPermitted
<1>3. \A o : o \in Offers(h, supporting) <=>
         \E r \in supporting : \E d \in Devices(h, r) : Permitted(h, d) /\ o = <<d, r>>
  BY DEF Offers
<1>4. \A o \in Offers(h, supporting) :
         o \in {p \in Known(h) \X supporting : p[1] \in Devices(h, p[2]) /\ Allowed(h, p[1])}
  BY <1>1, <1>2, <1>3
<1>5. \A o \in {p \in Known(h) \X supporting : p[1] \in Devices(h, p[2]) /\ Allowed(h, p[1])} :
         o \in Offers(h, supporting)
  BY <1>2, <1>3
<1> QED
  BY <1>1, <1>4, <1>5

\* What is preferred: the device that sort() puts first, then the runtime that the map does.
LEMMA PreferredMeans ==
    ASSUME NEW h \in Inventories, NEW d \in Known(h), NEW e \in Known(h), NEW r, NEW s
    PROVE  Preferred(h, d, r, e, s) <=> Before(h, d, e) \/ (d = e /\ PlaceOf(r) < PlaceOf(s))
<1> DEFINE Size(x) == IF x.backend = "cpu" THEN 0 ELSE (CHOOSE g \in Gpus(h) : g.id = x.id).memory
<1>1. /\ Rank(d) = Policy[d.backend] /\ Rank(d) \in Nat /\ Memory(h, d) = Size(d) /\ Memory(h, d) \in Nat
      /\ Rank(e) = Policy[e.backend] /\ Rank(e) \in Nat /\ Memory(h, e) = Size(e) /\ Memory(h, e) \in Nat
  BY Measures
<1>2. Preferred(h, d, r, e, s) <=>
         \/ Policy[d.backend] < Policy[e.backend]
         \/ /\ Policy[d.backend] = Policy[e.backend]
            /\ \/ Size(d) > Size(e)
               \/ Size(d) = Size(e) /\ d.id < e.id
               \/ d = e /\ PlaceOf(r) < PlaceOf(s)
  BY DEF Preferred, PlaceOf
<1> HIDE DEF Size
<1> QED
  BY <1>1, <1>2 DEF Before

\* The map has every runtime at one place.
LEMMA Places ==
    /\ Runtimes \in Seq(Range(Runtimes)) /\ DOMAIN Runtimes = 1 .. Len(Runtimes) /\ Len(Runtimes) \in Nat
    /\ \A k \in DOMAIN Runtimes : PlaceOf(Runtimes[k]) = k
    /\ \A r \in Range(Runtimes) : PlaceOf(r) \in DOMAIN Runtimes /\ Runtimes[PlaceOf(r)] = r
<1>1. Runtimes \in Seq(Range(Runtimes)) /\ \A i, j \in DOMAIN Runtimes : Runtimes[i] = Runtimes[j] => i = j
  BY RuntimeAssumption
<1>2. DOMAIN Runtimes = 1 .. Len(Runtimes) /\ Len(Runtimes) \in Nat
  BY <1>1, LenProperties
<1>3. \A k \in DOMAIN Runtimes : PlaceOf(Runtimes[k]) \in DOMAIN Runtimes /\ Runtimes[PlaceOf(Runtimes[k])] = Runtimes[k]
  BY DEF PlaceOf
<1>4. \A r \in Range(Runtimes) : \E k \in DOMAIN Runtimes : r = Runtimes[k]
  BY DEF Range
<1> QED
  BY <1>1, <1>2, <1>3, <1>4

\* The inner loop: one device with the runtimes that offer it, in the order of the map.
LEMMA InnerLoop ==
    ASSUME NEW h \in Inventories, NEW supporting \in SUBSET Range(Runtimes), NEW d \in Known(h), Allowed(h, d)
    PROVE  LET w == FlattenSeq([k \in DOMAIN Runtimes |-> Tried(h, d, Runtimes[k], supporting)])
           IN  /\ w \in Seq(Offers(h, supporting)) /\ InOrder(Better(h, supporting), w)
               /\ \A o : o \in Range(w) <=> o \in Offers(h, supporting) /\ o[1] = d
<1> DEFINE O == Offers(h, supporting)
           R == Better(h, supporting)
           q == [k \in DOMAIN Runtimes |-> Tried(h, d, Runtimes[k], supporting)]
           w == FlattenSeq(q)
           n == Len(Runtimes)
<1>1. /\ n \in Nat /\ DOMAIN Runtimes = 1 .. n
      /\ \A k \in 1 .. n : PlaceOf(Runtimes[k]) = k /\ Runtimes[k] \in Range(Runtimes)
  BY Places DEF Range
<1>2. O = {o \in Known(h) \X supporting : o[1] \in Devices(h, o[2]) /\ Allowed(h, o[1])}
  BY OffersAre
<1> HIDE DEF n, O
<1>3. \A r : r \in supporting /\ d \in Devices(h, r) => <<d, r>> \in O
  BY <1>2
<1>4. \A k \in 1 .. n :
         \/ q[k] = << <<d, Runtimes[k]>> >> /\ <<d, Runtimes[k]>> \in O
         \/ q[k] = <<>> /\ <<d, Runtimes[k]>> \notin O
  <2> SUFFICES ASSUME NEW k \in 1 .. n
               PROVE  \/ q[k] = << <<d, Runtimes[k]>> >> /\ <<d, Runtimes[k]>> \in O
                      \/ q[k] = <<>> /\ <<d, Runtimes[k]>> \notin O
    OBVIOUS
  <2>1. q[k] = Tried(h, d, Runtimes[k], supporting)
    BY <1>1
  <2>2. CASE Runtimes[k] \in supporting /\ d \in Devices(h, Runtimes[k])
    <3>1. <<d, Runtimes[k]>> \in O
      BY <1>3, <2>2
    <3>2. Tried(h, d, Runtimes[k], supporting) = << <<d, Runtimes[k]>> >>
      BY <2>2 DEF Tried
    <3> QED
      BY <2>1, <3>1, <3>2
  <2>3. CASE ~(Runtimes[k] \in supporting /\ d \in Devices(h, Runtimes[k]))
    <3>1. <<d, Runtimes[k]>> \notin O
      BY <1>2, <2>3
    <3>2. Tried(h, d, Runtimes[k], supporting) = <<>>
      BY <2>3 DEF Tried
    <3> QED
      BY <2>1, <3>1, <3>2
  <2> QED
    BY <2>2, <2>3
<1>5. DOMAIN q = 1 .. n /\ q = [k \in 1 .. n |-> q[k]]
  BY <1>1
<1> HIDE DEF q
<1>6. \A k \in 1 .. n : /\ q[k] \in Seq(O) /\ InOrder(R, q[k])
                        /\ Range(q[k]) = {o \in O : o = <<d, Runtimes[k]>>}
  <2> SUFFICES ASSUME NEW k \in 1 .. n
               PROVE  /\ q[k] \in Seq(O) /\ InOrder(R, q[k])
                      /\ Range(q[k]) = {o \in O : o = <<d, Runtimes[k]>>}
    OBVIOUS
  <2> DEFINE o == <<d, Runtimes[k]>>
  <2>1. CASE q[k] = <<o>> /\ o \in O
    <3> HIDE DEF o
    <3>1. <<o>> \in Seq(O) /\ DOMAIN <<o>> = {1} /\ <<o>>[1] = o
      BY <2>1
    <3>2. Range(<<o>>) = {o} /\ InOrder(R, <<o>>)
      BY <3>1 DEF Range, InOrder
    <3> QED
      BY <2>1, <3>1, <3>2 DEF o
  <2>2. CASE q[k] = <<>> /\ o \notin O
    <3>1. <<>> \in Seq(O) /\ DOMAIN <<>> = {}
      OBVIOUS
    <3>2. Range(<<>>) = {} /\ InOrder(R, <<>>)
      BY <3>1 DEF Range, InOrder
    <3> QED
      BY <2>2, <3>1, <3>2
  <2> QED
    BY <1>4, <2>1, <2>2
<1>7. q \in Seq(Seq(O))
  BY <1>1, <1>5, <1>6
<1>8. ASSUME NEW i \in 1 .. n, NEW j \in 1 .. n, i < j, NEW x \in Range(q[i]), NEW y \in Range(q[j])
      PROVE  <<x, y>> \in R
  <2>1. x \in O /\ y \in O /\ x = <<d, Runtimes[i]>> /\ y = <<d, Runtimes[j]>>
    BY <1>6
  <2>2. PlaceOf(Runtimes[i]) < PlaceOf(Runtimes[j])
    BY <1>1, <1>8
  <2>3. Preferred(h, d, Runtimes[i], d, Runtimes[j])
    BY <2>2, PreferredMeans
  <2>4. x[1] = d /\ x[2] = Runtimes[i] /\ y[1] = d /\ y[2] = Runtimes[j]
    BY <2>1
  <2> QED
    BY <2>1, <2>3, <2>4 DEF Better, O
<1> HIDE DEF R
<1>9. /\ w \in Seq(O) /\ InOrder(R, w)
      /\ Range(w) = UNION {Range(q[i]) : i \in DOMAIN q}
  <2>1. /\ \A i \in DOMAIN q : InOrder(R, q[i])
        /\ \A i, j \in DOMAIN q : i < j => \A x \in Range(q[i]), y \in Range(q[j]) : <<x, y>> \in R
    BY <1>5, <1>6, <1>8
  <2> QED
    BY <1>7, <2>1, FlattenInOrder
<1> HIDE DEF w
<1>10. \A o : o \in Range(w) <=> o \in O /\ o[1] = d
  <2>1. \A o : o \in Range(w) => o \in O /\ o[1] = d
    BY <1>5, <1>6, <1>9
  <2>2. ASSUME NEW o \in O, o[1] = d PROVE o \in Range(w)
    <3>1. o = <<d, o[2]>> /\ o[2] \in Range(Runtimes)
      BY <1>2, <2>2
    <3>2. PICK k \in 1 .. n : o[2] = Runtimes[k]
      BY <1>1, <3>1 DEF Range
    <3>3. o \in Range(q[k])
      BY <1>6, <3>1, <3>2
    <3> QED
      BY <1>5, <1>9, <3>3
  <2> QED
    BY <2>1, <2>2
<1> QED
  BY <1>9, <1>10 DEF w, q, O, R

\* Both loops of load(): everything that is permitted, in the order the policy prefers.
LEMMA OuterLoop ==
    ASSUME NEW h \in Inventories, NEW supporting \in SUBSET Range(Runtimes)
    PROVE  /\ Attempts(h, supporting) \in Seq(Offers(h, supporting))
           /\ Range(Attempts(h, supporting)) = Offers(h, supporting)
           /\ InOrder(Better(h, supporting), Attempts(h, supporting))
<1> DEFINE O == Offers(h, supporting)
           R == Better(h, supporting)
           supported == UNION {Devices(h, r) : r \in supporting}
           D == {d \in supported : Allowed(h, d)}
           ordered == OrderExecutionDevices(h, supported)
           inner(d) == FlattenSeq([k \in DOMAIN Runtimes |-> Tried(h, d, Runtimes[k], supporting)])
           q == [i \in DOMAIN ordered |-> inner(ordered[i])]
           n == Len(ordered)
<1>1. Attempts(h, supporting) = FlattenSeq(q)
  BY DEF Attempts
<1>2. supported \in SUBSET Known(h) /\ O = {o \in Known(h) \X supporting : o[1] \in Devices(h, o[2]) /\ Allowed(h, o[1])}
  BY OffersAre
<1>3. \A o \in O : o[1] \in D
  BY <1>2
<1>4. D \subseteq Known(h) /\ \A d \in D : Allowed(h, d)
  BY <1>2
<1>5. /\ ordered \in Seq(D) /\ Range(ordered) = D
      /\ \A i, j \in DOMAIN ordered : i < j => Before(h, ordered[i], ordered[j])
  <2> HIDE DEF supported
  <2> QED
    BY <1>2, OrderedDevices
<1>6. \A d \in D : /\ inner(d) \in Seq(O) /\ InOrder(R, inner(d))
                   /\ \A o : o \in Range(inner(d)) <=> o \in O /\ o[1] = d
  <2> HIDE DEF D
  <2> QED
    BY <1>4, InnerLoop
<1> HIDE DEF inner, D, ordered, supported, O
<1>7. n \in Nat /\ DOMAIN ordered = 1 .. n /\ \A i \in 1 .. n : ordered[i] \in D
  BY <1>5, LenProperties, ElementOfSeq
<1> HIDE DEF n
<1>8. DOMAIN q = 1 .. n /\ \A i \in 1 .. n : q[i] = inner(ordered[i])
  BY <1>7
<1>9. q \in Seq(Seq(O))
  BY <1>6, <1>7
<1> HIDE DEF q
<1>10. \A i \in 1 .. n : /\ InOrder(R, q[i])
                         /\ \A o : o \in Range(q[i]) <=> o \in O /\ o[1] = ordered[i]
  BY <1>6, <1>7, <1>8
<1>11. ASSUME NEW i \in 1 .. n, NEW j \in 1 .. n, i < j, NEW x \in Range(q[i]), NEW y \in Range(q[j])
       PROVE  <<x, y>> \in R
  <2>1. x \in O /\ y \in O /\ x[1] = ordered[i] /\ y[1] = ordered[j]
    BY <1>10
  <2>2. Before(h, x[1], y[1]) /\ x[1] \in Known(h) /\ y[1] \in Known(h)
    BY <1>4, <1>5, <1>7, <1>11, <2>1
  <2>3. Preferred(h, x[1], x[2], y[1], y[2])
    BY <2>2, PreferredMeans
  <2> QED
    BY <2>1, <2>3 DEF Better, O
<1> HIDE DEF R
<1>12. /\ FlattenSeq(q) \in Seq(O) /\ InOrder(R, FlattenSeq(q))
       /\ Range(FlattenSeq(q)) = UNION {Range(q[i]) : i \in DOMAIN q}
  <2>1. /\ \A i \in DOMAIN q : InOrder(R, q[i])
        /\ \A i, j \in DOMAIN q : i < j => \A x \in Range(q[i]), y \in Range(q[j]) : <<x, y>> \in R
    BY <1>8, <1>10, <1>11
  <2> QED
    BY <1>9, <2>1, FlattenInOrder
<1>13. Range(FlattenSeq(q)) = O
  <2>1. \A o \in Range(FlattenSeq(q)) : o \in O
    BY <1>8, <1>10, <1>12
  <2>2. ASSUME NEW o \in O PROVE o \in Range(FlattenSeq(q))
    <3>1. o[1] \in Range(ordered)
      BY <1>3, <1>5
    <3>2. PICK i \in 1 .. n : o[1] = ordered[i]
      BY <1>7, <3>1 DEF Range
    <3>3. o \in Range(q[i])
      BY <1>10, <3>2
    <3> QED
      BY <1>8, <1>12, <3>3
  <2> QED
    BY <2>1, <2>2
<1> QED
  BY <1>1, <1>12, <1>13 DEF O, R

\* Nothing is preferred to itself, and of two only one to the other.
LEMMA PreferredOnce ==
    ASSUME NEW h \in Inventories, NEW supporting \in SUBSET Range(Runtimes),
           NEW o \in Offers(h, supporting), NEW p \in Offers(h, supporting),
           Preferred(h, o[1], o[2], p[1], p[2])
    PROVE  ~Preferred(h, p[1], p[2], o[1], o[2])
<1>1. o[1] \in Known(h) /\ p[1] \in Known(h) /\ o[2] \in Range(Runtimes) /\ p[2] \in Range(Runtimes)
  BY OffersAre
<1>2. PlaceOf(o[2]) \in Nat /\ PlaceOf(p[2]) \in Nat
  BY <1>1, Places
<1>3. /\ Rank(o[1]) \in Nat /\ Memory(h, o[1]) \in Nat /\ o[1].id \in Nat
      /\ Rank(p[1]) \in Nat /\ Memory(h, p[1]) \in Nat /\ p[1].id \in Nat
  BY <1>1, Measures
<1>4. Before(h, o[1], p[1]) \/ (o[1] = p[1] /\ PlaceOf(o[2]) < PlaceOf(p[2]))
  BY <1>1, PreferredMeans
<1>5. ~Before(h, p[1], o[1]) /\ ~(p[1] = o[1] /\ PlaceOf(p[2]) < PlaceOf(o[2]))
  BY <1>2, <1>3, <1>4 DEF Before
<1> QED
  BY <1>1, <1>5, PreferredMeans

\* What is chosen is the best offer but for those that failed.
BestBut(h, supporting, o, failed) ==
    /\ o \in Offers(h, supporting)
    /\ Range(failed) = {p \in Offers(h, supporting) : Preferred(h, p[1], p[2], o[1], o[2])}

\* A load that stops at some place in the list has the best there, and before it what was
\* preferred.
LEMMA Chosen ==
    ASSUME NEW h \in Inventories, NEW supporting \in SUBSET Range(Runtimes), NEW S,
           NEW failed \in Seq(S), NEW todo \in Seq(S), todo # <<>>,
           failed \o todo = Attempts(h, supporting)
    PROVE  BestBut(h, supporting, Head(todo), failed)
<1> DEFINE O == Offers(h, supporting)
           a == Attempts(h, supporting)
           m == Len(failed)
           n == Len(todo)
           o == Head(todo)
<1>1. Range(a) = O /\ InOrder(Better(h, supporting), a)
  BY OuterLoop
<1>2. m \in Nat /\ n \in Nat /\ n # 0 /\ o = todo[1] /\ DOMAIN failed = 1 .. m
  <2>1. m \in Nat /\ n \in Nat /\ DOMAIN failed = 1 .. m
    BY LenProperties
  <2>2. n # 0
    BY EmptySeq
  <2>3. o = todo[1]
    BY HeadTailProperties
  <2> QED
    BY <2>1, <2>2, <2>3
<1>3. a \in Seq(S) /\ Len(a) = m + n
  BY ConcatProperties
<1>4. \A i \in 1 .. m + n : a[i] = IF i <= m THEN failed[i] ELSE todo[i - m]
  BY ConcatProperties
<1>5. DOMAIN a = 1 .. m + n
  BY <1>3, LenProperties
<1> HIDE DEF a, m, n, o
<1>6. m + 1 \in 1 .. m + n /\ a[m + 1] = o
  <2>1. m + 1 \in 1 .. m + n /\ ~(m + 1 <= m) /\ (m + 1) - m = 1
    BY <1>2
  <2> QED
    BY <1>2, <1>4, <2>1
<1>7. \A i \in 1 .. m : i \in 1 .. m + n /\ a[i] = failed[i] /\ i < m + 1
  <2>1. \A i \in 1 .. m : i \in 1 .. m + n /\ i <= m /\ i < m + 1
    BY <1>2
  <2> QED
    BY <1>4, <2>1
<1>8. \A i \in 1 .. m + n : a[i] \in O
  BY <1>1, <1>5 DEF Range
<1>9. o \in O
  BY <1>6, <1>8
<1>10. \A i, j \in 1 .. m + n : i < j => Preferred(h, a[i][1], a[i][2], a[j][1], a[j][2])
  <2>1. \A i, j \in 1 .. m + n : i < j => <<a[i], a[j]>> \in Better(h, supporting)
    BY <1>1, <1>5 DEF InOrder
  <2>2. \A x, y : <<x, y>> \in Better(h, supporting) => Preferred(h, x[1], x[2], y[1], y[2])
    BY DEF Better
  <2> QED
    BY <2>1, <2>2
<1>11. \A x, y \in O : Preferred(h, x[1], x[2], y[1], y[2]) => ~Preferred(h, y[1], y[2], x[1], x[2])
  BY PreferredOnce
<1>12. \A i \in 1 .. m : failed[i] \in O /\ Preferred(h, failed[i][1], failed[i][2], o[1], o[2])
  BY <1>6, <1>7, <1>8, <1>10
<1>13. ASSUME NEW p \in O, Preferred(h, p[1], p[2], o[1], o[2]) PROVE \E i \in 1 .. m : failed[i] = p
  <2>1. PICK i \in 1 .. m + n : a[i] = p
    BY <1>1, <1>5 DEF Range
  <2>2. ~Preferred(h, o[1], o[2], p[1], p[2])
    BY <1>9, <1>11, <1>13
  <2>3. ~(m + 1 < i)
    BY <1>6, <1>10, <2>1, <2>2
  <2>4. i # m + 1
    BY <1>6, <1>13, <2>1, <2>2
  <2>5. i \in 1 .. m
    BY <1>2, <2>3, <2>4
  <2> QED
    BY <1>7, <2>1, <2>5
<1>14. Range(failed) = {failed[i] : i \in 1 .. m}
  BY <1>2 DEF Range
<1>15. Range(failed) = {p \in O : Preferred(h, p[1], p[2], o[1], o[2])}
  BY <1>12, <1>13, <1>14
<1> QED
  BY <1>9, <1>15 DEF o, O, BestBut

-----------------------------------------------------------------------------
(***************************************************************************)
(* The loads of a machine.                                                 *)
(***************************************************************************)
\* What failed and what is left of a load is what the loops run through.
HalfDone(failed, todo, supporting) ==
    /\ supporting \in SUBSET Range(Runtimes)
    /\ \E S : failed \in Seq(S) /\ todo \in Seq(S)
    /\ failed \o todo = Attempts(hardware, supporting)

LoadIsHalfDone ==
    load # NoLoad =>
       \E m, supporting, todo, failed :
          /\ load = [model |-> m, candidates |-> supporting, todo |-> todo, failures |-> failed]
          /\ HalfDone(failed, todo, supporting)

ManagerInv == hardware \in Inventories /\ LoadIsHalfDone /\ SelectionIsBest

LEMMA ManagerStart ==
    ManagerInit => ManagerInv
<1>1. ManagerInit => DOMAIN loaded = {}
  BY DEF ManagerInit
<1> QED
  BY <1>1 DEF ManagerInit, ManagerInv, LoadIsHalfDone, SelectionIsBest

\* The next attempt is over, and the list is the same.
LEMMA OneFurther ==
    ASSUME NEW S, NEW f \in Seq(S), NEW t \in Seq(S), t # <<>>
    PROVE  /\ Append(f, Head(t)) \in Seq(S) /\ Tail(t) \in Seq(S)
           /\ Append(f, Head(t)) \o Tail(t) = f \o t
<1> DEFINE m == Len(f)
           n == Len(t)
           u == Append(f, Head(t))
           v == Tail(t)
           a == u \o v
           b == f \o t
<1>1. m \in Nat /\ n \in Nat /\ n # 0
  BY LenProperties, EmptySeq
<1>2. Head(t) = t[1] /\ Head(t) \in S
  BY HeadTailProperties
<1>3. v \in Seq(S) /\ Len(v) = n - 1 /\ \A i \in 1 .. n - 1 : v[i] = t[i + 1]
  BY HeadTailProperties
<1>4. u \in Seq(S) /\ Len(u) = m + 1 /\ u[m + 1] = t[1] /\ \A i \in 1 .. m : u[i] = f[i]
  BY <1>2, AppendProperties
<1> HIDE DEF u, v
<1>5. a \in Seq(S)
  BY <1>3, <1>4, ConcatProperties
<1>6. b \in Seq(S)
  BY ConcatProperties
<1>7. Len(a) = Len(u) + Len(v)
  BY <1>3, <1>4, ConcatProperties
<1>8. Len(b) = m + n
  BY ConcatProperties
<1>9. \A i \in 1 .. Len(u) + Len(v) : a[i] = IF i <= Len(u) THEN u[i] ELSE v[i - Len(u)]
  BY <1>3, <1>4, ConcatProperties
<1>10. \A i \in 1 .. m + n : b[i] = IF i <= m THEN f[i] ELSE t[i - m]
  BY ConcatProperties
<1> HIDE DEF a, b, m, n
<1>11. Len(u) + Len(v) = m + n
  BY <1>1, <1>3, <1>4
<1>12. ASSUME NEW i \in 1 .. m + n PROVE a[i] = b[i]
  <2>1. CASE i <= m
    <3>1. i \in 1 .. m /\ i <= Len(u)
      BY <1>1, <1>4, <2>1
    <3> QED
      BY <1>4, <1>9, <1>10, <1>11, <2>1, <3>1
  <2>2. CASE i = m + 1
    <3>1. ~(i <= m) /\ i - m = 1 /\ i <= Len(u)
      BY <1>1, <1>4, <2>2
    <3> QED
      BY <1>4, <1>9, <1>10, <1>11, <2>2, <3>1
  <2>3. CASE i > m + 1
    <3>1. /\ ~(i <= m) /\ ~(i <= Len(u))
          /\ i - Len(u) \in 1 .. n - 1 /\ (i - Len(u)) + 1 = i - m
      BY <1>1, <1>4, <2>3
    <3>2. a[i] = v[i - Len(u)] /\ b[i] = t[i - m]
      BY <1>9, <1>10, <1>11, <3>1
    <3>3. v[i - Len(u)] = t[(i - Len(u)) + 1]
      BY <1>3, <3>1
    <3> QED
      BY <3>1, <3>2, <3>3
  <2> QED
    BY <1>1, <2>1, <2>2, <2>3
<1>13. a = b
  BY <1>5, <1>6, <1>7, <1>8, <1>11, <1>12, SeqEqual
<1> QED
  BY <1>3, <1>4, <1>13 DEF a, b, u, v

\* With the same machine and the same models nothing becomes worse.
LEMMA SameSelection ==
    ASSUME SelectionIsBest, hardware' = hardware,
           \A m \in DOMAIN loaded' : m \in DOMAIN loaded /\ loaded'[m] = loaded[m]
    PROVE  SelectionIsBest'
  BY DEF SelectionIsBest

LEMMA LoadStep ==
    ASSUME ManagerInv, NEW m, NEW supporting \in SUBSET Range(Runtimes), Load(m, supporting)
    PROVE  ManagerInv'
<1>0. PICK a : a = Attempts(hardware, supporting)
  OBVIOUS
<1>1. hardware' = hardware /\ loaded' = loaded /\ hardware \in Inventories /\ SelectionIsBest
  BY DEF Load, ManagerInv
<1>2. load' = [model |-> m, candidates |-> supporting, todo |-> a, failures |-> <<>>]
  BY <1>0 DEF Load
<1>3. a \in Seq(Offers(hardware, supporting))
  BY <1>0, <1>1, OuterLoop
<1>4. <<>> \o a = a /\ <<>> \in Seq(Offers(hardware, supporting))
  BY <1>3, ConcatEmptySeq
<1>5. HalfDone(<<>>, a, supporting)'
  BY <1>0, <1>1, <1>3, <1>4 DEF HalfDone
<1>6. LoadIsHalfDone'
  BY <1>2, <1>5 DEF LoadIsHalfDone
<1>7. SelectionIsBest'
  BY <1>1, SameSelection
<1> QED
  BY <1>1, <1>6, <1>7 DEF ManagerInv

\* A load that is over leaves nothing half done.
LEMMA EndStep ==
    ASSUME ManagerInv, End, SelectionIsBest'
    PROVE  ManagerInv'
<1>1. LoadIsHalfDone'
  BY DEF End, LoadIsHalfDone, NoLoad
<1> QED
  BY <1>1 DEF End, ManagerInv

LEMMA SucceedStep ==
    ASSUME ManagerInv, Succeed
    PROVE  ManagerInv'
<1>1. PICK m, supporting, todo, failed :
         /\ load = [model |-> m, candidates |-> supporting, todo |-> todo, failures |-> failed]
         /\ HalfDone(failed, todo, supporting)
  BY DEF ManagerInv, LoadIsHalfDone, Succeed, Trying
<1>2. /\ load.model = m /\ load.candidates = supporting /\ load.todo = todo
      /\ load.failures = failed /\ todo # <<>>
  BY <1>1 DEF Succeed, Trying
<1>3. /\ hardware \in Inventories /\ hardware' = hardware
      /\ supporting \in SUBSET Range(Runtimes) /\ failed \o todo = Attempts(hardware, supporting)
  BY <1>1 DEF ManagerInv, Succeed, End, HalfDone
<1>4. PICK S : failed \in Seq(S) /\ todo \in Seq(S)
  BY <1>1 DEF HalfDone
<1> DEFINE o == Head(todo)
           chosen == [device |-> o[1], runtime |-> o[2], failures |-> failed, candidates |-> supporting]
<1>5. /\ o \in Offers(hardware, supporting)
      /\ Range(failed) = {p \in Offers(hardware, supporting) : Preferred(hardware, p[1], p[2], o[1], o[2])}
  <2>1. PICK h \in Inventories : h = hardware
    BY <1>3
  <2>2. todo # <<>>
    BY <1>2
  <2>3. failed \o todo = Attempts(h, supporting)
    BY <1>3, <2>1
  <2>4. supporting \in SUBSET Range(Runtimes)
    BY <1>3
  <2>5. failed \in Seq(S)
    BY <1>4
  <2>6. todo \in Seq(S)
    BY <1>4
  <2>7. BestBut(h, supporting, Head(todo), failed)
    BY <2>1, <2>2, <2>3, <2>4, <2>5, <2>6, Chosen
  <2> QED
    BY <2>1, <2>7 DEF BestBut
<1>6. o = <<o[1], o[2]>>
  BY <1>3, <1>5, OffersAre
<1>7. loaded' = [k \in DOMAIN loaded \cup {m} |-> IF k = m THEN chosen ELSE loaded[k]]
  BY <1>2 DEF Succeed
<1>8. /\ chosen.device = o[1] /\ chosen.runtime = o[2]
      /\ chosen.failures = failed /\ chosen.candidates = supporting
  OBVIOUS
<1> HIDE DEF o, chosen
<1>9. /\ DOMAIN loaded' = DOMAIN loaded \cup {m} /\ loaded'[m] = chosen
      /\ \A k \in DOMAIN loaded' : k # m => k \in DOMAIN loaded /\ loaded'[k] = loaded[k]
  BY <1>7
<1>10. SelectionIsBest'
  <2> DEFINE Best(c) == LET offers == Offers(hardware, c.candidates)
                        IN  /\ <<c.device, c.runtime>> \in offers
                            /\ Range(c.failures) =
                                  {p \in offers : Preferred(hardware, p[1], p[2], c.device, c.runtime)}
  <2>1. Best(chosen)
    BY <1>5, <1>6, <1>8
  <2>2. \A k \in DOMAIN loaded : Best(loaded[k])
    BY DEF ManagerInv, SelectionIsBest
  <2>3. SelectionIsBest' <=> \A k \in DOMAIN loaded' : Best(loaded'[k])
    BY <1>3 DEF SelectionIsBest
  <2> HIDE DEF Best
  <2> QED
    BY <1>9, <2>1, <2>2, <2>3
<1> QED
  BY <1>10, EndStep DEF Succeed

LEMMA FailOverStep ==
    ASSUME ManagerInv, FailOver
    PROVE  ManagerInv'
<1>1. PICK m, supporting, todo, failed :
         /\ load = [model |-> m, candidates |-> supporting, todo |-> todo, failures |-> failed]
         /\ HalfDone(failed, todo, supporting)
  BY DEF ManagerInv, LoadIsHalfDone, FailOver, Trying
<1>2. todo # <<>>
  BY <1>1 DEF FailOver, Trying
<1>3. load' = [model |-> m, candidates |-> supporting, todo |-> Tail(todo), failures |-> Append(failed, Head(todo))]
  BY <1>1 DEF FailOver
<1>4. hardware' = hardware /\ loaded' = loaded /\ hardware \in Inventories /\ SelectionIsBest
  BY DEF FailOver, ManagerInv
<1>5. PICK S : failed \in Seq(S) /\ todo \in Seq(S)
  BY <1>1 DEF HalfDone
<1>6. /\ Append(failed, Head(todo)) \in Seq(S) /\ Tail(todo) \in Seq(S)
      /\ Append(failed, Head(todo)) \o Tail(todo) = failed \o todo
  BY <1>2, <1>5, OneFurther
<1>7. HalfDone(Append(failed, Head(todo)), Tail(todo), supporting)'
  BY <1>1, <1>4, <1>6 DEF HalfDone
<1>8. LoadIsHalfDone'
  BY <1>3, <1>7 DEF LoadIsHalfDone
<1>9. SelectionIsBest'
  BY <1>4, SameSelection
<1> QED
  BY <1>4, <1>8, <1>9 DEF ManagerInv

LEMMA ManagerStep ==
    ASSUME ManagerInv, [ManagerNext]_managerVars
    PROVE  ManagerInv'
<1>0. SelectionIsBest
  BY DEF ManagerInv
<1>1. CASE UNCHANGED managerVars
  <2>1. SelectionIsBest'
    BY <1>0, <1>1, SameSelection DEF managerVars
  <2> QED
    BY <1>1, <2>1 DEF managerVars, ManagerInv, LoadIsHalfDone, HalfDone
<1>2. CASE Cancel
  <2>1. SelectionIsBest'
    BY <1>0, <1>2, SameSelection DEF Cancel
  <2> QED
    BY <1>2, <2>1 DEF Cancel, ManagerInv, LoadIsHalfDone, HalfDone
<1>3. CASE Succeed
  BY <1>3, SucceedStep
<1>4. CASE FailOver
  BY <1>4, FailOverStep
<1>5. CASE Fail \/ GiveUp
  <2>1. End /\ hardware' = hardware /\ loaded' = loaded
    BY <1>5 DEF Fail, GiveUp, End
  <2> QED
    BY <1>0, <2>1, SameSelection, EndStep
<1>6. ASSUME NEW m \in Models, Unload(m) PROVE ManagerInv'
  <2>1. SelectionIsBest'
    BY <1>0, <1>6, SameSelection DEF Unload
  <2> QED
    BY <1>6, <2>1 DEF Unload, ManagerInv, LoadIsHalfDone, HalfDone
<1>7. ASSUME NEW m \in Models, NEW supporting \in SUBSET Range(Runtimes), Load(m, supporting)
      PROVE  ManagerInv'
  BY <1>7, LoadStep
<1> QED
  BY <1>1, <1>2, <1>3, <1>4, <1>5, <1>6, <1>7 DEF ManagerNext

THEOREM ManagerInvariant == ManagerSpec => []ManagerInv
  BY ManagerStart, ManagerStep, PTL DEF ManagerSpec

\* On any machine and with any runtimes a loaded model is on the best device that the policy
\* allows and a candidate offers, but for those that failed, which are exactly the reasons
\* that it is shown with: load() skips nothing and tries nothing out of order.
THEOREM SelectionHolds == ManagerSpec => []SelectionIsBest
<1>1. ManagerInv => SelectionIsBest
  BY DEF ManagerInv
<1> QED
  BY <1>1, ManagerInvariant, PTL

-----------------------------------------------------------------------------
(***************************************************************************)
(* The levels of values and schemas.                                       *)
(***************************************************************************)
LEMMA JsonExists ==
    ASSUME NEW n \in Nat
    PROVE  \E h : h = [i \in 0 .. n |-> IF i = 0 THEN JsonOf({}) ELSE JsonOf(h[i - 1])]
<1> DEFINE step(h, i) == IF i = 0 THEN JsonOf({}) ELSE JsonOf(h[i - 1])
           Good == {m \in Nat : \E h : \A i \in 0 .. m : h[i] = step(h, i)}
<1>1. \A g, h : step(g, 0) = step(h, 0)
  OBVIOUS
<1>2. \A g, h, i : g[i - 1] = h[i - 1] => step(g, i) = step(h, i)
  OBVIOUS
<1> HIDE DEF step
<1>3. 0 \in Good
  <2> DEFINE h == [i \in 0 .. 0 |-> step(0, 0)]
  <2>1. \A i \in 0 .. 0 : h[i] = step(h, i)
    BY <1>1
  <2> QED
    BY <2>1
<1>4. ASSUME NEW m \in Good PROVE m + 1 \in Good
  <2>1. PICK g : \A i \in 0 .. m : g[i] = step(g, i)
    OBVIOUS
  <2> DEFINE h == [i \in 0 .. m + 1 |-> step(g, i)]
  <2>2. ASSUME NEW i \in 0 .. m + 1 PROVE h[i] = step(h, i)
    <3>1. CASE i = 0
      BY <1>1, <3>1
    <3>2. CASE i # 0
      <4>1. i - 1 \in 0 .. m /\ i - 1 \in 0 .. m + 1
        BY <3>2
      <4>2. h[i - 1] = g[i - 1]
        BY <2>1, <4>1
      <4> QED
        BY <1>2, <4>2
    <3> QED
      BY <3>1, <3>2
  <2>3. m + 1 \in Nat
    OBVIOUS
  <2> HIDE DEF h
  <2>4. \E k : \A i \in 0 .. m + 1 : k[i] = step(k, i)
    BY <2>2
  <2> QED
    BY <2>3, <2>4
<1>5. n \in Good
  <2>1. Good \in SUBSET Nat
    OBVIOUS
  <2> HIDE DEF Good
  <2> QED
    BY <1>3, <1>4, <2>1, OneByOne
<1>6. PICK g : \A i \in 0 .. n : g[i] = step(g, i)
  BY <1>5
<1> DEFINE h == [i \in 0 .. n |-> g[i]]
<1>7. ASSUME NEW i \in 0 .. n PROVE step(h, i) = step(g, i)
  <2>1. CASE i = 0
    BY <1>1, <2>1
  <2>2. CASE i # 0
    <3>1. i - 1 \in 0 .. n
      BY <2>2
    <3> QED
      BY <1>2, <3>1
  <2> QED
    BY <2>1, <2>2
<1>8. h = [i \in 0 .. n |-> step(h, i)]
  BY <1>6, <1>7
<1> QED
  BY <1>8 DEF step

\* A level of values is what can be made of the level below.
LEMMA JsonLevels ==
    /\ JsonWithin[0] = JsonOf({})
    /\ \A n \in 1 .. MaxNesting : JsonWithin[n] = JsonOf(JsonWithin[n - 1])
<1>1. JsonWithin = [n \in 0 .. MaxNesting |-> IF n = 0 THEN JsonOf({}) ELSE JsonOf(JsonWithin[n - 1])]
  BY ParametersAssumption, JsonExists DEF JsonWithin
<1>2. 0 \in 0 .. MaxNesting /\ \A n \in 1 .. MaxNesting : n \in 0 .. MaxNesting /\ n # 0
  BY ParametersAssumption
<1> QED
  BY <1>1, <1>2

LEMMA AcceptingExists ==
    ASSUME NEW n \in Nat
    PROVE  \E h : h = [i \in 0 .. n |-> [schema \in Schemas |-> {v \in Json : i # 0 /\ Accepts(h[i - 1], schema, v)}]]
<1> DEFINE step(h, i) == [schema \in Schemas |-> {v \in Json : i # 0 /\ Accepts(h[i - 1], schema, v)}]
           Good == {m \in Nat : \E h : \A i \in 0 .. m : h[i] = step(h, i)}
<1>1. \A g, h : step(g, 0) = step(h, 0)
  OBVIOUS
<1>2. \A g, h, i : g[i - 1] = h[i - 1] => step(g, i) = step(h, i)
  OBVIOUS
<1> HIDE DEF step
<1>3. 0 \in Good
  <2> DEFINE h == [i \in 0 .. 0 |-> step(0, 0)]
  <2>1. \A i \in 0 .. 0 : h[i] = step(h, i)
    BY <1>1
  <2> QED
    BY <2>1
<1>4. ASSUME NEW m \in Good PROVE m + 1 \in Good
  <2>1. PICK g : \A i \in 0 .. m : g[i] = step(g, i)
    OBVIOUS
  <2> DEFINE h == [i \in 0 .. m + 1 |-> step(g, i)]
  <2>2. ASSUME NEW i \in 0 .. m + 1 PROVE h[i] = step(h, i)
    <3>1. CASE i = 0
      BY <1>1, <3>1
    <3>2. CASE i # 0
      <4>1. i - 1 \in 0 .. m /\ i - 1 \in 0 .. m + 1
        BY <3>2
      <4>2. h[i - 1] = g[i - 1]
        BY <2>1, <4>1
      <4> QED
        BY <1>2, <4>2
    <3> QED
      BY <3>1, <3>2
  <2>3. m + 1 \in Nat
    OBVIOUS
  <2> HIDE DEF h
  <2>4. \E k : \A i \in 0 .. m + 1 : k[i] = step(k, i)
    BY <2>2
  <2> QED
    BY <2>3, <2>4
<1>5. n \in Good
  <2>1. Good \in SUBSET Nat
    OBVIOUS
  <2> HIDE DEF Good
  <2> QED
    BY <1>3, <1>4, <2>1, OneByOne
<1>6. PICK g : \A i \in 0 .. n : g[i] = step(g, i)
  BY <1>5
<1> DEFINE h == [i \in 0 .. n |-> g[i]]
<1>7. ASSUME NEW i \in 0 .. n PROVE step(h, i) = step(g, i)
  <2>1. CASE i = 0
    BY <1>1, <2>1
  <2>2. CASE i # 0
    <3>1. i - 1 \in 0 .. n
      BY <2>2
    <3> QED
      BY <1>2, <3>1
  <2> QED
    BY <2>1, <2>2
<1>8. h = [i \in 0 .. n |-> step(h, i)]
  BY <1>6, <1>7
<1> QED
  BY <1>8 DEF step

\* What accepts() says of a level is what one call of it says of the level below.
LEMMA AcceptsLevels ==
    ASSUME NEW schema \in Schemas
    PROVE  /\ AcceptsWithin[0][schema] = {}
           /\ \A n \in 0 .. MaxDepth : AcceptsWithin[n + 1][schema] = {v \in Json : Accepts(AcceptsWithin[n], schema, v)}
<1>1. AcceptsWithin = [n \in 0 .. MaxDepth + 1 |->
           [s \in Schemas |-> {v \in Json : n # 0 /\ Accepts(AcceptsWithin[n - 1], s, v)}]]
  <2>1. MaxDepth + 1 \in Nat
    BY ParametersAssumption
  <2> QED
    BY <2>1, AcceptingExists DEF AcceptsWithin
<1> DEFINE level(h, n) == [s \in Schemas |-> {v \in Json : n # 0 /\ Accepts(h[n - 1], s, v)}]
<1>2. AcceptsWithin = [n \in 0 .. MaxDepth + 1 |-> level(AcceptsWithin, n)]
  BY <1>1
<1> HIDE DEF level
<1>3. AcceptsWithin[0] = level(AcceptsWithin, 0)
  <2>1. 0 \in 0 .. MaxDepth + 1
    BY ParametersAssumption
  <2> QED
    BY <1>2, <2>1
<1>4. ASSUME NEW n \in 0 .. MaxDepth PROVE AcceptsWithin[n + 1] = level(AcceptsWithin, n + 1) /\ n + 1 # 0 /\ (n + 1) - 1 = n
  <2>1. n + 1 \in 0 .. MaxDepth + 1 /\ n + 1 # 0 /\ (n + 1) - 1 = n
    BY ParametersAssumption
  <2> QED
    BY <1>2, <2>1
<1>5. AcceptsWithin[0][schema] = {}
  BY <1>3 DEF level
<1>6. ASSUME NEW n \in 0 .. MaxDepth PROVE AcceptsWithin[n + 1][schema] = {v \in Json : Accepts(AcceptsWithin[n], schema, v)}
  <2>1. PICK k : k = n + 1
    OBVIOUS
  <2>2. AcceptsWithin[k] = level(AcceptsWithin, k) /\ k # 0 /\ AcceptsWithin[k - 1] = AcceptsWithin[n]
    BY <1>4, <2>1
  <2> QED
    BY <2>1, <2>2 DEF level
<1> QED
  BY <1>5, <1>6

LEMMA RedactingExists ==
    ASSUME NEW n \in Nat
    PROVE  \E h : h = [i \in 0 .. n |-> [schema \in Schemas |-> [v \in Json |-> IF i = 0 THEN Redacted ELSE Redact(h[i - 1], schema, v)]]]
<1> DEFINE step(h, i) == [schema \in Schemas |-> [v \in Json |-> IF i = 0 THEN Redacted ELSE Redact(h[i - 1], schema, v)]]
           Good == {m \in Nat : \E h : \A i \in 0 .. m : h[i] = step(h, i)}
<1>1. \A g, h : step(g, 0) = step(h, 0)
  OBVIOUS
<1>2. \A g, h, i : g[i - 1] = h[i - 1] => step(g, i) = step(h, i)
  OBVIOUS
<1> HIDE DEF step
<1>3. 0 \in Good
  <2> DEFINE h == [i \in 0 .. 0 |-> step(0, 0)]
  <2>1. \A i \in 0 .. 0 : h[i] = step(h, i)
    BY <1>1
  <2> QED
    BY <2>1
<1>4. ASSUME NEW m \in Good PROVE m + 1 \in Good
  <2>1. PICK g : \A i \in 0 .. m : g[i] = step(g, i)
    OBVIOUS
  <2> DEFINE h == [i \in 0 .. m + 1 |-> step(g, i)]
  <2>2. ASSUME NEW i \in 0 .. m + 1 PROVE h[i] = step(h, i)
    <3>1. CASE i = 0
      BY <1>1, <3>1
    <3>2. CASE i # 0
      <4>1. i - 1 \in 0 .. m /\ i - 1 \in 0 .. m + 1
        BY <3>2
      <4>2. h[i - 1] = g[i - 1]
        BY <2>1, <4>1
      <4> QED
        BY <1>2, <4>2
    <3> QED
      BY <3>1, <3>2
  <2>3. m + 1 \in Nat
    OBVIOUS
  <2> HIDE DEF h
  <2>4. \E k : \A i \in 0 .. m + 1 : k[i] = step(k, i)
    BY <2>2
  <2> QED
    BY <2>3, <2>4
<1>5. n \in Good
  <2>1. Good \in SUBSET Nat
    OBVIOUS
  <2> HIDE DEF Good
  <2> QED
    BY <1>3, <1>4, <2>1, OneByOne
<1>6. PICK g : \A i \in 0 .. n : g[i] = step(g, i)
  BY <1>5
<1> DEFINE h == [i \in 0 .. n |-> g[i]]
<1>7. ASSUME NEW i \in 0 .. n PROVE step(h, i) = step(g, i)
  <2>1. CASE i = 0
    BY <1>1, <2>1
  <2>2. CASE i # 0
    <3>1. i - 1 \in 0 .. n
      BY <2>2
    <3> QED
      BY <1>2, <3>1
  <2> QED
    BY <2>1, <2>2
<1>8. h = [i \in 0 .. n |-> step(h, i)]
  BY <1>6, <1>7
<1> QED
  BY <1>8 DEF step

\* What redactValue() shows of a level is what one call of it makes of the level below.
LEMMA RedactLevels ==
    ASSUME NEW schema \in Schemas, NEW v \in Json
    PROVE  /\ RedactWithin[0][schema][v] = Redacted
           /\ \A n \in 0 .. MaxDepth : RedactWithin[n + 1][schema][v] = Redact(RedactWithin[n], schema, v)
<1>1. RedactWithin = [n \in 0 .. MaxDepth + 1 |->
           [s \in Schemas |-> [x \in Json |-> IF n = 0 THEN Redacted ELSE Redact(RedactWithin[n - 1], s, x)]]]
  <2>1. MaxDepth + 1 \in Nat
    BY ParametersAssumption
  <2> QED
    BY <2>1, RedactingExists DEF RedactWithin
<1> DEFINE level(h, n) == [s \in Schemas |-> [x \in Json |-> IF n = 0 THEN Redacted ELSE Redact(h[n - 1], s, x)]]
<1>2. RedactWithin = [n \in 0 .. MaxDepth + 1 |-> level(RedactWithin, n)]
  BY <1>1
<1> HIDE DEF level
<1>3. RedactWithin[0] = level(RedactWithin, 0)
  <2>1. 0 \in 0 .. MaxDepth + 1
    BY ParametersAssumption
  <2> QED
    BY <1>2, <2>1
<1>4. ASSUME NEW n \in 0 .. MaxDepth PROVE RedactWithin[n + 1] = level(RedactWithin, n + 1) /\ n + 1 # 0 /\ (n + 1) - 1 = n
  <2>1. n + 1 \in 0 .. MaxDepth + 1 /\ n + 1 # 0 /\ (n + 1) - 1 = n
    BY ParametersAssumption
  <2> QED
    BY <1>2, <2>1
<1>5. RedactWithin[0][schema][v] = Redacted
  BY <1>3 DEF level
<1>6. ASSUME NEW n \in 0 .. MaxDepth PROVE RedactWithin[n + 1][schema][v] = Redact(RedactWithin[n], schema, v)
  <2>1. PICK k : k = n + 1
    OBVIOUS
  <2>2. RedactWithin[k] = level(RedactWithin, k) /\ k # 0 /\ RedactWithin[k - 1] = RedactWithin[n]
    BY <1>4, <2>1
  <2> QED
    BY <2>1, <2>2 DEF level
<1> QED
  BY <1>5, <1>6

LEMMA HidingExists ==
    ASSUME NEW n \in Nat
    PROVE  \E h : h = [i \in 0 .. n |-> [schema \in Schemas |-> {p \in Json \X Json : IF i = 0 THEN p[2] = Redacted ELSE Hides(h[i - 1], AcceptsWithin[i - 1], schema, p[1], p[2])}]]
<1> DEFINE step(h, i) == [schema \in Schemas |-> {p \in Json \X Json : IF i = 0 THEN p[2] = Redacted ELSE Hides(h[i - 1], AcceptsWithin[i - 1], schema, p[1], p[2])}]
           Good == {m \in Nat : \E h : \A i \in 0 .. m : h[i] = step(h, i)}
<1>1. \A g, h : step(g, 0) = step(h, 0)
  OBVIOUS
<1>2. \A g, h, i : g[i - 1] = h[i - 1] => step(g, i) = step(h, i)
  OBVIOUS
<1> HIDE DEF step
<1>3. 0 \in Good
  <2> DEFINE h == [i \in 0 .. 0 |-> step(0, 0)]
  <2>1. \A i \in 0 .. 0 : h[i] = step(h, i)
    BY <1>1
  <2> QED
    BY <2>1
<1>4. ASSUME NEW m \in Good PROVE m + 1 \in Good
  <2>1. PICK g : \A i \in 0 .. m : g[i] = step(g, i)
    OBVIOUS
  <2> DEFINE h == [i \in 0 .. m + 1 |-> step(g, i)]
  <2>2. ASSUME NEW i \in 0 .. m + 1 PROVE h[i] = step(h, i)
    <3>1. CASE i = 0
      BY <1>1, <3>1
    <3>2. CASE i # 0
      <4>1. i - 1 \in 0 .. m /\ i - 1 \in 0 .. m + 1
        BY <3>2
      <4>2. h[i - 1] = g[i - 1]
        BY <2>1, <4>1
      <4> QED
        BY <1>2, <4>2
    <3> QED
      BY <3>1, <3>2
  <2>3. m + 1 \in Nat
    OBVIOUS
  <2> HIDE DEF h
  <2>4. \E k : \A i \in 0 .. m + 1 : k[i] = step(k, i)
    BY <2>2
  <2> QED
    BY <2>3, <2>4
<1>5. n \in Good
  <2>1. Good \in SUBSET Nat
    OBVIOUS
  <2> HIDE DEF Good
  <2> QED
    BY <1>3, <1>4, <2>1, OneByOne
<1>6. PICK g : \A i \in 0 .. n : g[i] = step(g, i)
  BY <1>5
<1> DEFINE h == [i \in 0 .. n |-> g[i]]
<1>7. ASSUME NEW i \in 0 .. n PROVE step(h, i) = step(g, i)
  <2>1. CASE i = 0
    BY <1>1, <2>1
  <2>2. CASE i # 0
    <3>1. i - 1 \in 0 .. n
      BY <2>2
    <3> QED
      BY <1>2, <3>1
  <2> QED
    BY <2>1, <2>2
<1>8. h = [i \in 0 .. n |-> step(h, i)]
  BY <1>6, <1>7
<1> QED
  BY <1>8 DEF step

\* What is shown as it may be on a level depends on the level below.
LEMMA HidesLevels ==
    ASSUME NEW schema \in Schemas, NEW v \in Json, NEW w \in Json
    PROVE  /\ <<v, w>> \in HidesWithin[0][schema] <=> w = Redacted
           /\ \A n \in 0 .. MaxDepth :
                 <<v, w>> \in HidesWithin[n + 1][schema] <=>
                    Hides(HidesWithin[n], AcceptsWithin[n], schema, v, w)
<1>1. HidesWithin = [n \in 0 .. MaxDepth + 1 |->
           [s \in Schemas |-> {p \in Json \X Json : IF n = 0 THEN p[2] = Redacted ELSE Hides(HidesWithin[n - 1], AcceptsWithin[n - 1], s, p[1], p[2])}]]
  <2>1. MaxDepth + 1 \in Nat
    BY ParametersAssumption
  <2> QED
    BY <2>1, HidingExists DEF HidesWithin
<1> DEFINE level(h, n) == [s \in Schemas |-> {p \in Json \X Json : IF n = 0 THEN p[2] = Redacted ELSE Hides(h[n - 1], AcceptsWithin[n - 1], s, p[1], p[2])}]
<1>2. HidesWithin = [n \in 0 .. MaxDepth + 1 |-> level(HidesWithin, n)]
  BY <1>1
<1> HIDE DEF level
<1>3. HidesWithin[0] = level(HidesWithin, 0)
  <2>1. 0 \in 0 .. MaxDepth + 1
    BY ParametersAssumption
  <2> QED
    BY <1>2, <2>1
<1>4. ASSUME NEW n \in 0 .. MaxDepth PROVE HidesWithin[n + 1] = level(HidesWithin, n + 1) /\ n + 1 # 0 /\ (n + 1) - 1 = n
  <2>1. n + 1 \in 0 .. MaxDepth + 1 /\ n + 1 # 0 /\ (n + 1) - 1 = n
    BY ParametersAssumption
  <2> QED
    BY <1>2, <2>1
<1>5. <<v, w>> \in HidesWithin[0][schema] <=> w = Redacted
  BY <1>3 DEF level
<1>6. ASSUME NEW n \in 0 .. MaxDepth PROVE <<v, w>> \in HidesWithin[n + 1][schema] <=> Hides(HidesWithin[n], AcceptsWithin[n], schema, v, w)
  <2>1. PICK k : k = n + 1
    OBVIOUS
  <2>2. HidesWithin[k] = level(HidesWithin, k) /\ k # 0 /\ HidesWithin[k - 1] = HidesWithin[n] /\ AcceptsWithin[k - 1] = AcceptsWithin[n]
    BY <1>4, <2>1
  <2> QED
    BY <2>1, <2>2 DEF level
<1> QED
  BY <1>5, <1>6
-----------------------------------------------------------------------------
(***************************************************************************)
(* JSON values.                                                            *)
(***************************************************************************)
ObjectOf(f) == [is |-> "object", f |-> f]

\* A value is null, a leaf, an array or an object.
LEMMA Shapes ==
    ASSUME NEW parts, NEW v
    PROVE  v \in JsonOf(parts) <=>
              \/ v = Null
              \/ \E x \in Scalars : v = Leaf(x)
              \/ \E s \in Seq(parts) : v = Array(s)
              \/ \E f \in [Names -> parts \cup {Undefined}] : v = ObjectOf(f)
<1>1. v \in [is : {"leaf"}, x : Scalars] <=> \E x \in Scalars : v = Leaf(x)
  BY DEF Leaf
<1> DEFINE seqs == Seq(parts)
           functions == [Names -> parts \cup {Undefined}]
<1> HIDE DEF seqs, functions
<1>2. v \in [is : {"array"}, s : seqs] <=> \E s \in seqs : v = Array(s)
  BY DEF Array
<1>3. v \in [is : {"object"}, f : functions] <=> \E f \in functions : v = ObjectOf(f)
  BY DEF ObjectOf
<1>4. v \in JsonOf(parts) <=>
           \/ v = Null
           \/ v \in [is : {"leaf"}, x : Scalars]
           \/ v \in [is : {"array"}, s : seqs]
           \/ v \in [is : {"object"}, f : functions]
  BY DEF JsonOf, seqs, functions
<1> QED
  BY <1>1, <1>2, <1>3, <1>4 DEF seqs, functions

\* More can be made of more parts.
LEMMA JsonGrows ==
    ASSUME NEW parts, NEW more, parts \subseteq more
    PROVE  JsonOf(parts) \subseteq JsonOf(more)
<1> SUFFICES ASSUME NEW v \in JsonOf(parts) PROVE v \in JsonOf(more)
  OBVIOUS
<1>1. Seq(parts) \subseteq Seq(more)
  OBVIOUS
<1>2. [Names -> parts \cup {Undefined}] \subseteq [Names -> more \cup {Undefined}]
  OBVIOUS
<1> DEFINE seqs == Seq(more)
           functions == [Names -> more \cup {Undefined}]
<1>3. \/ v = Null
      \/ \E x \in Scalars : v = Leaf(x)
      \/ \E s \in seqs : v = Array(s)
      \/ \E f \in functions : v = ObjectOf(f)
  <2>1. \/ v = Null
        \/ \E x \in Scalars : v = Leaf(x)
        \/ \E s \in Seq(parts) : v = Array(s)
        \/ \E f \in [Names -> parts \cup {Undefined}] : v = ObjectOf(f)
    BY Shapes
  <2> HIDE DEF seqs, functions
  <2> QED
    BY <1>1, <1>2, <2>1 DEF seqs, functions
<1> QED
  BY <1>3, Shapes

\* What the values of a level are made of: values of the level below.
Parts(n) == IF n = 0 THEN {} ELSE JsonWithin[n - 1]

\* Each level has its parts in it, and is in the last one.
LEMMA Nested ==
    ASSUME NEW n \in 0 .. MaxNesting
    PROVE  /\ JsonWithin[n] = JsonOf(Parts(n))
           /\ Parts(n) \subseteq JsonWithin[n]
           /\ JsonWithin[n] \subseteq Json
<1> DEFINE Good == {m \in Nat : m <= MaxNesting => Parts(m) \subseteq JsonWithin[m]}
<1>1. ASSUME NEW m \in 0 .. MaxNesting PROVE JsonWithin[m] = JsonOf(Parts(m))
  <2>1. CASE m = 0
    BY <2>1, JsonLevels DEF Parts
  <2>2. CASE m # 0
    <3>1. m \in 1 .. MaxNesting
      BY <2>2
    <3> QED
      BY <2>2, <3>1, JsonLevels DEF Parts
  <2> QED
    BY <2>1, <2>2
<1>2. 0 \in Good
  BY DEF Parts
<1>3. ASSUME NEW m \in Good PROVE m + 1 \in Good
  <2> SUFFICES ASSUME m + 1 <= MaxNesting PROVE Parts(m + 1) \subseteq JsonWithin[m + 1]
    OBVIOUS
  <2>1. m \in 0 .. MaxNesting /\ m + 1 \in 0 .. MaxNesting
    BY ParametersAssumption
  <2>2. Parts(m + 1) = JsonWithin[m]
    <3>1. PICK k : k = m + 1
      OBVIOUS
    <3>2. k # 0 /\ k - 1 = m
      BY <3>1
    <3> QED
      BY <3>1, <3>2 DEF Parts
  <2>3. JsonWithin[m] = JsonOf(Parts(m)) /\ JsonWithin[m + 1] = JsonOf(Parts(m + 1))
    BY <1>1, <2>1
  <2>4. Parts(m) \subseteq JsonWithin[m]
    BY <2>1
  <2> QED
    BY <2>2, <2>3, <2>4, JsonGrows
<1>4. \A m \in Nat : m \in Good
  <2>1. Good \in SUBSET Nat
    OBVIOUS
  <2> HIDE DEF Good
  <2> QED
    BY <1>2, <1>3, <2>1, OneByOne
<1>5. ASSUME NEW m \in 0 .. MaxNesting PROVE Parts(m) \subseteq JsonWithin[m]
  BY <1>4
<1> DEFINE Up == {m \in Nat : n + m <= MaxNesting => JsonWithin[n] \subseteq JsonWithin[n + m]}
<1>6. 0 \in Up
  <2>1. n + 0 = n
    OBVIOUS
  <2> QED
    BY <2>1
<1>7. ASSUME NEW m \in Up PROVE m + 1 \in Up
  <2> SUFFICES ASSUME n + (m + 1) <= MaxNesting PROVE JsonWithin[n] \subseteq JsonWithin[n + (m + 1)]
    OBVIOUS
  <2>1. PICK k : k = n + (m + 1)
    OBVIOUS
  <2>2. k \in 0 .. MaxNesting /\ k # 0 /\ k - 1 = n + m /\ n + m <= MaxNesting
    BY <2>1, ParametersAssumption
  <2>3. Parts(k) = JsonWithin[n + m]
    BY <2>2 DEF Parts
  <2>4. JsonWithin[n] \subseteq JsonWithin[n + m]
    BY <2>2
  <2> QED
    BY <1>5, <2>1, <2>2, <2>3, <2>4
<1>8. \A m \in Nat : m \in Up
  <2>1. Up \in SUBSET Nat
    OBVIOUS
  <2> HIDE DEF Up
  <2> QED
    BY <1>6, <1>7, <2>1, OneByOne
<1>9. JsonWithin[n] \subseteq Json
  <2>1. PICK m : m = MaxNesting - n
    OBVIOUS
  <2>2. m \in Nat /\ n + m = MaxNesting
    BY <2>1, ParametersAssumption
  <2>3. m \in Up
    BY <1>8, <2>2
  <2> QED
    BY <2>2, <2>3 DEF Json
<1> QED
  BY <1>1, <1>5, <1>9

\* What a value can be, and what it is not.
LEMMA Kinds ==
    ASSUME NEW v \in Json
    PROVE  \/ v = Null
           \/ v.is = "leaf"
           \/ v.is = "array" /\ v.s \in Seq(Json) /\ v = Array(v.s)
           \/ v.is = "object" /\ v.f \in [Names -> Json \cup {Undefined}] /\ v = ObjectOf(v.f)
<1>1. MaxNesting \in 0 .. MaxNesting
  BY ParametersAssumption
<1> DEFINE parts == Parts(MaxNesting)
<1>2. Json = JsonOf(parts) /\ parts \subseteq Json
  BY <1>1, Nested DEF Json
<1> HIDE DEF parts
<1>3. CASE \E s \in Seq(parts) : v = Array(s)
  <2>1. PICK s \in Seq(parts) : v = Array(s)
    BY <1>3
  <2>2. s \in Seq(Json)
    BY <1>2
  <2> QED
    BY <2>1, <2>2 DEF Array
<1>4. CASE \E f \in [Names -> parts \cup {Undefined}] : v = ObjectOf(f)
  <2>1. PICK f \in [Names -> parts \cup {Undefined}] : v = ObjectOf(f)
    BY <1>4
  <2>2. f \in [Names -> Json \cup {Undefined}]
    BY <1>2
  <2> QED
    BY <2>1, <2>2 DEF ObjectOf
<1>5. CASE \E x \in Scalars : v = Leaf(x)
  BY <1>5 DEF Leaf
<1> QED
  BY <1>2, <1>3, <1>4, <1>5, Shapes

\* What is not there is no value.
LEMMA UndefinedIsNot == Undefined \notin Json
<1> SUFFICES ASSUME Undefined \in Json PROVE FALSE
  OBVIOUS
<1>1. Undefined.is = "undefined" /\ Null.is = "null"
  BY DEF Undefined, Null
<1> QED
  BY <1>1, Kinds

LEMMA RedactedIs == \A parts : Redacted \in JsonOf(parts)
<1> SUFFICES ASSUME NEW parts PROVE Redacted \in JsonOf(parts)
  OBVIOUS
<1>1. \E x \in Scalars : Redacted = Leaf(x)
  BY ParametersAssumption DEF Redacted, Leaf
<1> QED
  BY <1>1, Shapes

LEMMA RedactedIsJson == Redacted \in Json /\ Redacted.is = "leaf"
  BY RedactedIs, Nested, ParametersAssumption DEF Json, Redacted, Leaf

\* The members of an object that is made of some.
LEMMA MembersMade ==
    ASSUME NEW e, DOMAIN e \subseteq Names, \A k \in DOMAIN e : e[k] \in Json
    PROVE  /\ Members(Object(e)) = DOMAIN e
           /\ Object(e).is = "object"
           /\ \A k \in DOMAIN e : Object(e).f[k] = e[k]
<1>1. Object(e).is = "object"
  BY DEF Object
<1>2. Object(e).f = [k \in Names |-> IF k \in DOMAIN e THEN e[k] ELSE Undefined]
  BY DEF Object
<1>3. \A k \in Names : Object(e).f[k] = IF k \in DOMAIN e THEN e[k] ELSE Undefined
  BY <1>2
<1>4. \A k \in DOMAIN e : e[k] # Undefined
  BY UndefinedIsNot
<1> QED
  BY <1>1, <1>3, <1>4 DEF Members

\* An object that is made of parts.
LEMMA ObjectMade ==
    ASSUME NEW parts, NEW e, \A k \in DOMAIN e \cap Names : e[k] \in parts
    PROVE  Object(e) \in JsonOf(parts)
<1> DEFINE f == [k \in Names |-> IF k \in DOMAIN e THEN e[k] ELSE Undefined]
<1>1. f \in [Names -> parts \cup {Undefined}]
  OBVIOUS
<1>2. Object(e) = ObjectOf(f)
  BY DEF Object, ObjectOf
<1> HIDE DEF f
<1> QED
  BY <1>1, <1>2, Shapes

\* The parts of a value.
LEMMA PartsOf ==
    ASSUME NEW parts, NEW v \in JsonOf(parts)
    PROVE  /\ v.is = "array" => v.s \in Seq(parts)
           /\ v.is = "object" => \A k \in Members(v) : k \in Names /\ v.f[k] \in parts
<1>1. Null.is = "null" /\ \A x : Leaf(x).is = "leaf"
  BY DEF Null, Leaf
<1>2. \A s : Array(s).is = "array" /\ Array(s).s = s
  BY DEF Array
<1>3. \A f : ObjectOf(f).is = "object" /\ ObjectOf(f).f = f
  BY DEF ObjectOf
<1>4. CASE \E s \in Seq(parts) : v = Array(s)
  BY <1>2, <1>4
<1>5. CASE \E f \in [Names -> parts \cup {Undefined}] : v = ObjectOf(f)
  BY <1>3, <1>5 DEF Members
<1>6. CASE v = Null \/ \E x \in Scalars : v = Leaf(x)
  BY <1>1, <1>6
<1> QED
  BY <1>4, <1>5, <1>6, Shapes

-----------------------------------------------------------------------------
(***************************************************************************)
(* The alternatives of a schema.                                           *)
(***************************************************************************)
\* g goes through the alternatives at the places s, from the first to the last.
Follows(below, v, q, g, s) ==
    IF s = {} THEN v ELSE below[q[Max(s)]][g[s \ {Max(s)}]]

LEMMA FollowingExists ==
    ASSUME NEW below, NEW v, NEW q, NEW n \in Nat
    PROVE  \E g : g = [s \in SUBSET (1 .. n) |-> Follows(below, v, q, g, s)]
<1> DEFINE Good == {m \in Nat : \E g : \A s \in SUBSET (1 .. m) : g[s] = Follows(below, v, q, g, s)}
<1>1. 0 \in Good
  <2> DEFINE g == [s \in SUBSET (1 .. 0) |-> v]
  <2>1. \A s \in SUBSET (1 .. 0) : g[s] = Follows(below, v, q, g, s)
    BY DEF Follows
  <2> QED
    BY <2>1
<1>2. ASSUME NEW m \in Good PROVE m + 1 \in Good
  <2>1. PICK g : \A s \in SUBSET (1 .. m) : g[s] = Follows(below, v, q, g, s)
    OBVIOUS
  <2> DEFINE h == [s \in SUBSET (1 .. m + 1) |-> Follows(below, v, q, g, s)]
  <2>2. ASSUME NEW s \in SUBSET (1 .. m + 1) PROVE h[s] = Follows(below, v, q, h, s)
    <3>1. CASE s = {}
      BY <3>1 DEF Follows
    <3>2. CASE s # {}
      <4> DEFINE t == s \ {Max(s)}
      <4>1. t \in SUBSET (1 .. m)
        BY <3>2, AllButTheLast
      <4>2. t \in SUBSET (1 .. m + 1)
        OBVIOUS
      <4> HIDE DEF t
      <4>3. h[t] = g[t]
        BY <2>1, <4>1, <4>2
      <4> QED
        BY <3>2, <4>3 DEF Follows, t
    <3> QED
      BY <3>1, <3>2
  <2>3. m + 1 \in Nat
    OBVIOUS
  <2> HIDE DEF h
  <2>4. \E k : \A s \in SUBSET (1 .. m + 1) : k[s] = Follows(below, v, q, k, s)
    BY <2>2
  <2> QED
    BY <2>3, <2>4
<1>3. n \in Good
  <2>1. Good \in SUBSET Nat
    OBVIOUS
  <2> HIDE DEF Good
  <2> QED
    BY <1>1, <1>2, <2>1, OneByOne
<1>4. PICK g : \A s \in SUBSET (1 .. n) : g[s] = Follows(below, v, q, g, s)
  BY <1>3
<1> DEFINE h == [s \in SUBSET (1 .. n) |-> g[s]]
<1>5. ASSUME NEW s \in SUBSET (1 .. n) PROVE Follows(below, v, q, h, s) = Follows(below, v, q, g, s)
  BY DEF Follows
<1>6. h = [s \in SUBSET (1 .. n) |-> Follows(below, v, q, h, s)]
  BY <1>4, <1>5
<1> QED
  BY <1>6

\* The alternatives of a schema, one after the other.
Followed(below, v, q) == FoldLeft(LAMBDA w, branch : below[branch][w], v, q)

Following(below, v, q, h) ==
    /\ h[0] = v
    /\ \A k \in 0 .. Len(q) - 1 : h[k + 1] = below[q[k + 1]][h[k]]

LEMMA FollowedSteps ==
    ASSUME NEW S, NEW q \in Seq(S), NEW below, NEW v
    PROVE  \E h : Following(below, v, q, h) /\ Followed(below, v, q) = h[Len(q)]
<1> DEFINE n == Len(q)
           g == CHOOSE g : g = [s \in SUBSET (1 .. n) |-> Follows(below, v, q, g, s)]
           h == [k \in 0 .. n |-> g[1 .. k]]
<1>1. n \in Nat /\ DOMAIN q = 1 .. n
  BY LenProperties
<1>3. Followed(below, v, q) = g[1 .. n]
  BY <1>1 DEF Followed, FoldLeft, MapThenFoldSet, Follows
<1> HIDE DEF n
<1>4. g = [s \in SUBSET (1 .. n) |-> Follows(below, v, q, g, s)]
  BY <1>1, FollowingExists
<1> HIDE DEF g
<1>5. 0 \in 0 .. n /\ h[0] = v
  <2>1. 1 .. 0 = {} /\ {} \in SUBSET (1 .. n)
    OBVIOUS
  <2>2. g[{}] = v
    BY <1>4, <2>1 DEF Follows
  <2> QED
    BY <1>1, <2>1, <2>2
<1>6. ASSUME NEW k \in 0 .. n - 1 PROVE h[k + 1] = below[q[k + 1]][h[k]]
  <2> DEFINE s == 1 .. k + 1
  <2>0. k \in Nat /\ k + 1 \in 0 .. n /\ k \in 0 .. n /\ k + 1 <= n
    BY <1>1
  <2>1. s \in SUBSET (1 .. n) /\ s # {} /\ s \in SUBSET (1 .. k + 1) /\ k + 1 \in s
    <3>1. k + 1 \in s /\ s \in SUBSET (1 .. k + 1)
      BY <2>0
    <3>2. \A i \in s : i \in 1 .. n
      BY <1>1, <2>0
    <3> HIDE DEF s
    <3> QED
      BY <3>1, <3>2
  <2>2. s \ {k + 1} = 1 .. k
    BY <2>0
  <2>3. Max(s) = k + 1
    <3>1. s \in SUBSET (0 .. k + 1) /\ k + 1 \in Nat
      BY <2>0
    <3> HIDE DEF s
    <3>2. Max(s) \in s /\ \A y \in s : y <= Max(s)
      BY <2>1, <3>1, Maximum
    <3> DEFINE m == Max(s)
    <3>3. m \in 0 .. k + 1 /\ k + 1 <= m
      <4>1. m \in s /\ \A y \in s : y <= m
        BY <3>2
      <4> HIDE DEF m
      <4> QED
        BY <2>1, <3>1, <4>1
    <3> HIDE DEF m
    <3>4. m = k + 1
      BY <2>0, <3>3
    <3> QED
      BY <3>4 DEF m
  <2> HIDE DEF s
  <2>4. g[s] = below[q[Max(s)]][g[s \ {Max(s)}]]
    BY <1>4, <2>1 DEF Follows
  <2>5. h[k + 1] = g[s] /\ h[k] = g[1 .. k]
    BY <2>0 DEF s
  <2> QED
    BY <2>2, <2>3, <2>4, <2>5
<1>7. Followed(below, v, q) = h[n]
  BY <1>1, <1>3
<1> HIDE DEF h
<1>8. Following(below, v, q, h)
  BY <1>5, <1>6 DEF Following, n
<1> QED
  BY <1>7, <1>8 DEF n

\* What every alternative keeps, all of them keep.
LEMMA FollowedStays ==
    ASSUME NEW S, NEW q \in Seq(S), NEW below, NEW W, NEW v \in W,
           \A b \in S : \A w \in W : below[b][w] \in W
    PROVE  Followed(below, v, q) \in W
<1>1. PICK h : Following(below, v, q, h) /\ Followed(below, v, q) = h[Len(q)]
  BY FollowedSteps
<1>2. Len(q) \in Nat /\ \A k \in 1 .. Len(q) : q[k] \in S
  OBVIOUS
<1> DEFINE Good == {m \in Nat : m <= Len(q) => h[m] \in W}
<1>3. 0 \in Good
  BY <1>1 DEF Following
<1>4. ASSUME NEW m \in Good PROVE m + 1 \in Good
  <2> SUFFICES ASSUME m + 1 <= Len(q) PROVE h[m + 1] \in W
    OBVIOUS
  <2>1. m \in 0 .. Len(q) - 1 /\ m + 1 \in 1 .. Len(q) /\ m <= Len(q)
    BY <1>2
  <2>2. h[m + 1] = below[q[m + 1]][h[m]]
    BY <1>1, <2>1 DEF Following
  <2> QED
    BY <1>2, <2>1, <2>2
<1>5. Len(q) \in Good
  <2>1. Good \in SUBSET Nat
    OBVIOUS
  <2> HIDE DEF Good
  <2> QED
    BY <1>2, <1>3, <1>4, <2>1, OneByOne
<1> QED
  BY <1>1, <1>2, <1>5

\* What one alternative brings about and the others keep is so in the end.
LEMMA FollowedReaches ==
    ASSUME NEW S, NEW q \in Seq(S), NEW below, NEW W, NEW v \in W, NEW X \in SUBSET W,
           NEW i \in DOMAIN q,
           \A b \in S : \A w \in W : below[b][w] \in W,
           \A b \in S : \A w \in X : below[b][w] \in X,
           \A w \in W : below[q[i]][w] \in X
    PROVE  Followed(below, v, q) \in X
<1>1. PICK h : Following(below, v, q, h) /\ Followed(below, v, q) = h[Len(q)]
  BY FollowedSteps
<1>2. Len(q) \in Nat /\ i \in 1 .. Len(q) /\ \A k \in 1 .. Len(q) : q[k] \in S
  OBVIOUS
<1> DEFINE Good == {m \in Nat : m <= Len(q) => h[m] \in W /\ (i <= m => h[m] \in X)}
<1>3. 0 \in Good
  BY <1>1, <1>2 DEF Following
<1>4. ASSUME NEW m \in Good PROVE m + 1 \in Good
  <2> SUFFICES ASSUME m + 1 <= Len(q) PROVE h[m + 1] \in W /\ (i <= m + 1 => h[m + 1] \in X)
    OBVIOUS
  <2>1. m \in 0 .. Len(q) - 1 /\ m + 1 \in 1 .. Len(q) /\ m <= Len(q)
    BY <1>2
  <2>2. h[m + 1] = below[q[m + 1]][h[m]]
    BY <1>1, <2>1 DEF Following
  <2>3. h[m] \in W /\ (i <= m => h[m] \in X) /\ q[m + 1] \in S
    BY <1>2, <2>1
  <2>4. i <= m + 1 => i <= m \/ i = m + 1
    BY <1>2
  <2> QED
    BY <2>2, <2>3, <2>4
<1>5. Len(q) \in Good
  <2>1. Good \in SUBSET Nat
    OBVIOUS
  <2> HIDE DEF Good
  <2> QED
    BY <1>2, <1>3, <1>4, <2>1, OneByOne
<1> QED
  BY <1>1, <1>2, <1>5

-----------------------------------------------------------------------------
(***************************************************************************)
(* What is shown of a value is a value.                                    *)
(***************************************************************************)
\* What a schema contains is a schema.
LEMMA SchemasAre ==
    ASSUME NEW schema \in Schemas
    PROVE  /\ schema.is = "anyOf" => schema.of \in Seq(Schemas)
           /\ schema.is \in {"array", "map"} => schema.items \in Schemas
           /\ schema.is = "ref" =>
                 \A k \in DOMAIN Fields[schema.group] : Fields[schema.group][k].schema \in Schemas
  BY ParametersAssumption

\* The cases of redactValue().
LEMMA RedactMeans ==
    ASSUME NEW below, NEW schema, NEW v
    PROVE  /\ schema.is = "anyOf" => Redact(below, schema, v) = Followed(below, v, schema.of)
           /\ schema.is = "array" /\ v.is = "array" =>
                 Redact(below, schema, v) = Array([i \in DOMAIN v.s |-> below[schema.items][v.s[i]]])
           /\ schema.is = "map" /\ v.is = "object" =>
                 Redact(below, schema, v) = Object([k \in Members(v) |-> below[schema.items][v.f[k]]])
           /\ schema.is = "ref" /\ v.is = "object" =>
                 Redact(below, schema, v) = RedactFields(below, schema.group, v)
           /\ \/ schema.is = "anyOf"
              \/ schema.is = "array" /\ v.is = "array"
              \/ schema.is = "map" /\ v.is = "object"
              \/ schema.is = "ref" /\ v.is = "object"
              \/ Redact(below, schema, v) = v
<1> DEFINE followed == FoldLeft(LAMBDA w, branch : below[branch][w], v, schema.of)
           array == Array([i \in DOMAIN v.s |-> below[schema.items][v.s[i]]])
           map == Object([k \in Members(v) |-> below[schema.items][v.f[k]]])
           fields == RedactFields(below, schema.group, v)
<1>1. Redact(below, schema, v) =
         CASE schema.is = "anyOf" -> followed
           [] schema.is = "array" /\ v.is = "array" -> array
           [] schema.is = "map" /\ v.is = "object" -> map
           [] schema.is = "ref" /\ v.is = "object" -> fields
           [] OTHER -> v
  BY DEF Redact
<1>2. followed = Followed(below, v, schema.of)
  BY DEF Followed
<1> HIDE DEF followed, array, map, fields
<1>3. /\ schema.is = "anyOf" => Redact(below, schema, v) = followed
      /\ schema.is = "array" /\ v.is = "array" => Redact(below, schema, v) = array
      /\ schema.is = "map" /\ v.is = "object" => Redact(below, schema, v) = map
      /\ schema.is = "ref" /\ v.is = "object" => Redact(below, schema, v) = fields
      /\ \/ schema.is = "anyOf"
         \/ schema.is = "array" /\ v.is = "array"
         \/ schema.is = "map" /\ v.is = "object"
         \/ schema.is = "ref" /\ v.is = "object"
         \/ Redact(below, schema, v) = v
  BY <1>1
<1> QED
  BY <1>2, <1>3 DEF array, map, fields

\* One call makes a value of the parts that its value has.
LEMMA RedactMakes ==
    ASSUME NEW parts, NEW below, NEW schema \in Schemas, NEW v \in JsonOf(parts),
           \A s \in Schemas : \A w \in JsonOf(parts) : below[s][w] \in JsonOf(parts),
           \A s \in Schemas : \A w \in parts : below[s][w] \in parts,
           parts # {} => Redacted \in parts
    PROVE  Redact(below, schema, v) \in JsonOf(parts)
<1>1. CASE schema.is = "anyOf"
  <2> DEFINE W == JsonOf(parts)
  <2> HIDE DEF W
  <2>1. schema.of \in Seq(Schemas) /\ v \in W /\ \A s \in Schemas : \A w \in W : below[s][w] \in W
    BY <1>1, SchemasAre DEF W
  <2>2. Followed(below, v, schema.of) \in W
    BY <2>1, FollowedStays
  <2> QED
    BY <1>1, <2>2, RedactMeans DEF W
<1>2. CASE schema.is = "array" /\ v.is = "array"
  <2> DEFINE s == [i \in DOMAIN v.s |-> below[schema.items][v.s[i]]]
  <2>1. v.s \in Seq(parts) /\ schema.items \in Schemas
    BY <1>2, PartsOf, SchemasAre
  <2>2. Len(v.s) \in Nat /\ DOMAIN v.s = 1 .. Len(v.s) /\ \A i \in 1 .. Len(v.s) : v.s[i] \in parts
    BY <2>1
  <2>3. s \in Seq(parts)
    <3>1. s \in [1 .. Len(v.s) -> parts]
      BY <2>1, <2>2
    <3> HIDE DEF s
    <3> QED
      BY <2>2, <3>1
  <2> HIDE DEF s
  <2>4. Array(s) \in JsonOf(parts)
    BY <2>3, Shapes
  <2> QED
    BY <1>2, <2>4, RedactMeans DEF s
<1>3. CASE schema.is = "map" /\ v.is = "object"
  <2> DEFINE e == [k \in Members(v) |-> below[schema.items][v.f[k]]]
  <2>1. \A k \in Members(v) : v.f[k] \in parts
    BY <1>3, PartsOf
  <2>2. \A k \in DOMAIN e \cap Names : e[k] \in parts
    BY <1>3, <2>1, SchemasAre
  <2> HIDE DEF e
  <2>3. Object(e) \in JsonOf(parts)
    BY <2>2, ObjectMade
  <2> QED
    BY <1>3, <2>3, RedactMeans DEF e
<1>4. CASE schema.is = "ref" /\ v.is = "object"
  <2> DEFINE g == schema.group
             e == [k \in Members(v) |->
                      IF k \notin DOMAIN Fields[g] THEN v.f[k]
                      ELSE IF Fields[g][k].sensitive THEN Redacted
                      ELSE below[Fields[g][k].schema][v.f[k]]]
  <2>1. \A k \in Members(v) : v.f[k] \in parts
    BY <1>4, PartsOf
  <2>2. \A k \in DOMAIN Fields[g] : Fields[g][k].schema \in Schemas
    BY <1>4, SchemasAre
  <2>3. \A k \in DOMAIN e \cap Names : e[k] \in parts
    BY <2>1, <2>2
  <2>4. RedactFields(below, g, v) = Object(e)
    BY DEF RedactFields
  <2> HIDE DEF e
  <2>5. Object(e) \in JsonOf(parts)
    BY <2>3, ObjectMade
  <2> QED
    BY <1>4, <2>4, <2>5, RedactMeans
<1> QED
  BY <1>1, <1>2, <1>3, <1>4, RedactMeans

\* A field can be covered wherever there is room for one.
LEMMA PartsAreRedacted ==
    ASSUME NEW m \in 0 .. MaxNesting
    PROVE  Parts(m) # {} => Redacted \in Parts(m)
<1>1. CASE m = 0
  BY <1>1 DEF Parts
<1>2. CASE m # 0
  <2>1. m - 1 \in 0 .. MaxNesting
    BY <1>2, ParametersAssumption
  <2>2. JsonWithin[m - 1] = JsonOf(Parts(m - 1))
    BY <2>1, Nested
  <2> QED
    BY <1>2, <2>2, RedactedIs DEF Parts
<1> QED
  BY <1>1, <1>2

\* What is shown of a value nests no deeper than the value.
LEMMA RedactKeeps ==
    ASSUME NEW n \in 0 .. MaxDepth + 1
    PROVE  \A m \in 0 .. MaxNesting : \A schema \in Schemas : \A v \in JsonWithin[m] :
              RedactWithin[n][schema][v] \in JsonWithin[m]
<1> DEFINE Keeps(i) == \A m \in 0 .. MaxNesting : \A schema \in Schemas : \A v \in JsonWithin[m] :
                          RedactWithin[i][schema][v] \in JsonWithin[m]
           Good == {i \in Nat : i <= MaxDepth + 1 => Keeps(i)}
<1>1. Keeps(0)
  <2> SUFFICES ASSUME NEW m \in 0 .. MaxNesting, NEW schema \in Schemas, NEW v \in JsonWithin[m]
               PROVE  RedactWithin[0][schema][v] \in JsonWithin[m]
    OBVIOUS
  <2>1. JsonWithin[m] = JsonOf(Parts(m)) /\ v \in Json
    BY Nested
  <2>2. RedactWithin[0][schema][v] = Redacted
    BY <2>1, RedactLevels
  <2> QED
    BY <2>1, <2>2, RedactedIs
<1>2. ASSUME NEW i \in 0 .. MaxDepth, Keeps(i) PROVE Keeps(i + 1)
  <2> SUFFICES ASSUME NEW m \in 0 .. MaxNesting, NEW schema \in Schemas, NEW v \in JsonWithin[m]
               PROVE  RedactWithin[i + 1][schema][v] \in JsonWithin[m]
    OBVIOUS
  <2> DEFINE parts == Parts(m)
             below == RedactWithin[i]
  <2>1. JsonWithin[m] = JsonOf(parts) /\ v \in Json
    BY Nested
  <2>2. RedactWithin[i + 1][schema][v] = Redact(below, schema, v)
    BY <2>1, RedactLevels
  <2>3. \A s \in Schemas : \A w \in JsonOf(parts) : below[s][w] \in JsonOf(parts)
    BY <1>2, <2>1
  <2>4. \A s \in Schemas : \A w \in parts : below[s][w] \in parts
    <3>1. CASE m = 0
      BY <3>1 DEF Parts
    <3>2. CASE m # 0
      <4>1. m - 1 \in 0 .. MaxNesting
        BY <3>2, ParametersAssumption
      <4>2. parts = JsonWithin[m - 1]
        BY <3>2 DEF Parts
      <4> HIDE DEF parts
      <4> QED
        BY <1>2, <4>1, <4>2
    <3> QED
      BY <3>1, <3>2
  <2>5. parts # {} => Redacted \in parts
    BY PartsAreRedacted
  <2> HIDE DEF parts, below
  <2>6. Redact(below, schema, v) \in JsonOf(parts)
    BY <2>1, <2>3, <2>4, <2>5, RedactMakes
  <2> QED
    BY <2>1, <2>2, <2>6
<1> HIDE DEF Keeps
<1>3. 0 \in Good
  BY <1>1
<1>4. ASSUME NEW i \in Good PROVE i + 1 \in Good
  <2>1. i + 1 <= MaxDepth + 1 => i \in 0 .. MaxDepth /\ i <= MaxDepth + 1
    BY ParametersAssumption
  <2> QED
    BY <1>2, <2>1
<1>5. n \in Good
  <2>1. Good \in SUBSET Nat
    OBVIOUS
  <2> HIDE DEF Good
  <2> QED
    BY <1>3, <1>4, <2>1, OneByOne
<1>6. Keeps(n)
  BY <1>5, ParametersAssumption
<1> QED
  BY <1>6 DEF Keeps

\* What is shown of a value is a value.
LEMMA ShownIsJson ==
    ASSUME NEW n \in 0 .. MaxDepth + 1, NEW schema \in Schemas, NEW v \in Json
    PROVE  RedactWithin[n][schema][v] \in Json
<1>1. MaxNesting \in 0 .. MaxNesting
  BY ParametersAssumption
<1> QED
  BY <1>1, RedactKeeps DEF Json

-----------------------------------------------------------------------------
(***************************************************************************)
(* What is shown of a value covers parts of it and leaves the rest.        *)
(***************************************************************************)
\* w shows v or covers some of it, if the pairs of M do.
Covers(M, v, w) ==
    \/ w = Redacted
    \/ /\ v.is = "array" /\ w.is = "array" /\ DOMAIN w.s = DOMAIN v.s
       /\ \A i \in DOMAIN v.s : <<v.s[i], w.s[i]>> \in M
    \/ /\ v.is = "object" /\ w.is = "object" /\ Members(w) = Members(v)
       /\ \A k \in Members(v) : <<v.f[k], w.f[k]>> \in M
    \/ v.is \notin {"array", "object"} /\ w = v

Consistent(M) == \A v, w \in Json : <<v, w>> \in M => Covers(M, v, w)

Covering == {p \in Json \X Json : \E M \in SUBSET (Json \X Json) : p \in M /\ Consistent(M)}

\* More pairs cover more.
LEMMA CoversMore ==
    ASSUME NEW M, NEW N, M \subseteq N, NEW v, NEW w, Covers(M, v, w)
    PROVE  Covers(N, v, w)
  BY DEF Covers

\* All the pairs that some consistent set has are consistent with each other.
LEMMA CoveringIsConsistent == Consistent(Covering)
<1> SUFFICES ASSUME NEW v \in Json, NEW w \in Json, <<v, w>> \in Covering
             PROVE  Covers(Covering, v, w)
  BY DEF Consistent
<1>1. PICK M \in SUBSET (Json \X Json) : <<v, w>> \in M /\ Consistent(M)
  BY DEF Covering
<1>2. M \subseteq Covering
  BY <1>1 DEF Covering
<1>3. Covers(M, v, w)
  BY <1>1 DEF Consistent
<1> QED
  BY <1>2, <1>3, CoversMore

\* What it means to show a value or to cover some of it.
LEMMA CoveringMeans ==
    ASSUME NEW v \in Json, NEW w \in Json
    PROVE  <<v, w>> \in Covering <=> Covers(Covering, v, w)
<1>1. ASSUME <<v, w>> \in Covering PROVE Covers(Covering, v, w)
  BY <1>1, CoveringIsConsistent DEF Consistent
<1>2. ASSUME Covers(Covering, v, w) PROVE <<v, w>> \in Covering
  <2> DEFINE M == Covering \cup {<<v, w>>}
  <2>1. Covering \in SUBSET (Json \X Json)
    BY DEF Covering
  <2>2. M \in SUBSET (Json \X Json) /\ <<v, w>> \in M /\ Covering \subseteq M
    BY <2>1
  <2>3. ASSUME NEW x \in Json, NEW y \in Json, <<x, y>> \in M PROVE Covers(M, x, y)
    <3>1. CASE <<x, y>> \in Covering
      <4>1. Covers(Covering, x, y)
        BY <3>1, CoveringIsConsistent DEF Consistent
      <4> HIDE DEF M
      <4> QED
        BY <2>2, <4>1, CoversMore
    <3>2. CASE x = v /\ y = w
      <4> HIDE DEF M
      <4> QED
        BY <1>2, <2>2, <3>2, CoversMore
    <3> QED
      BY <2>3, <3>1, <3>2
  <2> HIDE DEF M
  <2>4. Consistent(M)
    BY <2>3 DEF Consistent
  <2> QED
    BY <2>2, <2>4 DEF Covering
<1> QED
  BY <1>1, <1>2

\* The parts of an array or an object are values.
LEMMA JsonParts ==
    ASSUME NEW v \in Json
    PROVE  /\ v.is = "array" =>
                 /\ v.s \in Seq(Json)
                 /\ \A i \in DOMAIN v.s : v.s[i] \in Json
           /\ v.is = "object" => \A k \in Members(v) : k \in Names /\ v.f[k] \in Json
<1> DEFINE parts == Parts(MaxNesting)
<1>1. Json = JsonOf(parts) /\ parts \subseteq Json
  BY Nested, ParametersAssumption DEF Json
<1> HIDE DEF parts
<1>2. v.is = "array" => v.s \in Seq(parts)
  BY <1>1, PartsOf
<1>3. v.is = "object" => \A k \in Members(v) : k \in Names /\ v.f[k] \in parts
  BY <1>1, PartsOf
<1>4. ASSUME v.is = "array" PROVE v.s \in Seq(Json) /\ \A i \in DOMAIN v.s : v.s[i] \in Json
  <2>1. v.s \in Seq(Json)
    BY <1>1, <1>2, <1>4
  <2> QED
    BY <2>1
<1> QED
  BY <1>1, <1>3, <1>4

\* A value shows itself.
LEMMA CoversItself ==
    ASSUME NEW v \in Json
    PROVE  <<v, v>> \in Covering
<1> DEFINE M == {p \in Json \X Json : p[1] = p[2]}
<1>1. M \in SUBSET (Json \X Json) /\ \A x, y \in Json : <<x, y>> \in M <=> x = y
  OBVIOUS
<1> HIDE DEF M
<1>2. ASSUME NEW x \in Json PROVE Covers(M, x, x)
  BY <1>1, JsonParts DEF Covers
<1>3. Consistent(M)
  BY <1>1, <1>2 DEF Consistent
<1> QED
  BY <1>1, <1>3 DEF Covering

\* One call covers more, if the calls below do.
LEMMA RedactCovers ==
    ASSUME NEW below, NEW schema \in Schemas, NEW v \in Json, NEW w \in Json,
           \A s \in Schemas : \A x \in Json : below[s][x] \in Json,
           \A s \in Schemas : \A x, y \in Json : <<x, y>> \in Covering => <<x, below[s][y]>> \in Covering,
           Redact(below, schema, w) \in Json,
           <<v, w>> \in Covering
    PROVE  <<v, Redact(below, schema, w)>> \in Covering
<1> DEFINE r == Redact(below, schema, w)
<1>0. Covers(Covering, v, w)
  BY CoveringMeans
<1>5. /\ schema.is = "anyOf" => Redact(below, schema, w) = Followed(below, w, schema.of)
      /\ schema.is = "array" /\ w.is = "array" =>
            Redact(below, schema, w) = Array([i \in DOMAIN w.s |-> below[schema.items][w.s[i]]])
      /\ schema.is = "map" /\ w.is = "object" =>
            Redact(below, schema, w) = Object([k \in Members(w) |-> below[schema.items][w.f[k]]])
      /\ schema.is = "ref" /\ w.is = "object" =>
            Redact(below, schema, w) = RedactFields(below, schema.group, w)
      /\ \/ schema.is = "anyOf"
         \/ schema.is = "array" /\ w.is = "array"
         \/ schema.is = "map" /\ w.is = "object"
         \/ schema.is = "ref" /\ w.is = "object"
         \/ Redact(below, schema, w) = w
  BY RedactMeans, Zenon
<1>1. CASE schema.is = "anyOf"
  <2> DEFINE W == {x \in Json : <<v, x>> \in Covering}
  <2>1. schema.of \in Seq(Schemas) /\ w \in W /\ \A s \in Schemas : \A x \in W : below[s][x] \in W
    BY <1>1, SchemasAre
  <2> HIDE DEF W
  <2>2. Followed(below, w, schema.of) \in W
    BY <2>1, FollowedStays
  <2> QED
    BY <1>1, <1>5, <2>2 DEF W
<1>2. CASE schema.is = "array" /\ w.is = "array"
  <2>1. r = Array([i \in DOMAIN w.s |-> below[schema.items][w.s[i]]])
    BY <1>2, <1>5
  <2>2. schema.items \in Schemas
    BY <1>2, SchemasAre
  <2>3. r.is = "array" /\ DOMAIN r.s = DOMAIN w.s /\ \A i \in DOMAIN w.s : r.s[i] = below[schema.items][w.s[i]]
    BY <2>1 DEF Array
  <2>4. v.is = "array" /\ DOMAIN w.s = DOMAIN v.s /\ \A i \in DOMAIN v.s : <<v.s[i], w.s[i]>> \in Covering
    BY <1>0, <1>2, RedactedIsJson DEF Covers
  <2> HIDE DEF r
  <2>5. \A i \in DOMAIN v.s : <<v.s[i], r.s[i]>> \in Covering
    BY <1>2, <2>2, <2>3, <2>4, JsonParts
  <2>6. Covers(Covering, v, r)
    BY <2>3, <2>4, <2>5 DEF Covers
  <2> QED
    BY <2>6, CoveringMeans DEF r
<1>3. CASE schema.is = "map" /\ w.is = "object"
  <2> DEFINE e == [k \in Members(w) |-> below[schema.items][w.f[k]]]
  <2>1. r = Object(e)
    BY <1>3, <1>5
  <2>2. schema.items \in Schemas
    BY <1>3, SchemasAre
  <2>3. Members(w) \subseteq Names /\ DOMAIN e = Members(w) /\ \A k \in Members(w) : w.f[k] \in Json /\ e[k] \in Json
    BY <1>3, <2>2, JsonParts
  <2>4. v.is = "object" /\ Members(w) = Members(v) /\ \A k \in Members(v) : <<v.f[k], w.f[k]>> \in Covering
    BY <1>0, <1>3, RedactedIsJson DEF Covers
  <2>5. \A k \in Members(w) : <<v.f[k], e[k]>> \in Covering
    BY <1>3, <2>2, <2>4, JsonParts
  <2> HIDE DEF e, r
  <2>6. Members(r) = Members(w) /\ r.is = "object" /\ \A k \in Members(w) : r.f[k] = e[k]
    <3>1. /\ Members(Object(e)) = Members(w) /\ Object(e).is = "object"
          /\ \A k \in Members(w) : Object(e).f[k] = e[k]
      <4>1. DOMAIN e \subseteq Names /\ \A k \in DOMAIN e : e[k] \in Json
        BY <2>3
      <4>2. /\ Members(Object(e)) = DOMAIN e /\ Object(e).is = "object"
            /\ \A k \in DOMAIN e : Object(e).f[k] = e[k]
        BY <4>1, MembersMade
      <4> QED
        BY <2>3, <4>2
    <3> QED
      BY <2>1, <3>1
  <2>7. Covers(Covering, v, r)
    BY <2>4, <2>5, <2>6 DEF Covers
  <2> QED
    BY <2>7, CoveringMeans DEF r
<1>4. CASE schema.is = "ref" /\ w.is = "object"
  <2> DEFINE g == schema.group
             e == [k \in Members(w) |->
                      IF k \notin DOMAIN Fields[g] THEN w.f[k]
                      ELSE IF Fields[g][k].sensitive THEN Redacted
                      ELSE below[Fields[g][k].schema][w.f[k]]]
  <2>1. r = Object(e)
    BY <1>4, <1>5 DEF RedactFields
  <2>2. \A k \in DOMAIN Fields[g] : Fields[g][k].schema \in Schemas
    BY <1>4, SchemasAre
  <2>3. Members(w) \subseteq Names /\ DOMAIN e = Members(w) /\ \A k \in Members(w) : w.f[k] \in Json /\ e[k] \in Json
    BY <1>4, <2>2, JsonParts, RedactedIsJson
  <2>4. v.is = "object" /\ Members(w) = Members(v) /\ \A k \in Members(v) : <<v.f[k], w.f[k]>> \in Covering
    BY <1>0, <1>4, RedactedIsJson DEF Covers
  <2>5. ASSUME NEW k \in Members(w) PROVE <<v.f[k], e[k]>> \in Covering
    <3>1. v.f[k] \in Json /\ w.f[k] \in Json
      BY <1>4, <2>4, JsonParts
    <3>2. CASE k \notin DOMAIN Fields[g]
      BY <2>4, <3>2
    <3>3. CASE k \in DOMAIN Fields[g] /\ Fields[g][k].sensitive
      <4>1. <<v.f[k], Redacted>> \in Covering
        BY <3>1, CoveringMeans, RedactedIsJson DEF Covers
      <4> QED
        BY <3>3, <4>1
    <3>4. CASE k \in DOMAIN Fields[g] /\ ~Fields[g][k].sensitive
      BY <2>2, <2>4, <3>1, <3>4
    <3> QED
      BY <3>2, <3>3, <3>4
  <2> HIDE DEF e, r
  <2>6. Members(r) = Members(w) /\ r.is = "object" /\ \A k \in Members(w) : r.f[k] = e[k]
    <3>1. /\ Members(Object(e)) = Members(w) /\ Object(e).is = "object"
          /\ \A k \in Members(w) : Object(e).f[k] = e[k]
      <4>1. DOMAIN e \subseteq Names /\ \A k \in DOMAIN e : e[k] \in Json
        BY <2>3
      <4>2. /\ Members(Object(e)) = DOMAIN e /\ Object(e).is = "object"
            /\ \A k \in DOMAIN e : Object(e).f[k] = e[k]
        BY <4>1, MembersMade
      <4> QED
        BY <2>3, <4>2
    <3> QED
      BY <2>1, <3>1
  <2>7. Covers(Covering, v, r)
    BY <2>4, <2>5, <2>6 DEF Covers
  <2> QED
    BY <2>7, CoveringMeans DEF r
<1> QED
  BY <1>1, <1>2, <1>3, <1>4, <1>5

\* redactValue() covers more of what it is given, whatever it was given.
LEMMA ShownIsCovered ==
    ASSUME NEW n \in 0 .. MaxDepth + 1
    PROVE  \A schema \in Schemas : \A v, w \in Json :
              <<v, w>> \in Covering => <<v, RedactWithin[n][schema][w]>> \in Covering
<1> DEFINE Covered(i) == \A schema \in Schemas : \A v, w \in Json :
                            <<v, w>> \in Covering => <<v, RedactWithin[i][schema][w]>> \in Covering
           Good == {i \in Nat : i <= MaxDepth + 1 => Covered(i)}
<1>1. Covered(0)
  <2> SUFFICES ASSUME NEW schema \in Schemas, NEW v \in Json, NEW w \in Json
               PROVE  <<v, RedactWithin[0][schema][w]>> \in Covering
    OBVIOUS
  <2>1. RedactWithin[0][schema][w] = Redacted
    BY RedactLevels
  <2>2. <<v, Redacted>> \in Covering
    BY CoveringMeans, RedactedIsJson DEF Covers
  <2> QED
    BY <2>1, <2>2
<1>2. ASSUME NEW i \in 0 .. MaxDepth, Covered(i) PROVE Covered(i + 1)
  <2> SUFFICES ASSUME NEW schema \in Schemas, NEW v \in Json, NEW w \in Json, <<v, w>> \in Covering
               PROVE  <<v, RedactWithin[i + 1][schema][w]>> \in Covering
    OBVIOUS
  <2> DEFINE below == RedactWithin[i]
  <2>1. RedactWithin[i + 1][schema][w] = Redact(below, schema, w)
    BY RedactLevels
  <2>2. i \in 0 .. MaxDepth + 1 /\ i + 1 \in 0 .. MaxDepth + 1
    BY ParametersAssumption
  <2>3. \A s \in Schemas : \A x \in Json : below[s][x] \in Json
    BY <2>2, ShownIsJson
  <2>4. Redact(below, schema, w) \in Json
    BY <2>1, <2>2, ShownIsJson
  <2>5. \A s \in Schemas : \A x, y \in Json : <<x, y>> \in Covering => <<x, below[s][y]>> \in Covering
    BY <1>2
  <2> HIDE DEF below
  <2>6. <<v, Redact(below, schema, w)>> \in Covering
    BY <2>3, <2>4, <2>5, RedactCovers
  <2> QED
    BY <2>1, <2>6
<1> HIDE DEF Covered
<1>3. 0 \in Good
  BY <1>1
<1>4. ASSUME NEW i \in Good PROVE i + 1 \in Good
  <2>1. i + 1 <= MaxDepth + 1 => i \in 0 .. MaxDepth /\ i <= MaxDepth + 1
    BY ParametersAssumption
  <2> QED
    BY <1>2, <2>1
<1>5. n \in Good
  <2>1. Good \in SUBSET Nat
    OBVIOUS
  <2> HIDE DEF Good
  <2> QED
    BY <1>3, <1>4, <2>1, OneByOne
<1>6. Covered(n)
  BY <1>5, ParametersAssumption
<1> QED
  BY <1>6 DEF Covered

-----------------------------------------------------------------------------
(***************************************************************************)
(* What is covered stays hidden, and what is shown hides what it should.   *)
(***************************************************************************)
\* Nothing more can be covered of what is.
LEMMA CoveredRedacted ==
    ASSUME NEW w \in Json, <<Redacted, w>> \in Covering
    PROVE  w = Redacted
<1>1. Covers(Covering, Redacted, w)
  BY CoveringMeans, RedactedIsJson
<1> QED
  BY <1>1, RedactedIsJson DEF Covers

\* What shows a part of an array or an object in the same place.
LEMMA CoveredParts ==
    ASSUME NEW v \in Json, NEW w \in Json, <<v, w>> \in Covering, w # Redacted
    PROVE  /\ v.is = "array" =>
                 /\ w.is = "array" /\ DOMAIN w.s = DOMAIN v.s
                 /\ \A i \in DOMAIN v.s :
                       /\ v.s[i] \in Json /\ w.s[i] \in Json
                       /\ <<v.s[i], w.s[i]>> \in Covering
           /\ v.is = "object" =>
                 /\ w.is = "object" /\ Members(w) = Members(v)
                 /\ \A k \in Members(v) :
                       /\ v.f[k] \in Json /\ w.f[k] \in Json
                       /\ <<v.f[k], w.f[k]>> \in Covering
<1>1. Covers(Covering, v, w)
  BY CoveringMeans
<1>2. ASSUME v.is = "array"
      PROVE  /\ w.is = "array" /\ DOMAIN w.s = DOMAIN v.s
             /\ \A i \in DOMAIN v.s :
                   /\ v.s[i] \in Json /\ w.s[i] \in Json
                   /\ <<v.s[i], w.s[i]>> \in Covering
  BY <1>1, <1>2, JsonParts DEF Covers
<1>3. ASSUME v.is = "object"
      PROVE  /\ w.is = "object" /\ Members(w) = Members(v)
             /\ \A k \in Members(v) :
                   /\ v.f[k] \in Json /\ w.f[k] \in Json
                   /\ <<v.f[k], w.f[k]>> \in Covering
  BY <1>1, <1>3, JsonParts DEF Covers
<1> QED
  BY <1>2, <1>3

\* The cases of what hides a value.
LEMMA HidesMeans ==
    ASSUME NEW below, NEW accepts, NEW schema, NEW v, NEW w, w # Redacted
    PROVE  /\ schema.is = "anyOf" =>
                 (Hides(below, accepts, schema, v, w) <=>
                    \A i \in DOMAIN schema.of :
                       v \in accepts[schema.of[i]] => <<v, w>> \in below[schema.of[i]])
           /\ schema.is = "array" /\ v.is = "array" =>
                 (Hides(below, accepts, schema, v, w) <=>
                    /\ w.is = "array" /\ DOMAIN w.s = DOMAIN v.s
                    /\ \A i \in DOMAIN v.s : <<v.s[i], w.s[i]>> \in below[schema.items])
           /\ schema.is = "map" /\ v.is = "object" =>
                 (Hides(below, accepts, schema, v, w) <=>
                    /\ w.is = "object" /\ Members(w) = Members(v)
                    /\ \A k \in Members(v) : <<v.f[k], w.f[k]>> \in below[schema.items])
           /\ schema.is = "ref" /\ v.is = "object" =>
                 (Hides(below, accepts, schema, v, w) <=>
                    /\ w.is = "object" /\ Members(w) = Members(v)
                    /\ \A k \in Members(v) \cap DOMAIN Fields[schema.group] :
                          IF Fields[schema.group][k].sensitive THEN w.f[k] = Redacted
                          ELSE <<v.f[k], w.f[k]>> \in below[Fields[schema.group][k].schema])
           /\ \/ schema.is = "anyOf"
              \/ schema.is = "array" /\ v.is = "array"
              \/ schema.is = "map" /\ v.is = "object"
              \/ schema.is = "ref" /\ v.is = "object"
              \/ Hides(below, accepts, schema, v, w)
  BY DEF Hides

\* Covering a value hides it.
LEMMA HidesRedacted ==
    ASSUME NEW below, NEW accepts, NEW schema, NEW v
    PROVE  Hides(below, accepts, schema, v, Redacted)
  BY DEF Hides

\* Covering more of what hides a value hides it.
LEMMA HidesMore ==
    ASSUME NEW below, NEW accepts, NEW schema \in Schemas,
           NEW v \in Json, NEW w \in Json, NEW x \in Json,
           \A s \in Schemas : \A a, b, c \in Json :
              <<a, b>> \in below[s] /\ <<b, c>> \in Covering => <<a, c>> \in below[s],
           Hides(below, accepts, schema, v, w),
           <<w, x>> \in Covering
    PROVE  Hides(below, accepts, schema, v, x)
<1>1. CASE w = Redacted
  BY <1>1, CoveredRedacted, HidesRedacted
<1>2. CASE x = Redacted
  BY <1>2, HidesRedacted
<1>3. CASE w # Redacted /\ x # Redacted
  <2>1. CASE schema.is = "anyOf"
    <3>1. \A i \in DOMAIN schema.of : schema.of[i] \in Schemas
      <4>1. schema.of \in Seq(Schemas)
        BY <2>1, SchemasAre
      <4> QED
        BY <4>1
    <3>2. \A i \in DOMAIN schema.of :
             v \in accepts[schema.of[i]] => <<v, w>> \in below[schema.of[i]]
      BY <1>3, <2>1, HidesMeans
    <3>3. \A i \in DOMAIN schema.of :
             v \in accepts[schema.of[i]] => <<v, x>> \in below[schema.of[i]]
      BY <3>1, <3>2
    <3> QED
      BY <1>3, <2>1, <3>3, HidesMeans
  <2>2. CASE schema.is = "array" /\ v.is = "array"
    <3>1. /\ w.is = "array" /\ DOMAIN w.s = DOMAIN v.s
          /\ \A i \in DOMAIN v.s : <<v.s[i], w.s[i]>> \in below[schema.items]
      BY <1>3, <2>2, HidesMeans
    <3>2. /\ x.is = "array" /\ DOMAIN x.s = DOMAIN w.s
          /\ \A i \in DOMAIN w.s :
                w.s[i] \in Json /\ x.s[i] \in Json /\ <<w.s[i], x.s[i]>> \in Covering
      BY <1>3, <3>1, CoveredParts
    <3>3. \A i \in DOMAIN v.s : v.s[i] \in Json
      BY <2>2, JsonParts
    <3>4. schema.items \in Schemas
      BY <2>2, SchemasAre
    <3>5. \A i \in DOMAIN v.s : <<v.s[i], x.s[i]>> \in below[schema.items]
      BY <3>1, <3>2, <3>3, <3>4
    <3> QED
      BY <1>3, <2>2, <3>1, <3>2, <3>5, HidesMeans
  <2>3. CASE schema.is = "map" /\ v.is = "object"
    <3>1. /\ w.is = "object" /\ Members(w) = Members(v)
          /\ \A k \in Members(v) : <<v.f[k], w.f[k]>> \in below[schema.items]
      BY <1>3, <2>3, HidesMeans
    <3>2. /\ x.is = "object" /\ Members(x) = Members(w)
          /\ \A k \in Members(w) :
                w.f[k] \in Json /\ x.f[k] \in Json /\ <<w.f[k], x.f[k]>> \in Covering
      BY <1>3, <3>1, CoveredParts
    <3>3. \A k \in Members(v) : v.f[k] \in Json
      BY <2>3, JsonParts
    <3>4. schema.items \in Schemas
      BY <2>3, SchemasAre
    <3>5. \A k \in Members(v) : <<v.f[k], x.f[k]>> \in below[schema.items]
      BY <3>1, <3>2, <3>3, <3>4
    <3> QED
      BY <1>3, <2>3, <3>1, <3>2, <3>5, HidesMeans
  <2>4. CASE schema.is = "ref" /\ v.is = "object"
    <3> DEFINE fields == Fields[schema.group]
    <3>0. \/ w = Redacted
          \/ /\ w.is = "object" /\ Members(w) = Members(v)
             /\ \A k \in Members(v) \cap DOMAIN fields :
                   IF fields[k].sensitive THEN w.f[k] = Redacted
                   ELSE <<v.f[k], w.f[k]>> \in below[fields[k].schema]
      BY <2>4 DEF Hides
    <3>1. /\ w.is = "object" /\ Members(w) = Members(v)
          /\ \A k \in Members(v) \cap DOMAIN fields :
                IF fields[k].sensitive THEN w.f[k] = Redacted
                ELSE <<v.f[k], w.f[k]>> \in below[fields[k].schema]
      BY <1>3, <3>0
    <3>2. /\ x.is = "object" /\ Members(x) = Members(w)
          /\ \A k \in Members(w) :
                w.f[k] \in Json /\ x.f[k] \in Json /\ <<w.f[k], x.f[k]>> \in Covering
      BY <1>3, <3>1, CoveredParts
    <3>3. \A k \in Members(v) : v.f[k] \in Json
      BY <2>4, JsonParts
    <3>4. \A k \in DOMAIN fields : fields[k].schema \in Schemas
      BY <2>4, SchemasAre
    <3>5. ASSUME NEW k \in Members(v) \cap DOMAIN fields
          PROVE  IF fields[k].sensitive THEN x.f[k] = Redacted
                 ELSE <<v.f[k], x.f[k]>> \in below[fields[k].schema]
      <4>1. CASE fields[k].sensitive
        BY <3>1, <3>2, <4>1, CoveredRedacted
      <4>2. CASE ~fields[k].sensitive
        BY <3>1, <3>2, <3>3, <3>4, <4>2
      <4> QED
        BY <4>1, <4>2
    <3> QED
      BY <1>3, <2>4, <3>1, <3>2, <3>5, HidesMeans
  <2> QED
    BY <1>3, <2>1, <2>2, <2>3, <2>4, HidesMeans
<1> QED
  BY <1>1, <1>2, <1>3

\* What hides a value hides it when more is covered: the alternatives that are followed after
\* the one that accepts a value uncover nothing.
LEMMA HiddenStays ==
    ASSUME NEW n \in 0 .. MaxDepth + 1
    PROVE  \A schema \in Schemas : \A v, w, x \in Json :
              <<v, w>> \in HidesWithin[n][schema] /\ <<w, x>> \in Covering =>
                 <<v, x>> \in HidesWithin[n][schema]
<1> DEFINE Stays(i) == \A schema \in Schemas : \A v, w, x \in Json :
                          <<v, w>> \in HidesWithin[i][schema] /\ <<w, x>> \in Covering =>
                             <<v, x>> \in HidesWithin[i][schema]
           Good == {i \in Nat : i <= MaxDepth + 1 => Stays(i)}
<1>1. Stays(0)
  BY HidesLevels, CoveredRedacted
<1>2. ASSUME NEW i \in 0 .. MaxDepth, Stays(i) PROVE Stays(i + 1)
  <2> SUFFICES ASSUME NEW schema \in Schemas, NEW v \in Json, NEW w \in Json, NEW x \in Json,
                      <<v, w>> \in HidesWithin[i + 1][schema], <<w, x>> \in Covering
               PROVE  <<v, x>> \in HidesWithin[i + 1][schema]
    OBVIOUS
  <2> DEFINE below == HidesWithin[i]
             accepts == AcceptsWithin[i]
  <2>1. Hides(below, accepts, schema, v, w)
    BY HidesLevels
  <2>2. \A s \in Schemas : \A a, b, c \in Json :
           <<a, b>> \in below[s] /\ <<b, c>> \in Covering => <<a, c>> \in below[s]
    BY <1>2
  <2>3. Hides(below, accepts, schema, v, x)
    <3> HIDE DEF below, accepts
    <3> QED
      BY <2>1, <2>2, HidesMore
  <2> QED
    BY <2>3, HidesLevels
<1> HIDE DEF Stays
<1>3. 0 \in Good
  BY <1>1
<1>4. ASSUME NEW i \in Good PROVE i + 1 \in Good
  <2>1. i + 1 <= MaxDepth + 1 => i \in 0 .. MaxDepth /\ i <= MaxDepth + 1
    BY ParametersAssumption
  <2> QED
    BY <1>2, <2>1
<1>5. n \in Good
  <2>1. Good \in SUBSET Nat
    OBVIOUS
  <2> HIDE DEF Good
  <2> QED
    BY <1>3, <1>4, <2>1, OneByOne
<1>6. Stays(n)
  BY <1>5, ParametersAssumption
<1> QED
  BY <1>6 DEF Stays

\* What accepts() asks of the parts of the values that have some.
LEMMA AcceptsMeans ==
    ASSUME NEW below, NEW schema, NEW v, Accepts(below, schema, v)
    PROVE  /\ schema.is = "array" /\ v.is = "array" =>
                 \A i \in DOMAIN v.s : v.s[i] \in below[schema.items]
           /\ schema.is = "map" /\ v.is = "object" =>
                 \A k \in Members(v) : v.f[k] \in below[schema.items]
           /\ schema.is = "ref" /\ v.is = "object" =>
                 \A k \in Members(v) :
                    /\ k \in DOMAIN Fields[schema.group]
                    /\ v.f[k] \in below[Fields[schema.group][k].schema]
<1>1. Null.is = "null"
  BY DEF Null
<1>2. v.is = "array" \/ v.is = "object" => v # Null
  BY <1>1
<1> QED
  BY <1>2 DEF Accepts

\* One call hides what it should if the calls below do.
LEMMA RedactHides ==
    ASSUME NEW below, NEW hides, NEW accepts, NEW schema \in Schemas, NEW v \in Json, NEW w \in Json,
           \A s \in Schemas : \A x \in Json : below[s][x] \in Json,
           \A s \in Schemas : \A x, y \in Json : <<x, y>> \in Covering => <<x, below[s][y]>> \in Covering,
           \A s \in Schemas : \A x, y, z \in Json :
              <<x, y>> \in hides[s] /\ <<y, z>> \in Covering => <<x, z>> \in hides[s],
           \A s \in Schemas : \A x, y \in Json :
              <<x, y>> \in Covering /\ x \in accepts[s] => <<x, below[s][y]>> \in hides[s],
           Redact(below, schema, w) \in Json,
           <<v, w>> \in Covering,
           Accepts(accepts, schema, v)
    PROVE  Hides(hides, accepts, schema, v, Redact(below, schema, w))
<1> DEFINE r == Redact(below, schema, w)
<1> HIDE DEF r
<1>0. /\ schema.is = "anyOf" => r = Followed(below, w, schema.of)
      /\ schema.is = "array" /\ w.is = "array" =>
            r = Array([i \in DOMAIN w.s |-> below[schema.items][w.s[i]]])
      /\ schema.is = "map" /\ w.is = "object" =>
            r = Object([k \in Members(w) |-> below[schema.items][w.f[k]]])
      /\ schema.is = "ref" /\ w.is = "object" => r = RedactFields(below, schema.group, w)
  <2>1. /\ schema.is = "anyOf" => Redact(below, schema, w) = Followed(below, w, schema.of)
        /\ schema.is = "array" /\ w.is = "array" =>
              Redact(below, schema, w) = Array([i \in DOMAIN w.s |-> below[schema.items][w.s[i]]])
        /\ schema.is = "map" /\ w.is = "object" =>
              Redact(below, schema, w) = Object([k \in Members(w) |-> below[schema.items][w.f[k]]])
        /\ schema.is = "ref" /\ w.is = "object" =>
              Redact(below, schema, w) = RedactFields(below, schema.group, w)
        /\ \/ schema.is = "anyOf"
           \/ schema.is = "array" /\ w.is = "array"
           \/ schema.is = "map" /\ w.is = "object"
           \/ schema.is = "ref" /\ w.is = "object"
           \/ Redact(below, schema, w) = w
    BY RedactMeans, Zenon
  <2> QED
    BY <2>1, Zenon DEF r
<1>1. CASE r = Redacted
  BY <1>1, HidesRedacted DEF r
<1>2. CASE w = Redacted
  <2>1. <<Redacted, Redact(below, schema, Redacted)>> \in Covering
    BY <1>2, RedactedIsJson, CoversItself, RedactCovers
  <2>2. Redact(below, schema, Redacted) = Redacted
    BY <1>2, <2>1, CoveredRedacted
  <2> QED
    BY <1>1, <1>2, <2>2 DEF r
<1>3. CASE r # Redacted /\ w # Redacted
  <2>1. CASE schema.is = "anyOf"
    <3>1. schema.of \in Seq(Schemas)
      BY <2>1, SchemasAre
    <3>2. ASSUME NEW i \in DOMAIN schema.of, v \in accepts[schema.of[i]]
          PROVE  <<v, r>> \in hides[schema.of[i]]
      <4> DEFINE q == schema.of
                 W == {x \in Json : <<v, x>> \in Covering}
                 X == {x \in W : <<v, x>> \in hides[q[i]]}
      <4>0. q \in Seq(Schemas) /\ i \in DOMAIN q /\ q[i] \in Schemas
        BY <3>1
      <4>1. w \in W /\ X \in SUBSET W
        OBVIOUS
      <4>2. \A b \in Schemas : \A x \in W : below[b][x] \in W
        OBVIOUS
      <4>3. \A b \in Schemas : \A x \in X : below[b][x] \in X
        <5> SUFFICES ASSUME NEW b \in Schemas, NEW x \in X PROVE below[b][x] \in X
          OBVIOUS
        <5>1. below[b][x] \in W /\ below[b][x] \in Json
          BY <4>2
        <5>2. <<x, below[b][x]>> \in Covering
          BY CoversItself
        <5>3. <<v, below[b][x]>> \in hides[q[i]]
          BY <4>0, <5>1, <5>2
        <5> QED
          BY <5>1, <5>3
      <4>4. \A x \in W : below[q[i]][x] \in X
        BY <3>2, <4>0, <4>2
      <4> HIDE DEF W, X, q
      <4>5. Followed(below, w, q) \in X
        BY <4>0, <4>1, <4>2, <4>3, <4>4, FollowedReaches
      <4> QED
        BY <1>0, <2>1, <4>5 DEF X, q
    <3>3. Hides(hides, accepts, schema, v, r)
      BY <1>3, <2>1, <3>2, HidesMeans
    <3> QED
      BY <3>3 DEF r
  <2>2. CASE schema.is = "array" /\ v.is = "array"
    <3>1. /\ w.is = "array" /\ DOMAIN w.s = DOMAIN v.s
          /\ \A i \in DOMAIN v.s :
                v.s[i] \in Json /\ w.s[i] \in Json /\ <<v.s[i], w.s[i]>> \in Covering
      BY <1>3, <2>2, CoveredParts
    <3>2. r.is = "array" /\ DOMAIN r.s = DOMAIN w.s /\ \A i \in DOMAIN w.s : r.s[i] = below[schema.items][w.s[i]]
      BY <1>0, <2>2, <3>1 DEF Array
    <3>3. \A i \in DOMAIN v.s : v.s[i] \in accepts[schema.items]
      BY <2>2, AcceptsMeans
    <3>4. schema.items \in Schemas
      BY <2>2, SchemasAre
    <3>5. ASSUME NEW i \in DOMAIN v.s PROVE <<v.s[i], r.s[i]>> \in hides[schema.items]
      <4>1. v.s[i] \in Json /\ w.s[i] \in Json /\ <<v.s[i], w.s[i]>> \in Covering /\ i \in DOMAIN w.s
        BY <3>1
      <4>2. <<v.s[i], below[schema.items][w.s[i]]>> \in hides[schema.items]
        BY <3>3, <3>4, <4>1
      <4> QED
        BY <3>2, <4>1, <4>2
    <3>6. Hides(hides, accepts, schema, v, r)
      BY <1>3, <2>2, <3>1, <3>2, <3>5, HidesMeans
    <3> QED
      BY <3>6 DEF r
  <2>3. CASE schema.is = "map" /\ v.is = "object"
    <3> DEFINE e == [k \in Members(w) |-> below[schema.items][w.f[k]]]
    <3>1. /\ w.is = "object" /\ Members(w) = Members(v)
          /\ \A k \in Members(v) :
                v.f[k] \in Json /\ w.f[k] \in Json /\ <<v.f[k], w.f[k]>> \in Covering
      BY <1>3, <2>3, CoveredParts
    <3>2. schema.items \in Schemas
      BY <2>3, SchemasAre
    <3>3. DOMAIN e \subseteq Names /\ \A k \in DOMAIN e : e[k] \in Json
      BY <3>1, <3>2, JsonParts
    <3>4. r = Object(e) /\ DOMAIN e = Members(w)
      BY <1>0, <2>3, <3>1
    <3>5. \A k \in Members(v) : v.f[k] \in accepts[schema.items]
      BY <2>3, AcceptsMeans
    <3>6. \A k \in Members(v) : <<v.f[k], e[k]>> \in hides[schema.items]
      BY <3>1, <3>2, <3>5
    <3> HIDE DEF e
    <3>7. Members(r) = Members(v) /\ r.is = "object" /\ \A k \in Members(v) : r.f[k] = e[k]
      <4>1. /\ Members(Object(e)) = DOMAIN e /\ Object(e).is = "object"
            /\ \A k \in DOMAIN e : Object(e).f[k] = e[k]
        BY <3>3, MembersMade
      <4> QED
        BY <3>1, <3>4, <4>1
    <3>8. \A k \in Members(v) : <<v.f[k], r.f[k]>> \in hides[schema.items]
      BY <3>6, <3>7
    <3>9. Hides(hides, accepts, schema, v, r)
      BY <1>3, <2>3, <3>7, <3>8, HidesMeans
    <3> QED
      BY <3>9 DEF r
  <2>4. CASE schema.is = "ref" /\ v.is = "object"
    <3> DEFINE fields == Fields[schema.group]
               e == [k \in Members(w) |->
                        IF k \notin DOMAIN fields THEN w.f[k]
                        ELSE IF fields[k].sensitive THEN Redacted
                        ELSE below[fields[k].schema][w.f[k]]]
    <3>1. /\ w.is = "object" /\ Members(w) = Members(v)
          /\ \A k \in Members(v) :
                v.f[k] \in Json /\ w.f[k] \in Json /\ <<v.f[k], w.f[k]>> \in Covering
      BY <1>3, <2>4, CoveredParts
    <3>2. \A k \in DOMAIN fields : fields[k].schema \in Schemas
      BY <2>4, SchemasAre
    <3>3. DOMAIN e \subseteq Names /\ \A k \in DOMAIN e : e[k] \in Json
      BY <3>1, <3>2, JsonParts, RedactedIsJson
    <3>4. r = Object(e) /\ DOMAIN e = Members(w)
      BY <1>0, <2>4, <3>1 DEF RedactFields
    <3>5. \A k \in Members(v) : k \in DOMAIN fields /\ v.f[k] \in accepts[fields[k].schema]
      BY <2>4, AcceptsMeans
    <3>6. \A k \in Members(v) :
             /\ fields[k].sensitive => e[k] = Redacted
             /\ ~fields[k].sensitive => <<v.f[k], e[k]>> \in hides[fields[k].schema]
      BY <3>1, <3>2, <3>5
    <3> HIDE DEF e
    <3>7. Members(r) = Members(v) /\ r.is = "object" /\ \A k \in Members(v) : r.f[k] = e[k]
      <4>1. /\ Members(Object(e)) = DOMAIN e /\ Object(e).is = "object"
            /\ \A k \in DOMAIN e : Object(e).f[k] = e[k]
        BY <3>3, MembersMade
      <4> QED
        BY <3>1, <3>4, <4>1
    <3>8. \A k \in Members(v) \cap DOMAIN fields :
             IF fields[k].sensitive THEN r.f[k] = Redacted
             ELSE <<v.f[k], r.f[k]>> \in hides[fields[k].schema]
      BY <3>6, <3>7
    <3>9. Hides(hides, accepts, schema, v, r)
      BY <2>4, <3>7, <3>8 DEF Hides
    <3> QED
      BY <3>9 DEF r
  <2>5. ASSUME ~(schema.is = "anyOf"), ~(schema.is = "array" /\ v.is = "array"),
               ~(schema.is = "map" /\ v.is = "object"), ~(schema.is = "ref" /\ v.is = "object")
        PROVE  Hides(hides, accepts, schema, v, r)
    BY <1>3, <2>5, HidesMeans
  <2> QED
    BY <2>1, <2>2, <2>3, <2>4, <2>5 DEF r
<1> QED
  BY <1>1, <1>2, <1>3

\* What redactValue() shows of a value that accepts() accepts hides what it should.
LEMMA ShownIsHidden ==
    ASSUME NEW n \in 0 .. MaxDepth + 1
    PROVE  \A schema \in Schemas : \A v, w \in Json :
              <<v, w>> \in Covering /\ v \in AcceptsWithin[n][schema] =>
                 <<v, RedactWithin[n][schema][w]>> \in HidesWithin[n][schema]
<1> DEFINE Hidden(i) == \A schema \in Schemas : \A v, w \in Json :
                           <<v, w>> \in Covering /\ v \in AcceptsWithin[i][schema] =>
                              <<v, RedactWithin[i][schema][w]>> \in HidesWithin[i][schema]
           Good == {i \in Nat : i <= MaxDepth + 1 => Hidden(i)}
<1>1. Hidden(0)
  BY AcceptsLevels
<1>2. ASSUME NEW i \in 0 .. MaxDepth, Hidden(i) PROVE Hidden(i + 1)
  <2> SUFFICES ASSUME NEW schema \in Schemas, NEW v \in Json, NEW w \in Json,
                      <<v, w>> \in Covering, v \in AcceptsWithin[i + 1][schema]
               PROVE  <<v, RedactWithin[i + 1][schema][w]>> \in HidesWithin[i + 1][schema]
    OBVIOUS
  <2> DEFINE below == RedactWithin[i]
             hides == HidesWithin[i]
             accepts == AcceptsWithin[i]
  <2>1. i \in 0 .. MaxDepth + 1 /\ i + 1 \in 0 .. MaxDepth + 1
    BY ParametersAssumption
  <2>2. RedactWithin[i + 1][schema][w] = Redact(below, schema, w)
    BY RedactLevels
  <2>3. Accepts(accepts, schema, v)
    BY AcceptsLevels
  <2>4. \A s \in Schemas : \A x \in Json : below[s][x] \in Json
    BY <2>1, ShownIsJson
  <2>5. \A s \in Schemas : \A x, y \in Json : <<x, y>> \in Covering => <<x, below[s][y]>> \in Covering
    BY <2>1, ShownIsCovered
  <2>6. \A s \in Schemas : \A x, y, z \in Json :
           <<x, y>> \in hides[s] /\ <<y, z>> \in Covering => <<x, z>> \in hides[s]
    BY <2>1, HiddenStays
  <2>7. \A s \in Schemas : \A x, y \in Json :
           <<x, y>> \in Covering /\ x \in accepts[s] => <<x, below[s][y]>> \in hides[s]
    BY <1>2
  <2>8. Redact(below, schema, w) \in Json
    BY <2>1, <2>2, ShownIsJson
  <2>9. Hides(hides, accepts, schema, v, Redact(below, schema, w))
    <3> HIDE DEF below, hides, accepts
    <3> QED
      BY <2>3, <2>4, <2>5, <2>6, <2>7, <2>8, RedactHides
  <2> QED
    BY <2>2, <2>8, <2>9, HidesLevels
<1> HIDE DEF Hidden
<1>3. 0 \in Good
  BY <1>1
<1>4. ASSUME NEW i \in Good PROVE i + 1 \in Good
  <2>1. i + 1 <= MaxDepth + 1 => i \in 0 .. MaxDepth /\ i <= MaxDepth + 1
    BY ParametersAssumption
  <2> QED
    BY <1>2, <2>1
<1>5. n \in Good
  <2>1. Good \in SUBSET Nat
    OBVIOUS
  <2> HIDE DEF Good
  <2> QED
    BY <1>3, <1>4, <2>1, OneByOne
<1>6. Hidden(n)
  BY <1>5, ParametersAssumption
<1> QED
  BY <1>6 DEF Hidden

-----------------------------------------------------------------------------
(***************************************************************************)
(* The parameters a client keeps.                                          *)
(***************************************************************************)
IsFields(values) == values = [f \in DOMAIN values |-> values[f]]

\* The object is of a group that there is.
ObjectIsOfGroup == object.group \in DOMAIN Fields /\ IsFields(object.values)

\* What is kept was valid when it was put there, and stays so.
ControlIsValid ==
    \A g \in DOMAIN control :
       g \in DOMAIN Fields /\ IsFields(control[g]) /\ Valid(g, control[g])

ParametersInv ==
    /\ ObjectIsOfGroup
    /\ ControlIsValid
    /\ RedactionIsComplete

\* An export without defaults has the fields that the object has.
LEMMA NativeIsSame ==
    ASSUME NEW g, NEW values, IsFields(values)
    PROVE  ToNativeJson(g, values, FALSE, FALSE) = values
<1>1. ToNativeJson(g, values, FALSE, FALSE) = [f \in DOMAIN values |-> values[f]]
  BY DEF ToNativeJson
<1> QED
  BY <1>1 DEF IsFields

\* It is what redactValue() does that makes an export complete, whatever the object.
LEMMA RedactionComplete ==
    ASSUME object.group \in DOMAIN Fields
    PROVE  RedactionIsComplete
<1> DEFINE g == object.group
           values == object.values
           shown == ToNativeJson(g, values, FALSE, TRUE)
<1> SUFFICES ASSUME Valid(g, values), NEW f \in DOMAIN values
             PROVE  IF Fields[g][f].sensitive THEN shown[f] = Redacted
                    ELSE <<values[f], shown[f]>> \in HidesWithin[Levels][Fields[g][f].schema]
  BY DEF RedactionIsComplete
<1>1. f \in DOMAIN Fields[g] /\ values[f] \in AcceptsWithin[Levels][Fields[g][f].schema]
  BY DEF Valid, ValueOk
<1>2. Fields[g][f].schema \in Schemas
  BY <1>1, ParametersAssumption
<1>3. MaxDepth \in 0 .. MaxDepth /\ MaxDepth + 1 \in 0 .. MaxDepth + 1
  BY ParametersAssumption
<1>4. values[f] \in Json
  <2>1. AcceptsWithin[MaxDepth + 1][Fields[g][f].schema] \subseteq Json
    BY <1>2, <1>3, AcceptsLevels
  <2> QED
    BY <1>1, <2>1 DEF Levels
<1>5. shown[f] = IF Fields[g][f].sensitive THEN Redacted
                 ELSE RedactWithin[Levels][Fields[g][f].schema][values[f]]
  BY DEF ToNativeJson
<1>6. <<values[f], RedactWithin[Levels][Fields[g][f].schema][values[f]]>>
         \in HidesWithin[Levels][Fields[g][f].schema]
  <2>1. Levels \in 0 .. MaxDepth + 1
    BY <1>3 DEF Levels
  <2> QED
    BY <1>1, <1>2, <1>4, <2>1, CoversItself, ShownIsHidden
<1> QED
  BY <1>5, <1>6

LEMMA ParametersStart == AgentInit => ParametersInv
<1> SUFFICES ASSUME AgentInit PROVE ParametersInv
  OBVIOUS
<1>1. PICK g \in DOMAIN Fields : object = [group |-> g, values |-> NoFields]
  BY DEF AgentInit, ParametersInit
<1>2. control = NoFields /\ DOMAIN NoFields = {} /\ IsFields(NoFields)
  BY DEF AgentInit, ParametersInit, NoFields, IsFields
<1>3. ObjectIsOfGroup
  BY <1>1, <1>2 DEF ObjectIsOfGroup
<1>4. ControlIsValid
  BY <1>2 DEF ControlIsValid
<1>5. RedactionIsComplete
  BY <1>3, RedactionComplete DEF ObjectIsOfGroup
<1> QED
  BY <1>3, <1>4, <1>5 DEF ParametersInv

LEMMA EditKeeps ==
    ASSUME ObjectIsOfGroup, ControlIsValid,
           \/ \E g \in DOMAIN Fields : NewObject(g) \/ Take(g)
           \/ \E f \in DOMAIN Fields[object.group] : Unset(f) \/ \E v \in Values : Set(f, v)
    PROVE  ObjectIsOfGroup' /\ ControlIsValid'
<1>1. control' = control
  BY DEF NewObject, Take, Unset, Set
<1>2. ControlIsValid'
  BY <1>1 DEF ControlIsValid
<1>3. ASSUME NEW g \in DOMAIN Fields, NewObject(g) PROVE ObjectIsOfGroup'
  BY <1>3 DEF NewObject, ObjectIsOfGroup, NoFields, IsFields
<1>4. ASSUME NEW g \in DOMAIN Fields, Take(g) PROVE ObjectIsOfGroup'
  BY <1>4 DEF Take, ObjectIsOfGroup, ControlIsValid
<1>5. ASSUME NEW f, Unset(f) PROVE ObjectIsOfGroup'
  <2> DEFINE values == [k \in DOMAIN object.values \ {f} |-> object.values[k]]
  <2>1. IsFields(values)
    BY DEF IsFields
  <2>2. object'.values = values /\ object'.group = object.group
    BY <1>5 DEF Unset
  <2> QED
    BY <2>1, <2>2 DEF ObjectIsOfGroup
<1>6. ASSUME NEW f, NEW v, Set(f, v) PROVE ObjectIsOfGroup'
  <2> DEFINE values == [k \in {f} \cup DOMAIN object.values |-> IF k = f THEN v ELSE object.values[k]]
  <2>1. IsFields(values)
    BY DEF IsFields
  <2>2. object'.values = values /\ object'.group = object.group
    BY <1>6 DEF Set
  <2> QED
    BY <2>1, <2>2 DEF ObjectIsOfGroup
<1> QED
  BY <1>2, <1>3, <1>4, <1>5, <1>6

\* ControlParameters::set() keeps an object as it is, if it is valid.
LEMMA KeptAsItIs ==
    ASSUME NEW o, IsFields(o.values), NEW kept \in KeptOf(o)
    PROVE  /\ o.group \in DOMAIN Fields /\ Valid(o.group, o.values)
           /\ kept.group = o.group /\ kept.values = o.values
<1>1. Valid(o.group, o.values)
  BY DEF KeptOf
<1>2. kept \in FromNativeJson(o.group, o.values)
  <2>1. ToNativeJson(o.group, o.values, FALSE, FALSE) = o.values
    BY NativeIsSame
  <2> QED
    BY <1>1, <2>1 DEF KeptOf
<1> QED
  BY <1>1, <1>2 DEF FromNativeJson

LEMMA KeepKeeps ==
    ASSUME ObjectIsOfGroup, ControlIsValid, Keep
    PROVE  ObjectIsOfGroup' /\ ControlIsValid'
<1>1. PICK kept \in KeptOf(object) :
         control' = [h \in {kept.group} \cup DOMAIN control |->
                       IF h = kept.group THEN kept.values ELSE control[h]]
  BY DEF Keep
<1>2. IsFields(object.values)
  BY DEF ObjectIsOfGroup
<1>3. /\ object.group \in DOMAIN Fields /\ Valid(object.group, object.values)
      /\ kept.group = object.group /\ kept.values = object.values
  BY <1>2, KeptAsItIs
<1>4. ControlIsValid'
  <2> SUFFICES ASSUME NEW h \in DOMAIN control'
               PROVE  h \in DOMAIN Fields /\ IsFields(control'[h]) /\ Valid(h, control'[h])
    BY DEF ControlIsValid
  <2>1. h \in {kept.group} \cup DOMAIN control
        /\ control'[h] = IF h = kept.group THEN kept.values ELSE control[h]
    BY <1>1
  <2>2. CASE h = kept.group
    BY <1>2, <1>3, <2>1, <2>2
  <2>3. CASE h # kept.group
    BY <2>1, <2>3 DEF ControlIsValid
  <2> QED
    BY <2>2, <2>3
<1>5. ObjectIsOfGroup'
  BY DEF Keep, ObjectIsOfGroup
<1> QED
  BY <1>4, <1>5

LEMMA ReadKeeps ==
    ASSUME ObjectIsOfGroup, ControlIsValid, NEW g, NEW json, IsFields(json), Read(g, json)
    PROVE  ObjectIsOfGroup' /\ ControlIsValid'
<1>1. PICK read \in FromNativeJson(g, json) :
         \E kept \in KeptOf(read) : control' = [h \in {kept.group} |-> kept.values]
  BY DEF Read
<1>2. PICK kept \in KeptOf(read) : control' = [h \in {kept.group} |-> kept.values]
  BY <1>1
<1>3. IsFields(read.values)
  BY <1>1 DEF FromNativeJson
<1>4. /\ read.group \in DOMAIN Fields /\ Valid(read.group, read.values)
      /\ kept.group = read.group /\ kept.values = read.values
  BY <1>3, KeptAsItIs
<1>5. ControlIsValid'
  BY <1>2, <1>3, <1>4 DEF ControlIsValid
<1>6. ObjectIsOfGroup'
  BY DEF Read, ObjectIsOfGroup
<1> QED
  BY <1>5, <1>6

LEMMA StartKeeps ==
    ASSUME NEW tools, NEW choice, NEW parallel, NEW system, Start(tools, choice, parallel, system)
    PROVE  ObjectIsOfGroup' /\ ControlIsValid'
<1>1. GenerationOptionsFrom(object.group, object.values) # {}
  BY DEF Start, Begin
<1>2. GenerationOptions \in DOMAIN Fields
  BY <1>1 DEF GenerationOptionsFrom, FromNativeJson
<1>3. object' = [group |-> GenerationOptions, values |-> NoFields] /\ control' = NoFields
  BY DEF Start
<1>4. DOMAIN NoFields = {} /\ IsFields(NoFields)
  BY DEF NoFields, IsFields
<1> QED
  BY <1>2, <1>3, <1>4 DEF ObjectIsOfGroup, ControlIsValid

LEMMA ParametersStep ==
    ASSUME ObjectIsOfGroup, ControlIsValid, [AgentNext]_<<parameterVars, vars>>
    PROVE  ParametersInv'
<1>1. ObjectIsOfGroup' /\ ControlIsValid'
  <2>1. CASE UNCHANGED parameterVars
    BY <2>1 DEF parameterVars, ObjectIsOfGroup, ControlIsValid
  <2>2. CASE ParametersNext
    <3>1. ASSUME NEW g \in DOMAIN Fields, NEW fields \in SUBSET DOMAIN Fields[g], NEW v \in Values,
                 Read(g, [f \in fields |-> v])
          PROVE  ObjectIsOfGroup' /\ ControlIsValid'
      <4>1. IsFields([f \in fields |-> v])
        BY DEF IsFields
      <4> QED
        BY <3>1, <4>1, ReadKeeps
    <3> QED
      BY <2>2, <3>1, EditKeeps, KeepKeeps DEF ParametersNext
  <2>3. CASE \E tools, choice, parallel, system : Start(tools, choice, parallel, system)
    BY <2>3, StartKeeps
  <2> QED
    BY <2>1, <2>2, <2>3 DEF AgentNext, Prepare
<1>2. RedactionIsComplete'
  <2>1. RedactionIsComplete'
    BY <1>1, RedactionComplete, PTL DEF ObjectIsOfGroup
  <2> QED
    BY <2>1
<1> QED
  BY <1>1, <1>2 DEF ParametersInv

\* The object being edited is always of a group that there is, and the control parameters are
\* always valid, whichever way they came in: ParameterObject and ControlParameters.
THEOREM ParametersInvariant == AgentSpec => []ParametersInv
<1>1. ParametersInv /\ [AgentNext]_<<parameterVars, vars>> => ParametersInv'
  BY ParametersStep DEF ParametersInv
<1> QED
  BY <1>1, ParametersStart, PTL DEF AgentSpec

\* toNativeJson() with redact shows no sensitive field of a valid object, for any groups and
\* schemas, any values however nested, and any limit of the depth.
THEOREM RedactionHolds == AgentSpec => []RedactionIsComplete
<1>1. ParametersInv => RedactionIsComplete
  BY DEF ParametersInv
<1> QED
  BY <1>1, ParametersInvariant, PTL

\* Nor is the history of a client refused that edits its parameters first, and takes its
\* generation options from them.
THEOREM AgentHistoryHolds == AgentSpec => []HistoryStaysValid
<1>1. AgentInit => Init
  BY DEF AgentInit
<1>2. [AgentNext]_<<parameterVars, vars>> => [Next]_vars
  BY DEF AgentNext, Prepare, Start, Next, vars
<1> QED
  BY <1>1, <1>2, HistoryHolds, PTL DEF AgentSpec, Spec
=============================================================================
