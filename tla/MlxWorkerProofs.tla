-------------------------- MODULE MlxWorkerProofs --------------------------
(***************************************************************************)
(* Proofs, for any contexts, prompts and token limits, of what MlxWorker's *)
(* runs check on a few: that a call reads its own answer although lines    *)
(* carry no request numbers, and that the token cache is reused exactly.   *)
(*                                                                         *)
(* The first rests on what is on its way between the service and the       *)
(* process: while a call waits, either its request is still there and only *)
(* deltas came back, or the request is gone and one last line ends what    *)
(* came back.                                                              *)
(***************************************************************************)
EXTENDS MlxWorker, SequenceTheorems, FiniteSetTheorems, WellFoundedInduction, TLAPS

-----------------------------------------------------------------------------
(* The inductive invariant.                                                *)

Ctx == Contexts \cup {NoContext}
Ops == {"none", "load", "tokenize", "generate", "drop"}
Texts == Seq(Tokens)
Jobs == [op : Ops, ctx : Ctx, prompt : Texts]
Lines == [type : {"result", "delta", "error"}, mine : BOOLEAN]
Requests == [op : Ops, ctx : Ctx, prompt : Texts, mine : BOOLEAN]
Gens == [all : Texts, kept : Texts, reused : Nat]
Kept == [tokens : Texts, cache : Texts]
Caches == UNION {[D -> Kept] : D \in SUBSET Ctx}
Procs == [state : {"none", "up", "dead", "killed"}, loaded : BOOLEAN, entries : Caches, gen : Gens]

ServiceTypes ==
    /\ model \in BOOLEAN /\ contexts \subseteq Contexts /\ job \in Jobs
    /\ at \in {"rest", "begin", "wait", "parse"} /\ calling \in Ops
    /\ cancelled \in BOOLEAN /\ late \in BOOLEAN /\ running \in BOOLEAN

LineTypes == input \in Seq(Lines) /\ stdout \in Seq(Lines) /\ requests \in Seq(Requests)

TypeOK == ServiceTypes /\ LineTypes /\ proc \in Procs

InCall == at \in {"wait", "parse"}
Up == proc.state = "up"

\* The job that the service's thread is at, and the call it makes for it.
JobRules ==
    /\ at = "rest" => job.op = "none"
    /\ job.op = "generate" => job.ctx \in contexts /\ job.prompt # <<>>
    /\ InCall => calling \in {job.op, "load"}

\* A process that is not up knows and does nothing; one that is up is known to be running.
ProcRules ==
    /\ Up => running
    /\ proc.state = "none" => ~running /\ ~InCall
    /\ ~Up => requests = <<>> /\ ~proc.loaded /\ proc.entries = <<>> /\ proc.gen = NoGen

\* Lines of a call, without or with the one that ends it.
Open(s) == \A i \in 1 .. Len(s) : s[i].type = "delta"
Closed(s) == /\ Len(s) > 0
             /\ \A i \in 1 .. Len(s) : i < Len(s) <=> s[i].type = "delta"

\* What is on its way to the service ends the call, with this line.
Ends(type) ==
    \/ Closed(input) /\ stdout = <<>> /\ input[Len(input)].type = type
    \/ Open(input) /\ Closed(stdout) /\ stdout[Len(stdout)].type = type
Ended == Ends("result") \/ Ends("error")

Mine(s) == \A i \in 1 .. Len(s) : s[i].mine

\* The request of the call, which asks for what the job wants.
OwnRequest ==
    /\ Len(requests) = 1
    /\ requests[1].mine
    /\ requests[1].op = calling
    /\ calling # "load" => requests[1].ctx = job.ctx /\ requests[1].prompt = job.prompt

\* What is on its way between the two, unless stop() has left a process behind.
Flow ==
    /\ ~InCall => input = <<>> /\ stdout = <<>> /\ requests = <<>> /\ (Up => proc.loaded)
                  /\ proc.gen = NoGen
    /\ InCall => /\ Mine(input) /\ Mine(stdout)
                 /\ \/ Open(input) /\ Open(stdout) /\ (Up => requests # <<>>)
                    \/ Ended /\ requests = <<>> /\ proc.gen = NoGen
                 /\ requests # <<>> => OwnRequest
                 /\ Up /\ ~proc.loaded => calling = "load" /\ ~Ends("result")

\* A generation under way goes on from what its prompt begins with.
GenRules ==
    proc.gen # NoGen =>
        /\ requests # <<>>
        /\ requests[1].op = "generate"
        /\ proc.gen.reused < Len(requests[1].prompt)
        /\ proc.gen.kept = SubSeq(requests[1].prompt, 1, proc.gen.reused)
        /\ Len(requests[1].prompt) <= Len(proc.gen.all)
        /\ \A i \in 1 .. Len(requests[1].prompt) : proc.gen.all[i] = requests[1].prompt[i]

\* The contexts that the process may have an entry for.
Known == contexts \cup (IF InCall /\ calling = "drop" /\ ~Ends("result") THEN {job.ctx} ELSE {})

EntryRules ==
    /\ \A c \in DOMAIN proc.entries : proc.entries[c].tokens = proc.entries[c].cache
    /\ Up => DOMAIN proc.entries \subseteq Known

\* A process that is gone when it was killed leaves nothing to read.
KillRules ==
    PromptKill /\ proc.state = "killed" => ~running /\ ~InCall /\ input = <<>> /\ stdout = <<>>

IndInv ==
    /\ TypeOK
    /\ JobRules
    /\ ProcRules
    /\ proc.state # "killed" => Flow
    /\ GenRules
    /\ EntryRules
    /\ KillRules

-----------------------------------------------------------------------------
(* Types.                                                                  *)

LEMMA Nothing ==
    /\ Stale(<<>>) = <<>> /\ Len(<<>>) = 0
    /\ \A S : <<>> \in Seq(S)
    /\ \A S : \A s \in Seq(S) : (s = <<>> <=> Len(s) = 0) /\ Len(s) \in Nat
  BY EmptySeq, LenProperties DEF Stale

LEMMA StaleTypes ==
    /\ \A s \in Seq(Lines) : Stale(s) \in Seq(Lines)
    /\ \A s \in Seq(Requests) : Stale(s) \in Seq(Requests)
<1>1. ASSUME NEW s \in Seq(Lines) PROVE Stale(s) \in Seq(Lines)
  <2>1. DOMAIN s = 1 .. Len(s) /\ Len(s) \in Nat /\ \A i \in 1 .. Len(s) : s[i] \in Lines
    BY LenProperties, ElementOfSeq
  <2>2. \A i \in 1 .. Len(s) : [s[i] EXCEPT !.mine = FALSE] \in Lines
    BY <2>1 DEF Lines
  <2> QED
    BY <2>1, <2>2 DEF Stale
<1>2. ASSUME NEW s \in Seq(Requests) PROVE Stale(s) \in Seq(Requests)
  <2>1. DOMAIN s = 1 .. Len(s) /\ Len(s) \in Nat /\ \A i \in 1 .. Len(s) : s[i] \in Requests
    BY LenProperties, ElementOfSeq
  <2>2. \A i \in 1 .. Len(s) : [s[i] EXCEPT !.mine = FALSE] \in Requests
    BY <2>1 DEF Requests
  <2> QED
    BY <2>1, <2>2 DEF Stale
<1> QED
  BY <1>1, <1>2

LEMMA CacheTypes ==
    /\ <<>> \in Caches /\ DOMAIN <<>> = {}
    /\ \A e \in Caches : DOMAIN e \subseteq Ctx /\ \A c \in DOMAIN e : e[c] \in Kept
    /\ \A e \in Caches : \A c : /\ Without(e, c) \in Caches
                               /\ DOMAIN Without(e, c) = DOMAIN e \ {c}
                               /\ \A k \in DOMAIN e \ {c} : Without(e, c)[k] = e[k]
    /\ \A e \in Caches : \A c \in Ctx, x \in Kept :
          /\ With(e, c, x) \in Caches
          /\ DOMAIN With(e, c, x) = DOMAIN e \cup {c}
          /\ \A k \in DOMAIN e \cup {c} : With(e, c, x)[k] = IF k = c THEN x ELSE e[k]
<1>1. DOMAIN <<>> = {} /\ <<>> \in [{} -> Kept]
  OBVIOUS
<1>2. <<>> \in Caches
  BY <1>1 DEF Caches
<1>3. ASSUME NEW e \in Caches
      PROVE  e \in [DOMAIN e -> Kept] /\ DOMAIN e \subseteq Ctx
  BY DEF Caches
<1>4. ASSUME NEW e \in Caches, NEW c
      PROVE  /\ Without(e, c) \in Caches
             /\ DOMAIN Without(e, c) = DOMAIN e \ {c}
             /\ \A k \in DOMAIN e \ {c} : Without(e, c)[k] = e[k]
  <2>1. Without(e, c) \in [DOMAIN e \ {c} -> Kept] /\ DOMAIN e \ {c} \subseteq Ctx
    BY <1>3 DEF Without
  <2>2. Without(e, c) \in Caches
    BY <2>1 DEF Caches
  <2> QED
    BY <2>2 DEF Without
<1>5. ASSUME NEW e \in Caches, NEW c \in Ctx, NEW x \in Kept
      PROVE  /\ With(e, c, x) \in Caches
             /\ DOMAIN With(e, c, x) = DOMAIN e \cup {c}
             /\ \A k \in DOMAIN e \cup {c} : With(e, c, x)[k] = IF k = c THEN x ELSE e[k]
  <2>2. With(e, c, x) \in [DOMAIN e \cup {c} -> Kept] /\ DOMAIN e \cup {c} \subseteq Ctx
    BY <1>3 DEF With
  <2>3. With(e, c, x) \in Caches
    BY <2>2 DEF Caches
  <2> QED
    BY <2>3 DEF With
<1> QED
  BY <1>1, <1>2, <1>3, <1>4, <1>5

LEMMA ProcessType ==
    /\ NoGen \in Gens
    /\ \A st \in {"none", "up", "dead", "killed"} :
          /\ Process(st) \in Procs
          /\ Process(st).state = st /\ ~Process(st).loaded
          /\ Process(st).entries = <<>> /\ Process(st).gen = NoGen
  BY Nothing, CacheTypes DEF Process, Procs, NoGen, Gens, Texts

LEMMA JobTypes ==
    /\ NoJob \in Jobs /\ NoJob.op = "none"
    /\ \A op \in Ops, c \in Ctx, prompt \in Texts :
          /\ Job(op, c, prompt) \in Jobs
          /\ Job(op, c, prompt).op = op /\ Job(op, c, prompt).ctx = c
          /\ Job(op, c, prompt).prompt = prompt
    /\ \A j \in Jobs : /\ Request(j) \in Requests /\ Request(j).mine
                       /\ Request(j).op = j.op /\ Request(j).ctx = j.ctx
                       /\ Request(j).prompt = j.prompt
    /\ NoContext \in Ctx /\ Contexts \subseteq Ctx /\ <<>> \in Texts
  BY Nothing DEF NoJob, Job, Jobs, Request, Requests, Ops, Ctx, Texts

\* Next, action by action.
LEMMA NextCases ==
    ASSUME [Next]_vars
    PROVE  \/ Load \/ Tokenize \/ Unload \/ Cancel \/ Expire
           \/ \E c \in Contexts : CreateContext(c)
           \/ \E c \in Contexts : DropContext(c)
           \/ \E c \in Contexts, prompt \in Prompts : Generate(c, prompt)
           \/ StartRunning \/ Spawn \/ PollRead \/ ParseResult \/ ParseDelta \/ ParseDone
           \/ StartFails \/ PollInterrupted \/ ParseFailure \/ ParseExited
           \/ ParseLastDelta
           \/ HandleLoad \/ HandleTokenize \/ HandleDrop \/ Raise \/ Crash
           \/ \E b \in BOOLEAN : HandleGenerate(b)
           \/ \E token \in Tokens, b \in BOOLEAN : GenerateToken(token, b)
           \/ \E b \in BOOLEAN, usable \in BOOLEAN : GenerateEnd(b, usable)
           \/ UNCHANGED vars
  BY DEF Next, Service, Call, Python

\* What stop() leaves behind.
LEMMA StopEffect ==
    ASSUME TypeOK, NEW destroyed \in BOOLEAN, Stop(destroyed)
    PROVE  /\ input' = <<>> /\ requests' = <<>> /\ stdout' \in {stdout, <<>>}
           /\ running' \in BOOLEAN /\ (~running => ~running') /\ (~running' => stdout' = <<>>)
           /\ PromptKill \/ proc.state = "dead" => ~running'
           /\ IF running /\ Up THEN proc' = Process("killed") ELSE proc' = proc
<1> USE DEF Stop, Up
<1>1. /\ input' = <<>> /\ requests' = <<>> /\ stdout' = IF running' THEN stdout ELSE <<>>
      /\ IF running /\ Up THEN proc' = Process("killed") ELSE proc' = proc
  OBVIOUS
<1>2. running' \in IF running /\ ~PromptKill /\ ~destroyed /\ proc.state # "dead"
                   THEN BOOLEAN ELSE {FALSE}
  OBVIOUS
<1>3. CASE running /\ ~PromptKill /\ ~destroyed /\ proc.state # "dead"
  BY <1>1, <1>2, <1>3
<1>4. CASE ~(running /\ ~PromptKill /\ ~destroyed /\ proc.state # "dead")
  <2>1. running' = FALSE
    BY <1>2, <1>4
  <2> QED
    BY <1>1, <2>1
<1> QED
  BY <1>3, <1>4

\* The four ways in which an error leaves call() or start(), and the one in which the client
\* has enough.
LEMMA CallStops ==
    ASSUME TypeOK, StartFails \/ PollInterrupted \/ ParseFailure \/ ParseExited \/ ParseLastDelta
    PROVE  /\ \E destroyed \in BOOLEAN : Stop(destroyed)
           /\ job' = NoJob /\ at' = "rest" /\ calling' = "none" /\ ~cancelled' /\ ~late'
           /\ contexts' = contexts /\ model' \in BOOLEAN
<1>1. CASE StartFails \/ PollInterrupted \/ ParseFailure \/ ParseExited
  <2>1. Throw
    BY <1>1 DEF StartFails, PollInterrupted, ParseFailure, ParseExited
  <2>2. (job.op = "load") \in BOOLEAN
    OBVIOUS
  <2> QED
    BY <2>1, <2>2 DEF Throw, End
<1>2. CASE ParseLastDelta
  BY <1>2 DEF ParseLastDelta, End, TypeOK, ServiceTypes
<1> QED
  BY <1>1, <1>2

LEMMA TypeInit ==
    Init => TypeOK
<1> SUFFICES ASSUME Init
             PROVE  TypeOK
  OBVIOUS
<1>1. ServiceTypes
  BY JobTypes DEF Init, ServiceTypes, Ops
<1>2. LineTypes
  BY Nothing DEF Init, LineTypes
<1>3. proc \in Procs
  BY ProcessType DEF Init
<1> QED
  BY <1>1, <1>2, <1>3 DEF TypeOK

LEMMA ServiceTypeStep ==
    ASSUME TypeOK, [Next]_vars
    PROVE  ServiceTypes'
<1> USE DEF TypeOK, ServiceTypes, jobVars
<1>0. job.op \in Ops /\ "none" \in Ops /\ "load" \in Ops /\ "drop" \in Ops
  BY DEF Jobs, Ops
<1>1. CASE Load \/ Tokenize
  <2>1. Job("load", NoContext, <<>>) \in Jobs /\ Job("tokenize", NoContext, <<>>) \in Jobs
    BY JobTypes DEF Ops
  <2> QED
    BY <1>1, <2>1 DEF Load, Tokenize, Begin
<1>2. ASSUME NEW c \in Contexts, CreateContext(c) PROVE ServiceTypes'
  BY <1>2 DEF CreateContext
<1>3. ASSUME NEW c \in Contexts, DropContext(c) PROVE ServiceTypes'
  <2>1. Job("drop", c, <<>>) \in Jobs /\ Job("drop", c, <<>>).op = "drop"
    BY <1>0, JobTypes
  <2> QED
    BY <1>0, <1>3, <2>1 DEF DropContext, Write
<1>4. ASSUME NEW c \in Contexts, NEW prompt \in Prompts, Generate(c, prompt) PROVE ServiceTypes'
  <2>1. Job("generate", c, prompt) \in Jobs
    BY JobTypes, MlxAssumption DEF Ops, Texts
  <2> QED
    BY <1>4, <2>1 DEF Generate, Begin
<1>5. CASE Unload
  BY <1>5, StopEffect DEF Unload
<1>6. CASE Cancel \/ Expire \/ ParseDelta \/ ParseDone
  BY <1>6 DEF Cancel, Expire, ParseDelta, ParseDone
<1>7. CASE StartRunning
  BY <1>0, <1>7 DEF StartRunning, Write
<1>8. CASE Spawn
  BY <1>0, <1>8 DEF Spawn
<1>9. CASE PollRead
  <2>1. running' \in BOOLEAN
    BY <1>9 DEF PollRead
  <2> QED
    BY <1>9, <2>1 DEF PollRead
<1>10. CASE ParseResult
  <2>1. UNCHANGED <<model, contexts, running>>
    BY <1>10 DEF ParseResult
  <2>2. CASE End
    BY <1>0, <2>1, <2>2, JobTypes DEF End
  <2>3. CASE Write(job) /\ UNCHANGED <<job, cancelled>>
    BY <1>0, <2>1, <2>3 DEF Write
  <2> QED
    BY <1>10, <2>2, <2>3 DEF ParseResult
<1>11. CASE StartFails \/ PollInterrupted \/ ParseFailure \/ ParseExited \/ ParseLastDelta
  <2>1. running' \in BOOLEAN /\ NoJob \in Jobs
    BY <1>11, CallStops, StopEffect, JobTypes
  <2>2. /\ job' = NoJob /\ at' = "rest" /\ calling' = "none" /\ ~cancelled' /\ ~late'
        /\ contexts' = contexts /\ model' \in BOOLEAN /\ cancelled' \in BOOLEAN /\ late' \in BOOLEAN
    <3>1. cancelled' \in BOOLEAN /\ late' \in BOOLEAN
      BY <1>11 DEF StartFails, PollInterrupted, ParseFailure, ParseExited, ParseLastDelta, Throw, End
    <3> QED
      BY <1>11, <3>1, CallStops
  <2> QED
    BY <1>0, <2>1, <2>2
<1>12. CASE \/ HandleLoad \/ HandleTokenize \/ HandleDrop \/ Raise \/ Crash
            \/ \E b \in BOOLEAN : HandleGenerate(b)
            \/ \E token \in Tokens, b \in BOOLEAN : GenerateToken(token, b)
            \/ \E b \in BOOLEAN, usable \in BOOLEAN : GenerateEnd(b, usable)
            \/ UNCHANGED vars
  BY <1>12 DEF HandleLoad, HandleTokenize, HandleDrop, Raise, Crash, HandleGenerate, GenerateToken,
               GenerateEnd, vars
<1> QED
  BY <1>1, <1>2, <1>3, <1>4, <1>5, <1>6, <1>7, <1>8, <1>9, <1>10, <1>11, <1>12, NextCases

LEMMA WriteTypes ==
    ASSUME TypeOK, NEW j \in Jobs, Write(j)
    PROVE  requests' \in Seq(Requests) /\ stdout' \in Seq(Lines)
<1>1. Stale(requests) \in Seq(Requests) /\ Stale(stdout) \in Seq(Lines)
  BY StaleTypes DEF TypeOK, LineTypes
<1>2. <<Request(j)>> \in Seq(Requests) /\ <<>> \in Seq(Requests)
  BY JobTypes, Nothing
<1>3. (IF Up THEN <<Request(j)>> ELSE <<>>) \in Seq(Requests)
  BY <1>2
<1>4. Stale(requests) \o (IF Up THEN <<Request(j)>> ELSE <<>>) \in Seq(Requests)
  BY <1>1, <1>3, ConcatProperties
<1> QED
  BY <1>1, <1>4 DEF Write, Up

\* What the head of a list and the rest of it are.
LEMMA Heads ==
    /\ \A s \in Seq(Lines) : s # <<>> =>
          /\ Len(s) \in Nat \ {0} /\ Head(s) = s[1] /\ Head(s) \in Lines
          /\ Tail(s) \in Seq(Lines) /\ Len(Tail(s)) = Len(s) - 1
          /\ \A i \in 1 .. Len(s) - 1 : Tail(s)[i] = s[i + 1]
    /\ \A s \in Seq(Requests) : s # <<>> =>
          /\ Len(s) \in Nat \ {0} /\ Head(s) = s[1] /\ Head(s) \in Requests
          /\ Tail(s) \in Seq(Requests) /\ Len(Tail(s)) = Len(s) - 1
    /\ \A s \in Seq(Lines), line \in Lines :
          /\ Append(s, line) \in Seq(Lines) /\ Len(Append(s, line)) = Len(s) + 1
          /\ Append(s, line) # <<>>
          /\ Append(s, line)[Len(s) + 1] = line
          /\ \A i \in 1 .. Len(s) : Append(s, line)[i] = s[i]
<1>1. ASSUME NEW s \in Seq(Lines), s # <<>>
      PROVE  /\ Len(s) \in Nat \ {0} /\ Head(s) = s[1] /\ Head(s) \in Lines
             /\ Tail(s) \in Seq(Lines) /\ Len(Tail(s)) = Len(s) - 1
             /\ \A i \in 1 .. Len(s) - 1 : Tail(s)[i] = s[i + 1]
  BY <1>1, HeadTailProperties, EmptySeq
<1>2. ASSUME NEW s \in Seq(Requests), s # <<>>
      PROVE  /\ Len(s) \in Nat \ {0} /\ Head(s) = s[1] /\ Head(s) \in Requests
             /\ Tail(s) \in Seq(Requests) /\ Len(Tail(s)) = Len(s) - 1
  BY <1>2, HeadTailProperties, EmptySeq
<1>3. ASSUME NEW s \in Seq(Lines), NEW line \in Lines
      PROVE  /\ Append(s, line) \in Seq(Lines) /\ Len(Append(s, line)) = Len(s) + 1
             /\ Append(s, line) # <<>>
             /\ Append(s, line)[Len(s) + 1] = line
             /\ \A i \in 1 .. Len(s) : Append(s, line)[i] = s[i]
  BY AppendProperties
<1> QED
  BY <1>1, <1>2, <1>3

LEMMA EmitTypes ==
    ASSUME TypeOK, requests # <<>>, NEW type \in {"result", "delta", "error"}
    PROVE  /\ Emit(type) \in Seq(Lines)
           /\ Tail(requests) \in Seq(Requests)
           /\ Head(requests) \in Requests
           /\ [type |-> type, mine |-> Head(requests).mine] \in Lines
  BY Heads DEF TypeOK, LineTypes, Emit, Requests, Lines

LEMMA LineTypeStep ==
    ASSUME TypeOK, [Next]_vars
    PROVE  LineTypes'
<1> USE DEF LineTypes
<1>0. /\ input \in Seq(Lines) /\ stdout \in Seq(Lines) /\ requests \in Seq(Requests) /\ job \in Jobs
      /\ <<>> \in Seq(Lines) /\ <<>> \in Seq(Requests)
  BY Nothing DEF TypeOK, ServiceTypes
<1>1. CASE UNCHANGED <<input, stdout, requests>>
  BY <1>0, <1>1
<1>2. ASSUME NEW c \in Contexts, DropContext(c) PROVE LineTypes'
  <2>1. Job("drop", c, <<>>) \in Jobs
    BY JobTypes DEF Ops
  <2>2. CASE Write(Job("drop", c, <<>>)) /\ input' = Stale(input)
    BY <1>0, <2>1, <2>2, WriteTypes, StaleTypes
  <2> QED
    BY <1>1, <1>2, <2>2 DEF DropContext, pipeVars
<1>3. ASSUME NEW destroyed \in BOOLEAN, Stop(destroyed) PROVE LineTypes'
  BY <1>0, <1>3, StopEffect
<1>4. CASE StartRunning
  BY <1>0, <1>4, WriteTypes, StaleTypes DEF StartRunning
<1>5. CASE Spawn
  <2>1. Request(Job("load", NoContext, <<>>)) \in Requests
    BY JobTypes DEF Ops
  <2> QED
    BY <1>0, <1>5, <2>1 DEF Spawn
<1>6. CASE PollRead
  <2>1. input \o stdout \in Seq(Lines)
    BY <1>0, ConcatProperties
  <2> QED
    BY <1>0, <1>6, <2>1 DEF PollRead
<1>7. CASE ParseResult
  <2>1. Tail(input) \in Seq(Lines)
    BY <1>0, <1>7, Heads DEF ParseResult, Parsing
  <2> QED
    BY <1>0, <1>7, <2>1, WriteTypes, StaleTypes DEF ParseResult
<1>8. CASE ParseDelta
  <2>1. Tail(input) \in Seq(Lines)
    BY <1>0, <1>8, Heads DEF ParseDelta, Parsing
  <2> QED
    BY <1>0, <1>8, <2>1 DEF ParseDelta, pipeVars
<1>9. ASSUME NEW type \in {"result", "delta", "error"}, requests # <<>>, Answer(type), UNCHANGED input
      PROVE  LineTypes'
  BY <1>0, <1>9, EmitTypes DEF Answer
<1>10. ASSUME NEW token, NEW b, GenerateToken(token, b) PROVE LineTypes'
  BY <1>0, <1>10, EmitTypes DEF GenerateToken, Generating, Handles
<1>11. CASE Crash
  BY <1>0, <1>11 DEF Crash
<1>12. CASE StartFails \/ PollInterrupted \/ ParseFailure \/ ParseExited \/ ParseLastDelta
  BY <1>3, <1>12, CallStops
<1>13. CASE HandleLoad \/ HandleTokenize \/ HandleDrop
            \/ \E b \in BOOLEAN, usable \in BOOLEAN : GenerateEnd(b, usable)
  BY <1>9, <1>13 DEF HandleLoad, HandleTokenize, HandleDrop, GenerateEnd, Generating, Handles
<1>14. CASE Raise
  BY <1>9, <1>14 DEF Raise
<1>15. CASE Unload
  BY <1>3, <1>15 DEF Unload
<1>16. CASE \/ Load \/ Tokenize \/ Cancel \/ Expire \/ ParseDone
            \/ \E c \in Contexts : CreateContext(c)
            \/ \E c \in Contexts, prompt \in Prompts : Generate(c, prompt)
            \/ \E b \in BOOLEAN : HandleGenerate(b)
            \/ UNCHANGED vars
  BY <1>1, <1>16 DEF Load, Tokenize, Cancel, Expire, ParseDone, CreateContext, Generate, HandleGenerate,
                     pipeVars, vars
<1> QED
  BY <1>2, <1>4, <1>5, <1>6, <1>7, <1>8, <1>10, <1>11, <1>12, <1>13, <1>14, <1>15, <1>16, NextCases

-----------------------------------------------------------------------------
(* The cache that a generation goes on with, and the one it leaves.        *)

LEMMA MaxIsIn ==
    ASSUME NEW k \in Nat, NEW S, S \subseteq 0 .. k, S # {}
    PROVE  Max(S) \in S
<1> DEFINE T == {n \in 0 .. k : k - n \in S}
           R == OpToRel(<, Nat)
<1>1. T \subseteq Nat /\ T # {}
  <2>1. PICK s \in S : TRUE
    OBVIOUS
  <2>2. k - s \in 0 .. k /\ k - (k - s) = s
    BY <2>1
  <2> QED
    BY <2>2
<1>2. \A x, y \in Nat : y < x => <<y, x>> \in R
  BY DEF OpToRel
<1> HIDE DEF R
<1>3. PICK x \in T : \A y \in T : y >= x
  <2>1. PICK x \in T : \A y \in T : ~ (<<y, x>> \in R)
    <3>1. IsWellFoundedOn(R, Nat)
      BY NatLessThanWellFounded DEF R
    <3> QED
      BY <1>1, <3>1, WFMin
  <2>2. x \in Nat /\ \A y \in T : y \in Nat /\ ~ (y < x)
    BY <1>1, <1>2, <2>1, Zenon
  <2> HIDE DEF T
  <2>3. \A y \in T : y >= x
    BY <2>2
  <2> QED
    BY <2>1, <2>3
<1>4. \A s \in S : k - x >= s
  <2> TAKE s \in S
  <2>1. k - s \in T
    BY DEF T
  <2>2. k - s >= x /\ x \in 0 .. k
    BY <1>3, <2>1
  <2> QED
    BY <2>2
<1>5. k - x \in S
  BY <1>3
<1> HIDE DEF T
<1> QED
  BY <1>4, <1>5 DEF Max

LEMMA MinOfTwo ==
    ASSUME NEW a \in Int, NEW b \in Int
    PROVE  Min({a, b}) \in {a, b} /\ Min({a, b}) <= a /\ Min({a, b}) <= b
<1>1. CASE a <= b
  <2>1. a \in {a, b} /\ \A y \in {a, b} : a <= y
    BY <1>1
  <2>2. \A x \in {a, b} : (\A y \in {a, b} : x <= y) => x <= a /\ x <= b
    OBVIOUS
  <2> QED
    BY <2>1, <2>2 DEF Min
<1>2. CASE b <= a
  <2>1. b \in {a, b} /\ \A y \in {a, b} : b <= y
    BY <1>2
  <2>2. \A x \in {a, b} : (\A y \in {a, b} : x <= y) => x <= a /\ x <= b
    OBVIOUS
  <2> QED
    BY <2>1, <2>2 DEF Min
<1> QED
  BY <1>1, <1>2

LEMMA CommonPrefixIs ==
    ASSUME NEW l \in Texts, NEW r \in Texts
    PROVE  /\ CommonPrefix(l, r) \in Nat
           /\ CommonPrefix(l, r) <= Len(l) /\ CommonPrefix(l, r) <= Len(r)
           /\ \A i \in 1 .. CommonPrefix(l, r) : l[i] = r[i]
<1> DEFINE k == Min({Len(l), Len(r)})
           S == {n \in 0 .. k : SubSeq(l, 1, n) = SubSeq(r, 1, n)}
           m == Max(S)
<1>0. Len(l) \in Nat /\ Len(r) \in Nat
  BY LenProperties DEF Texts
<1>1. k \in Nat /\ k <= Len(l) /\ k <= Len(r)
  <2>1. \A a, b \in Int : Min({a, b}) \in {a, b} /\ Min({a, b}) <= a /\ Min({a, b}) <= b
    BY MinOfTwo
  <2>2. Len(l) \in Int /\ Len(r) \in Int
    BY <1>0
  <2>3. k \in {Len(l), Len(r)} /\ k <= Len(l) /\ k <= Len(r)
    BY <2>1, <2>2
  <2> QED
    BY <1>0, <2>3
<1> HIDE DEF k
<1>2. S \subseteq 0 .. k /\ S # {}
  <2>1. SubSeq(l, 1, 0) = <<>> /\ SubSeq(r, 1, 0) = <<>>
    BY SubSeqEmpty
  <2>2. 0 \in S
    BY <1>1, <2>1
  <2> QED
    BY <2>2
<1>3. m \in S
  BY <1>1, <1>2, MaxIsIn
<1>4. CommonPrefix(l, r) = m
  BY DEF CommonPrefix, k
<1>5. m \in 0 .. k /\ SubSeq(l, 1, m) = SubSeq(r, 1, m)
  BY <1>3
<1> HIDE DEF m, S
<1>6. \A i \in 1 .. m : l[i] \in Tokens /\ r[i] \in Tokens
  BY <1>0, <1>1, <1>5, ElementOfSeq DEF Texts
<1>7. ASSUME NEW i \in 1 .. m
      PROVE  l[i] = r[i]
  <2>1. m \in Int /\ 1 \in Int /\ i \in 1 .. m - 1 + 1 /\ 1 + i - 1 = i
    BY <1>1, <1>5
  <2>2. SubSeq(l, 1, m)[i] = l[1 + i - 1]
    BY <1>6, <2>1, SubSeqProperties, Z3
  <2>3. SubSeq(r, 1, m)[i] = r[1 + i - 1]
    BY <1>6, <2>1, SubSeqProperties, Z3
  <2> QED
    BY <1>5, <2>1, <2>2, <2>3
<1> QED
  BY <1>0, <1>1, <1>4, <1>5, <1>7

\* The first n tokens of a text.
LEMMA FirstTokens ==
    \A s \in Texts : \A n \in 0 .. Len(s) :
        /\ SubSeq(s, 1, n) \in Texts
        /\ Len(SubSeq(s, 1, n)) = n
        /\ \A i \in 1 .. n : SubSeq(s, 1, n)[i] = s[i]
<1> SUFFICES ASSUME NEW s \in Texts, NEW n \in 0 .. Len(s)
             PROVE  /\ SubSeq(s, 1, n) \in Texts
                    /\ Len(SubSeq(s, 1, n)) = n
                    /\ \A i \in 1 .. n : SubSeq(s, 1, n)[i] = s[i]
  OBVIOUS
<1>1. Len(s) \in Nat /\ s \in Seq(Tokens)
  BY LenProperties DEF Texts
<1>2. n \in Int /\ 1 \in Int /\ n - 1 + 1 = n /\ n \in Nat
  BY <1>1
<1>3. \A i \in 1 .. n : s[i] \in Tokens
  BY <1>1, <1>2, ElementOfSeq
<1>4. CASE n = 0
  <2>1. SubSeq(s, 1, n) = <<>>
    BY <1>4, SubSeqEmpty
  <2> QED
    BY <1>4, <2>1, Nothing DEF Texts
<1>5. CASE n > 0
  <2>1. /\ SubSeq(s, 1, n) \in Seq(Tokens)
        /\ Len(SubSeq(s, 1, n)) = (IF 1 <= n THEN n - 1 + 1 ELSE 0)
        /\ \A i \in 1 .. n - 1 + 1 : SubSeq(s, 1, n)[i] = s[1 + i - 1]
    BY <1>2, <1>3, SubSeqProperties, Z3
  <2>2. Len(SubSeq(s, 1, n)) = n
    BY <1>2, <1>5, <2>1
  <2>3. ASSUME NEW i \in 1 .. n PROVE SubSeq(s, 1, n)[i] = s[i]
    <3>1. i \in 1 .. n - 1 + 1 /\ 1 + i - 1 = i
      BY <1>2
    <3> QED
      BY <2>1, <3>1
  <2> QED
    BY <2>1, <2>2, <2>3 DEF Texts
<1> QED
  BY <1>2, <1>4, <1>5

\* Texts whose first n tokens agree.
LEMMA SameFirst ==
    ASSUME NEW l \in Texts, NEW r \in Texts, NEW n \in Nat, n <= Len(l), n <= Len(r),
           \A i \in 1 .. n : l[i] = r[i]
    PROVE  SubSeq(l, 1, n) = SubSeq(r, 1, n)
<1> DEFINE a == SubSeq(l, 1, n)
           b == SubSeq(r, 1, n)
<1>1. Len(l) \in Nat /\ Len(r) \in Nat
  BY LenProperties DEF Texts
<1>2. n \in 0 .. Len(l) /\ n \in 0 .. Len(r)
  BY <1>1
<1>3. a \in Seq(Tokens) /\ Len(a) = n /\ \A i \in 1 .. n : a[i] = l[i]
  BY <1>2, FirstTokens DEF Texts
<1>4. b \in Seq(Tokens) /\ Len(b) = n /\ \A i \in 1 .. n : b[i] = r[i]
  BY <1>2, FirstTokens DEF Texts
<1> HIDE DEF a, b
<1>5. a = b
  BY <1>3, <1>4, SeqEqual
<1> QED
  BY <1>5 DEF a, b

\* prepare_cache() gives what was fed of the prompt, and leaves something to feed.
LEMMA Prepared ==
    ASSUME NEW e \in Caches, NEW c, NEW tokens \in Texts, tokens # <<>>, NEW trims \in BOOLEAN,
           \A k \in DOMAIN e : e[k].tokens = e[k].cache
    PROVE  LET g == PrepareCache(e, c, tokens, trims)
           IN /\ g \in Gens /\ g.all = tokens /\ g.reused < Len(tokens)
              /\ g.kept = SubSeq(tokens, 1, g.reused)
<1> DEFINE p == CommonPrefix(e[c].tokens, tokens)
           l == Len(tokens) - 1
           count == IF c \in DOMAIN e THEN Min({p, l}) ELSE 0
           was == e[c].cache
           kept == IF count > 0 /\ trims THEN SubSeq(was, 1, Len(was) - (Len(e[c].tokens) - count))
                   ELSE <<>>
           reused == IF trims THEN count ELSE 0
<1>1. Len(tokens) \in Nat /\ Len(tokens) > 0
  BY Nothing DEF Texts
<1>2. SubSeq(tokens, 1, 0) = <<>>
  BY SubSeqEmpty
<1>3. ASSUME c \in DOMAIN e
      PROVE  /\ count \in 0 .. l
             /\ count > 0 => SubSeq(was, 1, Len(was) - (Len(e[c].tokens) - count)) = SubSeq(tokens, 1, count)
  <2>1. e[c] \in Kept /\ e[c].tokens = was
    BY <1>3, CacheTypes
  <2>2. was \in Texts
    BY <2>1 DEF Kept
  <2>3. Len(was) \in Nat
    BY <2>2, LenProperties DEF Texts
  <2>4. p \in Nat /\ p <= Len(was) /\ p <= Len(tokens) /\ \A i \in 1 .. p : was[i] = tokens[i]
    BY <2>1, <2>2, CommonPrefixIs
  <2> HIDE DEF p
  <2>5. \A a, b \in Int : Min({a, b}) \in {a, b} /\ Min({a, b}) <= a /\ Min({a, b}) <= b
    BY MinOfTwo
  <2>6. l \in Nat /\ p \in Int /\ l \in Int
    BY <1>1, <2>4
  <2>7. count \in {p, l} /\ count <= p /\ count <= l
    BY <1>3, <2>5, <2>6
  <2> HIDE DEF count
  <2>8. count \in Nat /\ count <= Len(was) /\ count <= Len(tokens) /\ \A i \in 1 .. count : was[i] = tokens[i]
    BY <1>1, <2>3, <2>4, <2>6, <2>7
  <2> HIDE DEF was
  <2>9. SubSeq(was, 1, count) = SubSeq(tokens, 1, count)
    BY <2>2, <2>8, SameFirst
  <2>10. Len(was) - (Len(e[c].tokens) - count) = count
    BY <2>1, <2>3, <2>8
  <2>11. SubSeq(was, 1, Len(was) - (Len(e[c].tokens) - count)) = SubSeq(tokens, 1, count)
    BY <2>9, <2>10, Zenon
  <2>12. count \in 0 .. l
    BY <2>6, <2>7, <2>8
  <2> QED
    BY <2>11, <2>12
<1>4. count \in 0 .. l
  BY <1>1, <1>3
<1>5. kept = SubSeq(tokens, 1, reused)
  <2>1. CASE count > 0 /\ trims
    <3>1. c \in DOMAIN e
      BY <2>1
    <3>2. kept = SubSeq(was, 1, Len(was) - (Len(e[c].tokens) - count)) /\ reused = count
      BY <2>1
    <3> HIDE DEF count, kept, reused, was
    <3> QED
      BY <1>3, <2>1, <3>1, <3>2
  <2>2. CASE ~(count > 0 /\ trims)
    <3>1. kept = <<>>
      BY <2>2
    <3>2. reused = 0
      <4> HIDE DEF count
      <4> QED
        BY <1>1, <1>4, <2>2
    <3> HIDE DEF kept, reused
    <3> QED
      BY <1>2, <3>1, <3>2
  <2> QED
    BY <2>1, <2>2
<1>6. reused \in Nat /\ reused < Len(tokens) /\ reused \in 0 .. Len(tokens)
  <2> HIDE DEF count
  <2> QED
    BY <1>1, <1>4
<1>7. PrepareCache(e, c, tokens, trims) = [all |-> tokens, kept |-> kept, reused |-> reused]
  BY DEF PrepareCache
<1> HIDE DEF kept, reused
<1>8. kept \in Texts
  BY <1>5, <1>6, FirstTokens
<1> QED
  BY <1>5, <1>6, <1>7, <1>8 DEF Gens

\* What was fed, with what is fed from there on.
LEMMA FedIsFirst ==
    ASSUME NEW all \in Texts, NEW prompt \in Texts, NEW r \in Nat, NEW n \in Nat,
           Len(prompt) <= Len(all), \A i \in 1 .. Len(prompt) : all[i] = prompt[i],
           r <= Len(prompt), r <= n, n <= Len(all)
    PROVE  SubSeq(prompt, 1, r) \o SubSeq(all, r + 1, n) = SubSeq(all, 1, n)
<1>1. Len(all) \in Nat /\ Len(prompt) \in Nat
  BY LenProperties DEF Texts
<1>2. r <= Len(all) /\ \A i \in 1 .. r : prompt[i] = all[i]
  BY <1>1
<1>3. SubSeq(prompt, 1, r) = SubSeq(all, 1, r)
  BY <1>2, SameFirst
<1>4. SubSeq(all, 1, r) \o SubSeq(all, r + 1, n) = SubSeq(all, 1, n)
  BY <1>1, ConcatAdjacentSubSeq DEF Texts
<1> QED
  BY <1>3, <1>4

-----------------------------------------------------------------------------
(* The lines of a call.                                                    *)

LEMMA NoLines ==
    /\ Open(<<>>) /\ Mine(<<>>) /\ ~Closed(<<>>)
    /\ \A s \in Seq(Lines) : Open(s) => ~Closed(s)
<1>1. Open(<<>>) /\ Mine(<<>>) /\ ~Closed(<<>>)
  BY Nothing DEF Open, Mine, Closed
<1>2. ASSUME NEW s \in Seq(Lines), Open(s) PROVE ~Closed(s)
  <2>1. Len(s) \in Nat
    BY LenProperties
  <2> QED
    BY <1>2, <2>1 DEF Open, Closed
<1> QED
  BY <1>1, <1>2

\* The first line of a list, and what it leaves.
LEMMA FirstLine ==
    ASSUME NEW s \in Seq(Lines), s # <<>>
    PROVE  /\ Mine(s) => Mine(Tail(s))
           /\ Open(s) => Head(s).type = "delta" /\ Open(Tail(s))
           /\ Closed(s) /\ Head(s).type = "delta" =>
                  /\ Closed(Tail(s))
                  /\ Tail(s)[Len(Tail(s))].type = s[Len(s)].type
           /\ Closed(s) /\ Head(s).type # "delta" => Tail(s) = <<>> /\ s[Len(s)] = Head(s)
<1> DEFINE t == Tail(s)
<1>1. /\ Len(s) \in Nat \ {0} /\ Head(s) = s[1] /\ t \in Seq(Lines) /\ Len(t) = Len(s) - 1
      /\ \A i \in 1 .. Len(s) - 1 : t[i] = s[i + 1]
  BY Heads
<1>2. t = <<>> <=> Len(t) = 0
  BY <1>1, Nothing
<1> HIDE DEF t
<1>3. \A i \in 1 .. Len(t) : t[i] = s[i + 1] /\ i + 1 \in 1 .. Len(s) /\ (i + 1 < Len(s) <=> i < Len(t))
  BY <1>1
<1>4. Mine(s) => Mine(t)
  BY <1>3 DEF Mine
<1>5. Open(s) => Head(s).type = "delta" /\ Open(t)
  BY <1>1, <1>3 DEF Open
<1>6. ASSUME Closed(s), Head(s).type = "delta"
      PROVE  Closed(t) /\ t[Len(t)].type = s[Len(s)].type
  <2>1. 1 < Len(s)
    BY <1>1, <1>6 DEF Closed
  <2>2. Len(t) > 0 /\ Len(t) \in 1 .. Len(t) /\ Len(t) + 1 = Len(s)
    BY <1>1, <2>1
  <2>3. \A i \in 1 .. Len(t) : i < Len(t) <=> t[i].type = "delta"
    BY <1>3, <1>6 DEF Closed
  <2> QED
    BY <1>3, <2>2, <2>3 DEF Closed
<1>7. ASSUME Closed(s), Head(s).type # "delta"
      PROVE  t = <<>> /\ s[Len(s)] = Head(s)
  <2>1. Len(s) = 1
    BY <1>1, <1>7 DEF Closed
  <2> QED
    BY <1>1, <1>2, <2>1
<1> QED
  BY <1>4, <1>5, <1>6, <1>7 DEF t

\* One more line.
LEMMA OneMoreLine ==
    ASSUME NEW s \in Seq(Lines), NEW line \in Lines, Open(s)
    PROVE  /\ Mine(s) /\ line.mine => Mine(Append(s, line))
           /\ line.type = "delta" => Open(Append(s, line))
           /\ line.type # "delta" => /\ Closed(Append(s, line))
                                     /\ Append(s, line)[Len(Append(s, line))] = line
<1> DEFINE t == Append(s, line)
<1>1. /\ t \in Seq(Lines) /\ Len(t) = Len(s) + 1 /\ t[Len(s) + 1] = line
      /\ \A i \in 1 .. Len(s) : t[i] = s[i]
  BY Heads
<1>2. Len(s) \in Nat
  BY LenProperties
<1> HIDE DEF t
<1>3. \A i \in 1 .. Len(t) : \/ /\ i < Len(t) /\ i \in 1 .. Len(s) /\ t[i] = s[i]
                            \/ /\ i = Len(t) /\ t[i] = line
  <2> DEFINE n == Len(s)
             m == Len(t)
  <2>1. n \in Nat /\ m = n + 1
    BY <1>1, <1>2
  <2>2. t[n + 1] = line /\ \A i \in 1 .. n : t[i] = s[i]
    BY <1>1
  <2> HIDE DEF n, m
  <2>3. \A i \in 1 .. m : \/ /\ i < m /\ i \in 1 .. n /\ t[i] = s[i]
                          \/ /\ i = m /\ t[i] = line
    <3> TAKE i \in 1 .. m
    <3>1. i \in 1 .. n \/ i = n + 1
      BY <2>1
    <3>2. CASE i \in 1 .. n
      <4>1. i < m
        BY <2>1, <3>2
      <4> QED
        BY <2>2, <3>2, <4>1, Zenon
    <3>3. CASE i = n + 1
      BY <2>1, <2>2, <3>3
    <3> QED
      BY <3>1, <3>2, <3>3
  <2> QED
    BY <2>3 DEF n, m
<1>4. Mine(s) /\ line.mine => Mine(t)
  BY <1>3 DEF Mine
<1>5. line.type = "delta" => Open(t)
  BY <1>3 DEF Open
<1>6. line.type # "delta" => Closed(t) /\ t[Len(t)] = line
  <2>1. ASSUME line.type # "delta", NEW i \in 1 .. Len(t) PROVE i < Len(t) <=> t[i].type = "delta"
    BY <1>1, <1>2, <1>3, <2>1 DEF Open
  <2> QED
    BY <1>1, <1>2, <2>1 DEF Closed
<1> QED
  BY <1>4, <1>5, <1>6 DEF t

\* The lines that were read, and those that are read now.
LEMMA MoreLines ==
    ASSUME NEW s \in Seq(Lines), NEW t \in Seq(Lines)
    PROVE  /\ Mine(s) /\ Mine(t) => Mine(s \o t)
           /\ Open(s) /\ Open(t) => Open(s \o t)
           /\ Open(s) /\ Closed(t) => /\ Closed(s \o t)
                                     /\ (s \o t)[Len(s \o t)] = t[Len(t)]
           /\ s \o <<>> = s
<1> DEFINE u == s \o t
<1>1. u \in Seq(Lines) /\ Len(s) \in Nat /\ Len(t) \in Nat /\ Len(u) = Len(s) + Len(t)
  BY ConcatProperties, LenProperties
<1>2. \A i \in 1 .. Len(s) + Len(t) : u[i] = IF i <= Len(s) THEN s[i] ELSE t[i - Len(s)]
  BY ConcatProperties
<1> HIDE DEF u
<1>3. \A i \in 1 .. Len(u) : \/ /\ i \in 1 .. Len(s) /\ u[i] = s[i] /\ i <= Len(s)
                            \/ /\ i - Len(s) \in 1 .. Len(t) /\ u[i] = t[i - Len(s)] /\ i > Len(s)
  <2> DEFINE n == Len(s)
             m == Len(t)
             k == Len(u)
  <2>1. n \in Nat /\ m \in Nat /\ k = n + m
    BY <1>1
  <2>2. \A i \in 1 .. n + m : u[i] = IF i <= n THEN s[i] ELSE t[i - n]
    BY <1>2
  <2>0. n = Len(s) /\ m = Len(t) /\ k = Len(u)
    OBVIOUS
  <2> HIDE DEF n, m, k
  <2>3. \A i \in 1 .. k : \/ /\ i \in 1 .. n /\ u[i] = s[i] /\ i <= n
                          \/ /\ i - n \in 1 .. m /\ u[i] = t[i - n] /\ i > n
    <3> TAKE i \in 1 .. k
    <3>1. CASE i <= n
      BY <2>1, <2>2, <3>1
    <3>2. CASE i > n
      <4>1. i - n \in 1 .. m /\ ~(i <= n) /\ i \in 1 .. n + m
        BY <2>1, <3>2
      <4> QED
        BY <2>2, <3>2, <4>1
    <3> QED
      BY <2>1, <3>1, <3>2
  <2> QED
    BY <2>0, <2>3, Zenon
<1>4. Mine(s) /\ Mine(t) => Mine(u)
  BY <1>3 DEF Mine
<1>5. Open(s) /\ Open(t) => Open(u)
  BY <1>3 DEF Open
<1>6. ASSUME Open(s), Closed(t) PROVE Closed(u) /\ u[Len(u)] = t[Len(t)]
  <2>1. Len(t) > 0 /\ Len(u) > 0 /\ Len(u) \in 1 .. Len(u) /\ Len(u) - Len(s) = Len(t) /\ Len(u) > Len(s)
    BY <1>1, <1>6 DEF Closed
  <2>2. ASSUME NEW i \in 1 .. Len(u) PROVE i < Len(u) <=> u[i].type = "delta"
    <3>1. CASE i \in 1 .. Len(s) /\ u[i] = s[i] /\ i <= Len(s)
      BY <1>1, <1>6, <2>1, <3>1 DEF Open
    <3>2. CASE i - Len(s) \in 1 .. Len(t) /\ u[i] = t[i - Len(s)] /\ i > Len(s)
      <4>1. i - Len(s) < Len(t) <=> t[i - Len(s)].type = "delta"
        BY <1>6, <3>2 DEF Closed
      <4>2. i - Len(s) < Len(t) <=> i < Len(u)
        BY <1>1
      <4> QED
        BY <3>2, <4>1, <4>2
    <3> QED
      BY <1>3, <3>1, <3>2
  <2>3. u[Len(u)] = t[Len(t)]
    BY <1>1, <1>2, <2>1
  <2> QED
    BY <2>1, <2>2, <2>3 DEF Closed
<1>7. s \o <<>> = s
  BY ConcatEmptySeq
<1> QED
  BY <1>4, <1>5, <1>6, <1>7 DEF u

-----------------------------------------------------------------------------
(* The steps of the service.                                               *)

Rules ==
    /\ ProcRules
    /\ proc.state # "killed" => Flow
    /\ GenRules
    /\ EntryRules
    /\ KillRules

\* A step that leaves the pipes and the process alone, and the call if there is one.
LEMMA QuietStep ==
    ASSUME IndInv, UNCHANGED <<running, input, proc, requests, stdout>>,
           contexts \subseteq contexts', InCall' <=> InCall,
           InCall => calling' = calling /\ job' = job
    PROVE  Rules' /\ proc' \in Procs
<1> USE DEF IndInv, TypeOK
<1>1. proc' \in Procs /\ ProcRules' /\ GenRules' /\ KillRules'
  BY DEF ProcRules, GenRules, KillRules, Up
<1>2. \A type : Ends(type)' <=> Ends(type)
  BY DEF Ends, Open, Closed
<1>3. EntryRules'
  <2>1. Known \subseteq Known'
    BY <1>2 DEF Known
  <2> QED
    BY <2>1 DEF EntryRules, Up
<1>4. Flow => Flow'
  <2>1. CASE InCall
    BY <1>2, <2>1 DEF Flow, Ended, Open, Mine, OwnRequest, Up
  <2>2. CASE ~InCall
    BY <2>2 DEF Flow, Up
  <2> QED
    BY <2>1, <2>2
<1> QED
  BY <1>1, <1>3, <1>4 DEF Rules

\* stop()
LEMMA StopStep ==
    ASSUME IndInv, NEW destroyed \in BOOLEAN, Stop(destroyed), ~InCall'
    PROVE  Rules' /\ proc' \in Procs
<1> USE DEF IndInv
<1>1. /\ input' = <<>> /\ requests' = <<>> /\ stdout' \in {stdout, <<>>}
      /\ running' \in BOOLEAN /\ (~running => ~running') /\ (~running' => stdout' = <<>>)
      /\ PromptKill \/ proc.state = "dead" => ~running'
      /\ IF running /\ Up THEN proc' = Process("killed") ELSE proc' = proc
  BY StopEffect
<1>2. proc.state \in {"none", "up", "dead", "killed"} /\ proc \in Procs
  BY DEF TypeOK, Procs
<1>3. /\ Process("killed") \in Procs
      /\ Process("killed").state = "killed" /\ ~Process("killed").loaded
      /\ Process("killed").entries = <<>> /\ Process("killed").gen = NoGen
  BY ProcessType
<1>4. proc' \in Procs /\ ~Up' /\ ~proc'.loaded /\ proc'.entries = <<>> /\ proc'.gen = NoGen
  <2>1. CASE running /\ Up
    BY <1>1, <1>3, <2>1 DEF Up
  <2>2. CASE ~(running /\ Up)
    BY <1>1, <1>2, <2>2 DEF ProcRules, Up
  <2> QED
    BY <2>1, <2>2
<1>5. proc'.state # "killed" => proc' = proc /\ proc.state \in {"none", "dead"} /\ ~running'
  <2>1. CASE running /\ Up
    BY <1>1, <1>3, <2>1
  <2>2. CASE ~(running /\ Up)
    <3>1. proc' = proc
      BY <1>1, <2>2
    <3>2. ~Up
      BY <2>2 DEF ProcRules
    <3> QED
      BY <1>1, <1>2, <3>1, <3>2 DEF ProcRules, Up
  <2> QED
    BY <2>1, <2>2
<1>6. proc'.state = "none" => ~running'
  BY <1>5
<1>7. ProcRules'
  BY <1>1, <1>4, <1>6 DEF ProcRules
<1>8. proc'.state # "killed" => Flow'
  BY <1>1, <1>4, <1>5 DEF Flow
<1>9. EntryRules' /\ GenRules'
  BY <1>4, CacheTypes DEF EntryRules, GenRules
<1>10. KillRules'
  BY <1>1 DEF KillRules
<1> QED
  BY <1>4, <1>7, <1>8, <1>9, <1>10 DEF Rules

\* A request goes out when nothing else is on its way.
LEMMA WriteStep ==
    ASSUME IndInv, Write(job'), job' \in Jobs, UNCHANGED <<proc, running>>,
           proc.state # "none", requests = <<>>, KillRules',
           proc.state # "killed" => /\ stdout = <<>> /\ input' = <<>> /\ proc.gen = NoGen
                                    /\ Up => proc.loaded,
           Up => DOMAIN proc.entries \subseteq Known'
    PROVE  Rules' /\ proc' \in Procs
<1> USE DEF IndInv
<1>1. InCall' /\ calling' = job'.op /\ stdout' = Stale(stdout)
  BY DEF Write, InCall
<1>2. requests' = IF Up THEN <<Request(job')>> ELSE <<>>
  <2>1. Stale(requests) = <<>>
    BY Nothing
  <2>2. requests' = Stale(requests) \o (IF Up THEN <<Request(job')>> ELSE <<>>)
    BY DEF Write, Up
  <2>3. <<>> \o <<Request(job')>> = <<Request(job')>> /\ <<>> \o <<>> = <<>>
    OBVIOUS
  <2> QED
    BY <2>1, <2>2, <2>3
<1>3. proc \in Procs
  BY DEF TypeOK
<1>4. ProcRules'
  BY <1>2 DEF ProcRules, Up
<1>5. Up => Len(requests') = 1 /\ requests'[1] = Request(job') /\ requests' # <<>>
  BY <1>2
<1>6. requests' # <<>> => OwnRequest'
  <2>1. /\ Request(job').mine /\ Request(job').op = job'.op /\ Request(job').ctx = job'.ctx
        /\ Request(job').prompt = job'.prompt
    BY JobTypes
  <2> QED
    BY <1>1, <1>2, <1>5, <2>1 DEF OwnRequest
<1>7. proc.state # "killed" => Flow'
  <2> SUFFICES ASSUME proc.state # "killed" PROVE Flow'
    OBVIOUS
  <2>1. input' = <<>> /\ stdout' = <<>>
    BY <1>1, Nothing
  <2>2. Mine(input') /\ Mine(stdout') /\ Open(input') /\ Open(stdout')
    BY <2>1, NoLines
  <2>3. Mine(input)' /\ Mine(stdout)' /\ Open(input)' /\ Open(stdout)'
    BY <2>2 DEF Mine, Open
  <2>4. (Up => requests # <<>>)' /\ (Up => proc.loaded)'
    BY <1>5 DEF Up
  <2> QED
    BY <1>1, <1>6, <2>3, <2>4 DEF Flow
<1>8. GenRules'
  <2>1. proc.gen = NoGen
    BY DEF ProcRules, Up
  <2> QED
    BY <2>1 DEF GenRules
<1>9. EntryRules'
  BY DEF EntryRules, Up
<1> QED
  BY <1>3, <1>4, <1>7, <1>8, <1>9 DEF Rules

\* Nothing is on its way while the service is not in a call.
LEMMA NoCall ==
    ASSUME IndInv, ~InCall, running
    PROVE  /\ requests = <<>> /\ proc.state # "none"
           /\ proc.state # "killed" => /\ stdout = <<>> /\ input = <<>> /\ proc.gen = NoGen
                                       /\ Up => proc.loaded
           /\ ~(PromptKill /\ proc.state = "killed")
           /\ Up => DOMAIN proc.entries \subseteq contexts
<1>1. Known = contexts
  BY DEF Known
<1>2. Up => DOMAIN proc.entries \subseteq contexts
  BY <1>1 DEF IndInv, EntryRules
<1>3. proc.state # "none" /\ ~(PromptKill /\ proc.state = "killed")
  BY DEF IndInv, ProcRules, KillRules
<1>4. proc.state # "killed" => /\ requests = <<>> /\ stdout = <<>> /\ input = <<>> /\ proc.gen = NoGen
                               /\ Up => proc.loaded
  BY DEF IndInv, Flow
<1>5. requests = <<>>
  BY <1>4 DEF IndInv, ProcRules, Up
<1> QED
  BY <1>2, <1>3, <1>4, <1>5

LEMMA JobStep ==
    ASSUME IndInv, [Next]_vars
    PROVE  JobRules'
<1> USE DEF IndInv, JobRules, InCall, jobVars
<1>1. CASE Load \/ Tokenize
  <2>1. /\ Job("load", NoContext, <<>>).op = "load"
        /\ Job("tokenize", NoContext, <<>>).op = "tokenize"
    BY JobTypes DEF Ops
  <2> QED
    BY <1>1, <2>1 DEF Load, Tokenize, Begin
<1>2. ASSUME NEW c \in Contexts, CreateContext(c) PROVE JobRules'
  BY <1>2 DEF CreateContext
<1>3. ASSUME NEW c \in Contexts, DropContext(c) PROVE JobRules'
  <2>1. Job("drop", c, <<>>).op = "drop"
    BY JobTypes DEF Ops
  <2> QED
    BY <1>3, <2>1 DEF DropContext, Write
<1>4. ASSUME NEW c \in Contexts, NEW prompt \in Prompts, Generate(c, prompt) PROVE JobRules'
  <2>1. prompt \in Texts /\ prompt # <<>>
    BY MlxAssumption DEF Texts
  <2>2. Job("generate", c, prompt).ctx = c /\ Job("generate", c, prompt).prompt = prompt
    BY <2>1, JobTypes DEF Ops
  <2> QED
    BY <1>4, <2>1, <2>2 DEF Generate, Begin
<1>5. CASE Unload \/ Cancel \/ Expire \/ ParseDelta \/ ParseDone
  BY <1>5 DEF Unload, Cancel, Expire, ParseDelta, ParseDone, Parsing
<1>6. CASE StartRunning
  BY <1>6 DEF StartRunning, Write
<1>7. CASE Spawn
  BY <1>7 DEF Spawn
<1>8. CASE PollRead
  BY <1>8 DEF PollRead
<1>9. CASE ParseResult
  <2>1. CASE End
    BY <2>1, JobTypes DEF End
  <2>2. CASE Write(job) /\ UNCHANGED job
    BY <1>9, <2>2 DEF Write, ParseResult, Parsing
  <2> QED
    BY <1>9, <2>1, <2>2 DEF ParseResult
<1>10. CASE StartFails \/ PollInterrupted \/ ParseFailure \/ ParseExited \/ ParseLastDelta
  BY <1>10, CallStops, JobTypes
<1>11. CASE \/ HandleLoad \/ HandleTokenize \/ HandleDrop \/ Raise \/ Crash
            \/ \E b \in BOOLEAN : HandleGenerate(b)
            \/ \E token \in Tokens, b \in BOOLEAN : GenerateToken(token, b)
            \/ \E b \in BOOLEAN, usable \in BOOLEAN : GenerateEnd(b, usable)
            \/ UNCHANGED vars
  BY <1>11 DEF HandleLoad, HandleTokenize, HandleDrop, Raise, Crash, HandleGenerate, GenerateToken,
               GenerateEnd, vars
<1> QED
  BY <1>1, <1>2, <1>3, <1>4, <1>5, <1>6, <1>7, <1>8, <1>9, <1>10, <1>11, NextCases

LEMMA RestSteps ==
    ASSUME IndInv,
           \/ Load \/ Tokenize \/ Unload \/ Cancel \/ Expire \/ ParseDone \/ StartRunning
           \/ \E c \in Contexts : CreateContext(c)
           \/ \E c \in Contexts : DropContext(c)
           \/ \E c \in Contexts, prompt \in Prompts : Generate(c, prompt)
           \/ UNCHANGED vars
    PROVE  Rules' /\ proc' \in Procs
<1>1. CASE \/ Load \/ Tokenize \/ Cancel \/ Expire \/ ParseDone
           \/ \E c \in Contexts : CreateContext(c)
           \/ \E c \in Contexts, prompt \in Prompts : Generate(c, prompt)
           \/ UNCHANGED vars
  <2>1. /\ UNCHANGED <<running, input, proc, requests, stdout>>
        /\ contexts \subseteq contexts' /\ (InCall' <=> InCall)
        /\ InCall => calling' = calling /\ job' = job
    BY <1>1 DEF Load, Tokenize, Cancel, Expire, ParseDone, CreateContext, Generate, Begin, InCall,
                pipeVars, vars
  <2> QED
    BY <2>1, QuietStep
<1>2. CASE Unload
  <2>1. Stop(TRUE) /\ ~InCall' /\ TRUE \in BOOLEAN
    BY <1>2 DEF Unload, InCall
  <2> QED
    BY <2>1, StopStep
<1>3. CASE StartRunning
  <2>1. /\ ~InCall /\ running /\ Write(job) /\ input' = Stale(input) /\ UNCHANGED <<proc, running, job, contexts>>
    BY <1>3 DEF StartRunning, InCall
  <2>2. /\ requests = <<>> /\ proc.state # "none"
        /\ proc.state # "killed" => /\ stdout = <<>> /\ input = <<>> /\ proc.gen = NoGen
                                    /\ Up => proc.loaded
        /\ ~(PromptKill /\ proc.state = "killed")
        /\ Up => DOMAIN proc.entries \subseteq contexts
    BY <2>1, NoCall
  <2>3. Write(job') /\ job' \in Jobs
    BY <2>1 DEF Write, IndInv, TypeOK, ServiceTypes
  <2>4. KillRules'
    BY <2>1, <2>2 DEF KillRules
  <2>5. contexts \subseteq Known'
    BY <2>1 DEF Known
  <2>6. proc.state # "killed" => input' = <<>>
    BY <2>1, <2>2, Nothing
  <2> QED
    BY <2>1, <2>2, <2>3, <2>4, <2>5, <2>6, WriteStep
<1>4. ASSUME NEW c \in Contexts, DropContext(c), ~running
      PROVE  Rules' /\ proc' \in Procs
  <2>1. /\ ~InCall /\ ~InCall' /\ UNCHANGED <<running, input, proc, requests, stdout>>
    BY <1>4 DEF DropContext, InCall, pipeVars
  <2>2. ~Up
    BY <1>4 DEF IndInv, ProcRules
  <2>3. ProcRules' /\ GenRules' /\ KillRules' /\ (Flow => Flow') /\ proc' \in Procs
    BY <2>1 DEF IndInv, TypeOK, ProcRules, GenRules, KillRules, Flow, Up
  <2>4. EntryRules'
    BY <2>1, <2>2 DEF IndInv, EntryRules, Up
  <2> QED
    BY <2>1, <2>3, <2>4 DEF Rules, IndInv
<1>5. ASSUME NEW c \in Contexts, DropContext(c), running
      PROVE  Rules' /\ proc' \in Procs
  <2>1. /\ ~InCall /\ job' = Job("drop", c, <<>>) /\ Write(Job("drop", c, <<>>)) /\ input' = Stale(input)
        /\ contexts' = contexts \ {c} /\ UNCHANGED <<proc, running>>
    BY <1>5 DEF DropContext, InCall
  <2>2. /\ requests = <<>> /\ proc.state # "none"
        /\ proc.state # "killed" => /\ stdout = <<>> /\ input = <<>> /\ proc.gen = NoGen
                                    /\ Up => proc.loaded
        /\ ~(PromptKill /\ proc.state = "killed")
        /\ Up => DOMAIN proc.entries \subseteq contexts
    BY <1>5, <2>1, NoCall
  <2>3. Job("drop", c, <<>>) \in Jobs /\ Job("drop", c, <<>>).op = "drop" /\ Job("drop", c, <<>>).ctx = c
    BY JobTypes DEF Ops
  <2>4. Write(job') /\ job' \in Jobs
    BY <2>1, <2>3
  <2>5. KillRules'
    BY <2>1, <2>2 DEF KillRules
  <2>6. proc.state # "killed" => input' = <<>> /\ stdout' = <<>>
    BY <2>1, <2>2, Nothing DEF Write
  <2>7. Up => contexts \subseteq Known'
    <3>1. InCall' /\ calling' = "drop" /\ job'.ctx = c
      BY <2>1, <2>3 DEF Write, InCall
    <3>2. proc.state # "killed" => ~Ends("result")'
      <4>1. proc.state # "killed" => ~Closed(input') /\ ~Closed(stdout')
        BY <2>6, NoLines
      <4> QED
        BY <4>1 DEF Ends, Closed
    <3> QED
      BY <2>1, <3>1, <3>2 DEF Known, Up
  <2> QED
    BY <2>1, <2>2, <2>4, <2>5, <2>6, <2>7, WriteStep
<1> QED
  BY <1>1, <1>2, <1>3, <1>4, <1>5

LEMMA SpawnStep ==
    ASSUME IndInv, Spawn
    PROVE  Rules' /\ proc' \in Procs
<1> DEFINE first == Job("load", NoContext, <<>>)
<1>1. /\ ~InCall /\ proc' = Process("up") /\ running' = TRUE /\ input' = <<>> /\ stdout' = <<>>
      /\ requests' = <<Request(first)>> /\ calling' = "load" /\ InCall'
  BY DEF Spawn, InCall
<1>2. /\ Process("up") \in Procs /\ Process("up").state = "up" /\ ~Process("up").loaded
      /\ Process("up").entries = <<>> /\ Process("up").gen = NoGen
  BY ProcessType
<1>3. Request(first).mine /\ Request(first).op = "load"
  BY JobTypes DEF Ops
<1> HIDE DEF first
<1>4. Len(requests') = 1 /\ requests'[1] = Request(first) /\ requests' # <<>>
  BY <1>1
<1>5. ProcRules' /\ GenRules' /\ KillRules'
  BY <1>1, <1>2 DEF ProcRules, GenRules, KillRules, Up
<1>6. EntryRules'
  BY <1>1, <1>2, CacheTypes DEF EntryRules
<1>7. Flow'
  <2>1. Mine(input)' /\ Mine(stdout)' /\ Open(input)' /\ Open(stdout)'
    BY <1>1, NoLines DEF Mine, Open
  <2>2. OwnRequest'
    BY <1>1, <1>3, <1>4 DEF OwnRequest
  <2>3. ~Ends("result")'
    BY <1>1, Nothing DEF Ends, Closed
  <2> QED
    BY <1>1, <1>4, <2>1, <2>2, <2>3 DEF Flow
<1> QED
  BY <1>1, <1>2, <1>5, <1>6, <1>7 DEF Rules

\* The lines read are in front of the ones that were not.
LEMMA PollReadStep ==
    ASSUME IndInv, PollRead
    PROVE  Rules' /\ proc' \in Procs
<1>1. /\ InCall /\ InCall' /\ input' = input \o stdout /\ stdout' = <<>> /\ (Up => running')
      /\ UNCHANGED <<contexts, job, calling, proc, requests>>
  BY DEF PollRead, InCall, Up
<1>2. input \in Seq(Lines) /\ stdout \in Seq(Lines) /\ proc \in Procs
  BY DEF IndInv, TypeOK, LineTypes
<1>3. proc.state # "none" /\ ~(PromptKill /\ proc.state = "killed")
  BY <1>1 DEF IndInv, ProcRules, KillRules
<1>4. ProcRules' /\ GenRules' /\ KillRules'
  BY <1>1, <1>3 DEF IndInv, ProcRules, GenRules, KillRules, Up
<1>5. Open(stdout)' /\ Mine(stdout)' /\ ~Closed(stdout)'
  BY <1>1, NoLines DEF Open, Mine, Closed
<1>6. ASSUME NEW type, Open(input), Closed(stdout), stdout[Len(stdout)].type = type
      PROVE  Ends(type)'
  <2>1. Closed(input)' /\ input'[Len(input')].type = type
    BY <1>1, <1>2, <1>6, MoreLines DEF Closed
  <2> QED
    BY <1>1, <2>1 DEF Ends
<1>7. ASSUME NEW type, Closed(input), stdout = <<>>, input[Len(input)].type = type
      PROVE  Ends(type)'
  <2>1. input' = input
    BY <1>1, <1>2, <1>7, MoreLines
  <2> QED
    BY <1>1, <1>7, <2>1 DEF Ends, Closed
<1>8. \A type : Ends(type) => Ends(type)'
  BY <1>6, <1>7 DEF Ends
<1>9. Open(input) /\ Open(stdout) => Open(input)'
  BY <1>1, <1>2, MoreLines DEF Open
<1>10. Mine(input) /\ Mine(stdout) => Mine(input)'
  BY <1>1, <1>2, MoreLines DEF Mine
<1>11. ASSUME Flow
       PROVE  Ends("result")' => Ends("result")
  <2>1. CASE Open(input) /\ Open(stdout)
    BY <1>1, <1>2, <1>5, <1>9, <2>1, NoLines DEF Ends, Open, Closed
  <2>2. CASE Ends("error")
    <3>1. Ends("error")'
      BY <1>8, <2>2
    <3>2. "error" # "result" /\ ~Closed(stdout)'
      BY <1>5
    <3> QED
      BY <3>1, <3>2 DEF Ends
  <2> QED
    BY <1>1, <1>11, <2>1, <2>2 DEF Flow, Ended
<1>12. ASSUME Flow
       PROVE  Flow'
  <2>1. CASE Open(input) /\ Open(stdout)
    <3>1. /\ Mine(input) /\ Mine(stdout) /\ ((Up => requests # <<>>) \/ Ended)
          /\ (requests # <<>> => OwnRequest)
          /\ (Up /\ ~proc.loaded => calling = "load" /\ ~Ends("result"))
      BY <1>1, <1>12 DEF Flow
    <3>2. ~Ended
      BY <1>2, <2>1, NoLines DEF Ended, Ends
    <3>3. (requests # <<>> => OwnRequest)' /\ (Up => requests # <<>>)'
      BY <1>1, <3>1, <3>2 DEF OwnRequest, Up
    <3>4. (Up /\ ~proc.loaded => calling = "load" /\ ~Ends("result"))'
      BY <1>1, <1>11, <1>12, <3>1 DEF Up
    <3> QED
      BY <1>1, <1>5, <1>9, <1>10, <2>1, <3>1, <3>3, <3>4 DEF Flow
  <2>2. CASE Ended
    <3>1. Ended' /\ requests' = <<>> /\ proc'.gen = NoGen
      <4>1. ~(Open(input) /\ Open(stdout))
        BY <1>2, <2>2, NoLines DEF Ended, Ends
      <4> QED
        BY <1>1, <1>8, <1>12, <2>2, <4>1 DEF Flow, Ended
    <3> QED
      BY <1>1, <1>5, <1>10, <1>11, <1>12, <3>1 DEF Flow, Up
  <2> QED
    BY <1>1, <1>12, <2>1, <2>2 DEF Flow
<1>13. EntryRules'
  <2>1. Up => Flow
    BY DEF IndInv, Up
  <2>2. Flow => Known \subseteq Known'
    BY <1>1, <1>11 DEF Known
  <2> QED
    BY <1>1, <2>1, <2>2 DEF IndInv, EntryRules, Up
<1> QED
  BY <1>1, <1>2, <1>4, <1>12, <1>13 DEF Rules, IndInv

\* What is left of the lines when one that does not end the call is taken.
LEMMA ParseDeltaStep ==
    ASSUME IndInv, ParseDelta
    PROVE  Rules' /\ proc' \in Procs
<1>1. /\ InCall /\ InCall' /\ input # <<>> /\ Head(input).type = "delta" /\ input' = Tail(input)
      /\ UNCHANGED <<contexts, job, calling, proc, requests, stdout, running>>
  BY DEF ParseDelta, Parsing, InCall, jobVars, pipeVars
<1>2. input \in Seq(Lines) /\ stdout \in Seq(Lines) /\ proc \in Procs
  BY DEF IndInv, TypeOK, LineTypes
<1>3. ~(PromptKill /\ proc.state = "killed")
  BY <1>1 DEF IndInv, KillRules
<1>4. ProcRules' /\ GenRules' /\ KillRules'
  BY <1>1, <1>3 DEF IndInv, ProcRules, GenRules, KillRules, Up
<1>5. Mine(input) => Mine(input)'
  BY <1>1, <1>2, FirstLine DEF Mine
<1>6. Open(input) => Open(input)'
  BY <1>1, <1>2, FirstLine DEF Open
<1>7. Closed(input) => Closed(input)' /\ input'[Len(input')].type = input[Len(input)].type
  BY <1>1, <1>2, FirstLine DEF Closed
<1>8. \A type : Ends(type) => Ends(type)'
  BY <1>1, <1>6, <1>7 DEF Ends, Open, Closed
<1>9. Open(stdout)' <=> Open(stdout)
  BY <1>1 DEF Open
<1>10. ASSUME Flow
       PROVE  Ends("result")' => Ends("result")
  <2>1. CASE Open(input) /\ Open(stdout)
    <3>1. ~Closed(stdout') /\ ~Closed(input')
      <4>1. Open(input') /\ Open(stdout') /\ input' \in Seq(Lines) /\ stdout' \in Seq(Lines)
        BY <1>1, <1>2, <1>6, <1>9, <2>1, Heads DEF Open
      <4> QED
        BY <4>1, NoLines
    <3> QED
      BY <3>1 DEF Ends, Closed
  <2>2. CASE Ends("error")
    <3>1. CASE Closed(input) /\ stdout = <<>> /\ input[Len(input)].type = "error"
      <4>1. stdout' = <<>> /\ input'[Len(input')].type = "error"
        BY <1>1, <1>7, <3>1
      <4>2. ~Closed(stdout')
        BY <4>1, NoLines
      <4> QED
        BY <4>1, <4>2 DEF Ends, Closed
    <3>2. CASE Open(input) /\ Closed(stdout) /\ stdout[Len(stdout)].type = "error"
      <4>1. stdout' = stdout /\ stdout # <<>>
        BY <1>1, <3>2, NoLines
      <4> QED
        BY <3>2, <4>1 DEF Ends, Closed
    <3> QED
      BY <2>2, <3>1, <3>2 DEF Ends
  <2> QED
    BY <1>1, <1>10, <2>1, <2>2 DEF Flow, Ended
<1>11. ASSUME Flow
       PROVE  Flow'
  <2>1. Mine(stdout)' <=> Mine(stdout)
    BY <1>1 DEF Mine
  <2>2. Ended => Ended'
    BY <1>8 DEF Ended
  <2> QED
    BY <1>1, <1>5, <1>6, <1>9, <1>10, <1>11, <2>1, <2>2 DEF Flow, OwnRequest, Up
<1>12. EntryRules'
  <2>1. Up => Flow
    BY DEF IndInv, Up
  <2>2. Flow => Known \subseteq Known'
    BY <1>1, <1>10 DEF Known
  <2> QED
    BY <1>1, <2>1, <2>2 DEF IndInv, EntryRules, Up
<1> QED
  BY <1>1, <1>2, <1>4, <1>11, <1>12 DEF Rules, IndInv

\* The line that is read last ends the call, or start()'s part of it.
LEMMA ParseResultStep ==
    ASSUME IndInv, ParseResult
    PROVE  Rules' /\ proc' \in Procs
<1>1. /\ InCall /\ input # <<>> /\ Head(input).type = "result"
      /\ UNCHANGED <<contexts, proc, running>>
  BY DEF ParseResult, Parsing, InCall
<1>2. input \in Seq(Lines) /\ stdout \in Seq(Lines) /\ proc \in Procs /\ job \in Jobs
  BY DEF IndInv, TypeOK, LineTypes, ServiceTypes
<1>3. proc.state # "none" /\ ~(PromptKill /\ proc.state = "killed")
  BY <1>1 DEF IndInv, ProcRules, KillRules
<1>4. ASSUME proc.state # "killed"
      PROVE  /\ Tail(input) = <<>> /\ stdout = <<>> /\ requests = <<>> /\ proc.gen = NoGen
             /\ Ends("result") /\ (Up => proc.loaded)
  <2>1. Flow
    BY <1>4 DEF IndInv
  <2>2. ~Open(input)
    BY <1>1, <1>2, FirstLine
  <2>3. Ended /\ requests = <<>> /\ proc.gen = NoGen
    BY <1>1, <2>1, <2>2 DEF Flow
  <2>4. Closed(input) /\ stdout = <<>>
    BY <2>2, <2>3 DEF Ended, Ends
  <2>5. Tail(input) = <<>> /\ input[Len(input)].type = "result"
    BY <1>1, <1>2, <2>4, FirstLine
  <2>6. Ends("result")
    BY <2>4, <2>5 DEF Ends
  <2> QED
    BY <1>1, <2>1, <2>3, <2>4, <2>5, <2>6 DEF Flow
<1>5. requests = <<>>
  BY <1>4 DEF IndInv, ProcRules, Up
<1>6. Up => DOMAIN proc.entries \subseteq contexts
  BY <1>4 DEF IndInv, EntryRules, Known, Up
<1>7. KillRules'
  BY <1>1, <1>3 DEF KillRules
<1>8. CASE End /\ input' = Tail(input) /\ UNCHANGED <<requests, stdout>>
  <2>1. ~InCall'
    BY <1>8 DEF End, InCall
  <2>2. ProcRules'
    BY <1>1, <1>3, <1>8 DEF IndInv, ProcRules, Up
  <2>3. proc.state # "killed" => Flow'
    BY <1>1, <1>4, <1>8, <2>1 DEF Flow, Up
  <2>4. GenRules'
    BY <1>1, <1>5, <1>8 DEF IndInv, GenRules
  <2>5. EntryRules'
    <3>1. contexts \subseteq Known'
      BY <1>1 DEF Known
    <3> QED
      BY <1>1, <1>6, <3>1 DEF IndInv, EntryRules, Up
  <2> QED
    BY <1>1, <1>2, <1>7, <2>2, <2>3, <2>4, <2>5 DEF Rules
<1>9. CASE Write(job) /\ input' = Stale(Tail(input)) /\ UNCHANGED job
  <2>1. Write(job') /\ job' \in Jobs
    BY <1>2, <1>9 DEF Write
  <2>2. proc.state # "killed" => input' = <<>>
    BY <1>4, <1>9, Nothing
  <2>3. contexts \subseteq Known'
    BY <1>1 DEF Known
  <2>4. Up => DOMAIN proc.entries \subseteq Known'
    BY <1>6, <2>3
  <2> QED
    BY <1>1, <1>3, <1>4, <1>5, <1>7, <2>1, <2>2, <2>4, WriteStep
<1> QED
  BY <1>8, <1>9 DEF ParseResult

-----------------------------------------------------------------------------
(* The steps of the process.                                               *)

\* A process that has a request to answer has not ended the call.
LEMMA Asked ==
    ASSUME IndInv, Up, requests # <<>>
    PROVE  /\ Flow /\ InCall /\ running
           /\ Open(input) /\ Open(stdout) /\ Mine(input) /\ Mine(stdout)
           /\ \A type : ~Ends(type)
           /\ OwnRequest /\ Head(requests) = requests[1] /\ Tail(requests) = <<>>
           /\ ~proc.loaded => calling = "load"
           /\ input \in Seq(Lines) /\ stdout \in Seq(Lines) /\ requests[1] \in Requests
           /\ proc \in Procs
<1>1. Flow /\ running
  BY DEF IndInv, Up, ProcRules
<1>2. InCall /\ OwnRequest
  BY <1>1 DEF Flow
<1>3. /\ input \in Seq(Lines) /\ stdout \in Seq(Lines) /\ requests \in Seq(Requests)
      /\ proc \in Procs
  BY DEF IndInv, TypeOK, LineTypes
<1>4. Open(input) /\ Open(stdout) /\ Mine(input) /\ Mine(stdout)
  BY <1>1, <1>2 DEF Flow
<1>5. \A type : ~Ends(type)
  BY <1>3, <1>4, NoLines DEF Ends
<1>6. Head(requests) = requests[1] /\ Head(requests) \in Requests
  BY <1>3, Heads
<1>7. Tail(requests) = <<>>
  <2>1. Len(requests) = 1 /\ Tail(requests) \in Seq(Requests) /\ Len(Tail(requests)) = Len(requests) - 1
    BY <1>2, <1>3, Heads DEF OwnRequest
  <2>2. Len(Tail(requests)) = 0
    BY <2>1
  <2> QED
    BY <2>1, <2>2, Nothing
<1>8. ~proc.loaded => calling = "load"
  BY <1>1, <1>2 DEF Flow
<1> QED
  BY <1>1, <1>2, <1>3, <1>4, <1>5, <1>6, <1>7, <1>8

\* An answer, whatever the process did for it: it ends the call.
LEMMA AnswerStep ==
    ASSUME IndInv, Up, requests # <<>>, NEW type \in {"result", "error"}, Answer(type),
           UNCHANGED <<contexts, job, at, calling, running, input>>,
           proc' \in Procs, proc'.state = "up", proc'.gen = NoGen,
           proc'.loaded \/ (type = "error" /\ proc'.loaded = proc.loaded),
           \A c \in DOMAIN proc'.entries : proc'.entries[c].tokens = proc'.entries[c].cache,
           \/ DOMAIN proc'.entries \subseteq contexts
           \/ type = "error" /\ DOMAIN proc'.entries \subseteq DOMAIN proc.entries
    PROVE  Rules' /\ proc' \in Procs
<1> DEFINE line == [type |-> type, mine |-> Head(requests).mine]
<1>1. /\ Flow /\ InCall /\ running
      /\ Open(input) /\ Open(stdout) /\ Mine(input) /\ Mine(stdout)
      /\ \A t : ~Ends(t)
      /\ OwnRequest /\ Head(requests) = requests[1] /\ Tail(requests) = <<>>
      /\ ~proc.loaded => calling = "load"
      /\ input \in Seq(Lines) /\ stdout \in Seq(Lines) /\ requests[1] \in Requests
  BY Asked
<1>2. line \in Lines /\ line.mine /\ line.type = type /\ type # "delta"
  BY <1>1 DEF Lines, Requests, OwnRequest
<1>3. stdout' = Append(stdout, line) /\ requests' = <<>>
  BY <1>1 DEF Answer, Emit
<1> HIDE DEF line
<1>4. Mine(stdout') /\ Closed(stdout') /\ stdout'[Len(stdout')].type = type
  BY <1>1, <1>2, <1>3, OneMoreLine
<1>5. Mine(stdout)' /\ Closed(stdout)' /\ Mine(input)' /\ Open(input)' /\ InCall'
  BY <1>1, <1>4 DEF Mine, Closed, Open, InCall
<1>6. Ends(type)'
  BY <1>4, <1>5 DEF Ends
<1>7. type = "error" => ~Ends("result")'
  <2>1. ~Closed(input')
    BY <1>1, NoLines
  <2>2. ~Closed(input)'
    BY <2>1 DEF Closed
  <2> QED
    BY <1>4, <2>2 DEF Ends
<1>8. Flow'
  <2>1. Ended' /\ requests' = <<>> /\ proc'.gen = NoGen
    BY <1>3, <1>6 DEF Ended
  <2>2. (Up /\ ~proc.loaded)' => calling' = "load" /\ ~Ends("result")'
    BY <1>1, <1>7
  <2> QED
    BY <1>5, <2>1, <2>2 DEF Flow
<1>9. ProcRules' /\ GenRules' /\ KillRules'
  BY <1>1 DEF ProcRules, GenRules, KillRules, Up
<1>10. EntryRules'
  <2>1. contexts \subseteq Known'
    BY DEF Known
  <2>2. type = "error" => Known \subseteq Known'
    BY <1>7 DEF Known, InCall
  <2>3. DOMAIN proc'.entries \subseteq Known'
    BY <2>1, <2>2 DEF IndInv, EntryRules
  <2> QED
    BY <2>3 DEF EntryRules
<1> QED
  BY <1>8, <1>9, <1>10 DEF Rules

\* A generation is asked for by a context that is there.
LEMMA AskedToGenerate ==
    ASSUME IndInv, Handles("generate")
    PROVE  /\ calling = "generate" /\ job.op = "generate"
           /\ requests[1].ctx = job.ctx /\ requests[1].prompt = job.prompt
           /\ job.ctx \in contexts /\ job.prompt # <<>> /\ job.prompt \in Texts /\ job.ctx \in Ctx
           /\ Known = contexts
<1>1. Up /\ requests # <<>> /\ Head(requests).op = "generate"
  BY DEF Handles, Up
<1>2. OwnRequest /\ Head(requests) = requests[1] /\ InCall
  BY <1>1, Asked
<1>3. calling = "generate" /\ requests[1].ctx = job.ctx /\ requests[1].prompt = job.prompt
  BY <1>1, <1>2 DEF OwnRequest
<1>4. job.op = "generate" /\ job.ctx \in contexts /\ job.prompt # <<>>
  BY <1>2, <1>3 DEF IndInv, JobRules
<1> QED
  BY <1>3, <1>4 DEF IndInv, TypeOK, ServiceTypes, Jobs, Known

LEMMA AnswerSteps ==
    ASSUME IndInv, HandleLoad \/ HandleTokenize \/ HandleDrop \/ Raise
    PROVE  Rules' /\ proc' \in Procs
<1>1. Up /\ requests # <<>> /\ UNCHANGED <<contexts, job, at, calling, running, input>>
  BY DEF HandleLoad, HandleTokenize, HandleDrop, Raise, Handles, Up, jobVars
<1>2. /\ InCall /\ OwnRequest /\ Head(requests) = requests[1] /\ proc \in Procs
      /\ requests[1] \in Requests
  BY <1>1, Asked
<1>3. /\ proc.state = "up" /\ proc.gen \in Gens /\ proc.entries \in Caches /\ proc.loaded \in BOOLEAN
      /\ \A c \in DOMAIN proc.entries : proc.entries[c].tokens = proc.entries[c].cache
      /\ DOMAIN proc.entries \subseteq Known
  BY <1>1, <1>2 DEF IndInv, EntryRules, Procs, Up
<1>4. "result" \in {"result", "error"} /\ "error" \in {"result", "error"}
  OBVIOUS
<1>5. CASE HandleLoad
  <2>1. Answer("result") /\ proc' = [proc EXCEPT !.loaded = TRUE, !.entries = <<>>] /\ requests[1].op = "load"
    BY <1>2, <1>5 DEF HandleLoad, Handles
  <2>2. proc.gen = NoGen
    BY <2>1 DEF IndInv, GenRules
  <2>3. proc' \in Procs
    BY <1>2, <2>1, CacheTypes DEF Procs
  <2>4. proc'.state = "up" /\ proc'.loaded /\ proc'.gen = NoGen /\ proc'.entries = <<>>
    BY <1>2, <1>3, <2>1, <2>2 DEF Procs
  <2> QED
    BY <1>1, <1>4, <2>1, <2>3, <2>4, AnswerStep, CacheTypes
<1>6. CASE HandleTokenize
  <2>1. Answer("result") /\ proc' = proc /\ requests[1].op = "tokenize" /\ proc.loaded
    BY <1>2, <1>6 DEF HandleTokenize, Handles
  <2>2. proc.gen = NoGen
    BY <2>1 DEF IndInv, GenRules
  <2>3. Known = contexts
    BY <1>2, <2>1 DEF Known, OwnRequest
  <2> QED
    BY <1>1, <1>2, <1>3, <1>4, <2>1, <2>2, <2>3, AnswerStep
<1>7. CASE HandleDrop
  <2>1. /\ Answer("result") /\ requests[1].op = "drop" /\ proc.loaded
        /\ proc' = [proc EXCEPT !.entries = Without(@, requests[1].ctx)]
    BY <1>2, <1>7 DEF HandleDrop, Handles
  <2>2. proc.gen = NoGen
    BY <2>1 DEF IndInv, GenRules
  <2>3. requests[1].ctx = job.ctx
    BY <1>2, <2>1 DEF OwnRequest
  <2>4. /\ Without(proc.entries, job.ctx) \in Caches
        /\ DOMAIN Without(proc.entries, job.ctx) = DOMAIN proc.entries \ {job.ctx}
        /\ \A k \in DOMAIN proc.entries \ {job.ctx} : Without(proc.entries, job.ctx)[k] = proc.entries[k]
    <3> DEFINE c == job.ctx
    <3> HIDE DEF c
    <3>1. /\ Without(proc.entries, c) \in Caches
          /\ DOMAIN Without(proc.entries, c) = DOMAIN proc.entries \ {c}
          /\ \A k \in DOMAIN proc.entries \ {c} : Without(proc.entries, c)[k] = proc.entries[k]
      BY <1>3, CacheTypes
    <3> QED
      BY <3>1 DEF c
  <2>5. proc' = [proc EXCEPT !.entries = Without(proc.entries, job.ctx)]
    BY <2>1, <2>3
  <2>6. proc' \in Procs /\ proc'.entries = Without(proc.entries, job.ctx)
    BY <1>2, <2>4, <2>5 DEF Procs
  <2>7. proc'.state = "up" /\ proc'.loaded /\ proc'.gen = NoGen
    BY <1>2, <1>3, <2>1, <2>2, <2>5 DEF Procs
  <2>8. DOMAIN proc'.entries \subseteq contexts
    BY <1>3, <2>4, <2>6 DEF Known
  <2>9. \A c \in DOMAIN proc'.entries : proc'.entries[c].tokens = proc'.entries[c].cache
    BY <1>3, <2>4, <2>6
  <2> QED
    BY <1>1, <1>4, <2>1, <2>6, <2>7, <2>8, <2>9, AnswerStep
<1>8. CASE Raise
  <2>1. Answer("error") /\ proc' = [proc EXCEPT !.gen = NoGen]
    BY <1>8 DEF Raise
  <2>2. proc' \in Procs
    BY <1>2, <2>1, ProcessType DEF Procs
  <2>3. /\ proc'.state = "up" /\ proc'.gen = NoGen /\ proc'.entries = proc.entries
        /\ proc'.loaded = proc.loaded
    BY <1>2, <1>3, <2>1 DEF Procs
  <2> QED
    BY <1>1, <1>3, <1>4, <2>1, <2>2, <2>3, AnswerStep
<1> QED
  BY <1>5, <1>6, <1>7, <1>8

\* A generation begins.
LEMMA HandleGenerateStep ==
    ASSUME IndInv, NEW trims \in BOOLEAN, HandleGenerate(trims)
    PROVE  Rules' /\ proc' \in Procs
<1> DEFINE prompt == requests[1].prompt
           c == requests[1].ctx
           entries == Without(proc.entries, c)
           gen == PrepareCache(proc.entries, c, prompt, trims)
<1>1. /\ Up /\ requests # <<>> /\ Handles("generate")
      /\ UNCHANGED <<contexts, job, at, calling, running, input, requests, stdout>>
  BY DEF HandleGenerate, Handles, Up, jobVars, pipeVars
<1>2. /\ Flow /\ InCall /\ running /\ OwnRequest /\ Head(requests) = requests[1] /\ proc \in Procs
      /\ \A t : ~Ends(t)
  BY <1>1, Asked
<1>3. /\ proc.state = "up" /\ proc.entries \in Caches
      /\ \A k \in DOMAIN proc.entries : proc.entries[k].tokens = proc.entries[k].cache
      /\ DOMAIN proc.entries \subseteq Known
  BY <1>1, <1>2 DEF IndInv, EntryRules, Procs, Up
<1>4. prompt \in Texts /\ prompt # <<>> /\ Known = contexts /\ requests[1].op = "generate"
  BY <1>1, <1>2, AskedToGenerate DEF Handles
<1>5. proc' = [proc EXCEPT !.entries = entries, !.gen = gen]
  BY <1>2 DEF HandleGenerate
<1>6. /\ gen \in Gens /\ gen.all = prompt /\ gen.reused < Len(prompt)
      /\ gen.kept = SubSeq(prompt, 1, gen.reused)
  BY <1>3, <1>4, Prepared
<1>7. /\ entries \in Caches
      /\ DOMAIN entries = DOMAIN proc.entries \ {c}
      /\ \A k \in DOMAIN proc.entries \ {c} : entries[k] = proc.entries[k]
  BY <1>3, CacheTypes
<1> HIDE DEF gen, entries, c
<1>8. proc' \in Procs
  BY <1>2, <1>5, <1>6, <1>7 DEF Procs
<1>9. /\ proc'.state = "up" /\ proc'.loaded = proc.loaded /\ proc'.entries = entries /\ proc'.gen = gen
  BY <1>2, <1>3, <1>5 DEF Procs
<1>10. \A type : Ends(type)' <=> Ends(type)
  BY <1>1 DEF Ends, Open, Closed
<1>11. ProcRules' /\ KillRules'
  BY <1>1, <1>2, <1>9 DEF ProcRules, KillRules, Up
<1>12. GenRules'
  <2>1. Len(prompt) \in Nat
    BY <1>4, LenProperties DEF Texts
  <2>2. requests' # <<>> /\ requests'[1].op = "generate" /\ requests'[1].prompt = prompt
    BY <1>1, <1>4
  <2> HIDE DEF prompt
  <2>3. gen.reused < Len(prompt) /\ Len(prompt) <= Len(gen.all) /\ \A i \in 1 .. Len(prompt) : gen.all[i] = prompt[i]
    BY <1>6, <2>1
  <2> QED
    BY <1>6, <1>9, <2>2, <2>3 DEF GenRules
<1>13. EntryRules'
  <2>1. Known' = Known
    BY <1>1, <1>10 DEF Known, InCall
  <2> QED
    BY <1>3, <1>7, <1>9, <2>1 DEF EntryRules
<1>14. Flow'
  <2>1. /\ Mine(input)' /\ Mine(stdout)' /\ Open(input)' /\ Open(stdout)' /\ OwnRequest' /\ InCall'
    BY <1>1, <1>2, Asked DEF Mine, Open, OwnRequest, InCall
  <2>2. (Up /\ ~proc.loaded)' => calling' = "load" /\ ~Ends("result")'
    BY <1>1, <1>2, <1>9, <1>10, Asked
  <2> QED
    BY <1>1, <2>1, <2>2 DEF Flow
<1> QED
  BY <1>8, <1>11, <1>12, <1>13, <1>14 DEF Rules

\* A generation under way: what it holds, and what it was asked for.
LEMMA Underway ==
    ASSUME IndInv, Generating
    PROVE  /\ Up /\ requests # <<>> /\ proc.gen \in Gens /\ proc.loaded
           /\ requests[1].prompt \in Texts /\ requests[1].op = "generate"
           /\ proc.gen.reused < Len(requests[1].prompt)
           /\ proc.gen.kept = SubSeq(requests[1].prompt, 1, proc.gen.reused)
           /\ Len(requests[1].prompt) <= Len(proc.gen.all)
           /\ \A i \in 1 .. Len(requests[1].prompt) : proc.gen.all[i] = requests[1].prompt[i]
           /\ Generated = Len(proc.gen.all) - Len(requests[1].prompt)
<1>1. Up /\ requests # <<>> /\ Handles("generate") /\ proc.gen # NoGen
  BY DEF Generating, Handles, Up
<1>2. Head(requests) = requests[1] /\ proc \in Procs /\ (~proc.loaded => calling = "load")
  BY <1>1, Asked
<1>3. requests[1].prompt \in Texts /\ calling = "generate"
  BY <1>1, AskedToGenerate
<1>4. proc.gen \in Gens /\ proc.loaded \in BOOLEAN
  BY <1>2 DEF Procs
<1> QED
  BY <1>1, <1>2, <1>3, <1>4 DEF IndInv, GenRules, Generated

LEMMA GenerateTokenStep ==
    ASSUME IndInv, NEW token \in Tokens, NEW text \in BOOLEAN, GenerateToken(token, text)
    PROVE  Rules' /\ proc' \in Procs
<1> DEFINE prompt == requests[1].prompt
           was == proc.gen.all
           all == Append(proc.gen.all, token)
           line == [type |-> "delta", mine |-> Head(requests).mine]
<1>1. /\ Generating
      /\ proc' = [proc EXCEPT !.gen.all = Append(@, token)]
      /\ stdout' = IF text THEN Append(stdout, line) ELSE stdout
      /\ UNCHANGED <<contexts, job, at, calling, running, input, requests>>
  BY DEF GenerateToken, jobVars, Emit
<1>2. /\ Up /\ requests # <<>> /\ proc.gen \in Gens
      /\ prompt \in Texts /\ requests[1].op = "generate"
      /\ proc.gen.reused < Len(prompt)
      /\ proc.gen.kept = SubSeq(prompt, 1, proc.gen.reused)
      /\ Len(prompt) <= Len(was)
      /\ \A i \in 1 .. Len(prompt) : was[i] = prompt[i]
      /\ proc.loaded
  BY <1>1, Underway
<1>3. /\ InCall /\ running /\ proc \in Procs
      /\ Open(input) /\ Open(stdout) /\ Mine(input) /\ Mine(stdout)
      /\ \A t : ~Ends(t)
      /\ OwnRequest /\ Head(requests) = requests[1]
      /\ input \in Seq(Lines) /\ stdout \in Seq(Lines) /\ requests[1] \in Requests
  BY <1>2, Asked
<1>4. /\ proc.state = "up" /\ was \in Texts
      /\ \A c \in DOMAIN proc.entries : proc.entries[c].tokens = proc.entries[c].cache
      /\ DOMAIN proc.entries \subseteq Known
  BY <1>2 DEF IndInv, EntryRules, Up, Gens
<1>5. line \in Lines /\ line.mine /\ line.type = "delta"
  BY <1>3 DEF Lines, Requests, OwnRequest
<1> HIDE DEF line
<1>6. Mine(stdout') /\ Open(stdout') /\ stdout' \in Seq(Lines)
  BY <1>1, <1>3, <1>5, OneMoreLine, Heads
<1>7. all \in Texts /\ Len(all) = Len(was) + 1 /\ \A i \in 1 .. Len(was) : all[i] = was[i]
  BY <1>4, AppendProperties DEF Texts
<1>8. Len(prompt) \in Nat /\ Len(was) \in Nat
  BY <1>2, <1>4, LenProperties DEF Texts
<1>9. Len(prompt) <= Len(all) /\ \A i \in 1 .. Len(prompt) : all[i] = prompt[i]
  <2> DEFINE n == Len(prompt)
             m == Len(was)
             k == Len(all)
  <2>1. n \in Nat /\ m \in Nat /\ n <= m /\ k = m + 1
    BY <1>2, <1>7, <1>8
  <2>2. (\A i \in 1 .. n : was[i] = prompt[i]) /\ (\A i \in 1 .. m : all[i] = was[i])
    BY <1>2, <1>7
  <2> HIDE DEF n, m, k, was, all, prompt
  <2>3. n <= k /\ \A i \in 1 .. n : all[i] = prompt[i]
    BY <2>1, <2>2
  <2> QED
    BY <2>3 DEF n, k
<1>10. proc' = [proc EXCEPT !.gen = [proc.gen EXCEPT !.all = all]]
  BY <1>1
<1> HIDE DEF all
<1>11. /\ proc'.state = "up" /\ proc'.loaded /\ proc'.entries = proc.entries
       /\ proc'.gen.all = all /\ proc'.gen.reused = proc.gen.reused /\ proc'.gen.kept = proc.gen.kept
  BY <1>2, <1>3, <1>4, <1>10 DEF Procs, Gens
<1>12. proc' \in Procs
  <2>1. [proc.gen EXCEPT !.all = all] \in Gens
    BY <1>2, <1>7 DEF Gens
  <2> QED
    BY <1>3, <1>10, <2>1 DEF Procs
<1>13. \A type : ~Ends(type)'
  <2>1. Open(input') /\ input' \in Seq(Lines)
    BY <1>1, <1>3
  <2>2. ~Closed(input') /\ ~Closed(stdout')
    BY <1>6, <2>1, NoLines
  <2> QED
    BY <2>2 DEF Ends, Closed
<1>14. ProcRules' /\ KillRules'
  BY <1>1, <1>3, <1>11 DEF ProcRules, KillRules, Up
<1>15. GenRules'
  <2>1. requests' # <<>> /\ requests'[1].op = "generate" /\ requests'[1].prompt = prompt
    BY <1>1, <1>2
  <2> HIDE DEF prompt
  <2> QED
    BY <1>2, <1>9, <1>11, <2>1 DEF GenRules
<1>16. EntryRules'
  <2>1. Known' = Known
    BY <1>1, <1>3, <1>13 DEF Known, InCall
  <2> QED
    BY <1>4, <1>11, <2>1 DEF EntryRules
<1>17. Flow'
  <2>1. /\ Mine(input)' /\ Mine(stdout)' /\ Open(input)' /\ Open(stdout)' /\ OwnRequest' /\ InCall'
    BY <1>1, <1>3, <1>6 DEF Mine, Open, OwnRequest, InCall
  <2> QED
    BY <1>1, <1>2, <1>11, <2>1 DEF Flow
<1> QED
  BY <1>12, <1>14, <1>15, <1>16, <1>17 DEF Rules

\* The entry that is left names what was fed.
LEMMA EntryIsExact ==
    ASSUME IndInv, Generating, Generated > 0, NEW ahead \in BOOLEAN
    PROVE  LET n == Len(proc.gen.all) - (IF ahead THEN 0 ELSE 1)
           IN Entry(n) \in Kept /\ Entry(n).tokens = Entry(n).cache
<1> DEFINE prompt == requests[1].prompt
           all == proc.gen.all
           n == Len(all) - (IF ahead THEN 0 ELSE 1)
<1>1. /\ proc.gen \in Gens /\ prompt \in Texts
      /\ proc.gen.reused < Len(prompt)
      /\ proc.gen.kept = SubSeq(prompt, 1, proc.gen.reused)
      /\ Len(prompt) <= Len(all)
      /\ \A i \in 1 .. Len(prompt) : all[i] = prompt[i]
      /\ Len(all) - Len(prompt) > 0
  BY Underway
<1>2. all \in Texts /\ proc.gen.reused \in Nat
  BY <1>1 DEF Gens
<1>3. Len(all) \in Nat /\ Len(prompt) \in Nat
  BY <1>1, <1>2, LenProperties DEF Texts
<1>4. n \in Nat /\ n <= Len(all) /\ proc.gen.reused <= n /\ proc.gen.reused <= Len(prompt)
  <2> DEFINE l == Len(all)
             k == Len(prompt)
             r == proc.gen.reused
  <2>1. l \in Nat /\ k \in Nat /\ r \in Nat /\ r < k /\ l - k > 0 /\ k <= l
    BY <1>1, <1>2, <1>3
  <2>2. n = l - (IF ahead THEN 0 ELSE 1)
    OBVIOUS
  <2> HIDE DEF l, k, r, n
  <2>3. n \in Nat /\ n <= l /\ r <= n /\ r <= k
    BY <2>1, <2>2
  <2> QED
    BY <2>3 DEF l, k, r
<1> HIDE DEF n, prompt
<1>5. Evaluated(n) = SubSeq(all, 1, n)
  <2> DEFINE r == proc.gen.reused
  <2>1. r \in Nat /\ r <= Len(prompt) /\ r <= n /\ proc.gen.kept = SubSeq(prompt, 1, r)
    BY <1>1, <1>2, <1>4
  <2>2. Evaluated(n) = proc.gen.kept \o SubSeq(all, r + 1, n)
    BY DEF Evaluated
  <2> HIDE DEF r, all
  <2>3. SubSeq(prompt, 1, r) \o SubSeq(all, r + 1, n) = SubSeq(all, 1, n)
    BY <1>1, <1>2, <1>4, <2>1, FedIsFirst
  <2> QED
    BY <2>1, <2>2, <2>3
<1>6. n \in 0 .. Len(all)
  BY <1>3, <1>4
<1>7. SubSeq(all, 1, n) \in Texts /\ Len(SubSeq(all, 1, n)) = n
  BY <1>2, <1>6, FirstTokens
<1>8. Entry(n) = [tokens |-> SubSeq(all, 1, n), cache |-> SubSeq(all, 1, n)]
  BY <1>5, <1>7 DEF Entry
<1>9. Entry(n) \in Kept /\ Entry(n).tokens = Entry(n).cache
  <2> DEFINE text == SubSeq(all, 1, n)
  <2>1. text \in Texts /\ Entry(n) = [tokens |-> text, cache |-> text]
    BY <1>7, <1>8
  <2> HIDE DEF text
  <2> QED
    BY <2>1 DEF Kept
<1> QED
  BY <1>9 DEF n

LEMMA GenerateEndStep ==
    ASSUME IndInv, NEW ahead \in BOOLEAN, NEW usable \in BOOLEAN, GenerateEnd(ahead, usable)
    PROVE  Rules' /\ proc' \in Procs
<1> DEFINE n == Len(proc.gen.all) - (IF ahead THEN 0 ELSE 1)
           entry == Entry(n)
           c == Head(requests).ctx
           keep == usable /\ Len(Evaluated(n)) <= Len(proc.gen.all)
           entries == IF keep THEN With(proc.entries, c, entry) ELSE proc.entries
<1>1. /\ Generating /\ Generated > 0 /\ Answer("result")
      /\ UNCHANGED <<contexts, job, at, calling, running, input>>
  BY DEF GenerateEnd, jobVars
<1>2. proc' = [proc EXCEPT !.entries = entries, !.gen = NoGen]
  BY DEF GenerateEnd
<1>3. entry \in Kept /\ entry.tokens = entry.cache
  BY <1>1, EntryIsExact
<1>4. Up /\ requests # <<>> /\ proc.loaded /\ Handles("generate")
  BY <1>1, Underway DEF Generating
<1>5. proc \in Procs /\ c \in contexts /\ c \in Ctx /\ Known = contexts
  BY <1>4, Asked, AskedToGenerate
<1>6. /\ proc.state = "up" /\ proc.entries \in Caches
      /\ \A k \in DOMAIN proc.entries : proc.entries[k].tokens = proc.entries[k].cache
      /\ DOMAIN proc.entries \subseteq contexts
  BY <1>4, <1>5 DEF IndInv, EntryRules, Procs, Up
<1> HIDE DEF entry, c, keep
<1>7. /\ With(proc.entries, c, entry) \in Caches
      /\ DOMAIN With(proc.entries, c, entry) = DOMAIN proc.entries \cup {c}
      /\ \A k \in DOMAIN proc.entries \cup {c} :
             With(proc.entries, c, entry)[k] = IF k = c THEN entry ELSE proc.entries[k]
  <2> DEFINE e == proc.entries
  <2>1. e \in Caches /\ c \in Ctx /\ entry \in Kept
    BY <1>3, <1>5, <1>6
  <2> HIDE DEF e
  <2>2. /\ With(e, c, entry) \in Caches
        /\ DOMAIN With(e, c, entry) = DOMAIN e \cup {c}
        /\ \A k \in DOMAIN e \cup {c} : With(e, c, entry)[k] = IF k = c THEN entry ELSE e[k]
    <3>1. \A d \in Ctx, x \in Kept :
             /\ With(e, d, x) \in Caches
             /\ DOMAIN With(e, d, x) = DOMAIN e \cup {d}
             /\ \A k \in DOMAIN e \cup {d} : With(e, d, x)[k] = IF k = d THEN x ELSE e[k]
      BY <2>1, CacheTypes, Zenon
    <3> QED
      BY <2>1, <3>1, Zenon
  <2> QED
    BY <2>2 DEF e
<1>8. /\ entries \in Caches /\ DOMAIN entries \subseteq contexts
      /\ \A k \in DOMAIN entries : entries[k].tokens = entries[k].cache
  <2>1. CASE keep
    BY <1>3, <1>5, <1>6, <1>7, <2>1
  <2>2. CASE ~keep
    BY <1>6, <2>2
  <2> QED
    BY <2>1, <2>2
<1> HIDE DEF entries
<1>9. proc' \in Procs
  BY <1>2, <1>5, <1>8, ProcessType DEF Procs
<1>10. proc'.state = "up" /\ proc'.loaded /\ proc'.gen = NoGen /\ proc'.entries = entries
  BY <1>2, <1>4, <1>5, <1>6 DEF Procs
<1>11. "result" \in {"result", "error"}
  OBVIOUS
<1> QED
  BY <1>1, <1>4, <1>8, <1>9, <1>10, <1>11, AnswerStep

LEMMA CrashStep ==
    ASSUME IndInv, Crash
    PROVE  Rules' /\ proc' \in Procs
<1>1. /\ Up /\ proc' = Process("dead") /\ requests' = <<>>
      /\ UNCHANGED <<contexts, job, at, calling, running, input, stdout>>
  BY DEF Crash, Up, jobVars
<1>2. /\ Process("dead") \in Procs /\ Process("dead").state = "dead" /\ ~Process("dead").loaded
      /\ Process("dead").entries = <<>> /\ Process("dead").gen = NoGen
  BY ProcessType
<1>3. ProcRules' /\ GenRules' /\ KillRules'
  BY <1>1, <1>2 DEF ProcRules, GenRules, KillRules, Up
<1>4. EntryRules'
  BY <1>1, <1>2, CacheTypes DEF EntryRules, Up
<1>5. Flow'
  <2>1. Flow
    BY <1>1 DEF IndInv, Up
  <2>2. Ended => Ended'
    BY <1>1 DEF Ended, Ends, Open, Closed
  <2>3. /\ Mine(input)' <=> Mine(input)
        /\ Mine(stdout)' <=> Mine(stdout)
        /\ Open(input)' <=> Open(input)
        /\ Open(stdout)' <=> Open(stdout)
        /\ InCall' <=> InCall
    BY <1>1 DEF Mine, Open, InCall
  <2> QED
    BY <1>1, <1>2, <2>1, <2>2, <2>3 DEF Flow, Up
<1> QED
  BY <1>1, <1>2, <1>3, <1>4, <1>5 DEF Rules

-----------------------------------------------------------------------------
(* What holds of every execution.                                          *)

LEMMA InvariantInit ==
    Init => IndInv
<1> SUFFICES ASSUME Init
             PROVE  IndInv
  OBVIOUS
<1>1. TypeOK
  BY TypeInit
<1>2. /\ proc = Process("none") /\ at = "rest" /\ ~running /\ input = <<>> /\ stdout = <<>>
      /\ requests = <<>> /\ job = NoJob
  BY DEF Init
<1>3. /\ proc.state = "none" /\ ~proc.loaded /\ proc.entries = <<>> /\ proc.gen = NoGen
  BY <1>2, ProcessType
<1>4. JobRules /\ ProcRules /\ Flow /\ GenRules /\ EntryRules /\ KillRules
  BY <1>2, <1>3, JobTypes, CacheTypes
     DEF JobRules, ProcRules, Flow, GenRules, EntryRules, KillRules, InCall, Up
<1> QED
  BY <1>1, <1>4 DEF IndInv

LEMMA InvariantStep ==
    ASSUME IndInv, [Next]_vars
    PROVE  IndInv'
<1>1. Rules' /\ proc' \in Procs
  <2>1. CASE \/ Load \/ Tokenize \/ Unload \/ Cancel \/ Expire \/ ParseDone \/ StartRunning
             \/ \E c \in Contexts : CreateContext(c)
             \/ \E c \in Contexts : DropContext(c)
             \/ \E c \in Contexts, prompt \in Prompts : Generate(c, prompt)
             \/ UNCHANGED vars
    BY <2>1, RestSteps
  <2>2. CASE StartFails \/ PollInterrupted \/ ParseFailure \/ ParseExited \/ ParseLastDelta
    <3>1. PICK destroyed \in BOOLEAN : Stop(destroyed)
      BY <2>2, CallStops DEF IndInv
    <3>2. ~InCall'
      BY <2>2, CallStops DEF IndInv, InCall
    <3> QED
      BY <3>1, <3>2, StopStep
  <2>3. CASE Spawn
    BY <2>3, SpawnStep
  <2>4. CASE PollRead
    BY <2>4, PollReadStep
  <2>5. CASE ParseResult
    BY <2>5, ParseResultStep
  <2>6. CASE ParseDelta
    BY <2>6, ParseDeltaStep
  <2>7. CASE HandleLoad \/ HandleTokenize \/ HandleDrop \/ Raise
    BY <2>7, AnswerSteps
  <2>8. CASE Crash
    BY <2>8, CrashStep
  <2>9. ASSUME NEW b \in BOOLEAN, HandleGenerate(b) PROVE Rules' /\ proc' \in Procs
    BY <2>9, HandleGenerateStep
  <2>10. ASSUME NEW token \in Tokens, NEW b \in BOOLEAN, GenerateToken(token, b)
         PROVE  Rules' /\ proc' \in Procs
    BY <2>10, GenerateTokenStep
  <2>11. ASSUME NEW b \in BOOLEAN, NEW usable \in BOOLEAN, GenerateEnd(b, usable)
         PROVE  Rules' /\ proc' \in Procs
    BY <2>11, GenerateEndStep
  <2> QED
    BY <2>1, <2>2, <2>3, <2>4, <2>5, <2>6, <2>7, <2>8, <2>9, <2>10, <2>11, NextCases
<1>2. TypeOK'
  BY <1>1, ServiceTypeStep, LineTypeStep DEF IndInv, TypeOK
<1>3. JobRules'
  BY JobStep
<1> QED
  BY <1>1, <1>2, <1>3 DEF IndInv, Rules

\* What is between the service and the process, and what the process knows, in every state
\* (call(), stop(), start() and mlx_worker.py).
THEOREM MlxInvariant ==
    Spec => []IndInv
<1>1. Init => IndInv
  BY InvariantInit
<1>2. IndInv /\ [Next]_vars => IndInv'
  BY InvariantStep
<1> QED
  BY <1>1, <1>2, PTL DEF Spec

\* The types of the engine's state; the worker's table maps contexts to entries.
THEOREM MlxTypes ==
    Spec => []TypeOK
<1>1. IndInv => TypeOK
  BY DEF IndInv
<1> QED
  BY <1>1, MlxInvariant, PTL

\* If a killed process is gone when stop() returns, a call reads no line that answers an
\* earlier one, and a process is asked for nothing before it has the model: the order of the
\* lines does what request numbers would.
THEOREM AnswersOwn ==
    PromptKill => (Spec => []AnswersAreOwn)
<1> SUFFICES ASSUME PromptKill
             PROVE  Spec => []AnswersAreOwn
  OBVIOUS
<1>1. ASSUME IndInv
      PROVE  AnswersAreOwn
  <2>1. /\ input \in Seq(Lines) /\ stdout \in Seq(Lines) /\ requests \in Seq(Requests)
    BY <1>1 DEF IndInv, TypeOK, LineTypes
  <2>2. InCall => Flow
    BY <1>1 DEF IndInv, KillRules
  <2>3. ASSUME InCall, NEW line \in Range(stdout) \cup Range(input) \cup Range(requests)
        PROVE  line.mine
    <3>1. Mine(input) /\ Mine(stdout) /\ (requests # <<>> => Len(requests) = 1 /\ requests[1].mine)
      BY <2>2, <2>3 DEF Flow, OwnRequest
    <3>2. /\ DOMAIN stdout = 1 .. Len(stdout) /\ DOMAIN input = 1 .. Len(input)
          /\ DOMAIN requests = 1 .. Len(requests) /\ Len(requests) \in Nat
      BY <2>1, LenProperties
    <3>3. CASE line \in Range(stdout) \/ line \in Range(input)
      BY <3>1, <3>2, <3>3 DEF Range, Mine
    <3>4. CASE line \in Range(requests)
      <4>1. PICK i \in 1 .. Len(requests) : line = requests[i]
        BY <3>2, <3>4 DEF Range
      <4>2. requests # <<>>
        BY <4>1, Nothing
      <4>3. i \in 1 .. 1
        BY <3>1, <4>1, <4>2, Zenon
      <4> QED
        BY <3>1, <4>1, <4>2, <4>3
    <3> QED
      BY <2>3, <3>3, <3>4
  <2>4. ASSUME Up, requests # <<>>, ~proc.loaded
        PROVE  Head(requests).op = "load"
    BY <1>1, <2>4, Asked DEF OwnRequest
  <2> QED
    BY <2>3, <2>4 DEF AnswersAreOwn, InCall, Up
<1>2. IndInv => AnswersAreOwn
  BY <1>1
<1> QED
  BY <1>2, MlxInvariant, PTL

\* Whatever was trimmed, evaluated ahead, interrupted, killed or dropped without an answer: the
\* worker names in an entry what it fed, starts from a proper prefix of the prompt, and keeps
\* nothing for a context that is gone (prepare_cache() and Worker.handle()).
THEOREM ReuseExact ==
    Spec => []ReuseIsExact
<1>1. ASSUME IndInv
      PROVE  ReuseIsExact
  <2>1. \A c \in DOMAIN proc.entries : proc.entries[c].tokens = proc.entries[c].cache
    BY <1>1 DEF IndInv, EntryRules
  <2>2. ASSUME proc.gen # NoGen
        PROVE  LET prompt == Head(requests).prompt
               IN /\ proc.gen.reused < Len(prompt)
                  /\ proc.gen.kept = SubSeq(prompt, 1, proc.gen.reused)
    <3>1. requests # <<>> /\ requests \in Seq(Requests)
      BY <1>1, <2>2 DEF IndInv, GenRules, TypeOK, LineTypes
    <3>2. Head(requests) = requests[1]
      BY <3>1, Heads
    <3> QED
      BY <1>1, <2>2, <3>2 DEF IndInv, GenRules
  <2>3. ASSUME at = "rest", running, proc.state = "up"
        PROVE  DOMAIN proc.entries \subseteq contexts
    BY <1>1, <2>3 DEF IndInv, EntryRules, Known, InCall, Up
  <2> QED
    BY <2>1, <2>2, <2>3 DEF ReuseIsExact
<1> QED
  BY <1>1, MlxInvariant, PTL

=============================================================================
