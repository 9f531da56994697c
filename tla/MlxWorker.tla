------------------------------ MODULE MlxWorker ------------------------------
(***************************************************************************)
(* The MLX engine: MlxWorker, MlxModel and MlxContext of MlxRuntime.cpp in *)
(* the service, and the Python process of mlx_worker.py that does the      *)
(* work.  They talk in lines over two pipes, one request at a time and     *)
(* with no request numbers, so that nothing but the order says which       *)
(* answer belongs to which request.  What makes that sound is stop(): a    *)
(* call that does not end with an answer kills the process, and the next   *)
(* one starts another and loads the model again.                           *)
(*                                                                         *)
(* The service calls this engine from its worker thread only, one request  *)
(* at a time, and that thread has no event loop: QProcess learns that the  *)
(* process died when it waits for it, not before.                          *)
(***************************************************************************)
EXTENDS Naturals, Sequences, SequencesExt, FiniteSetsExt

CONSTANTS
    Contexts,    \* the ids of MlxContext objects
    Tokens,      \* the vocabulary
    Prompts,     \* the token lists that generate() is given
    MaxNew,      \* max_tokens
    PromptKill   \* a killed process is gone when waitForFinished(1000) returns

ASSUME MlxAssumption ==
    /\ Prompts \subseteq Seq(Tokens) \ {<<>>}
    /\ MaxNew \in Nat \ {0}
    /\ PromptKill \in BOOLEAN

VARIABLES
    model,       \* a RuntimeModel is loaded
    contexts,    \* the MlxContext objects alive
    job,         \* what the service is doing: [op, ctx, prompt]
    at,          \* where its thread is
    calling,     \* the "op" of the call() in progress
    cancelled,   \* the request's token
    late,        \* the call has used up its time
    running,     \* process.state() is not NotRunning
    input,       \* the lines read and not parsed
    proc,        \* the Python process
    requests,    \* the lines written to it that it has not answered
    stdout       \* the lines it wrote that the service has not read

jobVars == <<model, contexts, job, at, calling, cancelled, late>>
pipeVars == <<requests, stdout>>
vars == <<model, contexts, job, at, calling, cancelled, late, running, input, proc, requests, stdout>>

-----------------------------------------------------------------------------
NoContext == "none"
Job(op, c, prompt) == [op |-> op, ctx |-> c, prompt |-> prompt]
NoJob == Job("none", NoContext, <<>>)

\* The line that asks for a job.  Lines say whether they belong to the call in progress.
\* The bit is not in the program: it says what a request number would.
Request(j) == [op |-> j.op, ctx |-> j.ctx, prompt |-> j.prompt, mine |-> TRUE]
Stale(lines) == [i \in DOMAIN lines |-> [lines[i] EXCEPT !.mine = FALSE]]

\* No generation is under way in the process.
NoGen == [all |-> <<>>, kept |-> <<>>, reused |-> 0]

\* A process that has not loaded a model; "dead" if it went by itself, "killed" by stop().
Process(state) == [state |-> state, loaded |-> FALSE, entries |-> <<>>, gen |-> NoGen]

Init ==
    /\ model = FALSE /\ contexts = {} /\ job = NoJob
    /\ at = "rest" /\ calling = "none" /\ cancelled = FALSE /\ late = FALSE
    /\ running = FALSE /\ input = <<>>
    /\ proc = Process("none") /\ requests = <<>> /\ stdout = <<>>

-----------------------------------------------------------------------------
(* The service's side.                                                     *)

\* stop().  A process that is slow to die is still running for QProcess, whose destructor
\* alone (destroyed) waits for it, and what it wrote can still be read.
Stop(destroyed) ==
    /\ input' = <<>>
    /\ proc' = IF running /\ proc.state = "up" THEN Process("killed") ELSE proc
    /\ running' \in IF running /\ ~PromptKill /\ ~destroyed /\ proc.state # "dead"
                    THEN BOOLEAN ELSE {FALSE}
    /\ requests' = <<>>
    /\ stdout' = IF running' THEN stdout ELSE <<>>

Begin(j, from) ==
    /\ at = "rest"
    /\ job' = j
    /\ at' = from
    /\ cancelled' = FALSE

End ==
    /\ job' = NoJob
    /\ at' = "rest"
    /\ calling' = "none"
    /\ cancelled' = FALSE
    /\ late' = FALSE

\* An error leaves call() or start(): stop() runs.  If it ends MlxRuntime::load(), the
\* MlxWorker goes with it.
Throw ==
    /\ Stop(job.op = "load")
    /\ End
    /\ model' = (model /\ job.op # "load")
    /\ UNCHANGED contexts

\* The first lines of call(): the request goes out and the clock starts.
Write(j) ==
    /\ requests' = Stale(requests) \o (IF proc.state = "up" THEN <<Request(j)>> ELSE <<>>)
    /\ stdout' = Stale(stdout)
    /\ calling' = j.op
    /\ late' = FALSE
    /\ at' = "wait"

\* MlxRuntime::load(), which calls start().
Load ==
    /\ ~model
    /\ Begin(Job("load", NoContext, <<>>), "begin")
    /\ model' = TRUE
    /\ UNCHANGED <<contexts, calling, late, running, input, proc, pipeVars>>

\* MlxModel::tokenize()
Tokenize ==
    /\ model
    /\ Begin(Job("tokenize", NoContext, <<>>), "begin")
    /\ UNCHANGED <<model, contexts, calling, late, running, input, proc, pipeVars>>

\* MlxModel::createContext()
CreateContext(c) ==
    /\ at = "rest" /\ model /\ c \notin contexts
    /\ contexts' = contexts \cup {c}
    /\ UNCHANGED <<model, job, at, calling, cancelled, late, running, input, proc, pipeVars>>

\* MlxContext::generate()
Generate(c, prompt) ==
    /\ c \in contexts
    /\ Begin(Job("generate", c, prompt), "begin")
    /\ UNCHANGED <<model, contexts, calling, late, running, input, proc, pipeVars>>

\* ~MlxContext(): the process is told if there is one, with a second to answer.
DropContext(c) ==
    /\ at = "rest" /\ c \in contexts
    /\ contexts' = contexts \ {c}
    /\ IF running
       THEN /\ job' = Job("drop", c, <<>>)
            /\ Write(Job("drop", c, <<>>))
            /\ input' = Stale(input)
       ELSE UNCHANGED <<job, at, calling, late, input, pipeVars>>
    /\ UNCHANGED <<model, cancelled, running, proc>>

\* The last reference to the MlxWorker goes.
Unload ==
    /\ at = "rest" /\ model /\ contexts = {}
    /\ model' = FALSE
    /\ Stop(TRUE)
    /\ UNCHANGED <<contexts, job, at, calling, cancelled, late>>

\* The client cancels; a drop has a token of its own that nobody has.
Cancel ==
    /\ at # "rest" /\ job.op # "drop" /\ ~cancelled
    /\ cancelled' = TRUE
    /\ UNCHANGED <<model, contexts, job, at, calling, late, running, input, proc, pipeVars>>

\* start() finds a process.
StartRunning ==
    /\ at = "begin" /\ running
    /\ Write(job)
    /\ input' = Stale(input)
    /\ UNCHANGED <<model, contexts, job, cancelled, running, proc>>

\* start() is cancelled, or waitForStarted() fails.
StartFails ==
    /\ at = "begin" /\ ~running
    /\ Throw

\* start() starts a process and sends it the model.
Spawn ==
    /\ at = "begin" /\ ~running /\ ~cancelled
    /\ proc' = Process("up")
    /\ running' = TRUE
    /\ input' = <<>>
    /\ stdout' = <<>>
    /\ requests' = <<Request(Job("load", NoContext, <<>>))>>
    /\ calling' = "load"
    /\ late' = FALSE
    /\ at' = "wait"
    /\ UNCHANGED <<model, contexts, job, cancelled>>

\* The clock of call()
Expire ==
    /\ at \in {"wait", "parse"} /\ ~late
    /\ late' = TRUE
    /\ UNCHANGED <<model, contexts, job, at, calling, cancelled, running, input, proc, pipeVars>>

\* Mutant: only the client ends a call.
InterruptedOnlyByClient == cancelled

\* What call() looks at before it waits for output.
Interrupted == cancelled \/ late

PollInterrupted == at = "wait" /\ Interrupted /\ Throw

\* waitForReadyRead() and the reads.  The death of the process is noticed here, now or the
\* next time, and after its last line was read.
PollRead ==
    /\ at = "wait" /\ ~Interrupted
    /\ input' = input \o stdout
    /\ stdout' = <<>>
    /\ running' \in IF proc.state = "up" THEN {TRUE} ELSE BOOLEAN
    /\ at' = "parse"
    /\ UNCHANGED <<model, contexts, job, calling, cancelled, late, proc, requests>>

Parsing(type) == at = "parse" /\ input # <<>> /\ Head(input).type = type

\* The answer.  If it is the one to start()'s request, the job's own goes out.
ParseResult ==
    /\ Parsing("result")
    /\ IF calling = job.op
       THEN End /\ input' = Tail(input) /\ UNCHANGED <<requests, stdout>>
       ELSE Write(job) /\ input' = Stale(Tail(input)) /\ UNCHANGED <<job, cancelled>>
    /\ UNCHANGED <<model, contexts, running, proc>>

\* onText() takes the text and wants more.
ParseDelta ==
    /\ Parsing("delta") /\ calling = "generate"
    /\ input' = Tail(input)
    /\ UNCHANGED <<jobVars, running, proc, pipeVars>>

\* Mutant: the process is left to finish.
ParseLastDeltaKeepsWorker ==
    /\ Parsing("delta") /\ calling = "generate"
    /\ End
    /\ input' = <<>>
    /\ UNCHANGED <<model, contexts, running, proc, pipeVars>>

\* onText() has enough.
ParseLastDelta ==
    /\ Parsing("delta") /\ calling = "generate"
    /\ Stop(FALSE)
    /\ End
    /\ UNCHANGED <<model, contexts>>

\* The process reports an error, or text that nobody asked for.
ParseFailure ==
    /\ Parsing("error") \/ (Parsing("delta") /\ calling # "generate")
    /\ Throw

\* Every line is parsed and there is a process: call() goes round.
ParseDone ==
    /\ at = "parse" /\ input = <<>> /\ running
    /\ at' = "wait"
    /\ UNCHANGED <<model, contexts, job, calling, cancelled, late, running, input, proc, pipeVars>>

\* Every line is parsed and there is none.
ParseExited ==
    /\ at = "parse" /\ input = <<>> /\ ~running
    /\ Throw

-----------------------------------------------------------------------------
(* The process's side: main() and Worker.handle().                         *)

Handles(op) == proc.state = "up" /\ requests # <<>> /\ Head(requests).op = op

Emit(type) == Append(stdout, [type |-> type, mine |-> Head(requests).mine])

Answer(type) ==
    /\ stdout' = Emit(type)
    /\ requests' = Tail(requests)

Without(entries, c) == [k \in DOMAIN entries \ {c} |-> entries[k]]
With(entries, c, entry) == [k \in DOMAIN entries \cup {c} |-> IF k = c THEN entry ELSE entries[k]]

HandleLoad ==
    /\ Handles("load")
    /\ proc' = [proc EXCEPT !.loaded = TRUE, !.entries = <<>>]
    /\ Answer("result")
    /\ UNCHANGED <<jobVars, running, input>>

HandleTokenize ==
    /\ Handles("tokenize") /\ proc.loaded
    /\ Answer("result")
    /\ UNCHANGED <<jobVars, running, input, proc>>

HandleDrop ==
    /\ Handles("drop") /\ proc.loaded
    /\ proc' = [proc EXCEPT !.entries = Without(@, Head(requests).ctx)]
    /\ Answer("result")
    /\ UNCHANGED <<jobVars, running, input>>

\* common_prefix()
CommonPrefix(left, right) ==
    Max({n \in 0..Min({Len(left), Len(right)}) : SubSeq(left, 1, n) = SubSeq(right, 1, n)})

\* prepare_cache(): the cache to go on with, cut to the tokens it shares with the request,
\* less one to feed; trims says that it can be cut.
PrepareCache(entries, c, tokens, trims) ==
    LET count == IF c \in DOMAIN entries
                 THEN Min({CommonPrefix(entries[c].tokens, tokens), Len(tokens) - 1}) ELSE 0
    IN [all |-> tokens,
        kept |-> IF count > 0 /\ trims THEN SubSeq(entries[c].cache, 1, Len(entries[c].cache) -
                                                   (Len(entries[c].tokens) - count))
                 ELSE <<>>,
        reused |-> IF trims THEN count ELSE 0]

\* "generate", up to the first token: the entry is taken out and made fit.
HandleGenerate(trims) ==
    /\ Handles("generate") /\ proc.loaded /\ proc.gen = NoGen
    /\ LET r == Head(requests)
       IN proc' = [proc EXCEPT !.entries = Without(@, r.ctx),
                               !.gen = PrepareCache(proc.entries, r.ctx, r.prompt, trims)]
    /\ UNCHANGED <<jobVars, running, input, pipeVars>>

Generating == Handles("generate") /\ proc.gen # NoGen
Generated == Len(proc.gen.all) - Len(Head(requests).prompt)

\* One response of the generator; the text of a token may have to wait for the next.
GenerateToken(token, text) ==
    /\ Generating /\ Generated < MaxNew
    /\ proc' = [proc EXCEPT !.gen.all = Append(@, token)]
    /\ stdout' = IF text THEN Emit("delta") ELSE stdout
    /\ UNCHANGED <<jobVars, running, input, requests>>

\* What the cache holds when the tokens up to the n-th were fed to the model.
Evaluated(n) == proc.gen.kept \o SubSeq(proc.gen.all, proc.gen.reused + 1, n)

\* Mutant: the entry names every token, evaluated or not.
EntryOfEverything(n) == [tokens |-> proc.gen.all, cache |-> Evaluated(n)]

\* The entry that a generation leaves: as many tokens as the cache's offset says.
Entry(n) ==
    LET offset == Len(Evaluated(n))
    IN [tokens |-> SubSeq(proc.gen.all, 1, offset), cache |-> Evaluated(n)]

\* The generator is exhausted.  The last token may not have been fed (ahead), and a cache
\* that reports no offset or cannot be cut (usable) is not kept.
GenerateEnd(ahead, usable) ==
    /\ Generating /\ Generated > 0
    /\ LET n == Len(proc.gen.all) - (IF ahead THEN 0 ELSE 1)
       IN proc' = [proc EXCEPT
              !.entries = IF usable /\ Len(Evaluated(n)) <= Len(proc.gen.all)
                          THEN With(@, Head(requests).ctx, Entry(n)) ELSE @,
              !.gen = NoGen]
    /\ Answer("result")
    /\ UNCHANGED <<jobVars, running, input>>

\* handle() raises, wherever it is.
Raise ==
    /\ proc.state = "up" /\ requests # <<>>
    /\ proc' = [proc EXCEPT !.gen = NoGen]
    /\ Answer("error")
    /\ UNCHANGED <<jobVars, running, input>>

\* The process dies by itself; what it wrote stays in the pipe.
Crash ==
    /\ proc.state = "up"
    /\ proc' = Process("dead")
    /\ requests' = <<>>
    /\ UNCHANGED <<jobVars, running, input, stdout>>

-----------------------------------------------------------------------------
Call == \/ StartRunning \/ StartFails \/ Spawn
        \/ PollInterrupted \/ PollRead
        \/ ParseResult \/ ParseDelta \/ ParseLastDelta \/ ParseFailure \/ ParseDone \/ ParseExited

Service == \/ Load \/ Tokenize \/ Unload \/ Cancel \/ Expire \/ Call
           \/ \E c \in Contexts :
                  \/ CreateContext(c) \/ DropContext(c)
                  \/ \E prompt \in Prompts : Generate(c, prompt)

Python == \/ HandleLoad \/ HandleTokenize \/ HandleDrop \/ Raise \/ Crash
          \/ \E b \in BOOLEAN :
                 \/ HandleGenerate(b)
                 \/ \E token \in Tokens : GenerateToken(token, b)
                 \/ \E usable \in BOOLEAN : GenerateEnd(b, usable)

Next == Service \/ Python

Spec == Init /\ [][Next]_vars

\* The service's thread goes on and its clock runs; nothing is asked of the process.
FairSpec == Spec /\ WF_vars(Call) /\ WF_vars(Expire)

-----------------------------------------------------------------------------
\* A call is given no line that answers an earlier one: what is in the pipes and in the
\* buffer while call() waits is about the request it wrote.  And a process without the
\* model is asked for nothing else: a start() that failed half way is not taken for one
\* that worked.
AnswersAreOwn ==
    /\ at \in {"wait", "parse"} =>
           \A line \in Range(stdout) \cup Range(input) \cup Range(requests) : line.mine
    /\ proc.state = "up" /\ requests # <<>> /\ ~proc.loaded => Head(requests).op = "load"

\* The tokens that an entry names are the ones its cache was fed, and a generation starts
\* from a cache that holds a proper prefix of its prompt, whatever was trimmed, evaluated
\* ahead or interrupted before.  Between calls the process keeps no cache for a context
\* that is gone, even if the drop was never answered.
ReuseIsExact ==
    /\ \A c \in DOMAIN proc.entries : proc.entries[c].tokens = proc.entries[c].cache
    /\ proc.gen # NoGen =>
           LET prompt == Head(requests).prompt
           IN /\ proc.gen.reused < Len(prompt)
              /\ proc.gen.kept = SubSeq(prompt, 1, proc.gen.reused)
    /\ at = "rest" /\ running /\ proc.state = "up" => DOMAIN proc.entries \subseteq contexts

\* Whatever the process does or fails to do, the service's thread comes back.
CallsEnd == at # "rest" ~> at = "rest"

\* "Process termination also releases every native MLX cache; next request reloads
\* lazily": no request is sent to a process that stop() has killed.
ReloadsAfterStop ==
    at \in {"wait", "parse"} /\ calling # "drop" => proc.state # "killed"
=============================================================================
