# iiLocalLLM: specifications and proofs

iiLocalLLM is a local inference service: a C++ library that owns models, sessions
and cached contexts, runs every request on one worker thread, and is reached
in-process, over a local socket and over HTTP on 127.0.0.1. This directory holds
TLA+ modules for the parts where order, failure and sharing decide correctness,
TLC configurations for small instances of them, and TLAPS proofs for all
instances of what matters most. Paths below are relative to the repository.

## The system

| Part | State | Operations | Hard because |
|---|---|---|---|
| Scheduler (`src/service/Scheduler.*`) | FIFO, active token, stopping flag | enqueue, loop, shutdown | callers, worker and closer interleave; refusals are delivered outside the lock; every promise must be settled once |
| Service (`src/service/Service.cpp`) | models, sessions, contexts, published view | load, unload, install, remove, sessions, chat, complete, converse, embed, measure | a request may fail or be cancelled at every runtime call, and each way out has its own clean-up |
| Model manager, residency (`ModelManager.cpp`, `ModelResidencyManager.cpp`) | runtimes, loaded, residency, remembered | load with eviction loop, acquire, release, maintain, evict | three tables and a cache must agree through evictions in the middle of requests; keep-alive, budget and free memory all evict |
| Context cache, sessions (`Managers.cpp`) | LRU of contexts with token counts; turns per session | acquire, erase; create, reset, close | a hand-kept counter; contexts must match the committed history |
| Local IPC (`LocalIpcServer.cpp`) | connections, ids, tokens, pending futures, inboxes | accept, read, dispatch, poll, drain, close | two threads and a socket that may break inside any send |
| HTTP (`HttpApiServer.cpp`) | admission counters, token lists, stream buffers | admit, complete, rpc, providers, guards, listen, close | one thread per response, callbacks of others, deadlines, disconnection, close |
| Catalog, registry (`ModelCatalog.cpp`, `ModelRegistry.cpp`) | a directory of packages, a lock file | pull, install, verify, remove | several processes, crashes, disks and networks that lie |
| Runtimes (`src/runtimes`) | native models and contexts; the MLX worker process | load, tokenize, generate | an external process that dies; devices tried in turn |
| llama.cpp context (`LlamaRuntime.cpp`, `Utf8Stream.h`, `ToolTurn.h`, `StopFilter`) | native memory and the program's account of it; undecided text | generate, generateConversation, decode | one request's memory is the next one's beginning; failure between a native call and its account; tokens cut text anywhere |
| Parameters, conversations (`Parameters.cpp`, `Conversation.cpp`) | parameter objects, control documents; the history a client keeps | set, unset, write, read; converse | nested alternatives; what is accepted in pieces must hold as a whole; the reply becomes the next request |
| Daemon (`tools/service_main.cpp`, `LocalIpcServer::listen`) | lock files, the socket at the endpoint | start, listen, serve, quit, die | several daemons on one directory and endpoint, and what a dead one leaves |

Interaction: IPC and HTTP call the service from their own threads; the service
enqueues on the scheduler; the worker runs the request on the service state and
calls back into IPC inboxes and HTTP buffers; those are drained by the IPC loop
and the HTTP providers, which hold a cancellation token for each request. After
each request the worker runs `maintain()`. The service asks the catalog for a
package, verifies it, and hands it to a runtime. A structured conversation carries its
whole history in every request; the options in it come from parameter objects.

`docs/` also describes an agent harness. Its code is not in this repository.

What makes each part correct is listed with the properties below; what can go
wrong in each and at which line is the `hazards` list of `PROJECT.json`.

## Modules

| Module | Models | Extends |
|---|---|---|
| `Settlement` | what the queue promises: every request is answered, once | |
| `Scheduler` | `Scheduler.cpp/.h` and the tokens of `Types.cpp` | implements `Settlement` |
| `SchedulerProofs` | proofs | `Scheduler` |
| `ContextCache` | `ContextCacheManager` | |
| `ModelManager` | `ModelManager`, `ModelResidencyManager`, memory estimates | `ContextCache` |
| `Service` | the worker's requests on all of that, and sessions | `ModelManager` |
| `ServiceHistory` | what models were configured as, and what requests asked for: history variables | `Service` |
| `ServiceProofs` | proofs | `ServiceHistory` |
| `LocalIpc` | `LocalIpcServer` with its peers and the worker's callbacks | |
| `LocalIpcProofs` | proofs | `LocalIpc` |
| `HttpServer` | `HttpApiServer` with its clients and the callbacks | |
| `HttpServerProofs` | proofs | `HttpServer` |
| `Catalog` | `ModelCatalog` and `ModelRegistry` with crashes and faults | |
| `MlxWorker` | `MlxRuntime.cpp` and the process of `mlx_worker.py` | |
| `MlxWorkerProofs` | proofs | `MlxWorker` |
| `RuntimeManager` | `RuntimeManager::load()`, `orderExecutionDevices()` | |
| `TextStream` | `Utf8Stream`, `completeSingleToolTurn()`, `StopFilter` | |
| `LlamaContext` | `LlamaContext` of `LlamaRuntime.cpp` | `TextStream` |
| `LlamaContextProofs` | proofs | `LlamaContext` |
| `Parameters` | `Parameters.cpp`: nested schemas, redaction, objects and documents | |
| `Conversation` | `Conversation.cpp` with a client and a runtime | |
| `Agent` | a client from its parameters to its conversation | `Parameters`, `Conversation` |
| `LoopProofs` | proofs | `Agent`, `RuntimeManager` |
| `Daemon` | `service_main.cpp`, `LocalIpcServer::listen()`/`close()`, over the catalog | `Catalog` |
| `DaemonProofs` | proofs, of the catalog and of the daemon | `Daemon` |
| `MC*` | constants and symmetry for TLC | |

Definitions carry the names of the functions they model; `PROJECT.json` maps each
to its lines. Definitions introduced as "Mutant" are wrong versions of a
definition, kept to show which property notices.

### Scheduler

One step is what happens between two releases of `mutex_`, or one effect outside
the lock. `Enqueue` decides under the lock and `Refuse` delivers after it; `Take`
pops and sets `active_`; `RejectCancelled` and `StartRun` read the token without the
lock; `Shutdown` and `Join` are the two halves of `shutdown()`; `OnExit` frees the
service state on the worker. `accepted` and `served` are history.

### Service, ModelManager, ContextCache

The worker is sequential, so the steps are cut where the code can fail, be
cancelled or wait: `pc` runs through load, room, loading, leased, context,
generate, release, sweep, maintain. `Fail` is any exception at any of these points
with the clean-up of the handler it reaches. `evict()` is two steps (contexts, then
weights) because order is the point. Time is `Tick`, which lets keep-alives run
out; `Available` is what the system reports as free memory, including nothing.
A session is its number of committed turns, a context what it has seen of them;
`Partial` is a context that has been fed something that was not committed.

`ServiceHistory` adds two variables that the code does not have and that restrict no step:
`had`, the configuration each model had when it was last in memory, read off the tables at
every step and dropped only when the model is removed, and `asked`, what the request that
is loading left open. `ReloadKeepsConfiguration` compares what comes back with these and not
with `remembered`, so that an eviction, a refusal or a release that loses or changes what is
remembered shows.

### LocalIpc

One step of the event loop is one frame, one drain or one look at a pending future;
between any two the worker may call back. Sending is modelled by what fits: the
first message beyond the buffer aborts the socket, in the middle of whatever the
loop was doing, and the code after it still runs, as it does in the source.

### HttpServer

One step of a handler ends where it releases a mutex, waits or calls the service.
`Interrupted` is `check()`. `complete()` goes through `Await`/`Wait` and, for a stream,
`Provide`/`Pause`/`Write`; `rpc()` through `AwaitFuture`, or `Accept`, `ProvideRpc` (reads
the future), `DrainRpc` (empties the buffer), `Write`. `Guard` and `GuardRpc` are the
shared_ptr deleters, one step each; `Respond` writes a body and destroys the response with
its lease, which copies of it share and would not return twice. The service is anything that
calls back and ends, or does not. A write may fail at any frame, which stands for the write
timeout and for a closed socket.

### Catalog

Several processes share the directory. Files have contents, a hash is the content
it was computed from, and `Torn` is a content nobody meant. `CopyFile` may read
something other than is there and write something other than it read; `Rot`
changes a published file; `Crash` ends a process between any two steps and frees
its lock. Staging directories are invisible to `scan()`, hence part of the operation.

### MlxWorker

The service's thread is in `start()` (`at` = "begin"), waiting for output ("wait") or
parsing it ("parse"); the process handles one line at a time. `running` is what
`QProcess::state()` says, which is not whether the process lives: the worker thread has
no event loop, so a death is noticed by the next wait. `Throw` is the `catch (...)` of
`call()` with its `stop()`. The lines carry a bit that the program does not have, whether
they belong to the call in progress; every new call ages what is still around. In the
process, an entry of `contexts` has the tokens it is looked up by and what its cache was
really fed; `GenerateEnd` leaves the last token out or not, as the library does.
`Raise` is any exception in `handle()`, `Crash` the end of the process.

Two branches of `call()` are left out because this worker script never causes them: a
line that is not a JSON object or exceeds 16 MiB, and a backend that is not confirmed.

### RuntimeManager

`Attempts` is the two loops of `load()` over what `orderExecutionDevices()` returns, in which
`Tried` is one round of the inner loop. As in the code, both take the machine and the
candidates as parameters. The sort is the sequence that its comparison leaves, of which there
is one. `FailOver` an error that another device may
mend, `Fail` everything that ends the load. Adapters have an id, a vendor, the backends
that work and a memory size; `SelectionIsBest` restates the policy from those instead of
using the definitions of the sort.

### Daemon

`stage` is how far `main()` is; the catalog's actions are those of `Catalog`, allowed from
the moment the service exists. `listen()` is `TryLock`, `PathFree` (the look at the path),
`Bind`; Qt's bind renames its socket over whatever is there, which is why there is a lock.
`CloseServer` and `Unlock` are the two lines of `close()` in their order. `Die` leaves both
files as `Leftover`: the next daemon takes a stale lock and refuses a stale socket, so that
somebody (`CleanUp`) has to remove it.

### LlamaContext, TextStream

`kv` is what the native memory holds and `logits` what its logits were computed from; neither
is seen by the program, which goes by `previous` and `nextPosition`. `Begin` cuts the memory
to what is reused, or clears it if the model is recurrent; `Decode` is one native call,
which may leave any part of its batch and still fail; `Account` is what follows it. Every
call checks the token before and after. `Sample` takes any token of the request's vocabulary:
samplers and grammars only choose. `sink` holds the decoder's unfinished character, the
text of the tool turn and the stop filter. `AnswerIsTheText` compares what came out in
pieces with the three functions applied once to the whole text.

In `TextStream` a character of several bytes is two bytes, a surrogate pair two symbols,
a tag two symbols, and a call's payload an object whose arguments are one quoted string,
which may contain a closing tag. That is what the boundaries in the code are about.

`Service` drops a context whose request failed; `LlamaContext` does not suppose that.

### Parameters, Conversation, Agent

A schema is one of leaf, alternatives, array, map, reference, opaque, external, each with
or without null; in the catalog a schema may combine these, the groups that matter do not.
A leaf lists the scalars it allows. A JSON value is null, a leaf, an array or an object, an
object a function of all names in which those it has no member of are `Undefined`.
`Accepts` and `Redact` are one call of `accepts()` and `redactValue()`, given what the calls
one level down return; `AcceptsWithin[n]` and `RedactWithin[n]` are the calls that may still
go n levels deep, where the code counts the depth up to its limit. At level 0 nothing is
accepted and everything is covered. Of the exported value the property asks the same level
by level (`HidesWithin`): covered, or shown in its own shape with every sensitive field
covered, for every alternative that accepts the value. A control document is written by
`Keep` and `Read`, both through `KeptOf`, which is `ControlParameters::set()`: the object is
written, hence checked as a whole, and read again. There is one catalog; that `set()`
holds objects of another one to the document's own is not modelled.

In `Conversation` a client has its options, from wherever (`Begin`),
and then appends what it is given: `Reply` is
any reply a parser may return, with the ids `validateConversationReply()` supplies, and
`Send` is the next request. The client is that of an SDK: it answers calls in any
order and drops the oldest turns whole (`Compact`), as the service tells it to. `Agent` puts
the two together: the client edits parameters (`Prepare`), takes its options from them
(`Start`, which is `Begin` with these options) and goes on as in `Conversation`.

## Runs

All but the last pass; times are for two workers.

| Run | Instance | Shows |
|---|---|---|
| `scheduler` | 3 callers, capacity 2, a run nobody cancels may go on for ever; 18,994 states | FIFO, `StopReachesEveryone`, `StateOutlivesWork`, refinement of `Settlement`, `ShutdownCompletes`, `CancelledWaitingNeverRuns`; if runs end, `EverybodyIsAnswered` |
| `service` | 2 models, a session at a time, one conversation and the one-shot key; 257,612 states | tables, leases, contexts, memory, histories; `ReloadKeepsConfiguration`; requests end, expired models go |
| `ipc` | 1 peer, 3 requests of all kinds, buffers of 2; 1,240,013 states | `AnswersInOrder`, `InFlightIsKnown` |
| `ipc_live` | 2 peers with the same request id, 2 requests; 81,584 states | `CancelledByOwner`, `DispatchedIsAnswered` |
| `http` | 1 response of every kind, 4 events, a buffer of 2; 29,060 states | `WireInOrder`, `NothingIsOrphaned`, `DeliveredIsLeftAlone`, `InterruptedEnds` |
| `http_pool` | 2 requests, one place per lane; 1,948,644 states | `AdmissionBalances` |
| `daemon` | 2 daemons, 2 ids, 2 files, torn or whole; 1,419,947 states | `OneOwner`, `LoadedStaysPublished`, `EndpointIsServed`, `PublishedWhole`, `EngineGetsThePinned` |
| `mlx` | 2 contexts, prompts that share prefixes, 2 new tokens; 162,153 states | `AnswersAreOwn`, `ReuseIsExact`, `CallsEnd` |
| `runtimes` | 4 machines, 3 runtimes, 2 models; 10,684 states | `SelectionIsBest` |
| `llama` | 14 requests on one context of 8 tokens, batches of 2; 626,270 states | `LogitsAreCurrent`, `AccountIsTrue`, `AnswerIsTheText`, `StopsAreCutOut` |
| `agent` | 6 parameter groups, 8 JSON values; histories of 6 messages, 2 calls per reply; 133,681 states | `RedactionIsComplete`, `HistoryStaysValid` |
| `mlx_slow_kill` | as `mlx`, a killed process may outlive the second it is given | violates `ReloadsAfterStop` |

The violation is a finding. `MlxWorker::stop()` kills the process, waits one second and
does not look whether it went. If it takes longer (it has a model's memory to give back),
`state()` is still Running, `start()` returns at once, and the next request is written to
the dying process, against the comment in `call()`: "Process termination also releases
every native MLX cache; next request reloads lazily." That request fails, or takes lines
the old one left in the pipe for its answer (`AnswersAreOwn` fails in this instance too).
`mlx` therefore assumes `PromptKill`.

Bounds, and why they are enough for the cases they are about:

- `Capacity` 2 with 3 callers: one running and two waiting, or two waiting and one refused.
- Two models with weights 2 and 3, contexts up to 4 tokens and a budget of 12: both
  fit only with small contexts, so loads evict, and a context of 5 is refused by the
  cache's token limit. `MaxContexts` 2 for more keys than that: the LRU evicts.
- `MaxTurns` 2: a history that grows, is reset and is trimmed by `Prepare`.
- `KeepAlives` {0, 1}: expiry in `release()` itself and by a tick.
- IPC: buffers of two messages against three that may be due: overflow of the inbox and
  of the socket, in a drain and in a reply.
- HTTP: four events for a buffer of two, so that both overflow and draining happen; the
  second request matters only for places, threads and lists, so `http_pool` has fewer
  events.
- MLX: a prompt of one token, one that extends it and one that shares nothing, and two
  contexts: reuse of all, some or none of a cache, and of the wrong one. Calls are not
  bounded.
- Runtimes: Apple Silicon seen by both engines, an Intel Mac, a PC with three vendors and
  equal adapters, no GPU.
- Daemon: two daemons, so that each meets a live and a dead predecessor; two files, so
  that a package can be half right; one id in the registry and one that is not. One proper
  content and `Torn`: what the properties tell apart is whether a file is the one meant.
- IPC peers: two peers that name the same id. A peer that is turned away because all places
  are taken is in `Accept` but not in these instances: the server keeps nothing of it.
- llama.cpp: prompts that share nothing, a part or all with what is in the memory, longer
  than a batch, too long, with media; stop strings that overlap, that begin in the middle
  of a character's token, or one inside the other; tool turns whose end is inside a token or
  inside a quoted argument, with and without a prefilled opening tag. The decoder hands over
  characters whole, so that the half of a pair that `HeldBack` keeps back never ends a piece
  here; the theorems about the filter are about any pieces.
- Agent: groups nested by reference behind alternatives, nulls, arrays and maps, with a
  sensitive field at the end of each; a depth limit of 4, which reaches it through the array
  and cuts the longest path, that through the map; values that nest 2 deep below the
  outermost (`MaxNesting`); a reply of one call more than is allowed; ids from a runtime that
  repeats itself.

`CHECK_DEADLOCK FALSE` stands where the system may come to rest: peers that are gone,
responses that are over.

Fairness. Scheduler: the worker, the closer's join and a caller's own refusal are
threads that are scheduled (WF); a run that nobody cancels is given none, a cancelled one
is, because generation polls its token; `EverybodyIsAnswered` supposes besides that runs
end, which the token limit of every generation justifies. Service: WF of the
worker. IPC: WF of loop and worker, and SF of visiting each connection, because the
timer walks all of them every 10 ms and a ready socket is reported again. HTTP: WF of
each handler thread, whose waits are of 10 or 50 ms and whose writes have a time limit,
and of the closing thread; nothing is assumed of the service, so that
`InterruptedEnds` holds even if generation hangs. MLX: WF of the service's thread, whose
waits are of 20 ms, and of its clock; nothing is assumed of the process.

## Proofs

TLAPS checks these for every value of the constants, under the ASSUMEs of the modules
(limits are positive, sets are what they are called), which TLC evaluates in the runs.

**SchedulerProofs.** The inductive invariant is the type invariant with: every request
is in exactly one place (`OneHome`), no promise has two values, the active token is the
one in hand, positions in the histories are distinct (`Positions`), the stop reaches
everyone, the queue is bounded, order is kept, and what was served was answered.
`OneHome` and `Positions` are what makes the rest inductive: without them nothing says
that the request the worker takes has not been answered before. From it follow
`TypeCorrect`, `NeverSettledTwice`, `FirstComeFirstServed`, `WithinCapacity`,
`StopReaches`, `StateOutlives`, `Drained`, `NothingRunsAfterStop`, `CancelledWaitingHolds`
(a cancelled request that does not run stays so, because `StartRun` reads a token that is
never set back, and one that waits does not run, because it is in one place), and
`SchedulerSettles`: the scheduler implements `Settlement`, step by step.

**ServiceProofs.** The invariant adds to types and the stated properties: `Flow` (which
stages have which kind of request), `Keyed` and `InHand` (what the request's key and model
are at each stage). Four lemmas (`ModelEffects`, `CacheEffects`, `LeaseEffects`,
`JobEffects`) say which of a few kinds of change each action makes, so that each property is
proved against kinds of change and not against thirty actions. Proved: types, `TablesAgree`,
`LeaseIsHeld`, `ContextsOfLiveModels`, `ContextsAreOwned`, `UsedIsInstalled`,
`RememberedIsCurrent`, `RememberedIsLoadable`.

`ReloadKeepsConfiguration` is proved of `HistorySpec`, every step of which is one of `Spec`
(`HistoryFollows`), with two more invariants: what is remembered of a model is what it had
(`HadIsRemembered`), and a load under way is about to use what was asked or remembered
(`AskedIsUsed`). The first rests on `RememberedIsCurrent` while the model is in memory and
on `RememberedStays` afterwards; the second says that making room, which evicts others,
changes nothing that the load is about to use.

On top of it, `ContextsMatchHistory` from `Seen` (only the context in hand has been fed
what is not committed) and `Passing` (a temporary session and a one-shot context belong to
the request under way). And `MemoryIsReserved` from `MemoryInv`: the hand-kept counter
is the sum of the entries' tokens (`CacheWithin`), the residency is within its limits
(`ModelsWithin`), each reservation is the estimate for the context size loaded
(`ReservedAsEstimated`), and the room that was made is still there when the load comes
back (`RoomStaysMade`). The last two carry the property: a model has at most as many
contexts as its slots, each no larger than the size it was loaded with, and its
reservation is for slots of that size. The proof adds up over sets, so it is preceded by
lemmas about sums over finite sets (what one more term, one less, a split or a
comparison term by term does), each by induction on subsets.

**DaemonProofs.** First the catalog. Its invariant says of each process what its operation
has established at each stage (`Honest`), that what was pulled is listed as pinned, and
ownership. From it `PublishedWhole` and `EngineGetsThePinned` for any number of
processes, files, contents and crashes. The invariant of the daemon says who has the lock and
whose socket is at the path at each stage of `main()` (`LockRules`, `SocketRules`): a daemon
that listens has both. From it `EndpointIsServed`. `DaemonKeepsCatalog`: every behaviour of
the daemons is one of `Catalog`, so that its theorems hold of daemons (`DaemonsShareCatalog`).

**HttpServerProofs.** The invariant says of each response, at each place of its handler,
what it holds, what it was told and what it owes (`ReqInv`), and that the two counters
are the numbers of living leases (`Balance`). From it `AdmissionBalances`,
`NothingIsOrphaned`, `WireInOrder` and `DeliveredIsLeftAlone`. The proof of the first
needs a spare thread besides the two lanes (`HttpAssumption`): a pool of exactly the two
limits has none free for the next client. The code always has four
(`HttpApiServer.cpp:201`).

**LocalIpcProofs.** The invariant relates what a peer was sent, the inbox, the frame in
hand and the pending futures, request by request: an answer is cut in what was sent, what
is in the inbox and what is still to come (`TextRules`, `QueueRules`), the loop's steps
know how far they are (`FrameRules`, `LoopRules`), and ids, tokens and futures belong to
the unanswered (`PendingRules`, `ConnRules`). `drain()` sends any number of messages in a
step and may abort at any: it is followed event by event (`DrainRule`), by an induction
on the number of events. From it `AnswersInOrder`, `InFlightIsKnown` and
`CancelledByOwner`, for any number of peers that may use the same ids.

**MlxWorkerProofs.** The invariant says what the lines on their way in both directions
are about while the process lives (`Flow`), what the process, its generation and its
cache entries know (`ProcRules`, `GenRules`, `EntryRules`), and what a killed one may
still do (`KillRules`). `ReuseIsExact` holds however long a killed process lingers.
`AnswersAreOwn` needs `PromptKill`, and its theorem says so: `mlx_slow_kill` shows what
happens without.

**LlamaContextProofs.** The invariant says what memory, account, batch and the rest of the
prompt have to do with the request's text before (`Before`) and after (`After`) each native
call and when a token is sampled (`Current`). From it `AccountIsTrue` and
`LogitsAreCurrent`, for prompts and batches of any size. `StopsAreCutOut` is from
`StopRules`: in what the filter let out and holds back together there is no stop string,
and a stop string that may have begun in it has begun in what is held back. A stop string
can then only begin late (`BeginsLate`), where `push()` looks for it; the lemma holds
for any sequence of pieces, so nothing is supposed about the tokens, the decoder or the
tool turn but that they make text.

`AnswerIsTheText` is the statement about the text as a whole, and from `TextRules`: at every
moment of an answer the decoder has what it would have of all tokens at once
(`sink.carry`), and `Heard`, the tool turn and the filter have made of its text what they
would have made of it in one piece. It rests on three facts about sequences of any length.
The decoder is a fold, so that decoding in two parts is decoding the whole. The first place
where a tool turn is complete does not change when more text follows (`TurnStays`,
`CompleteStays`): the end of the call, read with its quotes, is decided by what is before it.
And a filter that was fed a text in any pieces (`Fed`) let out a beginning of it, up to its
first stop when no stop lies inside another. `LlamaAssumption` says of tokens only that the
one that ends an answer has no text.

**LoopProofs.** Conversations first. The loop of `validateConversationRequest()` is a fold
over the history; `CheckedSteps` unrolls it into a function of the number of messages read,
so that an induction on that number says what a good end implies of every place before it
(`GoodBefore`), that the ids seen are the ids of the messages (`CheckedIds`), and, for
`Compact`, that a history from which everything between two places with nothing pending is
taken out is as good as before (`TurnTakenOut`). The invariant is that the history is valid
at every moment, not only when it is sent, with nothing pending while the runtime has its
turn. From it `HistoryStaysValid`, for any tools, ids, replies and limits. It is
proved of `Conversation`'s own specification, whose client begins with any options, and
carried over to `Agent`, every step of which is one of these or none (`AgentHistoryHolds`).

Then `SelectionIsBest`. A finite set of devices has a listing in the order of the
comparison (`SortedExists` by insertion, `BeforeOrders`), since two devices that
compare equal are the same one. Lists put one behind the other are in order if each is and
every one is before the next (`FlattenInOrder`); with it, first for the inner loop and
then for the outer, `Attempts` lists what is offered and permitted, each once and the
preferred first. The invariant is of the load under way: what failed and what is left to try
are together that list (`LoadIsHalfDone`), so what is before the one that loads is what was
preferred to it (`Chosen`). It holds of any inventory and runtimes within
`RuntimeAssumption`: adapters with an id of their own and backends that are GPU backends.

Then the parameters. `RedactionIsComplete` is hard because `redactValue()` follows every
alternative of a schema, one after the other, and each rewrites what the one before it left:
the one that accepts the value covers what it should, in a value that others have already
changed, and others change the outcome again. The proof says what they may do to it.
`Covering` is the largest relation in which w shows v or covers some of it, part by part
(the union of all relations that are consistent, `CoveringMeans`). By induction over the
levels, `redactValue()` stays within it whatever the schema (`ShownIsCovered`); what hides a
value hides it when more is covered (`HiddenStays`); and the alternative that accepts a
value hides it although the value it is given is only what was left of it (`ShownIsHidden`).
A fold over the alternatives keeps what each of them keeps (`FollowedStays`) and ends in
what one of them brings about and the others keep (`FollowedReaches`). `RedactionHolds`
follows with the invariant that the object edited is of a group that there is, which needs
that what a control document keeps is valid. It is of `AgentSpec`, for any groups and
schemas that pass `checkSchema()` (`ParametersAssumption`), any values of any nesting and
any limit of the depth.

Every inductive invariant named here was first checked by TLC on the instances of the runs.

Only model-checked: liveness, which needs ENABLED and is not handled by the prover. Every
safety property of a passing run is the statement of a theorem.

Where a proof needs an induction (sums, `drain()`, the folds and loops), it is a fact about
all subsets or all numbers up to a bound, made by hand from a well-founded order.

Proved and not in a run, to keep the runs to what a bug would break first: the type
invariants, `ContextsAreOwned`, `UsedIsInstalled`, `RememberedIsCurrent`,
`RememberedIsLoadable` and four invariants of the scheduler.

## Observed on the way

Two things that no run is about:

- `parameters.validate` (`LocalIpcServer.cpp:311`) calls `validate(true)`, which asks for
  every required field without a default, also for the read-only ones that `set()` refuses
  (`Parameters.cpp:332,364`; `fromJson()` leaves them out at line 303). For a group with such
  a field, for example `vllm.ModelConfig` with `hf_config`, it can never succeed.
- `StopFilter` with one stop string strictly inside another: which of the two ends the text
  depends on how the pieces arrive (`Managers.cpp:201-208`). `AnswerIsTheText` leaves
  open where such a text ends (`NoneInside`), `StopsAreCutOut` holds of it all the same.

## What is not modelled

- Text beyond `TextStream`: prompts, templates, JSON, manifests, media. Their checks are of
  one value at a time.
- `PromptEngine::prepare`'s loop: `Prepare` stands for any number of turns kept.
- Samplers, grammars, embeddings and template parsing of the llama.cpp runtime; to the
  service a load, a tokenization and a generation succeed, fail or are cancelled.
- The loading of the parameter catalog (`checkSchema`), numbers and patterns in schemas, and
  model manifests: conditions on one document, without state.
- Options and the configuration file of the daemon, the command line client, the generator
  script.
- Time between verifying files and the engine opening them.
- Callbacks of the host that wait for the service they are called by.
- A model whose removal could not delete its files and that is installed again under the
  same id with a smaller context length: lengths are constants of an id.
- llama.cpp, cpp-httplib, Qt and the operating system, beyond what is said above.

## Plan

Done: every module has its safety properties proved.

1. A composition of `Scheduler` with one transport, with `Settlement` between them.
2. Schemas that combine alternatives with bounds of their own, and `validate(true)`.
3. Several catalogs, whose objects meet in one control document.
