# Mini-vLLM: specifications, model checking and proofs

Mini-vLLM serves a language model with continuous batching. A Go gateway admits
and routes HTTP requests; each Python worker runs a scheduler on an asyncio loop
that feeds one shared batch to a transformer engine in a thread. This directory
holds TLA+ models of the parts whose correctness depends on the order of events,
the TLC runs that check them, and TLAPS proofs of their main safety properties.

Paths below are relative to the repository root.

## 1. The system

```
 client --HTTP--> gateway: handleCompletions          (one goroutine per request)
                    | Pool.Acquire: admission slot        <-- HealthLoop polls
                    | Pool.Pick: least-in-flight worker       every worker
                    v gRPC Generate / GenerateStream / Health
                  worker: InferenceServicer, or the FastAPI app   (coroutines)
                    | DynamicBatcher.submit / stream
                    v queue, event, futures, stream queues
                  scheduler task: DynamicBatcher._loop    (same event loop)
                    | asyncio.to_thread, one call at a time
                    v
                  LLMEngine: admit, decode_step, evict_finished   (thread)
                    | kvcache: select_rows, concat_batch, left_pad
                    v
                  transformers model
```

| Component | State | Operations | What makes it correct |
|---|---|---|---|
| Scheduler, `worker/server/batcher.py` | `queue`, `running`, `_state`, `_work`; per request a future, a stream, `published_text` | `start`, `stop`, `submit`, `stream`, `_abandon`, `_tick` and what it calls | every caller is answered once and with its own, whole answer; no wake-up lost; FIFO admission; the batch bounded; failures confined; abandoned rows leave |
| Engine batch, `worker/server/model.py`, `kvcache.py` | `seqs`, `cache`, `mask`, `next_tokens`; per sequence `output_ids`, `finish_reason` | `encode`, `prefill`, `decode_step`, `admit`, `evict_finished`, `_compact`; `generate_batch`, `generate_without_cache` | row *i* of every list belongs to sequence *i*; neither batching nor the cache changes what a sequence generates; no padding is kept for nothing; the context is not exceeded |
| Sampling, `worker/server/sampling.py` | none | `clamp`, `sample`, `sample_batch` | parameters in range; each row sampled with its own; the nucleus cut where it should be |
| Worker process, `worker.py` | the stage of `serve()` | `serve`, `Health`, shutdown | the batcher up before the server and down after it; every call answered before the process ends |
| Streaming text, `batcher.py`, `worker.py`, `api.py`, `gateway/cmd/server/main.go` | `published_text`, the stream's items, messages on the wire | `_publish_deltas`, `stream`, `GenerateStream`, `_sse`, `streamCompletion` | the client's text lines up with the output; `[DONE]` means whole but for replacement characters; one end, always |
| HTTP front end, `api.py` | none of its own | `completions`, `_sse` | each outcome of the scheduler reported once |
| Worker metrics, `metrics.py` | counters and gauges | `record_result`, `record_error`, `observe_batcher` | one terminal status per request |
| Gateway pool, `gateway/internal/scheduler/pool.go` | `slots`; per worker `inflight`, `healthy` | `Acquire`, `Pick`, their releases, `HealthLoop` | capacity neither leaks nor inflates; routing by true loads; failed workers leave and rejoin |
| Gateway handlers, `gateway/cmd/server/main.go` | per request, a goroutine | `handleCompletions`, `streamCompletion`, shutdown | slot and load given back on every path |
| Settings, gateway metrics, protobuf stubs, benchmarks, deployment | - | - | not modelled (section 8) |

**Interactions and hard behaviours.** The scheduler and the callers share one
event loop and interleave only at awaits, but the engine runs in a thread, and
`_abandon` writes `finish_reason` from the loop while `evict_finished` reads it
twice in the thread. Deadlines, cancellations and `stop()` arrive between any
two steps. An engine call may raise half-way. In the gateway every atomic
operation of every goroutine interleaves; workers crash and come back; probes
are late. `PROJECT.json` lists these hazards at their lines, with the properties
that watch them.

## 2. The modules

| Module | What it is |
|---|---|
| `ServiceQueue` | abstract: what the scheduler promises the callers |
| `Batcher` | the scheduler, with the engine's view of rows as a set, and the callers |
| `BatcherProofs`, `StreamProofs` | its theorems, that it implements `ServiceQueue`, and what its streams carry |
| `WorkerProcess`, `WorkerProcessProofs` | `Batcher` inside `serve()`, from boot to exit; its theorems |
| `SoloGeneration` | abstract: each sequence generates as if alone |
| `KVBatch`, `KVBatchProofs` | the engine's batch: cache, mask and token rows under admission, decoding and eviction; its theorems, and that it implements `SoloGeneration` |
| `Sampling`, `SamplingProofs` | from a request's fields to the token its row draws; its theorems |
| `TextStream`, `TextStreamProofs` | the text of one streaming request, from tokens to the client's events; its theorems |
| `Gateway`, `GatewayProofs` | admission, routing and the health loop; its theorems |
| `Cluster`, `ClusterProofs` | `Gateway` composed with a `ServiceQueue` per worker; its theorems |
| `MCBatcher`, `MCWorkerProcess`, `MCKVBatch`, `MCSampling`, `MCTextStream`, `MCGateway`, `MCCluster` | the TLC instances |

How they hang together: `Batcher` is proved to implement `ServiceQueue`, a
`WorkerProcess` is proved to be a `Batcher`, and each worker of a `Cluster` is
proved to be a `ServiceQueue` to the calls its gateway makes, the gateway of a
`Cluster` to be `Gateway`. `KVBatch` refines what `Batcher` takes to be a set of
rows, and `TextStream` what it takes to be a number of tokens.

Definitions whose comment begins with "Mutant:" are deliberately wrong variants
of the definition that follows them. No specification uses them; substituting
one for its original makes a named property fail, which shows that the property
depends on that line of the code.

### Batcher

`pc` says where the scheduler task is suspended or what the engine is doing for
it. One action is everything the code does between two awaits: `CompleteAll`, for
instance, is the resumption after `evict_finished`: all the `_complete` calls,
the end of `_tick`, and the next `_tick` down to its first await (`BeginTick`).

| Code | Definitions |
|---|---|
| `_tick` up to its first await, `_take_admissions` | `BeginTick` = `FallAsleep`, `OpenWindow`, `TakeAdmissions`, `AskDecode`; `Room` |
| `_gather_window` | `OpenWindow`, `CloseWindow` |
| `admit`, `decode_step` in the thread | `EngineStep`, `Emit` |
| `_publish_deltas` | `Deliver` |
| `evict_finished`, its two list comprehensions | `ScanKeep`, `ScanDone` |
| `_complete`, `_publish_final` | `CompleteAll` |
| `_fail_all` | `EngineRaises`, `FailAll` |
| `submit`, `stream`, `add` | `Submit`, `Return`, `Receive`, `Resume` |
| deadline of `wait_for`; cancellation | `Timeout`, `HangUp`, `Forsake` |
| `_abandon`: check, then set | `Abandon`, `Mark` |
| `stop`, before and after its await | `StopBegin`, `StopFinish` |

Data. Text is a number of tokens: the streamed text of a request is how many of
its tokens the consumer has been given, and a stream item is the number it
brings the consumer to. `TextStream` has the text itself, where decoding more
tokens can change characters already decoded. A row's tokens are free: each step any set of open rows
may draw EOS. `completed` and `recorded` count `_complete` and `record_result`
per request.

Atomicity. The two readings of an eviction are separate steps because
`_abandon` can come between them and the outcome differs. `_emit` and one
reading over all rows are single steps although the thread is preemptive: rows
are independent, and an abandonment that falls between the visits of two rows
leaves the state it would leave before or after the step. `_abandon` itself is
two steps, since the thread may finish the row between its check and its
assignment; it has no await, so no other coroutine runs meanwhile (`LoopFree`).
An engine call still running in its thread when `stop()` cancels the task that
awaits it runs on to its end; what it writes reaches no request that is looked
at again, and the model leaves it out.

A deadline may pass although the answer has just arrived: since Python 3.12
`wait_for` raises then, and the project requires 3.12.

### WorkerProcess

`Batcher` lets `submit()` and `stop()` come in any order. `serve()` does not:
`process` goes through its stages, and `Accept`, `ServerStopped`, `StopBatcher`
and `Exit` say when calls may come and when `stop()` runs. Everything else in
`Batcher` goes on at every stage (`Inside`). That `server.stop(grace)` of grpc.aio
returns only when every call has ended, and cancels those that outlast the grace
period, is assumed from its documentation.

### KVBatch

The four parallel lists of `BatchState` as sequences of rows. A column of a
cache row is the key/value of one token at one position id, so the model keeps
what alignment is about and drops the numbers. The transformer is external and
is described by `Sample`: the token drawn from a row is the continuation of the
sequence its attended columns spell, provided each token is there once, at its
own position, and the latest is in the last column, where logits are read; in
any other case it is `Garbage`. Attention does not see column order. So
misplaced rows, stale masks and wrong position ids all show up as wrong tokens.

`Admit`, `Decode`, `ScanKeep` and `Evict` alternate as in `DynamicBatcher._tick`
and `generate_batch`. `Abandon` comes between any two, also for a newcomer that
is not prefilled yet. It checks and then sets, and the engine's call in between may
finish the row: a row of the batch that a call has just finished can therefore lose
its reason to `abandoned`, up to the eviction. `Fault` is the batch being dropped by `_fail_all`. The
order of `keep` is stated by `Ascending`, which exactly one list satisfies.
`Uncached` is `generate_without_cache`: the model run over the last `max_context`
tokens from position 0. In the models outputs end before the window has to
slide, as `_emit` makes them, so the two never differ; past that point they
would, since a slid window renumbers positions.

### Sampling

`MakeSequence` sends a body through one of three doors, pydantic, the gateway's
zero test and proto3's zeros with `or`, to `Clamp`. A door `Accepts` what its
validation and its types let through: the gateway's struct and the gRPC message have
int32 and float32 where the front end has Python's numbers, so a number beyond an
int32 is refused (`Fits`) and a fraction is rounded on its way (`Carried`).
Temperatures and `top_p` are in twelfths, `Float32` rounds them to quarters, and its
least numbers become zero: coarse, but with what matters, values that change, that
vanish and that stay. `MaxInt32` is any number that holds the default of 50.

`groups` is the dictionary of `sample_batch`, a list of keys with the rows that have
them, filled row by row (`Grouped`) and emptied one vectorised call at a time
(`SampleGroup`); `Scattered` puts the i-th value of a call into the i-th of its rows.
Softmax is to the base 2 with rounded exponents (`TwoTo`), so that probabilities are
ratios of integers and the nucleus is exact; `Mass` adds them up token by token.
`torch.sort` may order equals in any way (`Orders`), and which of the tokens left is
drawn is free (`Supports`).

### TextStream

One request, all the way. A token is a string of bytes that may begin, carry on
or end a character: one of `Ascii`, which takes one byte, or a wide one, which
takes `Width`. `Decode` is UTF-8 decoding with errors replaced. An item and a
message are a text with, or instead of it, the mark that ends the stream. The
tokenizer's optional cleaning up of spaces is assumed to be off, as it is for the
byte-level models the worker loads. `EngineStep`, `PublishDeltas`, `Keep`,
`Complete` and `FailAll` are `Batcher`'s actions for one row with their text;
`Submit`, `Receive`, `Timeout`, `Cancelled` and `Crash` the handler, `Open`,
`Relay` and `GiveUp` the gateway's goroutine. `route` chooses between the two ways
out, and the events a client reads are `got`, the text, and `ends`, how it was
told that its stream ended. `Shows` says what a client may read where the output has a
character: that one, or the replacement character for a wide one that came in pieces.

### Gateway

A goroutine of `handleCompletions` is a value of `at`; each atomic load, add or
store and each operation on the `slots` channel is a step. `Pick` is therefore a
scan: `ReadHealth` and `ReadLoad` per worker, then `Dispatch`. The two deferred
calls are `Done` and `Release`. The health loop asks a worker (`Probe`) and
stores the verdict (`Store`) in two steps. `Crash` cuts the calls a worker had;
they can only fail. `calm` is a history variable: the workers whose health and
load have not changed since the request was admitted. It lets
`NoneBetterPassedOver` say what least-in-flight can mean for a scan that is not
atomic, and that no request is refused for want of workers while one of them has
been healthy, at an unchanged load, since it was admitted.

### Cluster

What a call to a worker comes to is free in `Gateway` (`Succeed`, `Fail`). Here a
worker has a queue, a batch and the answers it owes, as `ServiceQueue` describes
them: `Arrive`, `Turn` (`Admit`, `Finish`, `Break`), `Leave`, `WorkerCrash`. A
request may outlive its call: when the gateway's deadline passes it gives back the
slot and the load, and the worker goes on. Such a request is called a ghost.

## 3. What the runs check

| Run | Instance | Shows | Distinct states |
|---|---|---|---|
| `batcher_safety` | 2 blocking calls, 1 stream; batch 2, queue 2, window | all safety invariants of `Batcher`; `ServiceSpec` (refinement) | 3.7 M |
| `worker_served` | 1 call, 1 stream; batch 1, no window; boot to exit; fair | `ReadyIsTrue`, `StopFindsNoCaller`; liveness: `ServedToTheEnd`, `AbandonedLeaves` | 112 k |
| `kvbatch_safety` | 3 sequences, batch of up to 3, prompts 1, 3, 7, context 5 | fidelity, compaction, context limit, `CachedAsUncached`; `SoloSpec` (refinement) | 267 k |
| `sampling_rows` | 3 rows, 3 tokens, 9 bodies, 3 doors, a tie among the logits | `SameThroughEveryDoor`, `OwnSettings`, `NucleusExact` | 177 k |
| `stream_safety` | 1 request of up to 3 tokens from 5, characters of 3 bytes, both routes; fair | `LinesUp`, `DoneMeansWhole`, `EndsOnce`; liveness: `Ends` | 186 k |
| `gateway_safety` | 3 requests, 2 slots, 2 workers, crashes, late probes | `SlotsConserved`, `InflightConserved`, `NoneBetterPassedOver` | 2.9 M |
| `gateway_live` | 2 requests, 1 slot, 2 workers, crashes, shutdown; fair | `SlotReturned`, `Ejected`, `Rejoins` | 433 k |
| `cluster_ghosts` | 2 requests, 1 slot, 2 workers with a row and a place in the queue each, crashes; fair | `OkIsServed`, `LoadCountsTheLiving`; `BothServe` (refinement); liveness: `GhostsLeave` | 742 k |

Four more runs expect a violation, because the code does not do what a comment
or a test of the repository says of it:

| Run | What the repository says | What the run shows |
|---|---|---|
| `batcher_status` | "Requests by terminal status." (`metrics.py:26`) | a request that times out in flight is counted as `timeout` by its handler and again, as `abandoned` or as what the row ended with, by `_complete` |
| `batcher_hungup` | "the scheduler drops the sequence on the next sweep" (`api.py:141`) | a client that goes away while `stream()` is suspended at its `yield` raises `GeneratorExit` there, which is not caught: the row is generated to its end |
| `stream_reassembles` | "stream deltas reassemble into the full text" (`test_batcher.py:115-122`); partial UTF-8 is why text is decoded whole (`batcher.py:302-303`) | when an output ends inside a character, the replacement character published for it is never corrected: the completed one takes its place at an index behind the cut. `LinesUp` says that nothing worse happens |
| `gateway_spread` | "within one request of the mean" (`pool_test.go:144`) | picks that overlap read the same loads and choose the same worker |

**Why the bounds are enough.** `Batcher`: three requests are one more than the
batch holds, so admission, refilling, a queue that fills up, a row that outlives
its request and a request behind it all occur; two tokens let a row be seen
unfinished, then finished. `WorkerProcess`: one row for two requests makes one
wait for the other, and both can straddle the signal; the window of admission is
left out there because liveness on the larger graph is beyond TLC, and
`batcher_safety` has it. `KVBatch`: three rows let an eviction remove a subset and
keep rows on both sides of a gap; the prompts make newcomers wider and narrower
than the batch, and one exceeds the context; a budget of two and the context
limit end sequences in both ways. `Sampling`: three rows can be one, two or three
groups; the bodies have every field absent, at its bounds and beyond, a
number beyond an int32, a `top_p` that a float32 makes zero and a temperature that it
rounds, and pairs that differ in one component of the key. `TextStream`: three tokens of up to three
bytes open a character, carry it on, complete it or break it off at every cut.
`Gateway`: three requests for two slots shed one; two overlapping picks and a
third that sees their effect cover the races of a scan; two workers let one be
passed over. `Cluster`: one slot lets the second request in only when the first
has given it back, which its ghost has not: two requests then meet at a worker
whose load says one. The theorems of section 4 hold without these bounds.

Deadlock checking is off where every call is made once and the system may come
to rest; the gateway's health loop always has a step to take in the two gateway
instances, and deadlock is checked.

**Fairness.** `WorkerProcess!ProcessFairSpec`: asyncio runs every ready task
(`Loop`, `Call(r)`), an engine call returns (`Engine`), a coroutine inside
`_abandon` is not suspended for ever (`Mark`), and `serve()` goes on. Deadlines,
hang-ups, engine errors and signals are never forced, so `ServedToTheEnd` says
that callers are answered by the scheduler itself. `TextStream!FairSpec` likewise.
`Gateway!FairSpec`: the Go runtime runs every goroutine, the context deadline ends
every call, and probes and ticks come. That includes that a client reads on or closes
its connection: the server has no `WriteTimeout` (`main.go:126-128`), and a write to one
that does neither blocks past the deadline. Workers owe nothing there, neither answers
nor restarts; `Ejected` and `Rejoins` are conditional on a worker that stays as it
is, and on a gateway that was not told to stop. `ClusterFairSpec` adds that a
worker that is up works (`Admit`, `Finish`), which is what `worker_served` checks
of one.

## 4. What is proved

All proofs are checked by TLAPS for every value of the constants, under the
named assumptions on them: `RequestsAssumption` and `SizesAssumption`
(`Batcher`), `EngineAssumption` (`KVBatch`), `SamplingAssumption` and
`NoParamsAssumption` (`Sampling`), `StreamAssumption` (`TextStream`),
`GatewayAssumption`, `ClusterAssumption`. They say that requests, sequences and
rows are finitely many, that sizes are positive, that the context holds at least
two tokens, that the numbers of a request are integers and the default of 50 is an
int32, and that a token other than EOS is a non-empty string of bytes. The gateway replaces a limit of 0 by 64 (`pool.go:67-69`); a worker
started with a batch or queue size of 0 could serve nobody and is left out.

**`BatcherProofs`.** `TypeCorrect` is inductive by itself. `Invariance` proves
the inductive invariant `IInv`: the checked invariants `RowsWithinBatch`,
`OnePlace`, `RunningHasRow`, `NoOrphanedCaller`, with three strengthenings.
`Phases` says which rows exist at which point of the loop, and that a row not
kept by the first reading has finished: without it `RunningHasRow` could not
survive `CompleteAll`, which replaces the batch by `keep` and removes `done`
from `running`. `Unmade` says a call not made is nowhere, so `Submit` cannot
queue a request twice. `Counted` says a request still queued or running was
never counted and that a counted row can stay for one eviction only, which is
why two is the bound in `RecordedOnce`. The theorems `RowsBounded`,
`PlacedOnce`, `RunningRows`, `NoCallerOrphaned` and `CountedOnce` follow.
`NoWakeupLost` is inductive given the types: whoever joins the queue sets the event,
and a tick that follows the window looks at the queue again (`MoveAwake`). The proofs
rest on lemmas about sequences (append, cut, remove) and on `MoveEffect`, which says what any first part of a tick does to the collections.

`ServiceImplemented` proves `Spec => ServiceSpec`. The mapping sends `queue` to
`waiting`, `running` to `serving` and the future, unless the caller has been
rejected or has left, to `answer`. Only `Submit`, `Timeout`, `HangUp`,
`CompleteAll`, `FailAll`, `StopFinish` and the ticks that admit are visible;
`CompleteAll` with the admission that follows is one `Finish`. Beside `IInv` the
proof needs `Settled`: what a future may hold given where its caller stands.

**`StreamProofs`.** `StreamsExact` and `AnswersWhole` need to know what lies
between a consumer and its text at every moment. `Given` says it, as two
properties of each request: `Told`, that a result belongs to a sequence that ran
to its own end and an abandoned one has nobody to get it; and `Streamed`, that the
items are the tokens from the consumer's to the last published one, with the
sentinel behind them exactly when the request is answered. Only between an engine
step and its delivery is there unpublished text. It is inductive relative to
`IInv`, by lemmas on adding to and taking from a list of items.

**`WorkerProcessProofs`.** Every step of `ProcessSpec` is one of `Batcher` or
none (`ProcessIsBatcher`), so that a process has all of `Batcher`'s theorems and
implements `ServiceQueue` (`ProcessServes`). `HealthIsTrue` and `StopMeetsNobody`
follow from `PInv`, which says where the scheduler is at each stage and that
callers who have left do not come back: this is what the order of `serve()` is for.

**`KVBatchProofs`.** `KInv` is `Types`, `BatchAligned`, `Rows`, `Outputs`, `Room`,
`NoCommonPadding` and `WithinContext`. `BatchAligned` says that the lists are as long
and their rows as wide as each other. `Rows` is `RowFaithful` with `prompt > 0`.
`Outputs` says that what a sequence has generated continues its prompt; without it
the newcomer's first token could not be related to its output. `Room` says which
rows may be decoded once more, those an eviction has read as unfinished included:
an abandoned row that was kept is decoded once past what `RowFaithful` says, and
must still have a position in the context. The tensor surgery is in lemmas about
rows: `PaddingUnseen` (columns of padding in front change nothing the model
sees), `RowGrows`, `FreshRow`, `StackedRows`, `SelectedRows`, `DroppedRows`, and
`LeadColumns`, for which `Lead`, the size of a set of columns, is shown to be the
length of an initial segment (`InitialSegment`). `CacheIsTransparent` and
`BatchImplementsSolo` are consequences: in the latter `Admit` is `Start` of the
newcomers, `Decode` is `Continue` of the batch, and eviction and faults are
stutters.

**`SamplingProofs`.** `ParametersInRange`: no integer a client can send leaves
`clamp` out of range. `OneMeaning`: what the front end would accept means the same
through every door that accepts it, up to the precision of a float32 (`Meaning`,
`Narrowed`). The exception is part of the statement: a `top_p` that is positive, but
zero as a float32, is honoured by the front end and means no `top_p` behind the other
two. `GroupsFit` says that the rows of a group waiting to be sampled have the group's
key. `InItsGroup` is the inductive part: each row whose request has come is in a group still to be sampled or has a token that its own
settings allow, so that none is left out when the groups run out
(`NoRowLeftOut`); the key under which it waits is its own.

What its settings allow is then a matter of `sample`, for every vocabulary, all
logits and every order of equals. `KthExists` says that the threshold of `top_k`
is there, `TopKLeavesPool` that the tokens it leaves are those with fewer than
`top_k` likelier ones; `SampledAsAsked` follows, since what a call returns is put
into the rows it was made for. The nucleus is the tokens whose
mass before them does not exceed `top_p`; `NucleusIsFirst` says that, masses along
an order being ascending, this is an initial part of the order, cut where its mass
passes `top_p`, and `Nucleus` that its last token is the least likely of them, and that
without it they would not pass. `NucleusIsExact` follows.

**`TextStreamProofs`.** `DecodeGrows` is the lemma about `Decode`: the text of an
output lies in the text of a longer one (`Lies`: character by character, with
replacement characters standing for wide ones that came in pieces, as in `Shows`). The
second is not a continuation of the first, and this is as much as is true. `IInv` is `TypeOK` with five parts.
`Phases`: which handler and gateway there can be at which step. `Sentinel`: the
sentinel is the last item, and says that all is published or that the future
failed. `LastWord`: what ends a stream is the handler's last message, and "done"
is said of a finished generation only. `Flow`: the messages on the wire lie in the
text behind what the client has, the items behind those, up to what is published
(`Laid`), as long as anybody listens; without the place of each, nothing could be
said when it is appended to the client's text. `Told`: what the client has read of
an end is so. `TextLinesUp`, `WholeWhenDone` and `StreamEndsOnce` follow, and
two theorems about when the test's claim that `stream_reassembles` refutes is
true: the deltas add up to the text if no replacement character was shown
(`ReassemblesUnlessReplaced`), and none is if every token is made of whole
characters (`WholeTokensReassemble`): those behind whole characters are decoded as
they are by themselves (`ClearDecode`), and nothing on its way is ever replaced.

**`GatewayProofs`.** `GatewayInvariance` proves `GInv`: `TypeOK`,
`SlotsConserved`, `InflightConserved` and `NoneBetterPassedOver` together with
`ScanPhases`. They need each other: loads stay natural numbers because `Done`
only takes back what `InflightConserved` has counted, and slots likewise. The
accounting lemma is `CountMoves`, one member in or out of a finite set.

**`ClusterProofs`.** A step of the cluster is a step of `Gateway` or none, so
`GInv` holds of it (`ClusterIsGateway`). `CInv` adds that whoever occupies a worker
has called it and was dispatched to it, and that a request answered "ok" was sent;
`OkMeansServed` and `LoadsCoverTheLiving` follow. `WorkersServe` is the
refinement, worker by worker: a crash and a refused call are the service's too.

**Induction over data.** `Decode`, `Mass` and `TwoTo` are recursive functions. The
library's theorems on recursion and induction take operators as parameters, which
the provers cannot instantiate; the proofs go by sets of numbers instead:
`AllNumbers` says that a set with 0 and every successor is all of `Nat`, by the
well-founded minimum of its complement (`LeastNumber` in `SamplingProofs`). That the
functions exist and satisfy their equations is proved from it, and not assumed:
`Recursion`, by finite chains, and `ReadsExist` for `Decode`.

**Only model-checked.** Every safety invariant, action property and refinement of
the passing runs is proved. Liveness (`ServedToTheEnd`, `AbandonedLeaves`, `Ends`,
`SlotReturned`, `Ejected`, `Rejoins`, `GhostsLeave`) is out of the prover's reach.

## 5. What the checks show of the hazards

- A row abandoned in the middle of an eviction can be kept and handed back, but
  never lost: that order of the two readings (keep first) is what
  `RunningHasRow` depends on. Read the other way round, a row could be in
  neither list and its request in `running` for ever.
- A rejected or abandoned request leaves no trace in queue or batch, and rows
  that outlive their requests (hang-ups) still count against the batch.
- `stop()` gives streams no sentinel, and a call made after it is queued for
  nobody. Neither matters to a worker: `StopFindsNoCaller` says that `serve()`
  has no caller left by then, whatever signals, deadlines and hang-ups do.
- `Health` answers ready without a look at the scheduler, and is right while the
  server takes calls, by the order in which `serve()` starts things.
- `next_tokens` of a finished row drifts away from its output for one step and
  does no harm, since rows do not see each other and it is evicted next.
- Slots and loads are exact on every path of the handler, including a worker
  crashing under a call and a pick that finds no worker.
- The gateway's load undercounts a worker by its ghosts and by nothing else, and
  ghosts leave without anybody's help. A request is never at two workers.
- A stream's client is told the end exactly once on both routes, and `[DONE]`
  without an error means that something was sent for every character of the output:
  the character, or for a wide one that came in pieces perhaps the replacement
  character, which is then never corrected (`stream_reassembles`). Only `_sse`, after
  a rejection, writes an error and `[DONE]` together, before any text.
- An arrival never finds the scheduler asleep without waking it, and abandonment
  during the admission window never has the engine called for nothing.
- The front end, the gateway and gRPC agree on the requests they all accept, but for
  a `top_p` below the least float32, and do not accept the same: the gateway answers
  400 to a `top_k` of three thousand million, which the front end takes.
- One request that makes an engine call raise fails all that is in flight. That is
  how `_fail_all` is meant, and no property says otherwise.

Seen while modelling, and behind no property:

- `_complete` adds to `completed` and `tokens_generated` again when a row that was
  abandoned between the two readings of an eviction is handed back twice;
  `record_result`, behind the pop, is not repeated (`RecordedOnce`).
- The gateway's token counter counts the chunks it relays, which are fewer than
  tokens when a token adds no text (`main.go:283`).
- `cache_attended` counts padded columns (`batcher.py:267`).

## 6. Running

```
tlc -workers 2 -config MCBatcher_safety.cfg MCBatcher
tlapm KVBatchProofs.tla
```

Every run takes a few minutes at most, every proof module about two.

## 7. Plan

Done, in this order: `ServiceQueue` and `Batcher` with its proofs; `KVBatch`;
`Gateway` with its proofs; `WorkerProcess`, `TextStream`, `Sampling` and `Cluster`;
`StreamProofs`, `KVBatchProofs` and the proofs of the other modules, the recursive
functions of `Sampling` and `TextStream` last.

What would come next:

1. `Batcher` over `KVBatch` itself instead of a set of rows, to have the fault in
   the middle of an admission with the rows it leaves.
2. An unbounded supply of requests in `WorkerProcess`, for the admissions that are
   preferred to decoding (`batcher.py:230`).

## 8. Not modelled, and why

- Numbers: logits and tensor contents, beyond the small ratios of `Sampling`. A
  temperature so small that logits overflow, or NaN, makes `multinomial` raise, which
  is an engine error like any other in `Batcher`. A NaN passes `clamp`; only gRPC can
  carry one, and as `top_p` it means none.
- JSON's own rules for numbers: the gateway answers 400 to `50.0` for an integer field
  and to a fraction beyond the range of a float32, and the front end has rules of its
  own.
- Connections: their buffers, and clients that stop reading without closing.
- `trim_left` and `cache_stats`: called by nothing that generates.
- `max_context` of 1, for which `ids[-0:]` keeps the whole prompt
  (`model.py:125`); the models assume at least 2.
- `_complete` raising after its pop (`batcher.py:311-338`): the tokenizer decodes
  every id the model can produce. `start()` after `stop()`, which no caller does.
- The compare-and-swap that makes the gateway's releases idempotent: each
  handler defers each of them once.
- JSON and SSE framing, status-code tables, histograms and gauges, settings,
  generated stubs, benchmarks, containers and CI: formats and figures that no
  behaviour depends on.
