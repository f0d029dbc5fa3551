------------------------------- MODULE Batcher -------------------------------
(***************************************************************************)
(* The continuous-batching scheduler, worker/server/batcher.py, with the   *)
(* part of the engine (worker/server/model.py) it drives and the gRPC      *)
(* handlers (worker/server/worker.py) that call it.                        *)
(*                                                                         *)
(* Three kinds of actor touch the same objects:                            *)
(*   - the scheduler task, which runs on the event loop and gives it up    *)
(*     only where _tick awaits;                                            *)
(*   - the engine, which runs one call at a time in a thread while the     *)
(*     scheduler awaits it;                                                *)
(*   - the callers, coroutines of the same event loop.                     *)
(* A step of the loop or of a caller is everything it does between two     *)
(* awaits.  The thread is preemptive: it interleaves with the callers, and *)
(* reads finish_reason at two instants of one eviction.  The caller's one  *)
(* read-then-write of a field the thread also writes, in _abandon, is two  *)
(* steps for the same reason.                                              *)
(*                                                                         *)
(* Rows are a set here: their order, the cache and the mask belong to      *)
(* module KVBatch.                                                         *)
(***************************************************************************)
EXTENDS Naturals, Sequences, FiniteSets

CONSTANTS
    Requests,       \* calls of submit() and stream(), each made once
    Streaming,      \* the calls of stream()
    Limit,          \* per request, the most tokens max_tokens and the
                    \*   context window leave it
    MaxBatchSize,   \* settings.max_batch_size
    MaxQueueSize,   \* settings.max_queue_size
    HasWindow,      \* window_ms > 0
    NoRequest

ASSUME RequestsAssumption ==
    /\ IsFiniteSet(Requests)
    /\ Streaming \subseteq Requests
    /\ NoRequest \notin Requests
    /\ Limit \in [Requests -> Nat \ {0}]

ASSUME SizesAssumption ==
    /\ MaxBatchSize \in Nat \ {0}
    /\ MaxQueueSize \in Nat \ {0}
    /\ HasWindow \in BOOLEAN

VARIABLES
    pc,         \* where the scheduler task is suspended, or the engine's step
    work,       \* the asyncio.Event _work
    queue,      \* self.queue, oldest first
    running,    \* keys of self.running
    batch,      \* rows of self._state
    newcomers,  \* rows taken from the queue whose admit() has not returned
    keep,       \* evict_finished: rows read as unfinished
    done,       \* evict_finished: rows read as finished
    finish,     \* seq.finish_reason
    tokens,     \* len(seq.output_ids)
    text,       \* how many of them decode() shows (an EOS is skipped)
    marking,    \* the request whose _abandon is between its check and its set
    future,     \* req.future
    stream,     \* req.stream: items not yet taken; n stands for the text that
                \*   brings the consumer to n tokens, End for None
    published,  \* tokens shown in req.published_text
    caller,     \* where the caller of the request stands
    received,   \* tokens the consumer of a stream has been given
    completed,  \* how often _complete has counted the request
    recorded    \* how often record_result has counted the request

schedVars == <<queue, running, batch, newcomers, work>>
evictVars == <<keep, done>>
seqVars   == <<tokens, text>>
replyVars == <<future, stream, published>>
callVars  == <<caller, received>>
countVars == <<completed, recorded>>

vars == <<pc, schedVars, evictVars, finish, seqVars, marking, replyVars,
          callVars, countVars>>

\* The sentinel that ends a stream (None in the code).
End == 0

\* Where the scheduler task can be, or what the engine is doing for it.
LoopStates ==
    {"new",                 \* start() not called yet
     "starting",            \* task created, its first step not taken
     "asleep",              \* awaiting _work
     "window",              \* sleeping in _gather_window
     "admit", "decode",     \* engine about to run admit() or decode_step()
     "stepped",             \* that call returned, the loop not resumed yet
     "scanKeep", "scanDone",\* engine about to read finish_reason for keep, done
     "evicted",             \* evict_finished() returned, loop not resumed yet
     "raised",              \* an engine call raised, loop not resumed yet
     "stopping",            \* stop() awaits the cancelled task
     "stopped"}

Reasons == {"none", "stop", "length", "abandoned"}

Futures == {"none", "pending", "result", "exception", "cancelled"}

Suspended == {"waiting", "yielding"}
Callers   == Suspended \cup {"new", "rejected", "result", "error",
                             "cancelled", "timeout", "hungup"}

Elements(s) == {s[i] : i \in 1 .. Len(s)}

Queued == Elements(queue)

\* asyncio runs one step at a time; a caller inside _abandon holds the loop.
LoopFree == marking = NoRequest

-----------------------------------------------------------------------------
(* Helpers *)

\* Futures of S still pending are resolved as v ("if not req.future.done()").
Resolved(S, v) ==
    [r \in Requests |-> IF r \in S /\ future[r] = "pending" THEN v
                                                            ELSE future[r]]

\* The items that take a consumer who has been shown n tokens to m.
Delta(n, m) == IF n < m THEN <<m>> ELSE << >>

\* Mutant: a removed request leaves a hole in the queue.
RemoveAtHole(s, i) == [s EXCEPT ![i] = NoRequest]

RemoveAt(s, i) == SubSeq(s, 1, i - 1) \o SubSeq(s, i + 1, Len(s))

-----------------------------------------------------------------------------
(* The scheduler task.  BeginTick is what runs from the top of _tick to    *)
(* its first await; b and run are the batch and the running requests the   *)
(* step before left behind.                                                *)

\* Nothing to do: clear the event and wait for add() to set it.
FallAsleep(b, run) ==
    /\ b = {} /\ queue = << >>
    /\ work' = FALSE
    /\ pc' = "asleep"
    /\ batch' = b /\ running' = run /\ newcomers' = {}
    /\ UNCHANGED queue

\* Cold start with room to spare: hold the window open for more arrivals.
OpenWindow(b, run) ==
    /\ HasWindow
    /\ b = {} /\ queue # << >> /\ Len(queue) < MaxBatchSize
    /\ pc' = "window"
    /\ batch' = b /\ running' = run /\ newcomers' = {}
    /\ UNCHANGED <<queue, work>>

\* Mutant: room is counted by running requests instead of rows.
RoomByRunning(b) ==
    LET free == MaxBatchSize - Cardinality(running \ done)
    IN  IF Len(queue) < free THEN Len(queue) ELSE free

\* _take_admissions: how many queued requests the batch b has room for.
Room(b) ==
    LET free == MaxBatchSize - Cardinality(b)
    IN  IF Len(queue) < free THEN Len(queue) ELSE free

\* Mutant: the last admitted request stays in the queue.
TakeAdmissionsOffByOne(b, run) ==
    /\ Room(b) > 0
    /\ newcomers' = {queue[i] : i \in 1 .. Room(b)}
    /\ queue' = SubSeq(queue, Room(b), Len(queue))
    /\ running' = run \cup newcomers'
    /\ batch' = b
    /\ pc' = "admit"
    /\ UNCHANGED work

\* Mutant: the newest requests are admitted first.
TakeAdmissionsNewest(b, run) ==
    /\ Room(b) > 0
    /\ newcomers' = {queue[i] : i \in Len(queue) - Room(b) + 1 .. Len(queue)}
    /\ queue' = SubSeq(queue, 1, Len(queue) - Room(b))
    /\ running' = run \cup newcomers'
    /\ batch' = b
    /\ pc' = "admit"
    /\ UNCHANGED work

\* Pop that prefix of the queue, enter it in running, hand it to the engine.
TakeAdmissions(b, run) ==
    /\ Room(b) > 0
    /\ newcomers' = Elements(SubSeq(queue, 1, Room(b)))
    /\ queue' = SubSeq(queue, Room(b) + 1, Len(queue))
    /\ running' = run \cup newcomers'
    /\ batch' = b
    /\ pc' = "admit"
    /\ UNCHANGED work

\* No room or nobody queued: advance the rows there are.
AskDecode(b, run) ==
    /\ Room(b) = 0 /\ b # {}
    /\ newcomers' = {} /\ batch' = b /\ running' = run
    /\ pc' = "decode"
    /\ UNCHANGED <<queue, work>>

BeginTick(b, run) ==
    \/ FallAsleep(b, run)
    \/ OpenWindow(b, run)
    \/ /\ b = {} => (~HasWindow \/ Len(queue) >= MaxBatchSize)
       /\ TakeAdmissions(b, run) \/ AskDecode(b, run)

Init ==
    /\ pc = "new" /\ work = FALSE
    /\ queue = << >> /\ running = {} /\ batch = {} /\ newcomers = {}
    /\ keep = {} /\ done = {}
    /\ marking = NoRequest
    /\ finish = [r \in Requests |-> "none"]
    /\ tokens = [r \in Requests |-> 0]
    /\ text = [r \in Requests |-> 0]
    /\ future = [r \in Requests |-> "none"]
    /\ stream = [r \in Requests |-> << >>]
    /\ published = [r \in Requests |-> 0]
    /\ caller = [r \in Requests |-> "new"]
    /\ received = [r \in Requests |-> 0]
    /\ completed = [r \in Requests |-> 0]
    /\ recorded = [r \in Requests |-> 0]

Start ==
    /\ pc = "new"
    /\ pc' = "starting"
    /\ UNCHANGED <<schedVars, evictVars, finish, seqVars, marking, replyVars,
                   callVars, countVars>>

\* The task's first step, or its next one once the event was set.
Wake ==
    /\ LoopFree
    /\ pc = "starting" \/ (pc = "asleep" /\ work)
    /\ BeginTick(batch, running)
    /\ UNCHANGED <<evictVars, finish, seqVars, marking, replyVars, callVars,
                   countVars>>

\* Mutant: the tick goes by the queue it saw before the window, and calls the
\* engine though nobody is left in it.
CloseWindowStale ==
    /\ LoopFree
    /\ pc = "window"
    /\ \/ TakeAdmissions(batch, running)
       \/ /\ queue = << >> /\ pc' = "decode"
          /\ UNCHANGED <<queue, running, work, batch, newcomers>>
    /\ UNCHANGED <<evictVars, finish, seqVars, marking, replyVars, callVars,
                   countVars>>

\* The window closes: full, or past its deadline.  Abandonment may have
\* emptied the queue meanwhile, and the tick then returns without a step.
CloseWindow ==
    /\ LoopFree
    /\ pc = "window"
    /\ FallAsleep(batch, running) \/ TakeAdmissions(batch, running)
    /\ UNCHANGED <<evictVars, finish, seqVars, marking, replyVars, callVars,
                   countVars>>

\* Mutant: admit() returns the prefilled rows without the ones it had.
DeliverFreshOnly ==
    /\ LoopFree
    /\ pc = "stepped"
    /\ pc' = "scanKeep"
    /\ batch' = IF newcomers = {} THEN batch ELSE newcomers
    /\ newcomers' = {}
    /\ UNCHANGED <<queue, running, work, evictVars, finish, seqVars, marking,
                   replyVars, callVars, countVars>>

\* Mutant: the published text is not remembered.
DeliverAgain ==
    /\ LoopFree
    /\ pc = "stepped"
    /\ pc' = "scanKeep"
    /\ batch' = batch \cup newcomers
    /\ newcomers' = {}
    /\ stream' = [r \in Requests |->
            IF r \in batch' \cap running \cap Streaming
            THEN stream[r] \o Delta(published[r], text[r]) ELSE stream[r]]
    /\ UNCHANGED <<queue, running, work, evictVars, finish, seqVars, marking,
                   future, published, callVars, countVars>>

\* The step returned: take over its state and publish the new text.
Deliver ==
    /\ LoopFree
    /\ pc = "stepped"
    /\ pc' = "scanKeep"
    /\ batch' = batch \cup newcomers
    /\ newcomers' = {}
    /\ LET live == batch' \cap running \cap Streaming
       IN  /\ stream' = [r \in Requests |->
                IF r \in live THEN stream[r] \o Delta(published[r], text[r])
                              ELSE stream[r]]
           /\ published' = [r \in Requests |->
                IF r \in live THEN text[r] ELSE published[r]]
    /\ UNCHANGED <<queue, running, work, evictVars, finish, seqVars, marking,
                   future, callVars, countVars>>

\* Mutant: a row no longer in running is recorded all the same.
CompleteAllUnguarded ==
    /\ LoopFree
    /\ pc = "evicted"
    /\ completed' = [r \in Requests |->
            IF r \in done THEN completed[r] + 1 ELSE completed[r]]
    /\ recorded' = [r \in Requests |->
            IF r \in done THEN recorded[r] + 1 ELSE recorded[r]]
    /\ future' = Resolved(done, "result")
    /\ keep' = {} /\ done' = {}
    /\ BeginTick(keep, running \ done)
    /\ UNCHANGED <<finish, seqVars, marking, stream, published, callVars>>

\* evict_finished returned: _complete every finished row, then the next tick.
CompleteAll ==
    /\ LoopFree
    /\ pc = "evicted"
    /\ completed' = [r \in Requests |->
            IF r \in done THEN completed[r] + 1 ELSE completed[r]]
    /\ LET live == done \cap running
       IN  /\ recorded' = [r \in Requests |->
                IF r \in live THEN recorded[r] + 1 ELSE recorded[r]]
           /\ stream' = [r \in Requests |->
                IF r \in live \cap Streaming
                THEN stream[r] \o Delta(published[r], text[r]) \o <<End>>
                ELSE stream[r]]
           /\ published' = [r \in Requests |->
                IF r \in live \cap Streaming THEN text[r] ELSE published[r]]
           /\ future' = Resolved(live, "result")
    /\ keep' = {} /\ done' = {}
    /\ BeginTick(keep, running \ done)
    /\ UNCHANGED <<finish, seqVars, marking, callVars>>

\* Mutant: the futures of what was in flight are forgotten.
FailAllForgets ==
    /\ LoopFree
    /\ pc = "raised"
    /\ stream' = [r \in Requests |->
            IF r \in running \cap Streaming THEN Append(stream[r], End)
                                            ELSE stream[r]]
    /\ keep' = {} /\ done' = {}
    /\ BeginTick({}, {})
    /\ UNCHANGED <<finish, seqVars, marking, future, published, callVars,
                   countVars>>

\* An engine call raised: fail whatever is in flight, then the next tick.
FailAll ==
    /\ LoopFree
    /\ pc = "raised"
    /\ future' = Resolved(running, "exception")
    /\ stream' = [r \in Requests |->
            IF r \in running \cap Streaming THEN Append(stream[r], End)
                                            ELSE stream[r]]
    /\ keep' = {} /\ done' = {}
    /\ BeginTick({}, {})
    /\ UNCHANGED <<finish, seqVars, marking, published, callVars, countVars>>

-----------------------------------------------------------------------------
(* The engine thread *)

\* _emit: one token for each unfinished row; those of eos draw the EOS token.
Emit(rows) ==
    LET open == {r \in rows : finish[r] = "none"}
    IN  \E eos \in SUBSET open :
            /\ tokens' = [r \in Requests |->
                    IF r \in open THEN tokens[r] + 1 ELSE tokens[r]]
            /\ text' = [r \in Requests |->
                    IF r \in open \ eos THEN text[r] + 1 ELSE text[r]]
            /\ finish' = [r \in Requests |->
                    IF r \in eos THEN "stop"
                    ELSE IF r \in open /\ tokens[r] + 1 >= Limit[r] THEN "length"
                    ELSE finish[r]]

\* admit() prefills the newcomers, decode_step() advances every row.
EngineStep ==
    /\ \/ pc = "admit" /\ Emit(newcomers)
       \/ pc = "decode" /\ Emit(batch)
    /\ pc' = "stepped"
    /\ UNCHANGED <<schedVars, evictVars, marking, replyVars, callVars,
                   countVars>>

\* evict_finished, first pass: the rows to keep.
ScanKeep ==
    /\ pc = "scanKeep"
    /\ keep' = {r \in batch : finish[r] = "none"}
    /\ pc' = "scanDone"
    /\ UNCHANGED <<schedVars, done, finish, seqVars, marking, replyVars,
                   callVars, countVars>>

\* Mutant: an abandoned row is not handed back.
ScanDoneAnswered ==
    /\ pc = "scanDone"
    /\ done' = {r \in batch : finish[r] \in {"stop", "length"}}
    /\ pc' = "evicted"
    /\ UNCHANGED <<schedVars, keep, finish, seqVars, marking, replyVars,
                   callVars, countVars>>

\* evict_finished, second pass: the rows to hand back.  With none of them the
\* state is returned as it was, which is then the rows of keep.
ScanDone ==
    /\ pc = "scanDone"
    /\ done' = {r \in batch : finish[r] # "none"}
    /\ pc' = "evicted"
    /\ UNCHANGED <<schedVars, keep, finish, seqVars, marking, replyVars,
                   callVars, countVars>>

EngineRaises ==
    /\ pc \in {"admit", "decode", "scanKeep", "scanDone"}
    /\ pc' = "raised"
    /\ UNCHANGED <<schedVars, evictVars, finish, seqVars, marking, replyVars,
                   callVars, countVars>>

-----------------------------------------------------------------------------
(* Callers *)

\* Mutant: an arrival does not set the event.
SubmitSilently(r) ==
    /\ LoopFree
    /\ caller[r] = "new"
    /\ Len(queue) < MaxQueueSize
    /\ queue' = Append(queue, r)
    /\ future' = [future EXCEPT ![r] = "pending"]
    /\ caller' = [caller EXCEPT ![r] = "waiting"]
    /\ UNCHANGED <<pc, running, batch, newcomers, work, evictVars, finish,
                   seqVars, marking, stream, published, received, countVars>>

\* submit() and stream() up to their first await; a full queue raises.
Submit(r) ==
    /\ LoopFree
    /\ caller[r] = "new"
    /\ \/ /\ Len(queue) >= MaxQueueSize
          /\ caller' = [caller EXCEPT ![r] = "rejected"]
          /\ UNCHANGED <<queue, work, future>>
       \/ /\ Len(queue) < MaxQueueSize
          /\ queue' = Append(queue, r)
          /\ work' = TRUE
          /\ future' = [future EXCEPT ![r] = "pending"]
          /\ caller' = [caller EXCEPT ![r] = "waiting"]
    /\ UNCHANGED <<pc, running, batch, newcomers, evictVars, finish, seqVars,
                   marking, stream, published, received, countVars>>

\* submit() resumes with whatever its future holds.
Return(r) ==
    /\ LoopFree
    /\ r \notin Streaming /\ caller[r] = "waiting"
    /\ future[r] \in {"result", "exception", "cancelled"}
    /\ caller' = [caller EXCEPT ![r] =
            CASE future[r] = "result" -> "result"
              [] future[r] = "exception" -> "error"
              [] future[r] = "cancelled" -> "cancelled"]
    /\ UNCHANGED <<pc, schedVars, evictVars, finish, seqVars, marking,
                   replyVars, received, countVars>>

\* Mutant: the sentinel hides the future's exception.
ReceiveNoError(r) ==
    /\ LoopFree
    /\ r \in Streaming /\ caller[r] = "waiting"
    /\ stream[r] # << >>
    /\ stream' = [stream EXCEPT ![r] = Tail(@)]
    /\ IF Head(stream[r]) = End
       THEN /\ caller' = [caller EXCEPT ![r] = "result"]
            /\ UNCHANGED received
       ELSE /\ caller' = [caller EXCEPT ![r] = "yielding"]
            /\ received' = [received EXCEPT ![r] = Head(stream[r])]
    /\ UNCHANGED <<pc, schedVars, evictVars, finish, seqVars, marking, future,
                   published, countVars>>

\* stream() takes the next item: text is yielded, the sentinel ends the call
\* and surfaces the future's exception if it has one.
Receive(r) ==
    /\ LoopFree
    /\ r \in Streaming /\ caller[r] = "waiting"
    /\ stream[r] # << >>
    /\ stream' = [stream EXCEPT ![r] = Tail(@)]
    /\ IF Head(stream[r]) = End
       THEN /\ caller' = [caller EXCEPT ![r] =
                    IF future[r] = "exception" THEN "error" ELSE "result"]
            /\ UNCHANGED received
       ELSE /\ caller' = [caller EXCEPT ![r] = "yielding"]
            /\ received' = [received EXCEPT ![r] = Head(stream[r])]
    /\ UNCHANGED <<pc, schedVars, evictVars, finish, seqVars, marking, future,
                   published, countVars>>

\* The client took the text; stream() goes back to its queue.
Resume(r) ==
    /\ LoopFree
    /\ caller[r] = "yielding"
    /\ caller' = [caller EXCEPT ![r] = "waiting"]
    /\ UNCHANGED <<pc, schedVars, evictVars, finish, seqVars, marking,
                   replyVars, received, countVars>>

\* _abandon up to the write of finish_reason: leave the queue, and if the row
\* is in flight and was not finished when read, go on to mark it.
Abandon(r) ==
    /\ IF r \in Queued
       THEN \E i \in 1 .. Len(queue) :
                queue[i] = r /\ queue' = RemoveAt(queue, i)
       ELSE UNCHANGED queue
    /\ marking' = IF r \in running /\ finish[r] = "none" THEN r ELSE NoRequest

\* _abandon's last line.  The engine may have finished the row since the check.
Mark ==
    /\ marking # NoRequest
    /\ finish' = [finish EXCEPT ![marking] = "abandoned"]
    /\ marking' = NoRequest
    /\ UNCHANGED <<pc, schedVars, evictVars, seqVars, replyVars, callVars,
                   countVars>>

\* wait_for cancels the future it waits on; a stream waits on its queue.
Forsake(r) ==
    future' = IF r \in Streaming THEN future
              ELSE [future EXCEPT ![r] = IF @ = "pending" THEN "cancelled"
                                                          ELSE @]

\* request_timeout_s passes, even if the answer arrived while it did.
Timeout(r) ==
    /\ LoopFree
    /\ caller[r] = "waiting"
    /\ caller' = [caller EXCEPT ![r] = "timeout"]
    /\ Forsake(r)
    /\ Abandon(r)
    /\ UNCHANGED <<pc, running, batch, newcomers, work, evictVars, finish,
                   seqVars, stream, published, received, countVars>>

\* The client cancels the call.  Only stream(), and only while it awaits its
\* queue, abandons the request; submit() has no handler for the cancellation
\* and a generator closed at its yield gets GeneratorExit, which none catches.
HangUp(r) ==
    /\ LoopFree
    /\ caller[r] \in Suspended
    /\ caller' = [caller EXCEPT ![r] = "hungup"]
    /\ IF caller[r] = "waiting" THEN Forsake(r) ELSE UNCHANGED future
    /\ IF r \in Streaming /\ caller[r] = "waiting"
       THEN Abandon(r)
       ELSE UNCHANGED <<queue, marking>>
    /\ UNCHANGED <<pc, running, batch, newcomers, work, evictVars, finish,
                   seqVars, stream, published, received, countVars>>

-----------------------------------------------------------------------------
(* stop() *)

\* Up to its await: the task is cancelled and takes no further step.
StopBegin ==
    /\ LoopFree
    /\ pc \notin {"new", "stopping", "stopped"}
    /\ pc' = "stopping"
    /\ work' = TRUE
    /\ UNCHANGED <<queue, running, batch, newcomers, evictVars, finish,
                   seqVars, marking, replyVars, callVars, countVars>>

\* The rest: cancel what is in flight.  Streams get no sentinel.
StopFinish ==
    /\ LoopFree
    /\ pc = "stopping"
    /\ pc' = "stopped"
    /\ future' = Resolved(Queued \cup running, "cancelled")
    /\ queue' = << >> /\ running' = {} /\ batch' = {} /\ newcomers' = {}
    /\ keep' = {} /\ done' = {}
    /\ UNCHANGED <<work, finish, seqVars, marking, stream, published, callVars,
                   countVars>>

-----------------------------------------------------------------------------

Next ==
    \/ Start
    \/ Wake
    \/ CloseWindow
    \/ Deliver
    \/ CompleteAll
    \/ FailAll
    \/ EngineStep
    \/ ScanKeep
    \/ ScanDone
    \/ EngineRaises
    \/ Mark
    \/ StopBegin
    \/ StopFinish
    \/ \E r \in Requests :
          \/ Submit(r)
          \/ Return(r)
          \/ Receive(r)
          \/ Resume(r)
          \/ Timeout(r)
          \/ HangUp(r)

Spec == Init /\ [][Next]_vars

-----------------------------------------------------------------------------
(* Properties *)

\* Every variable has its type; an item of a stream is a token count or End.
TypeOK ==
    /\ pc \in LoopStates /\ work \in BOOLEAN
    /\ queue \in Seq(Requests)
    /\ running \subseteq Requests
    /\ batch \subseteq Requests /\ newcomers \subseteq Requests
    /\ keep \subseteq Requests /\ done \subseteq Requests
    /\ marking \in Requests \cup {NoRequest}
    /\ finish \in [Requests -> Reasons]
    /\ tokens \in [Requests -> Nat]
    /\ text \in [Requests -> Nat]
    /\ future \in [Requests -> Futures]
    /\ stream \in [Requests -> Seq(Nat)]
    /\ published \in [Requests -> Nat]
    /\ caller \in [Requests -> Callers]
    /\ received \in [Requests -> Nat]
    /\ completed \in [Requests -> Nat]
    /\ recorded \in [Requests -> Nat]

\* The batch never outgrows max_batch_size, counting the rows admit() is
\* about to add.  _take_admissions counts rows and not running requests, so a
\* row that outlives its request still takes its place.
RowsWithinBatch == Cardinality(batch \cup newcomers) <= MaxBatchSize

\* No element of s occurs twice.
Distinct(s) == \A i, j \in 1 .. Len(s) : s[i] = s[j] => i = j

\* A request is queued once, or in flight, and never both: what _abandon and
\* _take_admissions take from the queue cannot come back.
OnePlace ==
    /\ Distinct(queue)
    /\ Queued \cap (running \cup batch \cup newcomers \cup done) = {}
    /\ batch \cap newcomers = {}

\* Every running request has a row, and an eviction hands each row either on
\* or back, whatever _abandon did between its two readings: a request that
\* were in neither would stay in running with nobody to advance it.
RunningHasRow ==
    /\ running \subseteq batch \cup newcomers
    /\ pc = "evicted" => batch \subseteq keep \cup done

\* Nobody waits for an answer no one will give: while a suspended caller's
\* future is pending its request is queued or running.
NoOrphanedCaller ==
    \A r \in Requests :
        caller[r] \in Suspended /\ future[r] = "pending"
            => r \in Queued \cup running

\* The scheduler sleeps on a request in the queue only if its event is set, so
\* that no wake-up is lost between add() and the clear in _tick; and it calls
\* the engine with rows to work on only, whoever left the queue while the window
\* was open (batcher.py:221, 227-239).
AwakeForWork ==
    /\ pc = "asleep" /\ queue # << >> => work
    /\ pc = "admit" => newcomers # {}
    /\ pc = "decode" => batch # {}

\* The items of a stream are the tokens that follow what the consumer has,
\* in order, none left out or repeated, with End after the last, and End is
\* there exactly when the request has been answered.
StreamExact ==
    \A r \in Streaming : caller[r] \in Suspended =>
        LET ends == {i \in 1 .. Len(stream[r]) : stream[r][i] = End}
        IN  /\ ends \subseteq {Len(stream[r])}
            /\ \A i \in 1 .. Len(stream[r]) : i \notin ends =>
                    stream[r][i] = received[r] + i
            /\ ends # {} <=> future[r] \in {"result", "exception"}

\* An answer is whole: a caller who got a result asked for a sequence that
\* ran to its own end, and a stream's consumer was given all of its text.
AnswerIsWhole ==
    \A r \in Requests : caller[r] = "result" =>
        /\ finish[r] \in {"stop", "length"}
        /\ r \in Streaming => received[r] = text[r]

\* record_result counts a request at most once, although a row abandoned
\* between the two readings of an eviction is completed twice
\* (batcher.py:328-331).
RecordedOnce == \A r \in Requests : recorded[r] <= 1 /\ completed[r] <= 2

\* The scheduler keeps the promise of ServiceQueue: admission in order of
\* arrival, a bounded batch, one answer per caller, failures confined to what
\* was in flight.
Answer ==
    [r \in Requests |->
        IF caller[r] = "rejected" THEN "rejected"
        ELSE IF caller[r] \in {"timeout", "hungup"} THEN "withdrawn"
        ELSE future[r]]

Service == INSTANCE ServiceQueue WITH
    waiting <- queue, serving <- running, answer <- Answer

ServiceSpec == Service!Spec

\* A request whose caller timed out leaves the queue, the batch and running.
AbandonedLeaves == \A r \in Requests :
    caller[r] = "timeout" ~> r \notin Queued \cup running \cup batch \cup newcomers

-----------------------------------------------------------------------------
(* What the code's comments say and the code does not do *)

\* metrics.py:26, "Requests by terminal status": one status per request, be it
\* recorded by _complete or, for a timeout or a rejection, by the handler.
TerminalStatusOnce ==
    \A r \in Requests :
        recorded[r] > 0 => caller[r] \notin {"timeout", "rejected"}

\* api.py:141, "Client hung up; the scheduler drops the sequence on the next
\* sweep": the eviction that starts after a stream's client is gone does not
\* keep its row.
HungUpSwept ==
    [][\A r \in Streaming :
          ScanKeep /\ caller[r] = "hungup" /\ marking # r => r \notin keep']_vars
=============================================================================
