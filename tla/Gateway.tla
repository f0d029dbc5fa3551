------------------------------- MODULE Gateway -------------------------------
(***************************************************************************)
(* The Go gateway: admission and routing in                                *)
(* gateway/internal/scheduler/pool.go, the completion handler of           *)
(* gateway/cmd/server/main.go that uses them, and the health loop.         *)
(*                                                                         *)
(* Every HTTP request is a goroutine in handleCompletions, the health loop *)
(* is one more, and the workers are processes of their own.  A step here   *)
(* is one atomic operation of a goroutine on the shared state: a select on *)
(* the slots channel, a Load, Add or Store of an atomic.  Pick is a scan   *)
(* of such loads, not an atomic choice.                                    *)
(*                                                                         *)
(* What a worker does with a call is left to modules Batcher and KVBatch:  *)
(* here it ends, with an answer or with an error.                          *)
(***************************************************************************)
EXTENDS Integers, FiniteSets

CONSTANTS
    Requests,       \* HTTP requests, each served by one goroutine
    NumWorkers,     \* len(p.workers); workers are scanned in this order
    MaxInflight,    \* cap(p.slots)
    Crashes,        \* whether workers crash and restart
    SlowProbes,     \* whether a live worker can miss the 2 s probe deadline
    Signals         \* whether the gateway is told to shut down

ASSUME GatewayAssumption ==
    /\ IsFiniteSet(Requests)
    /\ NumWorkers \in Nat \ {0}
    /\ MaxInflight \in Nat \ {0}
    /\ Crashes \in BOOLEAN /\ SlowProbes \in BOOLEAN /\ Signals \in BOOLEAN

Workers == 1 .. NumWorkers

\* No worker chosen yet (best == nil).
None == 0

VARIABLES
    slots,      \* len(p.slots)
    inflight,   \* Worker.inflight
    healthy,    \* Worker.healthy, the gateway's opinion
    up,         \* whether the worker process serves
    serving,    \* main: serving, signalled (ctx cancelled), listener closed
    at,         \* where the goroutine of a request is
    next,       \* the worker its scan in Pick comes to next
    best,       \* the worker chosen so far
    bestLoad,   \* and the load read from it
    outcome,    \* the label of metrics.Requests the request was counted under
    probe,      \* the health loop: what it is doing, to which worker, the reply
    calm        \* history: workers whose health and load have not changed
                \*   since the request was admitted

poolVars  == <<slots, inflight, healthy>>
pickVars  == <<next, best, bestLoad>>
worldVars == <<up, serving>>

vars == <<poolVars, worldVars, at, pickVars, outcome, probe, calm>>

Places == {"idle", "acquire", "scan", "load", "call", "cut", "done",
           "release", "closed"}

Outcomes == {"none", "bad_request", "shed", "no_workers", "ok", "failed"}

\* Goroutines between the two ends of their admission slot.
Holding == {r \in Requests :
                at[r] \in {"scan", "load", "call", "cut", "done", "release"}}

\* Goroutines that count against worker w.
Charged(w) == {r \in Requests :
                best[r] = w /\ at[r] \in {"call", "cut", "done"}}

\* The state or load of worker w changed: it is calm for no scan any more.
Disturb(w) == [r \in Requests |-> calm[r] \ {w}]

-----------------------------------------------------------------------------

Init ==
    /\ slots = 0
    /\ inflight = [w \in Workers |-> 0]
    /\ healthy = [w \in Workers |-> TRUE]
    /\ up \in [Workers -> IF Crashes THEN BOOLEAN ELSE {TRUE}]
    /\ serving = "up"
    /\ at = [r \in Requests |-> "idle"]
    /\ next = [r \in Requests |-> 1]
    /\ best = [r \in Requests |-> None]
    /\ bestLoad = [r \in Requests |-> 0]
    /\ outcome = [r \in Requests |-> "none"]
    /\ probe = [doing |-> "ask", worker |-> 1, ready |-> FALSE]
    /\ calm = [r \in Requests |-> {}]

(* handleCompletions *)

\* A request comes in and is decoded and validated.
Begin(r) ==
    /\ at[r] = "idle" /\ serving # "closed"
    /\ \/ /\ at' = [at EXCEPT ![r] = "closed"]
          /\ outcome' = [outcome EXCEPT ![r] = "bad_request"]
       \/ /\ at' = [at EXCEPT ![r] = "acquire"]
          /\ UNCHANGED outcome
    /\ UNCHANGED <<poolVars, worldVars, pickVars, probe, calm>>

\* Acquire: take a slot if one is free, shed the request if none is.
Acquire(r) ==
    /\ at[r] = "acquire"
    /\ \/ /\ slots < MaxInflight
          /\ slots' = slots + 1
          /\ at' = [at EXCEPT ![r] = "scan"]
          /\ calm' = [calm EXCEPT ![r] = Workers]
          /\ UNCHANGED outcome
       \/ /\ slots >= MaxInflight
          /\ at' = [at EXCEPT ![r] = "closed"]
          /\ outcome' = [outcome EXCEPT ![r] = "shed"]
          /\ UNCHANGED <<slots, calm>>
    /\ UNCHANGED <<inflight, healthy, worldVars, pickVars, probe>>

\* Mutant: Pick keeps going round until a worker is healthy.
ReadHealthForever(r) ==
    /\ at[r] = "scan" /\ next[r] \in Workers
    /\ IF healthy[next[r]]
       THEN at' = [at EXCEPT ![r] = "load"] /\ UNCHANGED next
       ELSE next' = [next EXCEPT ![r] = IF @ = NumWorkers THEN 1 ELSE @ + 1]
            /\ UNCHANGED at
    /\ UNCHANGED <<poolVars, worldVars, best, bestLoad, outcome, probe, calm>>

\* Pick: skip the next worker unless it is healthy.
ReadHealth(r) ==
    /\ at[r] = "scan" /\ next[r] \in Workers
    /\ IF healthy[next[r]]
       THEN at' = [at EXCEPT ![r] = "load"] /\ UNCHANGED next
       ELSE next' = [next EXCEPT ![r] = @ + 1] /\ UNCHANGED at
    /\ UNCHANGED <<poolVars, worldVars, best, bestLoad, outcome, probe, calm>>

\* Mutant: the first healthy worker is kept, whatever its load.
ReadLoadFirst(r) ==
    /\ at[r] = "load"
    /\ IF best[r] = None
       THEN /\ best' = [best EXCEPT ![r] = next[r]]
            /\ bestLoad' = [bestLoad EXCEPT ![r] = inflight[next[r]]]
       ELSE UNCHANGED <<best, bestLoad>>
    /\ next' = [next EXCEPT ![r] = @ + 1]
    /\ at' = [at EXCEPT ![r] = "scan"]
    /\ UNCHANGED <<poolVars, worldVars, outcome, probe, calm>>

\* Pick: read its load, and prefer it to the best so far if that is higher.
ReadLoad(r) ==
    /\ at[r] = "load"
    /\ IF best[r] = None \/ inflight[next[r]] < bestLoad[r]
       THEN /\ best' = [best EXCEPT ![r] = next[r]]
            /\ bestLoad' = [bestLoad EXCEPT ![r] = inflight[next[r]]]
       ELSE UNCHANGED <<best, bestLoad>>
    /\ next' = [next EXCEPT ![r] = @ + 1]
    /\ at' = [at EXCEPT ![r] = "scan"]
    /\ UNCHANGED <<poolVars, worldVars, outcome, probe, calm>>

\* Mutant: release() is deferred only once a worker has been picked.
DispatchKeepsSlot(r) ==
    /\ at[r] = "scan" /\ next[r] \notin Workers
    /\ IF best[r] = None
       THEN /\ at' = [at EXCEPT ![r] = "closed"]
            /\ outcome' = [outcome EXCEPT ![r] = "no_workers"]
            /\ UNCHANGED <<inflight, calm>>
       ELSE /\ inflight' = [inflight EXCEPT ![best[r]] = @ + 1]
            /\ at' = [at EXCEPT ![r] = "call"]
            /\ calm' = Disturb(best[r])
            /\ UNCHANGED outcome
    /\ UNCHANGED <<slots, healthy, worldVars, pickVars, probe>>

\* Pick, after its loop: fail, or charge the request to the worker and call it.
Dispatch(r) ==
    /\ at[r] = "scan" /\ next[r] \notin Workers
    /\ IF best[r] = None
       THEN /\ at' = [at EXCEPT ![r] = "release"]
            /\ outcome' = [outcome EXCEPT ![r] = "no_workers"]
            /\ UNCHANGED <<inflight, calm>>
       ELSE /\ inflight' = [inflight EXCEPT ![best[r]] = @ + 1]
            /\ at' = [at EXCEPT ![r] = "call"]
            /\ calm' = Disturb(best[r])
            /\ UNCHANGED outcome
    /\ UNCHANGED <<slots, healthy, worldVars, pickVars, probe>>

\* Generate or the stream ends well, which takes a worker that stayed up.
Succeed(r) ==
    /\ at[r] = "call" /\ up[best[r]]
    /\ at' = [at EXCEPT ![r] = "done"]
    /\ outcome' = [outcome EXCEPT ![r] = "ok"]
    /\ UNCHANGED <<poolVars, worldVars, pickVars, probe, calm>>

\* Mutant: the error path returns without done().
FailUndone(r) ==
    /\ at[r] \in {"call", "cut"}
    /\ at' = [at EXCEPT ![r] = "release"]
    /\ outcome' = [outcome EXCEPT ![r] = "failed"]
    /\ UNCHANGED <<poolVars, worldVars, pickVars, probe, calm>>

\* It ends in an error: the worker sheds it, times out or is gone, the
\* gateway's own deadline passes, or the client hangs up.
Fail(r) ==
    /\ at[r] \in {"call", "cut"}
    /\ at' = [at EXCEPT ![r] = "done"]
    /\ outcome' = [outcome EXCEPT ![r] = "failed"]
    /\ UNCHANGED <<poolVars, worldVars, pickVars, probe, calm>>

\* Mutant: a second done() counts the request off again.
DoneRepeated(r) ==
    /\ at[r] \in {"done", "release"} /\ best[r] # None
    /\ inflight' = [inflight EXCEPT ![best[r]] = @ - 1]
    /\ at' = [at EXCEPT ![r] = "release"]
    /\ calm' = Disturb(best[r])
    /\ UNCHANGED <<slots, healthy, worldVars, pickVars, outcome, probe>>

\* The deferred calls, last first: done() ...
Done(r) ==
    /\ at[r] = "done"
    /\ inflight' = [inflight EXCEPT ![best[r]] = @ - 1]
    /\ at' = [at EXCEPT ![r] = "release"]
    /\ calm' = Disturb(best[r])
    /\ UNCHANGED <<slots, healthy, worldVars, pickVars, outcome, probe>>

\* ... then release().
Release(r) ==
    /\ at[r] = "release"
    /\ slots' = slots - 1
    /\ at' = [at EXCEPT ![r] = "closed"]
    /\ UNCHANGED <<inflight, healthy, worldVars, pickVars, outcome, probe,
                   calm>>

-----------------------------------------------------------------------------
(* HealthLoop *)

\* probeAll: the Health call to the next worker returns.  It fails when the
\* worker is down, misses the deadline, or the gateway's context is cancelled.
Probe ==
    /\ probe.doing = "ask"
    /\ \E ready \in BOOLEAN :
          /\ ready => up[probe.worker] /\ serving = "up"
          /\ ~ready => ~up[probe.worker] \/ SlowProbes \/ serving # "up"
          /\ probe' = [probe EXCEPT !.doing = "store", !.ready = ready]
    /\ UNCHANGED <<poolVars, worldVars, at, pickVars, outcome, calm>>

\* Mutant: a failed probe leaves the worker in rotation.
StoreReadyOnly ==
    /\ probe.doing = "store"
    /\ healthy' = [healthy EXCEPT ![probe.worker] = @ \/ probe.ready]
    /\ calm' = Disturb(probe.worker)
    /\ probe' = IF probe.worker < NumWorkers
                THEN [probe EXCEPT !.doing = "ask", !.worker = @ + 1]
                ELSE [probe EXCEPT !.doing = "wait"]
    /\ UNCHANGED <<slots, inflight, worldVars, at, pickVars, outcome>>

\* Mutant: a worker taken out of rotation stays out.
StoreForGood ==
    /\ probe.doing = "store"
    /\ healthy' = [healthy EXCEPT ![probe.worker] = @ /\ probe.ready]
    /\ calm' = Disturb(probe.worker)
    /\ probe' = IF probe.worker < NumWorkers
                THEN [probe EXCEPT !.doing = "ask", !.worker = @ + 1]
                ELSE [probe EXCEPT !.doing = "wait"]
    /\ UNCHANGED <<slots, inflight, worldVars, at, pickVars, outcome>>

\* probeAll: store the verdict and go on to the next worker.
Store ==
    /\ probe.doing = "store"
    /\ healthy' = [healthy EXCEPT ![probe.worker] = probe.ready]
    /\ calm' = IF healthy[probe.worker] # probe.ready
               THEN Disturb(probe.worker) ELSE calm
    /\ probe' = IF probe.worker < NumWorkers
                THEN [probe EXCEPT !.doing = "ask", !.worker = @ + 1]
                ELSE [probe EXCEPT !.doing = "wait"]
    /\ UNCHANGED <<slots, inflight, worldVars, at, pickVars, outcome>>

\* The select: the ticker starts a round, or the cancelled context ends the
\* loop.  With both ready Go picks either.
Tick ==
    /\ probe.doing = "wait"
    /\ probe' = [probe EXCEPT !.doing = "ask", !.worker = 1]
    /\ UNCHANGED <<poolVars, worldVars, at, pickVars, outcome, calm>>

StopProbing ==
    /\ probe.doing = "wait" /\ serving # "up"
    /\ probe' = [probe EXCEPT !.doing = "off"]
    /\ UNCHANGED <<poolVars, worldVars, at, pickVars, outcome, calm>>

-----------------------------------------------------------------------------
(* The workers, and the end of main *)

\* A worker process dies, and the calls it had are cut.
Crash(w) ==
    /\ Crashes /\ up[w]
    /\ up' = [up EXCEPT ![w] = FALSE]
    /\ at' = [r \in Requests |->
            IF at[r] = "call" /\ best[r] = w THEN "cut" ELSE at[r]]
    /\ UNCHANGED <<poolVars, serving, pickVars, outcome, probe, calm>>

Restart(w) ==
    /\ ~up[w]
    /\ up' = [up EXCEPT ![w] = TRUE]
    /\ UNCHANGED <<poolVars, serving, at, pickVars, outcome, probe, calm>>

\* SIGTERM cancels the context of the health loop ...
Signal ==
    /\ Signals /\ serving = "up"
    /\ serving' = "signalled"
    /\ UNCHANGED <<poolVars, up, at, pickVars, outcome, probe, calm>>

\* ... and Shutdown closes the listener, while handlers run on.
CloseListener ==
    /\ serving = "signalled"
    /\ serving' = "closed"
    /\ UNCHANGED <<poolVars, up, at, pickVars, outcome, probe, calm>>

-----------------------------------------------------------------------------

\* What a goroutine in handleCompletions goes on to do by itself.
Handle(r) ==
    \/ Acquire(r) \/ ReadHealth(r) \/ ReadLoad(r) \/ Dispatch(r)
    \/ Fail(r) \/ Done(r) \/ Release(r)

HealthLoop == Probe \/ Store \/ Tick

Next ==
    \/ \E r \in Requests :
          \/ Begin(r)
          \/ Acquire(r)
          \/ ReadHealth(r)
          \/ ReadLoad(r)
          \/ Dispatch(r)
          \/ Succeed(r)
          \/ Fail(r)
          \/ Done(r)
          \/ Release(r)
    \/ Probe
    \/ Store
    \/ Tick
    \/ StopProbing
    \/ \E w \in Workers : Crash(w) \/ Restart(w)
    \/ Signal
    \/ CloseListener

Spec == Init /\ [][Next]_vars

(***************************************************************************)
(* Fairness.  The Go runtime runs every goroutine, the context deadline    *)
(* ends every call, and the health loop's probes and ticks come.  Workers  *)
(* owe the gateway nothing: no answer, no restart.                         *)
(***************************************************************************)
FairSpec ==
    /\ Spec
    /\ \A r \in Requests : WF_vars(Handle(r))
    /\ WF_vars(HealthLoop)

-----------------------------------------------------------------------------
(* Properties *)

\* Every variable has its type.  In particular a load is never negative.
TypeOK ==
    /\ slots \in 0 .. MaxInflight
    /\ inflight \in [Workers -> Nat]
    /\ healthy \in [Workers -> BOOLEAN]
    /\ up \in [Workers -> BOOLEAN]
    /\ serving \in {"up", "signalled", "closed"}
    /\ at \in [Requests -> Places]
    /\ next \in [Requests -> 1 .. NumWorkers + 1]
    /\ best \in [Requests -> Workers \cup {None}]
    /\ bestLoad \in [Requests -> Nat]
    /\ outcome \in [Requests -> Outcomes]
    /\ probe \in [doing : {"ask", "store", "wait", "off"},
                  worker : Workers, ready : BOOLEAN]
    /\ calm \in [Requests -> SUBSET Workers]

\* No path through the handler keeps a slot or frees one twice: the occupancy
\* of the semaphore is the number of handlers between Acquire and release().
SlotsConserved == slots = Cardinality(Holding)

\* Nor does one leave a request charged to a worker: a leaked count would keep
\* the worker out of the routing for good.
InflightConserved ==
    \A w \in Workers : inflight[w] = Cardinality(Charged(w))

KeepsTheBest ==
    \A r \in Requests : at[r] \in {"scan", "load"} =>
        \A w \in calm[r] : w < next[r] /\ healthy[w] =>
            best[r] # None /\ bestLoad[r] <= inflight[w]

RefusesForWant ==
    \A r \in Requests : at[r] = "release" /\ outcome[r] = "no_workers" =>
        \A w \in calm[r] : ~healthy[w]

\* Least-in-flight, as far as the scan can promise it: it does not pass over a
\* worker that has been healthy with a lower load ever since the request was
\* admitted, nor refuse the request for want of workers while one was healthy.
NoneBetterPassedOver == KeepsTheBest /\ RefusesForWant

\* Every admitted request gives its slot back, whatever its worker does.
SlotReturned ==
    \A r \in Requests : at[r] = "acquire" ~> at[r] = "closed"

\* pool.go:145-147: a worker that stays down leaves the rotation, and one that
\* stays up rejoins it, by itself.  (Once signalled, nobody polls.)
Ejected ==
    \A w \in Workers :
        <>[](~up[w] /\ serving = "up") => <>[]~healthy[w]

Rejoins ==
    \A w \in Workers :
        <>[](up[w] /\ serving = "up") => <>[]healthy[w]

-----------------------------------------------------------------------------
(* What a test says and the code does not guarantee *)

\* pool_test.go:144, "Least-in-flight should hold every worker within one
\* request of the mean", after concurrent Picks none of which has been undone.
WithinOneOfMean ==
    LET mean == Cardinality(Requests) \div NumWorkers
    IN  (\A r \in Requests : at[r] = "call") =>
            \A w \in Workers : inflight[w] - mean \in -1 .. 1
=============================================================================
