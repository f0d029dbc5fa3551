------------------------------- MODULE Cluster -------------------------------
(***************************************************************************)
(* The gateway of module Gateway with workers that have a scheduler each,  *)
(* as far as ServiceQueue describes one.  What a call to a worker comes to *)
(* is free in Gateway; here it is what that worker's scheduler does with   *)
(* the request, and the request can outlive the call: when the gateway's   *)
(* deadline passes or its client hangs up, the slot and the load are given *)
(* back while the worker may go on generating for nobody.                  *)
(***************************************************************************)
EXTENDS Gateway, Sequences

CONSTANTS
    MaxBatchSize,   \* of every worker
    MaxQueueSize

ASSUME ClusterAssumption ==
    MaxBatchSize \in Nat \ {0} /\ MaxQueueSize \in Nat \ {0}

VARIABLES
    waiting,    \* per worker, its queue
    working,    \* per worker, what its batch serves
    answer      \* per worker and request, what submit() or stream() came to

workerVars == <<waiting, working, answer>>
clusterVars == <<vars, workerVars>>

ClusterInit ==
    /\ Init
    /\ waiting = [w \in Workers |-> << >>]
    /\ working = [w \in Workers |-> {}]
    /\ answer = [w \in Workers |-> [r \in Requests |-> "none"]]

\* The pending requests of S, at worker w, are answered with a.
Answered(w, S, a) ==
    [answer EXCEPT ![w] = [r \in Requests |->
        IF r \in S /\ @[r] = "pending" THEN a ELSE @[r]]]

\* Mutant: the queue takes one request too many.
ArriveOverfull(r) ==
    /\ at[r] = "call" /\ up[best[r]] /\ answer[best[r]][r] = "none"
    /\ LET w == best[r]
           full == Len(waiting[w]) > MaxQueueSize
       IN  /\ answer' = [answer EXCEPT ![w][r] =
                            IF full THEN "rejected" ELSE "pending"]
           /\ waiting' = IF full THEN waiting
                         ELSE [waiting EXCEPT ![w] = Append(@, r)]
    /\ UNCHANGED <<vars, working>>

\* The call gets to its worker, whose queue takes it or is full.
Arrive(r) ==
    /\ at[r] = "call" /\ up[best[r]] /\ answer[best[r]][r] = "none"
    /\ LET w == best[r]
           full == Len(waiting[w]) >= MaxQueueSize
       IN  /\ answer' = [answer EXCEPT ![w][r] =
                            IF full THEN "rejected" ELSE "pending"]
           /\ waiting' = IF full THEN waiting
                         ELSE [waiting EXCEPT ![w] = Append(@, r)]
    /\ UNCHANGED <<vars, working>>

\* The worker's batch moves: S leaves it, answered with a, and the oldest
\* waiting requests take the room there is.
Turn(w, S, a) ==
    LET room == MaxBatchSize - Cardinality(working[w] \ S)
        n == IF Len(waiting[w]) < room THEN Len(waiting[w]) ELSE room
    IN  /\ answer' = Answered(w, S, a)
        /\ working' = [working EXCEPT ![w] =
                          (@ \ S) \cup {waiting[w][i] : i \in 1 .. n}]
        /\ waiting' = [waiting EXCEPT ![w] = SubSeq(@, n + 1, Len(@))]
        /\ UNCHANGED vars

Admit(w) ==
    /\ waiting[w] # << >> /\ Cardinality(working[w]) < MaxBatchSize
    /\ Turn(w, {}, "result")

\* Mutant: a request nobody waits for is not brought to its end.
FinishAwaited(w) ==
    \E r \in working[w] : answer[w][r] = "pending" /\ Turn(w, {r}, "result")

Finish(w) == \E r \in working[w] : Turn(w, {r}, "result")

Break(w) == working[w] # {} /\ Turn(w, working[w], "exception")

\* The caller at the worker goes: its deadline, or the gateway's cancellation.
\* A stream, or a request that timed out, is taken from the queue; a cancelled
\* submit() leaves its request there.
Leave(r) ==
    \E w \in Workers :
        /\ answer[w][r] = "pending"
        /\ answer' = [answer EXCEPT ![w][r] = "withdrawn"]
        /\ \/ UNCHANGED waiting
           \/ \E i \in 1 .. Len(waiting[w]) :
                 /\ waiting[w][i] = r
                 /\ waiting' = [waiting EXCEPT ![w] =
                        SubSeq(@, 1, i - 1) \o SubSeq(@, i + 1, Len(@))]
        /\ UNCHANGED <<vars, working>>

\* Mutant: an empty reply is taken for a result.
ReplyUnseen(r) ==
    /\ at[r] = "call" /\ answer[best[r]][r] # "pending"
    /\ Succeed(r)
    /\ UNCHANGED workerVars

\* The gateway learns of the result, or of anything else.
Reply(r) ==
    /\ at[r] = "call" /\ answer[best[r]][r] = "result"
    /\ Succeed(r)
    /\ UNCHANGED workerVars

\* A worker dies with all it had; the next process starts with nothing.
WorkerCrash(w) ==
    /\ Crash(w)
    /\ waiting' = [waiting EXCEPT ![w] = << >>]
    /\ working' = [working EXCEPT ![w] = {}]
    /\ answer' = Answered(w, Requests, "cancelled")

\* What the gateway does without a word from a worker.
GatewayAlone ==
    /\ \/ \E r \in Requests :
             \/ Begin(r) \/ Acquire(r) \/ ReadHealth(r) \/ ReadLoad(r)
             \/ Dispatch(r) \/ Fail(r) \/ Done(r) \/ Release(r)
       \/ Probe \/ Store \/ Tick \/ StopProbing \/ Signal \/ CloseListener
       \/ \E w \in Workers : Restart(w)
    /\ UNCHANGED workerVars

ClusterNext ==
    \/ GatewayAlone
    \/ \E r \in Requests : Arrive(r) \/ Leave(r) \/ Reply(r)
    \/ \E w \in Workers : Admit(w) \/ Finish(w) \/ Break(w) \/ WorkerCrash(w)

ClusterSpec == ClusterInit /\ [][ClusterNext]_clusterVars

(***************************************************************************)
(* Fairness.  As in Gateway, and a live worker works, as ServedToTheEnd of *)
(* module WorkerProcess and AbandonedLeaves of module Batcher have it.  A  *)
(* worker may crash at any time and stay down.                             *)
(***************************************************************************)
ClusterFairSpec ==
    /\ ClusterSpec
    /\ \A r \in Requests : WF_clusterVars(Handle(r) /\ UNCHANGED workerVars)
    /\ WF_clusterVars(HealthLoop /\ UNCHANGED workerVars)
    /\ \A w \in Workers : WF_clusterVars(Admit(w) \/ Finish(w))

-----------------------------------------------------------------------------

Occupies(r, w) ==
    r \in working[w] \/ \E i \in 1 .. Len(waiting[w]) : waiting[w][i] = r

\* A client told "ok" was served by the worker its request is charged to, and
\* no request is ever at two workers: the gateway does not retry.
OkIsServed ==
    \A r \in Requests :
        /\ outcome[r] = "ok" => answer[best[r]][r] = "result"
        /\ \A w \in Workers : answer[w][r] # "none" => w = best[r]

\* pool.go:14-15, "tracks actual occupancy": the load the gateway routes by
\* counts every request that occupies the worker, but for the ghosts, whose
\* call has ended at the gateway ...
LoadCountsTheLiving ==
    \A w \in Workers :
        Cardinality({r \in Requests :
            Occupies(r, w) /\ at[r] \notin {"release", "closed"}}) <= inflight[w]

\* ... "and is self-correcting": the ghosts leave by themselves.
GhostsLeave ==
    \A r \in Requests :
        at[r] = "closed" ~> \A w \in Workers : ~Occupies(r, w)
=============================================================================
