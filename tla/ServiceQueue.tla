---------------------------- MODULE ServiceQueue ----------------------------
(***************************************************************************)
(* What the scheduler of worker/server/batcher.py promises the callers of  *)
(* submit() and stream(), with the batch, the engine thread, the event     *)
(* loop and the token streams abstracted away.                             *)
(*                                                                         *)
(* Requests queue in order of arrival, a bounded number of them is served  *)
(* at a time and always from the head of the queue, and a caller that      *)
(* stays gets exactly one answer, which it never sees change.  A caller    *)
(* may leave at any time, and its request may or may not leave with it.    *)
(***************************************************************************)
EXTENDS Naturals, Sequences, FiniteSets

CONSTANTS
    Requests,       \* calls of submit() and stream(), each made once
    MaxBatchSize,   \* requests served at a time
    MaxQueueSize    \* requests waiting at a time

VARIABLES
    waiting,    \* requests not yet served, oldest first
    serving,    \* requests being served
    answer      \* what each request's caller has been promised or told

vars == <<waiting, serving, answer>>

\* The answer of every pending request of S becomes a; other answers stand.
Resolve(S, a) ==
    [r \in Requests |-> IF r \in S /\ answer[r] = "pending" THEN a
                                                            ELSE answer[r]]

\* Beside the requests of rest, the n oldest waiting ones are served.
Refill(rest) ==
    \E n \in 0 .. Len(waiting) :
        /\ serving' = rest \cup {waiting[i] : i \in 1 .. n}
        /\ Cardinality(serving') <= MaxBatchSize
        /\ waiting' = SubSeq(waiting, n + 1, Len(waiting))

-----------------------------------------------------------------------------

Init ==
    /\ waiting = << >>
    /\ serving = {}
    /\ answer = [r \in Requests |-> "none"]

Arrive(r) ==
    /\ answer[r] = "none"
    /\ Len(waiting) < MaxQueueSize
    /\ waiting' = Append(waiting, r)
    /\ answer' = [answer EXCEPT ![r] = "pending"]
    /\ UNCHANGED serving

\* A caller is turned away only while the queue is full.
Reject(r) ==
    /\ answer[r] = "none"
    /\ Len(waiting) >= MaxQueueSize
    /\ answer' = [answer EXCEPT ![r] = "rejected"]
    /\ UNCHANGED <<waiting, serving>>

\* The requests of S, possibly none, are answered, and the batch refilled.
Finish(S) ==
    /\ answer' = Resolve(S, "result")
    /\ Refill(serving \ S)

\* A step fails: everything being served fails with it, nothing waiting does.
Fail ==
    /\ answer' = Resolve(serving, "exception")
    /\ Refill({})

\* The caller of r goes away, answered or not.
Leave(r) ==
    /\ answer[r] \in {"pending", "result", "exception", "cancelled"}
    /\ answer' = [answer EXCEPT ![r] = "withdrawn"]
    /\ \/ UNCHANGED waiting
       \/ \E i \in 1 .. Len(waiting) :
             /\ waiting[i] = r
             /\ waiting' = SubSeq(waiting, 1, i - 1)
                              \o SubSeq(waiting, i + 1, Len(waiting))
    /\ UNCHANGED serving

Shutdown ==
    /\ waiting' = << >>
    /\ serving' = {}
    /\ answer' = Resolve(Requests, "cancelled")

Next ==
    \/ \E r \in Requests : Arrive(r) \/ Reject(r) \/ Leave(r)
    \/ \E S \in SUBSET serving : Finish(S)
    \/ Fail
    \/ Shutdown

Spec == Init /\ [][Next]_vars
=============================================================================
