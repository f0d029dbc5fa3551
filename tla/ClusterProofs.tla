---------------------------- MODULE ClusterProofs ----------------------------
(***************************************************************************)
(* Theorems about Cluster, for every number of requests, workers, slots    *)
(* and rows.  The cluster's gateway is the gateway of module Gateway, so   *)
(* its accounting carries over; what is new relates it to the workers.     *)
(***************************************************************************)
EXTENDS Cluster, GatewayProofs, SequenceTheorems

\* The promise of a worker to the calls the gateway makes to it.
Serve(w) == INSTANCE ServiceQueue WITH
    waiting <- waiting[w], serving <- working[w], answer <- answer[w]

Answers == {"none", "pending", "rejected", "result", "exception", "withdrawn",
            "cancelled"}

\* Where the goroutine of a request is that may have got to a worker.
Reached == {"call", "cut", "done", "release", "closed"}

WorkerTypes ==
    /\ waiting \in [Workers -> Seq(Requests)]
    /\ working \in [Workers -> SUBSET Requests]
    /\ answer \in [Workers -> [Requests -> Answers]]

\* Who occupies a worker has called it, and who has called it was dispatched to
\* it.  A request answered "ok" was sent.
Traced ==
    \A r \in Requests :
        /\ outcome[r] = "ok" => at[r] \in Reached /\ best[r] \in Workers
        /\ \A w \in Workers :
              /\ Occupies(r, w) => answer[w][r] # "none"
              /\ answer[w][r] # "none" => best[r] = w /\ at[r] \in Reached

RowsBound == \A w \in Workers : Cardinality(working[w]) <= MaxBatchSize

\* The inductive invariant.
CInv == WorkerTypes /\ Traced /\ RowsBound /\ OkIsServed

-----------------------------------------------------------------------------
(* The gateway in the cluster *)

LEMMA ClusterStepOfGateway == [ClusterNext]_clusterVars => [Next]_vars
<1> SUFFICES ASSUME [ClusterNext]_clusterVars PROVE [Next]_vars
  OBVIOUS
<1>1. CASE GatewayAlone
  BY <1>1 DEF GatewayAlone, Next
<1>2. CASE \E r \in Requests : Arrive(r) \/ Leave(r) \/ Reply(r)
  BY <1>2 DEF Arrive, Leave, Reply, Next
<1>3. CASE \E w \in Workers : Admit(w) \/ Finish(w) \/ Break(w) \/ WorkerCrash(w)
  BY <1>3 DEF Admit, Finish, Break, Turn, WorkerCrash, Next
<1>4. CASE UNCHANGED clusterVars
  BY <1>4 DEF clusterVars
<1> QED
  BY <1>1, <1>2, <1>3, <1>4 DEF ClusterNext

\* Whatever the workers do, their gateway is a gateway of module Gateway.
THEOREM ClusterIsGateway == ClusterSpec => Spec
<1>1. ClusterInit => Init
  BY DEF ClusterInit
<1> QED
  BY <1>1, ClusterStepOfGateway, PTL DEF ClusterSpec, Spec

LEMMA ClusterGateway == ClusterSpec => []GInv
BY ClusterIsGateway, GatewayInvariance, PTL

\* A request that may have got to a worker stays with that worker, and the
\* gateway does not call it served of its own accord.
LEMMA AloneMoves ==
    ASSUME TypeOK, GatewayAlone \/ (\E w \in Workers : Crash(w)),
           NEW r \in Requests
    PROVE  /\ at[r] \in Reached => at'[r] \in Reached /\ best'[r] = best[r]
           /\ outcome'[r] = "ok" => outcome[r] = "ok"
<1>0. /\ at \in [Requests -> Places] /\ best \in [Requests -> Workers \cup {None}]
      /\ outcome \in [Requests -> Outcomes]
  BY DEF TypeOK
<1>1. ASSUME NEW q \in Requests,
             Begin(q) \/ Acquire(q) \/ ReadHealth(q) \/ ReadLoad(q)
      PROVE  /\ at[r] \in Reached => at'[r] \in Reached /\ best'[r] = best[r]
             /\ outcome'[r] = "ok" => outcome[r] = "ok"
  BY <1>0, <1>1 DEF Begin, Acquire, ReadHealth, ReadLoad, Reached, pickVars
<1>2. ASSUME NEW q \in Requests,
             Dispatch(q) \/ Fail(q) \/ Done(q) \/ Release(q)
      PROVE  /\ at[r] \in Reached => at'[r] \in Reached /\ best'[r] = best[r]
             /\ outcome'[r] = "ok" => outcome[r] = "ok"
  BY <1>0, <1>2 DEF Dispatch, Fail, Done, Release, Reached, pickVars
<1>3. CASE Probe \/ Store \/ Tick \/ StopProbing \/ Signal \/ CloseListener
  BY <1>3 DEF Probe, Store, Tick, StopProbing, Signal, CloseListener, pickVars
<1>4. CASE \E w \in Workers : Crash(w) \/ Restart(w)
  BY <1>0, <1>4 DEF Crash, Restart, Reached, pickVars
<1> QED
  BY <1>1, <1>2, <1>3, <1>4 DEF GatewayAlone

-----------------------------------------------------------------------------
(* The workers *)

Queue(w) == {waiting[w][i] : i \in 1 .. Len(waiting[w])}

LEMMA OccupiesIs ==
    ASSUME NEW r, NEW w PROVE Occupies(r, w) <=> r \in working[w] \cup Queue(w)
BY DEF Occupies, Queue

\* The n first elements of a queue number at most n.
LEMMA FirstElements ==
    ASSUME NEW s \in Seq(Requests), NEW n \in 0 .. Len(s)
    PROVE  LET first == {s[i] : i \in 1 .. n}
           IN  /\ first \in SUBSET Requests
               /\ Cardinality(first) \in Nat
               /\ Cardinality(first) <= n
<1> DEFINE first == {s[i] : i \in 1 .. n}
           pick == [i \in 1 .. n |-> s[i]]
<1>1. IsFiniteSet(1 .. n) /\ Cardinality(1 .. n) = n
  BY FS_Interval
<1>2. pick \in Surjection(1 .. n, first)
  BY DEF Surjection
<1>3. IsFiniteSet(first) /\ Cardinality(first) <= Cardinality(1 .. n)
  BY <1>1, <1>2, FS_Surjection
<1>4. first \in SUBSET Requests
  OBVIOUS
<1> QED
  BY <1>1, <1>3, <1>4, FS_CardinalityType

\* What a turn of worker w's batch does: rows of S leave, the n oldest waiting
\* requests come in, and there is room for them.
LEMMA TurnEffect ==
    ASSUME CInv, NEW w \in Workers, NEW S \in SUBSET working[w], NEW a, Turn(w, S, a)
    PROVE  \E n \in 0 .. Len(waiting[w]) :
              /\ working'[w] = (working[w] \ S) \cup {waiting[w][i] : i \in 1 .. n}
              /\ waiting'[w] = SubSeq(waiting[w], n + 1, Len(waiting[w]))
              /\ Cardinality(working'[w]) <= MaxBatchSize
<1> DEFINE rest == working[w] \ S
           room == MaxBatchSize - Cardinality(rest)
           n == IF Len(waiting[w]) < room THEN Len(waiting[w]) ELSE room
           first == {waiting[w][i] : i \in 1 .. n}
<1>1. waiting[w] \in Seq(Requests) /\ working[w] \in SUBSET Requests
  BY DEF CInv, WorkerTypes
<1>2. IsFiniteSet(working[w]) /\ IsFiniteSet(rest)
  BY <1>1, GatewayAssumption, FS_Subset
<1>3. Cardinality(rest) \in Nat /\ Cardinality(rest) <= Cardinality(working[w])
  BY <1>2, FS_Subset, FS_CardinalityType
<1>4. Cardinality(working[w]) \in Nat /\ Cardinality(working[w]) <= MaxBatchSize
  BY <1>2, FS_CardinalityType DEF CInv, RowsBound
<1>5. Len(waiting[w]) \in Nat
  BY <1>1
<1>6. n \in 0 .. Len(waiting[w]) /\ n <= room /\ room \in Nat
  BY <1>3, <1>4, <1>5, ClusterAssumption
<1>7. /\ first \in SUBSET Requests /\ Cardinality(first) \in Nat
      /\ Cardinality(first) <= n
  BY <1>1, <1>6, FirstElements
<1>8. IsFiniteSet(first)
  BY <1>7, GatewayAssumption, FS_Subset
<1>9. /\ Cardinality(rest \cup first) =
             Cardinality(rest) + Cardinality(first) - Cardinality(rest \cap first)
      /\ Cardinality(rest \cap first) \in Nat
  BY <1>2, <1>8, FS_Union, FS_Intersection, FS_CardinalityType
<1>10. Cardinality(rest \cup first) <= MaxBatchSize
  <2> HIDE DEF rest, first, n
  <2>1. Cardinality(rest) + n <= MaxBatchSize
    BY <1>3, <1>6, ClusterAssumption
  <2> QED
    BY <1>3, <1>6, <1>7, <1>9, <2>1, ClusterAssumption
<1>11. /\ working'[w] = rest \cup first
       /\ waiting'[w] = SubSeq(waiting[w], n + 1, Len(waiting[w]))
  BY DEF Turn, CInv, WorkerTypes
<1> HIDE DEF n
<1> QED
  BY <1>6, <1>10, <1>11

\* Cutting or removing from a queue adds nobody to it.
LEMMA CutQueue ==
    ASSUME NEW s \in Seq(Requests), NEW n \in 0 .. Len(s)
    PROVE  LET t == SubSeq(s, n + 1, Len(s))
           IN  /\ t \in Seq(Requests)
               /\ {t[i] : i \in 1 .. Len(t)} \subseteq {s[i] : i \in 1 .. Len(s)}
<1> DEFINE t == SubSeq(s, n + 1, Len(s))
<1>1. /\ t \in Seq(Requests) /\ Len(t) = Len(s) - n /\ Len(s) \in Nat
      /\ \A i \in 1 .. Len(s) - n : t[i] = s[n + i]
  OBVIOUS
<1> HIDE DEF t
<1>2. ASSUME NEW i \in 1 .. Len(t) PROVE t[i] \in {s[j] : j \in 1 .. Len(s)}
  <2>1. n + i \in 1 .. Len(s)
    BY <1>1
  <2> QED
    BY <1>1, <2>1
<1> QED
  BY <1>1, <1>2 DEF t

LEMMA RemoveFromQueue ==
    ASSUME NEW s \in Seq(Requests), NEW k \in 1 .. Len(s)
    PROVE  LET t == SubSeq(s, 1, k - 1) \o SubSeq(s, k + 1, Len(s))
           IN  /\ t \in Seq(Requests)
               /\ {t[i] : i \in 1 .. Len(t)} \subseteq {s[i] : i \in 1 .. Len(s)}
<1> DEFINE a == SubSeq(s, 1, k - 1)
           b == SubSeq(s, k + 1, Len(s))
<1>1. /\ a \in Seq(Requests) /\ Len(a) = k - 1
      /\ b \in Seq(Requests) /\ Len(b) = Len(s) - k
      /\ \A i \in 1 .. k - 1 : a[i] = s[i]
      /\ \A i \in 1 .. Len(s) - k : b[i] = s[k + i]
      /\ Len(s) \in Nat
  OBVIOUS
<1> HIDE DEF a, b
<1>2. /\ a \o b \in Seq(Requests)
      /\ Len(a \o b) = Len(a) + Len(b)
      /\ \A i \in 1 .. Len(a) + Len(b) :
            (a \o b)[i] = IF i <= Len(a) THEN a[i] ELSE b[i - Len(a)]
  BY <1>1, ConcatProperties
<1>3. ASSUME NEW i \in 1 .. Len(a) + Len(b)
      PROVE  (a \o b)[i] \in {s[j] : j \in 1 .. Len(s)}
  <2>1. CASE i <= Len(a)
    BY <1>1, <1>2, <2>1
  <2>2. CASE ~(i <= Len(a))
    <3>1. i - Len(a) \in 1 .. Len(s) - k /\ k + (i - Len(a)) \in 1 .. Len(s)
      BY <1>1, <2>2
    <3>2. (a \o b)[i] = s[k + (i - Len(a))]
      BY <1>1, <1>2, <2>2, <3>1
    <3> QED
      BY <3>1, <3>2
  <2> QED
    BY <2>1, <2>2
<1> QED
  BY <1>2, <1>3 DEF a, b

-----------------------------------------------------------------------------
(* The invariant *)

LEMMA CInit == ClusterInit => CInv
<1> SUFFICES ASSUME ClusterInit PROVE CInv
  OBVIOUS
<1>1. WorkerTypes
  BY DEF ClusterInit, WorkerTypes, Answers
<1>2. \A r \in Requests, w \in Workers : ~Occupies(r, w)
  BY DEF ClusterInit, Occupies
<1>3. Traced /\ OkIsServed
  BY <1>2 DEF ClusterInit, Init, Traced, OkIsServed
<1>4. RowsBound
  BY FS_EmptySet, ClusterAssumption DEF ClusterInit, RowsBound
<1> QED
  BY <1>1, <1>3, <1>4 DEF CInv

\* Nothing a worker does within its batch brings anybody to it or takes back
\* what it has answered.
LEMMA CTurn ==
    ASSUME TypeOK, CInv, NEW w \in Workers, NEW S \in SUBSET working[w],
           NEW a \in Answers \ {"none"}, Turn(w, S, a)
    PROVE  CInv'
<1>1. PICK n \in 0 .. Len(waiting[w]) :
        /\ working'[w] = (working[w] \ S) \cup {waiting[w][i] : i \in 1 .. n}
        /\ waiting'[w] = SubSeq(waiting[w], n + 1, Len(waiting[w]))
        /\ Cardinality(working'[w]) <= MaxBatchSize
  BY TurnEffect
<1>2. /\ waiting[w] \in Seq(Requests) /\ working[w] \in SUBSET Requests
      /\ Len(waiting[w]) \in Nat
  BY DEF CInv, WorkerTypes
<1>3. waiting'[w] \in Seq(Requests) /\ Queue(w)' \subseteq Queue(w)
  BY <1>1, <1>2, CutQueue DEF Queue
<1>4. {waiting[w][i] : i \in 1 .. n} \subseteq Queue(w)
  BY <1>2 DEF Queue
<1>5. Queue(w) \subseteq Requests
  BY <1>2 DEF Queue
<1>6. working'[w] \in SUBSET Requests
  BY <1>1, <1>2, <1>4, <1>5
<1>7. /\ waiting' = [waiting EXCEPT ![w] = waiting'[w]]
      /\ working' = [working EXCEPT ![w] = working'[w]]
      /\ answer' = Answered(w, S, a)
      /\ UNCHANGED <<at, best, outcome>>
  BY DEF Turn, CInv, WorkerTypes, vars, pickVars
<1>8. /\ \A v \in Workers, r \in Requests :
            /\ answer'[v][r] = "none" <=> answer[v][r] = "none"
            /\ answer[v][r] = "result" => answer'[v][r] = "result"
      /\ answer' \in [Workers -> [Requests -> Answers]]
  BY <1>7 DEF Answered, CInv, WorkerTypes
<1>9. WorkerTypes'
  BY <1>3, <1>6, <1>7, <1>8 DEF CInv, WorkerTypes
<1>10. \A v \in Workers, r \in Requests : Occupies(r, v)' => Occupies(r, v)
  <2>1. ASSUME NEW r \in Requests, r \in working'[w] \cup Queue(w)'
        PROVE  Occupies(r, w)
    BY <1>1, <1>3, <1>4, <2>1, OccupiesIs
  <2>2. ASSUME NEW v \in Workers, v # w
        PROVE  waiting'[v] = waiting[v] /\ working'[v] = working[v]
    BY <1>7, <2>2 DEF CInv, WorkerTypes
  <2> QED
    BY <2>1, <2>2 DEF Occupies, Queue
<1>11. Traced'
  BY <1>7, <1>8, <1>10 DEF CInv, Traced
<1>12. RowsBound'
  BY <1>1, <1>7 DEF CInv, RowsBound, WorkerTypes
<1>13. OkIsServed'
  <2>1. \A r \in Requests : outcome[r] = "ok" => best[r] \in Workers
    BY DEF CInv, Traced
  <2> QED
    BY <1>7, <1>8, <2>1 DEF CInv, OkIsServed
<1> QED
  BY <1>9, <1>11, <1>12, <1>13 DEF CInv

LEMMA CStep == GInv /\ CInv /\ [ClusterNext]_clusterVars => CInv'
<1> SUFFICES ASSUME GInv, CInv, [ClusterNext]_clusterVars PROVE CInv'
  OBVIOUS
<1>0. /\ TypeOK /\ WorkerTypes /\ Traced /\ RowsBound /\ OkIsServed
      /\ at \in [Requests -> Places] /\ outcome \in [Requests -> Outcomes]
  BY DEF GInv, CInv, TypeOK
<1>1. CASE GatewayAlone
  <2>1. UNCHANGED <<waiting, working, answer>>
    BY <1>1 DEF GatewayAlone, workerVars
  <2>2. \A r \in Requests, w \in Workers : Occupies(r, w)' <=> Occupies(r, w)
    BY <2>1 DEF Occupies
  <2>3. \A r \in Requests :
            /\ at[r] \in Reached => at'[r] \in Reached /\ best'[r] = best[r]
            /\ outcome'[r] = "ok" => outcome[r] = "ok"
    BY <1>0, <1>1, AloneMoves
  <2>4. Traced'
    BY <1>0, <2>1, <2>2, <2>3 DEF Traced
  <2>5. OkIsServed'
    BY <1>0, <2>1, <2>3 DEF Traced, OkIsServed
  <2> QED
    BY <1>0, <2>1, <2>4, <2>5 DEF CInv, WorkerTypes, RowsBound
<1>2. ASSUME NEW r \in Requests, Arrive(r) PROVE CInv'
  <2>0. at[r] = "call" /\ best[r] \in Workers
    BY <1>2 DEF Arrive, GInv, ScanPhases
  <2>1. PICK w \in Workers : w = best[r] /\ answer[w][r] = "none"
    BY <1>2, <2>0 DEF Arrive
  <2>2. UNCHANGED <<working, at, best, outcome>>
    BY <1>2 DEF Arrive, vars, pickVars
  <2>3. /\ answer' = [answer EXCEPT ![w] = [answer[w] EXCEPT ![r] = answer'[w][r]]]
        /\ answer'[w][r] \in {"pending", "rejected"}
        /\ waiting'[w] \in {waiting[w], Append(waiting[w], r)}
        /\ waiting' = [waiting EXCEPT ![w] = waiting'[w]]
    BY <1>0, <1>2, <2>1 DEF Arrive, WorkerTypes
  <2>4. waiting[w] \in Seq(Requests)
    BY <1>0, <2>1 DEF WorkerTypes
  <2>5. waiting'[w] \in Seq(Requests) /\ Queue(w)' \subseteq Queue(w) \cup {r}
    <3>1. CASE waiting'[w] = waiting[w]
      BY <2>4, <3>1 DEF Queue
    <3>2. CASE waiting'[w] = Append(waiting[w], r)
      BY <2>4, <3>2, AppendProperties DEF Queue
    <3> QED
      BY <2>3, <3>1, <3>2
  <2>6. WorkerTypes'
    <3>1. waiting' \in [Workers -> Seq(Requests)]
      BY <1>0, <2>3, <2>5 DEF WorkerTypes
    <3>2. answer'[w][r] \in Answers
      BY <2>3 DEF Answers
    <3>3. answer' \in [Workers -> [Requests -> Answers]]
      <4>1. PICK a \in Answers :
               answer' = [answer EXCEPT ![w] = [answer[w] EXCEPT ![r] = a]]
        BY <2>3, <3>2
      <4> QED
        BY <1>0, <4>1 DEF WorkerTypes
    <3> QED
      BY <1>0, <2>2, <3>1, <3>3 DEF WorkerTypes
  <2>7. \A q \in Requests, v \in Workers :
            Occupies(q, v)' => Occupies(q, v) \/ (q = r /\ v = w)
    <3>1. ASSUME NEW q \in Requests, q # r, Occupies(q, w)'
          PROVE  Occupies(q, w)
      <4>1. q \in working'[w] \cup Queue(w)'
        BY <3>1 DEF Occupies, Queue
      <4> QED
        BY <2>2, <2>5, <3>1, <4>1, OccupiesIs
    <3>2. ASSUME NEW v \in Workers, v # w
          PROVE  waiting'[v] = waiting[v]
      BY <1>0, <2>3, <3>2 DEF WorkerTypes
    <3> QED
      BY <2>2, <3>1, <3>2 DEF Occupies
  <2>8. /\ \A q \in Requests, v \in Workers :
              ~(q = r /\ v = w) => answer'[v][q] = answer[v][q]
        /\ answer'[w][r] # "none"
    BY <1>0, <2>1, <2>3 DEF WorkerTypes
  <2>9. Traced'
    BY <1>0, <2>0, <2>1, <2>2, <2>7, <2>8 DEF Traced, Reached
  <2>10. OkIsServed'
    BY <1>0, <2>1, <2>2, <2>8 DEF OkIsServed, Traced
  <2> QED
    BY <1>0, <2>2, <2>6, <2>9, <2>10 DEF CInv, RowsBound
<1>3. ASSUME NEW r \in Requests, Leave(r) PROVE CInv'
  <2>1. PICK w \in Workers :
            /\ answer[w][r] = "pending"
            /\ answer' = [answer EXCEPT ![w][r] = "withdrawn"]
            /\ \/ UNCHANGED waiting
               \/ \E i \in 1 .. Len(waiting[w]) :
                     waiting' = [waiting EXCEPT ![w] =
                        SubSeq(@, 1, i - 1) \o SubSeq(@, i + 1, Len(@))]
    BY <1>3 DEF Leave
  <2>2. UNCHANGED <<working, at, best, outcome>>
    BY <1>3 DEF Leave, vars, pickVars
  <2>3. waiting[w] \in Seq(Requests)
    BY <1>0 DEF WorkerTypes
  <2>4. /\ waiting'[w] \in Seq(Requests) /\ Queue(w)' \subseteq Queue(w)
        /\ waiting' = [waiting EXCEPT ![w] = waiting'[w]]
    <3>1. CASE UNCHANGED waiting
      BY <1>0, <2>3, <3>1 DEF Queue, WorkerTypes
    <3>2. ASSUME NEW i \in 1 .. Len(waiting[w]),
                 waiting' = [waiting EXCEPT ![w] =
                    SubSeq(@, 1, i - 1) \o SubSeq(@, i + 1, Len(@))]
          PROVE  /\ waiting'[w] \in Seq(Requests) /\ Queue(w)' \subseteq Queue(w)
                 /\ waiting' = [waiting EXCEPT ![w] = waiting'[w]]
      <4>1. waiting'[w] = SubSeq(waiting[w], 1, i - 1)
                             \o SubSeq(waiting[w], i + 1, Len(waiting[w]))
        BY <1>0, <3>2 DEF WorkerTypes
      <4> QED
        BY <2>3, <3>2, <4>1, RemoveFromQueue DEF Queue
    <3> QED
      BY <2>1, <3>1, <3>2
  <2>5. WorkerTypes'
    BY <1>0, <2>1, <2>2, <2>4 DEF WorkerTypes, Answers
  <2>6. \A q \in Requests, v \in Workers : Occupies(q, v)' => Occupies(q, v)
    <3>1. ASSUME NEW q \in Requests, Occupies(q, w)' PROVE Occupies(q, w)
      <4>1. q \in working'[w] \cup Queue(w)'
        BY <3>1 DEF Occupies, Queue
      <4> QED
        BY <2>2, <2>4, <4>1, OccupiesIs
    <3>2. ASSUME NEW v \in Workers, v # w PROVE waiting'[v] = waiting[v]
      BY <1>0, <2>4, <3>2 DEF WorkerTypes
    <3> QED
      BY <2>2, <3>1, <3>2 DEF Occupies
  <2>7. \A q \in Requests, v \in Workers :
            /\ answer'[v][q] = "none" <=> answer[v][q] = "none"
            /\ answer[v][q] = "result" => answer'[v][q] = "result"
    BY <1>0, <2>1 DEF WorkerTypes
  <2>8. Traced'
    BY <1>0, <2>2, <2>6, <2>7 DEF Traced
  <2>9. OkIsServed'
    BY <1>0, <2>2, <2>7 DEF OkIsServed, Traced
  <2> QED
    BY <1>0, <2>2, <2>5, <2>8, <2>9 DEF CInv, RowsBound
<1>4. ASSUME NEW r \in Requests, Reply(r) PROVE CInv'
  <2>1. /\ UNCHANGED <<waiting, working, answer, best>>
        /\ answer[best[r]][r] = "result"
        /\ at' = [at EXCEPT ![r] = "done"] /\ at[r] = "call"
        /\ outcome' = [outcome EXCEPT ![r] = "ok"]
    BY <1>4 DEF Reply, Succeed, workerVars, pickVars
  <2>2. \A q \in Requests, w \in Workers : Occupies(q, w)' <=> Occupies(q, w)
    BY <2>1 DEF Occupies
  <2>3. best[r] \in Workers
    BY <2>1 DEF GInv, ScanPhases
  <2>4. \A q \in Requests : at[q] \in Reached => at'[q] \in Reached
    BY <1>0, <2>1 DEF Reached
  <2>5. at'[r] \in Reached
    BY <1>0, <2>1 DEF Reached
  <2>6. \A q \in Requests : outcome'[q] = "ok" => outcome[q] = "ok" \/ q = r
    BY <1>0, <2>1
  <2>7. Traced'
    BY <1>0, <2>1, <2>2, <2>3, <2>4, <2>5, <2>6 DEF Traced
  <2>8. OkIsServed'
    BY <1>0, <2>1, <2>6 DEF OkIsServed
  <2> QED
    BY <1>0, <2>1, <2>7, <2>8 DEF CInv, WorkerTypes, RowsBound
<1>5. ASSUME NEW w \in Workers, Admit(w) \/ Finish(w) \/ Break(w) PROVE CInv'
  <2>1. \E S \in SUBSET working[w], a \in Answers \ {"none"} : Turn(w, S, a)
    BY <1>5 DEF Admit, Finish, Break, Answers
  <2> QED
    BY <1>0, <2>1, CTurn
<1>6. ASSUME NEW w \in Workers, WorkerCrash(w) PROVE CInv'
  <2>1. /\ waiting' = [waiting EXCEPT ![w] = << >>]
        /\ working' = [working EXCEPT ![w] = {}]
        /\ answer' = Answered(w, Requests, "cancelled")
        /\ \E v \in Workers : Crash(v)
    BY <1>6 DEF WorkerCrash
  <2>2. \A r \in Requests :
            /\ at[r] \in Reached => at'[r] \in Reached /\ best'[r] = best[r]
            /\ outcome'[r] = "ok" => outcome[r] = "ok"
    BY <1>0, <2>1, AloneMoves
  <2>3. /\ \A v \in Workers, r \in Requests :
              /\ answer'[v][r] = "none" <=> answer[v][r] = "none"
              /\ answer[v][r] = "result" => answer'[v][r] = "result"
        /\ answer' \in [Workers -> [Requests -> Answers]]
    BY <1>0, <2>1 DEF Answered, WorkerTypes, Answers
  <2>4. WorkerTypes'
    BY <1>0, <2>1, <2>3 DEF WorkerTypes
  <2>5. \A r \in Requests, v \in Workers : Occupies(r, v)' => Occupies(r, v)
    BY <1>0, <2>1 DEF Occupies, WorkerTypes
  <2>6. Traced'
    BY <1>0, <2>2, <2>3, <2>5 DEF Traced
  <2>7. OkIsServed'
    BY <1>0, <2>2, <2>3 DEF OkIsServed, Traced
  <2>8. RowsBound'
    BY <1>0, <2>1, FS_EmptySet, ClusterAssumption DEF RowsBound, WorkerTypes
  <2> QED
    BY <2>4, <2>6, <2>7, <2>8 DEF CInv
<1>7. CASE UNCHANGED clusterVars
  BY <1>7 DEF clusterVars, workerVars, vars, pickVars, CInv, WorkerTypes, Traced,
     RowsBound, OkIsServed, Occupies
<1> QED
  BY <1>1, <1>2, <1>3, <1>4, <1>5, <1>6, <1>7 DEF ClusterNext

LEMMA ClusterInvariance == ClusterSpec => [](GInv /\ CInv)
<1>1. ClusterSpec => []GInv
  BY ClusterGateway
<1> QED
  BY <1>1, CInit, CStep, PTL DEF ClusterSpec

\* A client told "ok" was served by the worker its request is charged to, and a
\* request is never at two workers, whatever deadlines, crashes and hang-ups do.
THEOREM OkMeansServed == ClusterSpec => []OkIsServed
BY ClusterInvariance, PTL DEF CInv

\* The load the gateway routes by never undercounts: what occupies a worker and
\* still has its call is charged to that worker.
THEOREM LoadsCoverTheLiving == ClusterSpec => []LoadCountsTheLiving
<1>1. ASSUME GInv, CInv PROVE LoadCountsTheLiving
  <2> SUFFICES ASSUME NEW w \in Workers
               PROVE  Cardinality({r \in Requests :
                         Occupies(r, w) /\ at[r] \notin {"release", "closed"}})
                      <= inflight[w]
    BY DEF LoadCountsTheLiving
  <2> DEFINE living == {r \in Requests :
                          Occupies(r, w) /\ at[r] \notin {"release", "closed"}}
  <2>1. living \subseteq Charged(w)
    BY <1>1 DEF CInv, Traced, Reached, Charged
  <2>2. IsFiniteSet(Charged(w))
    BY GatewayAssumption, FS_Subset DEF Charged
  <2>3. Cardinality(living) <= Cardinality(Charged(w))
    BY <2>1, <2>2, FS_Subset
  <2>4. Cardinality(Charged(w)) = inflight[w]
    BY <1>1 DEF GInv, InflightConserved
  <2> QED
    BY <2>3, <2>4
<1> QED
  BY <1>1, ClusterInvariance, PTL

-----------------------------------------------------------------------------
(* Every worker keeps the promise of ServiceQueue to the gateway's calls *)

LEMMA ServeCardinality ==
    ASSUME NEW w, NEW S PROVE Serve(w)!Cardinality(S) = Cardinality(S)
BY DEF Serve!Cardinality, Cardinality

LEMMA ServeInit ==
    ASSUME NEW w \in Workers, ClusterInit PROVE Serve(w)!Init
BY DEF ClusterInit, Serve!Init

\* A turn of the batch is the service's: S is answered, the batch refilled.
LEMMA ServeTurn ==
    ASSUME CInv, NEW w \in Workers, NEW S \in SUBSET working[w],
           NEW a \in Answers, Turn(w, S, a)
    PROVE  /\ answer'[w] = Serve(w)!Resolve(S, a)
           /\ Serve(w)!Refill(working[w] \ S)
           /\ \A v \in Workers \ {w} : UNCHANGED <<waiting[v], working[v], answer[v]>>
<1>1. answer'[w] = Serve(w)!Resolve(S, a)
  BY DEF Turn, Answered, CInv, WorkerTypes, Serve!Resolve
<1>2. Serve(w)!Refill(working[w] \ S)
  BY TurnEffect, ServeCardinality DEF Serve!Refill
<1>3. \A v \in Workers \ {w} : UNCHANGED <<waiting[v], working[v], answer[v]>>
  BY DEF Turn, Answered, CInv, WorkerTypes
<1> QED
  BY <1>1, <1>2, <1>3

LEMMA ServeStep ==
    ASSUME GInv, CInv, [ClusterNext]_clusterVars, NEW w \in Workers
    PROVE  [Serve(w)!Next]_(Serve(w)!vars)
<1> SUFFICES Serve(w)!Next \/ UNCHANGED <<waiting[w], working[w], answer[w]>>
  BY DEF Serve!vars
<1>0. WorkerTypes
  BY DEF CInv
<1>1. CASE GatewayAlone \/ (\E r \in Requests : Reply(r)) \/ UNCHANGED clusterVars
  BY <1>1 DEF GatewayAlone, Reply, clusterVars, workerVars
<1>2. ASSUME NEW r \in Requests, Arrive(r)
      PROVE  Serve(w)!Next \/ UNCHANGED <<waiting[w], working[w], answer[w]>>
  <2>1. best[r] \in Workers
    BY <1>2 DEF Arrive, GInv, ScanPhases
  <2>2. CASE best[r] # w
    BY <1>0, <1>2, <2>1, <2>2 DEF Arrive, WorkerTypes
  <2>3. CASE best[r] = w
    <3>1. CASE Len(waiting[w]) >= MaxQueueSize
      <4>1. Serve(w)!Reject(r)
        BY <1>0, <1>2, <2>3, <3>1 DEF Arrive, WorkerTypes, Serve!Reject
      <4> QED
        BY <4>1 DEF Serve!Next
    <3>2. CASE ~(Len(waiting[w]) >= MaxQueueSize)
      <4>1. /\ waiting'[w] = Append(waiting[w], r)
            /\ answer'[w] = [answer[w] EXCEPT ![r] = "pending"]
            /\ answer[w][r] = "none" /\ working'[w] = working[w]
        BY <1>0, <1>2, <2>3, <3>2 DEF Arrive, WorkerTypes
      <4>2. Len(waiting[w]) < MaxQueueSize
        BY <1>0, <3>2, ClusterAssumption DEF WorkerTypes
      <4>3. Serve(w)!Arrive(r)
        BY <4>1, <4>2 DEF Serve!Arrive
      <4> QED
        BY <4>3 DEF Serve!Next
    <3> QED
      BY <3>1, <3>2
  <2> QED
    BY <2>2, <2>3
<1>3. ASSUME NEW r \in Requests, Leave(r)
      PROVE  Serve(w)!Next \/ UNCHANGED <<waiting[w], working[w], answer[w]>>
  <2>1. PICK v \in Workers :
            /\ answer[v][r] = "pending"
            /\ answer' = [answer EXCEPT ![v][r] = "withdrawn"]
            /\ \/ UNCHANGED waiting
               \/ \E i \in 1 .. Len(waiting[v]) :
                     /\ waiting[v][i] = r
                     /\ waiting' = [waiting EXCEPT ![v] =
                        SubSeq(@, 1, i - 1) \o SubSeq(@, i + 1, Len(@))]
            /\ UNCHANGED working
    BY <1>3 DEF Leave
  <2>2. CASE v # w
    BY <1>0, <2>1, <2>2 DEF WorkerTypes
  <2>3. CASE v = w
    <3>1. Serve(w)!Leave(r)
      BY <1>0, <2>1, <2>3 DEF WorkerTypes, Serve!Leave
    <3> QED
      BY <3>1 DEF Serve!Next
  <2> QED
    BY <2>2, <2>3
<1>4. ASSUME NEW v \in Workers, Admit(v) \/ Finish(v) \/ Break(v)
      PROVE  Serve(w)!Next \/ UNCHANGED <<waiting[w], working[w], answer[w]>>
  <2>1. CASE v # w
    <3>1. \E S \in SUBSET working[v], a \in Answers : Turn(v, S, a)
      BY <1>4 DEF Admit, Finish, Break, Answers
    <3> QED
      BY <2>1, <3>1, ServeTurn
  <2>2. ASSUME NEW S \in SUBSET working[w], Turn(w, S, "result")
        PROVE  Serve(w)!Next
    BY <2>2, ServeTurn DEF Answers, Serve!Finish, Serve!Next
  <2>3. ASSUME Turn(w, working[w], "exception") PROVE Serve(w)!Next
    <3>1. working[w] \ working[w] = {}
      OBVIOUS
    <3> QED
      BY <2>3, <3>1, ServeTurn DEF Answers, Serve!Fail, Serve!Next
  <2> QED
    BY <1>4, <2>1, <2>2, <2>3 DEF Admit, Finish, Break
<1>5. ASSUME NEW v \in Workers, WorkerCrash(v)
      PROVE  Serve(w)!Next \/ UNCHANGED <<waiting[w], working[w], answer[w]>>
  <2>1. CASE v # w
    BY <1>0, <1>5, <2>1 DEF WorkerCrash, Answered, WorkerTypes
  <2>2. CASE v = w
    BY <1>0, <1>5, <2>2
       DEF WorkerCrash, Answered, WorkerTypes, Serve!Shutdown, Serve!Resolve,
           Serve!Next
  <2> QED
    BY <2>1, <2>2
<1> QED
  BY <1>1, <1>2, <1>3, <1>4, <1>5 DEF ClusterNext

\* Seen by itself, each worker of the cluster is the service that the scheduler
\* of module Batcher is proved to implement.
THEOREM WorkersServe ==
    ASSUME NEW w \in Workers PROVE ClusterSpec => Serve(w)!Spec
<1>1. ClusterInit => Serve(w)!Init
  BY ServeInit
<1>2. GInv /\ CInv /\ [ClusterNext]_clusterVars => [Serve(w)!Next]_(Serve(w)!vars)
  BY ServeStep
<1> QED
  BY <1>1, <1>2, ClusterInvariance, PTL DEF ClusterSpec, Serve!Spec
=============================================================================
