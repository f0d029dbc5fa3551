---------------------------- MODULE BatcherProofs ----------------------------
(***************************************************************************)
(* The safety of Batcher for every set of requests and every size.         *)
(***************************************************************************)
EXTENDS Batcher, FiniteSetTheorems, SequenceTheorems, TLAPS

-----------------------------------------------------------------------------
(* What the queue operations do to the elements of a sequence. *)

\* Appending an element that is not there adds it and repeats none.
LEMMA AppendElement ==
    ASSUME NEW S, NEW s \in Seq(S), NEW e \in S
    PROVE  /\ Append(s, e) \in Seq(S)
           /\ Elements(Append(s, e)) = Elements(s) \cup {e}
           /\ Distinct(s) /\ e \notin Elements(s) => Distinct(Append(s, e))
<1>1. /\ Append(s, e) \in Seq(S)
      /\ Len(Append(s, e)) = Len(s) + 1
      /\ Len(s) \in Nat
      /\ \A i \in 1 .. Len(s) : Append(s, e)[i] = s[i]
      /\ Append(s, e)[Len(s) + 1] = e
  OBVIOUS
<1>2. Elements(Append(s, e)) = Elements(s) \cup {e}
  BY <1>1 DEF Elements
<1>3. ASSUME Distinct(s), e \notin Elements(s)
      PROVE  Distinct(Append(s, e))
  BY <1>1, <1>3 DEF Elements, Distinct
<1>4. QED
  BY <1>1, <1>2, <1>3

\* Cutting a sequence in two shares its elements out.
LEMMA CutElements ==
    ASSUME NEW S, NEW s \in Seq(S), NEW n \in 0 .. Len(s)
    PROVE  /\ SubSeq(s, n + 1, Len(s)) \in Seq(S)
           /\ SubSeq(s, 1, n) \in Seq(S)
           /\ Len(SubSeq(s, 1, n)) = n
           /\ Elements(s) = Elements(SubSeq(s, 1, n))
                                \cup Elements(SubSeq(s, n + 1, Len(s)))
           /\ Distinct(s) =>
                /\ Distinct(SubSeq(s, n + 1, Len(s)))
                /\ Elements(SubSeq(s, 1, n))
                      \cap Elements(SubSeq(s, n + 1, Len(s))) = {}
<1> DEFINE a == SubSeq(s, 1, n)
           b == SubSeq(s, n + 1, Len(s))
<1>1. /\ a \in Seq(S) /\ Len(a) = n
      /\ b \in Seq(S) /\ Len(b) = Len(s) - n
      /\ \A i \in 1 .. n : a[i] = s[i]
      /\ \A i \in 1 .. Len(s) - n : b[i] = s[n + i]
      /\ Len(s) \in Nat
  OBVIOUS
<1> HIDE DEF a, b
<1>2. Elements(s) = Elements(a) \cup Elements(b)
  <2>1. ASSUME NEW i \in 1 .. Len(s)
        PROVE  s[i] \in Elements(a) \cup Elements(b)
    <3>1. CASE i <= n
      BY <1>1, <3>1 DEF Elements
    <3>2. CASE i > n
      <4>1. i - n \in 1 .. Len(s) - n /\ n + (i - n) = i
        BY <1>1, <3>2
      <4>2. b[i - n] = s[i]
        BY <1>1, <4>1
      <4>3. QED
        BY <1>1, <4>1, <4>2 DEF Elements
    <3>3. QED
      BY <1>1, <3>1, <3>2
  <2>2. ASSUME NEW i \in 1 .. n
        PROVE  a[i] \in Elements(s)
    <3>1. a[i] = s[i] /\ i \in 1 .. Len(s)
      BY <1>1
    <3>2. QED
      BY <3>1 DEF Elements
  <2>3. ASSUME NEW i \in 1 .. Len(s) - n
        PROVE  b[i] \in Elements(s)
    <3>1. b[i] = s[n + i] /\ n + i \in 1 .. Len(s)
      BY <1>1
    <3>2. QED
      BY <3>1 DEF Elements
  <2>4. QED
    BY ZenonT(60), <1>1, <2>1, <2>2, <2>3 DEF Elements
<1>3. ASSUME Distinct(s)
      PROVE  Distinct(b) /\ Elements(a) \cap Elements(b) = {}
  <2>1. Distinct(b)
    <3>1. SUFFICES ASSUME NEW i \in 1 .. Len(b), NEW j \in 1 .. Len(b),
                          b[i] = b[j]
                   PROVE  i = j
      BY DEF Distinct
    <3>2. s[n + i] = s[n + j] /\ n + i \in 1 .. Len(s) /\ n + j \in 1 .. Len(s)
      BY <1>1, <3>1
    <3>3. n + i = n + j
      BY <1>3, <3>2 DEF Distinct
    <3>4. QED
      BY <1>1, <3>3
  <2>2. ASSUME NEW i \in 1 .. n, NEW j \in 1 .. Len(s) - n, a[i] = b[j]
        PROVE  FALSE
    <3>1. s[i] = s[n + j] /\ i \in 1 .. Len(s) /\ n + j \in 1 .. Len(s)
      BY <1>1, <2>2
    <3>2. i = n + j
      BY <1>3, <3>1 DEF Distinct
    <3>3. QED
      BY <1>1, <3>2
  <2>3. QED
    BY <1>1, <2>1, <2>2 DEF Elements
<1>4. QED
  BY <1>1, <1>2, <1>3 DEF a, b

\* Removing the one occurrence of an element removes it.
LEMMA RemoveElement ==
    ASSUME NEW S, NEW s \in Seq(S), NEW k \in 1 .. Len(s)
    PROVE  /\ RemoveAt(s, k) \in Seq(S)
           /\ Distinct(s) =>
                /\ Elements(RemoveAt(s, k)) = Elements(s) \ {s[k]}
                /\ Distinct(RemoveAt(s, k))
<1> DEFINE t == RemoveAt(s, k)
<1>1. /\ t \in Seq(S)
      /\ Len(t) = Len(s) - 1
      /\ \A i \in 1 .. Len(s) - 1 : t[i] = IF i < k THEN s[i] ELSE s[i + 1]
  <2> DEFINE a == SubSeq(s, 1, k - 1)
             b == SubSeq(s, k + 1, Len(s))
  <2>1. /\ a \in Seq(S) /\ Len(a) = k - 1
        /\ b \in Seq(S) /\ Len(b) = Len(s) - k
        /\ \A i \in 1 .. k - 1 : a[i] = s[i]
        /\ \A i \in 1 .. Len(s) - k : b[i] = s[k + i]
        /\ Len(s) \in Nat
    OBVIOUS
  <2> HIDE DEF a, b
  <2>2. /\ a \o b \in Seq(S)
        /\ Len(a \o b) = Len(a) + Len(b)
        /\ \A i \in 1 .. Len(a) + Len(b) :
              (a \o b)[i] = IF i <= Len(a) THEN a[i] ELSE b[i - Len(a)]
    BY <2>1, ConcatProperties
  <2>3. ASSUME NEW i \in 1 .. Len(s) - 1
        PROVE  (a \o b)[i] = IF i < k THEN s[i] ELSE s[i + 1]
    <3>1. CASE i < k
      BY <2>1, <2>2, <3>1
    <3>2. CASE ~(i < k)
      <4>1. /\ i - (k - 1) \in 1 .. Len(s) - k
            /\ k + (i - (k - 1)) = i + 1
        BY <2>1, <3>2
      <4>2. (a \o b)[i] = b[i - (k - 1)]
        BY <2>1, <2>2, <3>2
      <4>3. QED
        BY <2>1, <3>2, <4>1, <4>2
    <3>3. QED
      BY <3>1, <3>2
  <2>4. t = a \o b
    BY DEF RemoveAt, a, b
  <2>5. Len(a \o b) = Len(s) - 1
    BY <2>1, <2>2
  <2>6. QED
    BY <2>2, <2>3, <2>4, <2>5
<1>2. Len(s) \in Nat
  OBVIOUS
<1> HIDE DEF t
<1>3. ASSUME Distinct(s)
      PROVE  Elements(t) = Elements(s) \ {s[k]}
  <2>1. ASSUME NEW i \in 1 .. Len(s), i # k
        PROVE  s[i] \in Elements(t)
    <3>1. CASE i < k
      BY <1>1, <1>2, <3>1 DEF Elements
    <3>2. CASE i > k
      <4>1. i - 1 \in 1 .. Len(s) - 1 /\ ~(i - 1 < k) /\ (i - 1) + 1 = i
        BY <1>2, <3>2
      <4>2. t[i - 1] = s[i]
        BY <1>1, <4>1
      <4>3. QED
        BY <1>1, <4>1, <4>2 DEF Elements
    <3>3. QED
      BY <2>1, <3>1, <3>2
  <2>2. ASSUME NEW i \in 1 .. Len(t)
        PROVE  t[i] \in Elements(s) \ {s[k]}
    <3>1. CASE i < k
      <4>1. t[i] = s[i] /\ i \in 1 .. Len(s) /\ i # k
        BY <1>1, <1>2, <3>1
      <4>2. QED
        BY <1>3, <4>1 DEF Elements, Distinct
    <3>2. CASE ~(i < k)
      <4>1. t[i] = s[i + 1] /\ i + 1 \in 1 .. Len(s) /\ i + 1 # k
        BY <1>1, <1>2, <3>2
      <4>2. QED
        BY <1>3, <4>1 DEF Elements, Distinct
    <3>3. QED
      BY <3>1, <3>2
  <2>3. QED
    BY <2>1, <2>2 DEF Elements
<1>4. ASSUME Distinct(s)
      PROVE  Distinct(t)
  <2>1. SUFFICES ASSUME NEW i \in 1 .. Len(t), NEW j \in 1 .. Len(t),
                        t[i] = t[j]
                 PROVE  i = j
    BY DEF Distinct
  <2>2. PICK u \in 1 .. Len(s) : t[i] = s[u] /\ u = IF i < k THEN i ELSE i + 1
    BY SMTT(30), <1>1, <1>2
  <2>3. PICK v \in 1 .. Len(s) : t[j] = s[v] /\ v = IF j < k THEN j ELSE j + 1
    BY <1>1, <1>2
  <2>4. u = v
    BY <1>4, <2>1, <2>2, <2>3 DEF Distinct
  <2>5. QED
    BY <1>1, <1>2, <2>2, <2>3, <2>4
<1>5. QED
  BY <1>1, <1>3, <1>4 DEF t

\* A sequence has at most as many elements as its length.
LEMMA ElementsBound ==
    ASSUME NEW S, NEW s \in Seq(S)
    PROVE  IsFiniteSet(Elements(s)) /\ Cardinality(Elements(s)) <= Len(s)
<1>1. /\ Len(s) \in Nat
      /\ s \in [1 .. Len(s) -> S]
  OBVIOUS
<1>2. /\ IsFiniteSet(1 .. Len(s))
      /\ Cardinality(1 .. Len(s)) = Len(s)
  BY <1>1, FS_Interval
<1>3. s \in Surjection(1 .. Len(s), Elements(s))
  BY <1>1 DEF Surjection, Elements
<1>4. QED
  BY <1>2, <1>3, FS_Surjection

-----------------------------------------------------------------------------
(* The scheduler's move at the top of a tick. *)

\* What a tick can begin with, from BeginTick or when the window closes.
TickMove(b, run) ==
    \/ FallAsleep(b, run)
    \/ OpenWindow(b, run)
    \/ TakeAdmissions(b, run)
    \/ AskDecode(b, run)

\* A set of requests is finite, and its size a number.
LEMMA RequestsFinite ==
    ASSUME NEW b \in SUBSET Requests
    PROVE  IsFiniteSet(b) /\ Cardinality(b) \in Nat
BY RequestsAssumption, FS_Subset, FS_CardinalityType

\* A move takes the head of the queue, whole requests, in order, into
\* newcomers, and never more than the rows b leave room for.
LEMMA MoveEffect ==
    ASSUME NEW b \in SUBSET Requests, NEW run \in SUBSET Requests,
           queue \in Seq(Requests), work \in BOOLEAN, TickMove(b, run)
    PROVE  /\ pc' \in {"asleep", "window", "admit", "decode"}
           /\ pc' \in {"asleep", "window"} => b = {} /\ newcomers' = {}
           /\ pc' = "decode" => newcomers' = {}
           /\ work' \in BOOLEAN
           /\ queue' \in Seq(Requests)
           /\ newcomers' \in SUBSET Requests
           /\ batch' = b
           /\ running' = run \cup newcomers'
           /\ Queued = newcomers' \cup Elements(queue')
           /\ Distinct(queue) =>
                Distinct(queue') /\ newcomers' \cap Elements(queue') = {}
           /\ Cardinality(b) <= MaxBatchSize =>
                Cardinality(b \cup newcomers') <= MaxBatchSize
           /\ \E n \in 0 .. Len(queue) :
                /\ newcomers' = Elements(SubSeq(queue, 1, n))
                /\ queue' = SubSeq(queue, n + 1, Len(queue))
<1>1. /\ Cardinality(b) \in Nat /\ MaxBatchSize \in Nat /\ Len(queue) \in Nat
      /\ IsFiniteSet(b)
  BY RequestsFinite, SizesAssumption
<1>2. CASE UNCHANGED queue /\ newcomers' = {}
  <2>1. /\ 0 \in 0 .. Len(queue)
        /\ newcomers' = Elements(SubSeq(queue, 1, 0))
        /\ queue' = SubSeq(queue, 0 + 1, Len(queue))
    BY <1>1, <1>2 DEF Elements
  <2>2. b \cup newcomers' = b
    BY <1>2
  <2>3. Queued = newcomers' \cup Elements(queue')
    BY <1>2 DEF Queued
  <2>4. QED
    BY <1>2, <2>1, <2>2, <2>3
       DEF TickMove, FallAsleep, OpenWindow, TakeAdmissions, AskDecode
<1>3. CASE TakeAdmissions(b, run)
  <2> DEFINE n == Room(b)
  <2>1. n \in 1 .. Len(queue) /\ Cardinality(b) + n <= MaxBatchSize
    BY <1>1, <1>3 DEF TakeAdmissions, Room
  <2> HIDE DEF n
  <2>2. /\ newcomers' = Elements(SubSeq(queue, 1, n))
        /\ queue' = SubSeq(queue, n + 1, Len(queue))
        /\ running' = run \cup newcomers'
        /\ batch' = b /\ pc' = "admit" /\ work' = work
    BY <1>3 DEF TakeAdmissions, n
  <2>3. n \in 0 .. Len(queue)
    BY <1>1, <2>1
  <2>4. /\ queue' \in Seq(Requests)
        /\ SubSeq(queue, 1, n) \in Seq(Requests)
        /\ Len(SubSeq(queue, 1, n)) = n
        /\ Queued = newcomers' \cup Elements(queue')
        /\ Distinct(queue) =>
             Distinct(queue') /\ newcomers' \cap Elements(queue') = {}
    BY <2>2, <2>3, CutElements DEF Queued
  <2>5. newcomers' \in SUBSET Requests
    BY <2>2, <2>4, ElementOfSeq DEF Elements
  <2>6. IsFiniteSet(newcomers') /\ Cardinality(newcomers') <= n
    BY <2>2, <2>4, ElementsBound
  <2>7. Cardinality(b \cup newcomers') <= Cardinality(b) + Cardinality(newcomers')
    <3>1. Cardinality(b \cup newcomers') =
             Cardinality(b) + Cardinality(newcomers')
                 - Cardinality(b \cap newcomers')
      BY <1>1, <2>6, FS_Union
    <3>2. /\ Cardinality(newcomers') \in Nat
          /\ Cardinality(b \cap newcomers') \in Nat
      BY <2>5, RequestsFinite
    <3>3. QED
      BY <1>1, <3>1, <3>2
  <2>8. Cardinality(b \cup newcomers') <= MaxBatchSize
    <3>1. b \cup newcomers' \in SUBSET Requests
      BY <2>5
    <3>2. /\ Cardinality(newcomers') \in Nat
          /\ Cardinality(b \cup newcomers') \in Nat
      BY <2>5, <3>1, RequestsFinite
    <3>3. QED
      BY <1>1, <2>1, <2>6, <2>7, <3>2
  <2>9. QED
    BY <2>2, <2>3, <2>4, <2>5, <2>8
<1>4. QED
  BY <1>2, <1>3 DEF TickMove, FallAsleep, OpenWindow, AskDecode

\* BeginTick is such a move.
LEMMA TickIsMove ==
    ASSUME NEW b, NEW run, BeginTick(b, run)
    PROVE  TickMove(b, run)
BY DEF BeginTick, TickMove

\* _abandon removes the request from the queue, wherever it was in it.
LEMMA AbandonEffect ==
    ASSUME NEW r \in Requests, queue \in Seq(Requests), Abandon(r)
    PROVE  /\ queue' \in Seq(Requests)
           /\ Distinct(queue) =>
                Distinct(queue') /\ Elements(queue') = Queued \ {r}
           /\ marking' \in Requests \cup {NoRequest}
           /\ marking' # NoRequest => marking' = r /\ r \in running
<1>1. CASE r \in Queued
  <2>1. PICK k \in 1 .. Len(queue) : queue[k] = r /\ queue' = RemoveAt(queue, k)
    BY <1>1 DEF Abandon
  <2>2. QED
    BY <2>1, RemoveElement DEF Abandon, Queued
<1>2. CASE r \notin Queued
  BY <1>2 DEF Abandon, Queued
<1>3. QED
  BY <1>1, <1>2

-----------------------------------------------------------------------------
(* Types *)

\* Publishing keeps a stream a sequence of numbers.
LEMMA PublishType ==
    ASSUME NEW s \in Seq(Nat), NEW n \in Nat, NEW m \in Nat
    PROVE  /\ s \o Delta(n, m) \in Seq(Nat)
           /\ s \o Delta(n, m) \o <<End>> \in Seq(Nat)
           /\ Append(s, End) \in Seq(Nat)
<1>1. Delta(n, m) \in Seq(Nat) /\ <<End>> \in Seq(Nat)
  BY DEF Delta, End
<1>2. s \o Delta(n, m) \in Seq(Nat)
  BY <1>1, ConcatProperties
<1>3. s \o Delta(n, m) \o <<End>> \in Seq(Nat)
  BY <1>1, <1>2, ConcatProperties
<1>4. QED
  BY <1>2, <1>3 DEF End

\* Each action keeps the types; CompleteAll, FailAll and Wake through MoveEffect.
LEMMA TypeStep == TypeOK /\ [Next]_vars => TypeOK'
<1> SUFFICES ASSUME TypeOK, [Next]_vars
             PROVE  TypeOK'
  OBVIOUS
<1> USE DEF schedVars, evictVars, seqVars, replyVars, callVars, countVars
<1>1. ASSUME NEW b \in SUBSET Requests, NEW run \in SUBSET Requests,
             TickMove(b, run)
      PROVE  /\ pc' \in LoopStates /\ work' \in BOOLEAN
             /\ queue' \in Seq(Requests)
             /\ running' \subseteq Requests
             /\ batch' \subseteq Requests /\ newcomers' \subseteq Requests
  <2>1. queue \in Seq(Requests) /\ work \in BOOLEAN
    BY DEF TypeOK
  <2>2. /\ pc' \in {"asleep", "window", "admit", "decode"}
        /\ work' \in BOOLEAN
        /\ queue' \in Seq(Requests)
        /\ newcomers' \in SUBSET Requests
        /\ batch' = b
        /\ running' = run \cup newcomers'
    BY <1>1, <2>1, MoveEffect
  <2>3. QED
    BY <2>2 DEF LoopStates
<1>2. CASE Start
  BY <1>2 DEF Start, TypeOK, LoopStates
<1>3. CASE Wake
  <2>1. TickMove(batch, running)
    BY <1>3, TickIsMove DEF Wake
  <2>2. QED
    BY <1>1, <1>3, <2>1 DEF Wake, TypeOK
<1>4. CASE CloseWindow
  <2>1. TickMove(batch, running)
    BY <1>4 DEF CloseWindow, TickMove
  <2>2. QED
    BY <1>1, <1>4, <2>1 DEF CloseWindow, TypeOK
<1>5. CASE Deliver
  <2>1. stream' \in [Requests -> Seq(Nat)] /\ published' \in [Requests -> Nat]
    BY <1>5, PublishType DEF Deliver, TypeOK
  <2>2. QED
    BY <1>5, <2>1 DEF Deliver, TypeOK, LoopStates
<1>6. CASE CompleteAll
  <2>1. TickMove(keep, running \ done)
    BY <1>6, TickIsMove DEF CompleteAll
  <2>2. /\ stream' \in [Requests -> Seq(Nat)]
        /\ published' \in [Requests -> Nat]
    BY <1>6, PublishType DEF CompleteAll, TypeOK
  <2>3. /\ completed' \in [Requests -> Nat]
        /\ recorded' \in [Requests -> Nat]
        /\ future' \in [Requests -> Futures]
        /\ keep' \subseteq Requests /\ done' \subseteq Requests
    BY <1>6 DEF CompleteAll, TypeOK, Resolved, Futures
  <2>4. QED
    BY <1>1, <1>6, <2>1, <2>2, <2>3 DEF CompleteAll, TypeOK
<1>7. CASE FailAll
  <2>1. TickMove({}, {})
    BY <1>7, TickIsMove DEF FailAll
  <2>2. stream' \in [Requests -> Seq(Nat)]
    BY <1>7, PublishType DEF FailAll, TypeOK
  <2>3. /\ future' \in [Requests -> Futures]
        /\ keep' \subseteq Requests /\ done' \subseteq Requests
    BY <1>7 DEF FailAll, TypeOK, Resolved, Futures
  <2>4. QED
    BY <1>1, <1>7, <2>1, <2>2, <2>3 DEF FailAll, TypeOK
<1>8. CASE EngineStep
  <2>1. PICK rows : Emit(rows)
    BY <1>8 DEF EngineStep
  <2>2. /\ tokens' \in [Requests -> Nat] /\ text' \in [Requests -> Nat]
        /\ finish' \in [Requests -> Reasons]
    BY SMTT(30), <2>1 DEF Emit, TypeOK, Reasons
  <2>3. QED
    BY <1>8, <2>2 DEF EngineStep, TypeOK, LoopStates
<1>9. CASE ScanKeep
  BY <1>9 DEF ScanKeep, TypeOK, LoopStates
<1>10. CASE ScanDone
  BY <1>10 DEF ScanDone, TypeOK, LoopStates
<1>11. CASE EngineRaises
  BY <1>11 DEF EngineRaises, TypeOK, LoopStates
<1>12. CASE Mark
  BY <1>12 DEF Mark, TypeOK, Reasons
<1>13. CASE StopBegin
  BY <1>13 DEF StopBegin, TypeOK, LoopStates
<1>14. CASE StopFinish
  BY <1>14 DEF StopFinish, TypeOK, LoopStates, Resolved, Futures
<1>15. ASSUME NEW r \in Requests, Submit(r)
       PROVE  TypeOK'
  <2>1. queue' \in Seq(Requests)
    <3>1. queue \in Seq(Requests)
      BY DEF TypeOK
    <3>2. Append(queue, r) \in Seq(Requests)
      BY <3>1, AppendElement
    <3>3. QED
      BY <1>15, <3>1, <3>2 DEF Submit
  <2>2. /\ caller' \in [Requests -> Callers]
        /\ future' \in [Requests -> Futures]
        /\ work' \in BOOLEAN
    <3>1. CASE Len(queue) >= MaxQueueSize /\ UNCHANGED <<queue, work, future>>
               /\ caller' = [caller EXCEPT ![r] = "rejected"]
      BY <3>1 DEF TypeOK, Callers
    <3>2. CASE /\ work' = TRUE
               /\ future' = [future EXCEPT ![r] = "pending"]
               /\ caller' = [caller EXCEPT ![r] = "waiting"]
      BY <3>2 DEF TypeOK, Callers, Suspended, Futures
    <3>3. QED
      BY <1>15, <3>1, <3>2 DEF Submit
  <2>3. QED
    BY <1>15, <2>1, <2>2 DEF Submit, TypeOK
<1>16. ASSUME NEW r \in Requests, Return(r)
       PROVE  TypeOK'
  <2>1. caller' \in [Requests -> Callers]
    BY <1>16 DEF Return, TypeOK, Callers
  <2>2. QED
    BY <1>16, <2>1 DEF Return, TypeOK
<1>17. ASSUME NEW r \in Requests, Receive(r)
       PROVE  TypeOK'
  <2>1. /\ Tail(stream[r]) \in Seq(Nat) /\ Head(stream[r]) \in Nat
    <3>1. stream[r] \in Seq(Nat) /\ stream[r] # << >>
      BY <1>17 DEF Receive, TypeOK
    <3>2. QED
      BY <3>1, HeadTailProperties
  <2>2. /\ stream' \in [Requests -> Seq(Nat)]
        /\ received' \in [Requests -> Nat]
    BY <1>17, <2>1 DEF Receive, TypeOK
  <2>3. caller' \in [Requests -> Callers]
    BY <1>17 DEF Receive, TypeOK, Callers, Suspended
  <2>4. QED
    BY <1>17, <2>2, <2>3 DEF Receive, TypeOK
<1>18. ASSUME NEW r \in Requests, Resume(r)
       PROVE  TypeOK'
  BY <1>18 DEF Resume, TypeOK, Callers, Suspended
<1>19. ASSUME NEW r \in Requests, Timeout(r)
       PROVE  TypeOK'
  <2>1. queue' \in Seq(Requests) /\ marking' \in Requests \cup {NoRequest}
    BY <1>19, AbandonEffect DEF Timeout, TypeOK
  <2>2. QED
    BY <1>19, <2>1 DEF Timeout, Forsake, TypeOK, Callers, Futures
<1>20. ASSUME NEW r \in Requests, HangUp(r)
       PROVE  TypeOK'
  <2>1. queue' \in Seq(Requests) /\ marking' \in Requests \cup {NoRequest}
    BY <1>20, AbandonEffect DEF HangUp, TypeOK
  <2>2. QED
    BY <1>20, <2>1 DEF HangUp, Forsake, TypeOK, Callers, Futures
<1>21. CASE UNCHANGED vars
  BY <1>21 DEF vars, TypeOK
<1>22. QED
  BY <1>2, <1>3, <1>4, <1>5, <1>6, <1>7, <1>8, <1>9, <1>10, <1>11, <1>12,
     <1>13, <1>14, <1>15, <1>16, <1>17, <1>18, <1>19, <1>20, <1>21 DEF Next

\* The initial states are well typed.
LEMMA TypeInit == Init => TypeOK
<1>1. << >> \in Seq(Requests) /\ << >> \in Seq(Nat)
  OBVIOUS
<1> SUFFICES ASSUME Init PROVE TypeOK
  OBVIOUS
<1>2. /\ pc \in LoopStates /\ work \in BOOLEAN /\ queue \in Seq(Requests)
      /\ marking \in Requests \cup {NoRequest}
      /\ running = {} /\ batch = {} /\ newcomers = {} /\ keep = {} /\ done = {}
  BY <1>1 DEF Init, LoopStates
<1>3. /\ finish \in [Requests -> Reasons]
      /\ future \in [Requests -> Futures]
      /\ caller \in [Requests -> Callers]
      /\ stream \in [Requests -> Seq(Nat)]
  BY <1>1 DEF Init, Reasons, Futures, Callers
<1>4. /\ tokens \in [Requests -> Nat]
      /\ text \in [Requests -> Nat]
      /\ published \in [Requests -> Nat]
      /\ received \in [Requests -> Nat]
      /\ completed \in [Requests -> Nat]
      /\ recorded \in [Requests -> Nat]
  BY DEF Init
<1>5. QED
  BY <1>2, <1>3, <1>4 DEF TypeOK

\* Every variable always has its type.
THEOREM TypeCorrect == Spec => []TypeOK
<1>1. QED
  BY TypeInit, TypeStep, PTL DEF Spec

-----------------------------------------------------------------------------
(* The inductive invariant *)

\* Which rows there are at which point of the loop.  Between the readings of
\* an eviction a row that was not kept has finished, and finishes only once.
Phases ==
    /\ keep \subseteq batch /\ done \subseteq batch
    /\ pc \in {"new", "starting", "asleep", "window"} =>
            batch = {} /\ newcomers = {}
    /\ pc \in {"decode", "scanKeep", "scanDone", "evicted"} => newcomers = {}
    /\ pc = "scanDone" => \A r \in batch \ keep : finish[r] # "none"
    /\ \A r \in done : finish[r] # "none"

\* A call not made yet is nowhere.
Unmade ==
    \A r \in Requests : caller[r] = "new" =>
        /\ r \notin Queued \cup running \cup batch \cup newcomers
        /\ future[r] = "none" /\ completed[r] = 0 /\ recorded[r] = 0

\* A request still queued or running has not been counted.  One that was can
\* stay in the batch, finished, for a single eviction more.
Counted ==
    \A r \in Requests :
        /\ recorded[r] <= 1 /\ completed[r] <= 2
        /\ r \in Queued \cup running \cup newcomers =>
                recorded[r] = 0 /\ completed[r] = 0
        /\ r \in batch => completed[r] <= 1
        /\ r \in batch /\ finish[r] = "none" => completed[r] = 0
        /\ r \in keep => completed[r] = 0

IInv ==
    /\ TypeOK
    /\ RowsWithinBatch
    /\ OnePlace
    /\ RunningHasRow
    /\ NoOrphanedCaller
    /\ Phases
    /\ Unmade
    /\ Counted

\* What a move leaves behind, given rows b and running requests run that the
\* step before had in flight.
LEMMA MoveRows ==
    ASSUME IInv, NEW b \in SUBSET batch, NEW run \in SUBSET b, TickMove(b, run)
    PROVE  /\ RowsWithinBatch'
           /\ Distinct(queue)'
           /\ Queued' \cap (running' \cup batch' \cup newcomers') = {}
           /\ batch' = b /\ batch' \cap newcomers' = {}
           /\ running' = run \cup newcomers'
           /\ Queued = newcomers' \cup Queued'
           /\ pc' \in {"asleep", "window", "admit", "decode"}
           /\ pc' \in {"asleep", "window"} => batch' = {} /\ newcomers' = {}
           /\ pc' = "decode" => newcomers' = {}
<1>1. /\ b \in SUBSET Requests /\ run \in SUBSET Requests
      /\ queue \in Seq(Requests) /\ work \in BOOLEAN
      /\ Distinct(queue) /\ Queued \cap batch = {}
  BY DEF IInv, TypeOK, OnePlace
<1>2. Cardinality(b) <= MaxBatchSize
  <2>1. batch \cup newcomers \in SUBSET Requests
    BY DEF IInv, TypeOK
  <2>2. Cardinality(b) <= Cardinality(batch \cup newcomers)
    BY <2>1, RequestsFinite, FS_Subset
  <2>3. QED
    BY <1>1, <2>1, <2>2, RequestsFinite, SizesAssumption
       DEF IInv, RowsWithinBatch
<1>3. /\ pc' \in {"asleep", "window", "admit", "decode"}
      /\ pc' \in {"asleep", "window"} => b = {} /\ newcomers' = {}
      /\ pc' = "decode" => newcomers' = {}
      /\ batch' = b
      /\ running' = run \cup newcomers'
      /\ Queued = newcomers' \cup Elements(queue')
      /\ Distinct(queue') /\ newcomers' \cap Elements(queue') = {}
      /\ Cardinality(b \cup newcomers') <= MaxBatchSize
  BY <1>1, <1>2, MoveEffect
<1>4. /\ Queued' = Elements(queue')
      /\ Distinct(queue)' <=> Distinct(queue')
  BY DEF Queued, Elements, Distinct
<1>5. QED
  BY <1>1, <1>3, <1>4 DEF RowsWithinBatch, Queued

\* The invariant is inductive.  What a step can disturb: an arrival and an
\* abandonment the queue; a tick's move the rows and the running requests; an
\* eviction's two readings what is kept and handed back.
LEMMA InvStep == IInv /\ [Next]_vars => IInv'
<1> SUFFICES ASSUME IInv, [Next]_vars
             PROVE  IInv'
  OBVIOUS
<1>0. TypeOK' /\ TypeOK
  BY TypeStep DEF IInv
<1> USE DEF schedVars, evictVars, seqVars, replyVars, callVars, countVars
<1>1. CASE Start
  BY <1>0, <1>1 DEF Start, IInv, RowsWithinBatch, OnePlace, RunningHasRow,
     NoOrphanedCaller, Phases, Unmade, Counted, Queued
<1>2. CASE Wake \/ CloseWindow
  <2>1. /\ batch = {} /\ newcomers = {} /\ running = {}
        /\ TickMove(batch, running)
        /\ UNCHANGED <<keep, done, finish, future, caller, completed, recorded>>
    BY <1>2, TickIsMove
       DEF Wake, CloseWindow, TickMove, IInv, Phases, RunningHasRow
  <2>2. /\ RowsWithinBatch'
        /\ Distinct(queue)'
        /\ Queued' \cap (running' \cup batch' \cup newcomers') = {}
        /\ batch' = {}
        /\ running' = newcomers'
        /\ Queued = newcomers' \cup Queued'
        /\ pc' \in {"asleep", "window", "admit", "decode"}
        /\ pc' \in {"asleep", "window"} => newcomers' = {}
        /\ pc' = "decode" => newcomers' = {}
    BY ZenonT(60), <2>1, MoveRows
  <2>3. keep = {} /\ done = {}
    BY <2>1 DEF IInv, Phases
  <2>4. OnePlace' /\ RunningHasRow' /\ Phases'
    BY <2>1, <2>2, <2>3 DEF OnePlace, RunningHasRow, Phases
  <2>5. NoOrphanedCaller'
    BY <2>1, <2>2 DEF IInv, NoOrphanedCaller
  <2>6. Unmade' /\ Counted'
    BY <2>1, <2>2, <2>3 DEF IInv, Unmade, Counted
  <2>7. QED
    BY <1>0, <2>2, <2>4, <2>5, <2>6 DEF IInv
<1>3. CASE Deliver
  <2>1. /\ batch' = batch \cup newcomers /\ newcomers' = {}
        /\ pc' = "scanKeep"
        /\ batch' \cup newcomers' = batch \cup newcomers
        /\ UNCHANGED <<queue, running, keep, done, finish, future, caller,
                       completed, recorded>>
    BY <1>3 DEF Deliver
  <2>2. Queued' = Queued /\ Distinct(queue)' = Distinct(queue)
    BY <2>1 DEF Queued, Elements, Distinct
  <2>3. RowsWithinBatch'
    BY <2>1 DEF IInv, RowsWithinBatch
  <2>4. OnePlace' /\ RunningHasRow' /\ Phases'
    BY <2>1, <2>2 DEF IInv, OnePlace, RunningHasRow, Phases
  <2>5. NoOrphanedCaller' /\ Unmade'
    BY <2>1, <2>2 DEF IInv, NoOrphanedCaller, Unmade
  <2>6. Counted'
    BY <1>0, <2>1, <2>2 DEF IInv, Counted, TypeOK
  <2>7. QED
    BY <1>0, <2>3, <2>4, <2>5, <2>6 DEF IInv
<1>4. CASE CompleteAll
  <2>1. /\ pc = "evicted" /\ keep' = {} /\ done' = {}
        /\ TickMove(keep, running \ done)
        /\ UNCHANGED <<finish, caller>>
        /\ future' = Resolved(done \cap running, "result")
        /\ completed' = [r \in Requests |->
                IF r \in done THEN completed[r] + 1 ELSE completed[r]]
        /\ recorded' = [r \in Requests |->
                IF r \in done \cap running THEN recorded[r] + 1
                                           ELSE recorded[r]]
    BY <1>4, TickIsMove DEF CompleteAll
  <2>2. /\ keep \in SUBSET batch /\ newcomers = {}
        /\ running \ done \in SUBSET keep
        /\ done \subseteq batch
        /\ \A r \in done : finish[r] # "none"
    BY <2>1 DEF IInv, Phases, RunningHasRow
  <2>3. /\ RowsWithinBatch'
        /\ Distinct(queue)'
        /\ Queued' \cap (running' \cup batch' \cup newcomers') = {}
        /\ batch' = keep /\ batch' \cap newcomers' = {}
        /\ running' = (running \ done) \cup newcomers'
        /\ Queued = newcomers' \cup Queued'
        /\ pc' \in {"asleep", "window", "admit", "decode"}
        /\ pc' \in {"asleep", "window"} => batch' = {} /\ newcomers' = {}
        /\ pc' = "decode" => newcomers' = {}
    BY <2>1, <2>2, MoveRows
  <2>4. OnePlace' /\ RunningHasRow' /\ Phases'
    BY <2>1, <2>2, <2>3 DEF OnePlace, RunningHasRow, Phases
  <2>5. NoOrphanedCaller'
    BY <2>1, <2>3 DEF IInv, NoOrphanedCaller, Resolved
  <2>6. Queued \cap batch = {}
    BY DEF IInv, OnePlace
  <2>7. Unmade'
    BY <1>0, <2>1, <2>2, <2>3, <2>6 DEF IInv, Unmade, Resolved
  <2>8. Counted'
    <3>1. SUFFICES ASSUME NEW r \in Requests
                   PROVE  /\ recorded[r]' <= 1 /\ completed[r]' <= 2
                          /\ r \in Queued' \cup running' \cup newcomers' =>
                                recorded[r]' = 0 /\ completed[r]' = 0
                          /\ r \in batch' => completed[r]' <= 1
                          /\ r \in batch' /\ finish[r]' = "none" =>
                                completed[r]' = 0
                          /\ r \in keep' => completed[r]' = 0
      BY DEF Counted
    <3>2. /\ completed[r] \in Nat /\ recorded[r] \in Nat
          /\ recorded[r] <= 1 /\ completed[r] <= 2
          /\ r \in Queued \cup running \cup newcomers =>
                recorded[r] = 0 /\ completed[r] = 0
          /\ r \in batch => completed[r] <= 1
          /\ r \in keep => completed[r] = 0
      BY <1>0 DEF IInv, Counted, TypeOK
    <3>3. CASE r \in done
      <4>1. /\ r \in batch /\ r \notin Queued /\ r \notin running'
            /\ r \notin newcomers' /\ r \notin Queued' /\ finish[r]' # "none"
        BY <2>1, <2>2, <2>3, <2>6, <3>3
      <4>2. /\ completed[r]' = completed[r] + 1
            /\ recorded[r]' = IF r \in running THEN recorded[r] + 1
                                               ELSE recorded[r]
        BY <2>1, <3>3
      <4>3. QED
        BY <2>1, <2>3, <3>2, <4>1, <4>2
    <3>4. CASE r \notin done
      <4>1. completed[r]' = completed[r] /\ recorded[r]' = recorded[r]
        BY <2>1, <3>4
      <4>2. QED
        BY <2>1, <2>2, <2>3, <3>2, <4>1
    <3>5. QED
      BY <3>3, <3>4
  <2>9. QED
    BY <1>0, <2>3, <2>4, <2>5, <2>7, <2>8 DEF IInv
<1>5. CASE FailAll
  <2>1. /\ keep' = {} /\ done' = {}
        /\ TickMove({}, {})
        /\ UNCHANGED <<finish, caller, completed, recorded>>
        /\ future' = Resolved(running, "exception")
    BY <1>5, TickIsMove DEF FailAll
  <2>2. /\ RowsWithinBatch'
        /\ Distinct(queue)'
        /\ Queued' \cap (running' \cup batch' \cup newcomers') = {}
        /\ batch' = {}
        /\ running' = newcomers'
        /\ Queued = newcomers' \cup Queued'
        /\ pc' \in {"asleep", "window", "admit", "decode"}
        /\ pc' \in {"asleep", "window"} => newcomers' = {}
        /\ pc' = "decode" => newcomers' = {}
    BY <2>1, MoveRows
  <2>3. OnePlace' /\ RunningHasRow' /\ Phases'
    BY <2>1, <2>2 DEF OnePlace, RunningHasRow, Phases
  <2>4. NoOrphanedCaller'
    BY <2>1, <2>2 DEF IInv, NoOrphanedCaller, Resolved
  <2>5. Unmade' /\ Counted'
    BY <2>1, <2>2 DEF IInv, Unmade, Counted, Resolved
  <2>6. QED
    BY <1>0, <2>2, <2>3, <2>4, <2>5 DEF IInv
<1>6. CASE EngineStep
  <2>1. PICK rows : Emit(rows)
    BY <1>6 DEF EngineStep
  <2>2. \A r \in Requests : finish[r] # "none" => finish'[r] # "none"
    BY <2>1 DEF Emit, IInv, TypeOK
  <2>3. /\ pc \in {"admit", "decode"} /\ pc' = "stepped"
        /\ UNCHANGED <<queue, running, batch, newcomers, keep, done, future,
                       caller, completed, recorded>>
    BY <1>6 DEF EngineStep
  <2>4. Queued' = Queued /\ Distinct(queue)' = Distinct(queue)
    BY <2>3 DEF Queued, Elements, Distinct
  <2>5. RowsWithinBatch' /\ OnePlace' /\ RunningHasRow' /\ NoOrphanedCaller'
    BY <2>3, <2>4 DEF IInv, RowsWithinBatch, OnePlace, RunningHasRow,
       NoOrphanedCaller
  <2>6. Phases'
    BY <1>0, <2>2, <2>3 DEF IInv, Phases, TypeOK
  <2>7. Unmade' /\ Counted'
    BY <2>2, <2>3, <2>4 DEF IInv, Unmade, Counted
  <2>8. QED
    BY <1>0, <2>5, <2>6, <2>7 DEF IInv
<1>7. CASE ScanKeep
  <2>1. /\ keep' = {r \in batch : finish[r] = "none"}
        /\ pc = "scanKeep" /\ pc' = "scanDone"
        /\ UNCHANGED <<queue, running, batch, newcomers, done, finish, future,
                       caller, completed, recorded>>
    BY <1>7 DEF ScanKeep
  <2>2. Queued' = Queued /\ Distinct(queue)' = Distinct(queue)
    BY <2>1 DEF Queued, Elements, Distinct
  <2>3. RowsWithinBatch' /\ OnePlace' /\ RunningHasRow' /\ NoOrphanedCaller'
    BY <2>1, <2>2 DEF IInv, RowsWithinBatch, OnePlace, RunningHasRow,
       NoOrphanedCaller
  <2>4. Phases' /\ Unmade' /\ Counted'
    BY <1>0, <2>1, <2>2 DEF IInv, Phases, Unmade, Counted, TypeOK
  <2>5. QED
    BY <1>0, <2>3, <2>4 DEF IInv
<1>8. CASE ScanDone
  <2>1. /\ done' = {r \in batch : finish[r] # "none"}
        /\ pc = "scanDone" /\ pc' = "evicted"
        /\ UNCHANGED <<queue, running, batch, newcomers, keep, finish, future,
                       caller, completed, recorded>>
    BY <1>8 DEF ScanDone
  <2>2. Queued' = Queued /\ Distinct(queue)' = Distinct(queue)
    BY <2>1 DEF Queued, Elements, Distinct
  <2>3. RowsWithinBatch' /\ OnePlace' /\ NoOrphanedCaller'
    BY <2>1, <2>2 DEF IInv, RowsWithinBatch, OnePlace, NoOrphanedCaller
  <2>4. batch \subseteq keep \cup done'
    BY <2>1 DEF IInv, Phases
  <2>5. RunningHasRow' /\ Phases'
    BY <2>1, <2>4 DEF IInv, RunningHasRow, Phases
  <2>6. Unmade' /\ Counted'
    BY <2>1, <2>2 DEF IInv, Unmade, Counted
  <2>7. QED
    BY <1>0, <2>3, <2>5, <2>6 DEF IInv
<1>9. CASE EngineRaises
  BY <1>0, <1>9 DEF EngineRaises, IInv, RowsWithinBatch, OnePlace,
     RunningHasRow, NoOrphanedCaller, Phases, Unmade, Counted, Queued
<1>10. CASE Mark
  <2>1. /\ \A r \in Requests : finish[r] # "none" => finish'[r] # "none"
        /\ UNCHANGED <<pc, queue, running, batch, newcomers, keep, done, future,
                       caller, completed, recorded>>
    BY <1>0, <1>10 DEF Mark, TypeOK
  <2>2. Queued' = Queued /\ Distinct(queue)' = Distinct(queue)
    BY <2>1 DEF Queued, Elements, Distinct
  <2>3. RowsWithinBatch' /\ OnePlace' /\ RunningHasRow' /\ NoOrphanedCaller'
    BY <2>1, <2>2 DEF IInv, RowsWithinBatch, OnePlace, RunningHasRow,
       NoOrphanedCaller
  <2>4. Phases' /\ Unmade' /\ Counted'
    BY <1>0, <2>1, <2>2 DEF IInv, Phases, Unmade, Counted, TypeOK
  <2>5. QED
    BY <1>0, <2>3, <2>4 DEF IInv
<1>11. CASE StopBegin
  BY <1>0, <1>11 DEF StopBegin, IInv, RowsWithinBatch, OnePlace,
     RunningHasRow, NoOrphanedCaller, Phases, Unmade, Counted, Queued
<1>12. CASE StopFinish
  <2>1. /\ queue' = << >> /\ running' = {} /\ batch' = {} /\ newcomers' = {}
        /\ keep' = {} /\ done' = {} /\ pc' = "stopped"
        /\ future' = Resolved(Queued \cup running, "cancelled")
        /\ UNCHANGED <<finish, caller, completed, recorded>>
    BY <1>12 DEF StopFinish
  <2>2. Queued' = {} /\ Distinct(queue)'
    BY <2>1 DEF Queued, Elements, Distinct
  <2>3. RowsWithinBatch'
    BY <2>1, FS_EmptySet, SizesAssumption DEF RowsWithinBatch
  <2>4. OnePlace' /\ RunningHasRow' /\ Phases'
    BY <2>1, <2>2 DEF OnePlace, RunningHasRow, Phases
  <2>5. NoOrphanedCaller' /\ Unmade' /\ Counted'
    BY <2>1, <2>2 DEF IInv, NoOrphanedCaller, Unmade, Counted, Resolved
  <2>6. QED
    BY <1>0, <2>3, <2>4, <2>5 DEF IInv
<1>13. ASSUME NEW r \in Requests, Submit(r)
       PROVE  IInv'
  <2>1. CASE queue' = queue
    <3>1. /\ caller' = [caller EXCEPT ![r] = "rejected"]
          /\ UNCHANGED <<pc, queue, running, batch, newcomers, keep, done,
                         finish, future, completed, recorded>>
      <4>1. queue \in Seq(Requests) /\ Append(queue, r) # queue
        BY <1>0 DEF TypeOK
      <4>2. QED
        BY <1>13, <2>1, <4>1 DEF Submit
    <3>2. Queued' = Queued /\ Distinct(queue)' = Distinct(queue)
      BY <3>1 DEF Queued, Elements, Distinct
    <3>3. RowsWithinBatch' /\ OnePlace' /\ RunningHasRow' /\ Phases'
      BY <3>1, <3>2 DEF IInv, RowsWithinBatch, OnePlace, RunningHasRow, Phases
    <3>4. NoOrphanedCaller' /\ Unmade' /\ Counted'
      BY <1>0, <3>1, <3>2 DEF IInv, TypeOK, NoOrphanedCaller, Unmade, Counted,
         Suspended
    <3>5. QED
      BY <1>0, <3>3, <3>4 DEF IInv
  <2>2. CASE queue' # queue
    <3>1. /\ queue' = Append(queue, r) /\ caller[r] = "new"
          /\ future' = [future EXCEPT ![r] = "pending"]
          /\ caller' = [caller EXCEPT ![r] = "waiting"]
          /\ UNCHANGED <<pc, running, batch, newcomers, keep, done, finish,
                         completed, recorded>>
      BY <1>13, <2>2 DEF Submit
    <3>2. /\ r \notin Queued \cup running \cup batch \cup newcomers
          /\ completed[r] = 0 /\ recorded[r] = 0
      BY <3>1 DEF IInv, Unmade
    <3>3. Queued' = Queued \cup {r} /\ Distinct(queue)'
      <4>1. queue \in Seq(Requests) /\ Distinct(queue) /\ r \notin Elements(queue)
        BY <1>0, <3>2 DEF IInv, TypeOK, OnePlace, Queued
      <4>2. /\ Elements(Append(queue, r)) = Elements(queue) \cup {r}
            /\ Distinct(Append(queue, r))
        BY <4>1, AppendElement
      <4>3. QED
        BY <3>1, <4>2 DEF Queued, Distinct, Elements
    <3>4. RowsWithinBatch' /\ OnePlace' /\ RunningHasRow' /\ Phases'
      BY <3>1, <3>2, <3>3 DEF IInv, RowsWithinBatch, OnePlace, RunningHasRow,
         Phases
    <3>5. NoOrphanedCaller' /\ Unmade' /\ Counted'
      BY <1>0, <3>1, <3>2, <3>3 DEF IInv, TypeOK, NoOrphanedCaller, Unmade,
         Counted, Suspended
    <3>6. QED
      BY <1>0, <3>4, <3>5 DEF IInv
  <2>3. QED
    BY <2>1, <2>2
<1>14. ASSUME NEW r \in Requests, Return(r) \/ Receive(r) \/ Resume(r)
       PROVE  IInv'
  <2>1. /\ \A q \in Requests : caller'[q] \in Suspended => caller[q] \in Suspended
        /\ \A q \in Requests : caller'[q] = "new" => caller[q] = "new"
        /\ UNCHANGED <<pc, queue, running, batch, newcomers, keep, done, finish,
                       future, completed, recorded>>
    BY ZenonT(60), <1>0, <1>14 DEF Return, Receive, Resume, TypeOK, Suspended
  <2>2. Queued' = Queued /\ Distinct(queue)' = Distinct(queue)
    BY <2>1 DEF Queued, Elements, Distinct
  <2>3. RowsWithinBatch' /\ OnePlace' /\ RunningHasRow' /\ Phases'
    BY <2>1, <2>2 DEF IInv, RowsWithinBatch, OnePlace, RunningHasRow, Phases
  <2>4. NoOrphanedCaller' /\ Unmade' /\ Counted'
    BY <2>1, <2>2 DEF IInv, NoOrphanedCaller, Unmade, Counted
  <2>5. QED
    BY <1>0, <2>3, <2>4 DEF IInv
<1>15. ASSUME NEW r \in Requests, Timeout(r) \/ HangUp(r)
       PROVE  IInv'
  <2>1. /\ caller[r] \in Suspended /\ caller'[r] \in {"timeout", "hungup"}
        /\ \A q \in Requests \ {r} :
              caller'[q] = caller[q] /\ future'[q] = future[q]
        /\ UNCHANGED <<pc, running, batch, newcomers, keep, done, finish,
                       completed, recorded>>
    BY <1>0, <1>15 DEF Timeout, HangUp, Forsake, TypeOK, Suspended
  <2>2. Abandon(r) \/ UNCHANGED queue
    BY <1>15 DEF Timeout, HangUp
  <2>3. Distinct(queue)' /\ (Queued' = Queued \ {r} \/ Queued' = Queued)
    <3>1. queue \in Seq(Requests) /\ Distinct(queue)
      BY <1>0 DEF IInv, TypeOK, OnePlace
    <3>2. CASE Abandon(r)
      <4>1. Distinct(queue') /\ Elements(queue') = Queued \ {r}
        BY <3>1, <3>2, AbandonEffect
      <4>2. QED
        BY <4>1 DEF Queued, Elements, Distinct
    <3>3. CASE UNCHANGED queue
      BY <3>1, <3>3 DEF Queued, Elements, Distinct
    <3>4. QED
      BY <2>2, <3>2, <3>3
  <2>4. RowsWithinBatch' /\ OnePlace' /\ RunningHasRow' /\ Phases'
    BY <2>1, <2>3 DEF IInv, RowsWithinBatch, OnePlace, RunningHasRow, Phases
  <2>5. NoOrphanedCaller' /\ Unmade' /\ Counted'
    BY <2>1, <2>3 DEF IInv, NoOrphanedCaller, Unmade, Counted, Suspended
  <2>6. QED
    BY <1>0, <2>4, <2>5 DEF IInv
<1>16. CASE UNCHANGED vars
  BY <1>0, <1>16 DEF vars, IInv, RowsWithinBatch, OnePlace, RunningHasRow,
     NoOrphanedCaller, Phases, Unmade, Counted, Queued
<1>17. QED
  BY <1>1, <1>2, <1>3, <1>4, <1>5, <1>6, <1>7, <1>8, <1>9, <1>10, <1>11,
     <1>12, <1>13, <1>14, <1>15, <1>16 DEF Next

\* The initial states satisfy the inductive invariant.
LEMMA InvInit == Init => IInv
<1> SUFFICES ASSUME Init PROVE IInv
  OBVIOUS
<1>1. TypeOK
  BY TypeInit
<1>2. Queued = {} /\ Distinct(queue)
  BY DEF Init, Queued, Elements, Distinct
<1>3. RowsWithinBatch
  BY FS_EmptySet, SizesAssumption DEF Init, RowsWithinBatch
<1>4. OnePlace /\ RunningHasRow /\ Phases
  BY <1>2 DEF Init, OnePlace, RunningHasRow, Phases
<1>5. NoOrphanedCaller /\ Unmade /\ Counted
  BY <1>2 DEF Init, NoOrphanedCaller, Unmade, Counted
<1>6. QED
  BY <1>1, <1>3, <1>4, <1>5 DEF IInv

\* The inductive invariant holds in every reachable state of the scheduler.
THEOREM Invariance == Spec => []IInv
BY InvInit, InvStep, PTL DEF Spec

-----------------------------------------------------------------------------
(* What follows for every instance *)

\* The batch never outgrows max_batch_size.
THEOREM RowsBounded == Spec => []RowsWithinBatch
BY Invariance, PTL DEF IInv

\* A request is queued once, or in flight, and never both.
THEOREM PlacedOnce == Spec => []OnePlace
BY Invariance, PTL DEF IInv

\* Every running request has a row, whatever abandons it during an eviction.
THEOREM RunningRows == Spec => []RunningHasRow
BY Invariance, PTL DEF IInv

\* A suspended caller's pending request is queued or running.
THEOREM NoCallerOrphaned == Spec => []NoOrphanedCaller
BY Invariance, PTL DEF IInv

\* record_result counts a request at most once and _complete at most twice.
THEOREM CountedOnce == Spec => []RecordedOnce
<1>1. IInv => RecordedOnce
  BY DEF IInv, Counted, RecordedOnce
<1>2. QED
  BY <1>1, Invariance, PTL

\* A move sleeps on an empty queue only, and calls the engine for somebody.
LEMMA MoveAwake ==
    ASSUME NEW b, NEW run, queue \in Seq(Requests), Cardinality(b) \in Nat,
           TickMove(b, run)
    PROVE  AwakeForWork'
<1>1. CASE FallAsleep(b, run) \/ OpenWindow(b, run) \/ AskDecode(b, run)
  BY <1>1 DEF FallAsleep, OpenWindow, AskDecode, AwakeForWork
<1>2. CASE TakeAdmissions(b, run)
  <2> DEFINE n == Room(b)
  <2>1. n \in 1 .. Len(queue)
    BY <1>2, SizesAssumption DEF TakeAdmissions, Room
  <2> HIDE DEF n
  <2>2. SubSeq(queue, 1, n) \in Seq(Requests) /\ Len(SubSeq(queue, 1, n)) = n
    BY <2>1
  <2>3. SubSeq(queue, 1, n)[1] \in Elements(SubSeq(queue, 1, n))
    BY <2>1, <2>2 DEF Elements
  <2>4. pc' = "admit" /\ newcomers' = Elements(SubSeq(queue, 1, n))
    BY <1>2 DEF TakeAdmissions, n
  <2>5. QED
    BY <2>3, <2>4 DEF AwakeForWork
<1>3. QED
  BY <1>1, <1>2 DEF TickMove

\* A request that joins the queue sets the event, and one that leaves it
\* leaves nobody behind unnoticed.
LEMMA AwakeStep == IInv /\ AwakeForWork /\ [Next]_vars => AwakeForWork'
<1> SUFFICES ASSUME IInv, AwakeForWork, [Next]_vars PROVE AwakeForWork'
  OBVIOUS
<1>0. /\ queue \in Seq(Requests)
      /\ keep \in SUBSET Requests /\ batch \in SUBSET Requests
  BY DEF IInv, TypeOK
<1>1. ASSUME NEW b, NEW run, BeginTick(b, run), b \in SUBSET Requests
      PROVE  AwakeForWork'
  BY <1>0, <1>1, TickIsMove, RequestsFinite, MoveAwake
<1>2. CASE Wake
  BY <1>0, <1>1, <1>2 DEF Wake
<1>3. CASE CloseWindow
  <2>1. TickMove(batch, running)
    BY <1>3 DEF CloseWindow, TickMove
  <2>2. QED
    BY <1>0, <2>1, RequestsFinite, MoveAwake
<1>4. CASE CompleteAll
  BY <1>0, <1>1, <1>4 DEF CompleteAll
<1>5. CASE FailAll
  <2>1. {} \in SUBSET Requests
    OBVIOUS
  <2>2. QED
    BY <1>1, <1>5, <2>1 DEF FailAll
<1>6. CASE \/ Start \/ Deliver \/ EngineStep \/ ScanKeep \/ ScanDone
           \/ EngineRaises \/ StopBegin \/ StopFinish
  BY <1>6 DEF Start, Deliver, EngineStep, ScanKeep, ScanDone, EngineRaises,
     StopBegin, StopFinish, AwakeForWork
<1>7. CASE Mark \/ UNCHANGED vars
  BY <1>7 DEF Mark, vars, schedVars, AwakeForWork
<1>8. ASSUME NEW r \in Requests, Submit(r)
      PROVE  AwakeForWork'
  BY <1>8 DEF Submit, AwakeForWork
<1>9. ASSUME NEW r \in Requests, Return(r) \/ Receive(r) \/ Resume(r)
      PROVE  AwakeForWork'
  BY <1>9 DEF Return, Receive, Resume, schedVars, AwakeForWork
<1>10. ASSUME NEW r \in Requests, Timeout(r) \/ HangUp(r)
       PROVE  AwakeForWork'
  <2>1. /\ UNCHANGED <<pc, batch, newcomers, work>>
        /\ Abandon(r) \/ UNCHANGED queue
    BY <1>10 DEF Timeout, HangUp
  <2>2. queue = << >> => queue' = << >>
    BY <2>1 DEF Abandon, Queued, Elements
  <2>3. QED
    BY <2>1, <2>2 DEF AwakeForWork
<1>11. QED
  BY <1>2, <1>3, <1>4, <1>5, <1>6, <1>7, <1>8, <1>9, <1>10 DEF Next

\* No wake-up is lost and no engine call is made for nothing.
THEOREM NoWakeupLost == Spec => []AwakeForWork
<1>1. Init => AwakeForWork
  BY DEF Init, AwakeForWork
<1>2. QED
  BY <1>1, AwakeStep, Invariance, PTL DEF Spec

-----------------------------------------------------------------------------
(* The scheduler implements ServiceQueue.  Beside IInv this needs to know   *)
(* what a future may hold, given where its caller stands.                   *)

\* A call made has a future; a call that returned had it resolved, and so has
\* a stream whose sentinel is out.
Settled ==
    \A r \in Requests :
        /\ future[r] = "none" <=> caller[r] \in {"new", "rejected"}
        /\ r \in Queued \cup running => future[r] # "none"
        /\ caller[r] \in {"result", "error", "cancelled"} =>
                future[r] # "pending"
        /\ End \in Elements(stream[r]) => future[r] \notin {"none", "pending"}

\* Text is never the sentinel.
LEMMA DeltaIsText ==
    ASSUME NEW s \in Seq(Nat), NEW n \in Nat, NEW m \in Nat,
           End \in Elements(s \o Delta(n, m))
    PROVE  End \in Elements(s)
<1>1. Delta(n, m) \in Seq(Nat) /\ Len(Delta(n, m)) \in Nat /\ Len(s) \in Nat
  BY DEF Delta
<1>2. \A i \in 1 .. Len(Delta(n, m)) : Delta(n, m)[i] # End
  BY DEF Delta, End
<1>3. PICK i \in 1 .. Len(s \o Delta(n, m)) : (s \o Delta(n, m))[i] = End
  BY DEF Elements
<1>4. /\ i \in 1 .. Len(s) + Len(Delta(n, m))
      /\ End = IF i <= Len(s) THEN s[i] ELSE Delta(n, m)[i - Len(s)]
  BY <1>1, <1>3, ConcatProperties
<1>5. i <= Len(s)
  <2>1. ASSUME ~(i <= Len(s)) PROVE i - Len(s) \in 1 .. Len(Delta(n, m))
    BY <1>1, <1>4, <2>1
  <2>2. QED
    BY <1>2, <1>4, <2>1
<1>6. QED
  BY <1>1, <1>4, <1>5 DEF Elements

\* Taking an item adds none.
LEMMA TailElements ==
    ASSUME NEW s \in Seq(Nat), s # << >>
    PROVE  /\ Elements(Tail(s)) \subseteq Elements(s)
           /\ Head(s) \in Elements(s)
<1>1. /\ Tail(s) \in Seq(Nat) /\ Len(Tail(s)) = Len(s) - 1 /\ Len(s) \in Nat
      /\ \A i \in 1 .. Len(Tail(s)) : Tail(s)[i] = s[i + 1]
      /\ Len(s) > 0 /\ Head(s) = s[1]
  BY HeadTailProperties
<1>2. ASSUME NEW i \in 1 .. Len(Tail(s))
      PROVE  Tail(s)[i] \in Elements(s)
  <2>1. i + 1 \in 1 .. Len(s) /\ Tail(s)[i] = s[i + 1]
    BY <1>1
  <2>2. QED
    BY <2>1 DEF Elements
<1>3. QED
  BY <1>1, <1>2 DEF Elements

\* Settled, given the invariant before and after the step.
LEMMA SettledStep == IInv /\ Settled /\ [Next]_vars => Settled'
<1> SUFFICES ASSUME IInv, Settled, [Next]_vars
             PROVE  Settled'
  OBVIOUS
<1>0. TypeOK
  BY DEF IInv
<1> USE DEF schedVars, evictVars, seqVars, replyVars, callVars, countVars
<1>1. ASSUME NEW b, NEW run, b \subseteq batch, run \subseteq running,
             TickMove(b, run), b \subseteq Requests, run \subseteq Requests
      PROVE  Queued' \cup running' \subseteq Queued \cup running
  <2>1. /\ queue \in Seq(Requests) /\ work \in BOOLEAN
        /\ b \in SUBSET Requests /\ run \in SUBSET Requests
    BY <1>0, <1>1 DEF TypeOK
  <2>2. /\ Queued = newcomers' \cup Elements(queue')
        /\ running' = run \cup newcomers'
    BY <1>1, <2>1, MoveEffect
  <2>3. QED
    BY <1>1, <2>2 DEF Queued
<1>2. CASE Wake \/ CloseWindow
  <2>1. /\ TickMove(batch, running)
        /\ UNCHANGED <<future, caller, stream>>
    BY <1>2, TickIsMove DEF Wake, CloseWindow, TickMove
  <2>2. Queued' \cup running' \subseteq Queued \cup running
    BY <1>0, <1>1, <2>1 DEF TypeOK
  <2>3. QED
    BY <2>1, <2>2 DEF Settled
<1>3. CASE Deliver
  <2>1. UNCHANGED <<future, caller, queue, running>>
    BY <1>3 DEF Deliver
  <2>2. ASSUME NEW r \in Requests, End \in Elements(stream'[r])
        PROVE  End \in Elements(stream[r])
    <3>1. /\ stream[r] \in Seq(Nat) /\ published[r] \in Nat /\ text[r] \in Nat
      BY <1>0 DEF TypeOK
    <3>2. stream'[r] \in {stream[r], stream[r] \o Delta(published[r], text[r])}
      BY <1>3 DEF Deliver
    <3>3. QED
      BY <2>2, <3>1, <3>2, DeltaIsText
  <2>3. Queued' = Queued
    BY <2>1 DEF Queued
  <2>4. QED
    BY <2>1, <2>2, <2>3 DEF Settled
<1>4. CASE CompleteAll
  <2>1. /\ TickMove(keep, running \ done)
        /\ UNCHANGED caller
        /\ future' = Resolved(done \cap running, "result")
    BY <1>4, TickIsMove DEF CompleteAll
  <2>2. Queued' \cup running' \subseteq Queued \cup running
    <3>1. keep \subseteq batch /\ running \subseteq Requests /\ keep \subseteq Requests
      BY <1>0 DEF IInv, Phases, TypeOK
    <3>2. QED
      BY <1>1, <2>1, <3>1
  <2>3. ASSUME NEW r \in Requests, r \notin done \cap running
        PROVE  stream'[r] = stream[r] /\ future'[r] = future[r]
    BY <1>4, <2>3 DEF CompleteAll, Resolved
  <2>4. ASSUME NEW r \in Requests
        PROVE  /\ future'[r] = "none" <=> future[r] = "none"
               /\ future'[r] = "pending" => future[r] = "pending"
               /\ r \in done \cap running => future'[r] \notin {"none", "pending"}
    BY <2>1 DEF Resolved, Settled
  <2>5. QED
    BY <2>1, <2>2, <2>3, <2>4 DEF Settled
<1>5. CASE FailAll
  <2>1. /\ TickMove({}, {})
        /\ UNCHANGED caller
        /\ future' = Resolved(running, "exception")
    BY <1>5, TickIsMove DEF FailAll
  <2>2. Queued' \cup running' \subseteq Queued \cup running
    BY <1>1, <2>1
  <2>3. ASSUME NEW r \in Requests, r \notin running
        PROVE  stream'[r] = stream[r] /\ future'[r] = future[r]
    BY <1>5, <2>3 DEF FailAll, Resolved
  <2>4. ASSUME NEW r \in Requests
        PROVE  /\ future'[r] = "none" <=> future[r] = "none"
               /\ future'[r] = "pending" => future[r] = "pending"
               /\ r \in running => future'[r] \notin {"none", "pending"}
    BY <2>1 DEF Resolved, Settled
  <2>5. QED
    BY <2>1, <2>2, <2>3, <2>4 DEF Settled
<1>6. CASE \/ Start \/ EngineStep \/ ScanKeep \/ ScanDone \/ EngineRaises
           \/ Mark \/ StopBegin \/ UNCHANGED vars
  <2>1. UNCHANGED <<future, caller, stream, queue, running>>
    BY <1>6 DEF Start, EngineStep, ScanKeep, ScanDone, EngineRaises, Mark,
       StopBegin, vars
  <2>2. Queued' = Queued
    BY <2>1 DEF Queued
  <2>3. QED
    BY <2>1, <2>2 DEF Settled
<1>7. CASE StopFinish
  <2>1. /\ UNCHANGED <<caller, stream>>
        /\ queue' = << >> /\ running' = {}
        /\ future' = Resolved(Queued \cup running, "cancelled")
    BY <1>7 DEF StopFinish
  <2>2. Queued' = {}
    BY <2>1 DEF Queued, Elements
  <2>3. ASSUME NEW r \in Requests
        PROVE  /\ future'[r] = "none" <=> future[r] = "none"
               /\ future'[r] = "pending" => future[r] = "pending"
    BY <2>1 DEF Resolved
  <2>4. QED
    BY <2>1, <2>2, <2>3 DEF Settled
<1>8. ASSUME NEW r \in Requests, Submit(r)
      PROVE  Settled'
  <2>1. caller[r] = "new" /\ UNCHANGED <<running, stream>>
    BY <1>8 DEF Submit
  <2>2. /\ r \notin Queued \cup running
        /\ End \notin Elements(stream[r])
    BY <2>1 DEF IInv, Unmade, Settled
  <2>3. CASE /\ UNCHANGED <<queue, future>>
             /\ caller' = [caller EXCEPT ![r] = "rejected"]
    <3>1. Queued' = Queued
      BY <2>3 DEF Queued
    <3>2. QED
      BY <1>0, <2>1, <2>2, <2>3, <3>1 DEF Settled, TypeOK
  <2>4. CASE /\ queue' = Append(queue, r)
             /\ future' = [future EXCEPT ![r] = "pending"]
             /\ caller' = [caller EXCEPT ![r] = "waiting"]
    <3>1. queue \in Seq(Requests)
      BY <1>0 DEF TypeOK
    <3>2. Queued' = Queued \cup {r}
      BY <2>4, <3>1, AppendElement DEF Queued
    <3>3. QED
      BY <1>0, <2>1, <2>2, <2>4, <3>2 DEF Settled, TypeOK
  <2>5. QED
    BY <1>8, <2>3, <2>4 DEF Submit
<1>9. ASSUME NEW r \in Requests, Return(r)
      PROVE  Settled'
  <2>1. /\ UNCHANGED <<future, stream, queue, running>>
        /\ future[r] \notin {"none", "pending"}
        /\ caller' = [caller EXCEPT ![r] = caller'[r]]
        /\ caller'[r] \in {"result", "error", "cancelled"}
    BY <1>0, <1>9 DEF Return, TypeOK
  <2>2. Queued' = Queued
    BY <2>1 DEF Queued
  <2>3. QED
    BY <1>0, <2>1, <2>2 DEF Settled, TypeOK
<1>10. ASSUME NEW r \in Requests, Receive(r)
       PROVE  Settled'
  <2>1. /\ UNCHANGED <<future, queue, running>>
        /\ caller[r] = "waiting" /\ stream[r] # << >>
        /\ stream' = [stream EXCEPT ![r] = Tail(stream[r])]
        /\ caller' = [caller EXCEPT ![r] = caller'[r]]
        /\ caller'[r] \in {"result", "error", "yielding"}
        /\ caller'[r] # "yielding" => Head(stream[r]) = End
    BY <1>0, <1>10 DEF Receive, TypeOK
  <2>2. stream[r] \in Seq(Nat)
    BY <1>0 DEF TypeOK
  <2>3. /\ Elements(Tail(stream[r])) \subseteq Elements(stream[r])
        /\ Head(stream[r]) \in Elements(stream[r])
    BY <2>1, <2>2, TailElements
  <2>4. Queued' = Queued
    BY <2>1 DEF Queued
  <2>5. QED
    BY <1>0, <2>1, <2>3, <2>4 DEF Settled, TypeOK
<1>11. ASSUME NEW r \in Requests, Resume(r)
       PROVE  Settled'
  <2>1. /\ UNCHANGED <<future, stream, queue, running>>
        /\ caller[r] = "yielding"
        /\ caller' = [caller EXCEPT ![r] = "waiting"]
    BY <1>11 DEF Resume
  <2>2. Queued' = Queued
    BY <2>1 DEF Queued
  <2>3. QED
    BY <1>0, <2>1, <2>2 DEF Settled, TypeOK
<1>12. ASSUME NEW r \in Requests, Timeout(r) \/ HangUp(r)
       PROVE  Settled'
  <2>1. /\ UNCHANGED <<stream, running>>
        /\ caller[r] \in {"waiting", "yielding"}
        /\ caller'[r] \in {"timeout", "hungup"}
        /\ \A q \in Requests \ {r} :
              caller'[q] = caller[q] /\ future'[q] = future[q]
        /\ future'[r] \in {future[r], "cancelled"}
        /\ Abandon(r) \/ UNCHANGED queue
    BY <1>0, <1>12 DEF Timeout, HangUp, Forsake, TypeOK, Suspended
  <2>2. Queued' \subseteq Queued
    <3>1. queue \in Seq(Requests) /\ Distinct(queue)
      BY <1>0 DEF IInv, TypeOK, OnePlace
    <3>2. QED
      BY <2>1, <3>1, AbandonEffect DEF Queued
  <2>3. QED
    BY <2>1, <2>2 DEF Settled
<1>13. QED
  BY <1>2, <1>3, <1>4, <1>5, <1>6, <1>7, <1>8, <1>9, <1>10, <1>11, <1>12
     DEF Next

\* The first n elements of a sequence, as ServiceQueue writes them.
LEMMA PrefixElements ==
    ASSUME NEW S, NEW s \in Seq(S), NEW n \in 0 .. Len(s)
    PROVE  Elements(SubSeq(s, 1, n)) = {s[i] : i \in 1 .. n}
<1>1. /\ Len(SubSeq(s, 1, n)) = n
      /\ \A i \in 1 .. n : SubSeq(s, 1, n)[i] = s[i]
  OBVIOUS
<1>2. QED
  BY <1>1 DEF Elements

\* Cardinality means the same in the instance of ServiceQueue.
LEMMA ServiceCardinality ==
    ASSUME NEW S PROVE Service!Cardinality(S) = Cardinality(S)
BY DEF Service!Cardinality, Cardinality

\* A move of the scheduler refills the service from the head of the queue.
LEMMA MoveRefills ==
    ASSUME IInv, NEW b \in SUBSET batch, NEW run \in SUBSET b,
           TickMove(b, run)
    PROVE  Service!Refill(run)
<1>1. /\ b \in SUBSET Requests /\ run \in SUBSET Requests
      /\ queue \in Seq(Requests) /\ work \in BOOLEAN
  BY DEF IInv, TypeOK
<1>2. PICK n \in 0 .. Len(queue) :
        /\ newcomers' = Elements(SubSeq(queue, 1, n))
        /\ queue' = SubSeq(queue, n + 1, Len(queue))
  BY <1>1, MoveEffect
<1>3. newcomers' = {queue[i] : i \in 1 .. n}
  BY <1>1, <1>2, PrefixElements
<1>4. /\ running' = run \cup newcomers' /\ batch' = b
      /\ newcomers' \in SUBSET Requests
  BY <1>1, MoveEffect
<1>5. Cardinality(running') <= MaxBatchSize
  <2>1. /\ batch' \cup newcomers' \in SUBSET Requests
        /\ running' \subseteq batch' \cup newcomers'
    BY <1>1, <1>4
  <2>2. Cardinality(batch' \cup newcomers') <= MaxBatchSize
    BY MoveRows DEF RowsWithinBatch
  <2>3. Cardinality(running') <= Cardinality(batch' \cup newcomers')
    BY <2>1, RequestsFinite, FS_Subset
  <2>4. running' \in SUBSET Requests
    BY <2>1
  <2>5. QED
    BY <2>1, <2>2, <2>3, <2>4, RequestsFinite, SizesAssumption
<1>6. running' = run \cup {queue[i] : i \in 1 .. n}
  BY <1>3, <1>4
<1>7. \E k \in 0 .. Len(queue) :
         /\ running' = run \cup {queue[i] : i \in 1 .. k}
         /\ Cardinality(running') <= MaxBatchSize
         /\ queue' = SubSeq(queue, k + 1, Len(queue))
  <2>1. WITNESS n \in 0 .. Len(queue)
  <2>2. QED
    BY <1>2, <1>5, <1>6
<1>8. QED
  BY <1>7, ServiceCardinality DEF Service!Refill

\* Steps that only resolve futures of S, all of them in flight or queued,
\* resolve the same answers.
LEMMA ResolveAnswers ==
    ASSUME NEW S \in SUBSET Requests, NEW v \in Futures,
           UNCHANGED caller, future' = Resolved(S, v)
    PROVE  Answer' = Service!Resolve(S, v)
BY DEF Answer, Service!Resolve, Resolved

\* Every step of the scheduler is a step of ServiceQueue or leaves its
\* variables alone.
LEMMA RefinementStep ==
    IInv /\ Settled /\ [Next]_vars => [Service!Next]_(Service!vars)
<1> SUFFICES ASSUME IInv, Settled, [Next]_vars
             PROVE  Service!Next \/ UNCHANGED <<queue, running, Answer>>
  BY DEF Service!vars
<1>0. TypeOK
  BY DEF IInv
<1> USE DEF schedVars, evictVars, seqVars, replyVars, callVars, countVars
<1>1. CASE Wake \/ CloseWindow
  <2>1. /\ TickMove(batch, running)
        /\ batch = {} /\ running = {}
        /\ UNCHANGED <<future, caller>>
    BY <1>1, TickIsMove
       DEF Wake, CloseWindow, TickMove, IInv, Phases, RunningHasRow
  <2>2. Service!Refill({})
    BY <2>1, MoveRefills
  <2>3. Answer' = Service!Resolve({}, "result")
    BY <2>1 DEF Answer, Service!Resolve
  <2>4. Service!Finish({})
    BY <2>1, <2>2, <2>3 DEF Service!Finish
  <2>5. QED
    BY <2>4 DEF Service!Next
<1>2. CASE CompleteAll
  <2>1. /\ TickMove(keep, running \ done) /\ pc = "evicted"
        /\ UNCHANGED caller
        /\ future' = Resolved(done \cap running, "result")
    BY <1>2, TickIsMove DEF CompleteAll
  <2>2. keep \in SUBSET batch /\ running \ done \in SUBSET keep
    BY <2>1 DEF IInv, Phases, RunningHasRow
  <2>3. Service!Refill(running \ done)
    BY <2>1, <2>2, MoveRefills
  <2>4. Answer' = Service!Resolve(done \cap running, "result")
    BY <1>0, <2>1, ResolveAnswers DEF TypeOK, Futures
  <2>5. running \ (done \cap running) = running \ done
    OBVIOUS
  <2>6. Service!Finish(done \cap running)
    BY <2>3, <2>4, <2>5 DEF Service!Finish
  <2>7. QED
    BY <2>6 DEF Service!Next
<1>3. CASE FailAll
  <2>1. /\ TickMove({}, {})
        /\ UNCHANGED caller
        /\ future' = Resolved(running, "exception")
    BY <1>3, TickIsMove DEF FailAll
  <2>2. Service!Refill({})
    BY <2>1, MoveRefills
  <2>3. Answer' = Service!Resolve(running, "exception")
    BY <1>0, <2>1, ResolveAnswers DEF TypeOK, Futures
  <2>4. QED
    BY <2>2, <2>3 DEF Service!Fail, Service!Next
<1>4. CASE \/ Start \/ Deliver \/ EngineStep \/ ScanKeep \/ ScanDone
           \/ EngineRaises \/ Mark \/ StopBegin \/ UNCHANGED vars
  BY <1>4 DEF Start, Deliver, EngineStep, ScanKeep, ScanDone, EngineRaises,
     Mark, StopBegin, vars, Answer
<1>5. CASE StopFinish
  <2>1. /\ queue' = << >> /\ running' = {} /\ UNCHANGED caller
        /\ future' = Resolved(Queued \cup running, "cancelled")
    BY <1>5 DEF StopFinish
  <2>2. ASSUME NEW r \in Requests, Answer[r] = "pending"
        PROVE  r \in Queued \cup running
    <3>1. /\ future[r] = "pending"
          /\ caller[r] \notin {"rejected", "timeout", "hungup"}
      BY <2>2 DEF Answer
    <3>2. caller[r] \in Suspended
      BY <1>0, <3>1 DEF Settled, TypeOK, Callers
    <3>3. QED
      BY <3>1, <3>2 DEF IInv, NoOrphanedCaller
  <2>3. Answer' = Service!Resolve(Requests, "cancelled")
    BY <2>1, <2>2 DEF Answer, Service!Resolve, Resolved
  <2>4. QED
    BY <2>1, <2>3 DEF Service!Shutdown, Service!Next
<1>6. ASSUME NEW r \in Requests, Submit(r)
      PROVE  Service!Next
  <2>1. Answer[r] = "none" /\ UNCHANGED running /\ caller[r] = "new"
    BY <1>6 DEF Submit, Answer, Settled
  <2>2. CASE /\ Len(queue) >= MaxQueueSize /\ UNCHANGED <<queue, future>>
             /\ caller' = [caller EXCEPT ![r] = "rejected"]
    <3>1. Answer' = [Answer EXCEPT ![r] = "rejected"]
      BY <1>0, <2>2 DEF Answer, TypeOK
    <3>2. Service!Reject(r)
      BY <2>1, <2>2, <3>1 DEF Service!Reject
    <3>3. QED
      BY <3>2 DEF Service!Next
  <2>3. CASE /\ Len(queue) < MaxQueueSize /\ queue' = Append(queue, r)
             /\ future' = [future EXCEPT ![r] = "pending"]
             /\ caller' = [caller EXCEPT ![r] = "waiting"]
    <3>1. Answer' = [Answer EXCEPT ![r] = "pending"]
      BY <1>0, <2>3 DEF Answer, TypeOK
    <3>2. Service!Arrive(r)
      BY <2>1, <2>3, <3>1 DEF Service!Arrive
    <3>3. QED
      BY <3>2 DEF Service!Next
  <2>4. QED
    BY <1>6, <2>2, <2>3 DEF Submit
<1>7. ASSUME NEW r \in Requests, Return(r) \/ Receive(r) \/ Resume(r)
      PROVE  UNCHANGED <<queue, running, Answer>>
  <2>1. /\ UNCHANGED <<queue, running, future>>
        /\ caller[r] \in {"waiting", "yielding"}
        /\ caller' = [caller EXCEPT ![r] = caller'[r]]
        /\ caller'[r] \notin {"rejected", "timeout", "hungup"}
    BY <1>0, <1>7 DEF Return, Receive, Resume, TypeOK
  <2>2. QED
    BY <1>0, <2>1 DEF Answer, TypeOK
<1>8. ASSUME NEW r \in Requests, Timeout(r) \/ HangUp(r)
      PROVE  Service!Next
  <2>1. /\ UNCHANGED running
        /\ caller[r] \in {"waiting", "yielding"}
        /\ caller'[r] \in {"timeout", "hungup"}
        /\ \A q \in Requests \ {r} :
              caller'[q] = caller[q] /\ future'[q] = future[q]
        /\ Abandon(r) \/ UNCHANGED queue
    BY <1>0, <1>8 DEF Timeout, HangUp, Forsake, TypeOK, Suspended
  <2>2. Answer[r] \in {"pending", "result", "exception", "cancelled"}
    BY <1>0, <2>1 DEF Answer, Settled, TypeOK, Futures
  <2>3. Answer' = [Answer EXCEPT ![r] = "withdrawn"]
    BY <2>1 DEF Answer
  <2>4. \/ UNCHANGED queue
        \/ \E i \in 1 .. Len(queue) :
              /\ queue[i] = r
              /\ queue' = SubSeq(queue, 1, i - 1)
                              \o SubSeq(queue, i + 1, Len(queue))
    BY <2>1 DEF Abandon, RemoveAt
  <2>5. Service!Leave(r)
    BY <2>1, <2>2, <2>3, <2>4 DEF Service!Leave
  <2>6. QED
    BY <2>5 DEF Service!Next
<1>9. QED
  BY <1>1, <1>2, <1>3, <1>4, <1>5, <1>6, <1>7, <1>8 DEF Next

\* The scheduler implements the abstract service: admission in order of
\* arrival, a bounded batch, one answer per caller.
THEOREM ServiceImplemented == Spec => ServiceSpec
<1>1. Init => Service!Init
  BY DEF Init, Service!Init, Answer
<1>2. Init => Settled
  BY DEF Init, Settled, Queued, Elements
<1>3. QED
  BY <1>1, <1>2, Invariance, SettledStep, RefinementStep, PTL
     DEF Spec, ServiceSpec, Service!Spec
=============================================================================
