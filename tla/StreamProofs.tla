---------------------------- MODULE StreamProofs ----------------------------
(***************************************************************************)
(* What the callers of Batcher are given, for every set of requests and    *)
(* every size: the items of a stream are its text in order, and a result   *)
(* is the whole of a sequence that ended by itself.                        *)
(***************************************************************************)
EXTENDS BatcherProofs

\* The items that bring a consumer of n tokens further, one token at a time,
\* and the same with the sentinel behind them.
TextItems(s, n) == \A i \in 1 .. Len(s) : s[i] = n + i

EndedItems(s, n) ==
    /\ Len(s) > 0 /\ s[Len(s)] = End
    /\ \A i \in 1 .. Len(s) - 1 : s[i] = n + i

Answered == {"result", "exception"}

\* What lies between a consumer and the text published for it.
Items(r) ==
    IF future[r] \in Answered
    THEN /\ EndedItems(stream[r], received[r])
         /\ published[r] + 1 = received[r] + Len(stream[r])
    ELSE /\ TextItems(stream[r], received[r])
         /\ published[r] = received[r] + Len(stream[r])

\* Only between an engine step and its delivery is there unpublished text, and
\* for good if stop() comes in between.
Undelivered == {"stepped", "stopping"}

Streamed(r) ==
    /\ r \in Queued \cup running => future[r] = "pending"
    /\ r \in Queued => text[r] = published[r]
    /\ r \in running => /\ text[r] \in {published[r], published[r] + 1}
                        /\ pc \notin Undelivered => text[r] = published[r]
    /\ caller[r] = "new" => /\ text[r] = 0 /\ published[r] = 0
                            /\ received[r] = 0 /\ stream[r] = << >>
    /\ caller[r] \in Suspended => Items(r)
    /\ caller[r] \in Suspended /\ future[r] = "result" => text[r] = published[r]
    /\ caller[r] = "result" => future[r] \in Answered /\ received[r] = text[r]

\* A result is that of a finished sequence, and an abandoned sequence has
\* nobody to get it.
Told(r) ==
    /\ future[r] = "result" \/ caller[r] = "result" => finish[r] # "none"
    /\ finish[r] = "abandoned" \/ marking = r => caller[r] \in {"timeout", "hungup"}

Given == (\A r \in Requests : Told(r)) /\ (\A r \in Streaming : Streamed(r))

-----------------------------------------------------------------------------
(* Items *)

\* One more token published is one more item, or none.
LEMMA ItemAdded ==
    ASSUME NEW s \in Seq(Nat), NEW n \in Nat, NEW p \in Nat, NEW m \in {p, p + 1},
           TextItems(s, n), p = n + Len(s)
    PROVE  LET t == s \o Delta(p, m)
           IN  t \in Seq(Nat) /\ TextItems(t, n) /\ m = n + Len(t)
<1>0. Len(s) \in Nat
  OBVIOUS
<1>1. CASE m = p
  <2>1. s \o Delta(p, m) = s
    BY <1>1 DEF Delta
  <2> QED
    BY <1>1, <2>1
<1>2. CASE m = p + 1
  <2>1. Delta(p, m) = <<m>>
    BY <1>2 DEF Delta
  <2>2. s \o Delta(p, m) = Append(s, m)
    <3>1. m \in Nat
      OBVIOUS
    <3> QED
      BY <2>1, <3>1, AppendIsConcat
  <2>3. /\ Append(s, m) \in Seq(Nat) /\ Len(Append(s, m)) = Len(s) + 1
        /\ \A i \in 1 .. Len(s) : Append(s, m)[i] = s[i]
        /\ Append(s, m)[Len(s) + 1] = m
    BY AppendProperties
  <2>4. TextItems(Append(s, m), n) /\ m = n + Len(Append(s, m))
    BY <1>0, <1>2, <2>3 DEF TextItems
  <2> QED
    BY <2>2, <2>3, <2>4
<1> QED
  BY <1>1, <1>2

LEMMA SentinelAdded ==
    ASSUME NEW s \in Seq(Nat), NEW n \in Nat, TextItems(s, n)
    PROVE  /\ EndedItems(Append(s, End), n)
           /\ Len(Append(s, End)) = Len(s) + 1
           /\ \A p \in Nat : s \o Delta(p, p) \o <<End>> = Append(s, End)
<1>1. /\ Len(Append(s, End)) = Len(s) + 1 /\ Len(s) \in Nat
      /\ \A i \in 1 .. Len(s) : Append(s, End)[i] = s[i]
      /\ Append(s, End)[Len(s) + 1] = End
  BY AppendProperties DEF End
<1>2. EndedItems(Append(s, End), n)
  BY <1>1 DEF EndedItems, TextItems
<1>3. ASSUME NEW p \in Nat
      PROVE  s \o Delta(p, p) \o <<End>> = Append(s, End)
  <2>1. s \o Delta(p, p) = s
    BY DEF Delta
  <2> QED
    BY <2>1, AppendIsConcat DEF End
<1> QED
  BY <1>1, <1>2, <1>3

\* The first item is the next token, or the sentinel when it is the only one.
LEMMA ItemTaken ==
    ASSUME NEW s \in Seq(Nat), s # << >>, NEW n \in Nat
    PROVE  /\ Tail(s) \in Seq(Nat) /\ Len(Tail(s)) = Len(s) - 1 /\ Len(s) \in Nat
           /\ TextItems(s, n) => Head(s) = n + 1 /\ TextItems(Tail(s), n + 1)
           /\ EndedItems(s, n) /\ Head(s) = End => Len(s) = 1
           /\ EndedItems(s, n) /\ Head(s) # End =>
                Head(s) = n + 1 /\ EndedItems(Tail(s), n + 1)
<1>1. /\ Tail(s) \in Seq(Nat) /\ Len(Tail(s)) = Len(s) - 1 /\ Len(s) \in Nat
      /\ \A i \in 1 .. Len(s) - 1 : Tail(s)[i] = s[i + 1]
      /\ Len(s) > 0 /\ Head(s) = s[1]
  BY HeadTailProperties
<1>2. ASSUME TextItems(s, n) PROVE Head(s) = n + 1 /\ TextItems(Tail(s), n + 1)
  BY <1>1, <1>2 DEF TextItems
<1>3. ASSUME EndedItems(s, n), Head(s) = End PROVE Len(s) = 1
  <2>1. ASSUME Len(s) # 1 PROVE s[1] = n + 1
    BY <1>1, <1>3, <2>1 DEF EndedItems
  <2> QED
    BY <1>1, <1>3, <2>1 DEF End
<1>4. ASSUME EndedItems(s, n), Head(s) # End
      PROVE  Head(s) = n + 1 /\ EndedItems(Tail(s), n + 1)
  <2>1. Len(s) > 1
    BY <1>1, <1>4 DEF EndedItems
  <2>2. Head(s) = n + 1
    BY <1>1, <1>4, <2>1 DEF EndedItems
  <2>3. Tail(s)[Len(s) - 1] = End
    <3>1. Len(s) - 1 \in 1 .. Len(s) - 1 /\ (Len(s) - 1) + 1 = Len(s)
      BY <1>1, <2>1
    <3> QED
      BY <1>1, <1>4, <3>1 DEF EndedItems
  <2>4. \A i \in 1 .. Len(s) - 2 : Tail(s)[i] = (n + 1) + i
    BY <1>1, <1>4 DEF EndedItems
  <2> QED
    BY <1>1, <2>1, <2>2, <2>3, <2>4 DEF EndedItems
<1> QED
  BY <1>1, <1>2, <1>3, <1>4

-----------------------------------------------------------------------------
(* The invariant *)

\* A step that leaves what concerns the stream of q alone.
LEMMA Untouched ==
    ASSUME NEW q \in Streaming, Streamed(q),
           future'[q] = future[q], text'[q] = text[q], published'[q] = published[q],
           received'[q] = received[q], stream'[q] = stream[q], caller'[q] = caller[q],
           q \in Queued' => q \in Queued,
           q \in running' =>
              \/ q \in Queued
              \/ q \in running /\ (pc' \notin Undelivered => pc \notin Undelivered)
    PROVE  Streamed(q)'
BY DEF Streamed, Items

\* What the first part of a tick brings into running was queued.
LEMMA MoveBrings ==
    ASSUME TypeOK, NEW b \in SUBSET Requests, NEW run \in SUBSET running, TickMove(b, run)
    PROVE  /\ Queued' \subseteq Queued
           /\ running' \subseteq run \cup Queued
           /\ pc' \notin Undelivered
<1>1. /\ run \in SUBSET Requests /\ queue \in Seq(Requests) /\ work \in BOOLEAN
  BY DEF TypeOK
<1>2. /\ pc' \in {"asleep", "window", "admit", "decode"}
      /\ running' = run \cup newcomers'
      /\ Queued = newcomers' \cup Elements(queue')
  BY <1>1, MoveEffect
<1> QED
  BY <1>2 DEF Queued, Undelivered

LEMMA GivenInit == Init => Given
<1> SUFFICES ASSUME Init PROVE Given
  OBVIOUS
<1>1. Queued = {}
  BY DEF Init, Queued, Elements
<1>2. \A r \in Requests : Told(r)
  BY RequestsAssumption DEF Init, Told
<1>3. \A r \in Streaming : Streamed(r)
  BY <1>1, RequestsAssumption DEF Init, Streamed, Suspended
<1> QED
  BY <1>2, <1>3 DEF Given

\* What was asked of each caller stays true of it.
LEMMA ToldStep == IInv /\ Given /\ [Next]_vars => \A q \in Requests : Told(q)'
<1> SUFFICES ASSUME IInv, Given, [Next]_vars, NEW q \in Requests PROVE Told(q)'
  OBVIOUS
<1>0. TypeOK /\ Told(q)
  BY DEF IInv, Given
<1> USE DEF schedVars, evictVars, seqVars, replyVars, callVars, countVars
<1>1. CASE \/ Start \/ Wake \/ CloseWindow \/ Deliver \/ ScanKeep \/ ScanDone
           \/ EngineRaises \/ StopBegin \/ UNCHANGED vars
  BY <1>0, <1>1 DEF Start, Wake, CloseWindow, Deliver, ScanKeep, ScanDone, EngineRaises,
     StopBegin, vars, Told
<1>2. CASE CompleteAll
  <2>1. /\ future'[q] = "result" => q \in done \/ future[q] = "result"
        /\ UNCHANGED <<finish, caller, marking>>
    BY <1>2 DEF CompleteAll, Resolved
  <2>2. q \in done => finish[q] # "none"
    BY DEF IInv, Phases
  <2> QED
    BY <1>0, <2>1, <2>2 DEF Told
<1>3. CASE FailAll \/ StopFinish
  <2>1. /\ future'[q] = "result" => future[q] = "result"
        /\ UNCHANGED <<finish, caller, marking>>
    BY <1>3 DEF FailAll, StopFinish, Resolved
  <2> QED
    BY <1>0, <2>1 DEF Told
<1>4. CASE EngineStep
  <2>1. /\ finish[q] # "none" => finish'[q] = finish[q]
        /\ finish'[q] = "abandoned" => finish[q] = "abandoned"
        /\ UNCHANGED <<future, caller, marking>>
    BY <1>4 DEF EngineStep, Emit
  <2> QED
    BY <1>0, <2>1 DEF Told
<1>5. CASE Mark
  <2>1. /\ finish' = [finish EXCEPT ![marking] = "abandoned"]
        /\ marking' = NoRequest
        /\ UNCHANGED <<future, caller>>
    BY <1>5 DEF Mark
  <2> QED
    BY <1>0, <2>1, RequestsAssumption DEF Told, TypeOK
<1>6. ASSUME NEW r \in Requests, Submit(r) PROVE Told(q)'
  <2>1. /\ caller[r] = "new" /\ UNCHANGED <<finish, marking>>
        /\ caller' = [caller EXCEPT ![r] = caller'[r]]
        /\ caller'[r] \in {"rejected", "waiting"}
        /\ future'[q] = "result" => future[q] = "result"
    BY <1>0, <1>6 DEF Submit, TypeOK
  <2> QED
    BY <1>0, <2>1 DEF Told, TypeOK
<1>7. ASSUME NEW r \in Requests, Return(r) \/ Receive(r) \/ Resume(r) PROVE Told(q)'
  <2>1. /\ UNCHANGED <<finish, marking, future>>
        /\ caller' = [caller EXCEPT ![r] = caller'[r]]
        /\ caller[r] \in Suspended
    BY <1>0, <1>7 DEF Return, Receive, Resume, Suspended, TypeOK
  <2>2. caller'[r] = "result" => finish[r] # "none"
    <3>1. CASE Return(r)
      BY <1>0, <3>1 DEF Return, Given, Told, TypeOK
    <3>2. CASE Receive(r)
      <4>1. ASSUME caller'[r] = "result"
            PROVE  r \in Streaming /\ Head(stream[r]) = End /\ stream[r] # << >>
                   /\ future[r] # "exception"
        BY <1>0, <3>2, <4>1 DEF Receive, TypeOK
      <4>2. ASSUME r \in Streaming, future[r] \notin Answered, stream[r] # << >>
            PROVE  Head(stream[r]) # End
        <5>1. TextItems(stream[r], received[r])
          BY <2>1, <4>2 DEF Given, Streamed, Items
        <5>2. stream[r] \in Seq(Nat) /\ received[r] \in Nat
          BY <1>0 DEF TypeOK
        <5>3. Head(stream[r]) = received[r] + 1
          BY <4>2, <5>1, <5>2, ItemTaken
        <5> QED
          BY <5>2, <5>3 DEF End
      <4>3. caller'[r] = "result" => future[r] = "result"
        BY <4>1, <4>2 DEF Answered
      <4> QED
        BY <4>3 DEF Given, Told
    <3>3. CASE Resume(r)
      BY <1>0, <3>3 DEF Resume, TypeOK
    <3> QED
      BY <1>7, <3>1, <3>2, <3>3
  <2> QED
    BY <1>0, <2>1, <2>2 DEF Told, Suspended, TypeOK
<1>8. ASSUME NEW r \in Requests, Timeout(r) \/ HangUp(r) PROVE Told(q)'
  <2>1. /\ UNCHANGED finish
        /\ caller' = [caller EXCEPT ![r] = caller'[r]]
        /\ caller'[r] \in {"timeout", "hungup"} /\ caller[r] \in Suspended
        /\ marking' \in {r, NoRequest}
        /\ future'[q] = "result" => future[q] = "result"
    BY <1>0, <1>8 DEF Timeout, HangUp, Forsake, Abandon, LoopFree, Suspended, TypeOK
  <2> QED
    BY <1>0, <2>1, RequestsAssumption DEF Told, TypeOK
<1> QED
  BY <1>1, <1>2, <1>3, <1>4, <1>5, <1>6, <1>7, <1>8 DEF Next

\* What each consumer is about to be given stays in order and complete.
LEMMA StreamedStep ==
    IInv /\ Given /\ [Next]_vars => \A q \in Streaming : Streamed(q)'
<1> SUFFICES ASSUME IInv, Given, [Next]_vars, NEW q \in Streaming
             PROVE  Streamed(q)'
  OBVIOUS
<1>0. /\ TypeOK /\ Streamed(q) /\ Told(q) /\ q \in Requests
      /\ stream[q] \in Seq(Nat) /\ Len(stream[q]) \in Nat
      /\ received[q] \in Nat /\ published[q] \in Nat /\ text[q] \in Nat
  <2>1. TypeOK /\ Streamed(q) /\ q \in Requests /\ Told(q)
    BY RequestsAssumption DEF IInv, Given
  <2>2. /\ stream[q] \in Seq(Nat) /\ received[q] \in Nat
        /\ published[q] \in Nat /\ text[q] \in Nat
    BY <2>1 DEF TypeOK
  <2> QED
    BY <2>1, <2>2
<1> USE DEF schedVars, evictVars, seqVars, replyVars, callVars, countVars
<1>1. CASE Wake \/ CloseWindow
  <2>1. /\ TickMove(batch, running)
        /\ UNCHANGED <<future, text, published, received, stream, caller>>
        /\ pc \notin Undelivered
    BY <1>1, TickIsMove DEF Wake, CloseWindow, TickMove, Undelivered
  <2>2. Queued' \subseteq Queued /\ running' \subseteq running \cup Queued
    BY <1>0, <2>1, MoveBrings DEF TypeOK
  <2> QED
    BY <1>0, <2>1, <2>2, Untouched
<1>2. CASE Deliver
  <2>1. /\ pc = "stepped" /\ pc' = "scanKeep"
        /\ UNCHANGED <<queue, running, future, text, caller, received>>
    BY <1>2 DEF Deliver
  <2>2. Queued' = Queued
    BY <2>1 DEF Queued
  <2>3. CASE q \notin running
    <3>1. stream'[q] = stream[q] /\ published'[q] = published[q]
      BY <1>0, <1>2, <2>3 DEF Deliver
    <3> QED
      BY <1>0, <2>1, <2>2, <2>3, <3>1, Untouched
  <2>4. CASE q \in running
    <3>1. /\ stream'[q] = stream[q] \o Delta(published[q], text[q])
          /\ published'[q] = text[q]
      BY <1>0, <1>2, <2>4 DEF Deliver, IInv, RunningHasRow
    <3>2. future[q] = "pending" /\ text[q] \in {published[q], published[q] + 1}
      BY <1>0, <2>4 DEF Streamed
    <3>3. q \notin Queued
      BY <2>4 DEF IInv, OnePlace
    <3>4. caller[q] # "new" /\ caller[q] # "result"
      BY <1>0, <2>4, <3>2 DEF IInv, Unmade, Streamed, Answered
    <3>5. ASSUME caller[q] \in Suspended PROVE Items(q)'
      <4>1. TextItems(stream[q], received[q]) /\ published[q] = received[q] + Len(stream[q])
        BY <1>0, <3>2, <3>5 DEF Streamed, Items, Answered
      <4>2. /\ TextItems(stream'[q], received[q])
            /\ text[q] = received[q] + Len(stream'[q])
        <5> DEFINE t == stream[q] \o Delta(published[q], text[q])
        <5>1. TextItems(t, received[q]) /\ text[q] = received[q] + Len(t)
          BY <1>0, <3>2, <4>1, ItemAdded
        <5> QED
          BY <3>1, <5>1
      <4> QED
        BY <2>1, <3>1, <3>2, <4>2 DEF Items, Answered
    <3> QED
      BY <1>0, <2>1, <2>2, <2>4, <3>1, <3>2, <3>3, <3>4, <3>5 DEF Streamed
  <2> QED
    BY <2>3, <2>4
<1>3. CASE CompleteAll
  <2>1. /\ TickMove(keep, running \ done)
        /\ UNCHANGED <<text, caller, received, finish>>
        /\ pc = "evicted"
    BY <1>3, TickIsMove DEF CompleteAll
  <2>2. /\ Queued' \subseteq Queued /\ running' \subseteq (running \ done) \cup Queued
        /\ pc' \notin Undelivered
    BY <1>0, <2>1, MoveBrings DEF TypeOK
  <2>3. CASE q \notin done \cap running
    <3>1. /\ stream'[q] = stream[q] /\ published'[q] = published[q]
          /\ future'[q] = future[q]
      BY <1>0, <1>3, <2>3 DEF CompleteAll, Resolved
    <3> QED
      BY <1>0, <2>1, <2>2, <3>1, Untouched DEF Undelivered
  <2>4. CASE q \in done \cap running
    <3>1. /\ stream'[q] = stream[q] \o Delta(published[q], text[q]) \o <<End>>
          /\ published'[q] = text[q]
          /\ future'[q] = "result"
      BY <1>0, <1>3, <2>4 DEF CompleteAll, Resolved, Streamed
    <3>2. future[q] = "pending" /\ text[q] = published[q]
      BY <1>0, <2>1, <2>4 DEF Streamed, Undelivered
    <3>3. q \notin Queued' \cup running'
      BY <2>2, <2>4 DEF IInv, OnePlace
    <3>4. caller[q] # "new" /\ caller[q] # "result"
      BY <1>0, <2>4, <3>2 DEF IInv, Unmade, Streamed, Answered
    <3>5. ASSUME caller[q] \in Suspended PROVE Items(q)'
      <4>1. TextItems(stream[q], received[q]) /\ published[q] = received[q] + Len(stream[q])
        BY <1>0, <3>2, <3>5 DEF Streamed, Items, Answered
      <4>2. /\ EndedItems(stream'[q], received[q])
            /\ Len(stream'[q]) = Len(stream[q]) + 1
        BY <1>0, <3>1, <3>2, <4>1, SentinelAdded
      <4>3. published'[q] + 1 = received[q] + Len(stream'[q])
        <5>1. published'[q] = published[q]
          BY <3>1, <3>2
        <5> QED
          BY <1>0, <4>1, <4>2, <5>1
      <4> QED
        BY <2>1, <3>1, <4>2, <4>3 DEF Items, Answered
    <3> QED
      BY <2>1, <3>1, <3>3, <3>4, <3>5 DEF Streamed
  <2> QED
    BY <2>3, <2>4
<1>4. CASE FailAll
  <2>1. /\ TickMove({}, {})
        /\ UNCHANGED <<text, caller, received, published>>
    BY <1>4, TickIsMove DEF FailAll
  <2>2. Queued' \subseteq Queued /\ running' \subseteq Queued /\ pc' \notin Undelivered
    <3>1. {} \in SUBSET Requests /\ {} \in SUBSET running
      OBVIOUS
    <3> QED
      BY <1>0, <2>1, <3>1, MoveBrings
  <2>3. CASE q \notin running
    <3>1. stream'[q] = stream[q] /\ future'[q] = future[q]
      BY <1>0, <1>4, <2>3 DEF FailAll, Resolved
    <3> QED
      BY <1>0, <2>1, <2>2, <3>1, Untouched
  <2>4. CASE q \in running
    <3>1. stream'[q] = Append(stream[q], End) /\ future'[q] = "exception"
      BY <1>0, <1>4, <2>4 DEF FailAll, Resolved, Streamed
    <3>2. future[q] = "pending"
      BY <1>0, <2>4 DEF Streamed
    <3>3. q \notin Queued' \cup running'
      BY <2>2, <2>4 DEF IInv, OnePlace
    <3>4. caller[q] # "new" /\ caller[q] # "result"
      BY <1>0, <2>4, <3>2 DEF IInv, Unmade, Streamed, Answered
    <3>5. ASSUME caller[q] \in Suspended PROVE Items(q)'
      <4>1. TextItems(stream[q], received[q]) /\ published[q] = received[q] + Len(stream[q])
        BY <1>0, <3>2, <3>5 DEF Streamed, Items, Answered
      <4>2. /\ EndedItems(stream'[q], received[q])
            /\ Len(stream'[q]) = Len(stream[q]) + 1
        BY <1>0, <3>1, <4>1, SentinelAdded
      <4> QED
        BY <1>0, <2>1, <3>1, <4>1, <4>2 DEF Items, Answered
    <3> QED
      BY <1>0, <2>1, <3>1, <3>3, <3>4, <3>5 DEF Streamed
  <2> QED
    BY <2>3, <2>4
<1>5. CASE EngineStep
  <2>1. /\ UNCHANGED <<queue, running, future, caller, received, published, stream>>
        /\ pc \notin Undelivered /\ pc' = "stepped"
        /\ text'[q] \in {text[q], text[q] + 1}
        /\ text'[q] # text[q] => finish[q] = "none" /\ q \in batch \cup newcomers
    BY <1>0, <1>5 DEF EngineStep, Emit, Undelivered
  <2>2. Queued' = Queued
    BY <2>1 DEF Queued
  <2>3. q \in Queued \/ caller[q] = "new" => text'[q] = text[q]
    BY <1>0, <2>1 DEF IInv, OnePlace, Unmade
  <2>4. future[q] = "result" \/ caller[q] = "result" => text'[q] = text[q]
    BY <1>0, <2>1 DEF Told
  <2>5. q \in running => text'[q] \in {published[q], published[q] + 1}
    BY <1>0, <2>1 DEF Streamed
  <2> QED
    BY <1>0, <2>1, <2>2, <2>3, <2>4, <2>5 DEF Streamed, Items, Undelivered
<1>6. CASE \/ Start \/ ScanKeep \/ ScanDone \/ EngineRaises \/ Mark \/ StopBegin
           \/ UNCHANGED vars
  <2>1. /\ UNCHANGED <<queue, running, future, text, published, received, stream, caller>>
        /\ pc' \notin Undelivered => pc \notin Undelivered
    BY <1>6 DEF Start, ScanKeep, ScanDone, EngineRaises, Mark, StopBegin, vars, Undelivered
  <2>2. Queued' = Queued
    BY <2>1 DEF Queued
  <2> QED
    BY <1>0, <2>1, <2>2, Untouched
<1>7. CASE StopFinish
  <2>1. /\ UNCHANGED <<text, published, received, stream, caller>>
        /\ queue' = << >> /\ running' = {}
        /\ future' = Resolved(Queued \cup running, "cancelled")
    BY <1>7 DEF StopFinish
  <2>2. Queued' = {}
    BY <2>1 DEF Queued, Elements
  <2>3. /\ future'[q] = "result" <=> future[q] = "result"
        /\ future'[q] \in Answered <=> future[q] \in Answered
    BY <1>0, <2>1 DEF Resolved, Answered
  <2> QED
    BY <1>0, <2>1, <2>2, <2>3 DEF Streamed, Items
<1>8. ASSUME NEW r \in Requests, Submit(r) PROVE Streamed(q)'
  <2>1. /\ UNCHANGED <<pc, running, text, published, received, stream>>
        /\ caller[r] = "new"
    BY <1>8 DEF Submit
  <2>2. \/ /\ UNCHANGED <<queue, future>>
           /\ caller' = [caller EXCEPT ![r] = "rejected"]
        \/ /\ queue' = Append(queue, r)
           /\ future' = [future EXCEPT ![r] = "pending"]
           /\ caller' = [caller EXCEPT ![r] = "waiting"]
    BY <1>8 DEF Submit
  <2>3. Queued' \in {Queued, Queued \cup {r}}
    <3>1. queue \in Seq(Requests)
      BY <1>0 DEF TypeOK
    <3> QED
      BY <2>2, <3>1, AppendElement DEF Queued
  <2>4. CASE q # r
    BY <1>0, <2>1, <2>2, <2>3, <2>4, Untouched DEF TypeOK
  <2>5. CASE q = r /\ UNCHANGED <<queue, future>> /\ caller'[r] = "rejected"
    <3>1. Queued' = Queued
      BY <2>5 DEF Queued
    <3> QED
      BY <1>0, <2>1, <2>5, <3>1 DEF Streamed, Suspended
  <2>6. CASE q = r /\ future'[r] = "pending" /\ caller'[r] = "waiting"
    <3>1. q \notin running
      BY <2>1, <2>6 DEF IInv, Unmade
    <3>2. text[q] = 0 /\ published[q] = 0 /\ received[q] = 0 /\ stream[q] = << >>
      BY <1>0, <2>1, <2>6 DEF Streamed
    <3>3. TextItems(stream[q], received[q]) /\ published[q] = received[q] + Len(stream[q])
      BY <3>2 DEF TextItems
    <3> QED
      BY <2>1, <2>6, <3>1, <3>2, <3>3 DEF Streamed, Items, Answered, Suspended
  <2> QED
    BY <1>0, <2>2, <2>4, <2>5, <2>6 DEF TypeOK
<1>9. ASSUME NEW r \in Requests, Return(r) \/ Resume(r) PROVE Streamed(q)'
  <2>1. /\ UNCHANGED <<pc, queue, running, future, text, published, received, stream>>
        /\ caller' = [caller EXCEPT ![r] = caller'[r]]
        /\ r = q => caller[q] \in Suspended /\ caller'[q] \in Suspended
    BY <1>0, <1>9 DEF Return, Resume, Suspended, TypeOK
  <2>2. Queued' = Queued
    BY <2>1 DEF Queued
  <2>3. CASE q # r
    BY <1>0, <2>1, <2>2, <2>3, Untouched DEF TypeOK
  <2>4. CASE q = r
    BY <1>0, <2>1, <2>2, <2>4 DEF Streamed, Items, Suspended
  <2> QED
    BY <2>3, <2>4
<1>10. ASSUME NEW r \in Requests, Receive(r) PROVE Streamed(q)'
  <2>1. /\ UNCHANGED <<pc, queue, running, future, text, published>>
        /\ r \in Streaming /\ caller[r] = "waiting" /\ stream[r] # << >>
        /\ stream' = [stream EXCEPT ![r] = Tail(@)]
    BY <1>10 DEF Receive
  <2>2. Queued' = Queued
    BY <2>1 DEF Queued
  <2>3. CASE q # r
    <3>1. caller'[q] = caller[q] /\ received'[q] = received[q] /\ stream'[q] = stream[q]
      BY <1>0, <1>10, <2>3 DEF Receive, TypeOK
    <3> QED
      BY <1>0, <2>1, <2>2, <3>1, Untouched
  <2>4. CASE q = r
    <3>1. Items(q) /\ stream'[q] = Tail(stream[q])
      BY <1>0, <2>1, <2>4 DEF Streamed, Suspended, TypeOK
    <3>2. /\ Tail(stream[q]) \in Seq(Nat)
          /\ Len(Tail(stream[q])) = Len(stream[q]) - 1
          /\ TextItems(stream[q], received[q]) =>
                /\ Head(stream[q]) = received[q] + 1
                /\ TextItems(Tail(stream[q]), received[q] + 1)
          /\ EndedItems(stream[q], received[q]) /\ Head(stream[q]) = End =>
                Len(stream[q]) = 1
          /\ EndedItems(stream[q], received[q]) /\ Head(stream[q]) # End =>
                /\ Head(stream[q]) = received[q] + 1
                /\ EndedItems(Tail(stream[q]), received[q] + 1)
      BY <1>0, <2>1, <2>4, ItemTaken
    <3>3. CASE Head(stream[q]) # End
      <4>1. /\ caller'[q] = "yielding" /\ received'[q] = Head(stream[q])
        BY <1>0, <1>10, <2>4, <3>3 DEF Receive, TypeOK
      <4>2. Head(stream[q]) = received[q] + 1
        BY <3>1, <3>2, <3>3 DEF Items
      <4>0. /\ received'[q] = received[q] + 1
            /\ Len(stream'[q]) = Len(stream[q]) - 1
        BY <3>1, <3>2, <4>1, <4>2
      <4>3. Items(q)'
        <5>1. CASE future[q] \in Answered
          <6>1. EndedItems(stream[q], received[q])
                /\ published[q] + 1 = received[q] + Len(stream[q])
            BY <3>1, <5>1 DEF Items
          <6>2. EndedItems(stream'[q], received'[q])
            BY <3>1, <3>2, <3>3, <4>1, <4>2, <6>1
          <6>3. published[q] + 1 = received'[q] + Len(stream'[q])
            <7>1. published[q] + 1 = received[q] + Len(stream[q])
              BY <6>1
            <7>2. /\ received[q] \in Nat /\ published[q] \in Nat
                  /\ Len(stream[q]) \in Nat
              BY <1>0
            <7>3. received'[q] + Len(stream'[q])
                    = (received[q] + 1) + (Len(stream[q]) - 1)
              BY <4>0
            <7>4. \A a, b \in Nat : (a + 1) + (b - 1) = a + b
              OBVIOUS
            <7> QED
              BY <7>1, <7>2, <7>3, <7>4
          <6> QED
            BY <2>1, <5>1, <6>2, <6>3 DEF Items
        <5>2. CASE future[q] \notin Answered
          <6>1. TextItems(stream[q], received[q])
                /\ published[q] = received[q] + Len(stream[q])
            BY <3>1, <5>2 DEF Items
          <6>2. TextItems(stream'[q], received'[q])
            BY <3>1, <3>2, <4>1, <4>2, <6>1
          <6>3. published[q] = received'[q] + Len(stream'[q])
            BY <1>0, <4>0, <6>1
          <6> QED
            BY <2>1, <5>2, <6>2, <6>3 DEF Items
        <5> QED
          BY <5>1, <5>2
      <4> QED
        BY <1>0, <2>1, <2>2, <2>4, <4>1, <4>3 DEF Streamed, Suspended
    <3>4. CASE Head(stream[q]) = End
      <4>1. /\ caller'[q] = IF future[q] = "exception" THEN "error" ELSE "result"
            /\ received'[q] = received[q]
        BY <1>0, <1>10, <2>4, <3>4 DEF Receive, TypeOK
      <4>2. future[q] \in Answered /\ Len(stream[q]) = 1 /\ published[q] = received[q]
        <5>1. future[q] \in Answered
          BY <1>0, <3>1, <3>2, <3>4 DEF Items, End
        <5> QED
          <6>1. EndedItems(stream[q], received[q])
                /\ published[q] + 1 = received[q] + Len(stream[q])
            BY <3>1, <5>1 DEF Items
          <6>2. Len(stream[q]) = 1
            BY <3>2, <3>4, <6>1
          <6> QED
            BY <1>0, <5>1, <6>1, <6>2
      <4>3. caller'[q] = "result" => received[q] = text[q]
        BY <1>0, <2>1, <2>4, <4>1, <4>2 DEF Streamed, Answered, Suspended
      <4>4. caller'[q] \notin Suspended \cup {"new"}
        BY <4>1 DEF Suspended
      <4> QED
        BY <1>0, <2>1, <2>2, <2>4, <4>1, <4>2, <4>3, <4>4 DEF Streamed
    <3> QED
      BY <3>3, <3>4
  <2> QED
    BY <2>3, <2>4
<1>11. ASSUME NEW r \in Requests, Timeout(r) \/ HangUp(r) PROVE Streamed(q)'
  <2>1. /\ UNCHANGED <<pc, running, text, published, received, stream>>
        /\ caller' = [caller EXCEPT ![r] = caller'[r]]
        /\ caller'[r] \in {"timeout", "hungup"}
        /\ future'[q] = future[q]
        /\ Abandon(r) \/ UNCHANGED queue
    BY <1>0, <1>11 DEF Timeout, HangUp, Forsake, TypeOK
  <2>2. Queued' \subseteq Queued
    <3>1. queue \in Seq(Requests) /\ Distinct(queue)
      BY <1>0 DEF IInv, TypeOK, OnePlace
    <3> QED
      BY <2>1, <3>1, AbandonEffect DEF Queued
  <2>3. CASE q # r
    BY <1>0, <2>1, <2>2, <2>3, Untouched DEF TypeOK
  <2>4. CASE q = r
    BY <1>0, <2>1, <2>2, <2>4 DEF Streamed, Suspended
  <2> QED
    BY <2>3, <2>4
<1> QED
  BY <1>1, <1>2, <1>3, <1>4, <1>5, <1>6, <1>7, <1>8, <1>9, <1>10, <1>11 DEF Next

LEMMA GivenAlways == Spec => [](IInv /\ Given)
<1>1. IInv /\ Given /\ [Next]_vars => Given'
  BY ToldStep, StreamedStep, RequestsAssumption DEF Given
<1> QED
  BY <1>1, GivenInit, Invariance, PTL DEF Spec

-----------------------------------------------------------------------------
(* What follows for every instance *)

\* The items of a stream are the tokens that follow what its consumer has, in
\* order and without a gap, and the sentinel is there when it is answered.
THEOREM StreamsExact == Spec => []StreamExact
<1>1. IInv /\ Given => StreamExact
  <2> SUFFICES ASSUME IInv, Given, NEW r \in Streaming, caller[r] \in Suspended
               PROVE  LET ends == {i \in 1 .. Len(stream[r]) : stream[r][i] = End}
                      IN  /\ ends \subseteq {Len(stream[r])}
                          /\ \A i \in 1 .. Len(stream[r]) : i \notin ends =>
                                  stream[r][i] = received[r] + i
                          /\ ends # {} <=> future[r] \in {"result", "exception"}
    BY DEF StreamExact
  <2>1. /\ stream[r] \in Seq(Nat) /\ Len(stream[r]) \in Nat /\ received[r] \in Nat
        /\ Items(r)
    BY RequestsAssumption DEF IInv, TypeOK, Given, Streamed
  <2>2. CASE future[r] \in Answered
    <3>1. EndedItems(stream[r], received[r])
      BY <2>1, <2>2 DEF Items
    <3> DEFINE n == Len(stream[r])
    <3>2. /\ n \in Nat /\ n > 0 /\ stream[r][n] = End
          /\ \A i \in 1 .. n - 1 : stream[r][i] = received[r] + i
      BY <2>1, <3>1 DEF EndedItems
    <3>3. \A i \in 1 .. n : stream[r][i] = End <=> i = n
      <4> HIDE DEF n
      <4>1. \A i \in 1 .. n - 1 : received[r] + i # 0
        BY <2>1, <3>2
      <4>2. \A i \in 1 .. n : i \in 1 .. n - 1 \/ i = n
        BY <3>2
      <4> QED
        BY <3>2, <4>1, <4>2 DEF End
    <3>4. {i \in 1 .. n : stream[r][i] = End} = {n}
      BY <3>2, <3>3
    <3>5. \A i \in 1 .. n : i # n => stream[r][i] = received[r] + i
      BY <3>2
    <3> QED
      BY <2>2, <3>4, <3>5 DEF Answered
  <2>3. CASE future[r] \notin Answered
    BY <2>1, <2>3 DEF Items, TextItems, Answered, End
  <2> QED
    BY <2>2, <2>3
<1> QED
  BY <1>1, GivenAlways, PTL

\* A caller who got a result asked for a sequence that ran to its own end, and
\* a stream's consumer was given all of its text.
THEOREM AnswersWhole == Spec => []AnswerIsWhole
<1>1. IInv /\ Given => AnswerIsWhole
  <2> SUFFICES ASSUME IInv, Given, NEW r \in Requests, caller[r] = "result"
               PROVE  /\ finish[r] \in {"stop", "length"}
                      /\ r \in Streaming => received[r] = text[r]
    BY DEF AnswerIsWhole
  <2>1. finish[r] \in {"stop", "length"}
    BY DEF IInv, TypeOK, Reasons, Given, Told
  <2> QED
    BY <2>1 DEF Given, Streamed
<1> QED
  BY <1>1, GivenAlways, PTL
=============================================================================
