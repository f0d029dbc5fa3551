---------------------------- MODULE GatewayProofs ----------------------------
(***************************************************************************)
(* What holds of the gateway for every number of requests, workers and     *)
(* slots: the accounting of slots and in-flight counts is exact, and a     *)
(* scan never passes over a better worker it could have seen.              *)
(***************************************************************************)
EXTENDS Gateway, FiniteSetTheorems, TLAPS

\* Where a goroutine stands determines what its scan has done: nothing before
\* Acquire, a worker to look at while it reads a load, a worker chosen once it
\* has been charged; and a request that reached a worker was not refused.
ScanPhases ==
    \A r \in Requests :
        /\ at[r] \in {"idle", "acquire"} => next[r] = 1 /\ best[r] = None
        /\ at[r] = "load" => next[r] \in Workers
        /\ at[r] \in {"call", "cut", "done"} => best[r] \in Workers
        /\ at[r] = "done" => outcome[r] # "no_workers"

\* The inductive invariant.
GInv ==
    /\ TypeOK
    /\ ScanPhases
    /\ SlotsConserved
    /\ InflightConserved
    /\ NoneBetterPassedOver

\* A set of requests that gains or loses one member: its count moves by one.
LEMMA CountMoves ==
    ASSUME NEW S \in SUBSET Requests, NEW r \in Requests
    PROVE  /\ Cardinality(S) \in Nat
           /\ r \notin S => Cardinality(S \cup {r}) = Cardinality(S) + 1
           /\ r \in S => Cardinality(S) > 0
           /\ r \in S => Cardinality(S \ {r}) = Cardinality(S) - 1
<1>1. IsFiniteSet(S)
  BY GatewayAssumption, FS_Subset
<1>2. Cardinality(S) \in Nat
  BY <1>1, FS_CardinalityType
<1>3. r \notin S => Cardinality(S \cup {r}) = Cardinality(S) + 1
  BY <1>1, FS_AddElement
<1>4. r \in S => Cardinality(S \ {r}) = Cardinality(S) - 1
  BY <1>1, FS_RemoveElement
<1>5. r \in S => Cardinality(S) > 0
  <2>1. ASSUME r \in S PROVE Cardinality(S \ {r}) \in Nat
    BY <1>1, FS_Subset, FS_CardinalityType
  <2> QED
    BY <2>1, <1>2, <1>4
<1> QED
  BY <1>2, <1>3, <1>4, <1>5

\* What the accounting allows a handler to give back: the slot it holds is
\* counted, and so is the call it has at its worker.
LEMMA Counted ==
    ASSUME GInv, NEW r \in Requests
    PROVE  /\ r \in Holding => slots > 0
           /\ at[r] \in {"call", "cut", "done"} =>
                /\ best[r] \in Workers
                /\ inflight[best[r]] > 0
<1>1. r \in Holding => Cardinality(Holding) > 0
  BY CountMoves DEF Holding
<1>2. ASSUME at[r] \in {"call", "cut", "done"}
      PROVE  best[r] \in Workers /\ inflight[best[r]] > 0
  <2>1. best[r] \in Workers
    BY <1>2 DEF GInv, ScanPhases
  <2>2. r \in Charged(best[r]) /\ Charged(best[r]) \subseteq Requests
    BY <1>2 DEF Charged
  <2>3. Cardinality(Charged(best[r])) > 0
    BY <2>2, CountMoves
  <2> QED
    BY <2>1, <2>3 DEF GInv, InflightConserved
<1> QED
  BY <1>1, <1>2 DEF GInv, SlotsConserved

\* The initial states satisfy the invariant.
LEMMA GInit == Init => GInv
<1> SUFFICES ASSUME Init PROVE GInv
  OBVIOUS
<1>1. TypeOK
  <2>1. slots \in 0 .. MaxInflight /\ inflight \in [Workers -> Nat]
    BY GatewayAssumption DEF Init
  <2>2. healthy \in [Workers -> BOOLEAN] /\ up \in [Workers -> BOOLEAN]
    BY DEF Init
  <2>3. next \in [Requests -> 1 .. NumWorkers + 1]
    BY GatewayAssumption DEF Init
  <2>4. probe \in [doing : {"ask", "store", "wait", "off"},
                  worker : Workers, ready : BOOLEAN]
    BY GatewayAssumption DEF Init, Workers
  <2> QED
    BY <2>1, <2>2, <2>3, <2>4 DEF Init, TypeOK, None, Places, Outcomes
<1>2. ScanPhases
  BY DEF Init, ScanPhases, Workers
<1>3. Holding = {} /\ \A w \in Workers : Charged(w) = {}
  BY DEF Init, Holding, Charged
<1>4. SlotsConserved /\ InflightConserved
  BY <1>3, FS_EmptySet DEF Init, SlotsConserved, InflightConserved
<1>5. NoneBetterPassedOver
  BY DEF Init, NoneBetterPassedOver, KeepsTheBest, RefusesForWant
<1> QED
  BY <1>1, <1>2, <1>4, <1>5 DEF GInv

\* Every step keeps the types.  Only Release and Done need the accounting:
\* slots and loads stay at or above zero because what they give back was
\* counted.
LEMMA GTypeStep ==
    ASSUME GInv, [Next]_vars
    PROVE  TypeOK'
<1> USE DEF GInv
<1>1. ASSUME NEW r \in Requests, Begin(r) PROVE TypeOK'
  BY <1>1 DEF Begin, TypeOK, poolVars, worldVars, pickVars, Places, Outcomes
<1>2. ASSUME NEW r \in Requests, Acquire(r) PROVE TypeOK'
  BY <1>2, GatewayAssumption DEF Acquire, TypeOK, worldVars, pickVars, Places,
     Outcomes
<1>3. ASSUME NEW r \in Requests, ReadHealth(r) PROVE TypeOK'
  <2>1. next' \in [Requests -> 1 .. NumWorkers + 1]
    <3>1. next[r] \in Workers => next[r] + 1 \in 1 .. NumWorkers + 1
      BY GatewayAssumption DEF Workers
    <3> QED
      BY <1>3, <3>1 DEF ReadHealth, TypeOK
  <2>2. at' \in [Requests -> Places]
    BY <1>3 DEF ReadHealth, TypeOK, Places
  <2> QED
    BY <1>3, <2>1, <2>2 DEF ReadHealth, TypeOK, poolVars, worldVars
<1>4. ASSUME NEW r \in Requests, ReadLoad(r) PROVE TypeOK'
  <2>1. next[r] \in Workers
    BY <1>4 DEF ReadLoad, ScanPhases
  <2>2. next' \in [Requests -> 1 .. NumWorkers + 1]
    BY <1>4, <2>1, GatewayAssumption DEF ReadLoad, TypeOK, Workers
  <2>3. /\ best' \in [Requests -> Workers \cup {None}]
        /\ bestLoad' \in [Requests -> Nat]
    BY <1>4, <2>1 DEF ReadLoad, TypeOK
  <2>4. at' \in [Requests -> Places]
    BY <1>4 DEF ReadLoad, TypeOK, Places
  <2> QED
    BY <1>4, <2>2, <2>3, <2>4 DEF ReadLoad, TypeOK, poolVars, worldVars
<1>5. ASSUME NEW r \in Requests, Dispatch(r) PROVE TypeOK'
  BY <1>5 DEF Dispatch, TypeOK, worldVars, pickVars, Places, Outcomes,
     Disturb, None
<1>6. ASSUME NEW r \in Requests, Succeed(r) PROVE TypeOK'
  BY <1>6 DEF Succeed, TypeOK, poolVars, worldVars, pickVars, Places, Outcomes
<1>7. ASSUME NEW r \in Requests, Fail(r) PROVE TypeOK'
  BY <1>7 DEF Fail, TypeOK, poolVars, worldVars, pickVars, Places, Outcomes
<1>8. ASSUME NEW r \in Requests, Done(r) PROVE TypeOK'
  <2>1. best[r] \in Workers /\ inflight[best[r]] > 0
    BY <1>8, Counted DEF Done
  <2>2. inflight' \in [Workers -> Nat]
    BY <1>8, <2>1 DEF Done, TypeOK
  <2> QED
    BY <1>8, <2>2 DEF Done, TypeOK, worldVars, pickVars, Places, Disturb
<1>9. ASSUME NEW r \in Requests, Release(r) PROVE TypeOK'
  <2>1. r \in Holding
    BY <1>9 DEF Release, Holding
  <2>2. slots' \in 0 .. MaxInflight
    BY <1>9, <2>1, Counted, GatewayAssumption DEF Release, TypeOK
  <2> QED
    BY <1>9, <2>2 DEF Release, TypeOK, worldVars, pickVars, Places
<1>10. ASSUME Probe \/ Store \/ Tick \/ StopProbing PROVE TypeOK'
  <2>1. probe' \in [doing : {"ask", "store", "wait", "off"},
                   worker : Workers, ready : BOOLEAN]
    <3>0. /\ 1 \in Workers
          /\ probe.worker < NumWorkers => probe.worker + 1 \in Workers
      BY GatewayAssumption DEF TypeOK, Workers
    <3>1. ASSUME Probe
          PROVE  \E ready \in BOOLEAN :
                    probe' = [probe EXCEPT !.doing = "store", !.ready = ready]
      BY <3>1 DEF Probe
    <3>2. CASE Store
      BY <3>0, <3>2 DEF Store, TypeOK
    <3>3. CASE Tick \/ StopProbing
      BY <3>0, <3>3 DEF Tick, StopProbing, TypeOK
    <3> QED
      BY <1>10, <3>1, <3>2, <3>3 DEF TypeOK
  <2>2. /\ healthy' \in [Workers -> BOOLEAN]
        /\ calm' \in [Requests -> SUBSET Workers]
    <3>1. CASE Store
      <4>1. probe.ready \in BOOLEAN
        BY DEF TypeOK
      <4> QED
        BY <3>1, <4>1 DEF Store, TypeOK, Disturb
    <3>2. CASE Probe \/ Tick \/ StopProbing
      BY <3>2 DEF Probe, Tick, StopProbing, TypeOK, poolVars
    <3> QED
      BY <1>10, <3>1, <3>2
  <2> QED
    BY <1>10, <2>1, <2>2 DEF Probe, Store, Tick, StopProbing, TypeOK,
       poolVars, worldVars, pickVars
<1>11. ASSUME NEW w \in Workers, Crash(w) \/ Restart(w) PROVE TypeOK'
  BY <1>11 DEF Crash, Restart, TypeOK, poolVars, pickVars, Places
<1>12. ASSUME Signal \/ CloseListener PROVE TypeOK'
  BY <1>12 DEF Signal, CloseListener, TypeOK, poolVars, pickVars
<1>13. ASSUME UNCHANGED vars PROVE TypeOK'
  BY <1>13 DEF TypeOK, vars, poolVars, worldVars, pickVars
<1> QED
  BY <1>1, <1>2, <1>3, <1>4, <1>5, <1>6, <1>7, <1>8, <1>9, <1>10, <1>11,
     <1>12, <1>13 DEF Next

\* Every step leaves each scan consistent with where its goroutine stands.
LEMMA PhasesStep ==
    ASSUME GInv, [Next]_vars
    PROVE  ScanPhases'
<1> USE DEF GInv, ScanPhases, TypeOK
<1>1. ASSUME NEW r \in Requests,
             \/ Begin(r) \/ Acquire(r) \/ Succeed(r) \/ Fail(r)
             \/ Done(r) \/ Release(r)
      PROVE  ScanPhases'
  BY <1>1 DEF Begin, Acquire, Succeed, Fail, Done, Release, pickVars
<1>2. ASSUME NEW r \in Requests, ReadHealth(r) PROVE ScanPhases'
  BY <1>2 DEF ReadHealth
<1>3. ASSUME NEW r \in Requests, ReadLoad(r) PROVE ScanPhases'
  BY <1>3 DEF ReadLoad
<1>4. ASSUME NEW r \in Requests, Dispatch(r) PROVE ScanPhases'
  BY <1>4 DEF Dispatch, pickVars
<1>5. ASSUME NEW w \in Workers, Crash(w) PROVE ScanPhases'
  BY <1>5 DEF Crash, pickVars
<1>6. ASSUME UNCHANGED <<at, pickVars, outcome>> PROVE ScanPhases'
  BY <1>6 DEF pickVars
<1>7. ASSUME \/ Probe \/ Store \/ Tick \/ StopProbing
             \/ \E w \in Workers : Restart(w)
             \/ Signal \/ CloseListener
             \/ UNCHANGED vars
      PROVE  UNCHANGED <<at, pickVars, outcome>>
  BY <1>7 DEF Probe, Store, Tick, StopProbing, Restart, Signal,
     CloseListener, vars
<1> QED
  BY <1>1, <1>2, <1>3, <1>4, <1>5, <1>6, <1>7 DEF Next

\* A slot is taken when a goroutine starts to hold one and freed when it
\* stops: the other steps move it between two places that both hold.
LEMMA SlotsStep ==
    ASSUME GInv, [Next]_vars
    PROVE  SlotsConserved'
<1> USE DEF GInv, TypeOK, SlotsConserved
<1>1. ASSUME NEW r \in Requests, Acquire(r) PROVE SlotsConserved'
  <2>1. CASE slots < MaxInflight
    <3>1. Holding' = Holding \cup {r} /\ r \notin Holding
      BY <1>1, <2>1, GatewayAssumption DEF Acquire, Holding
    <3>2. Holding \in SUBSET Requests
      BY DEF Holding
    <3> QED
      BY <1>1, <2>1, <3>1, <3>2, CountMoves, GatewayAssumption DEF Acquire
  <2>2. CASE slots >= MaxInflight
    <3>1. Holding' = Holding
      BY <1>1, <2>2, GatewayAssumption DEF Acquire, Holding
    <3> QED
      BY <1>1, <2>2, <3>1, GatewayAssumption DEF Acquire
  <2> QED
    BY <2>1, <2>2, <1>1 DEF Acquire
<1>2. ASSUME NEW r \in Requests, Release(r) PROVE SlotsConserved'
  <2>1. Holding' = Holding \ {r} /\ r \in Holding
    BY <1>2 DEF Release, Holding
  <2>2. Holding \in SUBSET Requests
    BY DEF Holding
  <2> QED
    BY <1>2, <2>1, <2>2, CountMoves DEF Release
<1>3. ASSUME UNCHANGED slots, Holding' = Holding PROVE SlotsConserved'
  BY <1>3
<1>4. ASSUME NEW r \in Requests,
             \/ Begin(r) \/ ReadHealth(r) \/ ReadLoad(r) \/ Dispatch(r)
             \/ Succeed(r) \/ Fail(r) \/ Done(r)
      PROVE  UNCHANGED slots /\ Holding' = Holding
  BY <1>4 DEF Begin, ReadHealth, ReadLoad, Dispatch, Succeed, Fail, Done,
     poolVars, Holding
<1>5. ASSUME NEW w \in Workers, Crash(w)
      PROVE  UNCHANGED slots /\ Holding' = Holding
  BY <1>5 DEF Crash, poolVars, Holding
<1>6. ASSUME \/ Probe \/ Store \/ Tick \/ StopProbing
             \/ \E w \in Workers : Restart(w)
             \/ Signal \/ CloseListener
             \/ UNCHANGED vars
      PROVE  UNCHANGED slots /\ Holding' = Holding
  BY <1>6 DEF Probe, Store, Tick, StopProbing, Restart, Signal,
     CloseListener, vars, poolVars, Holding
<1> QED
  BY <1>1, <1>2, <1>3, <1>4, <1>5, <1>6 DEF Next

\* A load is raised when a request becomes charged to the worker and lowered
\* when it no longer is; every other step leaves both alone.
LEMMA InflightStep ==
    ASSUME GInv, [Next]_vars
    PROVE  InflightConserved'
<1> USE DEF GInv, TypeOK, InflightConserved
<1> SUFFICES ASSUME NEW w \in Workers
             PROVE  inflight'[w] = Cardinality(Charged(w)')
  OBVIOUS
<1>0. Charged(w) \in SUBSET Requests
  BY DEF Charged
<1>1. ASSUME NEW r \in Requests, Dispatch(r), best[r] = w
      PROVE  inflight'[w] = Cardinality(Charged(w)')
  <2>1. best[r] # None
    BY <1>1 DEF Workers, None
  <2>2. Charged(w)' = Charged(w) \cup {r} /\ r \notin Charged(w)
    BY <1>1, <2>1 DEF Dispatch, pickVars, Charged
  <2>3. inflight'[w] = inflight[w] + 1
    BY <1>1, <2>1 DEF Dispatch
  <2> QED
    BY <1>0, <2>2, <2>3, CountMoves
<1>2. ASSUME NEW r \in Requests, Done(r), best[r] = w
      PROVE  inflight'[w] = Cardinality(Charged(w)')
  <2>1. Charged(w)' = Charged(w) \ {r} /\ r \in Charged(w)
    BY <1>2 DEF Done, pickVars, Charged
  <2>2. inflight'[w] = inflight[w] - 1
    BY <1>2 DEF Done
  <2> QED
    BY <1>0, <2>1, <2>2, CountMoves
<1>3. ASSUME inflight'[w] = inflight[w], Charged(w)' = Charged(w)
      PROVE  inflight'[w] = Cardinality(Charged(w)')
  BY <1>3
<1>4. ASSUME NEW r \in Requests, Dispatch(r) \/ Done(r), best[r] # w
      PROVE  inflight'[w] = inflight[w] /\ Charged(w)' = Charged(w)
  BY <1>4 DEF Dispatch, Done, pickVars, Charged, None
<1>5. ASSUME NEW r \in Requests,
             Begin(r) \/ Acquire(r) \/ Succeed(r) \/ Fail(r) \/ Release(r)
      PROVE  inflight'[w] = inflight[w] /\ Charged(w)' = Charged(w)
  BY <1>5 DEF Begin, Acquire, Succeed, Fail, Release, poolVars, pickVars,
     Charged
<1>6. ASSUME NEW r \in Requests, ReadHealth(r) \/ ReadLoad(r)
      PROVE  inflight'[w] = inflight[w] /\ Charged(w)' = Charged(w)
  BY <1>6 DEF ReadHealth, ReadLoad, poolVars, Charged
<1>7. ASSUME NEW v \in Workers, Crash(v)
      PROVE  inflight'[w] = inflight[w] /\ Charged(w)' = Charged(w)
  BY <1>7 DEF Crash, poolVars, pickVars, Charged
<1>8. ASSUME \/ Probe \/ Store \/ Tick \/ StopProbing
             \/ \E v \in Workers : Restart(v)
             \/ Signal \/ CloseListener
             \/ UNCHANGED vars
      PROVE  inflight'[w] = inflight[w] /\ Charged(w)' = Charged(w)
  BY <1>8 DEF Probe, Store, Tick, StopProbing, Restart, Signal,
     CloseListener, vars, poolVars, pickVars, Charged
<1> QED
  BY <1>1, <1>2, <1>3, <1>4, <1>5, <1>6, <1>7, <1>8 DEF Next

\* The scan: a worker it has passed was unhealthy, or no better than the one
\* it holds; a worker whose health or load changes is no longer calm, so the
\* claim is about the others.
LEMMA BestStep ==
    ASSUME GInv, [Next]_vars
    PROVE  KeepsTheBest'
<1> USE DEF GInv, TypeOK, NoneBetterPassedOver, KeepsTheBest
<1>1. ASSUME NEW r \in Requests, Acquire(r) PROVE KeepsTheBest'
  <2>1. next[r] = 1
    BY <1>1 DEF Acquire, ScanPhases
  <2>2. at'[r] \in {"scan", "load"} => \A w \in calm'[r] : ~(w < next'[r])
    BY <1>1, <2>1, GatewayAssumption DEF Acquire, pickVars, Workers
  <2>3. ASSUME NEW q \in Requests, q # r
        PROVE  UNCHANGED <<at[q], calm[q]>>
    BY <1>1, <2>3 DEF Acquire
  <2> QED
    BY <1>1, <2>2, <2>3 DEF Acquire, pickVars
<1>2. ASSUME NEW r \in Requests, ReadHealth(r) PROVE KeepsTheBest'
  <2> SUFFICES ASSUME NEW q \in Requests, at'[q] \in {"scan", "load"},
                      NEW w \in calm'[q], w < next'[q], healthy'[w]
               PROVE  best'[q] # None /\ bestLoad'[q] <= inflight'[w]
    OBVIOUS
  <2>1. w \in calm[q] /\ w \in Workers /\ healthy[w] /\ at[q] \in {"scan", "load"}
    BY <1>2 DEF ReadHealth, poolVars
  <2>2. w < next[q]
    BY <1>2, <2>1 DEF ReadHealth, poolVars, Workers
  <2>3. best[q] # None /\ bestLoad[q] <= inflight[w]
    BY <2>1, <2>2
  <2> QED
    BY <1>2, <2>3 DEF ReadHealth, poolVars
<1>3. ASSUME NEW r \in Requests, ReadLoad(r) PROVE KeepsTheBest'
  <2> SUFFICES ASSUME NEW q \in Requests, at'[q] \in {"scan", "load"},
                      NEW w \in calm'[q], w < next'[q], healthy'[w]
               PROVE  best'[q] # None /\ bestLoad'[q] <= inflight'[w]
    OBVIOUS
  <2>1. w \in calm[q] /\ w \in Workers /\ healthy[w] /\ at[q] \in {"scan", "load"}
    BY <1>3 DEF ReadLoad, poolVars
  <2>2. CASE q # r
    BY <1>3, <2>1, <2>2 DEF ReadLoad, poolVars
  <2>3. CASE q = r
    <3>1. next[r] \in Workers
      BY <1>3 DEF ReadLoad, ScanPhases
    <3>2. w < next[r] \/ w = next[r]
      BY <1>3, <2>1, <2>3, <3>1 DEF ReadLoad, Workers
    <3>3. w < next[r] => best[r] # None /\ bestLoad[r] <= inflight[w]
      BY <2>1, <2>3
    <3>4. CASE best[r] = None \/ inflight[next[r]] < bestLoad[r]
      <4>1. best'[r] = next[r] /\ bestLoad'[r] = inflight[next[r]]
        BY <1>3, <3>4 DEF ReadLoad
      <4>2. inflight[next[r]] <= inflight[w]
        BY <3>1, <3>2, <3>3, <3>4, <2>1 DEF Workers
      <4> QED
        BY <1>3, <2>3, <3>1, <4>1, <4>2 DEF ReadLoad, poolVars, Workers, None
    <3>5. CASE ~(best[r] = None \/ inflight[next[r]] < bestLoad[r])
      <4>1. best'[r] = best[r] /\ bestLoad'[r] = bestLoad[r]
        BY <1>3, <3>5 DEF ReadLoad
      <4>2. bestLoad[r] <= inflight[w]
        BY <3>1, <3>2, <3>3, <3>5, <2>1
      <4> QED
        BY <1>3, <2>3, <3>5, <4>1, <4>2 DEF ReadLoad, poolVars
    <3> QED
      BY <3>4, <3>5
  <2> QED
    BY <2>2, <2>3
<1>4. ASSUME NEW r \in Requests, Dispatch(r) \/ Done(r)
      PROVE  KeepsTheBest'
  <2> SUFFICES ASSUME NEW q \in Requests, at'[q] \in {"scan", "load"},
                      NEW w \in calm'[q], w < next'[q], healthy'[w]
               PROVE  best'[q] # None /\ bestLoad'[q] <= inflight'[w]
    OBVIOUS
  <2>1. /\ at[q] \in {"scan", "load"}
        /\ UNCHANGED <<healthy, next, best, bestLoad>>
    BY <1>4 DEF Dispatch, Done, pickVars
  <2>2. w \in calm[q] /\ w \in Workers /\ inflight'[w] = inflight[w]
    BY <1>4 DEF Dispatch, Done, Disturb
  <2> QED
    BY <2>1, <2>2
<1>5. ASSUME Store PROVE KeepsTheBest'
  <2> SUFFICES ASSUME NEW q \in Requests, at'[q] \in {"scan", "load"},
                      NEW w \in calm'[q], w < next'[q], healthy'[w]
               PROVE  best'[q] # None /\ bestLoad'[q] <= inflight'[w]
    OBVIOUS
  <2>1. UNCHANGED <<at, inflight, next, best, bestLoad>>
    BY <1>5 DEF Store, pickVars
  <2>2. w \in calm[q] /\ w \in Workers /\ healthy[w]
    BY <1>5 DEF Store, Disturb
  <2> QED
    BY <2>1, <2>2
<1>6. ASSUME NEW w \in Workers, Crash(w) PROVE KeepsTheBest'
  BY <1>6 DEF Crash, poolVars, pickVars
<1>7. ASSUME NEW r \in Requests, Begin(r) \/ Succeed(r) \/ Fail(r) \/ Release(r)
      PROVE  KeepsTheBest'
  BY <1>7 DEF Begin, Succeed, Fail, Release, poolVars, pickVars
<1>8. ASSUME \/ Probe \/ Tick \/ StopProbing
             \/ \E w \in Workers : Restart(w)
             \/ Signal \/ CloseListener
             \/ UNCHANGED vars
      PROVE  UNCHANGED <<at, inflight, healthy, pickVars, calm>>
  BY <1>8 DEF Probe, Tick, StopProbing, Restart, Signal, CloseListener,
     vars, poolVars
<1>9. ASSUME UNCHANGED <<at, inflight, healthy, pickVars, calm>>
      PROVE  KeepsTheBest'
  BY <1>9 DEF pickVars
<1> QED
  BY <1>1, <1>2, <1>3, <1>4, <1>5, <1>6, <1>7, <1>8, <1>9 DEF Next

\* A refusal: the scan has passed every worker and holds none, so none of the
\* calm ones is healthy; one that turns healthy afterwards is calm no more.
LEMMA RefusalStep ==
    ASSUME GInv, [Next]_vars
    PROVE  RefusesForWant'
<1> USE DEF GInv, TypeOK, NoneBetterPassedOver, RefusesForWant
<1>1. ASSUME NEW r \in Requests, Dispatch(r) PROVE RefusesForWant'
  <2> SUFFICES ASSUME NEW q \in Requests, at'[q] = "release",
                      outcome'[q] = "no_workers", NEW w \in calm'[q]
               PROVE  ~healthy'[w]
    OBVIOUS
  <2>1. w \in calm[q] /\ w \in Workers /\ healthy' = healthy
    BY <1>1 DEF Dispatch, Disturb
  <2>2. CASE q = r
    <3>1. at[r] = "scan" /\ best[r] = None
      BY <1>1, <2>2 DEF Dispatch
    <3>2. w < next[r]
      BY <1>1, <2>1, GatewayAssumption DEF Dispatch, Workers
    <3> QED
      BY <2>1, <2>2, <3>1, <3>2 DEF KeepsTheBest
  <2>3. CASE q # r
    BY <1>1, <2>1, <2>3 DEF Dispatch
  <2> QED
    BY <2>2, <2>3
<1>2. ASSUME NEW r \in Requests, Done(r) PROVE RefusesForWant'
  <2>1. /\ outcome'[r] # "no_workers"
        /\ UNCHANGED <<outcome, healthy>>
        /\ \A q \in Requests : q # r => at'[q] = at[q]
    BY <1>2 DEF Done, ScanPhases
  <2>2. \A q \in Requests : calm'[q] \subseteq calm[q]
    BY <1>2 DEF Done, Disturb
  <2> QED
    BY <2>1, <2>2
<1>3. ASSUME Store PROVE RefusesForWant'
  <2> SUFFICES ASSUME NEW q \in Requests, at'[q] = "release",
                      outcome'[q] = "no_workers", NEW w \in calm'[q]
               PROVE  ~healthy'[w]
    OBVIOUS
  <2>1. w \in calm[q] /\ w \in Workers /\ healthy'[w] = healthy[w]
    BY <1>3 DEF Store, Disturb
  <2> QED
    BY <1>3, <2>1 DEF Store
<1>4. ASSUME NEW r \in Requests,
             \/ Begin(r) \/ Acquire(r) \/ ReadHealth(r) \/ ReadLoad(r)
             \/ Succeed(r) \/ Fail(r) \/ Release(r)
      PROVE  RefusesForWant'
  BY <1>4 DEF Begin, Acquire, ReadHealth, ReadLoad, Succeed, Fail, Release,
     poolVars
<1>5. ASSUME NEW w \in Workers, Crash(w) PROVE RefusesForWant'
  BY <1>5 DEF Crash, poolVars
<1>6. ASSUME \/ Probe \/ Tick \/ StopProbing
             \/ \E w \in Workers : Restart(w)
             \/ Signal \/ CloseListener
             \/ UNCHANGED vars
      PROVE  UNCHANGED <<at, outcome, healthy, calm>>
  BY <1>6 DEF Probe, Tick, StopProbing, Restart, Signal, CloseListener,
     vars, poolVars
<1>7. ASSUME UNCHANGED <<at, outcome, healthy, calm>> PROVE RefusesForWant'
  BY <1>7
<1> QED
  BY <1>1, <1>2, <1>3, <1>4, <1>5, <1>6, <1>7 DEF Next

\* The invariant holds in every reachable state.
THEOREM GatewayInvariance == Spec => []GInv
<1>1. GInv /\ [Next]_vars => GInv'
  BY GTypeStep, PhasesStep, SlotsStep, InflightStep, BestStep,
     RefusalStep DEF GInv, NoneBetterPassedOver
<1> QED
  BY GInit, <1>1, PTL DEF Spec

\* The gateway's state is well typed; no load is ever negative, and no more
\* slots are taken than there are.
THEOREM GatewayTypes == Spec => []TypeOK
<1>1. GInv => TypeOK
  BY DEF GInv
<1> QED
  BY GatewayInvariance, <1>1, PTL

\* pool.go Acquire and its release(): whatever path handleCompletions takes,
\* the semaphore counts the handlers between the two.
THEOREM SlotsNeverLeak == Spec => []SlotsConserved
<1>1. GInv => SlotsConserved
  BY DEF GInv
<1> QED
  BY GatewayInvariance, <1>1, PTL

\* pool.go Pick and its done(): a worker's load is the number of handlers that
\* have it picked, even when its process crashed under them.
THEOREM LoadsNeverLeak == Spec => []InflightConserved
<1>1. GInv => InflightConserved
  BY DEF GInv
<1> QED
  BY GatewayInvariance, <1>1, PTL

\* pool.go Pick: the scan never passes over a worker that has been healthy,
\* with a lower load, ever since the request was admitted.
THEOREM ScanTakesTheBest == Spec => []NoneBetterPassedOver
<1>1. GInv => NoneBetterPassedOver
  BY DEF GInv
<1> QED
  BY GatewayInvariance, <1>1, PTL
=============================================================================
