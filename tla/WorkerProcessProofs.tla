------------------------ MODULE WorkerProcessProofs ------------------------
(***************************************************************************)
(* Theorems about WorkerProcess.  A worker's life is one of the lives of   *)
(* module Batcher, so all that is proved of the scheduler holds in a       *)
(* worker; and serve() keeps the order that Batcher by itself does not.    *)
(***************************************************************************)
EXTENDS WorkerProcess, BatcherProofs

-----------------------------------------------------------------------------
(* The scheduler in its process *)

LEMMA ProcessStep == ProcessInit => Init
BY DEF ProcessInit

\* Every step of serve() and of the calls it accepts is a step of Batcher, or
\* none at all.
LEMMA StepOfBatcher == [ProcessNext]_pvars => [Next]_vars
<1> SUFFICES ASSUME [ProcessNext]_pvars PROVE [Next]_vars
  OBVIOUS
<1>1. CASE StartBatcher
  BY <1>1 DEF StartBatcher, Next
<1>2. CASE StartServer \/ Drain \/ ServerStopped
  BY <1>2 DEF StartServer, Drain, ServerStopped
<1>3. CASE \E r \in Requests : Accept(r)
  BY <1>3 DEF Accept, Next
<1>4. CASE StopBatcher \/ Exit
  BY <1>4 DEF StopBatcher, Exit, Next
<1>5. CASE Inside
  BY <1>5 DEF Inside, Loop, Engine, Call, Next
<1>6. CASE UNCHANGED pvars
  BY <1>6 DEF pvars
<1>7. QED
  BY <1>1, <1>2, <1>3, <1>4, <1>5, <1>6 DEF ProcessNext

\* A worker process is a scheduler as module Batcher has it: start() once, calls
\* after it, stop() once.
THEOREM ProcessIsBatcher == ProcessSpec => Spec
BY ProcessStep, StepOfBatcher, PTL DEF ProcessSpec, Spec

\* Hence in a worker too, nobody waits for an answer that no one will give.
THEOREM NoCallerOrphanedInProcess == ProcessSpec => []NoOrphanedCaller
BY ProcessIsBatcher, NoCallerOrphaned, PTL

\* And a worker is the service of ServiceQueue, whatever its life brings.
THEOREM ProcessServes == ProcessSpec => ServiceSpec
BY ProcessIsBatcher, ServiceImplemented, PTL

-----------------------------------------------------------------------------
(* The order of serve() *)

\* Where the scheduler is at each stage.
StageOfLoop ==
    /\ process \in Stages
    /\ process = "booting" => pc = "new"
    /\ process \in {"started", "serving", "draining", "drained"} =>
            pc \notin {"new", "stopping", "stopped"}

PInv == StageOfLoop /\ StopFindsNoCaller

LEMMA PInvInit == ProcessInit => PInv
BY DEF ProcessInit, Init, PInv, StageOfLoop, StopFindsNoCaller, Stages

\* No step that the process makes on its own brings the task to an end or a
\* caller who has left back.
LEMMA InsideStays ==
    ASSUME TypeOK, Inside
    PROVE  /\ process' = process
           /\ pc \notin {"new", "stopping", "stopped"} =>
                pc' \notin {"new", "stopping", "stopped"}
           /\ pc = "new" => pc' = "new"
           /\ \A r \in Requests : caller'[r] \in Suspended => caller[r] \in Suspended
<1>1. CASE Loop
  BY <1>1 DEF Inside, Loop, Wake, CloseWindow, Deliver, CompleteAll, FailAll, BeginTick,
        FallAsleep, OpenWindow, TakeAdmissions, AskDecode, callVars
<1>2. CASE Engine \/ EngineRaises \/ Mark
  BY <1>2 DEF Inside, Engine, EngineStep, ScanKeep, ScanDone, EngineRaises, Mark, callVars
<1>3. ASSUME NEW r \in Requests, Call(r) \/ Timeout(r) \/ HangUp(r)
      PROVE  pc' = pc /\ \A q \in Requests : caller'[q] \in Suspended => caller[q] \in Suspended
  <2>1. pc' = pc /\ caller \in [Requests -> Callers]
    BY <1>3 DEF Call, Return, Receive, Resume, Timeout, HangUp, TypeOK
  <2>2. caller[r] \in Suspended
    BY <1>3 DEF Call, Return, Receive, Resume, Timeout, HangUp, Suspended
  <2>3. \A q \in Requests : q # r => caller'[q] = caller[q]
    BY <1>3, <2>1 DEF Call, Return, Receive, Resume, Timeout, HangUp
  <2>4. QED
    BY <2>1, <2>2, <2>3
<1>4. QED
  BY <1>1, <1>2, <1>3 DEF Inside

LEMMA PInvStep ==
    ASSUME TypeOK, PInv, [ProcessNext]_pvars PROVE PInv'
<1> USE DEF PInv, StageOfLoop, StopFindsNoCaller, Stages
<1>1. CASE StartBatcher
  BY <1>1 DEF StartBatcher, Start, callVars
<1>2. CASE StartServer \/ Drain \/ ServerStopped
  BY <1>2 DEF StartServer, Drain, ServerStopped, vars, callVars
<1>3. ASSUME NEW r \in Requests, Accept(r) PROVE PInv'
  BY <1>3 DEF Accept, Submit
<1>4. CASE StopBatcher \/ Exit
  BY <1>4 DEF StopBatcher, StopBegin, Exit, StopFinish, callVars
<1>5. CASE Inside
  BY <1>5, InsideStays
<1>6. CASE UNCHANGED pvars
  BY <1>6 DEF pvars, vars, callVars
<1>7. QED
  BY <1>1, <1>2, <1>3, <1>4, <1>5, <1>6 DEF ProcessNext

LEMMA ProcessInvariance == ProcessSpec => []PInv
<1>1. ProcessSpec => []TypeOK
  BY ProcessIsBatcher, TypeCorrect, PTL
<1>2. QED
  BY <1>1, PInvInit, PInvStep, PTL DEF ProcessSpec

\* Health says ready only while the scheduler's task is there, from the first
\* call a worker takes to the last.
THEOREM HealthIsTrue == ProcessSpec => []ReadyIsTrue
<1>1. PInv => ReadyIsTrue
  BY DEF PInv, StageOfLoop, ReadyIsTrue
<1>2. QED
  BY <1>1, ProcessInvariance, PTL

\* When batcher.stop() runs, every call has ended.
THEOREM StopMeetsNobody == ProcessSpec => []StopFindsNoCaller
<1>1. PInv => StopFindsNoCaller
  BY DEF PInv
<1>2. QED
  BY <1>1, ProcessInvariance, PTL
=============================================================================
