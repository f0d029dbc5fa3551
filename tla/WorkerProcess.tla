--------------------------- MODULE WorkerProcess ---------------------------
(***************************************************************************)
(* The life of a gRPC worker, serve() in worker/server/worker.py, around   *)
(* the scheduler of module Batcher: the batcher starts before the server   *)
(* accepts calls, and after a signal the server is drained before the      *)
(* batcher stops.  Batcher alone lets submit() and stop() come in any      *)
(* order; here is the order that keeps stop() away from waiting callers.   *)
(***************************************************************************)
EXTENDS Batcher

VARIABLE
    process     \* how far serve() has come

pvars == <<vars, process>>

Stages ==
    {"booting",     \* the model is loaded, the batcher not started
     "started",     \* the scheduler's task runs, the server does not
     "serving",     \* the server accepts calls; serve() awaits a signal
     "draining",    \* in server.stop(grace=10)
     "drained",     \* the server has stopped
     "stopping",    \* in batcher.stop()
     "exited"}

ProcessInit == Init /\ process = "booting"

StartBatcher ==
    /\ process = "booting" /\ process' = "started"
    /\ Start

\* Mutant: the server comes up before the batcher.
StartServerFirst ==
    /\ process = "booting" /\ process' = "serving"
    /\ UNCHANGED vars

StartServer ==
    /\ process = "started" /\ process' = "serving"
    /\ UNCHANGED vars

\* A call arrives: the server starts a handler for it.
Accept(r) ==
    /\ process = "serving"
    /\ Submit(r)
    /\ UNCHANGED process

\* SIGTERM or SIGINT sets the event that serve() awaits.
Drain ==
    /\ process = "serving" /\ process' = "draining"
    /\ UNCHANGED vars

\* grpc.aio: stop() returns once every call has ended.  It cancels those that
\* outlast the grace period, which is HangUp for their handlers.
ServerStopped ==
    /\ process = "draining" /\ process' = "drained"
    /\ \A r \in Requests : caller[r] \notin Suspended
    /\ UNCHANGED vars

\* Mutant: the batcher is stopped without waiting for the server.
StopBatcherFirst ==
    /\ process \in {"draining", "drained"} /\ process' = "stopping"
    /\ StopBegin

StopBatcher ==
    /\ process = "drained" /\ process' = "stopping"
    /\ StopBegin

Exit ==
    /\ process = "stopping" /\ process' = "exited"
    /\ StopFinish

\* The scheduler, its engine and the callers it has go on at every stage.
Loop == Wake \/ CloseWindow \/ Deliver \/ CompleteAll \/ FailAll

Engine == EngineStep \/ ScanKeep \/ ScanDone

Call(r) == Return(r) \/ Receive(r) \/ Resume(r)

Inside ==
    /\ \/ Loop \/ Engine \/ EngineRaises \/ Mark
       \/ \E r \in Requests : Call(r) \/ Timeout(r) \/ HangUp(r)
    /\ UNCHANGED process

ProcessNext ==
    \/ StartBatcher \/ StartServer
    \/ \E r \in Requests : Accept(r)
    \/ Drain \/ ServerStopped \/ StopBatcher \/ Exit
    \/ Inside

ProcessSpec == ProcessInit /\ [][ProcessNext]_pvars

(***************************************************************************)
(* Fairness.  asyncio runs every ready task, an engine call returns, the   *)
(* thread and the coroutine inside _abandon are not suspended for ever, a  *)
(* reader goes on reading, and serve() goes on.  Arrivals, engine errors,  *)
(* signals, deadlines and hang-ups, the end of the grace period included,  *)
(* are never forced.                                                       *)
(***************************************************************************)
ProcessFairSpec ==
    /\ ProcessSpec
    /\ WF_pvars(Loop /\ UNCHANGED process)
    /\ WF_pvars(Engine /\ UNCHANGED process)
    /\ WF_pvars(Mark /\ UNCHANGED process)
    /\ \A r \in Requests : WF_pvars(Call(r) /\ UNCHANGED process)
    /\ WF_pvars(StartBatcher \/ StartServer)
    /\ WF_pvars(ServerStopped \/ StopBatcher \/ Exit)

-----------------------------------------------------------------------------

\* Health answers ready without a look at the scheduler.  It is right all the
\* same: while the server takes calls, the scheduler's task is there.
ReadyIsTrue == process = "serving" => pc \notin {"new", "stopping", "stopped"}

\* batcher.stop() never meets a caller: the streams it gives no sentinel and
\* the futures it cancels are nobody's any more.
StopFindsNoCaller ==
    process \in {"drained", "stopping", "exited"} =>
        \A r \in Requests : caller[r] \notin Suspended

\* Every caller is answered by the scheduler itself, and a signal only ends
\* the process after that: no deadline is needed for either.
ServedToTheEnd ==
    /\ \A r \in Requests : caller[r] \in Suspended ~> caller[r] \notin Suspended
    /\ process = "draining" ~> process = "exited"
=============================================================================
