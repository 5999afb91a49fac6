-------------------------- MODULE LifecycleProofs --------------------------
(***************************************************************************)
(* The safety of the process's life, for every size of the buffer pool and *)
(* every number of open calls: an inductive invariant that says, for each  *)
(* stage of the main thread, what exists and which threads may run.        *)
(***************************************************************************)
EXTENDS Lifecycle, TLAPS

USE BuffersAssumption, CallsAssumption

LEMMA TypeInit == Init => TypeOK
<1> SUFFICES ASSUME Init PROVE TypeOK
  OBVIOUS
<1>1. BufferTypeOK
  BY DEF Init, NoBuffers, BufferTypeOK, Loans
<1>2. main \in Stages /\ brain \subseteq Members
  BY DEF Init, Stages, Members
<1>3. open \in 0 .. MaxCalls /\ submitted \in 0 .. 1
  BY DEF Init
<1>4. /\ server = "none" /\ server_pool = "none" /\ node = "none" /\ spin = "none" /\ tick = "none"
      /\ worker = "none" /\ mode \in {"rt", "timer"}
  BY DEF Init
<1>5. /\ context \in BOOLEAN /\ rt_running \in BOOLEAN /\ stop \in BOOLEAN
      /\ g_shutdown_requested \in BOOLEAN /\ threw \in BOOLEAN
  BY DEF Init
<1>6. QED
  BY <1>1, <1>2, <1>3, <1>4, <1>5 DEF TypeOK

(* The members of the brain follow the stage of the main thread.            *)
BrainInv ==
  /\ main \in {"config", "node", "spin", "listen", "server_pool", "model", "join_pool", "context", "join_spin",
               "return", "join_tick", "exit", "crashed"} => brain = {}
  /\ main = "pool" => brain = {"model"}
  /\ main = "buffers" => brain = {"model", "pool"}
  /\ main = "state" => brain = {"model", "pool", "buffers"}
  /\ main \in {"register", "serve"} => brain = Members
  /\ main = "join_worker" => brain = {"pool"}

(* Only serving starts a tick, and only a throw ends serving.               *)
ThrowInv ==
  /\ threw => main \in {"close", "unwind", "join_worker", "join_pool", "context", "join_spin",
                        "return", "join_tick", "exit", "crashed"}
  /\ ~ threw /\ (tick # "none" \/ worker = "infer" \/ submitted # 0) => main = "serve"

(* A worker exists only in a pool, the executor only between its start and  *)
(* its join, the server only until it is closed.                            *)
ThreadInv ==
  /\ "pool" \notin brain => worker \in {"none", "done"}
  /\ main \in {"config", "node", "spin", "return", "join_tick", "exit", "crashed"}
       => spin # "running"
  /\ mode = "timer" /\ tick = "ticking" => spin = "running"
  /\ main \in {"context", "join_spin", "return", "join_tick", "exit"}
       => server # "listening"
  /\ main = "crashed" => tick \in {"none", "done"}

NodeInv ==
  /\ main \in {"config", "node"} => node = "none"
  /\ node = "none" => /\ main \in {"config", "node", "context", "join_spin", "return", "exit"}
                      /\ tick = "none" /\ spin = "none" /\ server = "none"
                      /\ worker = "none" /\ submitted = 0
  /\ node = "gone" => main = "exit" /\ (mode = "rt" => tick \in {"none", "done"})

(* What the worker does not hold is in the pool.                            *)
BufferInv ==
  /\ worker # "infer" /\ main # "crashed" => loan = "none"
  /\ "buffers" \in brain /\ worker # "infer" => free = Buffers
  /\ "buffers" \in brain /\ worker = "infer" =>
       \/ Buffers = 0 /\ free = 0 /\ loan = "temporary"
       \/ Buffers > 0 /\ free = Buffers - 1 /\ loan = "pooled"

IInv == TypeOK /\ BrainInv /\ ThrowInv /\ ThreadInv /\ NodeInv /\ BufferInv

LEMMA InitInv == Init => IInv
BY TypeInit DEF Init, NoBuffers, IInv, BrainInv, ThrowInv, ThreadInv, NodeInv, BufferInv

LEMMA StartStep == ASSUME IInv, Start PROVE IInv'
<1> USE DEF IInv, TypeOK, BrainInv, ThrowInv, ThreadInv, NodeInv, BufferInv,
            Step, callVars, rosVars, tickVars, workerVars, flagVars, bufferVars,
            BufferTypeOK, Loans, Members, Stages
<1>1. CASE LoadConfig
  BY <1>1 DEF LoadConfig
<1>2. CASE StartupThrows
  BY <1>2 DEF StartupThrows
<1>3. CASE MakeNode
  BY <1>3 DEF MakeNode
<1>4. CASE StartSpin
  BY <1>4 DEF StartSpin
<1>5. CASE Listen
  BY <1>5 DEF Listen
<1>6. CASE ListenFails
  BY <1>6 DEF ListenFails
<1>7. CASE BuildModel
  <2>1. brain' = {"model"}
    BY <1>7 DEF BuildModel
  <2>2. QED
    BY <1>7, <2>1 DEF BuildModel
<1>8. CASE BuildPool
  BY <1>8 DEF BuildPool
<1>9. CASE BuildBuffers
  BY <1>9 DEF BuildBuffers, Allocate
<1>10. CASE BuildState
  BY <1>10 DEF BuildState
<1>11. CASE Register
  BY <1>11 DEF Register
<1>12. CASE BuildThrows
  BY <1>12 DEF BuildThrows
<1>13. CASE MakePool
  BY <1>13 DEF MakePool
<1>14. CASE PoolThrows
  BY <1>14 DEF PoolThrows
<1>15. QED
  BY <1>1, <1>2, <1>3, <1>4, <1>5, <1>6, <1>7, <1>8, <1>9, <1>10, <1>11, <1>12,
     <1>13, <1>14
     DEF Start

LEMMA TakeDownStep == ASSUME IInv, TakeDown PROVE IInv'
<1> USE DEF IInv, TypeOK, BrainInv, ThrowInv, ThreadInv, NodeInv, BufferInv,
            Step, callVars, rosVars, tickVars, workerVars, flagVars, bufferVars,
            BufferTypeOK, Loans, Members, Stages
<1>1. CASE Close
  BY <1>1 DEF Close
<1>2. CASE DestroyState
  BY <1>2 DEF DestroyState
<1>3. CASE DestroyBuffers
  BY <1>3 DEF DestroyBuffers
<1>4. CASE DestroyModel
  BY <1>4 DEF DestroyModel
<1>5. CASE StopWorker
  BY <1>5 DEF StopWorker
<1>6. CASE JoinWorker
  BY <1>6 DEF JoinWorker
<1>7. CASE Unwound
  BY <1>7 DEF Unwound
<1>8. CASE ShutdownContext
  <2>1. context' \in BOOLEAN
    BY <1>8 DEF ShutdownContext
  <2>2. main = "context" /\ main' = "join_spin"
        /\ UNCHANGED <<callVars, node, spin, tickVars, brain, workerVars, flagVars>>
    BY <1>8 DEF ShutdownContext
  <2>3. QED
    BY <2>1, <2>2
<1>9. CASE JoinSpin
  BY <1>9 DEF JoinSpin
<1>10. CASE ReturnWithoutNode
  BY <1>10 DEF ReturnWithoutNode
<1>11. CASE StopTick
  <2>1. rt_running' \in BOOLEAN
    BY <1>11 DEF StopTick
  <2>2. main = "return" /\ main' = "join_tick" /\ node = "alive"
        /\ UNCHANGED <<callVars, rosVars, mode, tick, brain, workerVars, flagVars>>
    BY <1>11 DEF StopTick
  <2>3. QED
    BY <2>1, <2>2
<1>12. CASE JoinTick
  BY <1>12 DEF JoinTick
<1>13. CASE StopPool
  BY <1>13 DEF StopPool
<1>14. CASE JoinPool
  BY <1>14 DEF JoinPool
<1>15. QED
  BY <1>1, <1>2, <1>3, <1>4, <1>5, <1>6, <1>7, <1>8, <1>9, <1>10, <1>11, <1>12,
     <1>13, <1>14
     DEF TakeDown

LEMMA ThreadStep ==
  ASSUME IInv,
         ControlLoop \/ SubmitFrame \/ SpinEnds \/ Worker \/ EndInference \/ PoolExits \/ Crash
  PROVE  IInv'
<1> USE DEF IInv, TypeOK, BrainInv, ThrowInv, ThreadInv, NodeInv, BufferInv,
            Step, callVars, rosVars, tickVars, workerVars, flagVars, bufferVars,
            BufferTypeOK, Loans, Members, Stages
<1>1. CASE StartTick
  BY <1>1 DEF StartTick
<1>2. CASE EndTick
  BY <1>2 DEF EndTick
<1>3. CASE SubmitFrame
  BY <1>3 DEF SubmitFrame
<1>4. CASE SpinEnds
  BY <1>4 DEF SpinEnds
<1>5. CASE StartInference
  BY <1>5 DEF StartInference, Acquire
<1>6. CASE WorkerExits
  BY <1>6 DEF WorkerExits
<1>7. CASE EndInference
  BY <1>7 DEF EndInference, GiveBack
<1>8. CASE Crash
  BY <1>8 DEF Crash, Dangling
<1>9. CASE PoolExits
  BY <1>9 DEF PoolExits
<1>10. QED
  BY <1>1, <1>2, <1>3, <1>4, <1>5, <1>6, <1>7, <1>8, <1>9 DEF ControlLoop, Worker

LEMMA OtherStep == ASSUME IInv, Call \/ Leave \/ HandlerThrows \/ SignalHandler \/ SignalShutsContext PROVE IInv'
<1> USE DEF IInv, TypeOK, BrainInv, ThrowInv, ThreadInv, NodeInv, BufferInv,
            Step, callVars, rosVars, tickVars, workerVars, flagVars, bufferVars,
            BufferTypeOK, Loans, Members, Stages
<1>1. CASE Call
  BY <1>1 DEF Call
<1>2. CASE Leave
  BY <1>2 DEF Leave
<1>3. CASE HandlerThrows
  BY <1>3 DEF HandlerThrows
<1>4. CASE SignalHandler
  BY <1>4 DEF SignalHandler
<1>5. CASE SignalShutsContext
  <2>1. context' \in BOOLEAN
    BY <1>5 DEF SignalShutsContext
  <2>2. UNCHANGED <<main, callVars, node, spin, tickVars, brain, workerVars, flagVars>>
    BY <1>5 DEF SignalShutsContext
  <2>3. QED
    BY <2>1, <2>2
<1>6. QED
  BY <1>1, <1>2, <1>3, <1>4, <1>5

LEMMA InvStep == IInv /\ [Next]_vars => IInv'
<1> SUFFICES ASSUME IInv, [Next]_vars PROVE IInv'
  OBVIOUS
<1>1. CASE UNCHANGED vars
  BY <1>1 DEF vars, callVars, rosVars, tickVars, workerVars, flagVars, bufferVars,
              IInv, TypeOK, BufferTypeOK, BrainInv, ThrowInv, ThreadInv, NodeInv,
              BufferInv
<1>2. QED
  BY <1>1, StartStep, TakeDownStep, ThreadStep, OtherStep DEF Next

LEMMA Invariant == Spec => []IInv
BY InitInv, InvStep, PTL DEF Spec

-----------------------------------------------------------------------------
(* Every variable has its type.                                             *)
THEOREM TypeCorrect == Spec => []TypeOK
<1>1. IInv => TypeOK
  BY DEF IInv
<1>2. QED
  BY <1>1, Invariant, PTL

(* Without a throw the control loop and its inference see a whole brain.    *)
THEOREM TicksWholeBrainAlways == Spec => []TicksWholeBrain
<1>1. IInv => TicksWholeBrain
  BY DEF IInv, ThrowInv, BrainInv, TicksWholeBrain
<1>2. QED
  BY <1>1, Invariant, PTL

(* The node is destroyed after every thread that uses it has stopped.       *)
THEOREM NodeOutlivesItsUsersAlways == Spec => []NodeOutlivesItsUsers
<1>1. IInv => NodeOutlivesItsUsers
  <2> SUFFICES ASSUME IInv, node # "alive" PROVE NodeOutlivesItsUsers
    BY DEF NodeOutlivesItsUsers
  <2> USE DEF IInv, TypeOK, BrainInv, ThreadInv, NodeInv, NodeOutlivesItsUsers
  <2>1. CASE node = "none"
    BY <2>1
  <2>2. CASE node = "gone"
    BY <2>2
  <2>3. QED
    BY <2>1, <2>2
<1>2. QED
  BY <1>1, Invariant, PTL

(* Every buffer comes home, and none beyond those of the pool is allocated. *)
THEOREM BuffersReturnedAlways == Spec => []BuffersReturned
<1>1. IInv => BuffersReturned
  <2> SUFFICES ASSUME IInv, "buffers" \in brain
               PROVE  /\ worker # "infer" => free = Buffers /\ loan = "none"
                      /\ Buffers > 0 => loan # "temporary"
    BY DEF BuffersReturned
  <2>1. main # "crashed"
    BY DEF IInv, BrainInv
  <2>2. QED
    BY <2>1 DEF IInv, BufferInv
<1>2. QED
  BY <1>1, Invariant, PTL
=============================================================================
