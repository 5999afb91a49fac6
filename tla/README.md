# RobotBrain in TLA+

RobotBrain is a C++ process that takes tasks from a cloud client over gRPC, runs
a neural locomotion policy against the latest sensor readings, and sends joint
targets to a MuJoCo simulation (or a robot) over ROS 2. This directory holds
TLA+ models of it, TLC configurations that check them on small instances, and
TLAPS proofs of what matters most for every instance.

Source files are named by their base name, which is unique under
`src/src/RobotBrain/`; `src/README.md` is the repository's README.

1. [Inventory](#1-inventory)
2. [Modules and how they map to the code](#2-modules-and-how-they-map-to-the-code)
3. [Runs, bounds, fairness](#3-runs-bounds-fairness)
4. [Proofs](#4-proofs)
5. [Where the code and its documentation disagree](#5-where-the-code-and-its-documentation-disagree)
6. [What is not modelled](#6-what-is-not-modelled)
7. [Plan](#7-plan)
8. [Running the checks](#8-running-the-checks)

## 1. Inventory

### Threads

| thread | runs | started by |
|---|---|---|
| completion queue (main) | `GrpcServer::HandleRpcs`, every session, `AIBrain::ProcessRobotTask`, `BuildStatusMessage` | `main.cpp` |
| realtime control | `RegisterRealtimeTick` loop, `AIBrain::ControlLoopStep` | `RosNode` |
| inference worker (one) | the lambda that `ControlLoopStep` enqueues | `ThreadPool(1, 10)` |
| ROS executor (several) | the joint state and IMU callbacks | `MultiThreadedExecutor` |
| server pool (four) | nothing is enqueued in it | `GrpcServer` |
| simulator | timer and command callback of `mujoco_sim_node.py`, one thread of another process | - |

### Components

| component | state | operations | what makes it correct |
|---|---|---|---|
| `AIBrain` (`ai_brain.cpp`) | generation, task type and velocity under `cmd_mtx_`; atomics `is_inferring_`, heartbeat, robot state, frame counters; **unlocked** `prev_actions_`, `last_joint_targets_`, LSTM, ramped velocity | `ProcessRobotTask`, `ControlLoopStep` with its watchdog, the inference lambda | one frame in inference at a time; a preempted task's commands do not survive; the slot is always given back; silence ends execution; a frame after a simulator reset starts clean |
| joint limits (`ai_brain.cpp:275-301`, `369-381`) | baseline, reported and sent targets | clamp, rate limit, publish, record | position limit and step limit for every interleaving |
| velocity ramp (`ai_brain.cpp:206-212`, `336-353`; `ros_node.cpp` loop) | ramped and requested velocity, last control time, deadline | measure `dt`, ramp | bounded acceleration, exact arrival |
| `ThreadPool` (`thread_pool.cpp`) | queue, `stop_`, mutex, condition variable | `enqueue`, worker loop, `shutdown` | bounded FIFO, one start per task, no lost wakeup, drains on shutdown |
| gRPC sessions (`grpc_server.cpp`, `task_session.cpp`) | sessions that own themselves, tags on the completion queue | connect, finish, write, alarm, failure | one operation per session, always listening, no leak |
| `RosNode` sensors (`ros_node.cpp`) | latest joint and IMU reading with validity flags | two callbacks, `GetLatestProprioception` | no command from sensors that have not reported |
| `RosNode` realtime thread | deadline, ring of 1000 jitters | absolute-time loop, `UpdateJitter`, `GetJitterPercentiles` | the ring holds the latest frames; the percentiles are theirs |
| `mujoco_sim_node.py` | physics on/off, targets, robot | step, fall reset, command callback | moves again after every reset, and in the end by commands of its new life |
| `PolicyModel` (outside the repository) | LSTM state | `Forward`, `ResetHiddenState` | used as an external step that returns, throws or hangs |
| lifecycle (`main.cpp`, `GrpcServer::Run`, `~GrpcServer`, `~RosNode`) | which of node, server, brain and threads exist | build, serve, take down on each failure | ticks see a whole brain; the node outlives its users; a way down ends |
| `BufferPool` (`buffer_pool.hpp`) | stack of observation buffers | `Acquire`, the deleter | every buffer comes home |
| `ConfigManager`, logger, protocol, clients, model tools | see [section 6](#6-what-is-not-modelled) | | |

### Interactions

* Client -> completion queue -> `ProcessRobotTask`: shared members of `AIBrain`,
  of which `cmd_mtx_` covers only the task type, the velocity and the snapshot a
  frame takes of them (`ai_brain.cpp:128`, `168`, `217`, `339`). The generation is
  advanced after the lock is released (137).
* Control thread -> inference worker: a lambda in the pool's queue; the flag
  `is_inferring_` is the baton that passes the frame between the two.
* Worker and completion queue thread -> `/joint_commands`: both publish, with
  nothing to order them.
* Simulator -> `RosNode` cache -> brain -> `/joint_commands` -> simulator: a
  loop over best-effort topics, either end of which waits for the other at start
  and after a fall.
* Status session <- brain and `RosNode`: reads atomics, and the reported targets
  and ramped velocity under no lock.

### What is hard here

Three threads share the brain's members with one mutex that covers a small part
of them; the generation is compared and acted on in two steps; the watchdog reads
the time, then the state, then stores; the inference slot is taken by one thread
and given back by another on five paths; a fall resets one half of the loop
while commands computed for the fallen robot are queued in the other half; the
shutdown of the pool notifies outside the mutex; and the brain is destroyed
before the threads that use it are stopped. `PROJECT.json` lists each
hazard at its line with the properties that cover it, or why none does.

## 2. Modules and how they map to the code

| module | models | state and actions |
|---|---|---|
| `AIBrain` | class `AIBrain` on three threads | `cq_pc`, `rt_pc`, `wk_pc` stand between two accesses of `ProcessRobotTask` (`AcceptTask` ... `FinishTask`), `ControlLoopStep` (`Wake` ... `LoadState`, `ClaimSlot` ... `Submit`) and the lambda (`Dequeue` ... `ReleaseSlot`). One action is one access to shared state, or one section of `cmd_mtx_`. Vectors are abstracted to the generation of the frame that computed them. |
| `CommandGate` | the abstract promise: which task's command may reach the robot | `Preempt`, `Admit`, `Deliver`, `Drop`, `Stop`; no threads, frames or watchdog |
| `AIBrainClaims` | what `src/README.md:30` and `:32` say and the code does not do | extends `AIBrain` |
| `JointTargets`, `MCJointTargets` | the numbers: clamp, rate limit and the three copies of the targets, joint by joint | `Compute`, `MeasureExcess`, `CorrectExcess`, `Publish`, `Report`, `Record` of the worker against `EmergencyStop` ... `StopReport` and `BuildStatus`, `ReadReported` of the completion queue thread and `SimReset` of the control thread |
| `VelocityRamp` | the absolute-time loop, `dt` and `RampVelocityCommand`, from the moment the constructor of the brain stores the time | `StartLoop` (the realtime thread sets its first deadline, however late it starts), `Wake`, `WakeInterrupted` (a signal ends `clock_nanosleep`, whose result nobody checks), `Skip`, `Ramp`, `SetVelocity`, with `Elapse` between any two steps |
| `JitterStats` | the ring of jitters and its percentiles, a component without a thread of its own | `UpdateJitter`, `GetJitterPercentiles` |
| `RealtimeThread` | the realtime thread: `VelocityRamp` and `JitterStats` on one clock | `MeasuredWake` measures and wakes; every other step is the ramp's |
| `ThreadPool` | `thread_pool.cpp`, the condition variable included | `Lock`, `GoToSleep`, `Block`, `Pop`, `Run`, `Exit` of each worker, `WakeSpuriously`, `Enqueue`, `Reject`, `StoreStop`, `NotifyAll`, `Join` |
| `TaskQueue` | the abstract pool: bounded FIFO, each task started once | `Accept`, `Refuse`, `Start` |
| `ThreadPoolClaims` | that a shutdown ends | extends `ThreadPool` |
| `Sessions` | completion queue, `TaskSession`, `StatusSession` | `Dequeue` loads the calls of a `HandleEvent` into `todo`, and `Create`, `ProcessRobotTask`, `Respond`, `Write`, `ScheduleNextWrite`, `Free` run them in order, so that the runtime and the clients (`Match`, `Complete`, `Call`, `Leave`) can move in between |
| `TaskService` | the abstract promise of `AssignTask`: a task is accepted once, under a generation later than every earlier one, and its client is told afterwards, once | `Accept`, `Answer`; no sessions or tags |
| `ClosedLoop` | simulator, topics, `RosNode` cache and brain in one loop | `Step`, `Fall`, `CmdCallback`; `JointStateCallback`, `ImuCallback`, `LoseSensor`; `ControlLoopStep`, `Infer`, `PublishResult`, `DiscardResult`, `Preempt`, `EmergencyStop`. An *epoch* is the robot's life between two falls and tags what was sensed in it |
| `ClosedLoopClaims` | what `ai_brain.cpp:193-194` says of a reset | extends `ClosedLoop` |
| `BufferPool` | the pool of observation buffers, as a number of free ones and one loan | `Allocate`, `Acquire`, `GiveBack` |
| `Lifecycle` | `main`, `GrpcServer::Run` and `~GrpcServer`, the constructor and destructor of `AIBrain`, `~RosNode`, beside executor, control loop and worker | `main` is the stage of the main thread. `LoadConfig`, `MakePool` (the pool of the server) ... `Register` go up, with `StartupThrows`, `ListenFails`, `BuildThrows`; `HandlerThrows` ends serving; `Close`, `DestroyState` ... `JoinWorker`, `StopPool`, `JoinPool`, `ShutdownContext`, `JoinSpin`, `StopTick`, `JoinTick` go down. `StartTick`, `SubmitFrame`, `EndTick`, `StartInference`, `EndInference` are and `PoolExits` the other threads, reduced to what they touch; `Crash` is what the use of a destroyed member may come to |
| `*Proofs` | the theorems of the module they extend | no state |

How the modules fit together: `AIBrain` is the centre. `JointTargets` and
`VelocityRamp` are its arithmetic, on the parts of its control that can disturb
it. `JointTargets` lets the control thread write the baseline only while the
worker is idle, which is `AIBrain!OneOwner`, proved. `ThreadPool` justifies that
`AIBrain` treats the pool as a bounded FIFO with one consumer
(`ImplementsQueue`). `ClosedLoop` composes simulator, topics, cache and a brain
reduced to one frame at a time (again `OneOwner`); its `PublishResult` is also
allowed to a superseded frame because of what `StopHasTheLastWord` shows.
`Sessions` calls `ProcessRobotTask` from one thread, as `AIBrain` assumes of
`cq`. `RealtimeThread` composes the two halves of the control thread that share
its clock. `Lifecycle` composes `BufferPool` with all threads at the grain of what
each may still use, and takes from `ThreadPool` that a worker may miss the
notification of a shutdown (`worker = "lost"`, `server_pool = "lost"`).

Abstractions worth knowing:

* C++ data races on vectors are modelled as any order of the joint-wise copies;
  torn reads of one `float` do not occur on the platforms of the build.
* `Forward` and `ResetHiddenState` do not overlap in `AIBrain`: `PolicyModel` is
  not in the repository and may guard itself.
* A mutant of a definition stands above it with `mutant` in its comment. It is
  used only to check that a property can fail; nothing else refers to it.
* History variables (`late`, `fate`, `rt_reset`, `policy`, `given`, `recovered`,
  `travelled`, `steady`, `early`, `interrupts`, `started`, `done`, `measured`,
  `threw`) are read by properties only, or, as `interrupts`, bound an action.

## 3. Runs, bounds, fairness

### Runs that pass

| run | bounds | shows |
|---|---|---|
| `brain` | two tasks, one may be a stop; timeout one tick; upright and fallen readings | `TypeOK`; `OneOwner`: while `is_inferring_` is set exactly one of control thread, queue and worker owns the frame; `NeverBackpressure`: the backpressure branch (`ai_brain.cpp:324`) is dead; `ResetFrameIsClean`; `NoOlderTraces`: what a frame leaves in the LSTM, in the remembered actions and targets and on the topic is never replaced by what a frame of an older task leaves; `ImplementsGate` |
| `live` | one task of either kind, upright, counters modulo two | `FramesAccounted`: each tick ends as exactly one of published, stale, dropped, skipped, failed or in flight, through counter wrap; `SilenceEndsExecution`: the watchdog ends EXECUTING for good even if `Forward` hangs; `SlotReleased`: if `Forward` comes back, so does the slot |
| `targets` | one joint, position limit 4, step 1, outputs beyond both limits and not finite | `WithinLimit`, `StepBounded` against stop, reset, status read and a throwing publish; `ReportedIsRecent`: a joint a status session reads, at any moment, is that of the last policy command, of the default posture or, only until the worker has copied it, of the command before. One joint at one moment: a message as a whole may mix commands (section 5) |
| `realtime` | velocities 0, 3 and 9, period 2, longest gap 5, clock to 9, one interrupted sleep, ring of three | `RampBounded`: from the construction of the brain on, a late start of the thread included, the ramp runs at no more than twice its rate, plus a period for each interrupted sleep and one more; `TargetReached`; `RingHoldsLatest`, `PercentilesOfWindow` |
| `pool` | two workers, queue of two, four tasks, destructor at any time | `NoLostWakeup`, `AcceptedIsRun`, `ImplementsQueue`; `ClosedIsDrained`: the destructor returns only when every task accepted before the shutdown has run |
| `sessions` | two task calls, one stream, clients that stall or leave | `OneOperationPerSession`, `AlwaysListening`, `ImplementsService`: the sessions refine `TaskService`; `CallsAreServed`, `GoneIsFreed` |
| `loop` | two lives of the robot, command queue of two | `CommandsAreSensed`; `CommandsInOrder`: the lives of the robot that what it follows, what is queued for it and the frame in inference were sensed in never decrease, although sensor topics lose and delay messages independently; `RecoveredForGood`: a command of the last life may start the physics of the new one, but not after a command of the new life has arrived; `PhysicsComesBack`, `StaleTargetsEnd` |
| `lifecycle` | two buffers, two open calls, both modes of the control loop, every failure of the start | `TicksWholeBrain`: unless a handler threw, a tick or an inference sees a whole brain; `NodeOutlivesItsUsers`: on every way down; `BuffersReturned`; `FailureEnds`: the way down reaches its end unless a client stays, an inference hangs, or the inference worker or a worker of the server's pool has missed its wake-up |

### Runs that show a divergence

| run | shows |
|---|---|
| `claim_StopHasTheLastWord` | an emergency stop handled between the worker's generation check and its publish is followed by the old task's targets. `ImplementsGate` bounds the damage: one late command at most, and none after the first command of the new task (`AtMostOneLate`, `NoRelapse`, both proved of the brain), and a stop that no late command has followed stands (`StopStands`, proved) |
| `claim_WatchdogActsOnlyOverdue` | the watchdog demotes, or brings to a standstill, a task that was accepted and fed after it read the old heartbeat |
| `claim_ShutdownTerminates` | `stop_` stored and notified outside the mutex: a worker between its test and its wait sleeps for ever and `join` with it. It is the only one, however many workers there are (`OneMissesShutdown`, proved) |
| `claim_ResetClearsMemory` | the simulator resets inside the step that finds the fall, so the brain's jump detector need not fire and the LSTM keeps the state of the life before |

### Why the bounds are enough

* Two tasks: the races of a preemption involve the generation before and the one
  after it. A third task repeats the second against a brain whose worker holds
  one frame at most (`OneOwner`), and the theorems of `AIBrainProofs` hold for
  any number.
* A timeout of one tick: the watchdog tells overdue from not overdue; `age` is
  saturated one past the timeout. `Tick` can interleave anywhere, so any real
  time between two steps is covered.
* Queue of two in `brain`: the backpressure branch would need a full queue; the
  theorem is for every capacity.
* `CounterMod`: modulo one where counters are not the subject, two where they
  are, so that they wrap several times. 2^64 in the code; the theorem is for
  every modulus.
* One joint: joints are limited independently. The proofs are for any set.
* Two workers: one that takes a task and one that misses a wakeup. Four tasks
  overflow a queue of two with one running.
* One stream and two task calls: the second call needs the listener the first
  one left. A stream's own life does not touch another's.
* Two lives: everything stale comes from the life before. Three lives were
  checked as well and pass in about two minutes.
* `realtime`: 9 ms at a period of 2 and a longest gap of 5 contain a late wake-up
  longer than the gap, the catch-up that follows, a skipped frame and a sleep
  that a signal ends; a ring of three is partly filled, just full, and wraps.
* `lifecycle`: one worker holds one buffer, so a second one shows that it is
  enough; two open calls, one of which throws and one of which outlasts it.

### Deadlock

It is checked in every run except where the system really stops: `pool` and
`claim_ShutdownTerminates` (the pool is closed), `sessions` (every client has been
served or has left), `realtime` (the clock is bounded) and `lifecycle` (the
process has ended).

### Fairness

* `AIBrain`: the three threads are scheduled and time passes. `Forward` gets no
  fairness (it may hang), nor does the cloud or a sensor. `SlotReleased` states
  the return of `Forward` as its hypothesis.
* `ThreadPool`: each worker and the destroying thread is scheduled, and a task
  returns. The fairness of a worker is weak, so one that finds the mutex taken
  again and again may starve: what is checked holds even then. Nobody has to
  enqueue, to destroy the pool or to be woken spuriously.
* `Sessions`: the completion queue thread is scheduled; the runtime hands over
  waiting calls, fires alarms (they are timers), and fails operations of a client
  that has gone. A client that stays may stop reading, so `Write` gets none
  until it leaves. The queue is strongly fair for each call because it is FIFO.
* `ClosedLoop`: timers fire and executors run (weak). Delivery on a best-effort
  topic is strong: a topic published for ever is received for ever, though any
  single message may be lost. `Infer` is weak: here `Forward` returns.
  `PublishResult` is strong: tasks come from a person
  or a planner and do not preempt every 20 ms frame.
* `Lifecycle`: the main thread, the control loop, the executor and a worker with a
  frame to start are scheduled (weak). `WorkerExits` is strong: `enqueue` does not
  look at `stop_`, so the control loop may go on submitting while the pool shuts
  down, but its frames are 20 ms apart and the worker finds the queue empty in
  between. The workers of the server's pool, which have nothing to do, exit if they
  were woken (`PoolExits`, weak). A client that leaves, an inference that returns
  and wake-ups that are not lost, in either pool, are hypotheses of `FailureEnds`,
  and nothing makes a handler throw.
* `realtime`, `targets` and `brain` check safety only.

## 4. Proofs

All theorems are checked by TLAPS to the last leaf, for every value of the
constants that the named `ASSUME`s of the modules allow.

| module | theorem | argument |
|---|---|---|
| `AIBrainProofs` | `TypeCorrect` | `TypeOK` needs one strengthening, `RoomForTask`: between accepting a task and advancing the generation the bound on tasks still has room. It also proves that the robot is always EXECUTING or STANDING, so the last branch of `ControlLoopStep` is dead |
| | `OneOwnerAlways` | inductive with the types: one lemma for the control thread, one for the worker, and one that the other thread and the environment own nothing |
| | `NeverBackpressureAlways` | from `OneOwner`: the control thread owns the frame, so the queue is empty |
| | `ResetFrameIsCleanAlways` | inductive beside `OneOwner`: what could dirty the memory again is the worker, which owns no frame while the control thread or the queue does |
| | `ImplementsGateAlways` | step simulation: `BumpGeneration` is `Preempt`, `AdmitResult` is `Admit`, `PublishResult` is `Deliver`, `PublishThrows` is `Drop`, `StopPublish` is `Stop`, and every other step stutters |
| | `NoOlderTracesAlways` | `TraceInv`: the frame in flight is the only one (`OneOwner`) and carries the generation at its submission, so its task is at least as new as that of everything earlier frames left (`NewerThanTraces`), at whichever of its four writes it stands. Two frames of one task are not told apart |
| | `ForgetsAloneAlways` | from `OneOwner`: a simulator reset clears the memory while no frame is queued or inferred |
| | `AtMostOneLateAlways`, `NoRelapseAlways` | `LateInv`: after the first late command, or a command of the current task, whatever waits to be delivered was admitted since the preemption |
| | `StopStandsAlways` | `StopInv`: from the moment the stop has published, what may still replace it is a frame of its own task or one counted in `late` |
| | `FramesAccountedAlways` | `Balanced`: ticks on one side and the fates of frames on the other differ by a multiple of `CounterMod`; each control or worker step moves as much on both sides, and a counter that wraps moves its side by a whole multiple |
| `JointTargetsProofs` | `TypeCorrect`, `WithinLimitAlways`, `StepBoundedAlways`, `ReportedIsRecentAlways` | `JointInv`, joint by joint: all three vectors are within the limit; a measured excess still stands or the baseline has moved home since (`ExcessStands`), and the baseline the worker reads is the last policy command or home (`BaselineKnown`). Needs the assumption `MaxDelta <= Limit`, which `config.yaml` meets (0.1 and 1.0). `ReportedIsRecent` rests on `CopiedIsRecent`: what the worker copies is its last command, so when it publishes the next one every joint is settled and that command is the only older one left |
| `ThreadPoolProofs` | `TypeCorrect` | with `RunHasTask` |
| | `NoLostWakeupAlways` | `WakeInv`: who is past the lock holds it, who is about to sleep has seen an empty queue and still holds the mutex, who is waiting is blocked, who has exited has seen `stop_` |
| | `ClosedIsDrainedAlways` | `DrainInv`: a task accepted before the shutdown is queued, with a worker or done, and once a worker has left none of them is queued |
| | `ImplementsQueueAlways`, `EachOnceAlways` | `QueueInv`: queued tasks are distinct and neither started nor refused |
| | `RunsOnceAlways` | inductive beside `QueueInv`: a popped task was never started, so no other worker has it and it has not finished |
| | `OneMissesShutdownAlways` | `MissInv`, beside `WakeInv`: `stop_` is set before the notification, nobody who sees it goes to sleep, and only the one worker that holds the mutex is between its test and its wait |
| `VelocityRampProofs` | `TypeCorrect` | the ramped velocity stays between two commanded ones |
| | `RampBoundedAlways` | `PaceInv`: what has been travelled is at most the gaps, which telescope from the construction of the brain to `last_control`, plus one period for each deadline passed |
| | `TargetReachedAlways` | `DistanceInv`: the distance left and the ramped time together are at most a range of the velocities |
| `RealtimeThreadProofs` | `ThreadTypeCorrect`, `ThreadRampBounded` | every step of the thread is one of `VelocityRamp` or leaves its variables alone (`ThreadRefinesRamp`), so that its theorems carry over |
| | `RingHoldsLatestAlways` | inductive with the types: the slot `k` behind the new index is the slot `k - 1` behind the old one, modulo `WINDOW` |
| | `PercentilesOfWindowAlways` | `JitterInv`: the ring fills from slot 0 and every jitter in it is at most the maximum. Then, for any ring: its slots and the frames of the window correspond one to one (`SlotHoldsFrame`, `LatestCount`), the sorted copy ascends and is a reordering of it, so as many values lie below an index as `IsPercentile` asks (`RankOfSorted`) |
| `SessionsProofs` | `TypeCorrect`, `OneOperationAlways` | `SInv`: what `todo` may still hold of a handler (`ScriptInv`) and, for each session, that it has an operation in flight, or is the one whose handler is about to arm it (`HoldInv`) |
| | `AlwaysListeningAlways` | `ListenInv`: a listener is armed unless the handler that used it has yet to run `Create` |
| | `ImplementsServiceAlways` | step simulation: `ProcessRobotTask` is `Accept`, `Respond` is `Answer`, by `TaskInv` |
| | `OwnGenerationAlways`, `NewestSupersedesAlways` | `ServiceInv`, proved of `TaskService` and carried over by the refinement: generations of calls are distinct and at most the current one |
| `ClosedLoopProofs` | `TypeCorrect`, `CommandsAreSensedAlways` | `SensedInv`: epochs only grow from the simulator through topics and cache to the frame, and a frame is built only from both sensors; `CommandInv` carries it to the queue |
| | `RecoveredForGoodAlways` | `RecoveredInv`: a command of the life the robot is in comes only from readings of that life, and by `CommandsInOrder` whatever is queued behind it or computed later is of that life too |
| | `CommandsInOrderAlways` | `CommandsInOrder` is inductive beside `SensedInv`: a frame is built from readings of a life no earlier than those of the one before, and `/joint_commands` drops its oldest but does not reorder |
| `LifecycleProofs` | `TypeCorrect`, `TicksWholeBrainAlways` | `IInv`: how much of the brain exists at each stage (`BrainInv`), and that a brain that has served is taken down only after a throw (`ThrowInv`) |
| | `NodeOutlivesItsUsersAlways` | `ThreadInv` and `NodeInv`: what has been joined at each stage, and that only `JoinTick` ends the node |
| | `BuffersReturnedAlways` | `BufferInv`: free and lent buffers are all of them while the pool lives |

The inductive invariants are needed because none of the properties is inductive
alone: each speaks of a state between two steps, and whether the next step keeps
it depends on where the other thread stands.

Model-checked only:

* Liveness (`SilenceEndsExecution`, `SlotReleased`, `AcceptedIsRun`,
  `CallsAreServed`, `GoneIsFreed`, `PhysicsComesBack`, `StaleTargetsEnd`,
  `FailureEnds`): fairness and `ENABLED` are out of the prover's reach.

Every safety and action property, and every refinement, that a passing run
checks is proved as well. The percentiles are the only one that speaks of a
sort. `JitterStats` therefore defines the sorted copy by what `std::sort`
promises, an ascending reordering (`Ascends`, `Order`), and not by an algorithm,
which would need an induction over data. That such an order exists is proved
with a least counterexample, an instance of the well-foundedness of `<` that
takes a set where induction would take an operator (`Least`, `Insertion`,
`OrderExists`).

## 5. Where the code and its documentation disagree

Four disagreements have a run of their own and are `findings` in
`PROJECT.json`. The following were met while modelling and have no run; each
was found by reading.

| code | says otherwise |
|---|---|
| after a timeout nothing publishes the default posture: the policy goes on with the standing velocity (`ai_brain.cpp:226-231`) | `src/README.md:32` |
| `Forward` moves the LSTM before the generation is compared, so a discarded frame leaves its memory, also after a stop cleared it (`ai_brain.cpp:260-261`, `294`) | the reset in the stop branch, 143-146 |
| a stop between publish and record leaves the old task's targets as the baseline (`ai_brain.cpp:296-301`) | `ai_brain.h:145` |
| reported targets are assigned after the publish by two threads, so the last assigned need not be the last sent (`ros_node.cpp:173-174`); `ReportedIsRecent` states what does hold | `robot_brain.proto:55` |
| a status message copies the targets while they are assigned (`task_session.cpp:129-130`) | `ros_node.h:63` |
| the ramp runs at up to twice its rate while the loop catches up (`ai_brain.cpp:211`) | `ai_brain.h:57`; `RampBounded` states the bound that does hold, proved |
| `last_control_ms_` holds the time of construction before the first frame (`ai_brain.cpp:92`), so the default of 0.02 s for a first frame is dead (207-209): the first frame ramps for the time since construction, thread start and `mlockall` included, up to 0.5 s | the default at 209 |
| a command queued before a fall starts the physics of the robot that was just reset (`mujoco_sim_node.py:283-288`, `319`); `RecoveredForGood` and `StaleTargetsEnd` bound for how long | - |
| `GrpcServer` has a pool of four workers that are never given a task (`grpc_server.cpp:49`); it is joined after the brain is gone, and one of them may have missed the notification (`thread_pool.cpp:57-63`), so any end of the server may hang, also when the model could not be loaded: `FailureEnds` needs that no wake-up is lost there | the shutdown path at `main.cpp:91-97` |
| from STANDING to EXECUTING the velocity jumps, as STANDING does not use the ramped one (`ai_brain.cpp:226-236`) | the comment at 206 |
| the reported maximum jitter is of all frames and not of the window (`ros_node.cpp:129-131`) | `src/README.md:42` |
| a stop before the sensors report publishes the default posture and starts the physics (`ai_brain.cpp:146`) | the comment at 188-190 |
| a signal sets a flag nobody reads (`main.cpp:13-18`), and if the handler that `rclcpp::init` installs takes the context down, the executor ends while server and control thread go on | the shutdown path at 91-97 |
| a handler that throws ends `HandleRpcs`; the vectors, buffers and model of the brain are then destroyed beside a control thread that ticks, and its worker is joined last of all, so both may use members that are gone (`grpc_server.cpp:61-68`, `ai_brain.h:108-148`): `TicksWholeBrain` needs `~ threw` | the shutdown path at `main.cpp:91-97` |
| `enqueue` accepts tasks after `stop_` (`thread_pool.cpp:33-55`), for the worker that is being joined | - |
| a sleep that a signal ends counts as a frame: its result is not checked (`ros_node.cpp:96`) | - |
| a sensor that has reported once counts as valid for ever (`ros_node.cpp:165`) | - |

## 6. What is not modelled

* `RosNode`: thread priorities and `mlockall`, whose failures are only logged.
  Sensor messages with too few joints (`ros_node.cpp:191-193`), which would fill a
  prefix of the cache and still count as a reading: the simulator sends them all.
* `mujoco_sim_node.py`: `direct_policy` mode (a policy loop of its own, without
  the brain), rendering, the numbers of the physics (a free choice of attitude).
* Events left on the completion queue: `~GrpcServer` drains it without calling or
  deleting the tags it finds (`grpc_server.cpp:21-26`), so the sessions that still
  listen or wait are never freed. The process is about to end then, and neither
  `Sessions` nor `Lifecycle` follows them.
* `ConfigManager`, the logger: read once or written, no later state. That loading
  can fail is `StartupThrows`.
* The observation vector itself (`BuildObservation`): arithmetic on readings
  whose meaning is the policy's.
* `DetectFall`: never called.
* Clients and model tools: the environment of `Sessions`, or offline scripts.

## 7. Plan

Done, in order of importance: `AIBrain` with `CommandGate`, `JointTargets`,
`ThreadPool` with `TaskQueue`, `Sessions` with `TaskService`, `VelocityRamp` and
`JitterStats` in `RealtimeThread`, `ClosedLoop`, `Lifecycle` with `BufferPool`,
and the proofs of every safety property of the runs.

Left:

1. `VelocityRamp`: the velocity a frame is built with in STANDING, for the jump
   when execution starts (`ai_brain.cpp:226-236`).
2. `ClosedLoop`: short sensor messages, and the `direct_policy` mode.
3. `Lifecycle` with `Sessions`: the events that are on the completion queue when
   the server is destroyed.
4. Proofs: what does hold where `WatchdogActsOnlyOverdue` and `ResetClearsMemory`
   fail, as `StopStands` and `OneMissesShutdown` say for the other two refuted
   claims. Both need a history variable: what the watchdog had read when its tick
   began, and the attitude the brain last sensed in each life.

## 8. Running the checks

From this directory, with the community modules on the library path:

    tlc -workers 2 -config AIBrain.cfg AIBrain.tla
    tlc -workers 2 -config AIBrain_live.cfg AIBrain.tla
    tlc -workers 2 -config Lifecycle.cfg Lifecycle.tla
    tlapm AIBrainProofs.tla

`PROJECT.json` lists every run with its module and configuration, the mutant
that breaks each property, and the lines each definition models.
