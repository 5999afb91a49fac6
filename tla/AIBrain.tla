------------------------------- MODULE AIBrain -------------------------------
(***************************************************************************)
(* The decision core of RobotBrain: class AIBrain (ai_brain.cpp/.h), run   *)
(* by three threads that share its members.                                *)
(*                                                                         *)
(*   cq - the completion queue thread, which runs ProcessRobotTask;        *)
(*   rt - the control thread, which runs ControlLoopStep once per period;  *)
(*   wk - the only worker of inference_pool_, which runs the lambda        *)
(*        enqueued by ControlLoopStep.                                     *)
(*                                                                         *)
(* Each action is one access to shared state, or one section that holds    *)
(* cmd_mtx_, or a run of accesses no other thread can tell apart; pc       *)
(* variables record where a thread is between two of them.  Vectors are    *)
(* abstracted to the generation of the frame that computed them: the       *)
(* values themselves are the subject of module JointTargets.               *)
(***************************************************************************)
EXTENDS Integers, Sequences

CONSTANTS
  TaskTypes,   \* the task types the cloud sends
  MaxTasks,    \* bound on the number of AssignTask requests
  Timeout,     \* watchdog_timeout_ms, in ticks of the model's clock
  MaxQueue,    \* capacity of the queue of inference_pool_ (10 in the code)
  CounterMod,  \* the frame counters wrap at CounterMod (2^64 in the code)
  Attitudes    \* the attitudes the IMU reports

AllTaskTypes ==
  {"TASK_UNKNOWN", "NAVIGATE", "FOLLOW", "PICK", "EMERGENCY_STOP"}

AllAttitudes == {"upright", "tilted", "fallen"}

ASSUME ConstantsAssumption ==
  /\ TaskTypes \subseteq AllTaskTypes
  /\ MaxTasks \in Nat
  /\ Timeout \in Nat
  /\ MaxQueue \in Nat \ {0}
  /\ CounterMod \in Nat \ {0}
  /\ Attitudes \subseteq AllAttitudes

Generations == 0 .. MaxTasks

(* The tag of the default posture, of zeroed actions, of a reset LSTM state *)
(* and of a zero velocity command.  Otherwise a tag is a generation.        *)
Default == -1
Tags == Generations \cup {Default}

Nothing == -2   \* no command has been published yet

Profiles == [velocity_scale : 0 .. 10, action_scale : 0 .. 10]

(* What the enqueued lambda captures.  reset records, for the properties    *)
(* only, that the tick that built the frame cleared the policy's memory.    *)
Frames == [gen : Generations, profile : Profiles, reset : BOOLEAN]

VARIABLES
  task_generation, current_task_type, velocity_cmd,
  state,                \* metrics_.current_state
  age,                  \* time since FeedDog, saturated at Timeout + 1
  is_inferring, tasks,  \* the slot flag; the queue of inference_pool_
  prev_actions, hidden, last_joint_targets,  \* hidden: the LSTM state
  metrics,              \* the frame counters
  sent,                 \* the last message on /joint_commands
  valid, attitude,      \* what GetLatestProprioception returns
  last_attitude,        \* static last_gravity_z
  cq_pc, cq_type, rt_pc, rt_state, rt_reset, wk_pc, wk_frame,
  late, fate            \* history variables, read by the properties only

cmdVars == <<task_generation, current_task_type, velocity_cmd>>
memVars == <<prev_actions, hidden, last_joint_targets>>
envVars == <<valid, attitude>>
cqVars  == <<cq_pc, cq_type>>
rtVars  == <<rt_pc, rt_state, rt_reset, last_attitude>>
wkVars  == <<wk_pc, wk_frame>>
vars == <<cmdVars, state, age, is_inferring, tasks, memVars, metrics, sent,
          envVars, cqVars, rtVars, wkVars, late, fate>>

CqSteps == {"idle", "bump", "state", "zero_prev", "zero_hidden", "baseline",
            "publish", "feed"}
RtSteps == {"sleep", "check_state", "demote", "zero_velocity", "load_state",
            "claim", "sense", "submit"}
WkSteps == {"idle", "infer", "check", "publish", "feed", "remember",
            "baseline", "release"}

(* uint64_t arithmetic, at a width the model can exhaust.                   *)
Counts == 0 .. CounterMod - 1

Inc(n) == (n + 1) % CounterMod

Count(c)  == metrics' = [metrics EXCEPT ![c] = Inc(@)]
Resolve(f) == fate' = [fate EXCEPT ![f] = Inc(@)]

NoFrame == [gen |-> 0,
            profile |-> [velocity_scale |-> 0, action_scale |-> 0],
            reset |-> FALSE]

(***************************************************************************)
(* The constructor.  The robot stands before the first task arrives.       *)
(***************************************************************************)
InitialState_NotStored == "IDLE"     \* mutant: ai_brain.cpp:85 is missing

InitialState == "STANDING"

Init ==
  /\ task_generation = 0 /\ current_task_type = "TASK_UNKNOWN"
  /\ velocity_cmd = Default
  /\ state = InitialState
  /\ age = 0
  /\ is_inferring = FALSE /\ tasks = << >>
  /\ prev_actions = Default /\ hidden = Default /\ last_joint_targets = Default
  /\ metrics = [total |-> 0, dropped |-> 0, stale |-> 0]
  /\ sent = Nothing
  /\ valid = FALSE /\ attitude = "upright" /\ last_attitude = "upright"
  /\ cq_pc = "idle" /\ cq_type = "TASK_UNKNOWN"
  /\ rt_pc = "sleep" /\ rt_state = "STANDING" /\ rt_reset = FALSE
  /\ wk_pc = "idle" /\ wk_frame = NoFrame
  /\ late = 0
  /\ fate = [ticks |-> 0, skipped |-> 0, failed |-> 0]

(* FeedDog stores the current time in last_heartbeat_ms_.                   *)
FeedDog == age' = 0
(***************************************************************************)
(* ProcessRobotTask, on the cq thread.  Only the first section holds       *)
(* cmd_mtx_; the generation is advanced after the lock is released.  The   *)
(* velocity of the request is tagged with the generation it is about to    *)
(* become.  metrics_.current_generation and current_task_type are written  *)
(* and read by this thread alone and are left to the status sessions.      *)
(***************************************************************************)
AcceptTask(type) ==
  /\ cq_pc = "idle" /\ task_generation < MaxTasks
  /\ current_task_type' = type
  /\ velocity_cmd' = task_generation + 1
  /\ cq_type' = type
  /\ cq_pc' = "bump"
  /\ UNCHANGED <<task_generation, state, age, is_inferring, tasks, memVars,
                 metrics, sent, envVars, rtVars, wkVars, late, fate>>

BumpGeneration_Wraps ==    \* mutant: the generation wraps before the tasks end
  /\ cq_pc = "bump"
  /\ task_generation' = (task_generation + 1) % MaxTasks
  /\ late' = 0
  /\ cq_pc' = "state"
  /\ UNCHANGED <<current_task_type, velocity_cmd, state, age, is_inferring,
                 tasks, memVars, metrics, sent, envVars, cq_type, rtVars,
                 wkVars, fate>>

BumpGeneration ==
  /\ cq_pc = "bump"
  /\ task_generation' = task_generation + 1
  /\ late' = 0
  /\ cq_pc' = "state"
  /\ UNCHANGED <<current_task_type, velocity_cmd, state, age, is_inferring,
                 tasks, memVars, metrics, sent, envVars, cq_type, rtVars,
                 wkVars, fate>>

EnterState ==
  /\ cq_pc = "state"
  /\ \/ /\ cq_type = "EMERGENCY_STOP"
        /\ state' = "STANDING"
        /\ cq_pc' = "zero_prev"
     \/ /\ cq_type # "EMERGENCY_STOP"
        /\ state' = "EXECUTING"
        /\ cq_pc' = "feed"
  /\ UNCHANGED <<cmdVars, age, is_inferring, tasks, memVars, metrics, sent,
                 envVars, cq_type, rtVars, wkVars, late, fate>>

(* The emergency stop clears the policy's memory, one member at a time and  *)
(* under no lock.                                                           *)
StopZeroPrev ==
  /\ cq_pc = "zero_prev"
  /\ prev_actions' = Default
  /\ cq_pc' = "zero_hidden"
  /\ UNCHANGED <<cmdVars, state, age, is_inferring, tasks, hidden,
                 last_joint_targets, metrics, sent, envVars, cq_type, rtVars,
                 wkVars, late, fate>>

StopResetHidden ==
  /\ cq_pc = "zero_hidden"
  /\ hidden' = Default
  /\ cq_pc' = "baseline"
  /\ UNCHANGED <<cmdVars, state, age, is_inferring, tasks, prev_actions,
                 last_joint_targets, metrics, sent, envVars, cq_type, rtVars,
                 wkVars, late, fate>>

StopBaseline ==
  /\ cq_pc = "baseline"
  /\ last_joint_targets' = Default
  /\ cq_pc' = "publish"
  /\ UNCHANGED <<cmdVars, state, age, is_inferring, tasks, prev_actions,
                 hidden, metrics, sent, envVars, cq_type, rtVars, wkVars,
                 late, fate>>

(* A publisher that throws ends the serving of requests and takes the brain *)
(* down, which is Lifecycle's HandlerThrows; here it does not.              *)
StopPublish ==
  /\ cq_pc = "publish"
  /\ sent' = Default
  /\ cq_pc' = "feed"
  /\ UNCHANGED <<cmdVars, state, age, is_inferring, tasks, memVars, metrics,
                 envVars, cq_type, rtVars, wkVars, late, fate>>

FinishTask ==
  /\ cq_pc = "feed"
  /\ FeedDog
  /\ cq_pc' = "idle"
  /\ UNCHANGED <<cmdVars, state, is_inferring, tasks, memVars, metrics, sent,
                 envVars, cq_type, rtVars, wkVars, late, fate>>

(***************************************************************************)
(* ControlLoopStep, on the rt thread: first the watchdog.  The heartbeat   *)
(* is read, then the state, and both are acted on later.                   *)
(***************************************************************************)
Overdue_Inverted == age < Timeout    \* mutant: the comparison is inverted

Overdue == age > Timeout

Wake ==
  /\ rt_pc = "sleep"
  /\ rt_pc' = IF Overdue THEN "check_state" ELSE "load_state"
  /\ rt_reset' = FALSE
  /\ UNCHANGED <<cmdVars, state, age, is_inferring, tasks, memVars, metrics,
                 sent, envVars, cqVars, rt_state, last_attitude, wkVars, late,
                 fate>>

CheckState ==
  /\ rt_pc = "check_state"
  /\ rt_pc' = IF state = "EXECUTING" THEN "demote" ELSE "load_state"
  /\ UNCHANGED <<cmdVars, state, age, is_inferring, tasks, memVars, metrics,
                 sent, envVars, cqVars, rt_state, rt_reset, last_attitude,
                 wkVars, late, fate>>

Demote ==
  /\ rt_pc = "demote"
  /\ state' = "STANDING"
  /\ rt_pc' = "zero_velocity"
  /\ UNCHANGED <<cmdVars, age, is_inferring, tasks, memVars, metrics, sent,
                 envVars, cqVars, rt_state, rt_reset, last_attitude, wkVars,
                 late, fate>>

ZeroVelocity ==
  /\ rt_pc = "zero_velocity"
  /\ velocity_cmd' = Default
  /\ rt_pc' = "load_state"
  /\ UNCHANGED <<task_generation, current_task_type, state, age, is_inferring,
                 tasks, memVars, metrics, sent, envVars, cqVars, rt_state,
                 rt_reset, last_attitude, wkVars, late, fate>>

(***************************************************************************)
(* Then the frame.  The state is loaded once for all of it, and then       *)
(* compare_exchange_strong claims the slot, or the frame is dropped.       *)
(* state is never IDLE or ERROR while the brain is alive (TypeOK), so the  *)
(* branch that holds the default posture has no step.                      *)
(***************************************************************************)
SlotFree_Unchecked == TRUE    \* mutant: the exchange is not compared

SlotFree == ~ is_inferring

Active == rt_state \in {"EXECUTING", "STANDING"}

CountDropped_Missing == UNCHANGED metrics    \* mutant: dropped_frames++ is lost

CountDropped == Count("dropped")

LoadState ==
  /\ rt_pc = "load_state"
  /\ rt_state' = state
  /\ rt_pc' = "claim"
  /\ UNCHANGED <<cmdVars, state, age, is_inferring, tasks, memVars, metrics,
                 sent, envVars, cqVars, rt_reset, last_attitude, wkVars, late,
                 fate>>

ClaimSlot ==
  /\ rt_pc = "claim" /\ Active /\ SlotFree
  /\ is_inferring' = TRUE
  /\ Resolve("ticks")
  /\ rt_pc' = "sense"
  /\ UNCHANGED <<cmdVars, state, age, tasks, memVars, metrics, sent, envVars,
                 cqVars, rt_state, rt_reset, last_attitude, wkVars, late>>

DropFrame ==
  /\ rt_pc = "claim" /\ Active /\ ~ SlotFree
  /\ CountDropped
  /\ Resolve("ticks")
  /\ rt_pc' = "sleep"
  /\ UNCHANGED <<cmdVars, state, age, is_inferring, tasks, memVars, sent,
                 envVars, cqVars, rt_state, rt_reset, last_attitude, wkVars,
                 late>>

SkipFrame ==
  /\ rt_pc = "sense" /\ ~ valid
  /\ is_inferring' = FALSE
  /\ Resolve("skipped")
  /\ rt_pc' = "sleep"
  /\ UNCHANGED <<cmdVars, state, age, tasks, memVars, metrics, sent, envVars,
                 cqVars, rt_state, rt_reset, last_attitude, wkVars, late>>

(* The jump of gravity_z that a reset of the simulation produces.           *)
ResetJump == last_attitude = "fallen" /\ attitude = "upright"

ForgetPolicy_KeepsHidden ==   \* mutant: ResetHiddenState is not called
  /\ prev_actions' = Default
  /\ last_joint_targets' = Default
  /\ UNCHANGED hidden

ForgetPolicy ==
  /\ prev_actions' = Default
  /\ hidden' = Default
  /\ last_joint_targets' = Default

Sense ==
  /\ rt_pc = "sense" /\ valid
  /\ IF ResetJump THEN ForgetPolicy ELSE UNCHANGED memVars
  /\ rt_reset' = ResetJump
  /\ last_attitude' = attitude
  /\ rt_pc' = "submit"
  /\ UNCHANGED <<cmdVars, state, age, is_inferring, tasks, metrics, sent,
                 envVars, cqVars, rt_state, wkVars, late, fate>>
(* TaskProfile, in tenths.                                                  *)
GetTaskProfile(type) ==
  CASE type = "NAVIGATE" -> [velocity_scale |-> 10, action_scale |-> 10]
    [] type = "FOLLOW"   -> [velocity_scale |-> 6,  action_scale |-> 8]
    [] type = "PICK"     -> [velocity_scale |-> 3,  action_scale |-> 5]
    [] OTHER             -> [velocity_scale |-> 0,  action_scale |-> 0]

FrameProfile ==
  IF rt_state = "STANDING" THEN [velocity_scale |-> 10, action_scale |-> 10]
                           ELSE GetTaskProfile(current_task_type)

(* The type and the generation are read in one section of cmd_mtx_.         *)
NewFrame ==
  [gen |-> task_generation, profile |-> FrameProfile, reset |-> rt_reset]

(* A full queue releases the slot and drops the frame.                      *)
Rejected ==
  /\ is_inferring' = FALSE
  /\ CountDropped
  /\ UNCHANGED tasks

Submit ==
  /\ rt_pc = "submit"
  /\ rt_pc' = "sleep"
  /\ IF Len(tasks) < MaxQueue
     THEN tasks' = Append(tasks, NewFrame) /\ UNCHANGED <<is_inferring, metrics>>
     ELSE Rejected
  /\ UNCHANGED <<cmdVars, state, age, memVars, sent, envVars, cqVars, rt_state,
                 rt_reset, last_attitude, wkVars, late, fate>>

(***************************************************************************)
(* The lambda, on the wk thread.                                           *)
(***************************************************************************)
Dequeue ==
  /\ wk_pc = "idle" /\ tasks # << >>
  /\ wk_frame' = Head(tasks)
  /\ tasks' = Tail(tasks)
  /\ wk_pc' = "infer"
  /\ UNCHANGED <<cmdVars, state, age, is_inferring, memVars, metrics, sent,
                 envVars, cqVars, rtVars, late, fate>>

(* BuildObservation reads prev_actions_ and Forward steps the LSTM.  As     *)
(* PolicyModel may guard its own state, Forward and ResetHiddenState do not *)
(* overlap here.                                                            *)
Infer ==
  /\ wk_pc = "infer"
  /\ hidden' = wk_frame.gen
  /\ wk_pc' = "check"
  /\ UNCHANGED <<cmdVars, state, age, is_inferring, tasks, prev_actions,
                 last_joint_targets, metrics, sent, envVars, cqVars, rtVars,
                 wk_frame, late, fate>>

AfterThrow_SlotKept == "idle"   \* mutant: an exception skips the release

AfterThrow == "release"

InferThrows ==
  /\ wk_pc = "infer"
  /\ Resolve("failed")
  /\ wk_pc' = AfterThrow
  /\ UNCHANGED <<cmdVars, state, age, is_inferring, tasks, memVars, metrics,
                 sent, envVars, cqVars, rtVars, wk_frame, late>>

Superseded_Never == FALSE    \* mutant: the generations are not compared

Superseded == wk_frame.gen # task_generation

AdmitResult ==
  /\ wk_pc = "check" /\ ~ Superseded
  /\ wk_pc' = "publish"
  /\ UNCHANGED <<cmdVars, state, age, is_inferring, tasks, memVars, metrics,
                 sent, envVars, cqVars, rtVars, wk_frame, late, fate>>

DiscardResult ==
  /\ wk_pc = "check" /\ Superseded
  /\ Count("stale")
  /\ wk_pc' = "release"
  /\ UNCHANGED <<cmdVars, state, age, is_inferring, tasks, memVars, sent,
                 envVars, cqVars, rtVars, wk_frame, late, fate>>

PublishResult ==
  /\ wk_pc = "publish"
  /\ sent' = wk_frame.gen
  /\ late' = IF wk_frame.gen # task_generation THEN late + 1 ELSE late
  /\ wk_pc' = "feed"
  /\ UNCHANGED <<cmdVars, state, age, is_inferring, tasks, memVars, metrics,
                 envVars, cqVars, rtVars, wk_frame, fate>>

(* ... or the publisher throws: the command is lost, nothing is remembered. *)
PublishThrows ==
  /\ wk_pc = "publish"
  /\ Resolve("failed")
  /\ wk_pc' = AfterThrow
  /\ UNCHANGED <<cmdVars, state, age, is_inferring, tasks, memVars, metrics,
                 sent, envVars, cqVars, rtVars, wk_frame, late>>

FeedResult ==
  /\ wk_pc = "feed"
  /\ FeedDog
  /\ wk_pc' = "remember"
  /\ UNCHANGED <<cmdVars, state, is_inferring, tasks, memVars, metrics, sent,
                 envVars, cqVars, rtVars, wk_frame, late, fate>>

RememberActions ==
  /\ wk_pc = "remember"
  /\ prev_actions' = wk_frame.gen
  /\ wk_pc' = "baseline"
  /\ UNCHANGED <<cmdVars, state, age, is_inferring, tasks, hidden,
                 last_joint_targets, metrics, sent, envVars, cqVars, rtVars,
                 wk_frame, late, fate>>

RememberTargets ==
  /\ wk_pc = "baseline"
  /\ last_joint_targets' = wk_frame.gen
  /\ Count("total")
  /\ wk_pc' = "release"
  /\ UNCHANGED <<cmdVars, state, age, is_inferring, tasks, prev_actions,
                 hidden, sent, envVars, cqVars, rtVars, wk_frame, late, fate>>

ReleaseSlot ==
  /\ wk_pc = "release"
  /\ is_inferring' = FALSE
  /\ wk_pc' = "idle"
  /\ UNCHANGED <<cmdVars, state, age, tasks, memVars, metrics, sent, envVars,
                 cqVars, rtVars, wk_frame, late, fate>>

(***************************************************************************)
(* The environment: the clock, and the callbacks of RosNode.               *)
(***************************************************************************)
Tick ==
  /\ age <= Timeout
  /\ age' = age + 1
  /\ UNCHANGED <<cmdVars, state, is_inferring, tasks, memVars, metrics, sent,
                 envVars, cqVars, rtVars, wkVars, late, fate>>

SensorsArrive ==
  /\ ~ valid
  /\ valid' = TRUE
  /\ UNCHANGED <<cmdVars, state, age, is_inferring, tasks, memVars, metrics,
                 sent, attitude, cqVars, rtVars, wkVars, late, fate>>

ImuReport ==
  /\ attitude' \in Attitudes
  /\ UNCHANGED <<cmdVars, state, age, is_inferring, tasks, memVars, metrics,
                 sent, valid, cqVars, rtVars, wkVars, late, fate>>

-----------------------------------------------------------------------------
HandleTask == BumpGeneration \/ EnterState \/ StopZeroPrev \/ StopResetHidden
              \/ StopBaseline \/ StopPublish \/ FinishTask

ControlLoopStep == Wake \/ CheckState \/ Demote \/ ZeroVelocity \/ LoadState
                   \/ ClaimSlot \/ DropFrame \/ SkipFrame \/ Sense \/ Submit

ForwardReturns == Infer \/ InferThrows

RunFrame == Dequeue \/ AdmitResult \/ DiscardResult \/ PublishResult
            \/ PublishThrows \/ FeedResult \/ RememberActions \/ RememberTargets \/ ReleaseSlot

Environment == Tick \/ SensorsArrive \/ ImuReport

Next ==
  \/ \E type \in TaskTypes : AcceptTask(type)
  \/ HandleTask
  \/ ControlLoopStep
  \/ ForwardReturns
  \/ RunFrame
  \/ Environment

Spec == Init /\ [][Next]_vars

(* The three threads keep running and time passes.  Nothing is assumed of   *)
(* the cloud or of the sensors, and Forward may never return.               *)
FairSpec ==
  /\ Spec
  /\ WF_vars(HandleTask) /\ WF_vars(ControlLoopStep)
  /\ WF_vars(RunFrame) /\ WF_vars(Tick)

-----------------------------------------------------------------------------
(***************************************************************************)
(* Properties.                                                             *)
(***************************************************************************)

(* Every variable has its type.  That state is EXECUTING or STANDING also   *)
(* says that the last branch of ControlLoopStep (ai_brain.cpp:330) is never *)
(* taken once the constructor has stored the initial state.                 *)
TypeOK ==
  /\ task_generation \in Generations
  /\ current_task_type \in AllTaskTypes
  /\ velocity_cmd \in Tags
  /\ state \in {"EXECUTING", "STANDING"}
  /\ age \in 0 .. Timeout + 1
  /\ is_inferring \in BOOLEAN
  /\ tasks \in Seq(Frames)
  /\ prev_actions \in Tags /\ hidden \in Tags /\ last_joint_targets \in Tags
  /\ metrics \in [total : Counts, dropped : Counts, stale : Counts]
  /\ sent \in Tags \cup {Nothing}
  /\ valid \in BOOLEAN
  /\ attitude \in AllAttitudes /\ last_attitude \in AllAttitudes
  /\ cq_pc \in CqSteps /\ cq_type \in AllTaskTypes
  /\ rt_pc \in RtSteps /\ rt_state \in {"EXECUTING", "STANDING"}
  /\ rt_reset \in BOOLEAN
  /\ wk_pc \in WkSteps /\ wk_frame \in Frames
  /\ late \in Nat
  /\ fate \in [ticks : Counts, skipped : Counts, failed : Counts]

(* is_inferring_ is a baton: while it is set exactly one of the control     *)
(* thread, the queue of the inference pool and the worker owns the frame,   *)
(* and while it is clear none does.  No lock says so: the flag is set by    *)
(* one thread and cleared by another, on four different paths.              *)
ControlOwns == rt_pc \in {"sense", "submit"}
QueueOwns   == tasks # << >>
WorkerOwns  == wk_pc # "idle"

OneOwner ==
  /\ is_inferring <=> (ControlOwns \/ QueueOwns \/ WorkerOwns)
  /\ ~ (ControlOwns /\ QueueOwns)
  /\ ~ (ControlOwns /\ WorkerOwns)
  /\ ~ (QueueOwns /\ WorkerOwns)
  /\ Len(tasks) <= 1

(* The backpressure path of ControlLoopStep (ai_brain.cpp:324) is dead: the *)
(* pool's queue has room whenever a frame is submitted.                     *)
NeverBackpressure == rt_pc = "submit" => Len(tasks) < MaxQueue

(* Every tick that reaches the slot is accounted for exactly once: as a     *)
(* published, stale or dropped frame in the metrics, as a frame skipped for *)
(* want of sensors or lost to an exception, or as the frame in flight.      *)
FramesAccounted ==
  fate.ticks = (metrics.total + metrics.stale + metrics.dropped
                + fate.skipped + fate.failed
                + (IF is_inferring /\ wk_pc # "release" THEN 1 ELSE 0))
               % CounterMod

(* A frame built on the tick that saw the simulator reset is inferred from  *)
(* zeroed actions and a zeroed LSTM state, and limited from the default     *)
(* posture, whatever the other threads did in between.                      *)
PolicyForgotten ==
  prev_actions = Default /\ hidden = Default /\ last_joint_targets = Default

ResetFrameIsClean ==
  /\ rt_pc = "submit" /\ rt_reset => PolicyForgotten
  /\ \A i \in DOMAIN tasks : tasks[i].reset => PolicyForgotten
  /\ wk_pc = "infer" /\ wk_frame.reset => PolicyForgotten

(* What a task leaves behind - the LSTM state, the actions and the base of  *)
(* the rate limit its frames remember, the command they send - is never     *)
(* replaced by what a frame of an older task leaves, although frames        *)
(* outlive the task they were built for and write these four at four        *)
(* different moments: only a task as new or newer, or a reset, replaces it. *)
(* Two frames of one task are not told apart here.  (Behind the reset of a  *)
(* stop a frame of the task it stopped may still leave its own.)            *)
NotOlder(old, new) == new = Default \/ new >= old

NoOlderTraces ==
  [][/\ NotOlder(hidden, hidden')
     /\ NotOlder(prev_actions, prev_actions')
     /\ NotOlder(last_joint_targets, last_joint_targets')
     /\ NotOlder(sent, sent')]_<<memVars, sent>>

(* When frames stop succeeding and commands stop coming, for instance       *)
(* because Forward hangs with the slot taken, the watchdog gets the robot   *)
(* out of EXECUTING for good.                                               *)
SilenceEndsExecution ==
  (<>[](wk_pc # "feed") /\ <>[](cq_pc = "idle")) => <>[](state = "STANDING")

(* If every call of Forward returns or throws, the slot is always released  *)
(* again, whichever of the four paths the frame takes.                      *)
SlotReleased ==
  []<>(wk_pc # "infer") => (is_inferring ~> ~ is_inferring)

(* The brain implements CommandGate: whatever the interleaving, commands    *)
(* reach the robot only through the generation check, one at a time, and    *)
(* only a command that had passed the check when its task was preempted can *)
(* be late.                                                                 *)
Gate == INSTANCE CommandGate WITH
  current   <- task_generation,
  admitted  <- IF wk_pc = "publish" THEN wk_frame.gen ELSE Nothing,
  delivered <- sent

ImplementsGate == Gate!Spec
=============================================================================
