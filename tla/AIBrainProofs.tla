---------------------------- MODULE AIBrainProofs ----------------------------
(***************************************************************************)
(* What TLC checks of AIBrain on small instances, proved for every number  *)
(* of tasks, every timeout, every queue capacity and every counter width.  *)
(***************************************************************************)
EXTENDS AIBrain, SequenceTheorems, TLAPS

USE ConstantsAssumption DEF AllTaskTypes, AllAttitudes

-----------------------------------------------------------------------------
(* The wrapping counters stay within their width.                           *)
LEMMA IncType ==
  ASSUME NEW n \in Counts
  PROVE  Inc(n) \in Counts
BY DEF Inc, Counts

LEMMA CountType ==
  ASSUME TypeOK, NEW c \in {"total", "dropped", "stale"}, Count(c)
  PROVE  metrics' \in [total : Counts, dropped : Counts, stale : Counts]
<1>1. Inc(metrics[c]) \in Counts
  BY IncType DEF TypeOK
<1>2. QED
  BY <1>1 DEF Count, TypeOK

LEMMA ResolveType ==
  ASSUME TypeOK, NEW f \in {"ticks", "skipped", "failed"}, Resolve(f)
  PROVE  fate' \in [ticks : Counts, skipped : Counts, failed : Counts]
<1>1. Inc(fate[f]) \in Counts
  BY IncType DEF TypeOK
<1>2. QED
  BY <1>1 DEF Resolve, TypeOK

(* Whatever type of task is current, the frame's profile is a profile.      *)
LEMMA FrameProfileType == FrameProfile \in Profiles
BY DEF FrameProfile, GetTaskProfile, Profiles

-----------------------------------------------------------------------------
(* TypeOK is not inductive by itself: that BumpGeneration stays within      *)
(* MaxTasks follows from the guard of the AcceptTask before it.             *)
RoomForTask == cq_pc = "bump" => task_generation < MaxTasks

TypeInv == TypeOK /\ RoomForTask

LEMMA TypeInit == Init => TypeInv
<1> SUFFICES ASSUME Init PROVE TypeInv
  OBVIOUS
<1>1. wk_frame \in Frames
  BY DEF Init, NoFrame, Frames, Profiles, Generations
<1>2. /\ metrics \in [total : Counts, dropped : Counts, stale : Counts]
      /\ fate \in [ticks : Counts, skipped : Counts, failed : Counts]
  BY DEF Init, Counts
<1>3. tasks \in Seq(Frames)
  BY DEF Init
<1>4. task_generation \in Generations /\ age \in 0 .. Timeout + 1
  BY DEF Init, Generations
<1>5. QED
  BY <1>1, <1>2, <1>3, <1>4 DEF Init, TypeInv, TypeOK, RoomForTask,
     InitialState, Tags, CqSteps, RtSteps, WkSteps

LEMMA TypeTask ==
  ASSUME TypeInv, HandleTask \/ \E type \in TaskTypes : AcceptTask(type)
  PROVE  TypeInv'
<1> USE DEF TypeInv, TypeOK, RoomForTask, Generations, Tags, CqSteps, cmdVars,
            memVars, envVars, cqVars, rtVars, wkVars, FeedDog
<1>1. ASSUME NEW type \in TaskTypes, AcceptTask(type) PROVE TypeInv'
  BY <1>1 DEF AcceptTask
<1>2. CASE BumpGeneration
  BY <1>2 DEF BumpGeneration
<1>3. CASE EnterState
  BY <1>3 DEF EnterState
<1>4. CASE StopZeroPrev
  BY <1>4 DEF StopZeroPrev
<1>5. CASE StopResetHidden
  BY <1>5 DEF StopResetHidden
<1>6. CASE StopBaseline
  BY <1>6 DEF StopBaseline
<1>7. CASE StopPublish
  BY <1>7 DEF StopPublish
<1>8. CASE FinishTask
  BY <1>8 DEF FinishTask
<1>9. QED
  BY <1>1, <1>2, <1>3, <1>4, <1>5, <1>6, <1>7, <1>8 DEF HandleTask

LEMMA TypeControl ==
  ASSUME TypeInv, ControlLoopStep
  PROVE  TypeInv'
<1> USE DEF TypeInv, TypeOK, RoomForTask, RtSteps, cmdVars, memVars, envVars,
            cqVars, wkVars
<1>1. CASE Wake \/ CheckState \/ LoadState
  <2>1. rt_reset' \in BOOLEAN /\ rt_pc' \in RtSteps
    BY <1>1 DEF Wake, CheckState, LoadState
  <2>2. QED
    BY <1>1, <2>1 DEF Wake, CheckState, LoadState
<1>2. CASE Demote \/ ZeroVelocity
  BY <1>2 DEF Demote, ZeroVelocity, Tags
<1>3. CASE ClaimSlot
  <2>1. fate' \in [ticks : Counts, skipped : Counts, failed : Counts]
    BY <1>3, ResolveType DEF ClaimSlot
  <2>2. QED
    BY <1>3, <2>1 DEF ClaimSlot
<1>4. CASE DropFrame
  <2>1. fate' \in [ticks : Counts, skipped : Counts, failed : Counts]
    BY <1>4, ResolveType DEF DropFrame
  <2>2. metrics' \in [total : Counts, dropped : Counts, stale : Counts]
    BY <1>4, CountType DEF DropFrame, CountDropped
  <2>3. QED
    BY <1>4, <2>1, <2>2 DEF DropFrame
<1>5. CASE SkipFrame
  <2>1. fate' \in [ticks : Counts, skipped : Counts, failed : Counts]
    BY <1>5, ResolveType DEF SkipFrame
  <2>2. is_inferring' \in BOOLEAN /\ rt_pc' \in RtSteps
    BY <1>5 DEF SkipFrame
  <2>3. QED
    BY <1>5, <2>1, <2>2 DEF SkipFrame
<1>6. CASE Sense
  <2>1. rt_reset' \in BOOLEAN /\ rt_pc' \in RtSteps
    BY <1>6 DEF Sense, ResetJump
  <2>2. /\ prev_actions' \in Tags /\ hidden' \in Tags
        /\ last_joint_targets' \in Tags
    BY <1>6 DEF Sense, ForgetPolicy, Tags
  <2>3. QED
    BY <1>6, <2>1, <2>2 DEF Sense
<1>7. CASE Submit
  <2>1. /\ tasks' \in Seq(Frames)
        /\ metrics' \in [total : Counts, dropped : Counts, stale : Counts]
        /\ is_inferring' \in BOOLEAN
    <3>1. CASE Len(tasks) < MaxQueue
      <4> DEFINE frame == [gen |-> task_generation, profile |-> FrameProfile,
                           reset |-> rt_reset]
      <4>1. frame \in Frames
        BY FrameProfileType DEF Frames
      <4>2. tasks' = Append(tasks, frame)
        BY <1>7, <3>1 DEF Submit, NewFrame
      <4>3. tasks' \in Seq(Frames)
        BY <4>1, <4>2
      <4>4. QED
        BY <1>7, <3>1, <4>3 DEF Submit, NewFrame
    <3>2. CASE ~ (Len(tasks) < MaxQueue)
      BY <1>7, <3>2, CountType DEF Submit, Rejected, CountDropped
    <3>3. QED
      BY <3>1, <3>2
  <2>2. QED
    BY <1>7, <2>1 DEF Submit
<1>8. QED
  BY <1>1, <1>2, <1>3, <1>4, <1>5, <1>6, <1>7 DEF ControlLoopStep

LEMMA TypeWorker ==
  ASSUME TypeInv, ForwardReturns \/ RunFrame
  PROVE  TypeInv'
<1> USE DEF TypeInv, TypeOK, RoomForTask, WkSteps, cmdVars, memVars, envVars,
            cqVars, rtVars, Tags
<1>1. CASE Dequeue
  <2>1. wk_frame' \in Frames
    BY <1>1 DEF Dequeue, TypeOK
  <2>2. tasks' \in Seq(Frames)
    BY <1>1 DEF Dequeue
  <2>3. QED
    BY <1>1, <2>1, <2>2 DEF Dequeue
<1>2. CASE Infer
  BY <1>2 DEF Infer, Frames
<1>3. CASE InferThrows \/ PublishThrows
  <2>1. fate' \in [ticks : Counts, skipped : Counts, failed : Counts]
    BY <1>3, ResolveType DEF InferThrows, PublishThrows
  <2>2. QED
    BY <1>3, <2>1 DEF InferThrows, PublishThrows, AfterThrow
<1>4. CASE AdmitResult
  BY <1>4 DEF AdmitResult
<1>5. CASE DiscardResult
  <2>1. metrics' \in [total : Counts, dropped : Counts, stale : Counts]
    BY <1>5, CountType DEF DiscardResult
  <2>2. QED
    BY <1>5, <2>1 DEF DiscardResult
<1>6. CASE PublishResult
  BY <1>6 DEF PublishResult, Frames
<1>7. CASE FeedResult \/ RememberActions
  BY <1>7 DEF FeedResult, RememberActions, FeedDog, Frames
<1>8. CASE RememberTargets
  <2>1. metrics' \in [total : Counts, dropped : Counts, stale : Counts]
    BY <1>8, CountType DEF RememberTargets
  <2>2. QED
    BY <1>8, <2>1 DEF RememberTargets, Frames
<1>9. CASE ReleaseSlot
  <2>1. is_inferring' \in BOOLEAN /\ wk_pc' \in WkSteps
    BY <1>9 DEF ReleaseSlot
  <2>2. QED
    BY <1>9, <2>1 DEF ReleaseSlot
<1>10. QED
  BY <1>1, <1>2, <1>3, <1>4, <1>5, <1>6, <1>7, <1>8, <1>9
     DEF ForwardReturns, RunFrame

LEMMA TypeEnvironment ==
  ASSUME TypeInv, Environment
  PROVE  TypeInv'
<1> USE DEF TypeInv, TypeOK, RoomForTask, cmdVars, memVars, envVars, cqVars,
            rtVars, wkVars
<1>1. CASE Tick
  BY <1>1 DEF Tick
<1>2. CASE SensorsArrive \/ ImuReport
  <2>1. valid' \in BOOLEAN /\ attitude' \in AllAttitudes
    BY <1>2 DEF SensorsArrive, ImuReport
  <2>2. QED
    BY <1>2, <2>1 DEF SensorsArrive, ImuReport
<1>3. QED
  BY <1>1, <1>2 DEF Environment

LEMMA TypeStutter ==
  ASSUME TypeInv, UNCHANGED vars
  PROVE  TypeInv'
BY DEF TypeInv, TypeOK, RoomForTask, vars, cmdVars, memVars, envVars, cqVars,
       rtVars, wkVars

LEMMA TypeStep == TypeInv /\ [Next]_vars => TypeInv'
BY TypeTask, TypeControl, TypeWorker, TypeEnvironment, TypeStutter DEF Next

(* TypeOK: in every reachable state each variable has its type; above all   *)
(* the brain is EXECUTING or STANDING, so the branch of ControlLoopStep for *)
(* other states is dead from the constructor on (ai_brain.cpp:85, 177,      *)
(* 330-333).                                                                *)
THEOREM TypeCorrect == Spec => []TypeOK
<1>1. TypeInv => TypeOK
  BY DEF TypeInv
<1>2. QED
  BY <1>1, TypeInit, TypeStep, PTL DEF Spec

-----------------------------------------------------------------------------
(* The slot.  OneOwner is inductive over typed states: every path hands the *)
(* frame on or clears the flag, and only an unowned slot can be claimed.    *)
LEMMA OwnerControl ==
  ASSUME TypeOK, OneOwner, ControlLoopStep
  PROVE  OneOwner'
<1> USE DEF OneOwner, ControlOwns, QueueOwns, WorkerOwns, wkVars
<1>1. CASE Wake \/ CheckState \/ Demote \/ ZeroVelocity \/ LoadState
  BY <1>1 DEF Wake, CheckState, LoadState, Demote, ZeroVelocity
<1>2. CASE ClaimSlot
  BY <1>2 DEF ClaimSlot, SlotFree
<1>3. CASE DropFrame
  BY <1>3 DEF DropFrame
<1>4. CASE SkipFrame
  BY <1>4 DEF SkipFrame
<1>5. CASE Sense
  BY <1>5 DEF Sense
<1>6. CASE Submit
  <2>1. tasks = << >> /\ Len(tasks) < MaxQueue /\ wk_pc = "idle"
    BY <1>6 DEF Submit
  <2>2. PICK frame \in Frames : tasks' = Append(tasks, frame)
    BY <1>6, <2>1, FrameProfileType DEF Submit, NewFrame, TypeOK, Frames
  <2>3. tasks' # << >> /\ Len(tasks') = 1
    BY <2>1, <2>2
  <2>4. is_inferring' /\ rt_pc' = "sleep" /\ wk_pc' = "idle"
    BY <1>6, <2>1 DEF Submit
  <2>5. QED
    BY <2>3, <2>4
<1>7. QED
  BY <1>1, <1>2, <1>3, <1>4, <1>5, <1>6 DEF ControlLoopStep

LEMMA OwnerWorker ==
  ASSUME TypeOK, OneOwner, ForwardReturns \/ RunFrame
  PROVE  OneOwner'
<1> USE DEF OneOwner, ControlOwns, QueueOwns, WorkerOwns, rtVars
<1>1. CASE Dequeue
  <2>1. tasks \in Seq(Frames) /\ tasks # << >> /\ tasks' = Tail(tasks)
    BY <1>1 DEF Dequeue, TypeOK
  <2>2. tasks' \in Seq(Frames) /\ Len(tasks') = Len(tasks) - 1
    BY <2>1, HeadTailProperties
  <2>3. Len(tasks') = 0
    BY <2>1, <2>2, EmptySeq
  <2>4. tasks' = << >>
    BY <2>2, <2>3, EmptySeq
  <2>5. is_inferring' /\ rt_pc' \notin {"sense", "submit"} /\ wk_pc' = "infer"
    BY <1>1, <2>1 DEF Dequeue
  <2>6. QED
    BY <2>3, <2>4, <2>5
<1>2. CASE ReleaseSlot
  BY <1>2 DEF ReleaseSlot
<1>3. CASE Infer \/ InferThrows \/ PublishThrows \/ AdmitResult \/ DiscardResult
  BY <1>3 DEF Infer, InferThrows, PublishThrows, AfterThrow, AdmitResult,
     DiscardResult
<1>4. CASE PublishResult \/ FeedResult \/ RememberActions \/ RememberTargets
  BY <1>4 DEF PublishResult, FeedResult, RememberActions, RememberTargets
<1>5. QED
  BY <1>1, <1>2, <1>3, <1>4 DEF ForwardReturns, RunFrame

(* The steps that leave the slot, the queue and the two owners alone.       *)
ownVars == <<is_inferring, tasks, rtVars, wkVars>>

LEMMA OthersOwnNothing ==
  ASSUME HandleTask \/ Environment \/ UNCHANGED vars
         \/ \E type \in TaskTypes : AcceptTask(type)
  PROVE  UNCHANGED ownVars
BY DEF ownVars, vars, HandleTask, AcceptTask, BumpGeneration, EnterState,
   StopZeroPrev, StopResetHidden, StopBaseline, StopPublish, FinishTask,
   Environment, Tick, SensorsArrive, ImuReport

LEMMA OwnerStep == TypeOK /\ OneOwner /\ [Next]_vars => OneOwner'
<1> SUFFICES ASSUME TypeOK, OneOwner, [Next]_vars PROVE OneOwner'
  OBVIOUS
<1>1. CASE ControlLoopStep \/ ForwardReturns \/ RunFrame
  BY <1>1, OwnerControl, OwnerWorker
<1>2. CASE UNCHANGED ownVars
  BY <1>2 DEF ownVars, rtVars, wkVars, OneOwner, ControlOwns, QueueOwns,
     WorkerOwns
<1>3. QED
  BY <1>1, <1>2, OthersOwnNothing DEF Next

LEMMA OwnerInit == Init => OneOwner
BY DEF Init, OneOwner, ControlOwns, QueueOwns, WorkerOwns

(* OneOwner: is_inferring_ passes one frame at a time from the control      *)
(* thread through the queue to the worker, on every path of ControlLoopStep *)
(* and of its lambda (ai_brain.cpp:179, 186, 238, 321, 326).                *)
THEOREM OneOwnerAlways == Spec => []OneOwner
BY OwnerInit, OwnerStep, TypeCorrect, PTL DEF Spec

(* NeverBackpressure: for any capacity of the pool's queue a frame finds    *)
(* room, so ai_brain.cpp:324-328 is dead code.                              *)
THEOREM NeverBackpressureAlways == Spec => []NeverBackpressure
<1>1. OneOwner => NeverBackpressure
  BY DEF OneOwner, NeverBackpressure, ControlOwns, QueueOwns
<1>2. QED
  BY <1>1, OneOwnerAlways, PTL

-----------------------------------------------------------------------------
(* The reset frame.  While the worker holds the slot no other frame is in   *)
(* flight, so only the emergency stop can write the policy's memory between *)
(* the tick that cleared it and the inference, and it writes the same.      *)
LEMMA NoFrameBesideWorker ==
  ASSUME TypeOK, OneOwner, WorkerOwns
  PROVE  rt_pc # "submit" /\ DOMAIN tasks = {}
<1>1. tasks = << >> /\ rt_pc # "submit"
  BY DEF OneOwner, ControlOwns, QueueOwns
<1>2. QED
  BY <1>1

LEMMA ResetWorker ==
  ASSUME TypeOK, OneOwner, ResetFrameIsClean, ForwardReturns \/ RunFrame
  PROVE  ResetFrameIsClean'
<1> USE DEF ResetFrameIsClean, PolicyForgotten, rtVars
<1>1. CASE Dequeue
  <2>1. tasks \in Seq(Frames) /\ tasks # << >> /\ Len(tasks) \in Nat \ {0}
    BY <1>1, EmptySeq DEF Dequeue, TypeOK
  <2>2. 1 \in DOMAIN tasks /\ wk_frame' = tasks[1]
    BY <1>1, <2>1 DEF Dequeue
  <2>3. PolicyForgotten' <=> PolicyForgotten
    BY <1>1 DEF Dequeue, memVars
  <2>4. rt_pc' # "submit"
    BY <1>1 DEF Dequeue, OneOwner, ControlOwns, QueueOwns
  <2>5. tasks' = << >>
    <3>1. tasks' \in Seq(Frames) /\ Len(tasks') = Len(tasks) - 1
      <4>1. tasks' = Tail(tasks)
        BY <1>1 DEF Dequeue
      <4>2. QED
        BY <2>1, <4>1, HeadTailProperties
    <3>2. Len(tasks') = 0
      BY <2>1, <3>1 DEF OneOwner
    <3>3. QED
      BY <3>1, <3>2, EmptySeq
  <2>6. QED
    BY <2>2, <2>3, <2>4, <2>5
<1>2. CASE ForwardReturns \/ AdmitResult \/ DiscardResult \/ PublishResult
           \/ PublishThrows \/ FeedResult \/ RememberActions
           \/ RememberTargets \/ ReleaseSlot
  <2>1. WorkerOwns
    BY <1>2 DEF WorkerOwns, ForwardReturns, Infer, InferThrows, AdmitResult,
       PublishThrows, DiscardResult, PublishResult, FeedResult, RememberActions,
       RememberTargets, ReleaseSlot
  <2>2. UNCHANGED <<tasks, rt_pc>> /\ wk_pc' # "infer"
    BY <1>2 DEF ForwardReturns, Infer, InferThrows, AfterThrow, AdmitResult,
       PublishThrows, DiscardResult, PublishResult, FeedResult, RememberActions,
       RememberTargets, ReleaseSlot
  <2>3. QED
    BY <2>1, <2>2, NoFrameBesideWorker
<1>3. QED
  BY <1>1, <1>2 DEF RunFrame

LEMMA ResetControl ==
  ASSUME TypeOK, OneOwner, ResetFrameIsClean, ControlLoopStep
  PROVE  ResetFrameIsClean'
<1> USE DEF ResetFrameIsClean
<1>1. CASE Wake \/ CheckState \/ Demote \/ ZeroVelocity \/ LoadState \/ ClaimSlot
           \/ DropFrame \/ SkipFrame
  <2>1. UNCHANGED <<tasks, wkVars, memVars>> /\ rt_pc' # "submit"
    BY <1>1 DEF Wake, CheckState, LoadState, Demote, ZeroVelocity, ClaimSlot, DropFrame,
       SkipFrame
  <2>2. QED
    BY <2>1 DEF wkVars, memVars, PolicyForgotten
<1>2. CASE Sense
  <2>1. tasks = << >> /\ wk_pc = "idle" /\ UNCHANGED <<tasks, wk_pc>>
    BY <1>2 DEF Sense, OneOwner, ControlOwns, QueueOwns, WorkerOwns, wkVars
  <2>2. rt_reset' => PolicyForgotten'
    BY <1>2 DEF Sense, ForgetPolicy, PolicyForgotten
  <2>3. QED
    BY <2>1, <2>2
<1>3. CASE Submit
  <2>1. tasks = << >> /\ Len(tasks) < MaxQueue /\ wk_pc = "idle"
    BY <1>3 DEF Submit, OneOwner, ControlOwns, QueueOwns, WorkerOwns
  <2> DEFINE frame == [gen |-> task_generation, profile |-> FrameProfile,
                       reset |-> rt_reset]
  <2>2. tasks' = Append(tasks, frame)
    BY <1>3, <2>1 DEF Submit, NewFrame
  <2>3. DOMAIN tasks' = {1} /\ tasks'[1] = frame
    BY <2>1, <2>2
  <2>4. /\ PolicyForgotten' <=> PolicyForgotten
        /\ rt_pc' = "sleep" /\ wk_pc' = "idle"
    BY <1>3, <2>1 DEF Submit, memVars, wkVars, PolicyForgotten
  <2>5. rt_reset => PolicyForgotten
    BY <1>3 DEF Submit
  <2>6. frame.reset => PolicyForgotten
    BY <2>5
  <2>7. QED
    BY <2>3, <2>4, <2>6
<1>4. QED
  BY <1>1, <1>2, <1>3 DEF ControlLoopStep

LEMMA ResetStep ==
  TypeOK /\ OneOwner /\ ResetFrameIsClean /\ [Next]_vars => ResetFrameIsClean'
<1> SUFFICES ASSUME TypeOK, OneOwner, ResetFrameIsClean, [Next]_vars
             PROVE  ResetFrameIsClean'
  OBVIOUS
<1>1. CASE ControlLoopStep \/ ForwardReturns \/ RunFrame
  BY <1>1, ResetControl, ResetWorker
<1>2. CASE \/ HandleTask \/ Environment \/ UNCHANGED vars
           \/ \E type \in TaskTypes : AcceptTask(type)
  <2>1. UNCHANGED ownVars
    BY <1>2, OthersOwnNothing
  <2>2. PolicyForgotten => PolicyForgotten'
    BY <1>2 DEF PolicyForgotten, memVars, vars, HandleTask, AcceptTask,
       BumpGeneration, EnterState, StopZeroPrev, StopResetHidden, StopBaseline,
       StopPublish, FinishTask, Environment, Tick, SensorsArrive, ImuReport
  <2>3. QED
    BY <2>1, <2>2 DEF ownVars, rtVars, wkVars, ResetFrameIsClean
<1>3. QED
  BY <1>1, <1>2 DEF Next

(* ResetFrameIsClean: no interleaving of the emergency stop and the worker  *)
(* puts memory of the old episode back between the tick that saw the        *)
(* simulator reset and the inference of its frame (ai_brain.cpp:197-203,    *)
(* 253-261, 298-301).                                                       *)
THEOREM ResetFrameIsCleanAlways == Spec => []ResetFrameIsClean
<1>1. Init => ResetFrameIsClean
  BY DEF Init, ResetFrameIsClean, NoFrame
<1>2. QED
  BY <1>1, ResetStep, TypeCorrect, OneOwnerAlways, PTL DEF Spec

-----------------------------------------------------------------------------
(* The control thread clears the policy's memory for a new episode only     *)
(* while it has the slot itself, with no frame queued or inferred: the      *)
(* worker is not there to read half of it (ai_brain.cpp:179, 197-203).      *)
(* JointTargets relies on it for its SimReset.                              *)
ForgetsAlone ==
  [][Sense /\ ~ UNCHANGED memVars => tasks = << >> /\ wk_pc = "idle"]_vars

THEOREM ForgetsAloneAlways == Spec => ForgetsAlone
<1>1. OneOwner /\ [Next]_vars
        => [Sense /\ ~ UNCHANGED memVars => tasks = << >> /\ wk_pc = "idle"]_vars
  BY DEF OneOwner, ControlOwns, QueueOwns, WorkerOwns, Sense
<1>2. QED
  BY <1>1, OneOwnerAlways, PTL DEF Spec, ForgetsAlone

-----------------------------------------------------------------------------
(* The traces.  A frame is tagged with the generation that is current when  *)
(* it is submitted, and it is the only one in flight: so it is at least as  *)
(* new as everything a frame before it has left behind.                     *)
NewerThanTraces(g) ==
  hidden <= g /\ prev_actions <= g /\ last_joint_targets <= g /\ sent <= g

TraceInv ==
  /\ NewerThanTraces(task_generation)
  /\ wk_pc # "idle" =>
       NewerThanTraces(wk_frame.gen) /\ wk_frame.gen <= task_generation
  /\ \A i \in DOMAIN tasks :
       NewerThanTraces(tasks[i].gen) /\ tasks[i].gen <= task_generation

LEMMA TraceTypes ==
  ASSUME TypeOK
  PROVE  /\ task_generation \in Nat /\ wk_frame.gen \in Nat
         /\ hidden \in Int /\ prev_actions \in Int
         /\ last_joint_targets \in Int /\ sent \in Int
         /\ \A i \in DOMAIN tasks : tasks[i] \in Frames /\ tasks[i].gen \in Nat
         /\ Default = -1
<1>1. \A i \in DOMAIN tasks : tasks[i] \in Frames
  BY DEF TypeOK
<1>2. QED
  BY <1>1 DEF TypeOK, Tags, Generations, Default, Nothing, Frames

LEMMA TraceInit == Init => TraceInv
BY DEF Init, TraceInv, NewerThanTraces, Default, Nothing

(* A task only moves the generation on, and a stop only clears.             *)
LEMMA TraceTask ==
  ASSUME TypeOK, TraceInv, HandleTask \/ \E type \in TaskTypes : AcceptTask(type)
  PROVE  TraceInv'
<1> USE TraceTypes DEF TraceInv, NewerThanTraces, wkVars
<1>1. CASE BumpGeneration
  BY <1>1 DEF BumpGeneration, memVars
<1>2. CASE StopZeroPrev \/ StopResetHidden \/ StopBaseline \/ StopPublish
  <2>1. UNCHANGED <<task_generation, tasks, wk_pc, wk_frame>>
    BY <1>2 DEF StopZeroPrev, StopResetHidden, StopBaseline, StopPublish, cmdVars
  <2>2. /\ hidden' \in {hidden, Default} /\ prev_actions' \in {prev_actions, Default}
        /\ last_joint_targets' \in {last_joint_targets, Default} /\ sent' \in {sent, Default}
    BY <1>2 DEF StopZeroPrev, StopResetHidden, StopBaseline, StopPublish, memVars
  <2>3. QED
    BY <2>1, <2>2
<1>3. CASE EnterState \/ FinishTask \/ \E type \in TaskTypes : AcceptTask(type)
  BY <1>3 DEF EnterState, FinishTask, AcceptTask, cmdVars, memVars
<1>4. QED
  BY <1>1, <1>2, <1>3 DEF HandleTask

(* The control thread clears, or submits a frame of the current generation. *)
LEMMA TraceControl ==
  ASSUME TypeOK, OneOwner, TraceInv, ControlLoopStep
  PROVE  TraceInv'
<1> USE TraceTypes DEF TraceInv, NewerThanTraces, wkVars, memVars
<1>1. CASE Wake \/ CheckState \/ Demote \/ ZeroVelocity \/ LoadState \/ ClaimSlot
           \/ DropFrame \/ SkipFrame
  BY <1>1 DEF Wake, CheckState, LoadState, Demote, ZeroVelocity, ClaimSlot, DropFrame,
     SkipFrame, cmdVars
<1>2. CASE Sense
  <2>1. UNCHANGED <<task_generation, tasks, wk_pc, wk_frame, sent>>
    BY <1>2 DEF Sense, cmdVars
  <2>2. /\ hidden' \in {hidden, Default} /\ prev_actions' \in {prev_actions, Default}
        /\ last_joint_targets' \in {last_joint_targets, Default}
    BY <1>2 DEF Sense, ForgetPolicy
  <2>3. QED
    BY <2>1, <2>2
<1>3. CASE Submit
  <2>1. tasks = << >> /\ Len(tasks) < MaxQueue
    BY <1>3 DEF Submit, OneOwner, ControlOwns, QueueOwns
  <2> DEFINE frame == [gen |-> task_generation, profile |-> FrameProfile,
                       reset |-> rt_reset]
  <2>2. tasks' = Append(tasks, frame)
    BY <1>3, <2>1 DEF Submit, NewFrame
  <2>3. DOMAIN tasks' = {1} /\ tasks'[1] = frame /\ frame.gen = task_generation
    BY <2>1, <2>2
  <2>4. UNCHANGED <<task_generation, memVars, sent, wk_pc, wk_frame>>
    BY <1>3, <2>1 DEF Submit, cmdVars
  <2> HIDE DEF frame
  <2>5. QED
    BY <2>3, <2>4
<1>4. QED
  BY <1>1, <1>2, <1>3 DEF ControlLoopStep

LEMMA SingleFrame ==
  ASSUME TypeOK, OneOwner, tasks # << >>
  PROVE  Len(tasks) = 1
<1> DEFINE n == Len(tasks)
<1>1. n \in Nat /\ n <= 1
  BY DEF TypeOK, OneOwner
<1>2. n # 0
  BY EmptySeq DEF TypeOK
<1> HIDE DEF n
<1>3. n = 1
  BY <1>1, <1>2
<1>4. QED
  BY <1>3 DEF n

(* The worker leaves traces of its frame, with no other in flight.          *)
LEMMA TraceWorker ==
  ASSUME TypeOK, OneOwner, TraceInv, ForwardReturns \/ RunFrame
  PROVE  TraceInv'
<1> USE TraceTypes DEF TraceInv, NewerThanTraces, rtVars, memVars
<1>1. CASE Dequeue
  <2>1. tasks \in Seq(Frames) /\ tasks # << >> /\ Len(tasks) = 1
    BY <1>1, SingleFrame DEF Dequeue, TypeOK
  <2>2. 1 \in DOMAIN tasks /\ wk_frame' = tasks[1] /\ tasks' = Tail(tasks)
    BY <1>1, <2>1 DEF Dequeue
  <2>3. tasks' \in Seq(Frames) /\ Len(tasks') = 0
    BY <2>1, <2>2, HeadTailProperties
  <2>4. UNCHANGED <<task_generation, memVars, sent>>
    BY <1>1 DEF Dequeue, cmdVars
  <2>5. DOMAIN tasks' = {}
    BY <2>3
  <2>6. QED
    BY <2>2, <2>4, <2>5
<1>2. CASE Infer \/ RememberActions \/ RememberTargets \/ PublishResult
  <2>1. DOMAIN tasks = {} /\ wk_pc # "idle"
    BY <1>2, NoFrameBesideWorker DEF WorkerOwns, Infer, RememberActions, RememberTargets, PublishResult
  <2>2. UNCHANGED <<task_generation, tasks, wk_frame>>
    BY <1>2 DEF Infer, RememberActions, RememberTargets, PublishResult, cmdVars
  <2>3. /\ hidden' \in {hidden, wk_frame.gen}
        /\ prev_actions' \in {prev_actions, wk_frame.gen}
        /\ last_joint_targets' \in {last_joint_targets, wk_frame.gen}
        /\ sent' \in {sent, wk_frame.gen}
    BY <1>2 DEF Infer, RememberActions, RememberTargets, PublishResult
  <2>4. QED
    BY <2>1, <2>2, <2>3
<1>3. CASE InferThrows \/ AdmitResult \/ DiscardResult \/ PublishThrows
           \/ FeedResult \/ ReleaseSlot
  <2>1. wk_pc # "idle" /\ UNCHANGED <<task_generation, tasks, wk_frame, memVars, sent>>
    BY <1>3 DEF InferThrows, AdmitResult, DiscardResult, PublishThrows,
       FeedResult, ReleaseSlot, cmdVars
  <2>2. QED
    BY <2>1
<1>4. QED
  BY <1>1, <1>2, <1>3 DEF ForwardReturns, RunFrame

LEMMA TraceStep == TypeOK /\ OneOwner /\ TraceInv /\ [Next]_vars => TraceInv'
<1> SUFFICES ASSUME TypeOK, OneOwner, TraceInv, [Next]_vars PROVE TraceInv'
  OBVIOUS
<1>1. CASE Environment \/ UNCHANGED vars
  <2>1. UNCHANGED <<task_generation, wkVars, tasks, memVars, sent>>
    BY <1>1 DEF Environment, Tick, SensorsArrive, ImuReport, vars, cmdVars
  <2>2. QED
    BY <2>1 DEF wkVars, memVars, TraceInv, NewerThanTraces
<1>2. QED
  BY <1>1, TraceTask, TraceControl, TraceWorker DEF Next

(* NoOlderTraces: whatever the interleaving, what a task has left in the    *)
(* LSTM, the remembered actions, the base of the rate limit and the topic   *)
(* is replaced only by a task as new or newer, or cleared (ai_brain.cpp:    *)
(* 261, 296, 298, 301 under the claim of the slot at 179 and the capture at *)
(* 217).  It does not order the frames of one task.                         *)
THEOREM NoOlderTracesAlways == Spec => NoOlderTraces
<1>1. TypeOK /\ TraceInv /\ [Next]_vars
        => [/\ NotOlder(hidden, hidden')
            /\ NotOlder(prev_actions, prev_actions')
            /\ NotOlder(last_joint_targets, last_joint_targets')
            /\ NotOlder(sent, sent')]_<<memVars, sent>>
  <2> SUFFICES ASSUME TypeOK, TraceInv, [Next]_vars,
                      ~ UNCHANGED <<memVars, sent>>
               PROVE  /\ NotOlder(hidden, hidden')
                      /\ NotOlder(prev_actions, prev_actions')
                      /\ NotOlder(last_joint_targets, last_joint_targets')
                      /\ NotOlder(sent, sent')
    OBVIOUS
  <2> USE TraceTypes DEF NotOlder, memVars
  <2>1. CASE Infer \/ RememberActions \/ RememberTargets \/ PublishResult
    <3>1. NewerThanTraces(wk_frame.gen)
      BY <2>1 DEF TraceInv, Infer, RememberActions, RememberTargets, PublishResult
    <3>2. /\ hidden' \in {hidden, wk_frame.gen}
          /\ prev_actions' \in {prev_actions, wk_frame.gen}
          /\ last_joint_targets' \in {last_joint_targets, wk_frame.gen}
          /\ sent' \in {sent, wk_frame.gen}
      BY <2>1 DEF Infer, RememberActions, RememberTargets, PublishResult
    <3>3. QED
      BY <3>1, <3>2 DEF NewerThanTraces
  <2>2. CASE StopZeroPrev \/ StopResetHidden \/ StopBaseline \/ StopPublish \/ Sense
    BY <2>2 DEF StopZeroPrev, StopResetHidden, StopBaseline, StopPublish, Sense, ForgetPolicy
  <2>3. CASE UNCHANGED <<memVars, sent>>
    BY <2>3
  <2>4. QED
    BY <2>1, <2>2, <2>3 DEF Next, vars, HandleTask, AcceptTask, BumpGeneration,
       EnterState, FinishTask, ControlLoopStep, Wake, CheckState, LoadState, Demote,
       ZeroVelocity, ClaimSlot, DropFrame, SkipFrame, Submit, NewFrame, Rejected, ForwardReturns,
       InferThrows, RunFrame, Dequeue, AdmitResult, DiscardResult,
       PublishThrows, FeedResult, ReleaseSlot, Environment, Tick,
       SensorsArrive, ImuReport
<1>2. QED
  BY <1>1, TraceInit, TraceStep, TypeCorrect, OneOwnerAlways, PTL
     DEF Spec, NoOlderTraces

-----------------------------------------------------------------------------
(* The refinement.  CommandGate's Preempt, Admit, Deliver, Drop and Stop    *)
(* are BumpGeneration, AdmitResult, PublishResult, PublishThrows and        *)
(* StopPublish; every other step leaves its variables alone.                *)
gated == <<task_generation, wkVars, sent, late>>

LEMMA GateStep == TypeInv /\ [Next]_vars => [Gate!Next]_(Gate!gateVars)
<1> SUFFICES ASSUME TypeInv, [Next]_vars PROVE [Gate!Next]_(Gate!gateVars)
  OBVIOUS
<1> USE DEF Gate!gateVars
<1>1. CASE BumpGeneration
  <2>1. Gate!Preempt
    BY <1>1 DEF BumpGeneration, Gate!Preempt, TypeInv, RoomForTask, wkVars
  <2>2. QED
    BY <2>1 DEF Gate!Next
<1>2. CASE AdmitResult
  <2>1. Gate!Admit
    BY <1>2 DEF AdmitResult, Superseded, Gate!Admit, cmdVars
  <2>2. QED
    BY <2>1 DEF Gate!Next
<1>3. CASE PublishResult
  <2>1. wk_frame.gen # Nothing
    BY DEF TypeInv, TypeOK, Frames, Generations, Nothing
  <2>2. Gate!Deliver
    BY <1>3, <2>1 DEF PublishResult, Gate!Deliver, cmdVars
  <2>3. QED
    BY <2>2 DEF Gate!Next
<1>4. CASE StopPublish
  <2>1. Gate!Stop
    BY <1>4 DEF StopPublish, Gate!Stop, cmdVars, wkVars
  <2>2. QED
    BY <2>1 DEF Gate!Next
<1>5. CASE Dequeue \/ ForwardReturns \/ DiscardResult \/ FeedResult
           \/ RememberActions \/ RememberTargets \/ ReleaseSlot
  BY <1>5 DEF ForwardReturns, Dequeue, Infer, InferThrows, AfterThrow, cmdVars,
     DiscardResult, FeedResult, RememberActions, RememberTargets, ReleaseSlot
<1>6. CASE UNCHANGED gated
  BY <1>6 DEF gated, wkVars
<1>7. CASE PublishThrows
  <2>1. wk_frame.gen # Nothing
    BY DEF TypeInv, TypeOK, Frames, Generations, Nothing
  <2>2. Gate!Drop
    BY <1>7, <2>1 DEF PublishThrows, AfterThrow, Gate!Drop, cmdVars
  <2>3. QED
    BY <2>2 DEF Gate!Next
<1>8. CASE (\E type \in TaskTypes : AcceptTask(type)) \/ EnterState
           \/ StopZeroPrev \/ StopResetHidden \/ StopBaseline \/ FinishTask
           \/ Environment
  BY <1>8, <1>6 DEF AcceptTask, EnterState, StopZeroPrev, StopResetHidden,
     StopBaseline, FinishTask, Environment, Tick, SensorsArrive, ImuReport,
     cmdVars, gated
<1>9. CASE ControlLoopStep
  BY <1>9, <1>6 DEF ControlLoopStep, Wake, CheckState, LoadState, Demote, ZeroVelocity,
     ClaimSlot, DropFrame, SkipFrame, Sense, Submit, NewFrame, Rejected, cmdVars, gated
<1>10. CASE UNCHANGED vars
  BY <1>10, <1>6 DEF vars, cmdVars, gated
<1>11. QED
  BY <1>1, <1>2, <1>3, <1>4, <1>5, <1>7, <1>8, <1>9, <1>10
     DEF Next, HandleTask, RunFrame

(* ImplementsGate: the three threads implement the thread-free CommandGate. *)
THEOREM ImplementsGateAlways == Spec => ImplementsGate
<1>1. Init => Gate!Init
  BY DEF Init, Gate!Init
<1>2. QED
  BY <1>1, GateStep, TypeInit, TypeStep, PTL DEF Spec, ImplementsGate, Gate!Spec

-----------------------------------------------------------------------------
(* What the gate comes to, for the brain.  Neither property is inductive: a *)
(* second late command, or a relapse into the old task, is impossible       *)
(* because after a command of the current task, or after the first late     *)
(* one, whatever waits to be delivered was admitted since the preemption.   *)
LateInv ==
  /\ late \in Nat /\ Gate!AtMostOneLate
  /\ sent <= task_generation
  /\ wk_pc = "publish" =>
       /\ wk_frame.gen <= task_generation
       /\ late = 1 \/ sent = task_generation => wk_frame.gen = task_generation

LEMMA LateStep ==
  TypeOK /\ LateInv /\ [Gate!Next]_(Gate!gateVars) /\ TypeInv' => LateInv'
<1> SUFFICES ASSUME TypeOK, LateInv, [Gate!Next]_(Gate!gateVars), TypeInv'
             PROVE  LateInv'
  OBVIOUS
<1> DEFINE admitted == IF wk_pc = "publish" THEN wk_frame.gen ELSE Nothing
<1>1. /\ admitted # Nothing <=> wk_pc = "publish"
      /\ admitted' # Nothing <=> wk_pc' = "publish"
      /\ wk_pc = "publish" => admitted = wk_frame.gen
      /\ wk_pc' = "publish" => admitted' = wk_frame'.gen
      /\ task_generation \in Nat /\ wk_frame.gen \in Nat
      /\ sent \in Int /\ sent' \in Int
  BY DEF TypeInv, TypeOK, Frames, Generations, Nothing, Tags, Default
<1> HIDE DEF admitted
<1> USE <1>1 DEF LateInv, Gate!AtMostOneLate
<1>2. CASE Gate!Preempt
  BY <1>2 DEF Gate!Preempt, admitted
<1>3. CASE Gate!Admit
  BY <1>3 DEF Gate!Admit, admitted
<1>4. CASE Gate!Deliver
  BY <1>4 DEF Gate!Deliver, admitted
<1>5. CASE Gate!Stop
  BY <1>5 DEF Gate!Stop, admitted, Default
<1>6. CASE Gate!Drop
  BY <1>6 DEF Gate!Drop, admitted
<1>7. CASE UNCHANGED Gate!gateVars
  BY <1>7 DEF Gate!gateVars, admitted
<1>8. QED
  BY <1>2, <1>3, <1>4, <1>5, <1>6, <1>7 DEF Gate!Next

LEMMA LateAlways == Spec => [](TypeInv /\ LateInv)
<1>1. Init => LateInv
  BY DEF Init, LateInv, Gate!AtMostOneLate, Nothing
<1>2. TypeInv /\ LateInv /\ [Next]_vars => LateInv'
  BY GateStep, TypeStep, LateStep DEF TypeInv
<1>3. QED
  BY <1>1, <1>2, TypeInit, TypeStep, PTL DEF Spec

(* However many tasks preempt each other and however the threads            *)
(* interleave, a preemption is followed by at most one command of an older  *)
(* task (ai_brain.cpp:137, 294-296).                                        *)
THEOREM AtMostOneLateAlways == Spec => []Gate!AtMostOneLate
<1>1. LateInv => Gate!AtMostOneLate
  BY DEF LateInv
<1>2. QED
  BY <1>1, LateAlways, PTL

(* Once a command of the current task has reached the robot, none of an     *)
(* older task does before the next preemption (ai_brain.cpp:294).           *)
THEOREM NoRelapseAlways == Spec => Gate!NoRelapse
<1>1. TypeInv /\ LateInv /\ [Next]_vars
        => [sent = task_generation /\ task_generation' = task_generation
              => sent' \in {task_generation, Default}]_(Gate!gateVars)
  <2> SUFFICES ASSUME TypeInv, LateInv, [Next]_vars, sent = task_generation,
                      task_generation' = task_generation
               PROVE  sent' \in {task_generation, Default}
    OBVIOUS
  <2>1. [Gate!Next]_(Gate!gateVars)
    BY GateStep
  <2>2. CASE Gate!Deliver
    <3>1. wk_pc = "publish" /\ sent' = wk_frame.gen
      BY <2>2 DEF Gate!Deliver
    <3>2. QED
      BY <3>1 DEF LateInv
  <2>3. CASE Gate!Preempt \/ Gate!Admit \/ Gate!Drop \/ Gate!Stop
             \/ UNCHANGED Gate!gateVars
    BY <2>3 DEF Gate!Preempt, Gate!Admit, Gate!Drop, Gate!Stop, Gate!gateVars
  <2>4. QED
    BY <2>1, <2>2, <2>3 DEF Gate!Next
<1>2. QED
  BY <1>1, LateAlways, PTL DEF Spec, Gate!NoRelapse

-----------------------------------------------------------------------------
(* The emergency stop.  That it has the last word is what TLC refutes       *)
(* (AIBrainClaims): a result that had passed the check is published after   *)
(* it.  This is the only way, so a stop that no late command has followed   *)
(* stands: the topic holds its default posture or a frame of its own task   *)
(* (ai_brain.cpp:141-147, 294-296).                                         *)
StopStands ==
  cq_pc = "idle" /\ current_task_type = "EMERGENCY_STOP" /\ late = 0
    => sent \in {Default, task_generation}

StopInv ==
  /\ cq_pc # "idle" => cq_type = current_task_type
  /\ cq_pc \in {"feed", "idle"} /\ current_task_type = "EMERGENCY_STOP" /\ late = 0
       => sent \in {Default, task_generation}

LEMMA StopStep == TypeOK /\ StopInv /\ [Next]_vars => StopInv'
<1> SUFFICES ASSUME TypeOK, StopInv, [Next]_vars PROVE StopInv'
  OBVIOUS
<1> USE DEF StopInv
<1>1. ASSUME NEW type \in TaskTypes, AcceptTask(type) PROVE StopInv'
  BY <1>1 DEF AcceptTask
<1>2. CASE BumpGeneration \/ EnterState
  BY <1>2 DEF BumpGeneration, EnterState, cmdVars
<1>3. CASE StopZeroPrev \/ StopResetHidden \/ StopBaseline \/ StopPublish \/ FinishTask
  BY <1>3 DEF StopZeroPrev, StopResetHidden, StopBaseline, StopPublish, FinishTask, cmdVars
<1>4. CASE ControlLoopStep \/ Environment \/ UNCHANGED vars
  <2>1. UNCHANGED <<cq_pc, cq_type, current_task_type, task_generation, sent, late>>
    BY <1>4 DEF ControlLoopStep, Wake, CheckState, LoadState, Demote, ZeroVelocity, ClaimSlot,
       DropFrame, SkipFrame, Sense, Submit, NewFrame, Rejected,
       Environment, Tick, SensorsArrive, ImuReport,
       vars, cmdVars, cqVars
  <2>2. QED
    BY <2>1
<1>5. CASE PublishResult
  <2>1. /\ UNCHANGED <<cq_pc, cq_type, current_task_type, task_generation>>
        /\ sent' = wk_frame.gen /\ late \in Nat
        /\ late' = IF wk_frame.gen # task_generation THEN late + 1 ELSE late
    BY <1>5 DEF PublishResult, cmdVars, cqVars, TypeOK
  <2>2. late' = 0 => sent' = task_generation
    BY <2>1
  <2>3. QED
    BY <2>1, <2>2
<1>6. CASE \/ ForwardReturns \/ Dequeue \/ AdmitResult \/ DiscardResult \/ PublishThrows
           \/ FeedResult \/ RememberActions \/ RememberTargets \/ ReleaseSlot
  <2>1. UNCHANGED <<cq_pc, cq_type, current_task_type, task_generation, sent, late>>
    BY <1>6 DEF ForwardReturns, Infer, InferThrows, Dequeue, AdmitResult, DiscardResult,
       PublishThrows, FeedResult, RememberActions, RememberTargets, ReleaseSlot, cmdVars, cqVars
  <2>2. QED
    BY <2>1
<1>7. QED
  BY <1>1, <1>2, <1>3, <1>4, <1>5, <1>6 DEF Next, HandleTask, RunFrame

(* An emergency stop is overridden by a command that was late, and by       *)
(* nothing else, whatever the watchdog, the worker and the sensors do.      *)
THEOREM StopStandsAlways == Spec => []StopStands
<1>1. Init => StopInv
  BY DEF Init, StopInv
<1>2. StopInv => StopStands
  BY DEF StopInv, StopStands
<1>3. QED
  BY <1>1, <1>2, StopStep, TypeCorrect, PTL DEF Spec

-----------------------------------------------------------------------------
(* The accounts.  The counters wrap, so they balance up to a multiple of    *)
(* their width, which a wrap of either side changes by one.                 *)
Outcomes == metrics.total + metrics.stale + metrics.dropped + fate.skipped + fate.failed

InFlight == IF is_inferring /\ wk_pc # "release" THEN 1 ELSE 0

Balanced == \E k \in Int : Outcomes + InFlight = fate.ticks + k * CounterMod

LEMMA Wraps ==
  ASSUME NEW n \in Counts
  PROVE  Inc(n) = n + 1 \/ Inc(n) = n + 1 - CounterMod
BY DEF Inc, Counts

LEMMA Remainder ==
  ASSUME NEW t \in Counts, NEW k \in Int
  PROVE  (t + k * CounterMod) % CounterMod = t
BY DEF Counts

(* One more of a multiple of the width, or one less.                        *)
LEMMA Multiples ==
  ASSUME NEW k \in Int
  PROVE  /\ (k + 1) * CounterMod = k * CounterMod + CounterMod
         /\ (k - 1) * CounterMod = k * CounterMod - CounterMod
OBVIOUS

LEMMA BalanceTypes ==
  ASSUME TypeOK
  PROVE  /\ Outcomes + InFlight \in Int /\ fate.ticks \in Int
         /\ InFlight \in {0, 1} /\ Outcomes \in Int
         /\ {metrics.total, metrics.stale, metrics.dropped} \subseteq Counts
         /\ {fate.ticks, fate.skipped, fate.failed} \subseteq Counts
         /\ Counts \subseteq Int
BY DEF TypeOK, Counts, Outcomes, InFlight

(* Counting one outcome moves the sum by one, or by one less the width.     *)
LEMMA CountMoves ==
  ASSUME TypeOK, NEW c \in {"total", "dropped", "stale"}, Count(c),
         fate'.skipped = fate.skipped, fate'.failed = fate.failed
  PROVE  Outcomes' \in {Outcomes + 1, Outcomes + 1 - CounterMod}
<1>1. /\ metrics'[c] = Inc(metrics[c])
      /\ \A d \in {"total", "dropped", "stale"} : d # c => metrics'[d] = metrics[d]
  BY DEF Count, TypeOK
<1>2. metrics[c] \in Counts
  BY DEF TypeOK
<1>3. metrics'[c] \in {metrics[c] + 1, metrics[c] + 1 - CounterMod}
  BY <1>1, <1>2, Wraps
<1>4. QED
  BY <1>1, <1>3, BalanceTypes DEF Outcomes, Counts

LEMMA ResolveMoves ==
  ASSUME TypeOK, NEW f \in {"skipped", "failed"}, Resolve(f), UNCHANGED metrics
  PROVE  /\ Outcomes' \in {Outcomes + 1, Outcomes + 1 - CounterMod}
         /\ fate'.ticks = fate.ticks
<1>1. /\ fate'[f] = Inc(fate[f])
      /\ \A g \in {"ticks", "skipped", "failed"} : g # f => fate'[g] = fate[g]
  BY DEF Resolve, TypeOK
<1>2. fate[f] \in Counts
  BY DEF TypeOK
<1>3. fate'[f] \in {fate[f] + 1, fate[f] + 1 - CounterMod}
  BY <1>1, <1>2, Wraps
<1>4. QED
  BY <1>1, <1>3, BalanceTypes DEF Outcomes, Counts

LEMMA TickMoves ==
  ASSUME TypeOK, Resolve("ticks")
  PROVE  /\ fate'.ticks \in {fate.ticks + 1, fate.ticks + 1 - CounterMod}
         /\ fate'.skipped = fate.skipped /\ fate'.failed = fate.failed
<1>1. /\ fate'.ticks = Inc(fate.ticks)
      /\ fate'.skipped = fate.skipped /\ fate'.failed = fate.failed
  BY DEF Resolve, TypeOK
<1>2. fate.ticks \in Counts
  BY DEF TypeOK
<1>3. QED
  BY <1>1, <1>2, Wraps

(* A step moves the outcomes and the frame in flight together with the      *)
(* ticks, or turns the frame in flight into an outcome.                     *)
Moves ==
  \/ /\ fate'.ticks = fate.ticks
     /\ \/ Outcomes' = Outcomes /\ InFlight' = InFlight
        \/ /\ Outcomes' \in {Outcomes + 1, Outcomes + 1 - CounterMod}
           /\ InFlight = 1 /\ InFlight' = 0
  \/ /\ fate'.ticks \in {fate.ticks + 1, fate.ticks + 1 - CounterMod}
     /\ \/ Outcomes' = Outcomes /\ InFlight = 0 /\ InFlight' = 1
        \/ /\ Outcomes' \in {Outcomes + 1, Outcomes + 1 - CounterMod}
           /\ InFlight' = InFlight

LEMMA MovesBalance ==
  ASSUME TypeOK, TypeOK', Balanced, Moves
  PROVE  Balanced'
<1> DEFINE a == Outcomes + InFlight
           b == fate.ticks
           x == Outcomes' + InFlight'
           y == fate'.ticks
<1>1. a \in Int /\ x \in Int /\ b \in Int /\ y \in Int
      /\ Outcomes \in Int
  <2>1. /\ metrics' \in [total : Counts, dropped : Counts, stale : Counts]
        /\ fate' \in [ticks : Counts, skipped : Counts, failed : Counts]
    BY DEF TypeOK
  <2>2. Outcomes' + InFlight' \in Int /\ fate'.ticks \in Int
    BY <2>1 DEF Counts, Outcomes, InFlight
  <2>3. QED
    BY <2>2, BalanceTypes
<1>2. \/ x \in {a, a - CounterMod} /\ y \in {b, b - CounterMod}
      \/ x \in {a + 1, a + 1 - CounterMod} /\ y \in {b + 1, b + 1 - CounterMod}
  BY <1>1, BalanceTypes DEF Moves
<1>3. PICK k \in Int : a = b + k * CounterMod
  BY DEF Balanced
<1> HIDE DEF a, b, x, y
<1>4. x = y + k * CounterMod \/ x = y + (k + 1) * CounterMod \/ x = y + (k - 1) * CounterMod
  BY <1>1, <1>2, <1>3, Multiples
<1>5. PICK j \in {k, k + 1, k - 1} : x = y + j * CounterMod
  BY <1>4
<1>6. j \in Int
  OBVIOUS
<1>7. QED
  BY <1>5, <1>6 DEF Balanced, x, y

LEMMA ControlMoves ==
  ASSUME TypeOK, OneOwner, ControlLoopStep
  PROVE  Moves
<1> USE DEF Moves, InFlight, OneOwner, ControlOwns, QueueOwns, WorkerOwns
<1>1. CASE Wake \/ CheckState \/ Demote \/ ZeroVelocity \/ LoadState \/ Sense
  <2>1. UNCHANGED <<metrics, fate, is_inferring, wk_pc>>
    BY <1>1 DEF Wake, CheckState, LoadState, Demote, ZeroVelocity, Sense, wkVars
  <2>2. QED
    BY <2>1 DEF Outcomes
<1>2. CASE ClaimSlot
  <2>1. /\ ~ is_inferring /\ is_inferring' /\ UNCHANGED <<metrics, wk_pc>>
        /\ wk_pc = "idle"
    BY <1>2 DEF ClaimSlot, SlotFree, wkVars
  <2>2. /\ fate'.ticks \in {fate.ticks + 1, fate.ticks + 1 - CounterMod}
        /\ fate'.skipped = fate.skipped /\ fate'.failed = fate.failed
    BY <1>2, TickMoves DEF ClaimSlot
  <2>3. Outcomes' = Outcomes
    BY <2>1, <2>2 DEF Outcomes
  <2>4. QED
    BY <2>1, <2>2, <2>3
<1>3. CASE DropFrame
  <2>1. UNCHANGED <<is_inferring, wk_pc>> /\ Count("dropped") /\ Resolve("ticks")
    BY <1>3 DEF DropFrame, CountDropped, wkVars
  <2>2. /\ fate'.ticks \in {fate.ticks + 1, fate.ticks + 1 - CounterMod}
        /\ fate'.skipped = fate.skipped /\ fate'.failed = fate.failed
    BY <2>1, TickMoves
  <2>3. Outcomes' \in {Outcomes + 1, Outcomes + 1 - CounterMod}
    BY <2>1, <2>2, CountMoves
  <2>4. QED
    BY <2>1, <2>2, <2>3
<1>4. CASE SkipFrame
  <2>1. /\ is_inferring /\ wk_pc = "idle" /\ is_inferring' = FALSE
        /\ UNCHANGED <<metrics, wk_pc>> /\ Resolve("skipped")
    BY <1>4 DEF SkipFrame, wkVars
  <2>2. /\ Outcomes' \in {Outcomes + 1, Outcomes + 1 - CounterMod}
        /\ fate'.ticks = fate.ticks
    BY <2>1, ResolveMoves
  <2>3. QED
    BY <2>1, <2>2
<1>5. CASE Submit
  <2>1. Len(tasks) < MaxQueue
    BY <1>5 DEF Submit
  <2>2. UNCHANGED <<metrics, fate, is_inferring, wk_pc>>
    BY <1>5, <2>1 DEF Submit, Rejected, wkVars
  <2>3. QED
    BY <2>2 DEF Outcomes
<1>6. QED
  BY <1>1, <1>2, <1>3, <1>4, <1>5 DEF ControlLoopStep

LEMMA WorkerMoves ==
  ASSUME TypeOK, OneOwner, ForwardReturns \/ RunFrame
  PROVE  Moves
<1> USE DEF Moves, InFlight, OneOwner, ControlOwns, QueueOwns, WorkerOwns
<1>1. CASE Dequeue \/ Infer \/ AdmitResult \/ PublishResult \/ FeedResult \/ RememberActions
  <2>1. UNCHANGED <<metrics, fate, is_inferring>> /\ wk_pc # "release" /\ wk_pc' # "release"
    BY <1>1 DEF Dequeue, Infer, AdmitResult, PublishResult, FeedResult, RememberActions
  <2>2. QED
    BY <2>1 DEF Outcomes
<1>2. CASE InferThrows \/ PublishThrows
  <2>1. /\ is_inferring /\ is_inferring' = is_inferring /\ UNCHANGED metrics
        /\ wk_pc # "release" /\ wk_pc' = "release" /\ Resolve("failed")
    BY <1>2 DEF InferThrows, PublishThrows, AfterThrow
  <2>2. /\ Outcomes' \in {Outcomes + 1, Outcomes + 1 - CounterMod}
        /\ fate'.ticks = fate.ticks
    BY <2>1, ResolveMoves
  <2>3. QED
    BY <2>1, <2>2
<1>3. CASE DiscardResult \/ RememberTargets
  <2>1. /\ is_inferring /\ is_inferring' = is_inferring /\ UNCHANGED fate
        /\ wk_pc # "release" /\ wk_pc' = "release"
        /\ Count("stale") \/ Count("total")
    BY <1>3 DEF DiscardResult, RememberTargets
  <2>2. Outcomes' \in {Outcomes + 1, Outcomes + 1 - CounterMod}
    BY <2>1, CountMoves
  <2>3. QED
    BY <2>1, <2>2
<1>4. CASE ReleaseSlot
  <2>1. UNCHANGED <<metrics, fate>> /\ wk_pc = "release" /\ is_inferring' = FALSE
    BY <1>4 DEF ReleaseSlot
  <2>2. QED
    BY <2>1 DEF Outcomes
<1>5. QED
  BY <1>1, <1>2, <1>3, <1>4 DEF ForwardReturns, RunFrame

LEMMA OthersMoveNothing ==
  ASSUME HandleTask \/ Environment \/ UNCHANGED vars
         \/ \E type \in TaskTypes : AcceptTask(type)
  PROVE  Moves
<1>1. UNCHANGED <<metrics, fate>>
  BY DEF vars, HandleTask, AcceptTask, BumpGeneration, EnterState,
   StopZeroPrev, StopResetHidden, StopBaseline, StopPublish, FinishTask,
   Environment, Tick, SensorsArrive, ImuReport
<1>2. UNCHANGED <<is_inferring, wk_pc>>
  BY OthersOwnNothing DEF ownVars, wkVars
<1>3. QED
  BY <1>1, <1>2 DEF Moves, Outcomes, InFlight

LEMMA BalanceStep == TypeOK /\ TypeOK' /\ OneOwner /\ Balanced /\ [Next]_vars => Balanced'
BY ControlMoves, WorkerMoves, OthersMoveNothing, MovesBalance DEF Next

(* FramesAccounted: for every width of the counters, every tick is counted  *)
(* once, on whichever of the paths of ControlLoopStep and of its lambda it  *)
(* ends (ai_brain.cpp:180, 186, 302, 306, 309, 327).                        *)
THEOREM FramesAccountedAlways == Spec => []FramesAccounted
<1>1. Init => Balanced
  <2> SUFFICES ASSUME Init PROVE Outcomes + InFlight = fate.ticks + 0 * CounterMod
    BY DEF Balanced
  <2>1. QED
    BY DEF Init, Outcomes, InFlight
<1>2. TypeOK /\ Balanced => FramesAccounted
  <2> SUFFICES ASSUME TypeOK, Balanced PROVE fate.ticks = (Outcomes + InFlight) % CounterMod
    BY DEF FramesAccounted, Outcomes, InFlight
  <2>1. PICK k \in Int : Outcomes + InFlight = fate.ticks + k * CounterMod
    BY DEF Balanced
  <2>2. QED
    BY <2>1, Remainder, BalanceTypes
<1>3. QED
  BY <1>1, <1>2, BalanceStep, TypeCorrect, OneOwnerAlways, PTL DEF Spec
=============================================================================
