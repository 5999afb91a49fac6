---------------------------- MODULE JointTargets ----------------------------
(***************************************************************************)
(* The joint targets themselves, which AIBrain abstracts to generations:   *)
(* how the inference worker clamps and rate-limits them, and the three     *)
(* vectors that are copied between threads under no lock,                  *)
(*                                                                         *)
(*   baseline - AIBrain::last_joint_targets_, the base of the rate limit;  *)
(*   reported - RosNode::last_joint_targets_, read by the status sessions; *)
(*   sent     - the last message on /joint_commands.                       *)
(*                                                                         *)
(* wk is the inference worker, cq the completion queue thread, which runs  *)
(* the emergency stop and the status sessions, and rt the control thread,  *)
(* which owns the slot only while the worker is idle (AIBrain!OneOwner).   *)
(* A vector is read and copied one joint at a time, in any order: the      *)
(* copies race and the compiler may vectorise them.                        *)
(***************************************************************************)
EXTENDS Integers

CONSTANTS
  Joints,    \* the joints of the robot
  Home,      \* default_joint_positions
  Limit,     \* joint_position_limit
  MaxDelta,  \* max_joint_velocity * control_dt
  Outputs,   \* what the policy asks of a joint: action * scales
  NotFinite, \* an output that is NaN or infinite
  SimResets  \* whether the control thread sees the simulator reset

(* config.yaml: joint_position_limit = 1.0, max_joint_velocity * 0.02 = 0.1. *)
ASSUME TargetsAssumption ==
  /\ Home \in [Joints -> Int]
  /\ Limit \in Nat
  /\ MaxDelta \in 0 .. Limit
  /\ Outputs \subseteq Int
  /\ NotFinite \notin Int
  /\ SimResets \in BOOLEAN

Vectors == [Joints -> Int]

Zero == [j \in Joints |-> 0]

VARIABLES
  baseline, reported, sent,
  wk_pc, wk_targets, wk_todo, wk_excess,
  cq_pc, cq_todo, snapshot,
  policy, \* history: the worker's last command, home before the first
  given   \* history: the worker's last two, zero (as reported) before them

shared == <<baseline, reported, sent>>
wkVars == <<wk_pc, wk_targets, wk_todo, wk_excess>>
cqVars == <<cq_pc, cq_todo, snapshot>>
history == <<policy, given>>
vars == <<shared, wkVars, cqVars, history>>

Init ==
  /\ baseline = Home /\ reported = Zero /\ sent = Home
  /\ wk_pc = "idle" /\ wk_targets = Home /\ wk_todo = {}
  /\ wk_excess = [j \in Joints |-> "none"]
  /\ cq_pc = "idle" /\ cq_todo = {} /\ snapshot = Zero
  /\ policy = Home /\ given = [last |-> Zero, before |-> Zero]

(***************************************************************************)
(* The worker.                                                             *)
(***************************************************************************)
Clamp_UpperOnly(j, t) ==    \* mutant: the lower limit is forgotten
  IF t > Home[j] + Limit THEN Home[j] + Limit ELSE t

Clamp(j, t) ==
  CASE t < Home[j] - Limit -> Home[j] - Limit
    [] t > Home[j] + Limit -> Home[j] + Limit
    [] OTHER               -> t

Target_NotFiniteKept(j, o) ==    \* mutant: NaN survives std::clamp
  IF o = NotFinite THEN NotFinite ELSE Clamp(j, Home[j] + o)

(* An output that is not finite asks for the default position.              *)
Target(j, o) == Clamp(j, Home[j] + (IF o = NotFinite THEN 0 ELSE o))

(* Forward has returned, the targets are clamped around the default posture *)
(* and the generation check is passed.  A discarded frame touches nothing   *)
(* of this module.                                                          *)
Compute ==
  /\ wk_pc = "idle"
  /\ \E out \in [Joints -> Outputs \cup {NotFinite}] :
       wk_targets' = [j \in Joints |-> Target(j, out[j])]
  /\ wk_todo' = Joints
  /\ wk_pc' = "limit"
  /\ UNCHANGED <<shared, wk_excess, cqVars, history>>

(* ApplyRateLimit reads the baseline of a joint once to measure the excess  *)
(* and a second time to correct it.                                         *)
Excess(j) ==
  CASE wk_targets[j] - baseline[j] > MaxDelta -> "up"
    [] baseline[j] - wk_targets[j] > MaxDelta -> "down"
    [] OTHER                                  -> "none"

MeasureExcess(j) ==
  /\ wk_pc = "limit" /\ j \in wk_todo /\ wk_excess[j] = "none"
  /\ wk_excess' = [wk_excess EXCEPT ![j] = Excess(j)]
  /\ wk_todo' = IF Excess(j) = "none" THEN wk_todo \ {j} ELSE wk_todo
  /\ UNCHANGED <<shared, wk_pc, wk_targets, cqVars, history>>

Limited_FromTarget(j) ==    \* mutant: corrected from the target itself
  IF wk_excess[j] = "up" THEN wk_targets[j] - MaxDelta
                         ELSE wk_targets[j] + MaxDelta

Limited(j) == IF wk_excess[j] = "up" THEN baseline[j] + MaxDelta
                                     ELSE baseline[j] - MaxDelta

CorrectExcess(j) ==
  /\ wk_pc = "limit" /\ j \in wk_todo /\ wk_excess[j] # "none"
  /\ wk_targets' = [wk_targets EXCEPT ![j] = Limited(j)]
  /\ wk_excess' = [wk_excess EXCEPT ![j] = "none"]
  /\ wk_todo' = wk_todo \ {j}
  /\ UNCHANGED <<shared, wk_pc, cqVars, history>>

Publish_Unreported ==    \* mutant: the copy for the status is forgotten
  /\ wk_pc = "limit" /\ wk_todo = {}
  /\ sent' = wk_targets
  /\ policy' = wk_targets
  /\ given' = [last |-> wk_targets, before |-> given.last]
  /\ wk_todo' = Joints
  /\ wk_pc' = "record"
  /\ UNCHANGED <<baseline, reported, wk_targets, wk_excess, cqVars>>

(* PublishJointCommand sends the message and then copies it for the status  *)
(* sessions; publish may throw, which ends the frame.                       *)
Publish ==
  /\ wk_pc = "limit" /\ wk_todo = {}
  /\ sent' = wk_targets
  /\ policy' = wk_targets
  /\ given' = [last |-> wk_targets, before |-> given.last]
  /\ wk_todo' = Joints
  /\ wk_pc' = "report"
  /\ UNCHANGED <<baseline, reported, wk_targets, wk_excess, cqVars>>

PublishThrows ==
  /\ wk_pc = "limit" /\ wk_todo = {}
  /\ wk_pc' = "idle"
  /\ UNCHANGED <<shared, wk_targets, wk_todo, wk_excess, cqVars, history>>

Report(j) ==
  /\ wk_pc = "report" /\ j \in wk_todo
  /\ reported' = [reported EXCEPT ![j] = wk_targets[j]]
  /\ wk_todo' = wk_todo \ {j}
  /\ UNCHANGED <<baseline, sent, wk_pc, wk_targets, wk_excess, cqVars, history>>

Reported ==
  /\ wk_pc = "report" /\ wk_todo = {}
  /\ wk_todo' = Joints
  /\ wk_pc' = "record"
  /\ UNCHANGED <<shared, wk_targets, wk_excess, cqVars, history>>

(* last_joint_targets_ = joint_targets, back in the lambda.                 *)
Record(j) ==
  /\ wk_pc = "record" /\ j \in wk_todo
  /\ baseline' = [baseline EXCEPT ![j] = wk_targets[j]]
  /\ wk_todo' = wk_todo \ {j}
  /\ UNCHANGED <<reported, sent, wk_pc, wk_targets, wk_excess, cqVars, history>>

Recorded ==
  /\ wk_pc = "record" /\ wk_todo = {}
  /\ wk_pc' = "idle"
  /\ UNCHANGED <<shared, wk_targets, wk_todo, wk_excess, cqVars, history>>
(***************************************************************************)
(* The completion queue thread: an emergency stop resets the baseline,     *)
(* publishes the default posture and copies it for the status sessions; a  *)
(* status session reads that copy through a reference.                     *)
(***************************************************************************)
EmergencyStop ==
  /\ cq_pc = "idle"
  /\ cq_pc' = "baseline" /\ cq_todo' = Joints
  /\ UNCHANGED <<shared, wkVars, snapshot, history>>

StopBaseline(j) ==
  /\ cq_pc = "baseline" /\ j \in cq_todo
  /\ baseline' = [baseline EXCEPT ![j] = Home[j]]
  /\ cq_todo' = cq_todo \ {j}
  /\ UNCHANGED <<reported, sent, wkVars, cq_pc, snapshot, history>>

StopPublish ==
  /\ cq_pc = "baseline" /\ cq_todo = {}
  /\ sent' = Home
  /\ cq_pc' = "report" /\ cq_todo' = Joints
  /\ UNCHANGED <<baseline, reported, wkVars, snapshot, history>>

StopReport(j) ==
  /\ cq_pc = "report" /\ j \in cq_todo
  /\ reported' = [reported EXCEPT ![j] = Home[j]]
  /\ cq_todo' = cq_todo \ {j}
  /\ UNCHANGED <<baseline, sent, wkVars, cq_pc, snapshot, history>>

BuildStatus ==
  /\ cq_pc = "idle"
  /\ cq_pc' = "snapshot" /\ cq_todo' = Joints
  /\ UNCHANGED <<shared, wkVars, snapshot, history>>

ReadReported(j) ==
  /\ cq_pc = "snapshot" /\ j \in cq_todo
  /\ snapshot' = [snapshot EXCEPT ![j] = reported[j]]
  /\ cq_todo' = cq_todo \ {j}
  /\ UNCHANGED <<shared, wkVars, cq_pc, history>>

CqDone ==
  /\ cq_pc \in {"report", "snapshot"} /\ cq_todo = {}
  /\ cq_pc' = "idle"
  /\ UNCHANGED <<shared, wkVars, cq_todo, snapshot, history>>

(* The control thread, holding the slot, sees the simulator reset.  Another *)
(* thread that writes the baseline meanwhile writes the same value.         *)
SimReset ==
  /\ SimResets /\ wk_pc = "idle"
  /\ baseline' = Home
  /\ UNCHANGED <<reported, sent, wkVars, cqVars, history>>

-----------------------------------------------------------------------------
RateLimit == \E j \in Joints : MeasureExcess(j) \/ CorrectExcess(j)

PublishJointCommand == Publish \/ PublishThrows \/ Reported
                       \/ \E j \in Joints : Report(j)

Remember == Recorded \/ \E j \in Joints : Record(j)

Stop == EmergencyStop \/ StopPublish
        \/ \E j \in Joints : StopBaseline(j) \/ StopReport(j)

Status == BuildStatus \/ CqDone \/ \E j \in Joints : ReadReported(j)

Next == Compute \/ RateLimit \/ PublishJointCommand \/ Remember
        \/ Stop \/ Status \/ SimReset

Spec == Init /\ [][Next]_vars

-----------------------------------------------------------------------------
TypeOK ==
  /\ baseline \in Vectors /\ reported \in Vectors /\ sent \in Vectors
  /\ wk_pc \in {"idle", "limit", "report", "record"}
  /\ wk_targets \in Vectors /\ wk_todo \subseteq Joints
  /\ wk_excess \in [Joints -> {"none", "up", "down"}]
  /\ cq_pc \in {"idle", "baseline", "report", "snapshot"}
  /\ cq_todo \subseteq Joints /\ snapshot \in Vectors
  /\ policy \in Vectors /\ given \in [last : Vectors, before : Vectors]

(* README.md:33: whatever the policy returns and whoever moves the baseline *)
(* between the two reads of ApplyRateLimit (ai_brain.cpp:376, 378), every   *)
(* command stays within joint_position_limit of the default posture, though *)
(* the limit is applied before the rate limit and not after it.             *)
Within(v) == \A j \in Joints : Home[j] - Limit <= v[j] /\ v[j] <= Home[j] + Limit

WithinLimit == Within(sent)

(* A command of the policy moves each joint at most MaxDelta away from its  *)
(* previous command or from the default posture, whatever is lost or mixed  *)
(* in the race on the baseline (ai_brain.cpp:145, 202, 301, 376-378).       *)
Near(a, b) == a - b <= MaxDelta /\ b - a <= MaxDelta

StepBounded ==
  [][Publish => \A j \in Joints : \/ Near(sent'[j], policy[j])
                                  \/ Near(sent'[j], Home[j])]_vars

(* What a status session finds in a joint of reported, at any moment, is    *)
(* the joint of the policy's last command (zero before the first), of the   *)
(* default posture, which stops copy and race to copy (ros_node.cpp:174),   *)
(* or, only while the worker has still to copy that joint, of the command   *)
(* before.  A message reads its joints at different moments and may mix     *)
(* commands; this says nothing of the vector as a whole.                    *)
Recent(j) == \/ reported[j] \in {given.last[j], Home[j]}
             \/ /\ wk_pc = "report" /\ j \in wk_todo
                /\ reported[j] = given.before[j]

ReportedIsRecent == \A j \in Joints : Recent(j)
=============================================================================
