------------------------- MODULE JointTargetsProofs -------------------------
(***************************************************************************)
(* The position limit and the step bound, proved for every set of joints,  *)
(* default posture, limit, step and policy.                                *)
(***************************************************************************)
EXTENDS JointTargets, TLAPS

USE TargetsAssumption DEF Vectors

-----------------------------------------------------------------------------
LEMMA TargetType ==
  ASSUME NEW j \in Joints, NEW o \in Outputs \cup {NotFinite}
  PROVE  /\ Target(j, o) \in Int
         /\ Home[j] - Limit <= Target(j, o) /\ Target(j, o) <= Home[j] + Limit
BY DEF Target, Clamp

LEMMA LimitedType ==
  ASSUME TypeOK, NEW j \in Joints
  PROVE  Limited(j) \in Int
BY DEF TypeOK, Limited

LEMMA ExcessType ==
  ASSUME NEW j \in Joints
  PROVE  Excess(j) \in {"none", "up", "down"}
BY DEF Excess

LEMMA TypeInit == Init => TypeOK
BY DEF Init, TypeOK, Zero

LEMMA TypeStep == TypeOK /\ [Next]_vars => TypeOK'
<1> SUFFICES ASSUME TypeOK, [Next]_vars PROVE TypeOK'
  OBVIOUS
<1> USE DEF TypeOK, shared, wkVars, cqVars, history
<1>1. CASE Compute
  <2>1. PICK out \in [Joints -> Outputs \cup {NotFinite}] :
          wk_targets' = [j \in Joints |-> Target(j, out[j])]
    BY <1>1 DEF Compute
  <2>2. wk_targets' \in Vectors
    BY <2>1, TargetType
  <2>3. QED
    BY <1>1, <2>2 DEF Compute
<1>2. ASSUME NEW j \in Joints, MeasureExcess(j) PROVE TypeOK'
  BY <1>2, ExcessType DEF MeasureExcess
<1>3. ASSUME NEW j \in Joints, CorrectExcess(j) PROVE TypeOK'
  BY <1>3, LimitedType DEF CorrectExcess
<1>4. CASE Publish \/ PublishThrows \/ Reported \/ Recorded
  BY <1>4 DEF Publish, PublishThrows, Reported, Recorded
<1>5. ASSUME NEW j \in Joints, Report(j) \/ Record(j) PROVE TypeOK'
  BY <1>5 DEF Report, Record
<1>6. CASE EmergencyStop \/ StopPublish \/ BuildStatus \/ CqDone \/ SimReset
  BY <1>6 DEF EmergencyStop, StopPublish, BuildStatus, CqDone, SimReset
<1>7. ASSUME NEW j \in Joints, StopBaseline(j) \/ StopReport(j) PROVE TypeOK'
  BY <1>7 DEF StopBaseline, StopReport
<1>8. ASSUME NEW j \in Joints, ReadReported(j) PROVE TypeOK'
  BY <1>8 DEF ReadReported
<1>9. CASE UNCHANGED vars
  BY <1>9 DEF vars
<1>10. QED
  BY <1>1, <1>2, <1>3, <1>4, <1>5, <1>6, <1>7, <1>8, <1>9
     DEF Next, RateLimit, PublishJointCommand, Remember, Stop, Status

(* TypeOK, of the vectors shared by three threads.                          *)
THEOREM TypeCorrect == Spec => []TypeOK
BY TypeInit, TypeStep, PTL DEF Spec

-----------------------------------------------------------------------------
(* The inductive invariant.  Only a joint still to be limited can have a    *)
(* measured excess, and if the baseline has moved since, it is at home.     *)
ExcessPending(j) ==
  wk_excess[j] # "none" => wk_pc = "limit" /\ j \in wk_todo

ExcessStands(j) ==
  /\ wk_excess[j] = "up" =>
       baseline[j] = Home[j] \/ wk_targets[j] - baseline[j] > MaxDelta
  /\ wk_excess[j] = "down" =>
       baseline[j] = Home[j] \/ baseline[j] - wk_targets[j] > MaxDelta

(* Whenever the worker reads the baseline of a joint, it is the last        *)
(* command of the policy or the default position.                           *)
BaselineKnown(j) ==
  \/ wk_pc = "report" /\ policy = wk_targets
  \/ wk_pc = "record" /\ j \in wk_todo /\ policy = wk_targets
  \/ wk_pc = "record" /\ j \notin wk_todo /\ policy = wk_targets
     /\ baseline[j] \in {policy[j], Home[j]}
  \/ wk_pc \in {"idle", "limit"} /\ baseline[j] \in {policy[j], Home[j]}

LimitedNear(j) ==
  wk_pc = "limit" /\ j \notin wk_todo =>
    Near(wk_targets[j], policy[j]) \/ Near(wk_targets[j], Home[j])

InLimit(v, j) == Home[j] - Limit <= v[j] /\ v[j] <= Home[j] + Limit

JointInv(j) ==
  /\ InLimit(sent, j) /\ InLimit(baseline, j) /\ InLimit(wk_targets, j)
  /\ ExcessPending(j) /\ ExcessStands(j)
  /\ BaselineKnown(j) /\ LimitedNear(j)

IInv == \A j \in Joints : JointInv(j)

LEMMA InvInit == Init => IInv
<1> SUFFICES ASSUME Init, NEW j \in Joints PROVE JointInv(j)
  BY DEF IInv
<1>1. InLimit(sent, j) /\ InLimit(baseline, j) /\ InLimit(wk_targets, j)
  BY DEF Init, InLimit
<1>2. wk_excess[j] = "none" /\ wk_pc = "idle" /\ baseline[j] = Home[j]
  BY DEF Init
<1>3. QED
  BY <1>1, <1>2 DEF JointInv, ExcessPending, ExcessStands, BaselineKnown,
     LimitedNear

(* A step that concerns one joint leaves the invariant of the others alone. *)
LEMMA InvRateLimit ==
  ASSUME TypeOK, IInv, NEW k \in Joints, MeasureExcess(k) \/ CorrectExcess(k),
         NEW j \in Joints
  PROVE  JointInv(j)'
<1> USE DEF IInv, JointInv, shared, cqVars, history, TypeOK
<1> JointInv(j)
  OBVIOUS
<1>1. CASE MeasureExcess(k)
  <2>1. InLimit(sent, j)' /\ InLimit(baseline, j)' /\ InLimit(wk_targets, j)'
    BY <1>1 DEF MeasureExcess, InLimit
  <2>2. ExcessPending(j)' /\ ExcessStands(j)'
    BY <1>1 DEF MeasureExcess, ExcessPending, ExcessStands, Excess
  <2>3. BaselineKnown(j)'
    BY <1>1 DEF MeasureExcess, BaselineKnown
  <2>4. LimitedNear(j)'
    <3>1. CASE j = k /\ Excess(k) = "none"
      <4>1. Near(wk_targets[j], baseline[j])
        BY <3>1 DEF Excess, Near
      <4>2. QED
        BY <1>1, <3>1, <4>1 DEF MeasureExcess, BaselineKnown, LimitedNear
    <3>2. CASE j # k \/ Excess(k) # "none"
      BY <1>1, <3>2 DEF MeasureExcess, LimitedNear
    <3>3. QED
      BY <3>1, <3>2
  <2>5. QED
    BY <2>1, <2>2, <2>3, <2>4
<1>2. CASE CorrectExcess(k)
  <2>1. CASE j = k
    <3>1. /\ wk_targets'[j] = Limited(j) /\ wk_excess'[j] = "none"
          /\ wk_excess[j] \in {"up", "down"}
          /\ UNCHANGED <<baseline, sent, policy, wk_pc>>
          /\ wk_pc = "limit"
      BY <1>2, <2>1 DEF CorrectExcess
    <3>2. InLimit(wk_targets, j)'
      BY <3>1 DEF Limited, InLimit, ExcessStands
    <3>3. baseline[j] \in {policy[j], Home[j]}
      BY <3>1 DEF BaselineKnown
    <3>4. Near(Limited(j), baseline[j])
      BY <3>1 DEF Limited, Near
    <3>5. LimitedNear(j)'
      BY <3>1, <3>3, <3>4 DEF LimitedNear
    <3>6. QED
      BY <3>1, <3>2, <3>5
         DEF InLimit, ExcessPending, ExcessStands, BaselineKnown
  <2>2. CASE j # k
    BY <1>2, <2>2 DEF CorrectExcess, InLimit, ExcessPending, ExcessStands,
       BaselineKnown, LimitedNear
  <2>3. QED
    BY <2>1, <2>2
<1>3. QED
  BY <1>1, <1>2

LEMMA InvWorker ==
  ASSUME TypeOK, IInv, NEW j \in Joints, NEW k \in Joints,
         \/ Compute \/ Publish \/ PublishThrows \/ Reported \/ Recorded
         \/ Report(k) \/ Record(k)
  PROVE  JointInv(j)'
<1> USE DEF IInv, JointInv, shared, cqVars, history, TypeOK
<1> JointInv(j)
  OBVIOUS
<1>1. CASE Compute
  <2>1. InLimit(wk_targets, j)'
    <3>1. PICK out \in [Joints -> Outputs \cup {NotFinite}] :
            wk_targets' = [i \in Joints |-> Target(i, out[i])]
      BY <1>1 DEF Compute
    <3>2. wk_targets'[j] = Target(j, out[j]) /\ out[j] \in Outputs \cup {NotFinite}
      BY <3>1
    <3>3. /\ Home[j] - Limit <= Target(j, out[j])
          /\ Target(j, out[j]) <= Home[j] + Limit
      BY <3>2, TargetType
    <3>4. QED
      BY <3>2, <3>3 DEF InLimit
  <2>2. wk_excess'[j] = "none"
    BY <1>1 DEF Compute, ExcessPending
  <2>3. QED
    BY <1>1, <2>1, <2>2 DEF Compute, InLimit, ExcessPending, ExcessStands,
       BaselineKnown, LimitedNear
<1>2. CASE Publish \/ PublishThrows \/ Reported \/ Recorded
  BY <1>2 DEF Publish, PublishThrows, Reported, Recorded, InLimit,
     ExcessPending, ExcessStands, BaselineKnown, LimitedNear
<1>3. CASE Report(k) \/ Record(k)
  BY <1>3 DEF Report, Record, InLimit, ExcessPending, ExcessStands,
     BaselineKnown, LimitedNear
<1>4. QED
  BY <1>1, <1>2, <1>3

LEMMA InvOthers ==
  ASSUME TypeOK, IInv, NEW j \in Joints, NEW k \in Joints,
         \/ EmergencyStop \/ StopPublish \/ BuildStatus \/ CqDone \/ SimReset
         \/ StopBaseline(k) \/ StopReport(k) \/ ReadReported(k)
         \/ UNCHANGED vars
  PROVE  JointInv(j)'
<1> USE DEF IInv, JointInv, shared, wkVars, cqVars, history, TypeOK, InLimit,
            ExcessPending, ExcessStands, BaselineKnown, LimitedNear
<1> JointInv(j)
  OBVIOUS
<1>1. CASE EmergencyStop \/ BuildStatus \/ CqDone \/ StopReport(k)
           \/ ReadReported(k) \/ UNCHANGED vars
  BY <1>1 DEF EmergencyStop, BuildStatus, CqDone, StopReport, ReadReported, vars
<1>2. CASE StopPublish
  BY <1>2 DEF StopPublish
<1>3. CASE SimReset
  BY <1>3 DEF SimReset
<1>4. CASE StopBaseline(k)
  BY <1>4 DEF StopBaseline
<1>5. QED
  BY <1>1, <1>2, <1>3, <1>4

LEMMA InvStep == TypeOK /\ IInv /\ [Next]_vars => IInv'
<1> SUFFICES ASSUME TypeOK, IInv, [Next]_vars, NEW j \in Joints
             PROVE  JointInv(j)'
  BY DEF IInv
<1>1. CASE RateLimit
  BY <1>1, InvRateLimit DEF RateLimit
<1>2. CASE Compute \/ PublishJointCommand \/ Remember
  BY <1>2, InvWorker DEF PublishJointCommand, Remember
<1>3. CASE Stop \/ Status \/ SimReset \/ UNCHANGED vars
  BY <1>3, InvOthers DEF Stop, Status
<1>4. QED
  BY <1>1, <1>2, <1>3 DEF Next

-----------------------------------------------------------------------------
(* WithinLimit: no command leaves the position limits, although the rate    *)
(* limit is applied after the clamp to a baseline that other threads move.  *)
(* It needs MaxDelta <= Limit: TargetsAssumption.                           *)
THEOREM WithinLimitAlways == Spec => []WithinLimit
<1>1. IInv => WithinLimit
  BY DEF IInv, JointInv, InLimit, WithinLimit, Within
<1>2. QED
  BY <1>1, TypeInit, TypeStep, InvInit, InvStep, PTL DEF Spec

(* StepBounded: each command of the policy is within MaxDelta, joint by     *)
(* joint, of the policy's previous command or of the default posture.       *)
THEOREM StepBoundedAlways == Spec => StepBounded
<1>1. ASSUME TypeOK, IInv, Publish
      PROVE  \A j \in Joints : \/ Near(sent'[j], policy[j])
                               \/ Near(sent'[j], Home[j])
  BY <1>1 DEF Publish, IInv, JointInv, LimitedNear
<1>2. TypeOK /\ IInv /\ [Next]_vars
        => [Publish => \A j \in Joints : \/ Near(sent'[j], policy[j])
                                         \/ Near(sent'[j], Home[j])]_vars
  BY <1>1
<1>3. QED
  BY <1>2, TypeInit, TypeStep, InvInit, InvStep, PTL DEF Spec, StepBounded

-----------------------------------------------------------------------------
(* The inductive form: what the worker copies is its last command.  Between *)
(* two copies every joint is settled, so the command that Publish makes the *)
(* last but one is the only older one a joint can still show.               *)
Settled(j) == reported[j] \in {given.last[j], Home[j]}

CopiedIsRecent ==
  /\ wk_pc = "report" => wk_targets = given.last
  /\ \A j \in Joints : Recent(j)

LEMMA CopyStep ==
  ASSUME TypeOK, CopiedIsRecent, [Next]_vars
  PROVE  wk_pc' = "report" => wk_targets' = given.last'
<1> USE DEF CopiedIsRecent, shared, wkVars, cqVars, history
<1>1. CASE Compute \/ PublishJointCommand \/ Remember
  BY <1>1 DEF Compute, PublishJointCommand, Publish, PublishThrows, Reported,
     Report, Remember, Recorded, Record
<1>2. CASE RateLimit
  BY <1>2 DEF RateLimit, MeasureExcess, CorrectExcess
<1>3. CASE Stop \/ Status \/ SimReset \/ UNCHANGED vars
  BY <1>3 DEF Stop, EmergencyStop, StopPublish, StopBaseline, StopReport,
     Status, BuildStatus, CqDone, ReadReported, SimReset, vars
<1>4. QED
  BY <1>1, <1>2, <1>3 DEF Next

LEMMA RecentStep == TypeOK /\ CopiedIsRecent /\ [Next]_vars => CopiedIsRecent'
<1> SUFFICES ASSUME TypeOK, CopiedIsRecent, [Next]_vars, NEW j \in Joints
             PROVE  Recent(j)'
  BY CopyStep DEF CopiedIsRecent
<1>0. Recent(j) /\ (wk_pc = "report" => wk_targets = given.last)
  BY DEF CopiedIsRecent
<1> USE DEF Recent, shared, wkVars, cqVars, history
<1>1. CASE Publish
  <2>1. Settled(j)
    BY <1>0, <1>1 DEF Publish, Settled
  <2>2. /\ wk_pc' = "report" /\ j \in wk_todo' /\ reported' = reported
        /\ given'.before = given.last
    BY <1>1 DEF Publish
  <2>3. QED
    BY <1>1, <2>1, <2>2 DEF Settled
<1>2. ASSUME NEW k \in Joints, Report(k)
      PROVE  Recent(j)'
  <2>1. CASE j = k
    <3>1. reported'[j] = wk_targets[j]
      BY <1>2, <2>1 DEF Report, TypeOK
    <3>2. QED
      BY <1>0, <1>2, <2>1, <3>1 DEF Report
  <2>2. CASE j # k
    BY <1>0, <1>2, <2>2 DEF Report, TypeOK
  <2>3. QED
    BY <2>1, <2>2
<1>3. ASSUME NEW k \in Joints, StopReport(k)
      PROVE  Recent(j)'
  BY <1>0, <1>3 DEF StopReport, TypeOK
<1>4. CASE Compute \/ PublishThrows \/ Reported \/ Recorded
  BY <1>0, <1>4 DEF Compute, PublishThrows, Reported, Recorded
<1>5. ASSUME NEW k \in Joints,
             MeasureExcess(k) \/ CorrectExcess(k) \/ Record(k)
      PROVE  Recent(j)'
  BY <1>0, <1>5 DEF MeasureExcess, CorrectExcess, Record
<1>6. ASSUME NEW k \in Joints,
             \/ EmergencyStop \/ StopPublish \/ BuildStatus \/ CqDone \/ SimReset
             \/ StopBaseline(k) \/ ReadReported(k) \/ UNCHANGED vars
      PROVE  Recent(j)'
  BY <1>0, <1>6 DEF EmergencyStop, StopPublish, BuildStatus, CqDone, SimReset,
     StopBaseline, ReadReported, vars
<1>7. QED
  BY <1>1, <1>2, <1>3, <1>4, <1>5, <1>6
     DEF Next, RateLimit, PublishJointCommand, Remember, Stop, Status

(* ReportedIsRecent: at any moment, while the worker copies too, a joint of *)
(* the reported vector is that of the policy's last command, the default    *)
(* position, or, if it is not copied yet, that of the command before.       *)
THEOREM ReportedIsRecentAlways == Spec => []ReportedIsRecent
<1>1. Init => CopiedIsRecent
  BY DEF Init, CopiedIsRecent, Recent, Zero
<1>2. CopiedIsRecent => ReportedIsRecent
  BY DEF CopiedIsRecent, ReportedIsRecent
<1>3. QED
  BY <1>1, <1>2, RecentStep, TypeInit, TypeStep, PTL DEF Spec
=============================================================================
