-------------------------- MODULE ClosedLoopProofs --------------------------
(***************************************************************************)
(* The safety of the loop for every depth of the command topic and any     *)
(* number of falls.  What is cached only grows in age of the robot, so a   *)
(* command that was sensed when it was computed stays so.                  *)
(***************************************************************************)
EXTENDS ClosedLoop, SequenceTheorems, TLAPS

USE LoopAssumption

Targets == Epochs \cup {0, Default}

Entries(q) == {q[i] : i \in DOMAIN q}

(* The queue gains one command at its end and may lose the one at its head. *)
LEMMA QueuedEntries ==
  ASSUME NEW c \in Targets, joint_commands \in Seq(Targets), Len(joint_commands) <= Depth
  PROVE  /\ Queued(c) \in Seq(Targets) /\ Len(Queued(c)) <= Depth
         /\ Entries(Queued(c)) \subseteq Entries(joint_commands) \cup {c}
<1> DEFINE kept == IF Len(joint_commands) < Depth THEN joint_commands ELSE Tail(joint_commands)
<1>1. kept \in Seq(Targets) /\ Len(kept) < Depth /\ Entries(kept) \subseteq Entries(joint_commands)
  <2>1. CASE Len(joint_commands) < Depth
    BY <2>1
  <2>2. CASE ~ (Len(joint_commands) < Depth)
    <3>1. joint_commands # << >> /\ Len(joint_commands) = Depth
      BY <2>2
    <3>2. /\ Tail(joint_commands) \in Seq(Targets)
          /\ Len(Tail(joint_commands)) = Len(joint_commands) - 1
          /\ \A i \in 1 .. Len(Tail(joint_commands)) : Tail(joint_commands)[i] = joint_commands[i + 1]
      BY <3>1, HeadTailProperties
    <3>3. Entries(Tail(joint_commands)) \subseteq Entries(joint_commands)
      BY <3>1, <3>2 DEF Entries
    <3>4. QED
      BY <2>2, <3>1, <3>2, <3>3
  <2>3. QED
    BY <2>1, <2>2
<1> HIDE DEF kept
<1>2. Append(kept, c) \in Seq(Targets) /\ Len(Append(kept, c)) = Len(kept) + 1
  BY <1>1
<1>3. \A i \in DOMAIN Append(kept, c) :
        \/ i \in DOMAIN kept /\ Append(kept, c)[i] = kept[i]
        \/ Append(kept, c)[i] = c
  BY <1>1
<1>4. Entries(Append(kept, c)) \subseteq Entries(kept) \cup {c}
  BY <1>3 DEF Entries
<1>5. QED
  BY <1>1, <1>2, <1>4 DEF Queued, kept

-----------------------------------------------------------------------------
(* Messages are no older than what they will replace, and no younger than   *)
(* the robot.                                                               *)
SensedInv ==
  /\ joint_states # None => latest_joint <= joint_states /\ joint_states <= epoch
  /\ imu # None => latest_imu.epoch <= imu.epoch /\ imu.epoch <= epoch
  /\ latest_joint <= epoch /\ latest_imu.epoch <= epoch

Sensed(c) == c # Default => c \in 1 .. Oldest

CommandInv ==
  /\ Sensed(target_positions)
  /\ \A c \in Entries(joint_commands) : Sensed(c)
  /\ frame # None => frame \in 1 .. Oldest

LoopInv == TypeOK /\ SensedInv /\ CommandInv

LEMMA OldestType ==
  ASSUME TypeOK
  PROVE  Oldest \in 0 .. MaxEpoch
BY DEF TypeOK, Oldest, Cached, Epochs

LEMMA InitInv == Init => LoopInv
<1> SUFFICES ASSUME Init PROVE LoopInv
  OBVIOUS
<1>1. latest_imu \in Cached
  BY DEF Init, Cached, Attitudes
<1>2. joint_commands \in Seq(Targets) /\ Len(joint_commands) <= Depth
  BY DEF Init
<1>3. TypeOK
  <2>1. /\ epoch \in Epochs /\ posture \in Attitudes /\ last_gravity \in Attitudes
        /\ target_positions \in Epochs \cup {0, Default}
    BY DEF Init, Epochs, Attitudes
  <2>2. physics_enabled \in BOOLEAN /\ recovered \in BOOLEAN /\ inferred \in BOOLEAN
        /\ superseded \in BOOLEAN
    BY DEF Init
  <2>3. /\ joint_states \in Epochs \cup {None} /\ imu \in Readings \cup {None}
        /\ latest_joint \in Epochs \cup {0} /\ memory \in Epochs \cup {0}
        /\ frame \in Epochs \cup {0, None}
    BY DEF Init
  <2>4. QED
    BY <1>1, <1>2, <2>1, <2>2, <2>3 DEF TypeOK, Targets
<1>4. SensedInv
  BY DEF Init, SensedInv
<1>5. CommandInv
  BY DEF Init, CommandInv, Sensed, Entries
<1>6. QED
  BY <1>3, <1>4, <1>5 DEF LoopInv

(* A step that leaves what was commanded alone and lets the older of the    *)
(* two readings only grow keeps every command sensed.                       *)
LEMMA StillSensed ==
  ASSUME TypeOK, CommandInv, TypeOK', Oldest <= Oldest',
         UNCHANGED <<target_positions, joint_commands, frame>>
  PROVE  CommandInv'
<1>1. Oldest \in Nat /\ Oldest' \in Nat
  <2>1. TypeOK' => Oldest' \in Nat
    BY DEF TypeOK, Oldest, Cached, Epochs
  <2>2. QED
    BY <2>1, OldestType
<1>2. \A c : Sensed(c) => Sensed(c)'
  BY <1>1 DEF Sensed
<1>3. QED
  BY <1>1, <1>2 DEF CommandInv

-----------------------------------------------------------------------------
(* The simulator and the sensor topics.                                     *)
LEMMA PublishType ==
  ASSUME NEW a \in Attitudes, NEW e \in Epochs, Publish(a, e)
  PROVE  /\ joint_states' = e /\ imu' = [attitude |-> a, epoch |-> e]
         /\ joint_states' \in Epochs /\ imu' \in Readings /\ imu'.epoch = e
<1>1. /\ joint_states' = e /\ imu' = [attitude |-> a, epoch |-> e]
      /\ imu' \in Readings /\ imu'.epoch = e
  BY DEF Publish, Readings
<1>2. QED
  BY <1>1

LEMMA StepStep ==
  ASSUME LoopInv, Step
  PROVE  LoopInv'
<1> USE DEF LoopInv
<1>1. PICK a \in Attitudes : posture' = a /\ Publish(a, epoch)
  BY DEF Step
<1>2. /\ UNCHANGED <<epoch, physics_enabled, target_positions, recovered, latest_joint,
                     latest_imu, last_gravity, memory, frame, inferred, superseded, joint_commands>>
      /\ epoch \in Epochs
  BY DEF Step, cacheVars, brainVars, TypeOK
<1>3. /\ joint_states' = epoch /\ imu'.epoch = epoch
      /\ joint_states' \in Epochs /\ imu' \in Readings
  BY <1>1, <1>2, PublishType
<1>4. TypeOK'
  BY <1>1, <1>2, <1>3 DEF TypeOK
<1>5. SensedInv'
  BY <1>2, <1>3 DEF SensedInv, TypeOK, Epochs, Cached
<1>6. Oldest' = Oldest
  BY <1>2 DEF Oldest
<1>7. CommandInv'
  BY <1>2, <1>6 DEF CommandInv, Sensed, Entries
<1>8. QED
  BY <1>4, <1>5, <1>7

LEMMA FallStep ==
  ASSUME LoopInv, Fall
  PROVE  LoopInv'
<1> USE DEF LoopInv
<1>1. /\ epoch' = epoch + 1 /\ posture' = "upright" /\ target_positions' = Default
      /\ physics_enabled' = FALSE /\ recovered' = FALSE /\ Publish("upright", epoch + 1)
      /\ UNCHANGED <<latest_joint, latest_imu, last_gravity, memory, frame, inferred, superseded,
                     joint_commands>>
      /\ epoch \in Epochs /\ epoch < MaxEpoch
  BY DEF Fall, cacheVars, brainVars, TypeOK
<1>2. epoch + 1 \in Epochs /\ "upright" \in Attitudes
  BY <1>1 DEF Epochs, Attitudes
<1>3. /\ joint_states' = epoch + 1 /\ imu'.epoch = epoch + 1
      /\ joint_states' \in Epochs /\ imu' \in Readings
  BY <1>1, <1>2, PublishType
<1>4. TypeOK'
  <2>1. physics_enabled' \in BOOLEAN /\ recovered' \in BOOLEAN
    BY <1>1
  <2>2. QED
    BY <1>1, <1>2, <1>3, <2>1 DEF TypeOK
<1>5. SensedInv'
  BY <1>1, <1>3 DEF SensedInv, TypeOK, Epochs, Cached
<1>6. Oldest' = Oldest
  BY <1>1 DEF Oldest
<1>7. CommandInv'
  BY <1>1, <1>6 DEF CommandInv, Sensed, Entries
<1>8. QED
  BY <1>4, <1>5, <1>7

LEMMA CmdCallbackStep ==
  ASSUME LoopInv, CmdCallback
  PROVE  LoopInv'
<1> USE DEF LoopInv
<1>1. /\ joint_commands # << >> /\ joint_commands' = Tail(joint_commands)
      /\ target_positions' = Head(joint_commands)
      /\ physics_enabled' = TRUE /\ recovered' \in BOOLEAN
      /\ UNCHANGED <<epoch, posture, joint_states, imu, latest_joint, latest_imu,
                     last_gravity, memory, frame, inferred, superseded>>
  BY DEF CmdCallback, sensorVars, cacheVars, brainVars, TypeOK
<1>2. joint_commands \in Seq(Targets) /\ Len(joint_commands) <= Depth
  BY DEF TypeOK, Targets
<1>3. /\ Tail(joint_commands) \in Seq(Targets)
      /\ Len(Tail(joint_commands)) = Len(joint_commands) - 1
      /\ \A i \in 1 .. Len(Tail(joint_commands)) : Tail(joint_commands)[i] = joint_commands[i + 1]
      /\ Head(joint_commands) = joint_commands[1] /\ 1 \in DOMAIN joint_commands
  BY <1>1, <1>2, HeadTailProperties
<1>4. /\ Head(joint_commands) \in Entries(joint_commands) /\ Head(joint_commands) \in Targets
      /\ Entries(Tail(joint_commands)) \subseteq Entries(joint_commands)
  BY <1>1, <1>2, <1>3 DEF Entries
<1>5. TypeOK'
  <2>1. physics_enabled' \in BOOLEAN /\ recovered' \in BOOLEAN
    BY <1>1
  <2>2. joint_commands' \in Seq(Targets) /\ Len(joint_commands') <= Depth
    BY <1>1, <1>2, <1>3
  <2>3. QED
    BY <1>1, <1>4, <2>1, <2>2 DEF TypeOK, Targets
<1>6. SensedInv'
  BY <1>1 DEF SensedInv
<1>7. \A c : Sensed(c)' <=> Sensed(c)
  BY <1>1 DEF Sensed, Oldest
<1>8. CommandInv'
  <2>1. Sensed(target_positions)'
    BY <1>1, <1>4, <1>7 DEF CommandInv
  <2>2. \A c \in Entries(joint_commands)' : c \in Entries(joint_commands)
    BY <1>1, <1>4 DEF Entries
  <2>3. frame' # None => frame' \in 1 .. Oldest'
    BY <1>1 DEF CommandInv, Oldest
  <2>4. QED
    BY <1>7, <2>1, <2>2, <2>3 DEF CommandInv
<1>9. QED
  BY <1>5, <1>6, <1>8

(* A callback replaces a reading by one at least as young.                  *)
LEMMA CallbackStep ==
  ASSUME LoopInv, JointStateCallback \/ ImuCallback \/ LoseSensor
  PROVE  LoopInv'
<1> USE DEF LoopInv
<1>1. UNCHANGED <<epoch, posture, physics_enabled, target_positions, recovered, last_gravity,
                  memory, frame, inferred, superseded, joint_commands>>
  BY DEF JointStateCallback, ImuCallback, LoseSensor, simVars, cacheVars, brainVars
<1>2. /\ joint_states' \in {joint_states, None} /\ imu' \in {imu, None}
      /\ \/ latest_joint' = latest_joint
         \/ joint_states # None /\ latest_joint' = joint_states /\ joint_states' = None
      /\ \/ latest_imu' = latest_imu
         \/ imu # None /\ latest_imu' = imu /\ imu' = None
  <2>1. CASE JointStateCallback
    BY <2>1 DEF JointStateCallback
  <2>2. CASE ImuCallback
    BY <2>2 DEF ImuCallback, LatestImu
  <2>3. CASE LoseSensor
    BY <2>3 DEF LoseSensor, cacheVars
  <2>4. QED
    BY <2>1, <2>2, <2>3
<1>3. /\ Readings \subseteq Cached /\ latest_joint \in Nat /\ latest_imu.epoch \in Nat
      /\ latest_joint' \in Epochs \cup {0} /\ latest_imu' \in Cached
      /\ latest_joint' >= latest_joint /\ latest_imu'.epoch >= latest_imu.epoch
  <2>1. Readings \subseteq Cached
    BY DEF Readings, Cached
  <2>2. latest_joint' \in Epochs \cup {0} /\ latest_imu' \in Cached
    BY <1>2, <2>1 DEF TypeOK
  <2>3. latest_joint \in Nat /\ latest_imu.epoch \in Nat
    BY DEF TypeOK, Cached, Epochs
  <2>4. QED
    BY <1>2, <2>1, <2>2, <2>3 DEF SensedInv
<1>4. TypeOK'
  BY <1>1, <1>2, <1>3 DEF TypeOK
<1>5. SensedInv'
  <2>1. imu # None => imu.epoch \in Nat
    BY DEF TypeOK, Readings, Epochs
  <2>2. joint_states # None => joint_states \in Nat
    BY DEF TypeOK, Epochs
  <2>3. QED
    BY <1>1, <1>2, <1>3, <2>1, <2>2 DEF SensedInv
<1>6. Oldest <= Oldest'
  <2>1. latest_joint' \in Nat /\ latest_imu'.epoch \in Nat
    BY <1>3 DEF Cached, Epochs
  <2>2. QED
    BY <1>3, <2>1 DEF Oldest
<1>7. CommandInv'
  BY <1>1, <1>4, <1>6, StillSensed
<1>8. QED
  BY <1>4, <1>5, <1>7

-----------------------------------------------------------------------------
(* The brain.                                                               *)
LEMMA BrainStep ==
  ASSUME LoopInv,
         ControlLoopStep \/ Infer \/ PublishResult \/ DiscardResult \/ Preempt \/ EmergencyStop
  PROVE  LoopInv'
<1> USE DEF LoopInv
<1>1. UNCHANGED <<epoch, posture, physics_enabled, target_positions, recovered, joint_states,
                  imu, latest_joint, latest_imu>>
  BY DEF ControlLoopStep, Infer, PublishResult, DiscardResult, Preempt, EmergencyStop, simVars,
         sensorVars, cacheVars
<1>2. SensedInv' /\ Oldest' = Oldest
  BY <1>1 DEF SensedInv, Oldest
<1>3. Oldest \in 0 .. MaxEpoch
  BY OldestType
<1>4. frame # None => frame \in Epochs
  BY <1>3 DEF CommandInv, Epochs
<1>5. /\ last_gravity' \in Attitudes /\ memory' \in Epochs \cup {0}
      /\ inferred' \in BOOLEAN /\ superseded' \in BOOLEAN
      /\ frame' = None \/ frame' \in 1 .. Oldest
  <2>1. CASE ControlLoopStep
    <3>1. Oldest \in 1 .. Oldest
      BY <1>3, <2>1 DEF ControlLoopStep, Valid, Oldest, TypeOK, Cached, Epochs
    <3>2. latest_imu.attitude \in Attitudes
      BY DEF TypeOK, Cached
    <3>3. inferred' \in BOOLEAN /\ superseded' \in BOOLEAN
      BY <2>1 DEF ControlLoopStep
    <3>4. QED
      BY <2>1, <3>1, <3>2, <3>3 DEF ControlLoopStep, TypeOK
  <2>2. CASE PublishResult
    BY <1>4, <2>2 DEF PublishResult, TypeOK
  <2>3. CASE Infer
    <3>1. inferred' \in BOOLEAN
      BY <2>3 DEF Infer
    <3>2. QED
      BY <1>4, <2>3, <3>1 DEF Infer, TypeOK, CommandInv
  <2>4. CASE DiscardResult
    BY <1>4, <2>4 DEF DiscardResult, TypeOK
  <2>5. CASE Preempt
    <3>1. superseded' \in BOOLEAN
      BY <2>5 DEF Preempt
    <3>2. QED
      BY <2>5, <3>1 DEF Preempt, TypeOK, CommandInv
  <2>6. CASE EmergencyStop
    <3>1. superseded' \in BOOLEAN
      BY <2>6 DEF EmergencyStop
    <3>2. QED
      BY <2>6, <3>1 DEF EmergencyStop, TypeOK, CommandInv
  <2>7. QED
    BY <2>1, <2>2, <2>3, <2>4, <2>5, <2>6
<1>6. /\ joint_commands' \in Seq(Targets) /\ Len(joint_commands') <= Depth
      /\ \A c \in Entries(joint_commands)' : c \in Entries(joint_commands) \/ Sensed(c)
  <2>1. joint_commands \in Seq(Targets) /\ Len(joint_commands) <= Depth
    BY DEF TypeOK, Targets
  <2>2. CASE PublishResult
    <3>1. frame \in Targets /\ Sensed(frame) /\ joint_commands' = Queued(frame)
      BY <1>4, <2>2 DEF PublishResult, Command, CommandInv, Sensed, Targets
    <3>2. Entries(joint_commands)' = Entries(Queued(frame))
      BY <3>1 DEF Entries
    <3>3. QED
      BY <2>1, <3>1, <3>2, QueuedEntries
  <2>3. CASE EmergencyStop
    <3>1. Default \in Targets /\ Sensed(Default) /\ joint_commands' = Queued(Default)
      BY <2>3 DEF EmergencyStop, Sensed, Targets
    <3>2. Entries(joint_commands)' = Entries(Queued(Default))
      BY <3>1 DEF Entries
    <3>3. QED
      BY <2>1, <3>1, <3>2, QueuedEntries
  <2>4. CASE ControlLoopStep \/ Infer \/ DiscardResult \/ Preempt
    <3>1. joint_commands' = joint_commands
      BY <2>4 DEF ControlLoopStep, Infer, DiscardResult, Preempt
    <3>2. QED
      BY <2>1, <3>1 DEF Entries
  <2>5. QED
    BY <2>2, <2>3, <2>4
<1>7. TypeOK'
  <2>1. frame' \in Epochs \cup {0, None}
    BY <1>3, <1>5 DEF Epochs
  <2>2. QED
    BY <1>1, <1>5, <1>6, <2>1 DEF TypeOK, Targets
<1>8. CommandInv'
  <2>1. \A c : Sensed(c)' <=> Sensed(c)
    BY <1>2 DEF Sensed
  <2>2. QED
    BY <1>1, <1>2, <1>5, <1>6, <2>1 DEF CommandInv
<1>9. QED
  BY <1>2, <1>7, <1>8

LEMMA StutterStep ==
  ASSUME LoopInv, UNCHANGED vars
  PROVE  LoopInv'
BY DEF vars, simVars, sensorVars, cacheVars, brainVars, LoopInv, TypeOK, SensedInv, CommandInv,
       Sensed, Oldest, Entries

LEMMA InvStep == LoopInv /\ [Next]_vars => LoopInv'
BY StepStep, FallStep, CmdCallbackStep, CallbackStep, BrainStep, StutterStep DEF Next

LEMMA Invariant == Spec => []LoopInv
BY InitInv, InvStep, PTL DEF Spec

-----------------------------------------------------------------------------
(* Every variable has its type, and the command topic keeps to its depth.   *)
THEOREM TypeCorrect == Spec => []TypeOK
<1>1. LoopInv => TypeOK
  BY DEF LoopInv
<1>2. QED
  BY <1>1, Invariant, PTL

(* No command in the topic or on the robot was computed from the zeros of   *)
(* the cache, or from a life the brain has not sensed.                      *)
THEOREM CommandsAreSensedAlways == Spec => []CommandsAreSensed
<1>1. LoopInv => CommandsAreSensed
  BY DEF LoopInv, CommandInv, CommandsAreSensed, Sensed, Entries
<1>2. QED
  BY <1>1, Invariant, PTL

-----------------------------------------------------------------------------
(* The order of the commands.  A frame is made of the older of two readings *)
(* that never get older, so it is at least as young as all that precedes it *)
(* and what it becomes may go to the end of the topic.                      *)
LEMMA QueuedOrder ==
  ASSUME NEW c \in Targets, joint_commands \in Seq(Targets), Len(joint_commands) <= Depth,
         \A i, j \in DOMAIN joint_commands :
           i < j => InOrder(joint_commands[i], joint_commands[j]),
         \A i \in DOMAIN joint_commands : InOrder(joint_commands[i], c)
  PROVE  \A i, j \in DOMAIN Queued(c) : i < j => InOrder(Queued(c)[i], Queued(c)[j])
<1> DEFINE kept == IF Len(joint_commands) < Depth THEN joint_commands ELSE Tail(joint_commands)
<1>1. /\ kept \in Seq(Targets)
      /\ \A i, j \in DOMAIN kept : i < j => InOrder(kept[i], kept[j])
      /\ \A i \in DOMAIN kept : InOrder(kept[i], c)
  <2>1. CASE Len(joint_commands) < Depth
    BY <2>1
  <2>2. CASE ~ (Len(joint_commands) < Depth)
    <3>1. joint_commands # << >>
      BY <2>2
    <3>2. /\ Tail(joint_commands) \in Seq(Targets)
          /\ Len(Tail(joint_commands)) = Len(joint_commands) - 1
          /\ \A i \in 1 .. Len(Tail(joint_commands)) : Tail(joint_commands)[i] = joint_commands[i + 1]
      BY <3>1, HeadTailProperties
    <3>3. \A i \in DOMAIN Tail(joint_commands) :
            /\ i \in Nat /\ i + 1 \in DOMAIN joint_commands
            /\ Tail(joint_commands)[i] = joint_commands[i + 1]
      BY <3>1, <3>2
    <3>4. kept = Tail(joint_commands)
      BY <2>2
    <3> HIDE DEF kept
    <3>5. QED
      BY <3>2, <3>3, <3>4
  <2>3. QED
    BY <2>1, <2>2
<1> HIDE DEF kept
<1>2. \A i \in DOMAIN Append(kept, c) :
        \/ i \in DOMAIN kept /\ Append(kept, c)[i] = kept[i]
        \/ i = Len(kept) + 1 /\ Append(kept, c)[i] = c
  BY <1>1
<1>3. DOMAIN kept = 1 .. Len(kept) /\ Len(kept) \in Nat
      /\ DOMAIN Append(kept, c) = 1 .. Len(kept) + 1
  BY <1>1
<1>4. ASSUME NEW i \in DOMAIN Append(kept, c), NEW j \in DOMAIN Append(kept, c), i < j
      PROVE  InOrder(Append(kept, c)[i], Append(kept, c)[j])
  <2>1. i \in DOMAIN kept /\ Append(kept, c)[i] = kept[i]
    BY <1>2, <1>3, <1>4
  <2>2. CASE j \in DOMAIN kept /\ Append(kept, c)[j] = kept[j]
    BY <1>1, <1>4, <2>1, <2>2
  <2>3. CASE Append(kept, c)[j] = c
    BY <1>1, <2>1, <2>3
  <2>4. QED
    BY <1>2, <2>2, <2>3
<1>5. Queued(c) = Append(kept, c)
  BY DEF Queued, kept
<1>6. QED
  BY <1>4, <1>5

LEMMA OrderCmdCallback ==
  ASSUME LoopInv, CommandsInOrder, CmdCallback
  PROVE  CommandsInOrder'
<1>1. /\ joint_commands # << >> /\ joint_commands' = Tail(joint_commands)
      /\ target_positions' = Head(joint_commands) /\ frame' = frame
  BY DEF CmdCallback, brainVars
<1>2. joint_commands \in Seq(Targets)
  BY DEF LoopInv, TypeOK, Targets
<1>3. /\ Tail(joint_commands) \in Seq(Targets)
      /\ Len(Tail(joint_commands)) = Len(joint_commands) - 1
      /\ \A i \in 1 .. Len(Tail(joint_commands)) : Tail(joint_commands)[i] = joint_commands[i + 1]
      /\ Head(joint_commands) = joint_commands[1] /\ 1 \in DOMAIN joint_commands
  BY <1>1, <1>2, HeadTailProperties
<1>4. \A i \in DOMAIN joint_commands' :
        /\ i \in Nat \ {0} /\ i + 1 \in DOMAIN joint_commands
        /\ joint_commands'[i] = joint_commands[i + 1]
  BY <1>1, <1>2, <1>3
<1>5. target_positions' = joint_commands[1] /\ 1 \in DOMAIN joint_commands
  BY <1>1, <1>3
<1>6. \A a, b : InOrder(a, b)' <=> InOrder(a, b)
  BY DEF InOrder
<1>7. \A i, j \in DOMAIN joint_commands' :
        i < j => InOrder(joint_commands'[i], joint_commands'[j])
  BY <1>4 DEF CommandsInOrder
<1>8. \A i \in DOMAIN joint_commands' : InOrder(target_positions', joint_commands'[i])
  BY <1>4, <1>5 DEF CommandsInOrder
<1>9. frame' # None =>
        /\ InOrder(target_positions', frame')
        /\ \A i \in DOMAIN joint_commands' : InOrder(joint_commands'[i], frame')
  BY <1>1, <1>4, <1>5 DEF CommandsInOrder
<1>10. QED
  BY <1>7, <1>8, <1>9 DEF CommandsInOrder, InOrder

LEMMA OrderBrain ==
  ASSUME LoopInv, CommandsInOrder,
         ControlLoopStep \/ Infer \/ PublishResult \/ DiscardResult \/ Preempt \/ EmergencyStop
  PROVE  CommandsInOrder'
<1> USE DEF LoopInv
<1>1. target_positions' = target_positions
  BY DEF ControlLoopStep, Infer, PublishResult, DiscardResult, Preempt, EmergencyStop, simVars
<1>2. joint_commands \in Seq(Targets) /\ Len(joint_commands) <= Depth
  BY DEF TypeOK, Targets
<1>3. CASE ControlLoopStep
  <2>1. frame' = Oldest /\ joint_commands' = joint_commands
    BY <1>3 DEF ControlLoopStep
  <2>2. \A c : Sensed(c) => InOrder(c, Oldest)
    BY OldestType DEF Sensed, InOrder
  <2>3. /\ InOrder(target_positions, frame')
        /\ \A i \in DOMAIN joint_commands : InOrder(joint_commands[i], frame')
    BY <2>1, <2>2 DEF CommandInv, Entries
  <2>4. QED
    BY <1>1, <2>1, <2>3 DEF CommandsInOrder, InOrder
<1>4. CASE Infer \/ DiscardResult \/ Preempt
  BY <1>1, <1>4 DEF Infer, DiscardResult, Preempt, CommandsInOrder, InOrder
<1>5. ASSUME NEW c \in Targets, joint_commands' = Queued(c), frame' \in {frame, None},
             InOrder(target_positions, c),
             \A i \in DOMAIN joint_commands : InOrder(joint_commands[i], c),
             frame' # None => InOrder(c, frame')
      PROVE  CommandsInOrder'
  <2>1. \A i, j \in DOMAIN joint_commands' :
          i < j => InOrder(joint_commands'[i], joint_commands'[j])
    <3>1. \A i, j \in DOMAIN joint_commands :
            i < j => InOrder(joint_commands[i], joint_commands[j])
      BY DEF CommandsInOrder
    <3>2. QED
      BY <1>2, <1>5, <3>1, QueuedOrder
  <2>2. \A i \in DOMAIN joint_commands' : joint_commands'[i] \in Entries(joint_commands) \cup {c}
    <3>1. Entries(Queued(c)) \subseteq Entries(joint_commands) \cup {c}
      BY <1>2, QueuedEntries
    <3>2. QED
      BY <1>5, <3>1 DEF Entries
  <2>3. \A i \in DOMAIN joint_commands' : InOrder(target_positions, joint_commands'[i])
    BY <1>5, <2>2 DEF CommandsInOrder, Entries
  <2>4. frame' # None => \A i \in DOMAIN joint_commands' : InOrder(joint_commands'[i], frame')
    BY <1>5, <2>2 DEF CommandsInOrder, Entries
  <2>5. frame' # None => InOrder(target_positions, frame')
    BY <1>5 DEF CommandsInOrder
  <2>6. QED
    BY <1>1, <2>1, <2>3, <2>4, <2>5 DEF CommandsInOrder, InOrder
<1>6. CASE PublishResult
  <2>1. frame # None /\ joint_commands' = Queued(frame) /\ frame' = None
    BY <1>6 DEF PublishResult, Command
  <2>2. frame \in Targets
    BY <2>1 DEF TypeOK, Targets
  <2>3. /\ InOrder(target_positions, frame)
        /\ \A i \in DOMAIN joint_commands : InOrder(joint_commands[i], frame)
    BY <2>1 DEF CommandsInOrder
  <2>4. QED
    BY <1>5, <2>1, <2>2, <2>3
<1>7. CASE EmergencyStop
  <2>1. joint_commands' = Queued(Default) /\ frame' = frame /\ Default \in Targets
    BY <1>7 DEF EmergencyStop, Targets
  <2>2. \A a : InOrder(a, Default) /\ InOrder(Default, a)
    BY DEF InOrder
  <2>3. QED
    BY <1>5, <2>1, <2>2
<1>8. QED
  BY <1>3, <1>4, <1>6, <1>7

LEMMA OrderStep == LoopInv /\ CommandsInOrder /\ [Next]_vars => CommandsInOrder'
<1> SUFFICES ASSUME LoopInv, CommandsInOrder, [Next]_vars PROVE CommandsInOrder'
  OBVIOUS
<1>1. CASE Fall
  <2>1. target_positions' = Default /\ UNCHANGED <<joint_commands, frame>>
    BY <1>1 DEF Fall, brainVars
  <2>2. QED
    BY <2>1 DEF CommandsInOrder, InOrder
<1>2. CASE Step \/ JointStateCallback \/ ImuCallback \/ LoseSensor \/ UNCHANGED vars
  <2>1. UNCHANGED <<target_positions, joint_commands, frame>>
    BY <1>2 DEF Step, JointStateCallback, ImuCallback, LoseSensor, vars, simVars, brainVars
  <2>2. QED
    BY <2>1 DEF CommandsInOrder, InOrder
<1>3. QED
  BY <1>1, <1>2, OrderCmdCallback, OrderBrain DEF Next

(* For every depth of the topic and any number of falls, the lives that the *)
(* robot's target, the queued commands and the frame in inference were      *)
(* sensed in do not decrease in that order                                  *)
(* (ai_brain.cpp:184, 240, mujoco_sim_node.py:283, ros_node.cpp:25).        *)
THEOREM CommandsInOrderAlways == Spec => []CommandsInOrder
<1>1. Init => CommandsInOrder
  BY DEF Init, CommandsInOrder
<1>2. QED
  BY <1>1, OrderStep, Invariant, PTL DEF Spec

-----------------------------------------------------------------------------
(* Once a command of the new life has arrived the brain has sensed that     *)
(* life, and the order of the commands has flushed all earlier ones: they   *)
(* are gone from the topic and from inference, and the cache makes no more. *)
OfThisLife(c) == c \in {epoch, Default}

RecoveredInv ==
  recovered =>
    /\ Oldest = epoch
    /\ OfThisLife(target_positions)
    /\ \A c \in Entries(joint_commands) : OfThisLife(c)
    /\ frame # None => frame = epoch

LEMMA OldestGrowsTo ==
  ASSUME LoopInv
  PROVE  Oldest \in Nat /\ epoch \in Nat /\ Oldest <= epoch
BY DEF LoopInv, TypeOK, SensedInv, Oldest, Cached, Epochs

LEMMA RecoveredCmdCallback ==
  ASSUME LoopInv, CommandsInOrder, RecoveredInv, CmdCallback
  PROVE  RecoveredInv'
<1>1. /\ joint_commands # << >> /\ joint_commands' = Tail(joint_commands)
      /\ target_positions' = Head(joint_commands) /\ frame' = frame
      /\ epoch' = epoch /\ Oldest' = Oldest
      /\ recovered' = (recovered \/ Head(joint_commands) = epoch)
  BY DEF CmdCallback, brainVars, cacheVars, Oldest
<1>2. joint_commands \in Seq(Targets)
  BY DEF LoopInv, TypeOK, Targets
<1>3. /\ Tail(joint_commands) \in Seq(Targets)
      /\ Len(Tail(joint_commands)) = Len(joint_commands) - 1
      /\ \A i \in 1 .. Len(Tail(joint_commands)) : Tail(joint_commands)[i] = joint_commands[i + 1]
      /\ Head(joint_commands) = joint_commands[1] /\ 1 \in DOMAIN joint_commands
  BY <1>1, <1>2, HeadTailProperties
<1>4. \A i \in DOMAIN joint_commands' :
        /\ i \in Nat \ {0} /\ i + 1 \in DOMAIN joint_commands
        /\ joint_commands'[i] = joint_commands[i + 1]
  BY <1>1, <1>2, <1>3
<1>5. Oldest \in Nat /\ epoch \in Nat /\ Oldest <= epoch
  BY OldestGrowsTo
<1>6. CASE Head(joint_commands) = epoch
  <2>1. Oldest = epoch
    <3>1. Sensed(epoch)
      BY <1>3, <1>6 DEF LoopInv, CommandInv, Entries
    <3>2. QED
      BY <1>5, <3>1 DEF Sensed
  <2>2. \A c : Sensed(c) /\ InOrder(epoch, c) => OfThisLife(c)
    BY <1>5, <2>1 DEF Sensed, InOrder, OfThisLife
  <2>3. \A i \in DOMAIN joint_commands' : OfThisLife(joint_commands'[i])
    <3>1. \A i \in DOMAIN joint_commands' :
            Sensed(joint_commands[i + 1]) /\ InOrder(joint_commands[1], joint_commands[i + 1])
      BY <1>3, <1>4 DEF LoopInv, CommandInv, Entries, CommandsInOrder
    <3>2. QED
      BY <1>3, <1>4, <1>6, <2>2, <3>1
  <2>4. frame # None => frame = epoch
    <3>1. frame # None => frame \in 1 .. Oldest /\ InOrder(epoch, frame)
      BY <1>3, <1>6 DEF LoopInv, CommandInv, CommandsInOrder
    <3>2. QED
      BY <1>5, <2>1, <3>1 DEF InOrder
  <2>5. QED
    BY <1>1, <1>6, <2>1, <2>3, <2>4 DEF RecoveredInv, OfThisLife, Entries
<1>7. CASE recovered
  <2>1. \A i \in DOMAIN joint_commands : OfThisLife(joint_commands[i])
    BY <1>7 DEF RecoveredInv, Entries
  <2>2. QED
    BY <1>1, <1>3, <1>4, <1>7, <2>1 DEF RecoveredInv, OfThisLife, Entries
<1>8. QED
  BY <1>1, <1>6, <1>7 DEF RecoveredInv

LEMMA RecoveredBrain ==
  ASSUME LoopInv, RecoveredInv,
         ControlLoopStep \/ Infer \/ PublishResult \/ DiscardResult \/ Preempt \/ EmergencyStop
  PROVE  RecoveredInv'
<1>1. UNCHANGED <<epoch, target_positions, recovered, Oldest>>
  BY DEF ControlLoopStep, Infer, PublishResult, DiscardResult, Preempt, EmergencyStop, simVars,
         cacheVars, Oldest
<1>2. joint_commands \in Seq(Targets) /\ Len(joint_commands) <= Depth
  BY DEF LoopInv, TypeOK, Targets
<1>3. CASE ~ recovered
  BY <1>1, <1>3 DEF RecoveredInv
<1>4. CASE recovered
  <2>1. /\ Oldest = epoch /\ OfThisLife(target_positions)
        /\ \A c \in Entries(joint_commands) : OfThisLife(c)
        /\ frame # None => frame = epoch
    BY <1>4 DEF RecoveredInv
  <2>2. frame' # None => frame' = epoch
    BY <2>1 DEF ControlLoopStep, Infer, PublishResult, DiscardResult, Preempt, EmergencyStop
  <2>3. \/ joint_commands' = joint_commands
        \/ \E c \in Targets : OfThisLife(c) /\ joint_commands' = Queued(c)
    <3>1. CASE PublishResult
      BY <2>1, <3>1 DEF PublishResult, Command, OfThisLife, LoopInv, TypeOK, Targets
    <3>2. CASE EmergencyStop
      BY <3>2 DEF EmergencyStop, OfThisLife, Targets
    <3>3. QED
      BY <3>1, <3>2 DEF ControlLoopStep, Infer, DiscardResult, Preempt
  <2>4. \A c \in Entries(joint_commands)' : OfThisLife(c)
    <3>1. Entries(joint_commands)' = Entries(joint_commands')
      BY DEF Entries
    <3>2. \A c \in Targets : Entries(Queued(c)) \subseteq Entries(joint_commands) \cup {c}
      BY <1>2, QueuedEntries
    <3>3. QED
      BY <2>1, <2>3, <3>1, <3>2
  <2>5. QED
    BY <1>1, <2>1, <2>2, <2>4 DEF RecoveredInv, OfThisLife
<1>5. QED
  BY <1>3, <1>4

LEMMA RecoveredStep ==
  LoopInv /\ LoopInv' /\ CommandsInOrder /\ RecoveredInv /\ [Next]_vars => RecoveredInv'
<1> SUFFICES ASSUME LoopInv, LoopInv', CommandsInOrder, RecoveredInv, [Next]_vars
             PROVE  RecoveredInv'
  OBVIOUS
<1>1. CASE Fall
  BY <1>1 DEF Fall, RecoveredInv
<1>2. CASE JointStateCallback \/ ImuCallback
  <2>1. UNCHANGED <<epoch, target_positions, recovered, joint_commands, frame>>
    BY <1>2 DEF JointStateCallback, ImuCallback, simVars, brainVars
  <2>2. recovered => Oldest' = epoch
    <3>1. Oldest' \in Nat /\ Oldest' <= epoch'
      <4>1. LoopInv' => Oldest' \in Nat /\ Oldest' <= epoch'
        BY DEF LoopInv, TypeOK, SensedInv, Oldest, Cached, Epochs
      <4>2. QED
        BY <4>1
    <3>2. Oldest <= Oldest'
      BY <1>2 DEF JointStateCallback, ImuCallback, LatestImu, Oldest, LoopInv, SensedInv, TypeOK,
                  Cached, Readings, Epochs
    <3>3. QED
      BY <2>1, <3>1, <3>2, OldestGrowsTo DEF RecoveredInv
  <2>3. QED
    BY <2>1, <2>2 DEF RecoveredInv, OfThisLife, Entries
<1>3. CASE Step \/ LoseSensor \/ UNCHANGED vars
  <2>1. UNCHANGED <<epoch, target_positions, recovered, joint_commands, frame, Oldest>>
    BY <1>3 DEF Step, LoseSensor, vars, simVars, brainVars, cacheVars, Oldest
  <2>2. QED
    BY <2>1 DEF RecoveredInv, OfThisLife, Entries
<1>4. QED
  BY <1>1, <1>2, <1>3, RecoveredCmdCallback, RecoveredBrain DEF Next

(* A robot put back on its feet is never again driven by a command of an    *)
(* earlier life once one of its own has arrived, for every depth of the     *)
(* topic and any number of falls (mujoco_sim_node.py:283-288, 309-319).     *)
THEOREM RecoveredForGoodAlways == Spec => []RecoveredForGood
<1>1. Init => RecoveredInv
  BY DEF Init, RecoveredInv
<1>2. RecoveredInv => RecoveredForGood
  BY DEF RecoveredInv, RecoveredForGood, OfThisLife
<1>3. QED
  BY <1>1, <1>2, RecoveredStep, CommandsInOrderAlways, Invariant, PTL DEF Spec
=============================================================================
