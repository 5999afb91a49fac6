----------------------------- MODULE ClosedLoop -----------------------------
(***************************************************************************)
(* The loop between mujoco_sim_node.py and RobotBrain over three ROS       *)
(* topics: the simulator publishes joint states and IMU readings, RosNode  *)
(* caches the latest of each, a frame of the brain turns the cache into a  *)
(* command, and the simulator's PD controller follows the command.  A fall *)
(* makes the simulator reset the robot and wait, physics disabled, for the *)
(* next command.  An epoch is the life of the robot between two resets; it *)
(* tags all that is derived from what was sensed in it.  What the brain's  *)
(* threads do to one another is AIBrain's subject.                         *)
(***************************************************************************)
EXTENDS Naturals, Sequences

CONSTANTS
  Depth,     \* depth of the /joint_commands queue
  MaxEpoch,  \* bound on the falls, for TLC
  None,      \* no message, no frame
  Default    \* the default posture as a target

ASSUME LoopAssumption ==
  /\ Depth \in Nat \ {0}
  /\ MaxEpoch \in Nat \ {0}
  /\ None \notin Nat \cup {Default} /\ Default \notin Nat

VARIABLES
  epoch, posture,      \* the robot: its life, how it stands
  physics_enabled, target_positions, \* the rest of the simulator
  recovered,           \* history: a command of this epoch has arrived
  joint_states, imu,   \* the sensor topics, of depth one: a message or None
  latest_joint, latest_imu, \* RosNode's cache, of epoch 0 until a report
  last_gravity,        \* last_gravity_z, as a class of attitude
  memory,              \* epoch the LSTM state comes from, 0 when cleared
  frame, inferred,     \* the frame that holds the slot, or None; Forward is done
  superseded,          \* a task came after its generation was read
  joint_commands       \* the command topic

simVars == <<epoch, posture, physics_enabled, target_positions, recovered>>
sensorVars == <<joint_states, imu>>
cacheVars == <<latest_joint, latest_imu>>
brainVars == <<last_gravity, memory, frame, inferred, superseded>>
vars == <<simVars, sensorVars, cacheVars, brainVars, joint_commands>>

Epochs == 1 .. MaxEpoch

(* Attitudes by gravity_z: below -0.7, up to -0.3, above.  The simulator's  *)
(* own test looks at the height and the pitch, so it may find a robot of    *)
(* any attitude fallen, and one rolled on its side standing.                *)
Attitudes == {"upright", "leaning", "tipped"}

Readings == [attitude : Attitudes, epoch : Epochs]

Cached == [attitude : Attitudes, epoch : Epochs \cup {0}]

Init ==
  /\ epoch = 1 /\ posture = "upright"
  /\ physics_enabled = FALSE /\ target_positions = Default /\ recovered = FALSE
  /\ joint_states = None /\ imu = None
  /\ latest_joint = 0 /\ latest_imu = [attitude |-> "upright", epoch |-> 0]
  /\ last_gravity = "upright" /\ memory = 0
  /\ frame = None /\ inferred = FALSE /\ superseded = FALSE
  /\ joint_commands = << >>

-----------------------------------------------------------------------------
(***************************************************************************)
(* The simulator: its timer and its subscription share one thread.         *)
(***************************************************************************)
Publish_OnlyMoving(attitude, e) ==    \* mutant: silent while physics is off
  IF physics_enabled
  THEN joint_states' = e /\ imu' = [attitude |-> attitude, epoch |-> e]
  ELSE UNCHANGED sensorVars

Publish(attitude, e) ==
  /\ joint_states' = e
  /\ imu' = [attitude |-> attitude, epoch |-> e]

(* _step, when physics is off or the robot still stands after it.           *)
Step ==
  /\ \E a \in Attitudes :
       /\ a = posture \/ physics_enabled
       /\ posture' = a
       /\ Publish(a, epoch)
  /\ UNCHANGED <<epoch, physics_enabled, target_positions, recovered>>
  /\ UNCHANGED <<cacheVars, brainVars, joint_commands>>

(* _step, when the physics ends in a fall: the reset is part of the step.   *)
Fall ==
  /\ physics_enabled
  /\ epoch < MaxEpoch
  /\ epoch' = epoch + 1
  /\ posture' = "upright"
  /\ target_positions' = Default
  /\ physics_enabled' = FALSE
  /\ recovered' = FALSE
  /\ Publish("upright", epoch + 1)
  /\ UNCHANGED <<cacheVars, brainVars, joint_commands>>

(* Any command enables physics, one of an earlier life too.                 *)
CmdCallback ==
  /\ joint_commands # << >>
  /\ target_positions' = Head(joint_commands)
  /\ joint_commands' = Tail(joint_commands)
  /\ physics_enabled' = TRUE
  /\ recovered' = (recovered \/ Head(joint_commands) = epoch)
  /\ UNCHANGED <<epoch, posture, sensorVars, cacheVars, brainVars>>

-----------------------------------------------------------------------------
(***************************************************************************)
(* RosNode: best-effort subscriptions, each message replaces the cache.    *)
(***************************************************************************)
JointStateCallback ==
  /\ joint_states # None
  /\ latest_joint' = joint_states
  /\ joint_states' = None
  /\ UNCHANGED <<simVars, imu, latest_imu, brainVars, joint_commands>>

LatestImu_FirstOnly == IF latest_imu.epoch = 0 THEN imu ELSE latest_imu  \* mutant

LatestImu == imu

ImuCallback ==
  /\ imu # None
  /\ latest_imu' = LatestImu
  /\ imu' = None
  /\ UNCHANGED <<simVars, joint_states, latest_joint, brainVars, joint_commands>>

LoseSensor ==
  /\ \/ joint_states # None /\ joint_states' = None /\ UNCHANGED imu
     \/ imu # None /\ imu' = None /\ UNCHANGED joint_states
  /\ UNCHANGED <<simVars, cacheVars, brainVars, joint_commands>>

(***************************************************************************)
(* The brain.  A frame is as old as the older of the readings it is made   *)
(* of.  The queue keeps the last Depth commands.                           *)
(***************************************************************************)
Valid_Either == latest_joint > 0 \/ latest_imu.epoch > 0    \* mutant: || for &&

Valid == latest_joint > 0 /\ latest_imu.epoch > 0

Oldest == IF latest_joint < latest_imu.epoch THEN latest_joint ELSE latest_imu.epoch

ResetJump == last_gravity = "tipped" /\ latest_imu.attitude = "upright"

ControlLoopStep ==
  /\ frame = None /\ Valid
  /\ memory' = IF ResetJump THEN 0 ELSE memory
  /\ last_gravity' = latest_imu.attitude
  /\ frame' = Oldest /\ inferred' = FALSE /\ superseded' = FALSE
  /\ UNCHANGED <<simVars, sensorVars, cacheVars, joint_commands>>

Queued_Unbounded(command) == Append(joint_commands, command)    \* mutant

Queued(command) ==
  Append(IF Len(joint_commands) < Depth THEN joint_commands ELSE Tail(joint_commands),
         command)

(* Forward leaves what it saw of the robot in the LSTM; a stop may clear it *)
(* before the result is looked at.                                          *)
Infer ==
  /\ frame # None /\ ~ inferred
  /\ memory' = frame
  /\ inferred' = TRUE
  /\ UNCHANGED <<simVars, sensorVars, cacheVars, last_gravity, frame, superseded,
                 joint_commands>>

Command_Remembered == memory    \* mutant: made of shared state, not of the frame

Command == frame

PublishResult ==
  /\ frame # None /\ inferred
  /\ joint_commands' = Queued(Command)
  /\ frame' = None
  /\ UNCHANGED <<simVars, sensorVars, cacheVars, last_gravity, memory, inferred, superseded>>

(* An overtaken frame is discarded, if it was overtaken before its check.   *)
DiscardResult ==
  /\ frame # None /\ inferred /\ superseded
  /\ frame' = None
  /\ UNCHANGED <<simVars, sensorVars, cacheVars, last_gravity, memory, inferred, superseded,
                 joint_commands>>

(* ProcessRobotTask; an emergency stop publishes a command itself.          *)
Preempt ==
  /\ frame # None
  /\ superseded' = TRUE
  /\ UNCHANGED <<simVars, sensorVars, cacheVars, last_gravity, memory, frame, inferred,
                 joint_commands>>

EmergencyStop ==
  /\ joint_commands' = Queued(Default)
  /\ memory' = 0
  /\ superseded' = (frame # None)
  /\ UNCHANGED <<simVars, sensorVars, cacheVars, last_gravity, frame, inferred>>

-----------------------------------------------------------------------------
Next ==
  \/ Step \/ Fall \/ CmdCallback
  \/ JointStateCallback \/ ImuCallback \/ LoseSensor
  \/ ControlLoopStep \/ Infer \/ PublishResult \/ DiscardResult
  \/ Preempt \/ EmergencyStop

Spec == Init /\ [][Next]_vars

(* Timers fire and callbacks run; a topic that is published for ever is     *)
(* received for ever, if not every time; inference ends, and tasks do not   *)
(* come so fast that one overtakes every frame.  Nobody has to send tasks,  *)
(* and the robot need not fall.                                             *)
FairSpec ==
  /\ Spec
  /\ WF_vars(Step) /\ WF_vars(CmdCallback)
  /\ SF_vars(JointStateCallback) /\ SF_vars(ImuCallback)
  /\ WF_vars(ControlLoopStep) /\ WF_vars(Infer) /\ SF_vars(PublishResult)

-----------------------------------------------------------------------------
TypeOK ==
  /\ epoch \in Epochs /\ posture \in Attitudes
  /\ physics_enabled \in BOOLEAN /\ recovered \in BOOLEAN
  /\ target_positions \in Epochs \cup {0, Default}
  /\ joint_states \in Epochs \cup {None} /\ imu \in Readings \cup {None}
  /\ latest_joint \in Epochs \cup {0} /\ latest_imu \in Cached
  /\ last_gravity \in Attitudes
  /\ memory \in Epochs \cup {0} /\ frame \in Epochs \cup {0, None}
  /\ inferred \in BOOLEAN /\ superseded \in BOOLEAN
  /\ joint_commands \in Seq(Epochs \cup {0, Default})
  /\ Len(joint_commands) <= Depth

(* The robot is never moved by a command computed before both sensors have  *)
(* reported, from the zeros of the cache, nor by one of a later life than   *)
(* the brain has sensed, whatever is lost, delayed or overtaken.            *)
CommandsAreSensed ==
  \A c \in {target_positions} \cup {joint_commands[i] : i \in DOMAIN joint_commands} :
    c # Default => c \in 1 .. Oldest

(* The robot is driven through its lives in order: those that what it       *)
(* follows now, the commands still in the topic and the frame in inference  *)
(* were sensed in never decrease from one to the next, although the two     *)
(* topics a frame is made of lose and delay messages independently and the  *)
(* command topic drops its oldest.  (The default posture of a stop is of no *)
(* life.  Two commands sensed in the same life are not told apart.)         *)
InOrder(a, b) == a # Default /\ b # Default => a <= b

CommandsInOrder ==
  /\ \A i, j \in DOMAIN joint_commands :
       i < j => InOrder(joint_commands[i], joint_commands[j])
  /\ \A i \in DOMAIN joint_commands : InOrder(target_positions, joint_commands[i])
  /\ frame # None =>
       /\ InOrder(target_positions, frame)
       /\ \A i \in DOMAIN joint_commands : InOrder(joint_commands[i], frame)

(* After a fall a command of an earlier life can enable physics again and   *)
(* drive the robot that has just been put on its feet.  But once a command  *)
(* computed from the new life has reached it no earlier one does, whatever  *)
(* is still queued, in inference, cached or delayed, also if the default    *)
(* posture of a stop comes in between.                                      *)
RecoveredForGood == recovered => target_positions \in {epoch, Default}

(* Neither side waits for the other for ever: the brain needs the sensors   *)
(* to command, the simulator a command to move, and after every fall and    *)
(* every lost message physics comes back.                                   *)
PhysicsComesBack == ~ physics_enabled ~> physics_enabled

(* A robot that has stopped falling is, from some time on, no longer driven *)
(* by what was sensed before its last fall: queued commands, the frame in   *)
(* flight and the two cached readings are all flushed.                      *)
Stale == target_positions # Default /\ target_positions < epoch

StaleTargetsEnd == \A e \in Epochs : <>[](epoch = e) => <>[](~ Stale)
=============================================================================
