----------------------------- MODULE CommandGate -----------------------------
(***************************************************************************)
(* What RobotBrain promises about the commands it sends, with no threads,  *)
(* no watchdog and no frames: tasks preempt each other, a command is       *)
(* admitted only while its task is the current one, and at most one        *)
(* admitted command waits to be delivered, or is lost.  A stop delivers the default    *)
(* posture at any moment.                                                  *)
(***************************************************************************)
EXTENDS Integers

CONSTANTS
  MaxTasks,   \* bound on the number of preemptions
  Default,    \* the default posture
  Nothing     \* no command

VARIABLES
  current,   \* the generation of the current task
  admitted,  \* the generation of the command about to be delivered, or Nothing
  delivered, \* the generation of the last command delivered
  late       \* commands of older tasks delivered since the last preemption

gateVars == <<current, admitted, delivered, late>>

Init == current = 0 /\ admitted = Nothing /\ delivered = Nothing /\ late = 0

Preempt ==
  /\ current < MaxTasks
  /\ current' = current + 1
  /\ late' = 0
  /\ UNCHANGED <<admitted, delivered>>

Admit ==
  /\ admitted = Nothing
  /\ admitted' = current
  /\ UNCHANGED <<current, delivered, late>>

Deliver ==
  /\ admitted # Nothing
  /\ delivered' = admitted
  /\ admitted' = Nothing
  /\ late' = IF admitted = current THEN late ELSE late + 1
  /\ UNCHANGED current

(* An admitted command may get lost.                                        *)
Drop ==
  /\ admitted # Nothing
  /\ admitted' = Nothing
  /\ UNCHANGED <<current, delivered, late>>

Stop ==
  /\ delivered' = Default
  /\ UNCHANGED <<current, admitted, late>>

Next == Preempt \/ Admit \/ Deliver \/ Drop \/ Stop

Spec == Init /\ [][Next]_gateVars

-----------------------------------------------------------------------------
(* What the promise comes to.  After a preemption at most one command of an *)
(* older task is still delivered, the one admitted when it happened         *)
(* (ai_brain.cpp:294-296 against 137) ...                                   *)
AtMostOneLate == late <= 1

(* ... and once a command of the current task has been delivered, none of   *)
(* an older task is until the next preemption.                              *)
NoRelapse ==
  [][delivered = current /\ current' = current
       => delivered' \in {current, Default}]_gateVars
=============================================================================
