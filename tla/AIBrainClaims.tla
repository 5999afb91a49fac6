--------------------------- MODULE AIBrainClaims ---------------------------
(***************************************************************************)
(* What the README and the comments of RobotBrain say of the brain and the *)
(* code does not do.  Each formula is the property of one run, and TLC     *)
(* finds a behaviour of AIBrain that violates it.                          *)
(***************************************************************************)
EXTENDS AIBrain

Stopped == cq_pc = "idle" /\ current_task_type = "EMERGENCY_STOP"

(* README.md:30: a result overtaken by a newer task is discarded.  So once  *)
(* an emergency stop has been handled, the last command on /joint_commands  *)
(* is its default posture or was computed for the stop's own generation.    *)
(* The generation is compared before the command is published, so a stop    *)
(* handled in between is followed by the old task's joint targets           *)
(* (ai_brain.cpp:294-296 against 137-146).                                  *)
StopHasTheLastWord == Stopped => sent \in {Default, task_generation}

(* README.md:32: the watchdog sends the robot back to standing on a timeout *)
(* of the heartbeat.  It decides on a heartbeat and a state it has read     *)
(* earlier, so what it then demotes, or brings to a standstill, may be a    *)
(* task that was accepted and fed the heartbeat since (ai_brain.cpp:162).   *)
WatchdogActsOnlyOverdue ==
  rt_pc \in {"demote", "zero_velocity"} /\ state = "EXECUTING" => Overdue
=============================================================================
