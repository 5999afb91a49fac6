-------------------------- MODULE ClosedLoopClaims --------------------------
(***************************************************************************)
(* What a comment of the brain says of a simulator reset.                  *)
(***************************************************************************)
EXTENDS ClosedLoop

(* ai_brain.cpp:193-194: after a reset gravity_z jumps from about 0 back to *)
(* about -1, and the LSTM state must then be cleared.  The simulator resets *)
(* the robot within the step that finds it fallen, past 45 degrees of pitch *)
(* (mujoco_sim_node.py:275-281, 309-312), and publishes after the reset, so *)
(* the brain need never see the attitude the jump starts from, and goes on  *)
(* with the memory of the life before.                                      *)
ResetClearsMemory == frame # None => memory \notin 1 .. frame - 1
=============================================================================
