--------------------------- MODULE RealtimeThread ---------------------------
(***************************************************************************)
(* The realtime thread of RosNode as a whole: each time it wakes it        *)
(* measures how late it is (JitterStats) and then runs the frame, whose    *)
(* ramp works on the same clock (VelocityRamp).                            *)
(***************************************************************************)
EXTENDS VelocityRamp, JitterStats

threadVars == <<vars, jitterVars>>

ThreadInit == Init /\ JitterInit

(* A wake-up before the deadline counts as no jitter at all.                *)
WakeJitter_Signed == clock - next    \* mutant: negative jitter is kept

WakeJitter == IF clock < next THEN 0 ELSE clock - next

MeasuredWake == (Wake \/ WakeInterrupted) /\ UpdateJitter(WakeJitter)

Unmeasured ==
  /\ Elapse \/ StartLoop \/ Skip \/ Ramp \/ (\E v \in Velocities : SetVelocity(v))
  /\ UNCHANGED jitterVars

ThreadNext == MeasuredWake \/ Unmeasured

ThreadSpec == ThreadInit /\ [][ThreadNext]_threadVars

-----------------------------------------------------------------------------
(* Every variable has its type, and a jitter is never negative.             *)
ThreadTypeOK == TypeOK /\ JitterTypeOK
=============================================================================
