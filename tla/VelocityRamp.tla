---------------------------- MODULE VelocityRamp ----------------------------
(***************************************************************************)
(* The ramp of the velocity command in time: the absolute-time loop of the *)
(* realtime thread (RosNode::RegisterRealtimeTick), the dt that            *)
(* ControlLoopStep measures from frame to frame, and RampVelocityCommand.  *)
(* One component of the command; the three are ramped alike.  Time is in   *)
(* milliseconds, velocities in what the ramp gains in one of them.         *)
(***************************************************************************)
EXTENDS Integers

CONSTANTS
  Velocities, \* what velocity_cmd_ is set to, by a task or by the watchdog
  Period,     \* rate_ms, which is also the dt assumed when the gap is not believed
  MaxGap,     \* the longest dt that is believed: 500 ms
  MaxTime,    \* bound on the clock, for TLC
  MaxInterrupts \* bound on the signals that end a sleep, for TLC

ASSUME RampAssumption ==
  /\ Velocities \subseteq Int /\ 0 \in Velocities
  /\ Period \in Nat \ {0} /\ MaxGap \in Nat /\ Period <= MaxGap
  /\ MaxTime \in Nat /\ MaxInterrupts \in Nat

VARIABLES
  clock,    \* GetCurrentTimeMs, from the brain's construction at 1
  next,     \* when the loop wakes up
  pc, now,  \* of ControlLoopStep, and the time it read
  last_control, \* last_control_ms_
  target,   \* velocity_cmd_
  current,  \* current_vel_cmd_
  travelled,\* history: how far current has moved in all
  steady,   \* history: ramped time since target was last set
  interrupts \* history: sleeps that a signal ended early

historyVars == <<travelled, steady, interrupts>>
vars == <<clock, next, pc, now, last_control, target, current, historyVars>>

(* The brain's constructor stores the time in last_control_ms_ and then     *)
(* has the realtime thread started.                                         *)
Init ==
  /\ clock = 1 /\ next = 1 /\ pc = "starting" /\ now = 1 /\ last_control = 1
  /\ target = 0 /\ current = 0
  /\ travelled = 0 /\ steady = 0 /\ interrupts = 0

(* Time passes between any two steps: the thread may be late, or slow.      *)
Elapse ==
  /\ clock < MaxTime
  /\ clock' = clock + 1
  /\ UNCHANGED <<next, pc, now, last_control, target, current, historyVars>>

(* ProcessRobotTask and the watchdog set the command, holding cmd_mtx_.     *)
SetVelocity(v) ==
  /\ target' = v
  /\ steady' = 0
  /\ UNCHANGED <<clock, next, pc, now, last_control, current, travelled,
                 interrupts>>

(* The thread has locked the memory and set its priority, which takes its   *)
(* time, and takes the first deadline.                                      *)
StartLoop ==
  /\ pc = "starting"
  /\ next' = clock
  /\ pc' = "sleep"
  /\ UNCHANGED <<clock, now, last_control, target, current, historyVars>>

Wake ==
  /\ pc = "sleep" /\ clock >= next
  /\ pc' = "tick"
  /\ now' = clock
  /\ UNCHANGED <<clock, next, last_control, target, current, historyVars>>

(* A signal handler that runs on this thread ends clock_nanosleep before    *)
(* the deadline.  Its result is not looked at, so the loop ticks early.     *)
WakeInterrupted ==
  /\ pc = "sleep" /\ clock < next /\ interrupts < MaxInterrupts
  /\ pc' = "tick"
  /\ now' = clock
  /\ interrupts' = interrupts + 1
  /\ UNCHANGED <<clock, next, last_control, target, current, travelled, steady>>

(* The callback returns and the loop adds one period to the old deadline,   *)
(* however late it is.                                                      *)
TickDone ==
  /\ next' = next + Period
  /\ pc' = "sleep"

(* The frame slot is taken, or a sensor has not reported: no ramp, and no   *)
(* new last_control_ms_ (AIBrain's DropFrame and SkipFrame).                *)
Skip ==
  /\ pc = "tick"
  /\ TickDone
  /\ UNCHANGED <<clock, now, last_control, target, current, historyVars>>

(* Nothing sets last_control_ms_ to 0 again: the branch is never taken.     *)
Gap == IF last_control > 0 THEN now - last_control ELSE Period

Dt_Clamped == IF Gap <= 0 \/ Gap > MaxGap THEN MaxGap ELSE Gap    \* mutant

Dt == IF Gap <= 0 \/ Gap > MaxGap THEN Period ELSE Gap

Magnitude(v) == IF v < 0 THEN -v ELSE v

(* The rate is one velocity unit per millisecond, so max_delta is dt.       *)
Moved_NeverSnaps(dt) == IF target > current THEN current + dt ELSE current - dt  \* mutant

Moved(dt) ==
  IF Magnitude(target - current) <= dt THEN target
  ELSE IF target > current THEN current + dt ELSE current - dt

Ramp ==
  /\ pc = "tick"
  /\ last_control' = now
  /\ current' = Moved(Dt)
  /\ travelled' = travelled + Magnitude(current' - current)
  /\ steady' = steady + Dt
  /\ TickDone
  /\ UNCHANGED <<clock, now, target, interrupts>>

Next ==
  \/ Elapse \/ StartLoop \/ Wake \/ WakeInterrupted \/ Skip \/ Ramp
  \/ \E v \in Velocities : SetVelocity(v)

Spec == Init /\ [][Next]_vars

-----------------------------------------------------------------------------
Between(v) == \E lo, hi \in Velocities : lo <= v /\ v <= hi

TypeOK ==
  /\ clock \in Nat \ {0} /\ next \in Nat \ {0}
  /\ pc \in {"starting", "sleep", "tick"}
  /\ now \in Nat \ {0} /\ last_control \in Nat \ {0}
  /\ target \in Velocities
  /\ current \in Int /\ Between(current)
  /\ travelled \in Nat /\ steady \in Nat /\ interrupts \in Nat

(* The velocity the policy sees has moved by no more than the rate allows   *)
(* for twice the time since the brain was made, one period, and one more    *)
(* for each signal: the first frame ramps for all the time the thread took  *)
(* to start, a late frame for its whole gap, and each frame the loop then   *)
(* catches up at once, or runs early, with a gap of zero, ramps for a       *)
(* period on top of it.                                                     *)
RampBounded == travelled <= 2 * (clock - 1) + Period * (interrupts + 1)

(* A command that stays is reached, exactly, once it has been ramped for as *)
(* long as the range of velocities takes at the rate.                       *)
TargetReached ==
  (\A lo, hi \in Velocities : steady >= hi - lo) => current = target
=============================================================================
