------------------------- MODULE VelocityRampProofs -------------------------
(***************************************************************************)
(* The two bounds on the velocity ramp, for every period, every longest    *)
(* gap and every set of commanded velocities.                              *)
(***************************************************************************)
EXTENDS VelocityRamp, TLAPS

USE RampAssumption

-----------------------------------------------------------------------------
(* One frame moves toward the target, by dt at most, and stops there.       *)
LEMMA MovedBounds ==
  ASSUME NEW dt \in Nat, current \in Int, target \in Int
  PROVE  /\ Moved(dt) \in Int
         /\ Magnitude(Moved(dt) - current) \in Nat
         /\ Magnitude(Moved(dt) - current) <= dt
         /\ current <= target => current <= Moved(dt) /\ Moved(dt) <= target
         /\ target <= current => target <= Moved(dt) /\ Moved(dt) <= current
         /\ \/ Moved(dt) = target
            \/ Magnitude(target - Moved(dt)) = Magnitude(target - current) - dt
BY DEF Moved, Magnitude

LEMMA DtType ==
  ASSUME now \in Nat \ {0}, last_control \in Nat \ {0}
  PROVE  Dt \in Nat /\ (Dt = Period \/ Dt = now - last_control)
BY DEF Dt, Gap

LEMMA TypeInit == Init => TypeOK
BY DEF Init, TypeOK, Between

LEMMA TypeStep == TypeOK /\ [Next]_vars => TypeOK'
<1> SUFFICES ASSUME TypeOK, [Next]_vars PROVE TypeOK'
  OBVIOUS
<1> USE DEF TypeOK, historyVars, TickDone
<1>1. CASE Elapse \/ StartLoop \/ Wake \/ WakeInterrupted \/ Skip
  BY <1>1 DEF Elapse, StartLoop, Wake, WakeInterrupted, Skip, Between
<1>2. ASSUME NEW v \in Velocities, SetVelocity(v) PROVE TypeOK'
  BY <1>2 DEF SetVelocity, Between
<1>3. CASE Ramp
  <2>1. Dt \in Nat
    BY DtType
  <2>2. target \in Int
    OBVIOUS
  <2>3. current' = Moved(Dt)
    BY <1>3 DEF Ramp
  <2>4. current' \in Int /\ Magnitude(current' - current) \in Nat
    BY <2>1, <2>2, <2>3, MovedBounds
  <2>5. Between(current')
    <3>1. PICK lo, hi \in Velocities : lo <= current /\ current <= hi
      BY DEF Between
    <3>2. lo \in Int /\ hi \in Int
      OBVIOUS
    <3>3. CASE current <= target
      <4>1. lo <= current' /\ current' <= target
        BY <2>1, <2>2, <2>3, <2>4, <3>1, <3>2, <3>3, MovedBounds
      <4>2. QED
        BY <4>1 DEF Between
    <3>4. CASE target <= current
      <4>1. target <= current' /\ current' <= hi
        BY <2>1, <2>2, <2>3, <2>4, <3>1, <3>2, <3>4, MovedBounds
      <4>2. QED
        BY <4>1 DEF Between
    <3>5. QED
      BY <2>2, <3>3, <3>4
  <2>6. last_control' \in Nat \ {0} /\ steady' \in Nat /\ travelled' \in Nat
    BY <1>3, <2>1, <2>4 DEF Ramp
  <2>7. Between(current)'
    BY <2>5 DEF Between
  <2>8. next' \in Nat \ {0} /\ pc' = "sleep"
        /\ UNCHANGED <<clock, now, target, interrupts>>
    BY <1>3 DEF Ramp
  <2>9. QED
    BY <2>4, <2>6, <2>7, <2>8
<1>4. CASE UNCHANGED vars
  BY <1>4 DEF vars, Between
<1>5. QED
  BY <1>1, <1>2, <1>3, <1>4 DEF Next

(* The ramped velocity is an integer between two commanded ones, always.    *)
THEOREM TypeCorrect == Spec => []TypeOK
BY TypeInit, TypeStep, PTL DEF Spec

-----------------------------------------------------------------------------
(* The deadline counts the ticks: each adds one period to it, and none runs *)
(* before it.  The gaps of the frames, the first one's from the brain's     *)
(* construction at 1, add up to the time of the last one.                   *)
PaceInv ==
  /\ last_control <= now /\ now <= clock
  /\ pc = "starting" => next <= clock
  /\ pc = "tick" => next <= now + Period * interrupts
  /\ next <= clock + Period * (interrupts + 1)
  /\ travelled <= (last_control - 1) + (next - 1)

LEMMA PaceInit == Init => PaceInv
BY DEF Init, PaceInv

LEMMA PaceStep == TypeOK /\ PaceInv /\ [Next]_vars => PaceInv'
<1> SUFFICES ASSUME TypeOK, PaceInv, [Next]_vars PROVE PaceInv'
  OBVIOUS
<1> USE DEF TypeOK, PaceInv, historyVars, TickDone
<1>1. CASE Elapse \/ Wake \/ WakeInterrupted \/ Skip
  BY <1>1 DEF Elapse, Wake, WakeInterrupted, Skip
<1>2. CASE StartLoop
  <2>1. 0 <= Period * (interrupts + 1)
    OBVIOUS
  <2>2. QED
    BY <1>2, <2>1 DEF StartLoop
<1>3. ASSUME NEW v \in Velocities, SetVelocity(v) PROVE PaceInv'
  BY <1>3 DEF SetVelocity
<1>4. CASE Ramp
  <2>1. Dt \in Nat /\ (Dt = Period \/ Dt = now - last_control)
    BY DtType
  <2>2. target \in Int
    OBVIOUS
  <2>3. Magnitude(current' - current) \in Nat /\ Magnitude(current' - current) <= Dt
    BY <1>4, <2>1, <2>2, MovedBounds DEF Ramp
  <2>4. travelled' \in Nat /\ travelled' <= travelled + Dt
    BY <1>4, <2>1, <2>3 DEF Ramp
  <2>5. /\ last_control' = now /\ next' = next + Period /\ pc' = "sleep"
        /\ UNCHANGED <<now, clock, interrupts>>
        /\ next <= now + Period * interrupts
    BY <1>4 DEF Ramp
  <2>6. travelled' <= (last_control' - 1) + (next' - 1)
    BY <2>1, <2>4, <2>5
  <2>7. QED
    BY <2>5, <2>6
<1>5. CASE UNCHANGED vars
  BY <1>5 DEF vars
<1>6. QED
  BY <1>1, <1>2, <1>3, <1>4, <1>5 DEF Next

(* However long the realtime thread takes to start, however late it runs    *)
(* and however often it catches up, the velocity moves at twice the         *)
(* configured rate at most from the brain's construction on, plus a period. *)
THEOREM RampBoundedAlways == Spec => []RampBounded
<1>1. TypeOK /\ PaceInv => RampBounded
  BY DEF TypeOK, PaceInv, RampBounded
<1>2. QED
  BY TypeInit, TypeStep, PaceInit, PaceStep, <1>1, PTL DEF Spec

-----------------------------------------------------------------------------
(* What is left to travel and what was ramped for make up a range at most.  *)
DistanceInv ==
  \/ current = target
  \/ \E lo, hi \in Velocities : Magnitude(target - current) + steady <= hi - lo

LEMMA DistanceStep == TypeOK /\ DistanceInv /\ [Next]_vars => DistanceInv'
<1> SUFFICES ASSUME TypeOK, DistanceInv, [Next]_vars PROVE DistanceInv'
  OBVIOUS
<1>1. CASE Elapse \/ StartLoop \/ Wake \/ WakeInterrupted \/ Skip \/ UNCHANGED vars
  <2>1. UNCHANGED <<current, target, steady>>
    BY <1>1 DEF Elapse, StartLoop, Wake, WakeInterrupted, Skip, TickDone, historyVars, vars
  <2>2. QED
    BY <2>1 DEF DistanceInv
<1>2. ASSUME NEW v \in Velocities, SetVelocity(v) PROVE DistanceInv'
  <2>1. PICK lo, hi \in Velocities : lo <= current /\ current <= hi
    BY DEF TypeOK, Between
  <2>2. /\ target' = v /\ current' = current /\ steady' = 0
        /\ v \in Int /\ lo \in Int /\ hi \in Int /\ current \in Int
    BY <1>2 DEF SetVelocity, TypeOK
  <2>3. CASE current <= v
    <3>1. Magnitude(target' - current') + steady' <= v - lo
      BY <2>1, <2>2, <2>3 DEF Magnitude
    <3>2. QED
      BY <3>1 DEF DistanceInv
  <2>4. CASE v <= current
    <3>1. Magnitude(target' - current') + steady' <= hi - v
      BY <2>1, <2>2, <2>4 DEF Magnitude
    <3>2. QED
      BY <3>1 DEF DistanceInv
  <2>5. QED
    BY <2>2, <2>3, <2>4
<1>3. CASE Ramp
  <2>1. Dt \in Nat /\ target \in Int /\ current \in Int /\ steady \in Nat
    BY DtType DEF TypeOK
  <2>2. /\ current' = Moved(Dt) /\ target' = target
        /\ steady' = steady + Dt
    BY <1>3 DEF Ramp
  <2>3. CASE current' = target
    BY <2>2, <2>3 DEF DistanceInv
  <2>4. CASE current' # target
    <3>1. Magnitude(target - current') = Magnitude(target - current) - Dt
      BY <2>1, <2>2, <2>4, MovedBounds
    <3>2. current # target
      BY <2>1, <2>2, <2>4 DEF Moved, Magnitude
    <3>3. PICK lo, hi \in Velocities : Magnitude(target - current) + steady <= hi - lo
      BY <3>2 DEF DistanceInv
    <3>4. Magnitude(target - current) \in Int
      BY <2>1 DEF Magnitude
    <3>5. Magnitude(target' - current') + steady' <= hi - lo
      BY <2>1, <2>2, <3>1, <3>3, <3>4
    <3>6. QED
      BY <3>5 DEF DistanceInv
  <2>5. QED
    BY <2>3, <2>4
<1>4. QED
  BY <1>1, <1>2, <1>3 DEF Next

(* A command that stays is reached exactly, after the time its range takes. *)
THEOREM TargetReachedAlways == Spec => []TargetReached
<1>1. Init => DistanceInv
  BY DEF Init, DistanceInv
<1>2. TypeOK /\ DistanceInv => TargetReached
  <2> SUFFICES ASSUME TypeOK, DistanceInv, current # target,
                      \A lo, hi \in Velocities : steady >= hi - lo
               PROVE  FALSE
    BY DEF TargetReached
  <2>1. PICK lo, hi \in Velocities : Magnitude(target - current) + steady <= hi - lo
    BY DEF DistanceInv
  <2>2. steady >= hi - lo /\ hi \in Int /\ lo \in Int /\ steady \in Nat
    BY DEF TypeOK
  <2>3. target \in Int /\ current \in Int
    BY DEF TypeOK
  <2>4. QED
    BY <2>1, <2>2, <2>3 DEF Magnitude
<1>3. QED
  BY TypeInit, TypeStep, DistanceStep, <1>1, <1>2, PTL DEF Spec
=============================================================================
