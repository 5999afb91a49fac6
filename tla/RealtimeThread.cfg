CONSTANTS
  Velocities = {0, 3, 9}
  Period = 2
  MaxGap = 5
  MaxTime = 9
  MaxInterrupts = 1
  WINDOW = 3
SPECIFICATION ThreadSpec
INVARIANTS ThreadTypeOK RampBounded TargetReached RingHoldsLatest PercentilesOfWindow
CHECK_DEADLOCK FALSE
