CONSTANTS
  TaskTypes = {"NAVIGATE", "EMERGENCY_STOP"}
  MaxTasks = 1
  Timeout = 1
  MaxQueue = 2
  CounterMod = 2
  Attitudes = {"upright"}
SPECIFICATION FairSpec
INVARIANTS FramesAccounted
PROPERTIES SilenceEndsExecution SlotReleased
