CONSTANTS
  TaskTypes = {"NAVIGATE", "EMERGENCY_STOP"}
  MaxTasks = 2
  Timeout = 1
  MaxQueue = 2
  CounterMod = 1
  Attitudes = {"upright"}
SPECIFICATION Spec
INVARIANTS WatchdogActsOnlyOverdue
