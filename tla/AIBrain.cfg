CONSTANTS
  TaskTypes = {"NAVIGATE", "EMERGENCY_STOP"}
  MaxTasks = 2
  Timeout = 1
  MaxQueue = 2
  CounterMod = 1
  Attitudes = {"upright", "fallen"}
SPECIFICATION Spec
INVARIANTS TypeOK OneOwner NeverBackpressure ResetFrameIsClean
PROPERTIES ImplementsGate NoOlderTraces
