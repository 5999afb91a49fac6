CONSTANTS
  Joints = {j1}
  Home <- HomePosture
  Limit = 4
  MaxDelta = 1
  Outputs <- PolicyOutputs
  NotFinite = NaN
  SimResets = TRUE
SPECIFICATION Spec
INVARIANTS TypeOK WithinLimit ReportedIsRecent
PROPERTIES StepBounded
