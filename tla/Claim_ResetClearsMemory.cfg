CONSTANTS
  Depth = 2
  MaxEpoch = 2
  None = none
  Default = default
SPECIFICATION Spec
INVARIANT ResetClearsMemory
