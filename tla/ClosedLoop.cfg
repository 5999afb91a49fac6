CONSTANTS
  Depth = 2
  MaxEpoch = 2
  None = none
  Default = default
SPECIFICATION FairSpec
INVARIANTS TypeOK CommandsAreSensed CommandsInOrder RecoveredForGood
PROPERTIES PhysicsComesBack StaleTargetsEnd
