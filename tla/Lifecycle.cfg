CONSTANTS
  Buffers = 2
  MaxCalls = 2
SPECIFICATION FairSpec
INVARIANTS TypeOK TicksWholeBrain NodeOutlivesItsUsers BuffersReturned
PROPERTIES FailureEnds
CHECK_DEADLOCK FALSE
