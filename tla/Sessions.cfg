CONSTANTS
  TaskCalls = {t1, t2}
  StatusCalls = {s1}
  NoCall = none
SPECIFICATION FairSpec
INVARIANTS TypeOK OneOperationPerSession AlwaysListening
PROPERTIES ImplementsService CallsAreServed GoneIsFreed
CHECK_DEADLOCK FALSE
