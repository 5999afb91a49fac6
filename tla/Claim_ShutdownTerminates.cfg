CONSTANTS
  Workers = {w1, w2}
  Tasks = {t1}
  MaxQueue = 1
  NoTask = none
  Free = free
SPECIFICATION FairSpec
PROPERTIES ShutdownTerminates
CHECK_DEADLOCK FALSE
