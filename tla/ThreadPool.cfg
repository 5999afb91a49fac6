CONSTANTS
  Workers = {w1, w2}
  Tasks = {t1, t2, t3, t4}
  MaxQueue = 2
  NoTask = none
  Free = free
SPECIFICATION FairSpec
INVARIANTS TypeOK NoLostWakeup ClosedIsDrained
PROPERTIES AcceptedIsRun ImplementsQueue
CHECK_DEADLOCK FALSE
