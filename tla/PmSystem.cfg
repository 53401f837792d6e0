CONSTANTS
  wakelock1 = wakelock1
  wakelock2 = wakelock2
  Sources = {wakelock1, wakelock2, rtc}
  MaxEvents = 7
  MaxRuns = 2
  LockFaults = {"open", "lock1", "lock2", "autosleep", "unlock1", "unlock2"}
  CountFaults = {"open", "read"}
SPECIFICATION FairSpec
INVARIANTS
  TypeOK
  LocksHold
PROPERTIES
  NoEventSleptOver
  BothProgress
CHECK_DEADLOCK FALSE
