CONSTANTS
  Threads = {t1, t2}
  Faults = {}
SPECIFICATION FairSpec
PROPERTY ThreadsReturn
CHECK_DEADLOCK FALSE
