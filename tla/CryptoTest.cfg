CONSTANTS
  Threads = {t1, t2}
  Faults = {"kthread", "tfm", "req", "setkey", "op", "async", "result", "iv"}
SPECIFICATION FairSpec
INVARIANTS
  TypeOK
  ExitMeansAllStarted
  VerdictExact
  NothingHeldBetweenTests
PROPERTIES
  CompleteCountEnds
CHECK_DEADLOCK FALSE
