CONSTANTS
  Procs = {p1, p2}
  Faults = {"export", "config", "request", "io", "uio", "pad"}
  Fifo = 2
  Interrupts = 2
  MaxIrqs = 3
SPECIFICATION FairSpec
INVARIANTS
  TypeOK
  OutcomesExplained
  WrittenIsReported
  UioNoLostInterrupt
PROPERTIES
  ProgramsProgress
CHECK_DEADLOCK FALSE
