\* Every test case, one past the table included.
CONSTANTS
  TestCases = {0, 1, 2, 3, 4, 5, 6, 7, 8, 9}
  Waits = 2
  Toggles = 3
  MaxIrqs = 6
  Faults = {"busy", "request_irq", "debounce", "direction", "pin"}
SPECIFICATION FairSpec
INVARIANTS
  TypeOK
  CompletionsBalance
  PassIsEarned
  AllReleased
PROPERTIES EveryCaseReports
CHECK_DEADLOCK FALSE
