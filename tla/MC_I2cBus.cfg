CONSTANTS
  Byte = 4
  MaxLen = 9
  U16 = 8
  MsgLimit = 5
  DefaultTx <- MCDefaultTx
  FileTx <- MCFileTx
  Faults = {"register", "abort", "stop", "load", "output"}
SPECIFICATION FairSpec
INVARIANTS
  TypeOK
  TransfersExact
PROPERTIES ProgramEnds
CHECK_DEADLOCK FALSE
