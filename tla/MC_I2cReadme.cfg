\* Bytes wide enough for the address the transcripts show.
CONSTANTS
  Byte = 64
  MaxLen = 2
  U16 = 8
  MsgLimit = 5
  DefaultTx <- MCDefaultTx
  FileTx <- MCFileTx
  Faults = {}
SPECIFICATION Spec
INVARIANT ReadmeFirstByte
CHECK_DEADLOCK FALSE
