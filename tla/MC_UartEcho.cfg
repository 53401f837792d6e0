SPECIFICATION Spec
CONSTANTS
  Programs = {"uart"}
  RtcStarts = {0}
  RtcArgs <- MCRtcArgs
  RtcTicks = 1
  Timeouts = {5}
  Unsigned = 8
  Params <- MCParams
  Clocks = {0}
  Word = 64
  TimerSlack = 2
  Intervals = {1}
  Repeats = {1}
  MaxElapsed = 1
  Chars = {"a", "b"}
  Nul = "nul"
  BufferSize = 3
  MaxSent = 4
  StringLen = 2
  TtyRoom = 4
  SpiOptions <- MCSpiOptions
  PwmArgs <- MCPwmArgs
  PwmRuns = 1
  Binds = 1
  KmsOptions <- MCKmsOptions
  KmsPlaneTypes <- MCKmsPlaneTypes
  KmsPipes = 1
  Batch = 3
  MaxLate = 1
INVARIANTS
  EchoesAnyCharacters
CHECK_DEADLOCK FALSE
