CONSTANTS
  Granted = {1, 3, 5}
  MaxGranted = 5
  MaxFrames = 6
  Faults = {"init", "mmap", "fopen"}
  Known = {zero, fx2}
  Unknown = {cam}
  TEST_CASES = 2
  UsbFaults = {"calloc", "create"}
SPECIFICATION HostFairSpec
INVARIANTS
  TypeOK
  BufferZeroIsSaved
  UsbTypeOK
  ExitIsExplained
PROPERTIES
  ImplementsExchange
  CaptureGoesOn
  EveryRunEnds
CHECK_DEADLOCK FALSE
