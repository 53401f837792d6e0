\* Two rounds, two probes, every fault.
CONSTANTS
  Loop = 2
  MaxProbes = 2
  Faults = {"request", "config", "copy", "memory", "prep"}
SPECIFICATION FairSpec
INVARIANTS
  TypeOK
  PassNeedsGoodCompares
  EngineTouchesLiveBuffers
  OopsHasCause
PROPERTY EveryProbeEnds
CHECK_DEADLOCK FALSE
