CONSTANTS
  Granted = {4}
  MaxGranted = 4
  MaxFrames = 6
  Faults = {}
SPECIFICATION Spec
INVARIANT SavedIsCaptured
CHECK_DEADLOCK FALSE
