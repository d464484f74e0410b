SPECIFICATION Spec
CONSTANTS
  Rooms <- OneRoom
  Overlap = FALSE
  Aborts = FALSE
  SyncMod = 4
  MaxRound = 2
  Capacity = 1
CHECK_DEADLOCK FALSE
PROPERTY NoStaleInput
