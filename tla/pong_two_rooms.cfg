SPECIFICATION Spec
CONSTANTS
  Rooms <- TwoRooms
  Overlap = TRUE
  Aborts = FALSE
  SyncMod = 4
  MaxRound = 2
  Capacity = 1
CHECK_DEADLOCK FALSE
INVARIANT SyncAgreement
