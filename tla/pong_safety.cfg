SPECIFICATION Spec
CONSTANTS
  Rooms <- OneRoom
  Overlap = FALSE
  Aborts = TRUE
  SyncMod = 2
  MaxRound = 3
  Capacity = 1
CHECK_DEADLOCK FALSE
INVARIANTS
  TypeOK
  SyncAgreement
  StateFollowsInit
  KnowsOwnSeat
PROPERTIES
  DropsOnlyStale
  MovedByOwner
