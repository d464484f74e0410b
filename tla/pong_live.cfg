SPECIFICATION FairSpec
CONSTANTS
  Rooms <- OneRoom
  Overlap = FALSE
  Aborts = FALSE
  SyncMod = 2
  MaxRound = 2
  Capacity = 1
CHECK_DEADLOCK FALSE
PROPERTIES
  RoundsReachPlayers
  MatchWindsDown
  NobodyStaysBlocked
  MatchIsAnnounced
