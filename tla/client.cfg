SPECIFICATION FairSpec
CONSTANTS
  MaxRound = 3
  MaxInputs = 2
  Capacity = 1
INVARIANTS
  TypeOK
  EachIncrementOnce
  RallyConserved
  SyncNeverAhead
  InputAtMostOneRoundOld
PROPERTIES
  PredictionConverges
  SyncCatchesUp
