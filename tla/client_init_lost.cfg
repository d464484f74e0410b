SPECIFICATION Spec
CONSTANTS
  MaxRound = 2
  MaxInputs = 1
  Capacity = 1
INVARIANT InitTakesEffect
