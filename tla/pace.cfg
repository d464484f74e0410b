SPECIFICATION Spec
CONSTANTS
  Interval = 8
  IntHalf = 49
  MaxDelay = 9
  Horizon = 24
  TickLengths <- FineAndCoarse
\* The loop returns, or its horizon is reached.
CHECK_DEADLOCK FALSE
INVARIANTS
  TypeOK
  TimeAddsUp

  
