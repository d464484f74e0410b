SPECIFICATION FairSpec
CONSTANTS
  c1 = c1
  c2 = c2
  c3 = c3
  c4 = c4
  Clients <- FourClients
  Faults <- EveryFault
\* A failed malloc of a room leaves the queue locked for good.
CHECK_DEADLOCK FALSE
INVARIANTS
  TypeOK
  EachClientOnce
  NoLostWakeup
PROPERTIES
  PairsInOrder
  PairsEventually
  QueuedEventually
