SPECIFICATION FairSpec
CONSTANTS
  Threads <- TwoThreads
  Items <- TwoItems
  Nodes <- ThreeNodes
  Null = Null
  t1 = t1
  t2 = t2
  a = a
  b = b
  n1 = n1
  n2 = n2
  n3 = n3
  Calls <- AllCalls
\* ts_queue_remove never gives the mutex back.
CHECK_DEADLOCK FALSE
INVARIANTS
  TypeOK
  WellLinked
PROPERTIES
  ActsAsFifo
  CallsReturn
