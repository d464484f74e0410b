SPECIFICATION FairSpec
CONSTANTS
  Packets <- TwoPackets
  Garbled = Garbled
  HeaderSize = 3
  PayloadSize <- TwoSizes
  Buffer = 5
  MaxPackets = 4
  MayEnd = TRUE
\* The connection may end, and the packets are bounded.
CHECK_DEADLOCK FALSE
INVARIANTS
  TypeOK
  FramesAligned
PROPERTIES
  WholeInOrder
  AllArrive
