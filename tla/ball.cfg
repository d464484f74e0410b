SPECIFICATION FairSpec
CONSTANTS
  PX = 2
  SpeedUp = 1
  SpeedCap = 2
  MaxBounces = 6
  ByteBase = 4
  IntBytes = 4
  FLOAT_SCALE = 1
  Steps = 2
  Box <- SmallBox
  BallHalf <- SmallBall
  PaddleHalf <- SmallPaddle
  PaddleSpeed = 1
  InitSpeed = 1
  Ticks = {4}
  Inputs <- OneAtATime
  Reach = 25
  Sight = 16
  MaxScore = 2
CHECK_DEADLOCK FALSE
INVARIANTS
  TypeOK
  LoopEnds
  StaysInField
  PointsAreEarned
  ClientSeesServer
PROPERTIES
  RallyGoesOn
