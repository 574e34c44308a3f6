SPECIFICATION FairSpec
CONSTANTS
  MaxIndex = 3
  Msg <- MCMsg
  Configurations <- MCLive
  InternalBuffSize = 50
PROPERTY Progress
CHECK_DEADLOCK FALSE
