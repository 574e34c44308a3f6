SPECIFICATION Spec
CONSTANTS
  MaxIndex = 4
  Msg <- MCMsg
  Configurations <- MCAll
  InternalBuffSize = 50
INVARIANTS NoPanic WindowKept Durable  NothingForgotten
CHECK_DEADLOCK FALSE
