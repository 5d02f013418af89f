SPECIFICATION LifeSpec
CONSTANTS
  MaxConn = 3
  MaxLosses = 1
  MaxCalls = 2
INVARIANTS
  AnswerOfThisCall
  OneHeartBeat
PROPERTIES
  Reconnects
  DeinitEnds
CHECK_DEADLOCK FALSE
