SPECIFICATION RecvFairSpec
CONSTANTS
  N = 8
  Chunk = 4
  Header = 2
  Body = {1, 3, 4, 7}
  MaxBody = 2
  MaxNum = 1
  CallBack = {k1}
  Garbage <- MCGarbage
  StreamEnd = 11
  MaxReconnects = 1
INVARIANTS
  FramingExact
  FullOnlyForLong
  DeliveredInOrder
PROPERTIES
  CatchesUp
