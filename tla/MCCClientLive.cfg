SPECIFICATION ClientFairSpec
CONSTANTS
  App = {a1}
  CheckNet = cn
  Command = {k1}
  HeartBeat = hb
  HeartBeatMax = 2
  MaxCalls = 1
  MaxLosses = 1
  MaxLate = 1
PROPERTIES
  CallsReturn
  Recovers
