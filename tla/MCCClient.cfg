SPECIFICATION ClientSpec
CONSTANTS
  App = {a1, a2}
  CheckNet = cn
  Command = {k1}
  HeartBeat = hb
  HeartBeatMax = 2
  MaxCalls = 1
  MaxLosses = 1
  MaxLate = 0
INVARIANTS
  ClientTypeOK
  AnswerIsOwn
SYMMETRY Threads
