SPECIFICATION Spec
CONSTANTS
  kCheapPrepend = 2
  kInitialSize = 2
  Base = 2
  IntSize = {1, 2}
  kCRLF <- CRLF
  LF = 1
  MaxContent = 3
  Thread = {p1, p2, t3, t4}
  NoThread = NoThread
  maxSize = 1
  MaxCalls = 1
  mem <- Mem
  SIZE = 5
  kMaxNumericSize = 3
  null <- NullText
  Items = 3
  Worker = {p1, p2}
  ITERATIONS = 2
  Pusher = {p1, p2}
  Nobody = Nobody
  NULL = NULL
  N = 2
  MaxPushes = 3
  Node = {p1, p2, n3}
  Nil = Nil
  MaxData = 1
  Name = {"GET", "POST", "HEAD", "PUT", "DELETE", "BREW"}
  Version = {kHttp11}
  kUnknown = kUnknown
  Field = {Host, Accept}
  Char = {x, sp}
  Space = sp
  MaxValue = 3
INVARIANTS
  RequestSound
  AssertsHold
  IntsReadBack
  QueueSound
  TextSound
  SingletonsSound
  FifoSound
  ListSound
PROPERTIES
  IsByteQueue
SYMMETRY PartsSymmetry
CHECK_DEADLOCK FALSE
