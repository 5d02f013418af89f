SPECIFICATION WireSpec
CONSTANTS
  kCheapPrepend = 2
  kInitialSize = 2
  Base = 4
  IntSize = {1, 2}
  kCRLF <- MCCRLF
  LF = 0
  kHeaderLen = 2
  MaxLen = 3
  commandHeaderLength = 2
  responseCommand = {2}
  sendDataCommand = 1
  maxsize = 1
  Request <- MCRequest
  Reply <- MCReply
  MaxCommand = 3
  BufSize = 8
  MaxRequests = 2
  MaxReplies = 2
  Chunk = {1, 4}
  MaxChunk = 4
INVARIANTS InputBounded
PROPERTIES UpIsChannel DownIsChannel EverythingArrives
CHECK_DEADLOCK FALSE
