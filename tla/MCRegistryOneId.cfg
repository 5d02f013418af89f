SPECIFICATION OneIdSpec
CONSTANTS
  Conn = {c1, c2, c3}
  DeviceId = {d1, d2}
  Delete = delete
  NoConn = NoConn
SYMMETRY RegSymmetry
INVARIANTS
  RegistryExact
  AliveExact
  DownUnregistered
  NoSelfRelay
  ClosedHeldByHalfClosed
