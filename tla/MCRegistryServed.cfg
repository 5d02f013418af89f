SPECIFICATION OneIdSpec
CONSTANTS
  Conn = {c1, c2, c3}
  DeviceId = {d1, d2}
  Delete = delete
  NoConn = NoConn
INVARIANT SubscribedIsServed
