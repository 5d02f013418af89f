SPECIFICATION SrvFairSpec
CONSTANTS
  Conn = {c1, c2}
  DeviceId = {d1}
  Delete = delete
  NoConn = NoConn
  Idle = 0
  MaxPass = 0
  Nobody = Nobody
PROPERTIES
  RegSpec
  TimSpec
  SilentIsReaped
  ClosedIsFreed
