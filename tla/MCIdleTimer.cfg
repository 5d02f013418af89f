SPECIFICATION TimSpec
CONSTANTS
  Conn = {c1, c2, c3}
  Idle = 2
  MaxPass = 1
  Nobody = Nobody
SYMMETRY TimSymmetry
INVARIANTS
  ListExact
  NearlyOrdered
PROPERTY NoEarlyTimeout
