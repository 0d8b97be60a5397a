SPECIFICATION Spec
SYMMETRY Interchangeable
CONSTANTS
  u1 = u1
  s1 = s1
  k1 = k1
  k2 = k2
  k3 = k3
  k4 = k4
  r1 = r1
  r2 = r2
  r3 = r3
  None = None
  Users = {u1}
  Sessions = {s1}
  Tokens = {k1, k2, k3, k4}
  Requests = {r1, r2, r3}
  MaxFaults = 2
INVARIANTS TypeOK LogoutIsFinal InactiveRunsOut
PROPERTIES IsSession
CHECK_DEADLOCK FALSE
