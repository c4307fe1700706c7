CONSTANTS
  Session = {s1}
  Token = {t1, t2, t3}
  User = {u1}
  Client = {c1}
  Name = {n1}
  Worker = {p1, p2}
  NoToken = NoToken
  NoClient = NoClient
  TTL = 1
  TargetIdWidth = 100
  Horizon = 0
SPECIFICATION Spec
SYMMETRY Symmetry
INVARIANT RotatedOnce

CHECK_DEADLOCK FALSE
