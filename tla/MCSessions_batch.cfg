CONSTANTS
  Session = {s1, s2, s3, s4}
  Token = {t1, t2, t3, t4}
  User = {u1}
  Client = {c1}
  Name = {n1}
  Worker = {p1}
  NoToken = NoToken
  NoClient = NoClient
  TTL = 1
  TargetIdWidth = 100
  Horizon = 0
SPECIFICATION Spec
SYMMETRY Symmetry
INVARIANT BatchIsRecordable

CHECK_DEADLOCK FALSE
