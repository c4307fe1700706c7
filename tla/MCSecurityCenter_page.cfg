CONSTANTS
  Session = {s1, s2, s3}
  Token = {t1, t2, t3}
  User = {u1}
  Client = {c1}
  Name = {n1}
  Worker = {p1, p2}
  NoToken = NoToken
  NoClient = NoClient
  TTL = 1
  TargetIdWidth = 100
  Horizon = 1
SPECIFICATION SecuritySpec
SYMMETRY Symmetry
INVARIANTS AuditAgrees ApplicationIsListed SecondSuccessorIsLate
PROPERTY RevokedDeviceLeavesPage

CHECK_DEADLOCK FALSE
