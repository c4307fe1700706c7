CONSTANTS
  Session = {s1, s2}
  Token = {t1, t2, t3, t4}
  User = {u1}
  Client = {c1}
  Name = {n1}
  Worker = {p1, p2}
  NoToken = NoToken
  NoClient = NoClient
  TTL = 1
  TargetIdWidth = 100
  Horizon = 2
SPECIFICATION Spec
SYMMETRY Symmetry
INVARIANTS TypeOK RotationLineage RotationTree SuccessorsBounded SessionOutlivesTokens
PROPERTIES ImplementsLedger
CHECK_DEADLOCK FALSE
