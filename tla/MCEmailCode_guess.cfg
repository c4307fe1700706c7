CONSTANTS
  Id = {i1}
  Email = {e1}
  Ip = {a1}
  Worker = {p1, p2}
  TTL = 2
  Resend = 1
  Window = 2
  MaxAttempts = 2
  PerEmail = 1
  PerIp = 1
  Horizon = 0
  MaxWrong = 3
SPECIFICATION Spec
SYMMETRY Symmetry
INVARIANT AttemptLimit
CHECK_DEADLOCK FALSE
