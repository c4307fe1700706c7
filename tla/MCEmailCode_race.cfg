CONSTANTS
  Id = {i1, i2, i3}
  Email = {e1}
  Ip = {a1, a2}
  Worker = {p1, p2}
  TTL = 1
  Resend = 1
  Window = 0
  MaxAttempts = 2
  PerEmail = 2
  PerIp = 1
  Horizon = 1
  MaxWrong = 2
SPECIFICATION Spec
SYMMETRY Symmetry
INVARIANTS TypeOK SendLimit ResendSpacing AttemptsCounted
PROPERTY UsedForGood
CHECK_DEADLOCK FALSE
