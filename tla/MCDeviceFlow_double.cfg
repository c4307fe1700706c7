CONSTANTS
  Code = {c1}
  User = {u1}
  Worker = {p1, p2}
  NoUser = NoUser
  Lifetime = 1
  Horizon = 1
SPECIFICATION Spec
SYMMETRY Symmetry
INVARIANT OneGrant
CHECK_DEADLOCK FALSE
