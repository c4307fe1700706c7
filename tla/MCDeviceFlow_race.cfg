CONSTANTS
  Code = {c1}
  User = {u1, u2}
  Worker = {p1, p2}
  NoUser = NoUser
  Lifetime = 1
  Horizon = 2
SPECIFICATION FairSpec
INVARIANTS TypeOK GrantWasApproved ConsumedIffGranted GrantsBounded
PROPERTIES SpentForGood DecisionStands Answered
CHECK_DEADLOCK FALSE
