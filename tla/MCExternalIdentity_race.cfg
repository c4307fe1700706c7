CONSTANTS
  Subject = {s1}
  Email = {e1, e2}
  Worker = {p1, p2, p3}
SPECIFICATION FairSpec
INVARIANTS TypeOK NoOrphanAccount
PROPERTIES ImplementsDirectory FirstLoginSucceeds
CHECK_DEADLOCK FALSE
