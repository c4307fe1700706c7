CONSTANTS
  Subject = {s1}
  Email = {e1}
  Worker = {p1, p2}
SPECIFICATION Spec
SYMMETRY Symmetry
INVARIANT ConflictIsRequeried
CHECK_DEADLOCK FALSE
