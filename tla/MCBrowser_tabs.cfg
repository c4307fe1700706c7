CONSTANTS
  Session = {s1, s2}
  Token = {t1, t2, t3}
  Tab = {b1, b2}
  Provider = {g1, g2}
  Native = native
  Page = {web1, native}
  None = None
  AccessTTL = 1
  ContextTTL = 1
  Horizon = 1
SPECIFICATION Spec
SYMMETRY Symmetry
INVARIANTS TypeOK JarStaysAlive CookiesMatch JarFollowsLogin LogoutCloses OwnReturnAddress SoleLoginAccepted
CHECK_DEADLOCK FALSE
