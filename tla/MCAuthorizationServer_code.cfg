CONSTANTS
  minibot = minibot
  minikb = minikb
  other = other
  app = app
  web = web
  extra = extra
  legacy = legacy
  openid = openid
  profile = profile
  Process = {p1, p2}
  Client <- MCClient
  BuiltIn <- MCBuiltIn
  Demo = minibot
  Uri <- MCUri
  Scope <- MCScope
  DefaultUri <- MCDefaultUri
  DefaultScope <- MCDefaultScope
  Legacy = legacy
  Missing = Missing
  Existing <- MCExisting
  Creation <- MCCreation
  Edit <- MCEdit
  Disabling = {minibot}
  MaxCrashes = 1
  Flow = {f1, f2}
  User = {u1, u2}
  NoUser = NoUser
  CustomUri = {app}
  Login <- MCLogin
SPECIFICATION MCSpec
INVARIANTS TypeOK ServingMeansReady AddressesStay BuiltInWelcome CodeForShownAccount GrantForShownAccount
PROPERTY EveryProcessServes
CHECK_DEADLOCK FALSE
