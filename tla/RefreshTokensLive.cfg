CONSTANTS
  Token = {t1, t2, t3}
  NoToken = NoToken
  Client = {web}
  Confidential = {}
  NoClient = NoClient
  User = {u1}
  ScopeValue = {offline}
  Offline = offline
  Worker = {w1, w2}
  TTL = 2
  MaxTime = 2
  MayFail = FALSE
SPECIFICATION FairSpec
PROPERTIES RevocationsComplete RequestsEnd
CHECK_DEADLOCK FALSE
