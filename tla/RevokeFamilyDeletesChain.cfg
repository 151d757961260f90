CONSTANTS
  Token = {t1, t2, t3}
  NoToken = NoToken
  Client = {web, cli}
  Confidential = {cli}
  NoClient = NoClient
  User = {u1}
  ScopeValue = {offline, email}
  Offline = offline
  Worker = {w1, w2}
  TTL = 2
  MaxTime = 2
  MayFail = TRUE
SPECIFICATION Spec
SYMMETRY Symmetry
CHECK_DEADLOCK FALSE
PROPERTY RevokeFamilyDeletesChain
