CONSTANTS
  Token = {t1, t2, t3}
  NoToken = NoToken
  Client = {web, cli}
  Confidential = {cli}
  NoClient = NoClient
  User = {u1, u2}
  ScopeValue = {offline, email}
  Offline = offline
  Worker = {w1, w2}
  TTL = 2
  MaxTime = 2
  MayFail = TRUE
SPECIFICATION Spec
SYMMETRY Symmetry
INVARIANTS TypeOK OneLivePerFamily ChainKeepsGrant
PROPERTIES LiveTokenLeavesByRevocation ContractSpec
CHECK_DEADLOCK FALSE
