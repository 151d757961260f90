CONSTANTS
  Kid = {k1, k2, k3}
  NoKid = NoKid
  Proc = {p1, p2}
  Req = {r1, r2}
  CacheTTL = 1
  FetchTimeout = 1
  MaxTime = 2
SPECIFICATION Spec
SYMMETRY Symmetry
INVARIANTS TypeOK OldTokensVerify BoundedStaleness RolloutCompletes
CHECK_DEADLOCK FALSE
