CONSTANTS
  Code = {c1, c2}
  NoCode = NoCode
  Client = {web, cli}
  Refresher = {web}
  Redirect = {r1, r2}
  Verifier = {v1, v2}
  Worker = {w1, w2, w3}
  TTL = 1
  MaxTime = 2
SPECIFICATION Spec
SYMMETRY Symmetry
INVARIANTS TypeOK SingleUse
PROPERTIES ContractSpec
CHECK_DEADLOCK FALSE
