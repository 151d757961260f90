CONSTANTS
  User = {u1, u2}
  App = {a1}
  Tab = {t1, t2}
  None = None
  Ages = {0}
  SessionTTL = 1
  PendingTTL = 0
  MaxTime = 1
  MaxRequests = 2
  MaxLogins = 2
  MaxPending = 2
SPECIFICATION Spec
SYMMETRY Symmetry
INVARIANTS TypeOK CodeOfOneLogin LoginIsFresh OneCodePerRequest DeniedIsFinal
CHECK_DEADLOCK FALSE
