CONSTANTS
  Tab = {k1, k2}
  NoTab = NoTab
  Login = {n1, n2}
  NoLogin = NoLogin
  MaxChain = 2
SPECIFICATION SessionSpec
SYMMETRY Symmetry
CONSTRAINT Few
INVARIANTS SessionTypeOK SentOnce SessionOfLastLogin
CHECK_DEADLOCK FALSE
