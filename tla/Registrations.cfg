CONSTANTS
  Admin = {a1}
  Worker = {w1}
  u1 = u1
  u2 = u2
  Uri = {u1, u2}
  BadUri = BadUri
  s1 = s1
  profile = profile
  Secret = {s1, s2}
  NoSecret = NoSecret
  None = None
  ClientForm <- MCClientForm
  UserForm = {profile}
  Asked <- MCAsked
  MaxVersions = 3
  MaxSerial = 3
  MaxCodes = 1
SPECIFICATION MCSpec
INVARIANTS TypeOK RedirectRegistered GrantsStayWithin
PROPERTIES BlankKeepsSecret
