CONSTANTS
  User = {u1}
  Client = {c1}
  Seeded = {u1, c1}
  Worker = {w1, w2}
  MaxVersions = 3
  MaxRows = 3
SPECIFICATION Spec
SYMMETRY Symmetry
INVARIANTS TypeOK NoCircularWait
PROPERTIES CascadeComplete NothingForTheDead
