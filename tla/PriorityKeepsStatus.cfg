CONSTANTS
  Id = {1, 2}
  Title = {t1, t2}
  Priority = {medium, high}
  Worker = {w1, w2}
  Asked = 2
  MaxLimit = 1
  MaxOffset = 1
  MaxLag = 0
  MaxTime = 0
SPECIFICATION Spec
SYMMETRY Symmetry
PROPERTY PriorityKeepsStatus
