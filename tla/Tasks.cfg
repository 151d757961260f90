CONSTANTS
  Id = {1, 2}
  Title = {t1, t2}
  Priority = {medium}
  Worker = {w1, w2}
  Asked = 2
  MaxLimit = 1
  MaxOffset = 1
  MaxLag = 1
  MaxTime = 1
SPECIFICATION Spec
SYMMETRY Symmetry
INVARIANTS TypeOK TitlesUnique NoStatusSkipped PageHoldsTotal PagesPartition
