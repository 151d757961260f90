CONSTANTS
  Instance = {i1, i2}
  NoOne = NoOne
  MaxVersion = 2
  MaxTries = 2
  MaxRuns = 3
  MaxInFlight = 1
SPECIFICATION MCSpec
INVARIANTS TypeOK RacesCostOnlyGrants StartsReady DrainBeforeClose
PROPERTIES SignalledExits
CHECK_DEADLOCK FALSE
