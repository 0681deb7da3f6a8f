SPECIFICATION Spec
CONSTANTS
  a = a
  b = b
  c = c
  NoEntry = NoEntry
  Half = Half
  Contents <- MCContents
  Dirs = 3
  MaxRuns = 3
  MaxKills = 2
  MaxRecomputed = 1
SYMMETRY Symmetry
INVARIANTS Unambiguous NothingLost
CHECK_DEADLOCK FALSE
