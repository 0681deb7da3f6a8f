SPECIFICATION Spec
CONSTANTS
  p1 = p1
  p2 = p2
  Files = {1, 2}
  Procs <- MCProcs
  MaxVersion = 2
  MaxDbs = 2
SYMMETRY Symmetry
CONSTRAINT TwoOfOne
INVARIANTS InitIsComplete InitIsSnapshot NoLeftovers
PROPERTIES RefinesPublishedIndex
CHECK_DEADLOCK FALSE
