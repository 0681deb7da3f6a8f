SPECIFICATION Spec
CONSTANTS
  Modes <- MCModes
  MaxCalls = 2
INVARIANTS PlanIsFound ServedIsSettled HeardIsFree
CHECK_DEADLOCK FALSE
