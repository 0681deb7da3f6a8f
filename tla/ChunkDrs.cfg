SPECIFICATION FairSpec
CONSTANTS
  Modes <- MCModes
  MaxCalls <- MCCalls
INVARIANTS HeardIsFree
PROPERTIES AcceptedIsKept CallEnds
CHECK_DEADLOCK FALSE
