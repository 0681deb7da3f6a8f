SPECIFICATION Spec
CONSTANTS
  FrameSpans <- MCSpans
  Keys = {k1, k2}
  NoKey = NoKey
  MaxSessions = 3
INVARIANTS OneModel FramesAreRecorded CompletedIsExplained AnsweredIsFree
CHECK_DEADLOCK FALSE
