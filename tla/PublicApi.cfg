SPECIFICATION EndpointReturns
CONSTANTS
  t1 = t1
  t2 = t2
  NoThread = NoThread
  NoFolder = NoFolder
  Folders = {"A", "B"}
  Threads <- MCThreads
  Main = t1
  MaxCalls = 3
  MaxOutages = 2
INVARIANTS NeverUsedClosed NoLeakedStore
PROPERTIES RefinesKnowledgeBase CallsReturn
CHECK_DEADLOCK FALSE
