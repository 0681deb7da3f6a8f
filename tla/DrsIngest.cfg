SPECIFICATION FairSpec
CONSTANTS
  a1 = a1
  a2 = a2
  b = b
  fileA = fileA
  fileB = fileB
  c1 = c1
  c2 = c2
  Docs <- MCDocs
  PathOf <- MCPathOf
  Folders <- MCFolders
  Spans <- MCSpans
  DocOf <- MCDocOf
  TextOf <- DistinctTexts
  Configs <- MCConfigs
  FingerprintOf <- MCFingerprintOf
  UnitsOf <- MCUnitsOf
  NoConfig = NoConfig
  MaxIngests = 3
  MaxReopens = 1
INVARIANTS NoOrphanSemantics LedgerTellsTheTruth LiveIsRecorded CompletedIsCurrent CompletedIsWhole
PROPERTIES FailureKeepsDrs IngestEnds
CHECK_DEADLOCK FALSE
