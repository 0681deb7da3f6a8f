SPECIFICATION Spec
CONSTANTS
  None = "none"
  Names <- MCNames
  Within <- MCWithin
  Numbers <- MCNumbers
  Pronouns <- MCPronouns
  Corpora <- MCCorpora
  Questions <- MCQuestions
  DocLimit = 2
  ChunkLimit = 3
INVARIANTS OnlyLinkedNames AnswerIsGrounded EqualRivalsAreSilent CompleteMeansAll LatestIsLatest
CHECK_DEADLOCK FALSE
