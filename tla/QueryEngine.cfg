SPECIFICATION Spec
CONSTANTS
  Types <- MCTypes
  MaxQuestions = 2
  MaxClaims = 2
INVARIANTS NegativeIsProved AnswersCiteSource OwnEvidence ExecutionBinds
CHECK_DEADLOCK FALSE
