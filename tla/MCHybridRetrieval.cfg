CONSTANTS
  RrfK = 60
  MaxProvider = 3
  Chunks = {1, 2, 3, 4}
  Documents = {"d1", "d2", "foreign"}
  Target = {"d1", "d2"}
  DocumentOf <- Places
  Requested = 2
  Overfetch = 4
  MaxKeyword = 2
  MaxUnique = 3
  BatchSize = 1
  MaxChanges = 2
SPECIFICATION Spec
INVARIANT
  AnswersOneInstant
  FusionRespectsBothSources
CHECK_DEADLOCK FALSE
