CONSTANTS
  None = None
  Answers = {a1, a2}
  Cells = {c1}
  LongCells = {}
  MaxToolCalls = 2
  MaxTurns = 3
  AttemptCount = 3
  StopCount = 2
SPECIFICATION Spec
INVARIANTS FeedbackPaired OneNotebook RecordsExplain
PROPERTIES ImplementsVote
CHECK_DEADLOCK FALSE
