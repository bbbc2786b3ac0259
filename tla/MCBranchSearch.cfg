SPECIFICATION Spec
CONSTANTS
  Answers = {a1, a2}
  NoAnswer = noAnswer
  Operators = {p1, p2}
  Samples = 2
  Children = 1
  Width = 2
  MaxDepth = 1
  MaxNodes = 2
  StopCount = 2
  RetainTopK = 1
  MidTopK = 1
  MidEvery = 1
  MidFrom = 1
  MidMinFrontier = 1
  FinalTopK = 1
SYMMETRY Symmetry
CHECK_DEADLOCK FALSE
INVARIANTS GrowsTree CritiquedOncePerStage
PROPERTIES NoEntryLost SolvedAnswersFixed
