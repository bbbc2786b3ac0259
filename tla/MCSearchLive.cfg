SPECIFICATION Spec
CONSTANTS
  Answers = {a1}
  NoAnswer = noAnswer
  Operators = {p1, p2}
  Samples = 2
  Children = 2
  Width = 1
  MaxDepth = 1
  MaxNodes = 2
  StopCount = 2
  RetainTopK = 1
  MidTopK = 1
  MidEvery = 1
  MidFrom = 1
  MidMinFrontier = 1
  FinalTopK = 1
CHECK_DEADLOCK FALSE
INVARIANT SearchBounded
PROPERTIES Terminates ImplementsContract
