SPECIFICATION Spec
CONSTANTS
  Available = 49
  Problems = 3
  MaxAdapts = 2
  Difficulties = {"easy", "medium", "hard", "very_hard"}
  Scores = {0, 30, 100}
  Spreads <- BothSpreads
  RoutePlans <- BothPlans
CHECK_DEADLOCK FALSE
INVARIANTS CeilingsBind KeepsBudget
PROPERTY AdaptsOneWay
