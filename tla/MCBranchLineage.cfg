SPECIFICATION Spec
CONSTANTS
  Answers = {a1, a2}
  NoAnswer = noAnswer
  Fingerprints = {f1}
  NoFingerprint = none
  Obligations = {o1}
  MaxDepth = 1
  RepairBudget = 1
  MaxRepairAttempts = 3
  ResampleBudget = 1
SYMMETRY Names
CHECK_DEADLOCK FALSE
INVARIANTS HistoryExact BudgetsKept LedgerChained SolvedEarned NamesInSync
PROPERTY DeadStaysDead
