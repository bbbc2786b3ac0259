SPECIFICATION Spec
CONSTANTS
  Answers = {a1}
  NoAnswer = noAnswer
  Fingerprints = {f1}
  NoFingerprint = none
  Obligations = {o1}
  MaxDepth = 1
  RepairBudget = 1
  MaxRepairAttempts = 3
  ResampleBudget = 1
CHECK_DEADLOCK FALSE
INVARIANT ProofStatePreserved
