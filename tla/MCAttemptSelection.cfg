CONSTANTS
  None = None
  Answers = {1, 2, 3}
  Entropies = {500, 15000}
  AttemptCount = 8
  StopCount = 4
  MinConfidence = 6600
  MinAgreement = 6000
  LowMargin = 1200
  HighEntropy = 10500
  Fragmentation = 2800
SPECIFICATION Spec
INVARIANTS MoreOfEverythingWins MinorityDoubted KeptIsRobust
CHECK_DEADLOCK FALSE
