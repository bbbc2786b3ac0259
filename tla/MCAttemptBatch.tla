--------------------------- MODULE MCAttemptBatch ---------------------------
EXTENDS AttemptBatch, TLC
\* Answers are compared for equality only.
AnswerSymmetry == Permutations(Answers)
=============================================================================
