---- MODULE MCBranchLineage ----
EXTENDS BranchLineage, TLC
Names == Permutations(Answers) \cup Permutations(Fingerprints)
====
