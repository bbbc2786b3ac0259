--------------------------- MODULE MCBranchSearch ---------------------------
(* Values for the model checker. *)
EXTENDS BranchSearch, TLC

Symmetry == Permutations(Answers) \cup Permutations(Operators)
=============================================================================
