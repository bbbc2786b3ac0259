----------------------------- MODULE MCWinmode -----------------------------
(* WinmodeStages with three trainings: the adapter on disk, the evaluation    *)
(* summary and the evaluation in a gate can be of three different ones, and   *)
(* one that no evaluation is of any more is used again for the next.          *)
EXTENDS WinmodeStages, TLC

CONSTANTS r1, r2, r3
MCTrainings == {r1, r2, r3}

(* Nothing tells one training from another but that they are different. *)
Symmetry == Permutations(MCTrainings)
=============================================================================
