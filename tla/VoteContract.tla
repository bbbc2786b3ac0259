--------------------------- MODULE VoteContract ---------------------------
(***************************************************************************)
(* What the attempt loop of imo3_hybrid promises the inference engine:     *)
(* ballots are cast one at a time, blank when an attempt found no answer,  *)
(* until one answer has Quorum of them or Limit ballots are in.            *)
(***************************************************************************)
EXTENDS Integers, Sequences, FiniteSets

CONSTANTS Answers, None, Limit, Quorum

VARIABLES
  ballots,  \* the answers found so far, None for an attempt without
  outcome   \* "open", how the vote ended, or "raised" when it broke off

vars == <<ballots, outcome>>

Votes(a) == Cardinality({i \in DOMAIN ballots : ballots[i] = a})

Init == ballots = <<>> /\ outcome = "open"

Cast ==
  /\ outcome = "open"
  /\ \E b \in Answers \cup {None} : ballots' = Append(ballots, b)
  /\ outcome' = IF \E a \in Answers : Votes(a)' >= Quorum THEN "early_stop_consensus"
                ELSE IF Len(ballots') >= Limit THEN "attempt_budget_exhausted"
                ELSE "open"

BreakOff == outcome = "open" /\ outcome' = "raised" /\ UNCHANGED ballots

Next == Cast \/ BreakOff

\* The vote comes to an end.
Spec == Init /\ [][Next]_vars /\ <>(outcome # "open")
=============================================================================
