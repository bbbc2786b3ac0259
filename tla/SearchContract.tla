--------------------------- MODULE SearchContract ---------------------------
(***************************************************************************)
(* What the search of imo3_hybrid promises its caller, the inference       *)
(* engine: it explores a bounded number of branches, never reconsiders one *)
(* it has ruled out, and in the end chooses some of the others, at least   *)
(* one if there is any.                                                    *)
(***************************************************************************)
EXTENDS Integers, FiniteSets

CONSTANTS
  MaxFound,   \* branches a search may explore
  MaxChosen   \* branches it may choose

VARIABLES
  found,     \* branches explored
  ruledOut,  \* branches ruled out
  chosen,    \* the branches chosen
  open       \* the search has not chosen yet

vars == <<found, ruledOut, chosen, open>>

Init == found = {} /\ ruledOut = {} /\ chosen = {} /\ open = TRUE

Explore ==
  /\ open
  /\ found \subseteq found' /\ Cardinality(found') <= MaxFound
  /\ ruledOut \subseteq ruledOut' /\ ruledOut' \subseteq found'
  /\ UNCHANGED <<chosen, open>>

Choose ==
  /\ open /\ open' = FALSE
  /\ chosen' \subseteq found \ ruledOut
  /\ Cardinality(chosen') <= MaxChosen
  /\ found # ruledOut => chosen' # {}
  /\ UNCHANGED <<found, ruledOut>>

Next == Explore \/ Choose

\* The search does choose.  Stated as an eventuality and not as fairness of
\* Choose, since the contract does not say when it is time.
Spec == Init /\ [][Next]_vars /\ <>(open = FALSE)
=============================================================================
