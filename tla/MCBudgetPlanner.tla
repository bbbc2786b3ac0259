-------------------------- MODULE MCBudgetPlanner --------------------------
(* Values for the model checker. *)
EXTENDS BudgetPlanner

NoPlan == [p \in Parts |-> 0]
\* The defaults of BudgetPlan.
DefaultPlan == [branches |-> 32, retrieval |-> 3, depth |-> 6, nodes |-> 64,
                repair |-> 1, samples |-> 32, critique |-> 5]
OwnPlans == {NoPlan}
BothPlans == {NoPlan, DefaultPlan}
NoSpread == {<<0, 0>>}
BothSpreads == {<<0, 0>>, <<100, 100>>}
=============================================================================
