--------------------------- MODULE BranchLineage ---------------------------
(***************************************************************************)
(* One branch on its way through the controller                            *)
(* (imo3_hybrid/src/branches/branch_controller.py): created as a seed,     *)
(* attempted, forked and attempted again, repaired or resampled when the   *)
(* attempt fails, critiqued in mid-search and before aggregation, pruned.  *)
(* After a fork the specification follows either the child or the parent,  *)
(* so its behaviours are the histories of single branches.                 *)
(*                                                                         *)
(* The generator, the symbolic hook, the verifier hook, the classifier,    *)
(* the repair planner and the critic are callbacks: what they answer is a  *)
(* choice over everything their return types allow.                        *)
(***************************************************************************)
EXTENDS BranchState

CONSTANTS
  MaxDepth,          \* max_search_depth of the budget plan
  RepairBudget,      \* repair_budget of the config or the budget plan
  MaxRepairAttempts, \* MAX_REPAIR_ATTEMPTS
  ResampleBudget     \* resample_budget of the config

ASSUME BudgetAssumption ==
  /\ MaxDepth \in Nat
  /\ RepairBudget \in Nat
  /\ MaxRepairAttempts \in Nat
  /\ ResampleBudget \in Nat

ASSUME NoneAssumption ==
  /\ NoFingerprint \notin Fingerprints
  /\ NoAnswer \notin Answers

VARIABLES
  branch,   \* the branch followed
  node,     \* the reasoning node its frontier entry carries
  depth,    \* the depth of that entry
  stage     \* "seed", "frontier", "expanded" (left the frontier), "final"

vars == <<branch, node, depth, stage>>

Dead == {"FAILED", "PRUNED"}

-----------------------------------------------------------------------------
\* _attach_retrieval: the evidence and a step that carries no node.
AttachTrace(b) == AddStep(AttachRetrieval(b), "RETRIEVAL", "RETRIEVED", NoNode)

\* The effective limit on repairs of a lineage.
RepairLimit == IF RepairBudget < MaxRepairAttempts THEN RepairBudget ELSE MaxRepairAttempts

\* _run_generation: an answer, or none, with or without a generator.
Generated == Answers \cup {NoAnswer}

\* _apply_generation_to_node: with_updates gives the node a new identity and
\* leaves its obligations alone.
NextNodes(n) == {[n EXCEPT !.fp = f] : f \in Fingerprints}

\* _apply_candidate_to_node: likewise (it only adds a note to an obligation).
FixedNodes(n) == {[n EXCEPT !.fp = f] : f \in Fingerprints}

\* What a symbolic check may make of the obligations of the node it is given:
\* open ones become discharged when it passes, contradicted when it does not.
VerdictsOn(n) ==
  {[passed |-> p, proof |-> [o \in Obligations |->
       IF o \in S /\ n.proof[o] = "open"
       THEN IF p THEN "discharged" ELSE "contradicted"
       ELSE n.proof[o]]] : p \in BOOLEAN, S \in SUBSET Obligations}

\* _run_verifier: whatever hook or fallback computes, the probability reaches
\* the threshold of _is_solved or does not.
Accepts == BOOLEAN

\* _classify_failure: the classifier routes the branch to repair, to resampling
\* or to neither.
Routes == {"repair", "resample", "expand"}

\* The prefixes that end before the step a repair aims at (_parse_failure_step,
\* _safe_prefix_end), and the checkpoints up to three steps further back that
\* rollbacks return to (_build_checkpoints).
SafePrefixes(b) == 0..(b.cursor.steps - 1)
RepairPrefixes(b) ==
  {keep \in SafePrefixes(b) : \E safe \in SafePrefixes(b), back \in 0..3 :
     keep = IF back <= safe THEN safe - back ELSE 0}

\* _process_branch_attempt up to the verifier's verdict: operator step on the
\* old node, generated candidate, step on the new node, symbolic evidence and
\* step, verifier evidence and step.
Attempt(b, old, new, answer, verdict, accepted) ==
  LET b1 == AddStep(b, "OPERATOR", "REASONING", old)
      b2 == SetCandidate(b1, answer, "generated")
      b3 == AddStep(b2, "OPERATOR", "REASONING", new)
      b4 == AddStep(AttachSymbolic(b3, verdict), "SYMBOLIC", "VERIFIED", new)
  IN  AddStep(AttachVerifier(b4, accepted), "VERIFIER", "VERIFIED", new)

\* _is_solved (IsSolvedUnverified: on the symbolic check alone).
IsSolvedUnverified(b) ==
  /\ CurrentCandidate(b).answer # NoAnswer
  /\ b.symbolic[b.cursor.symbolic].passed
IsSolved(b) ==
  /\ CurrentCandidate(b).answer # NoAnswer
  /\ b.symbolic[b.cursor.symbolic].passed
  /\ b.verifier[b.cursor.verifier]

\* _apply_local_repair with a plan that keeps the first `keep` steps and a
\* repaired node: the branch's own answer is set again on the repaired prefix.
\* (RepairedNodeless: the step without node.)
RepairedNodeless(b, keep, fixed) ==
  LET answer == CurrentCandidate(b).answer
      b1 == AddStep(RecordRepair(b, keep), "REPAIR", "REPAIRED", NoNode)
      b2 == IF answer = NoAnswer THEN b1 ELSE SetCandidate(b1, answer, "repair")
  IN  SetPhase(b2, "REPAIRED")
Repaired(b, keep, fixed) ==
  LET answer == CurrentCandidate(b).answer
      b1 == AddStep(RecordRepair(b, keep), "REPAIR", "REPAIRED", fixed)
      b2 == IF answer = NoAnswer THEN b1 ELSE SetCandidate(b1, answer, "repair")
  IN  SetPhase(b2, "REPAIRED")

\* _materialize_candidate: a fork of the failing branch with a step that
\* carries no node; the failing branch itself is dropped (ResampledUncounted:
\* resample_count not raised).
ResampledUncounted(b) ==
  AddStep(SetPhase(Fork(b), "REASONING"), "OPERATOR", "REASONING", NoNode)
Resampled(b) ==
  AddStep(SetPhase([Fork(b) EXCEPT !.resamples = @ + 1], "REASONING"),
          "OPERATOR", "REASONING", NoNode)

\* resample_branches on this one branch, asked for one new branch: none or one.
ResampleResults(b) == {{}, {Resampled(b)}}

GiveUp(b, n) == branch' = SetPhase(b, "FAILED") /\ node' = n

\* Over budget or without a candidate the branch fails.
ApplyLocalRepair(b, n) ==
  \/ GiveUp(b, n)
  \/ /\ b.cursor.repairs < RepairLimit
     /\ \E keep \in RepairPrefixes(b), fixed \in FixedNodes(n) :
           branch' = Repaired(b, keep, fixed) /\ node' = fixed

ApplyResampleGuidance(b, n) ==
  \/ /\ b.resamples >= ResampleBudget
     /\ GiveUp(b, n)
  \/ /\ b.resamples < ResampleBudget
     /\ \E created \in ResampleResults(b) :
           \/ created = {} /\ GiveUp(b, n)
           \/ branch' \in created /\ node' = n

\* The end of _process_branch_attempt: solved, else repaired, resampled or
\* left expandable as the classifier routes it.  b is the attempted branch, n
\* the node the attempt produced.
Settle(b, n) ==
  \/ /\ IsSolved(b)
     /\ branch' = SetPhase(b, "SOLVED")
     /\ node' = n
  \/ /\ ~IsSolved(b)
     /\ \E route \in Routes :
          \/ route = "repair" /\ ApplyLocalRepair(b, n)
          \/ route = "resample" /\ ApplyResampleGuidance(b, n)
          \/ /\ route = "expand"
             /\ branch' = SetPhase(b, "REASONING")
             /\ node' = n

Process(b) ==
  \E answer \in Generated, new \in NextNodes(node), accepted \in Accepts :
    \E verdict \in VerdictsOn(new) :
      Settle(Attempt(b, node, new, answer, verdict, accepted), new)

\* _merge_critiqued_branch: the critic keeps the answer or proposes one.
MergeCritique(b, answer) ==
  LET b1 == AttachCritique(b)
      b2 == IF answer = NoAnswer THEN b1 ELSE SetCandidate(b1, answer, "self_critique")
  IN  SetPhase(AddStep(b2, "CRITIQUE", "CRITIQUED", NoNode), "CRITIQUED")

CritiqueAnswers(b) == Answers \cup {CurrentCandidate(b).answer}

-----------------------------------------------------------------------------
Init ==
  /\ node \in [fp : Fingerprints, proof : {[o \in Obligations |-> "open"]}]
  /\ branch = Create(node)
  /\ depth = 0
  /\ stage = "seed"

\* _generate_initial_frontier: optionally attach a retrieved trace, attempt.
Seed ==
  /\ stage = "seed"
  /\ \/ Process(branch)
     \/ Process(AttachTrace(branch))
  /\ stage' = "frontier"
  /\ UNCHANGED depth

\* _expand_branch, followed into a child.
ExpandIntoChild ==
  /\ stage = "frontier" /\ branch.phase \notin Dead /\ depth < MaxDepth
  /\ \/ Process(Fork(branch))
     \/ /\ branch.cursor.retrieval = 0
        /\ Process(AttachTrace(Fork(branch)))
  /\ depth' = depth + 1
  /\ UNCHANGED stage

\* The entry leaves the frontier and the branch stays as it is: expanded and
\* followed as the parent, dropped as a duplicate, or popped dead.
LeaveFrontier ==
  /\ stage = "frontier"
  /\ stage' = "expanded"
  /\ UNCHANGED <<branch, node, depth>>

\* Popped at the depth limit, or pushed out by the frontier width.
Prune ==
  /\ stage = "frontier"
  /\ branch.phase # "PRUNED"
  /\ branch' = SetPhase(branch, "PRUNED")
  /\ stage' = "expanded"
  /\ UNCHANGED <<node, depth>>

\* _maybe_mid_search_critique chose this branch: at most once per lineage,
\* because forks copy the flag (MidSearchCritiqueOfAny: dead branches too).
MidSearchCritiqueOfAny ==
  /\ stage \in {"frontier", "expanded"}
  /\ branch.phase # "SOLVED"
  /\ ~branch.critiqued
  /\ \E answer \in CritiqueAnswers(branch) :
        branch' = [MergeCritique(branch, answer) EXCEPT !.critiqued = TRUE]
  /\ UNCHANGED <<node, depth, stage>>
MidSearchCritique ==
  /\ stage \in {"frontier", "expanded"}
  /\ branch.phase \notin Dead \cup {"SOLVED"}
  /\ ~branch.critiqued
  /\ \E answer \in CritiqueAnswers(branch) :
        branch' = [MergeCritique(branch, answer) EXCEPT !.critiqued = TRUE]
  /\ UNCHANGED <<node, depth, stage>>

\* The end of solve: a survivor is critiqued or passed on as it is.
Finish ==
  /\ stage \in {"frontier", "expanded"}
  /\ branch.phase \notin Dead
  /\ \/ UNCHANGED branch
     \/ \E answer \in CritiqueAnswers(branch) : branch' = MergeCritique(branch, answer)
  /\ stage' = "final"
  /\ UNCHANGED <<node, depth>>

Next == Seed \/ ExpandIntoChild \/ LeaveFrontier \/ Prune \/ MidSearchCritique \/ Finish

Spec == Init /\ [][Next]_vars
-----------------------------------------------------------------------------
\* Type invariant.
TypeOK ==
  /\ branch \in Branches
  /\ node \in Nodes
  /\ depth \in 0..MaxDepth
  /\ stage \in {"seed", "frontier", "expanded", "final"}

\* A count in the cursor is the length of the history it belongs to, so no
\* entry written before a rollback can become active again (every reader of
\* BranchState slices its lists by active_cursor).
CursorExact == Exact(branch)

\* Steps are numbered by position whatever repairs cut off before them: a step
\* appended after record_repair never takes or skips the index of another.
StepsContiguous == Contiguous(branch)

\* What every reader of a branch counts on: the slices by cursor are its whole
\* active history, numbered as it is stored.
HistoryExact == CursorExact /\ StepsContiguous

\* Repairs of a lineage, counted across forks, stay within the smaller of the
\* two limits of _apply_local_repair.
RepairsBounded ==
  branch.cursor.repairs <= RepairBudget /\ branch.cursor.repairs <= MaxRepairAttempts

\* Forks are expansions or resamples: the entry's depth and the resample count
\* account for the whole lineage, and resamples stay within their budget.
LineageAccounted ==
  /\ branch.lineage = depth + branch.resamples
  /\ branch.resamples <= ResampleBudget

\* Both budgets hold for a lineage as a whole, although forks inherit one count
\* and carry the other in metadata they copy.
BudgetsKept == RepairsBounded /\ LineageAccounted

\* The patch history accounts for the current candidate and the cursor, through
\* every repair, fork, resample and critique.
LedgerChained == Chained(branch)

\* An answer the branch stands by rests on steps it still has: a repair cuts
\* steps off, and what was supported by them is stated again on the new prefix.
SupportActive == Supported(branch)

\* The node of the frontier entry is the branch's latest one and carries the
\* branch's obligations, although repairs cut steps and some steps carry no
\* node; the obligation fingerprint is that of the obligations.
NodeInSync ==
  /\ branch.latest = node.fp
  /\ branch.proof = node.proof
  /\ branch.proofFp = branch.proof

\* What the branch names elsewhere is there: the steps it rests on, the node and
\* the obligations of its entry.
NamesInSync == SupportActive /\ NodeInSync

\* A branch called solved stands by the very answer whose check and verifier
\* accepted it.
SolvedEarned ==
  branch.phase = "SOLVED" =>
    /\ CurrentCandidate(branch).answer \in Answers
    /\ CurrentCandidate(branch).source = "generated"
    /\ branch.symbolic[branch.cursor.symbolic].passed
    /\ branch.verifier[branch.cursor.verifier]

\* A failed or pruned branch is never revived.
DeadStaysDead == [][branch.phase \in Dead => branch'.phase \in Dead]_vars

\* tests/test_branch_controller.py:564 names the claim that bounded search
\* preserves the typed proof state: what the latest symbolic check discharged
\* or contradicted is what the branch records.
ProofStatePreserved ==
  Len(branch.symbolic) > 0 =>
    branch.proof = branch.symbolic[Len(branch.symbolic)].proof
=============================================================================
