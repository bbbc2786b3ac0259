---------------------------- MODULE BranchSearch ----------------------------
(***************************************************************************)
(* BranchController.solve, imo3_hybrid/src/branches/branch_controller.py:  *)
(* the bounded search over branches.  Seeds are attempted and put on the   *)
(* frontier; the best entry is selected and expanded into children; the    *)
(* frontier is deduplicated and pruned to its width; some of the branches  *)
(* are critiqued; at the end survivors are picked, critiqued and handed to *)
(* aggregation.                                                            *)
(*                                                                         *)
(* Branches are numbered in the order they are registered.  What an        *)
(* attempt does inside a branch is the subject of BranchLineage; here only *)
(* its outcome counts.  Scores are computed from what the hooks return and *)
(* can be any number, so any entry may be the best one.                    *)
(***************************************************************************)
EXTENDS Integers, Sequences, FiniteSets, FiniteSetsExt

CONSTANTS
  Answers,             \* canonical answers
  NoAnswer,            \* no candidate, or the empty string
  Operators,           \* operator names the library proposes
  Samples,             \* _self_consistency_samples
  Children,            \* expansion_width, min(3, rows)
  Width,               \* _frontier_width
  MaxDepth,            \* _max_depth
  MaxNodes,            \* _max_search_nodes
  StopCount,           \* target of _should_stop_early, at least 2
  RetainTopK,          \* max(1, min(retain_top_k, branch_budget))
  MidTopK,             \* mid_search_critique_top_k, 0 when disabled
  MidEvery,            \* mid_search_critique_every_n_expansions
  MidFrom,             \* mid_search_critique_min_expansions
  MidMinFrontier,      \* mid_search_critique_min_frontier
  FinalTopK            \* _critique_top_k

ASSUME SearchAssumption ==
  /\ {Samples, Children, Width, MaxDepth, MaxNodes, MidTopK, MidEvery, MidFrom,
      MidMinFrontier, FinalTopK} \subseteq Nat
  /\ Children <= 3 /\ Children <= Cardinality(Operators)
  /\ StopCount \in Nat /\ StopCount >= 2
  /\ RetainTopK \in Nat /\ RetainTopK >= 1
  /\ NoAnswer \notin Answers

VARIABLES
  pool,      \* all_branches, in the order of registration
  frontier,  \* branches on the frontier
  batch,     \* entries made by the running generation or expansion
  current,   \* the branch being expanded
  history,   \* search_history; its length is expanded_nodes
  solved,    \* solved_branch_ids
  survivors, \* surviving branches
  stopped,   \* stopped_reason
  pc         \* where solve is

vars == <<pool, frontier, batch, current, history, solved, survivors, stopped, pc>>

Dead == {"FAILED", "PRUNED"}
\* REASONING stands for every phase that leaves a branch expandable, REPAIRED
\* among them.
BranchPhases == Dead \cup {"REASONING", "SOLVED", "CRITIQUED"}

Alive == {i \in DOMAIN pool : pool[i].phase \notin Dead}
Selected == {history[k] : k \in DOMAIN history}

-----------------------------------------------------------------------------
\* What _process_branch_attempt can return.
Outcomes == [phase : {"SOLVED"}, answer : Answers]
       \cup [phase : {"FAILED", "REASONING"}, answer : Answers \cup {NoAnswer}]

\* Register an attempted branch and its frontier entry.
Register(parent, op, depth, flag, critiques) ==
  \E o \in Outcomes :
    LET id == Len(pool) + 1
    IN  /\ pool' = Append(pool, [phase |-> o.phase, answer |-> o.answer, op |-> op,
                                 depth |-> depth, parent |-> parent, midCritiqued |-> flag,
                                 critiques |-> critiques])
        /\ solved' = IF o.phase = "SOLVED" THEN solved \cup {id} ELSE solved
        /\ batch' = batch \cup {id}

\* The key of _dedupe_frontier: the current answer, or the branch itself when it
\* has none, and the operator.
Key(p, i) == <<IF p[i].answer = NoAnswer THEN i ELSE p[i].answer, p[i].op>>

\* _dedupe_frontier keeps the best entry of each key (DedupedByOperator: of each
\* operator).
DedupedByOperator(p, S) ==
  {T \in SUBSET S : \A i \in S : \E j \in T :
      p[j].op = p[i].op /\ \A k \in T : p[k].op = p[i].op => k = j}
Deduped(p, S) ==
  {T \in SUBSET S : \A i \in S : \E j \in T :
      Key(p, j) = Key(p, i) /\ \A k \in T : Key(p, k) = Key(p, i) => k = j}

\* _prune_frontier keeps the best Width entries (NarrowedNot: all of them) ...
NarrowedNot(S) == {S}
Narrowed(S) == IF Cardinality(S) <= Width THEN {S} ELSE kSubset(Width, S)
\* ... and marks the others, whatever their phase.
MarkPruned(p, S) ==
  [i \in DOMAIN p |-> IF i \in S THEN [p[i] EXCEPT !.phase = "PRUNED"] ELSE p[i]]

\* _should_stop_early: enough solved branches stand by one current answer.
Consensus ==
  \E a \in Answers : Cardinality({i \in solved : pool[i].answer = a}) >= StopCount

\* _merge_critiqued_branch on the chosen branches: the critic keeps each answer
\* or proposes one.
Critiqued(p, chosen, answers, mid) ==
  [i \in DOMAIN p |->
     IF i \in chosen
     THEN [p[i] EXCEPT !.phase = "CRITIQUED", !.answer = answers[i],
                       !.critiques = @ + 1, !.midCritiqued = @ \/ mid]
     ELSE p[i]]
CritiqueAnswers(chosen) ==
  {f \in [chosen -> Answers \cup {NoAnswer}] :
     \A i \in chosen : f[i] = NoAnswer => pool[i].answer = NoAnswer}

\* The early returns of _maybe_mid_search_critique.
MidSearchDue ==
  /\ MidEvery > 0
  /\ Len(history) >= MidFrom
  /\ Len(history) % MidEvery = 0
  /\ Cardinality(frontier) >= MidMinFrontier

\* _mid_search_critique_entries: the branch just expanded and the frontier,
\* without those that are dead, solved or critiqued before (each of the two
\* variants forgets one of these).
MidSearchEntriesSolved ==
  {i \in {current} \cup frontier : pool[i].phase \notin Dead /\ ~pool[i].midCritiqued}
MidSearchEntriesAgain ==
  {i \in {current} \cup frontier : pool[i].phase \notin Dead \cup {"SOLVED"}}
MidSearchEntries ==
  {i \in {current} \cup frontier :
     pool[i].phase \notin Dead \cup {"SOLVED"} /\ ~pool[i].midCritiqued}

SurvivorCount(n) == IF RetainTopK < n THEN RetainTopK ELSE n

-----------------------------------------------------------------------------
Init ==
  /\ pool = <<>> /\ history = <<>>
  /\ frontier = {} /\ batch = {} /\ solved = {} /\ survivors = {}
  /\ current = 0
  /\ stopped = "budget_exhausted"
  /\ pc = "seeding"

\* One sample of _generate_initial_frontier.
SeedAttempt ==
  /\ pc = "seeding" /\ Len(pool) < Samples
  /\ \E op \in Operators : Register(0, op, 0, FALSE, 0)
  /\ UNCHANGED <<frontier, current, history, survivors, stopped, pc>>

\* The seeds are deduplicated and pushed; the width is not applied to them.
OpenFrontier ==
  /\ pc = "seeding" /\ Len(pool) = Samples
  /\ frontier' \in Deduped(pool, batch)
  /\ batch' = {}
  /\ pc' = "loop"
  /\ UNCHANGED <<pool, current, history, solved, survivors, stopped>>

InLoop == pc = "loop" /\ frontier # {} /\ Len(history) < MaxNodes

\* A failed or pruned entry is popped and not counted (SkipDeadPeek: looked at
\* and left).
SkipDeadPeek ==
  /\ InLoop
  /\ \E i \in frontier \ Alive : frontier' = frontier
  /\ UNCHANGED <<pool, batch, current, history, solved, survivors, stopped, pc>>
SkipDead ==
  /\ InLoop
  /\ \E i \in frontier \ Alive : frontier' = frontier \ {i}
  /\ UNCHANGED <<pool, batch, current, history, solved, survivors, stopped, pc>>

\* The pop and the record of it (SelectPeek: looked at and left).
SelectPeek(i) ==
  /\ InLoop /\ i \in frontier \cap Alive
  /\ frontier' = frontier
  /\ history' = Append(history, i)
Select(i) ==
  /\ InLoop /\ i \in frontier \cap Alive
  /\ frontier' = frontier \ {i}
  /\ history' = Append(history, i)

StopEarly ==
  /\ \E i \in frontier : Select(i)
  /\ Consensus
  /\ stopped' = "consensus_converged"
  /\ pc' = "closing"
  /\ UNCHANGED <<pool, batch, current, solved, survivors>>

\* The depth limit prunes the selected branch, a solved one too.
PruneDeep ==
  /\ \E i \in frontier :
       /\ Select(i)
       /\ pool[i].depth >= MaxDepth
       /\ pool' = MarkPruned(pool, {i})
  /\ ~Consensus
  /\ UNCHANGED <<batch, current, solved, survivors, stopped, pc>>

StartExpansion ==
  /\ \E i \in frontier :
       /\ Select(i)
       /\ pool[i].depth < MaxDepth
       /\ current' = i
  /\ ~Consensus
  /\ pc' = "expanding"
  /\ UNCHANGED <<pool, batch, solved, survivors, stopped>>

\* One child of _expand_branch: a fork, which copies the critique flag and the
\* critique history, attempted with another operator row.
ExpandChild ==
  /\ pc = "expanding" /\ Cardinality(batch) < Children
  /\ \E op \in Operators \ {pool[j].op : j \in batch} :
       Register(current, op, pool[current].depth + 1, pool[current].midCritiqued,
                pool[current].critiques)
  /\ UNCHANGED <<frontier, current, history, survivors, stopped, pc>>

\* The children are deduplicated among themselves and pushed, and the frontier
\* is pruned to its width.
PushChildren ==
  /\ pc = "expanding" /\ Cardinality(batch) = Children
  /\ \E kids \in Deduped(pool, batch) :
       LET grown == frontier \cup kids
       IN  \E kept \in Narrowed(grown) :
             /\ frontier' = kept
             /\ pool' = MarkPruned(pool, grown \ kept)
  /\ batch' = {}
  /\ pc' = "review"
  /\ UNCHANGED <<current, history, solved, survivors, stopped>>

\* _maybe_mid_search_critique returns early, or no entry is worth a critique.
SkipReview ==
  /\ pc = "review"
  /\ pc' = "loop"
  /\ current' = 0
  /\ UNCHANGED <<pool, frontier, batch, history, solved, survivors, stopped>>

\* _maybe_mid_search_critique: critique, then deduplicate and prune the frontier
\* under the answers the critic left.
MidSearchCritique ==
  /\ pc = "review" /\ MidSearchDue
  /\ \E chosen \in SUBSET MidSearchEntries \ {{}} :
       /\ Cardinality(chosen) <= MidTopK
       /\ \E f \in CritiqueAnswers(chosen) :
            LET reviewed == Critiqued(pool, chosen, f, TRUE)
            IN  \E fresh \in Deduped(reviewed, frontier) :
                  \E kept \in Narrowed(fresh) :
                    /\ frontier' = kept
                    /\ pool' = MarkPruned(reviewed, fresh \ kept)
  /\ pc' = "loop"
  /\ current' = 0
  /\ UNCHANGED <<batch, history, solved, survivors, stopped>>

\* The loop ends because the frontier is empty or the node budget is spent.
LeaveLoop ==
  /\ pc = "loop" /\ (frontier = {} \/ Len(history) >= MaxNodes)
  /\ stopped' = IF frontier = {} THEN "frontier_drained" ELSE "search_budget_hit"
  /\ pc' = "closing"
  /\ UNCHANGED <<pool, frontier, batch, current, history, solved, survivors>>

\* _select_survivors ranks every registered branch that is not dead
\* (SelectSurvivorsOfAll: every registered branch).
SelectSurvivorsOfAll ==
  /\ pc = "closing"
  /\ survivors' \in kSubset(SurvivorCount(Len(pool)), DOMAIN pool)
  /\ pc' = "critique"
  /\ UNCHANGED <<pool, frontier, batch, current, history, solved, stopped>>
SelectSurvivors ==
  /\ pc = "closing"
  /\ survivors' \in kSubset(SurvivorCount(Cardinality(Alive)), Alive)
  /\ pc' = "critique"
  /\ UNCHANGED <<pool, frontier, batch, current, history, solved, stopped>>

\* _critique_survivors, merged, and the hand-off to aggregation.
CritiqueSurvivors ==
  /\ pc = "critique"
  /\ \E chosen \in SUBSET survivors :
       /\ Cardinality(chosen) <= FinalTopK
       /\ \E f \in CritiqueAnswers(chosen) : pool' = Critiqued(pool, chosen, f, FALSE)
  /\ pc' = "done"
  /\ UNCHANGED <<frontier, batch, current, history, solved, survivors, stopped>>

Next ==
  \/ SeedAttempt \/ OpenFrontier
  \/ SkipDead \/ StopEarly \/ PruneDeep \/ StartExpansion
  \/ ExpandChild \/ PushChildren \/ SkipReview \/ MidSearchCritique
  \/ LeaveLoop \/ SelectSurvivors \/ CritiqueSurvivors

\* solve is one sequential call: it keeps running while it can.
Spec == Init /\ [][Next]_vars /\ WF_vars(Next)
-----------------------------------------------------------------------------
\* Type invariant.
TypeOK ==
  /\ pool \in Seq([phase : BranchPhases, answer : Answers \cup {NoAnswer},
                   op : Operators, depth : Nat, parent : Nat,
                   midCritiqued : BOOLEAN, critiques : Nat])
  /\ history \in Seq(DOMAIN pool)
  /\ {frontier, batch, solved, survivors} \subseteq SUBSET DOMAIN pool
  /\ current \in DOMAIN pool \cup {0}
  /\ stopped \in {"budget_exhausted", "consensus_converged", "frontier_drained",
                  "search_budget_hit"}
  /\ pc \in {"seeding", "loop", "expanding", "review", "closing", "critique", "done"}

\* The search is bounded as the class promises (branch_controller.py:238): by
\* the selections, by the attempts (each one a call of the generator) and by the
\* frontier, which holds no more than the seeds or the width.
SearchBounded ==
  /\ Len(history) <= MaxNodes
  /\ Len(pool) <= Samples + Children * Len(history)
  /\ \/ Cardinality(frontier) <= Width
     \/ Cardinality(frontier) + Len(history) <= Samples

\* A branch is selected at most once, and a selected branch never returns to
\* the frontier, not even when a critique rebuilds it.
SelectedOnce ==
  /\ Cardinality(Selected) = Len(history)
  /\ Selected \cap frontier = {}

\* A child hangs under a branch that was selected, one level above it.
ChildrenOfSelected ==
  \A i \in DOMAIN pool : IF pool[i].parent = 0 THEN pool[i].depth = 0
    ELSE /\ pool[i].parent \in Selected /\ pool[i].parent < i
         /\ pool[i].depth = pool[pool[i].parent].depth + 1

\* The search grows a tree, each branch expanded at most once.
GrowsTree == TypeOK /\ SelectedOnce /\ ChildrenOfSelected

\* An entry leaves the frontier, or the batch of new entries, only because it
\* was selected, is dead, or had a duplicate there: another entry with the same
\* answer and operator.
NoEntryLost ==
  [][\A i \in (frontier \cup batch) \ (frontier' \cup batch') :
       \/ i \in Selected'
       \/ i \notin Alive'
       \/ \E j \in (frontier \cup batch) \ {i} : Key(pool', j) = Key(pool', i)]_vars

\* The answers the consensus is counted on do not move while the search runs:
\* only the critique of the survivors may change the answer of a solved branch.
SolvedAnswersFixed ==
  [][pc # "critique" => \A i \in solved : pool'[i].answer = pool[i].answer]_vars

\* A branch is critiqued at most once in mid-search, counting what it inherited
\* from its parent, and at most once more before aggregation.
CritiquedOncePerStage ==
  \A i \in DOMAIN pool :
    LET mid == IF pool[i].midCritiqued THEN 1 ELSE 0
    IN  pool[i].critiques \in IF pc = "done" /\ i \in survivors THEN {mid, mid + 1} ELSE {mid}

\* solve returns.
Terminates == <>(pc = "done")

\* The search implements its contract: the registered branches are those found,
\* the dead ones those ruled out, the survivors those chosen.
Contract == INSTANCE SearchContract WITH
  MaxFound  <- Samples + Children * MaxNodes,
  MaxChosen <- RetainTopK,
  found     <- DOMAIN pool,
  ruledOut  <- DOMAIN pool \ Alive,
  chosen    <- survivors,
  open      <- pc \notin {"critique", "done"}
ImplementsContract == Contract!Spec
=============================================================================
