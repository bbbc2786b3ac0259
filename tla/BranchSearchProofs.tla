------------------------- MODULE BranchSearchProofs -------------------------
(***************************************************************************)
(* The search of BranchController.solve, for any number of seeds, children *)
(* and operators and any limits: it grows a tree, critiques each branch    *)
(* once per stage, stays within its bounds, loses no entry, leaves the     *)
(* answers of solved branches alone, and keeps the contract of its caller. *)
(***************************************************************************)
EXTENDS BranchSearch, FiniteSetTheorems, SequenceTheorems, TLAPS

Rows == [phase : BranchPhases, answer : Answers \cup {NoAnswer},
         op : Operators, depth : Nat, parent : Nat,
         midCritiqued : BOOLEAN, critiques : Nat]
Stops == {"budget_exhausted", "consensus_converged", "frontier_drained", "search_budget_hit"}
Places == {"seeding", "loop", "expanding", "review", "closing", "critique", "done"}

\* New entries are not on the frontier yet, and were never selected.
BatchFresh == batch \cap (Selected \cup frontier) = {}

\* A branch that is solved is never critiqued or expanded into another phase
\* before the survivors are picked; it can only be pruned.
SolvedKept == pc # "done" => \A i \in solved : pool[i].phase \in {"SOLVED", "PRUNED"}

\* Where the search is.
Placed ==
  /\ pc \in {"expanding", "review"} => current \in Selected
  /\ pc \notin {"seeding", "expanding"} => batch = {}
  /\ pc \notin {"critique", "done"} => survivors = {}
  /\ pc = "critique" => survivors \subseteq Alive

\* The attempts so far, counted: one per seed, and Children for each selection
\* that was expanded, of which those of the running expansion are in the batch.
Budgeted ==
  /\ SearchBounded
  /\ pc = "seeding" => /\ history = <<>> /\ frontier = {}
                       /\ Len(pool) = Cardinality(batch) /\ Len(pool) <= Samples
  /\ pc = "expanding" =>
       /\ Cardinality(batch) <= Children
       /\ Len(pool) + Children <= Samples + Children * Len(history) + Cardinality(batch)

IInv ==
  /\ TypeOK /\ SelectedOnce /\ ChildrenOfSelected /\ BatchFresh
  /\ CritiquedOncePerStage /\ SolvedKept /\ Placed /\ Budgeted

-----------------------------------------------------------------------------
\* The limits are natural numbers.
LEMMA Limits ==
  /\ Samples \in Nat /\ Children \in Nat /\ Width \in Nat /\ MaxNodes \in Nat
  /\ RetainTopK \in Nat /\ RetainTopK >= 1
  /\ \A k \in Nat : /\ Children * k \in Nat
                    /\ Children * (k + 1) = Children * k + Children
                    /\ k <= MaxNodes => Children * k <= Children * MaxNodes
  /\ Children * 0 = 0
<1>1. /\ Samples \in Nat /\ Children \in Nat /\ Width \in Nat /\ MaxNodes \in Nat
      /\ RetainTopK \in Nat /\ RetainTopK >= 1
  BY SearchAssumption
<1>2. \A c, k \in Nat : /\ c * k \in Nat /\ c * 0 = 0
                       /\ c * (k + 1) = c * k + c
                       /\ \A m \in Nat : k <= m => c * k <= c * m
  OBVIOUS
<1> QED
  BY <1>1, <1>2

\* A function on 1..n is a sequence of length n.
LEMMA FunctionIsSeq ==
  ASSUME NEW S, NEW n \in Nat, NEW f \in [1..n -> S]
  PROVE  f \in Seq(S) /\ Len(f) = n /\ DOMAIN f = 1..n
BY SeqDef

\* One element more.
LEMMA AppendedRows ==
  ASSUME NEW T, NEW list \in Seq(T), NEW e \in T
  PROVE  /\ Append(list, e) \in Seq(T) /\ Len(Append(list, e)) = Len(list) + 1
         /\ Len(list) \in Nat /\ Append(list, e)[Len(list) + 1] = e
         /\ \A i \in 1..Len(list) : Append(list, e)[i] = list[i]
         /\ DOMAIN list = 1..Len(list)
         /\ DOMAIN Append(list, e) = 1..(Len(list) + 1)
BY AppendProperties, LenProperties

\* Marking changes phases only.
LEMMA MarkPrunedRows ==
  ASSUME NEW p \in Seq(Rows), NEW S
  PROVE  LET q == MarkPruned(p, S)
         IN  /\ q \in Seq(Rows) /\ Len(q) = Len(p) /\ DOMAIN q = 1..Len(p)
             /\ \A i \in 1..Len(p) :
                  /\ q[i].phase = IF i \in S THEN "PRUNED" ELSE p[i].phase
                  /\ q[i].answer = p[i].answer /\ q[i].op = p[i].op
                  /\ q[i].depth = p[i].depth /\ q[i].parent = p[i].parent
                  /\ q[i].midCritiqued = p[i].midCritiqued /\ q[i].critiques = p[i].critiques
<1> DEFINE q == MarkPruned(p, S)
<1>1. /\ Len(p) \in Nat /\ DOMAIN p = 1..Len(p)
      /\ \A i \in 1..Len(p) : p[i] \in Rows
  BY LenProperties, ElementOfSeq
<1>2. q = [i \in 1..Len(p) |-> IF i \in S THEN [p[i] EXCEPT !.phase = "PRUNED"] ELSE p[i]]
  BY <1>1 DEF MarkPruned
<1>3. q \in [1..Len(p) -> Rows]
  BY <1>1, <1>2, ZenonT(30) DEF Rows, BranchPhases, Dead
<1>4. q \in Seq(Rows) /\ Len(q) = Len(p) /\ DOMAIN q = 1..Len(p)
  BY <1>1, <1>3, FunctionIsSeq
<1>5. \A i \in 1..Len(p) :
        /\ q[i].phase = IF i \in S THEN "PRUNED" ELSE p[i].phase
        /\ q[i].answer = p[i].answer /\ q[i].op = p[i].op
        /\ q[i].depth = p[i].depth /\ q[i].parent = p[i].parent
        /\ q[i].midCritiqued = p[i].midCritiqued /\ q[i].critiques = p[i].critiques
  BY <1>1, <1>2 DEF Rows
<1> QED
  BY <1>4, <1>5

\* Merging critiques changes the phase, the answer and the count of the chosen.
OnlyCritiqued(p, chosen, q) ==
  /\ q \in Seq(Rows) /\ Len(q) = Len(p) /\ DOMAIN q = 1..Len(p)
  /\ \A i \in 1..Len(p) :
       q[i].op = p[i].op /\ q[i].depth = p[i].depth /\ q[i].parent = p[i].parent
  /\ \A i \in 1..Len(p) : i \notin chosen => q[i] = p[i]
  /\ \A i \in chosen : q[i].phase = "CRITIQUED" /\ q[i].critiques = p[i].critiques + 1
LEMMA CritiquedRows ==
  ASSUME NEW p \in Seq(Rows), NEW chosen \in SUBSET (1..Len(p)),
         NEW answers \in [chosen -> Answers \cup {NoAnswer}],
         NEW q \in {Critiqued(p, chosen, answers, TRUE), Critiqued(p, chosen, answers, FALSE)}
  PROVE  OnlyCritiqued(p, chosen, q)
<1>0. PICK mid \in BOOLEAN :
        q = [i \in DOMAIN p |->
               IF i \in chosen
               THEN [p[i] EXCEPT !.phase = "CRITIQUED", !.answer = answers[i],
                                 !.critiques = @ + 1, !.midCritiqued = @ \/ mid]
               ELSE p[i]]
  BY DEF Critiqued
<1>1. /\ Len(p) \in Nat /\ DOMAIN p = 1..Len(p)
      /\ \A i \in 1..Len(p) : p[i] \in Rows
  BY LenProperties, ElementOfSeq
<1>2. q = [i \in 1..Len(p) |->
             IF i \in chosen
             THEN [p[i] EXCEPT !.phase = "CRITIQUED", !.answer = answers[i],
                               !.critiques = @ + 1, !.midCritiqued = @ \/ mid]
             ELSE p[i]]
  BY <1>0, <1>1
<1>3. ASSUME NEW i \in 1..Len(p)
      PROVE  /\ q[i] \in Rows
             /\ q[i].op = p[i].op /\ q[i].depth = p[i].depth /\ q[i].parent = p[i].parent
             /\ i \notin chosen => q[i] = p[i]
             /\ i \in chosen => q[i].phase = "CRITIQUED" /\ q[i].critiques = p[i].critiques + 1
  <2>1. CASE i \in chosen
    <3>1. q[i] = [p[i] EXCEPT !.phase = "CRITIQUED", !.answer = answers[i],
                              !.critiques = @ + 1, !.midCritiqued = @ \/ mid]
      BY <1>2, <2>1
    <3>2. p[i] \in Rows /\ answers[i] \in Answers \cup {NoAnswer}
      BY <1>1, <2>1
    <3>3. p[i].critiques + 1 \in Nat /\ (p[i].midCritiqued \/ mid) \in BOOLEAN
      BY <3>2 DEF Rows
    <3> QED
      BY <2>1, <3>1, <3>2, <3>3 DEF Rows, BranchPhases
  <2>2. CASE i \notin chosen
    BY <1>1, <1>2, <2>2
  <2> QED
    BY <2>1, <2>2
<1>4. q \in [1..Len(p) -> Rows]
  BY <1>2, <1>3
<1>5. q \in Seq(Rows) /\ Len(q) = Len(p) /\ DOMAIN q = 1..Len(p)
  BY <1>1, <1>4, FunctionIsSeq
<1> QED
  BY <1>3, <1>5 DEF OnlyCritiqued

\* The flag is set by the critique inside the search, and left by the last one.
LEMMA CritiquedFlags ==
  ASSUME NEW p \in Seq(Rows), NEW chosen, NEW answers,
         chosen \subseteq 1..Len(p), NEW i \in chosen
  PROVE  /\ Critiqued(p, chosen, answers, TRUE)[i].midCritiqued = TRUE
         /\ Critiqued(p, chosen, answers, FALSE)[i].midCritiqued = p[i].midCritiqued
<1>1. DOMAIN p = 1..Len(p) /\ p[i] \in Rows
  BY LenProperties, ElementOfSeq
<1>2. /\ Critiqued(p, chosen, answers, TRUE)[i] =
           [p[i] EXCEPT !.phase = "CRITIQUED", !.answer = answers[i],
                        !.critiques = @ + 1, !.midCritiqued = @ \/ TRUE]
      /\ Critiqued(p, chosen, answers, FALSE)[i] =
           [p[i] EXCEPT !.phase = "CRITIQUED", !.answer = answers[i],
                        !.critiques = @ + 1, !.midCritiqued = @ \/ FALSE]
  BY <1>1 DEF Critiqued
<1>3. p[i].midCritiqued \in BOOLEAN
  BY <1>1 DEF Rows
<1> QED
  BY <1>1, <1>2, <1>3 DEF Rows

\* A frontier is finite, and shorter by what is taken out of it.
LEMMA FrontierFinite ==
  ASSUME NEW n \in Nat, NEW F, F \subseteq 1..n
  PROVE  /\ IsFiniteSet(F) /\ Cardinality(F) \in Nat
         /\ \A G \in SUBSET F : IsFiniteSet(G) /\ Cardinality(G) \in Nat /\ Cardinality(G) <= Cardinality(F)
         /\ \A i \in F : Cardinality(F \ {i}) = Cardinality(F) - 1
         /\ \A i : i \notin F => Cardinality(F \cup {i}) = Cardinality(F) + 1
<1>1. IsFiniteSet(F)
  <2>1. IsFiniteSet(1..n) /\ F \in SUBSET (1..n)
    BY FS_Interval
  <2> QED
    BY <2>1, FS_Subset
<1>2. \A G \in SUBSET F : IsFiniteSet(G) /\ Cardinality(G) \in Nat /\ Cardinality(G) <= Cardinality(F)
  BY <1>1, FS_Subset, FS_CardinalityType
<1> QED
  BY <1>1, <1>2, FS_CardinalityType, FS_RemoveElement, FS_AddElement

\* What is kept of a frontier is part of it, and no more than the width of it
\* unless it was within the width.
LEMMA NarrowedKeeps ==
  ASSUME NEW n \in Nat, NEW F, F \subseteq 1..n, NEW kept \in Narrowed(F)
  PROVE  kept \subseteq F /\ Cardinality(kept) <= Width
<1>1. CASE Cardinality(F) <= Width
  BY <1>1 DEF Narrowed
<1>2. CASE ~(Cardinality(F) <= Width)
  <2>1. kept \in kSubset(Width, F)
    BY <1>2 DEF Narrowed
  <2> QED
    BY <2>1, SearchAssumption DEF kSubset
<1> QED
  BY <1>1, <1>2

\* Deduplication takes entries away only where another has the same key.
LEMMA DedupedKeeps ==
  ASSUME NEW p, NEW S, NEW T \in Deduped(p, S)
  PROVE  /\ T \subseteq S
         /\ \A i \in S \ T : \E j \in S \ {i} : j \in T /\ Key(p, j) = Key(p, i)
BY DEF Deduped

\* Types and ranges, spelled out.
LEMMA Typed ==
  ASSUME TypeOK
  PROVE  /\ pool \in Seq(Rows) /\ Len(pool) \in Nat /\ DOMAIN pool = 1..Len(pool)
         /\ \A i \in 1..Len(pool) : pool[i] \in Rows
         /\ history \in Seq(1..Len(pool)) /\ Len(history) \in Nat
         /\ DOMAIN history = 1..Len(history)
         /\ frontier \subseteq 1..Len(pool) /\ batch \subseteq 1..Len(pool)
         /\ solved \subseteq 1..Len(pool) /\ survivors \subseteq 1..Len(pool)
         /\ current \in 0..Len(pool) /\ stopped \in Stops /\ pc \in Places
         /\ Selected \subseteq 1..Len(pool)
<1>1. /\ pool \in Seq(Rows) /\ Len(pool) \in Nat /\ DOMAIN pool = 1..Len(pool)
      /\ \A i \in 1..Len(pool) : pool[i] \in Rows
  BY LenProperties, ElementOfSeq DEF TypeOK, Rows
<1>2. history \in Seq(1..Len(pool)) /\ Len(history) \in Nat /\ DOMAIN history = 1..Len(history)
  BY <1>1, LenProperties DEF TypeOK
<1>3. \A k \in 1..Len(history) : history[k] \in 1..Len(pool)
  BY <1>2, ElementOfSeq
<1> QED
  BY <1>1, <1>2, <1>3, SMTT(20) DEF TypeOK, Stops, Places, Selected

LEMMA TypedBack ==
  ASSUME pool \in Seq(Rows), history \in Seq(1..Len(pool)),
         frontier \subseteq 1..Len(pool), batch \subseteq 1..Len(pool),
         solved \subseteq 1..Len(pool), survivors \subseteq 1..Len(pool),
         current \in 0..Len(pool), stopped \in Stops, pc \in Places
  PROVE  TypeOK
<1>1. DOMAIN pool = 1..Len(pool) /\ Len(pool) \in Nat
  BY LenProperties
<1> QED
  BY <1>1, SMTT(20) DEF TypeOK, Rows, Stops, Places

\* One selection more.
LEMMA SelectedGrows ==
  ASSUME TypeOK, NEW i \in 1..Len(pool), history' = Append(history, i)
  PROVE  Selected' = Selected \cup {i} /\ Len(history') = Len(history) + 1
<1>1. /\ Len(history') = Len(history) + 1 /\ Len(history) \in Nat
      /\ history'[Len(history) + 1] = i
      /\ \A k \in 1..Len(history) : history'[k] = history[k]
      /\ DOMAIN history = 1..Len(history) /\ DOMAIN history' = 1..(Len(history) + 1)
  BY Typed, AppendedRows
<1> QED
  BY <1>1 DEF Selected
-----------------------------------------------------------------------------
\* The search starts with nothing.
LEMMA InitIInv == Init => IInv
<1> SUFFICES ASSUME Init PROVE IInv
  OBVIOUS
<1>1. /\ pool = <<>> /\ history = <<>> /\ frontier = {} /\ batch = {} /\ solved = {}
      /\ survivors = {} /\ current = 0 /\ stopped = "budget_exhausted" /\ pc = "seeding"
  BY DEF Init
<1>2. Len(pool) = 0 /\ Len(history) = 0 /\ Selected = {}
  BY <1>1 DEF Selected
<1>3. TypeOK
  BY <1>1, <1>2, TypedBack DEF Stops, Places
<1>4. Cardinality({}) = 0
  BY FS_EmptySet
<1>5. Budgeted
  <2>1. Children * 0 = 0
    BY SearchAssumption
  <2> QED
    BY <1>1, <1>2, <1>4, <2>1, SearchAssumption DEF Budgeted, SearchBounded
<1>6. SelectedOnce /\ ChildrenOfSelected /\ BatchFresh
  BY <1>1, <1>2, <1>4 DEF SelectedOnce, ChildrenOfSelected, BatchFresh
<1>7. CritiquedOncePerStage /\ SolvedKept /\ Placed
  BY <1>1 DEF CritiquedOncePerStage, SolvedKept, Placed
<1> QED
  BY <1>3, <1>5, <1>6, <1>7 DEF IInv

\* A new branch and its entry.
LEMMA RegisterKeeps ==
  ASSUME IInv, NEW parent, NEW op \in Operators, NEW depth \in Nat, NEW flag \in BOOLEAN,
         NEW critiques,
         Register(parent, op, depth, flag, critiques),
         pc \in {"seeding", "expanding"},
         \/ parent = 0 /\ depth = 0
         \/ parent \in Selected /\ depth = pool[parent].depth + 1,
         critiques = IF flag THEN 1 ELSE 0,
         pc = "seeding" => Len(pool) < Samples,
         pc = "expanding" => Cardinality(batch) < Children,
         UNCHANGED <<frontier, current, history, survivors, stopped, pc>>
  PROVE  IInv'
<1> DEFINE n == Len(pool)
<1>1. PICK o \in Outcomes :
        /\ pool' = Append(pool, [phase |-> o.phase, answer |-> o.answer, op |-> op,
                                 depth |-> depth, parent |-> parent, midCritiqued |-> flag,
                                 critiques |-> critiques])
        /\ solved' = IF o.phase = "SOLVED" THEN solved \cup {n + 1} ELSE solved
        /\ batch' = batch \cup {n + 1}
  BY DEF Register
<1> DEFINE row == [phase |-> o.phase, answer |-> o.answer, op |-> op,
                   depth |-> depth, parent |-> parent, midCritiqued |-> flag,
                   critiques |-> critiques]
<1>2. TypeOK /\ Selected \subseteq 1..n /\ n \in Nat
  BY Typed DEF IInv
<1>3. row \in Rows
  <2>1. o.phase \in BranchPhases /\ o.answer \in Answers \cup {NoAnswer}
    BY DEF BranchPhases, Dead, Outcomes
  <2>2. parent \in Nat /\ critiques \in Nat
    <3>1. parent = 0 \/ parent \in Selected
      OBVIOUS
    <3>2. critiques \in {0, 1}
      BY Zenon
    <3>3. critiques \in Nat
      BY <3>2
    <3>4. ASSUME parent \in Selected PROVE parent \in Nat
      <4>1. parent \in 1..n
        BY <1>2, <3>4, Zenon
      <4>2. \A k \in 1..n : k \in Nat
        OBVIOUS
      <4> QED
        BY <4>1, <4>2, Zenon
    <3> QED
      BY <3>1, <3>3, <3>4
  <2> QED
    BY <2>1, <2>2 DEF Rows
<1>4. /\ row.phase = o.phase /\ row.depth = depth /\ row.parent = parent
      /\ row.midCritiqued = flag /\ row.critiques = critiques
  OBVIOUS
<1> HIDE DEF row
<1>5. /\ pool' \in Seq(Rows) /\ Len(pool') = n + 1 /\ pool'[n + 1] = row
      /\ \A i \in 1..n : pool'[i] = pool[i]
      /\ DOMAIN pool = 1..n /\ DOMAIN pool' = 1..(n + 1)
  BY <1>1, <1>2, <1>3, Typed, AppendedRows DEF row
<1>6. Selected' = Selected
  BY DEF Selected
<1>7. TypeOK'
  <2>1. 1..n \subseteq 1..(n + 1) /\ n + 1 \in 1..(n + 1) /\ 0..n \subseteq 0..(n + 1)
    BY <1>2
  <2>2. history' \in Seq(1..(n + 1)) /\ current' \in 0..(n + 1)
    BY <1>2, <2>1, Typed, SeqMonotonic
  <2>3. /\ frontier' \subseteq 1..(n + 1) /\ batch' \subseteq 1..(n + 1)
        /\ solved' \subseteq 1..(n + 1) /\ survivors' \subseteq 1..(n + 1)
    BY <1>1, <1>2, <2>1, Typed
  <2>4. stopped' \in Stops /\ pc' \in Places
    BY <1>2, Typed
  <2> QED
    BY <1>5, <2>2, <2>3, <2>4, LenProperties, SMTT(20) DEF TypeOK, Rows, Stops, Places
<1>8. SelectedOnce'
  BY <1>6 DEF IInv, SelectedOnce
<1>9. ChildrenOfSelected'
  <2>1. ASSUME NEW i \in 1..n
        PROVE  IF pool'[i].parent = 0 THEN pool'[i].depth = 0
               ELSE /\ pool'[i].parent \in Selected' /\ pool'[i].parent < i
                    /\ pool'[i].depth = pool'[pool'[i].parent].depth + 1
    BY <1>2, <1>5, <1>6 DEF IInv, ChildrenOfSelected
  <2>2. IF pool'[n + 1].parent = 0 THEN pool'[n + 1].depth = 0
        ELSE /\ pool'[n + 1].parent \in Selected' /\ pool'[n + 1].parent < n + 1
             /\ pool'[n + 1].depth = pool'[pool'[n + 1].parent].depth + 1
    <3>1. CASE parent = 0 /\ depth = 0
      BY <1>4, <1>5, <3>1
    <3>2. CASE parent \in Selected /\ depth = pool[parent].depth + 1
      <4>1. parent \in 1..n /\ pool'[parent] = pool[parent] /\ parent < n + 1
        BY <1>2, <1>5, <3>2
      <4> QED
        BY <1>4, <1>5, <1>6, <3>2, <4>1
    <3> QED
      BY <3>1, <3>2
  <2> QED
    BY <1>2, <1>5, <2>1, <2>2 DEF ChildrenOfSelected
<1>10. BatchFresh'
  BY <1>1, <1>2, <1>6, Typed DEF IInv, BatchFresh
<1>11. CritiquedOncePerStage'
  <2>1. pc # "done" /\ pc' = pc
    OBVIOUS
  <2>2. ASSUME NEW i \in 1..n
        PROVE  pool'[i].critiques = IF pool'[i].midCritiqued THEN 1 ELSE 0
    BY <1>5, <2>1 DEF IInv, CritiquedOncePerStage
  <2>3. pool'[n + 1].critiques = IF pool'[n + 1].midCritiqued THEN 1 ELSE 0
    BY <1>4, <1>5
  <2>4. \A i \in DOMAIN pool' : pool'[i].critiques = IF pool'[i].midCritiqued THEN 1 ELSE 0
    BY <1>2, <1>5, <2>2, <2>3
  <2> QED
    BY <2>1, <2>4 DEF CritiquedOncePerStage
<1>12. SolvedKept'
  BY <1>1, <1>2, <1>4, <1>5, Typed DEF IInv, SolvedKept
<1>13. Placed'
  BY <1>6 DEF IInv, Placed
<1>14. Budgeted'
  <2>1. Cardinality(batch') = Cardinality(batch) + 1 /\ Cardinality(batch) \in Nat
    <3>1. batch \subseteq 1..n /\ n + 1 \notin batch
      BY <1>2, Typed
    <3> QED
      BY <1>1, <1>2, <3>1, FrontierFinite
  <2> DEFINE spent == Children * Len(history)
  <2>2. /\ spent \in Nat /\ Len(history) \in Nat /\ Samples \in Nat /\ Children \in Nat
        /\ history = <<>> => spent = 0
    BY <1>2, Limits, Typed
  <2>3. /\ n <= Samples + spent
        /\ pc = "seeding" => history = <<>> /\ frontier = {} /\ n = Cardinality(batch)
        /\ pc = "expanding" => n + Children <= Samples + spent + Cardinality(batch)
    BY DEF IInv, Budgeted, SearchBounded
  <2> HIDE DEF spent
  <2>4. /\ n + 1 <= Samples + spent
        /\ pc = "seeding" => n + 1 = Cardinality(batch') /\ n + 1 <= Samples
        /\ pc = "expanding" => /\ Cardinality(batch') <= Children
                               /\ n + 1 + Children <= Samples + spent + Cardinality(batch')
    BY <1>2, <2>1, <2>2, <2>3
  <2>5. SearchBounded'
    BY <1>5, <2>4 DEF IInv, Budgeted, SearchBounded, spent
  <2> QED
    BY <1>5, <2>3, <2>4, <2>5 DEF Budgeted, spent
<1> QED
  BY <1>7, <1>8, <1>9, <1>10, <1>11, <1>12, <1>13, <1>14 DEF IInv

\* One sample more.
LEMMA SeedAttemptKeeps == IInv /\ SeedAttempt => IInv'
<1> SUFFICES ASSUME IInv, SeedAttempt PROVE IInv'
  OBVIOUS
<1>1. PICK op \in Operators : Register(0, op, 0, FALSE, 0)
  BY DEF SeedAttempt
<1>2. /\ pc = "seeding" /\ Len(pool) < Samples
      /\ UNCHANGED <<frontier, current, history, survivors, stopped, pc>>
  BY DEF SeedAttempt
<1> QED
  BY <1>1, <1>2, RegisterKeeps

\* One child more.
LEMMA ExpandChildKeeps == IInv /\ ExpandChild => IInv'
<1> SUFFICES ASSUME IInv, ExpandChild PROVE IInv'
  OBVIOUS
<1> DEFINE row == pool[current]
<1>1. PICK op \in Operators :
        Register(current, op, row.depth + 1, row.midCritiqued, row.critiques)
  BY DEF ExpandChild
<1>2. /\ pc = "expanding" /\ Cardinality(batch) < Children
      /\ UNCHANGED <<frontier, current, history, survivors, stopped, pc>>
  BY DEF ExpandChild
<1>3. current \in Selected /\ current \in 1..Len(pool) /\ row \in Rows /\ DOMAIN pool = 1..Len(pool)
  BY <1>2, Typed DEF IInv, Placed
<1>4. row.depth + 1 \in Nat /\ row.midCritiqued \in BOOLEAN
  BY <1>3 DEF Rows
<1>5. row.critiques = IF row.midCritiqued THEN 1 ELSE 0
  BY <1>2, <1>3 DEF IInv, CritiquedOncePerStage
<1> HIDE DEF row
<1> QED
  BY <1>1, <1>2, <1>3, <1>4, <1>5, RegisterKeeps DEF row

-----------------------------------------------------------------------------
\* A pool whose branches are where they were, critiqued and solved as before.
Rewritten(q) ==
  /\ q \in Seq(Rows) /\ Len(q) = Len(pool) /\ DOMAIN q = 1..Len(pool)
  /\ \A i \in 1..Len(pool) : q[i].depth = pool[i].depth /\ q[i].parent = pool[i].parent
  /\ \A i \in 1..Len(pool) : q[i].critiques = IF q[i].midCritiqued THEN 1 ELSE 0
  /\ \A i \in solved : q[i].phase \in {"SOLVED", "PRUNED"}

\* Pruning some branches, or none, makes such a pool.
LEMMA PrunedRewritten ==
  ASSUME IInv, pc # "done", NEW S
  PROVE  Rewritten(MarkPruned(pool, S)) /\ Rewritten(pool)
<1>1. /\ TypeOK /\ pool \in Seq(Rows) /\ DOMAIN pool = 1..Len(pool) /\ solved \subseteq 1..Len(pool)
  BY Typed DEF IInv
<1>2. \A i \in 1..Len(pool) : pool[i].critiques = IF pool[i].midCritiqued THEN 1 ELSE 0
  BY <1>1 DEF IInv, CritiquedOncePerStage
<1>3. \A i \in solved : pool[i].phase \in {"SOLVED", "PRUNED"}
  BY DEF IInv, SolvedKept
<1>4. Rewritten(pool)
  BY <1>1, <1>2, <1>3 DEF Rewritten
<1> DEFINE q == MarkPruned(pool, S)
<1>5. /\ q \in Seq(Rows) /\ Len(q) = Len(pool) /\ DOMAIN q = 1..Len(pool)
      /\ \A i \in 1..Len(pool) :
           /\ q[i].phase = IF i \in S THEN "PRUNED" ELSE pool[i].phase
           /\ q[i].depth = pool[i].depth /\ q[i].parent = pool[i].parent
           /\ q[i].midCritiqued = pool[i].midCritiqued /\ q[i].critiques = pool[i].critiques
  BY <1>1, MarkPrunedRows
<1> HIDE DEF q
<1>6. Rewritten(q)
  BY <1>1, <1>2, <1>3, <1>5 DEF Rewritten
<1> QED
  BY <1>4, <1>6 DEF q

\* Every step that registers nothing and comes before the end: entries leave the
\* frontier, or come to it from the batch, and the pool is rewritten.
LEMMA MoveKeeps ==
  ASSUME IInv, pc # "done", pc' \in Places \ {"seeding", "done"},
         Rewritten(pool'), solved' = solved,
         frontier' \subseteq frontier \cup batch, batch' = {},
         \/ history' = history
         \/ \E i \in frontier : history' = Append(history, i) /\ i \notin frontier',
         Len(history') <= MaxNodes,
         \/ Cardinality(frontier') <= Width
         \/ Cardinality(frontier') + Len(history') <= Samples,
         current' \in 0..Len(pool), stopped' \in Stops,
         pc' \in {"expanding", "review"} => current' \in Selected',
         pc' = "expanding" => history' # history,
         survivors' \subseteq 1..Len(pool), pc' # "critique" => survivors' = {},
         pc' = "critique" => survivors' \subseteq Alive'
  PROVE  IInv'
<1> DEFINE n == Len(pool)
<1>1. /\ TypeOK /\ n \in Nat /\ DOMAIN pool = 1..n /\ Len(history) \in Nat
      /\ frontier \subseteq 1..n /\ batch \subseteq 1..n /\ solved \subseteq 1..n
      /\ history \in Seq(1..n) /\ Selected \subseteq 1..n
  BY Typed DEF IInv
<1>2. /\ pool' \in Seq(Rows) /\ Len(pool') = n /\ DOMAIN pool' = 1..n
      /\ \A i \in 1..n : pool'[i].depth = pool[i].depth /\ pool'[i].parent = pool[i].parent
      /\ \A i \in 1..n : pool'[i].critiques = IF pool'[i].midCritiqued THEN 1 ELSE 0
      /\ \A i \in solved : pool'[i].phase \in {"SOLVED", "PRUNED"}
  BY DEF Rewritten
<1>3. \/ history' = history /\ Selected' = Selected
      \/ \E i \in frontier : /\ history' = Append(history, i) /\ Selected' = Selected \cup {i}
                             /\ Len(history') = Len(history) + 1 /\ i \notin frontier'
  <2>1. CASE history' = history
    BY <2>1 DEF Selected
  <2>2. CASE \E i \in frontier : history' = Append(history, i) /\ i \notin frontier'
    BY <1>1, <2>2, SelectedGrows
  <2> QED
    BY <2>1, <2>2
<1>4. TypeOK'
  <2>1. history' \in Seq(1..n)
    <3>1. CASE history' = history
      BY <1>1, <3>1
    <3>2. ASSUME NEW i \in frontier, history' = Append(history, i)
          PROVE  history' \in Seq(1..n)
      <4>1. i \in 1..n /\ history \in Seq(1..n)
        BY <1>1
      <4> QED BY <3>2, <4>1, AppendProperties
    <3> QED BY <1>3, <3>1, <3>2
  <2>2. /\ frontier' \subseteq 1..n /\ batch' \subseteq 1..n
        /\ solved' \subseteq 1..n /\ survivors' \subseteq 1..n
    BY <1>1
  <2>3. current' \in 1..n \cup {0}
    OBVIOUS
  <2> QED
    BY <1>2, <2>1, <2>2, <2>3 DEF TypeOK, Rows, Stops, Places
<1>5. SelectedOnce'
  <2>1. /\ Cardinality(Selected) = Len(history) /\ Selected \cap frontier = {}
        /\ batch \cap (Selected \cup frontier) = {}
    BY DEF IInv, SelectedOnce, BatchFresh
  <2>2. CASE history' = history /\ Selected' = Selected
    BY <2>1, <2>2 DEF SelectedOnce
  <2>3. ASSUME NEW i \in frontier, Selected' = Selected \cup {i},
               Len(history') = Len(history) + 1, i \notin frontier'
        PROVE  SelectedOnce'
    <3>1. i \notin Selected
      BY <2>1
    <3>2. Cardinality(Selected') = Cardinality(Selected) + 1
      BY <1>1, <2>3, <3>1, FrontierFinite
    <3> QED
      BY <2>1, <2>3, <3>2 DEF SelectedOnce
  <2> QED
    BY <1>3, <2>2, <2>3
<1>6. ChildrenOfSelected'
  <2>1. ASSUME NEW i \in 1..n
        PROVE  IF pool'[i].parent = 0 THEN pool'[i].depth = 0
               ELSE /\ pool'[i].parent \in Selected' /\ pool'[i].parent < i
                    /\ pool'[i].depth = pool'[pool'[i].parent].depth + 1
    <3>1. /\ pool'[i].parent = pool[i].parent /\ pool'[i].depth = pool[i].depth
          /\ IF pool[i].parent = 0 THEN pool[i].depth = 0
             ELSE /\ pool[i].parent \in Selected /\ pool[i].parent < i
                  /\ pool[i].depth = pool[pool[i].parent].depth + 1
      BY <1>1, <1>2 DEF IInv, ChildrenOfSelected
    <3>2. pool[i].parent \in Selected =>
            /\ pool[i].parent \in Selected'
            /\ pool'[pool[i].parent].depth = pool[pool[i].parent].depth
      BY <1>1, <1>2, <1>3
    <3> QED
      BY <3>1, <3>2
  <2> QED
    BY <1>2, <2>1 DEF ChildrenOfSelected
<1>7. BatchFresh' /\ Placed'
  BY DEF BatchFresh, Placed
<1>8. CritiquedOncePerStage' /\ SolvedKept'
  BY <1>1, <1>2 DEF CritiquedOncePerStage, SolvedKept
<1>9. Budgeted'
  <2> DEFINE spent == Children * Len(history)
             after == Children * Len(history')
  <2>1. /\ spent \in Nat /\ after \in Nat /\ Samples \in Nat /\ Children \in Nat
        /\ after = spent \/ after = spent + Children
        /\ pc' = "expanding" => after = spent + Children
    <3>1. spent \in Nat /\ Samples \in Nat /\ Children \in Nat
          /\ Children * (Len(history) + 1) = spent + Children
      BY <1>1, Limits
    <3>2. \/ history' = history
          \/ Len(history') = Len(history) + 1
      BY <1>3
    <3>3. after = spent \/ after = spent + Children
      BY <3>1, <3>2
    <3>4. pc' = "expanding" => after = spent + Children
      BY <3>1, <3>2
    <3> QED
      BY <3>1, <3>3, <3>4
  <2>2. n <= Samples + spent /\ Cardinality({}) = 0
    BY FS_EmptySet DEF IInv, Budgeted, SearchBounded
  <2>3. Len(pool') = n /\ Cardinality(batch') = 0 /\ pc' # "seeding"
    BY <1>2, <2>2
  <2> HIDE DEF spent, after
  <2>4. /\ n <= Samples + after
        /\ pc' = "expanding" => n + Children <= Samples + after + 0
    BY <1>1, <2>1, <2>2
  <2> QED
    BY <2>1, <2>3, <2>4 DEF Budgeted, SearchBounded, after
<1> QED
  BY <1>4, <1>5, <1>6, <1>7, <1>8, <1>9 DEF IInv

\* Facts every step of the search may count on before it ends.
LEMMA Facts ==
  ASSUME IInv
  PROVE  /\ TypeOK /\ Len(pool) \in Nat /\ DOMAIN pool = 1..Len(pool) /\ Len(history) \in Nat
         /\ frontier \subseteq 1..Len(pool) /\ batch \subseteq 1..Len(pool)
         /\ current \in 0..Len(pool) /\ stopped \in Stops /\ pc \in Places
         /\ survivors \subseteq 1..Len(pool)
         /\ Len(history) <= MaxNodes
         /\ \/ Cardinality(frontier) <= Width
            \/ Cardinality(frontier) + Len(history) <= Samples
         /\ IsFiniteSet(frontier) /\ Cardinality(frontier) \in Nat
         /\ \A i \in frontier : Cardinality(frontier \ {i}) = Cardinality(frontier) - 1
         /\ \A G \in SUBSET frontier : Cardinality(G) \in Nat /\ Cardinality(G) <= Cardinality(frontier)
<1>1. TypeOK /\ SearchBounded
  BY DEF IInv, Budgeted
<1>2. frontier \subseteq 1..Len(pool) /\ Len(pool) \in Nat
  BY <1>1, Typed
<1> QED
  BY <1>1, <1>2, Typed, FrontierFinite DEF SearchBounded

\* The seeds are pushed, as many as there are samples at most.
LEMMA OpenFrontierKeeps == IInv /\ OpenFrontier => IInv'
<1> SUFFICES ASSUME IInv, OpenFrontier PROVE IInv'
  OBVIOUS
<1>1. /\ pc = "seeding" /\ frontier' \in Deduped(pool, batch) /\ batch' = {} /\ pc' = "loop"
      /\ UNCHANGED <<pool, current, history, solved, survivors, stopped>>
      /\ Len(pool) = Samples
  BY DEF OpenFrontier
<1>2. frontier' \subseteq batch
  BY <1>1, DedupedKeeps
<1>3. Cardinality(frontier') + Len(history) <= Samples
  <2>1. history = <<>> /\ Cardinality(batch) = Len(pool)
    BY <1>1 DEF IInv, Budgeted
  <2>2. Cardinality(frontier') <= Cardinality(batch) /\ Cardinality(frontier') \in Nat
    BY <1>2, Facts, FrontierFinite
  <2> QED
    BY <1>1, <2>1, <2>2, Facts
<1>4. survivors = {}
  BY <1>1 DEF IInv, Placed
<1>5. Rewritten(pool')
  BY <1>1, PrunedRewritten
<1>6. Len(history') <= MaxNodes /\ Cardinality(frontier') + Len(history') <= Samples
  BY <1>1, <1>3, Facts
<1> QED
  BY <1>1, <1>2, <1>4, <1>5, <1>6, Facts, MoveKeeps DEF Places

\* A dead entry leaves the frontier.
LEMMA SkipDeadKeeps == IInv /\ SkipDead => IInv'
<1> SUFFICES ASSUME IInv, SkipDead PROVE IInv'
  OBVIOUS
<1>1. PICK i \in frontier \ Alive : frontier' = frontier \ {i}
  BY DEF SkipDead
<1>2. /\ pc = "loop" /\ UNCHANGED <<pool, batch, current, history, solved, survivors, stopped, pc>>
  BY DEF SkipDead, InLoop
<1>3. batch = {} /\ survivors = {} /\ Rewritten(pool')
  BY <1>2, PrunedRewritten DEF IInv, Placed
<1>4. \/ Cardinality(frontier') <= Width
      \/ Cardinality(frontier') + Len(history') <= Samples
  BY <1>1, <1>2, Facts, Limits
<1> QED
  BY <1>1, <1>2, <1>3, <1>4, Facts, MoveKeeps DEF Places

\* A selection: the entry leaves the frontier for the history, and the branch is
\* expanded, pruned or the reason to stop.
LEMMA SelectKeeps ==
  ASSUME IInv, NEW i \in frontier, Select(i), NEW S,
         pool' = pool \/ pool' = MarkPruned(pool, S),
         UNCHANGED <<batch, solved, survivors>>, stopped' \in Stops,
         \/ pc' \in {"loop", "closing"} /\ current' = current
         \/ pc' = "expanding" /\ current' = i
  PROVE  IInv'
<1>1. /\ pc = "loop" /\ Len(history) < MaxNodes /\ frontier' = frontier \ {i}
      /\ history' = Append(history, i)
  BY DEF Select, InLoop
<1>2. batch = {} /\ survivors = {} /\ Rewritten(pool')
  BY <1>1, PrunedRewritten DEF IInv, Placed
<1>3. i \in 1..Len(pool) /\ Selected' = Selected \cup {i} /\ Len(history') = Len(history) + 1
  BY <1>1, Facts, SelectedGrows
<1>4. /\ Len(history') <= MaxNodes /\ history' # history
      /\ \/ Cardinality(frontier') <= Width
         \/ Cardinality(frontier') + Len(history') <= Samples
  BY <1>1, <1>3, Facts, Limits, SMTT(20)
<1>5. current' \in 0..Len(pool) /\ (pc' \in {"expanding", "review"} => current' \in Selected')
  BY <1>3, Facts
<1> QED
  BY <1>1, <1>2, <1>4, <1>5, Facts, MoveKeeps DEF Places

LEMMA StopEarlyKeeps == IInv /\ StopEarly => IInv'
  BY SelectKeeps DEF StopEarly, Stops

LEMMA PruneDeepKeeps == IInv /\ PruneDeep => IInv'
<1> SUFFICES ASSUME IInv, PruneDeep PROVE IInv'
  OBVIOUS
<1>1. PICK i \in frontier : Select(i) /\ pool' = MarkPruned(pool, {i})
  BY DEF PruneDeep
<1>2. pc' = "loop"
  BY <1>1 DEF PruneDeep, Select, InLoop
<1> QED
  BY <1>1, <1>2, Facts, SelectKeeps DEF PruneDeep

LEMMA StartExpansionKeeps == IInv /\ StartExpansion => IInv'
<1> SUFFICES ASSUME IInv, StartExpansion PROVE IInv'
  OBVIOUS
<1>1. PICK i \in frontier : Select(i) /\ current' = i
  BY DEF StartExpansion
<1> QED
  BY <1>1, Facts, SelectKeeps DEF StartExpansion

\* The children are pushed, and the frontier is pruned to its width.
LEMMA PushChildrenKeeps == IInv /\ PushChildren => IInv'
<1> SUFFICES ASSUME IInv, PushChildren PROVE IInv'
  OBVIOUS
<1>1. PICK kids \in Deduped(pool, batch) : \E kept \in Narrowed(frontier \cup kids) :
        frontier' = kept /\ pool' = MarkPruned(pool, (frontier \cup kids) \ kept)
  BY DEF PushChildren
<1>2. PICK kept \in Narrowed(frontier \cup kids) :
        frontier' = kept /\ pool' = MarkPruned(pool, (frontier \cup kids) \ kept)
  BY <1>1
<1>3. /\ pc = "expanding" /\ batch' = {} /\ pc' = "review"
      /\ UNCHANGED <<current, history, solved, survivors, stopped>>
  BY DEF PushChildren
<1>4. frontier' \subseteq frontier \cup batch /\ Cardinality(frontier') <= Width
  <2>1. kids \subseteq batch /\ frontier \cup kids \subseteq 1..Len(pool)
    BY DedupedKeeps, Facts
  <2> QED
    BY <1>2, <2>1, Facts, NarrowedKeeps
<1>5. survivors = {} /\ current \in Selected /\ Selected' = Selected /\ Rewritten(pool')
  BY <1>2, <1>3, PrunedRewritten DEF IInv, Placed, Selected
<1> QED
  BY <1>3, <1>4, <1>5, Facts, MoveKeeps DEF Places

\* Nothing is reviewed.
LEMMA SkipReviewKeeps == IInv /\ SkipReview => IInv'
<1> SUFFICES ASSUME IInv, SkipReview PROVE IInv'
  OBVIOUS
<1>1. /\ pc = "review" /\ pc' = "loop" /\ current' = 0
      /\ UNCHANGED <<pool, frontier, batch, history, solved, survivors, stopped>>
  BY DEF SkipReview
<1>2. batch = {} /\ survivors = {} /\ Rewritten(pool')
  BY <1>1, PrunedRewritten DEF IInv, Placed
<1> QED
  BY <1>1, <1>2, Facts, MoveKeeps DEF Places

\* Critiquing branches that are neither dead nor solved nor critiqued before.
LEMMA ReviewRewritten ==
  ASSUME IInv, pc = "review", NEW chosen, NEW answers,
         chosen \subseteq MidSearchEntries, answers \in CritiqueAnswers(chosen), NEW S
  PROVE  /\ Rewritten(MarkPruned(Critiqued(pool, chosen, answers, TRUE), S))
         /\ chosen \cap solved = {} /\ chosen \subseteq 1..Len(pool)
<1> DEFINE n == Len(pool)
           p == Critiqued(pool, chosen, answers, TRUE)
           q == MarkPruned(p, S)
<1>1. /\ TypeOK /\ pool \in Seq(Rows) /\ n \in Nat /\ DOMAIN pool = 1..n
      /\ solved \subseteq 1..n /\ Selected \subseteq 1..n /\ frontier \subseteq 1..n
      /\ \A i \in 1..n : pool[i] \in Rows
  BY Typed DEF IInv
<1>2. /\ chosen \subseteq 1..n
      /\ \A i \in chosen : /\ pool[i].phase \notin {"FAILED", "PRUNED", "SOLVED"}
                           /\ ~pool[i].midCritiqued
  <2>1. current \in Selected
    BY DEF IInv, Placed
  <2> QED
    BY <1>1, <2>1 DEF MidSearchEntries, Dead
<1>3. /\ \A i \in 1..n : pool[i].critiques = IF pool[i].midCritiqued THEN 1 ELSE 0
      /\ \A i \in solved : pool[i].phase \in {"SOLVED", "PRUNED"}
  BY <1>1, PrunedRewritten DEF Rewritten
<1>4. chosen \cap solved = {}
  BY <1>2, <1>3
<1>5. /\ p \in Seq(Rows) /\ Len(p) = n /\ DOMAIN p = 1..n
      /\ \A i \in 1..n : p[i].depth = pool[i].depth /\ p[i].parent = pool[i].parent
      /\ \A i \in 1..n \ chosen : p[i] = pool[i]
      /\ \A i \in chosen : /\ p[i].phase = "CRITIQUED" /\ p[i].critiques = pool[i].critiques + 1
                           /\ p[i].midCritiqued = TRUE
  <2>1. /\ p \in Seq(Rows) /\ Len(p) = n /\ DOMAIN p = 1..n
        /\ \A i \in 1..n : p[i].depth = pool[i].depth /\ p[i].parent = pool[i].parent
        /\ \A i \in 1..n \ chosen : p[i] = pool[i]
        /\ \A i \in chosen : p[i].phase = "CRITIQUED" /\ p[i].critiques = pool[i].critiques + 1
    <3>1. answers \in [chosen -> Answers \cup {NoAnswer}] /\ chosen \in SUBSET (1..n)
      BY <1>2 DEF CritiqueAnswers
    <3>2. p \in {Critiqued(pool, chosen, answers, TRUE), Critiqued(pool, chosen, answers, FALSE)}
      OBVIOUS
    <3> HIDE DEF p
    <3>3. OnlyCritiqued(pool, chosen, p)
      BY <1>1, <3>1, <3>2, CritiquedRows
    <3> QED
      BY <1>2, <3>3 DEF OnlyCritiqued
  <2>2. \A i \in chosen : p[i].midCritiqued = TRUE
    BY <1>1, <1>2, CritiquedFlags
  <2> QED
    BY <2>1, <2>2
<1> HIDE DEF p
<1>6. /\ q \in Seq(Rows) /\ Len(q) = n /\ DOMAIN q = 1..n
      /\ \A i \in 1..n :
           /\ q[i].phase = IF i \in S THEN "PRUNED" ELSE p[i].phase
           /\ q[i].depth = p[i].depth /\ q[i].parent = p[i].parent
           /\ q[i].midCritiqued = p[i].midCritiqued /\ q[i].critiques = p[i].critiques
  BY <1>5, MarkPrunedRows
<1> HIDE DEF q
<1>7. \A i \in 1..n : q[i].critiques = IF q[i].midCritiqued THEN 1 ELSE 0
  <2>1. ASSUME NEW i \in chosen
        PROVE  q[i].critiques = IF q[i].midCritiqued THEN 1 ELSE 0
    <3>1. pool[i].critiques = 0
      BY <1>2, <1>3
    <3>2. q[i].critiques = 1
      BY <1>2, <1>5, <1>6, <3>1
    <3>3. q[i].midCritiqued
      BY <1>2, <1>5, <1>6, Zenon
    <3> QED
      BY <3>2, <3>3
  <2>2. ASSUME NEW i \in 1..n \ chosen
        PROVE  q[i].critiques = IF q[i].midCritiqued THEN 1 ELSE 0
    BY <1>3, <1>5, <1>6
  <2> QED
    BY <1>2, <2>1, <2>2
<1>8. \A i \in solved : q[i].phase \in {"SOLVED", "PRUNED"}
  BY <1>1, <1>3, <1>4, <1>5, <1>6
<1>9. \A i \in 1..n : q[i].depth = pool[i].depth /\ q[i].parent = pool[i].parent
  BY <1>5, <1>6
<1>10. Rewritten(q)
  BY <1>6, <1>7, <1>8, <1>9 DEF Rewritten
<1> QED
  BY <1>2, <1>4, <1>10 DEF p, q

\* The critique inside the search.
LEMMA MidSearchCritiqueKeeps == IInv /\ MidSearchCritique => IInv'
<1> SUFFICES ASSUME IInv, MidSearchCritique PROVE IInv'
  OBVIOUS
<1>1. /\ pc = "review" /\ pc' = "loop" /\ current' = 0
      /\ UNCHANGED <<batch, history, solved, survivors, stopped>>
  BY DEF MidSearchCritique
<1>2. PICK chosen \in SUBSET MidSearchEntries \ {{}} :
        \E f \in CritiqueAnswers(chosen) :
            LET reviewed == Critiqued(pool, chosen, f, TRUE)
            IN  \E fresh \in Deduped(reviewed, frontier) :
                  \E kept \in Narrowed(fresh) :
                    /\ frontier' = kept
                    /\ pool' = MarkPruned(reviewed, fresh \ kept)
  BY DEF MidSearchCritique
<1>a. PICK f \in CritiqueAnswers(chosen) :
        \E fresh \in Deduped(Critiqued(pool, chosen, f, TRUE), frontier) :
          \E kept \in Narrowed(fresh) :
           /\ frontier' = kept
           /\ pool' = MarkPruned(Critiqued(pool, chosen, f, TRUE), fresh \ kept)
  BY <1>2
<1>3. PICK fresh \in Deduped(Critiqued(pool, chosen, f, TRUE), frontier) :
        \E kept \in Narrowed(fresh) :
           /\ frontier' = kept
           /\ pool' = MarkPruned(Critiqued(pool, chosen, f, TRUE), fresh \ kept)
  BY <1>a
<1>4. PICK kept \in Narrowed(fresh) :
           /\ frontier' = kept
           /\ pool' = MarkPruned(Critiqued(pool, chosen, f, TRUE), fresh \ kept)
  BY <1>3
<1>6. Rewritten(pool')
  BY <1>1, <1>2, <1>4, ReviewRewritten
<1>7. frontier' \subseteq frontier \cup batch /\ Cardinality(frontier') <= Width
  <2>1. fresh \subseteq frontier
    BY DEF Deduped
  <2>2. fresh \subseteq 1..Len(pool)
    BY <2>1, Facts
  <2> QED
    BY <1>4, <2>1, <2>2, Facts, NarrowedKeeps
<1>8. batch = {} /\ survivors = {}
  BY <1>1 DEF IInv, Placed
<1> QED
  BY <1>1, <1>6, <1>7, <1>8, Facts, MoveKeeps DEF Places

\* The loop is left.
LEMMA LeaveLoopKeeps == IInv /\ LeaveLoop => IInv'
<1> SUFFICES ASSUME IInv, LeaveLoop PROVE IInv'
  OBVIOUS
<1>1. /\ pc = "loop" /\ pc' = "closing" /\ stopped' \in Stops
      /\ UNCHANGED <<pool, frontier, batch, current, history, solved, survivors>>
  BY DEF LeaveLoop, Stops
<1>2. batch = {} /\ survivors = {} /\ Rewritten(pool')
  BY <1>1, PrunedRewritten DEF IInv, Placed
<1> QED
  BY <1>1, <1>2, Facts, MoveKeeps DEF Places

\* The survivors are picked among the living.
LEMMA SelectSurvivorsKeeps == IInv /\ SelectSurvivors => IInv'
<1> SUFFICES ASSUME IInv, SelectSurvivors PROVE IInv'
  OBVIOUS
<1>1. /\ pc = "closing" /\ pc' = "critique" /\ survivors' \subseteq Alive
      /\ UNCHANGED <<pool, frontier, batch, current, history, solved, stopped>>
  BY DEF SelectSurvivors, kSubset
<1>2. batch = {} /\ Rewritten(pool') /\ Alive' = Alive
  BY <1>1, PrunedRewritten DEF IInv, Placed, Alive
<1>3. Alive \subseteq 1..Len(pool)
  BY Facts DEF Alive
<1> QED
  BY <1>1, <1>2, <1>3, Facts, MoveKeeps DEF Places

\* The survivors are critiqued, and the search is over.
LEMMA CritiqueSurvivorsKeeps == IInv /\ CritiqueSurvivors => IInv'
<1> SUFFICES ASSUME IInv, CritiqueSurvivors PROVE IInv'
  OBVIOUS
<1> DEFINE n == Len(pool)
<1>1. /\ pc = "critique" /\ pc' = "done"
      /\ UNCHANGED <<frontier, batch, current, history, solved, survivors, stopped>>
  BY DEF CritiqueSurvivors
<1>a. PICK chosen \in SUBSET survivors :
        \E f \in CritiqueAnswers(chosen) : pool' = Critiqued(pool, chosen, f, FALSE)
  BY DEF CritiqueSurvivors
<1>2. PICK f \in CritiqueAnswers(chosen) : pool' = Critiqued(pool, chosen, f, FALSE)
  BY <1>a
<1>3. /\ TypeOK /\ pool \in Seq(Rows) /\ n \in Nat /\ DOMAIN pool = 1..n
      /\ chosen \subseteq 1..n /\ \A i \in 1..n : pool[i] \in Rows
  BY Typed DEF IInv
<1>5. /\ pool' \in Seq(Rows) /\ Len(pool') = n /\ DOMAIN pool' = 1..n
      /\ \A i \in 1..n : pool'[i].depth = pool[i].depth /\ pool'[i].parent = pool[i].parent
      /\ \A i \in 1..n \ chosen : pool'[i] = pool[i]
      /\ \A i \in chosen : /\ pool'[i].critiques = pool[i].critiques + 1
                           /\ pool'[i].midCritiqued = pool[i].midCritiqued
  <2>1. /\ pool' \in Seq(Rows) /\ Len(pool') = n /\ DOMAIN pool' = 1..n
        /\ \A i \in 1..n : pool'[i].depth = pool[i].depth /\ pool'[i].parent = pool[i].parent
        /\ \A i \in 1..n \ chosen : pool'[i] = pool[i]
        /\ \A i \in chosen : pool'[i].critiques = pool[i].critiques + 1
    <3>1. f \in [chosen -> Answers \cup {NoAnswer}] /\ chosen \in SUBSET (1..n)
      BY <1>3 DEF CritiqueAnswers
    <3>2. pool' \in {Critiqued(pool, chosen, f, TRUE), Critiqued(pool, chosen, f, FALSE)}
      BY <1>2
    <3>3. OnlyCritiqued(pool, chosen, pool')
      BY <1>3, <3>1, <3>2, CritiquedRows
    <3> QED
      BY <1>3, <3>3 DEF OnlyCritiqued
  <2>2. \A i \in chosen : pool'[i].midCritiqued = pool[i].midCritiqued
    BY <1>2, <1>3, CritiquedFlags
  <2> QED
    BY <2>1, <2>2
<1>6. Selected' = Selected
  BY <1>1 DEF Selected
<1>7. TypeOK'
  <2>1. /\ history \in Seq(1..n) /\ frontier \subseteq 1..n /\ batch \subseteq 1..n
        /\ solved \subseteq 1..n /\ survivors \subseteq 1..n /\ current \in 0..n
        /\ stopped \in Stops
    BY <1>3, Typed
  <2>2. current \in 1..n \cup {0}
    BY <1>3, <2>1
  <2> QED
    BY <1>1, <1>5, <2>1, <2>2 DEF TypeOK, Rows, Stops
<1>8. SelectedOnce' /\ BatchFresh'
  BY <1>1, <1>6 DEF IInv, SelectedOnce, BatchFresh
<1>9. ChildrenOfSelected'
  <2>1. ASSUME NEW i \in 1..n
        PROVE  IF pool'[i].parent = 0 THEN pool'[i].depth = 0
               ELSE /\ pool'[i].parent \in Selected' /\ pool'[i].parent < i
                    /\ pool'[i].depth = pool'[pool'[i].parent].depth + 1
    <3>1. /\ pool'[i].parent = pool[i].parent /\ pool'[i].depth = pool[i].depth
          /\ IF pool[i].parent = 0 THEN pool[i].depth = 0
             ELSE /\ pool[i].parent \in Selected /\ pool[i].parent < i
                  /\ pool[i].depth = pool[pool[i].parent].depth + 1
      BY <1>3, <1>5 DEF IInv, ChildrenOfSelected
    <3>2. pool[i].parent \in Selected =>
            pool'[pool[i].parent].depth = pool[pool[i].parent].depth
      BY <1>3, <1>5, Typed
    <3> QED
      BY <1>6, <3>1, <3>2
  <2> QED
    BY <1>5, <2>1 DEF ChildrenOfSelected
<1>10. CritiquedOncePerStage'
  <2> DEFINE Mid(p, i) == IF p[i].midCritiqued THEN 1 ELSE 0
  <2>1. \A i \in 1..n : pool[i].critiques = Mid(pool, i)
    BY <1>1, PrunedRewritten DEF Rewritten
  <2>2. \A i \in 1..n : Mid(pool', i) = Mid(pool, i)
    <3>1. \A i \in 1..n : pool[i].midCritiqued \in BOOLEAN
      BY <1>3 DEF Rows
    <3>2. \A i \in 1..n : pool'[i].midCritiqued = pool[i].midCritiqued
      BY <1>5, <3>1, Zenon
    <3> QED
      BY <3>2
  <2>3. \A i \in 1..n \ chosen : pool'[i].critiques = Mid(pool', i)
    BY <1>5, <2>1, <2>2
  <2>4. \A i \in chosen : pool'[i].critiques = Mid(pool', i) + 1 /\ i \in survivors'
    BY <1>1, <1>3, <1>5, <2>1, <2>2
  <2> HIDE DEF Mid
  <2>5. \A i \in 1..n :
          pool'[i].critiques \in IF pc' = "done" /\ i \in survivors'
                                 THEN {Mid(pool', i), Mid(pool', i) + 1} ELSE {Mid(pool', i)}
    BY <1>1, <2>3, <2>4
  <2> QED
    BY <1>5, <2>5 DEF CritiquedOncePerStage, Mid
<1>11. SolvedKept' /\ Placed'
  BY <1>1, <1>6 DEF SolvedKept, Placed, IInv
<1>12. Budgeted'
  BY <1>1, <1>5 DEF IInv, Budgeted, SearchBounded
<1> QED
  BY <1>7, <1>8, <1>9, <1>10, <1>11, <1>12 DEF IInv

-----------------------------------------------------------------------------
\* Every step keeps the invariant.
LEMMA NextIInv == IInv /\ [Next]_vars => IInv'
<1> SUFFICES ASSUME IInv, [Next]_vars PROVE IInv'
  OBVIOUS
<1>1. CASE Next
  <2>1. CASE SeedAttempt \/ OpenFrontier
    BY <2>1, SeedAttemptKeeps, OpenFrontierKeeps
  <2>2. CASE SkipDead \/ StopEarly \/ PruneDeep
    BY <2>2, SkipDeadKeeps, StopEarlyKeeps, PruneDeepKeeps
  <2>3. CASE StartExpansion \/ ExpandChild \/ PushChildren
    BY <2>3, StartExpansionKeeps, ExpandChildKeeps, PushChildrenKeeps
  <2>4. CASE SkipReview \/ MidSearchCritique
    BY <2>4, SkipReviewKeeps, MidSearchCritiqueKeeps
  <2>5. CASE LeaveLoop \/ SelectSurvivors \/ CritiqueSurvivors
    BY <2>5, LeaveLoopKeeps, SelectSurvivorsKeeps, CritiqueSurvivorsKeeps
  <2> QED
    BY <1>1, <2>1, <2>2, <2>3, <2>4, <2>5 DEF Next
<1>2. CASE UNCHANGED vars
  <2>1. Selected' = Selected /\ Alive' = Alive
    BY <1>2 DEF vars, Selected, Alive
  <2>2. TypeOK' /\ SelectedOnce' /\ BatchFresh' /\ Budgeted'
    BY <1>2, <2>1 DEF vars, IInv, TypeOK, SelectedOnce, BatchFresh, Budgeted, SearchBounded
  <2>3. ChildrenOfSelected'
    BY <1>2, <2>1 DEF vars, IInv, ChildrenOfSelected
  <2>4. CritiquedOncePerStage'
    BY <1>2 DEF vars, IInv, CritiquedOncePerStage
  <2>5. SolvedKept' /\ Placed'
    BY <1>2, <2>1 DEF vars, IInv, SolvedKept, Placed
  <2> QED
    BY <2>2, <2>3, <2>4, <2>5 DEF IInv
<1> QED
  BY <1>1, <1>2

THEOREM SpecIInv == Spec => []IInv
  BY InitIInv, NextIInv, PTL DEF Spec

\* Whatever the scores, the search grows a tree: each branch is registered under
\* a branch selected before it, and none is selected twice or comes back.
THEOREM SpecGrowsTree == Spec => []GrowsTree
<1>1. IInv => GrowsTree
  BY DEF IInv, GrowsTree
<1> QED
  BY <1>1, SpecIInv, PTL

\* No branch is critiqued twice in the search, or twice at the end.
THEOREM SpecCritiquedOncePerStage == Spec => []CritiquedOncePerStage
<1>1. IInv => CritiquedOncePerStage
  BY DEF IInv
<1> QED
  BY <1>1, SpecIInv, PTL

\* The selections, the attempts and the frontier stay within their limits.
THEOREM SpecSearchBounded == Spec => []SearchBounded
<1>1. IInv => SearchBounded
  BY DEF IInv, Budgeted
<1> QED
  BY <1>1, SpecIInv, PTL

-----------------------------------------------------------------------------
\* Pruning and critiques inside the search leave the operator of a branch, and
\* pruning its answer.
LEMMA KeysKept ==
  ASSUME NEW p \in Seq(Rows), NEW S, NEW i \in 1..Len(p)
  PROVE  Key(MarkPruned(p, S), i) = Key(p, i)
BY MarkPrunedRows DEF Key

\* A frontier is narrowed to part of it, the rest is pruned.
LEMMA PrunedAreDead ==
  ASSUME NEW p \in Seq(Rows), NEW S, NEW i \in S, i \in 1..Len(p)
  PROVE  MarkPruned(p, S)[i].phase \in Dead
BY MarkPrunedRows DEF Dead

\* What an entry may be that leaves the frontier or the batch.
Accounted(i) ==
  \/ i \in Selected'
  \/ i \notin Alive'
  \/ \E j \in (frontier \cup batch) \ {i} : Key(pool', j) = Key(pool', i)

\* The children, and the entries beyond the width.
LEMMA PushChildrenAccounts ==
  ASSUME IInv, PushChildren,
         NEW i \in (frontier \cup batch) \ (frontier' \cup batch')
  PROVE  Accounted(i)
<1>1. PICK kids \in Deduped(pool, batch) : \E kept \in Narrowed(frontier \cup kids) :
        frontier' = kept /\ pool' = MarkPruned(pool, (frontier \cup kids) \ kept)
  BY DEF PushChildren
<1>2. PICK kept \in Narrowed(frontier \cup kids) :
        frontier' = kept /\ pool' = MarkPruned(pool, (frontier \cup kids) \ kept)
  BY <1>1
<1>3. /\ pool \in Seq(Rows) /\ DOMAIN pool = 1..Len(pool)
      /\ frontier \subseteq 1..Len(pool) /\ batch \subseteq 1..Len(pool)
  BY Typed DEF IInv
<1>4. CASE i \in frontier \cup kids
  <2>1. pool'[i].phase \in Dead
    BY <1>2, <1>3, <1>4, PrunedAreDead
  <2> QED
    BY <2>1 DEF Accounted, Alive
<1>5. CASE i \in batch \ kids
  <2>1. PICK j \in batch \ {i} : Key(pool, j) = Key(pool, i)
    BY <1>1, <1>5, DedupedKeeps
  <2>2. Key(pool', j) = Key(pool, j) /\ Key(pool', i) = Key(pool, i)
    BY <1>2, <1>3, <1>5, KeysKept
  <2>3. j \in (frontier \cup batch) \ {i} /\ Key(pool', j) = Key(pool', i)
    BY <2>1, <2>2
  <2> QED
    BY <2>3 DEF Accounted
<1> QED
  BY <1>4, <1>5

\* The duplicates under the answers the critic left, and the entries beyond the width.
LEMMA MidSearchCritiqueAccounts ==
  ASSUME IInv, MidSearchCritique,
         NEW i \in (frontier \cup batch) \ (frontier' \cup batch')
  PROVE  Accounted(i)
<1>1. PICK chosen \in SUBSET MidSearchEntries \ {{}} :
        \E f \in CritiqueAnswers(chosen) :
            LET reviewed == Critiqued(pool, chosen, f, TRUE)
            IN  \E fresh \in Deduped(reviewed, frontier) :
                  \E kept \in Narrowed(fresh) :
                    /\ frontier' = kept
                    /\ pool' = MarkPruned(reviewed, fresh \ kept)
  BY DEF MidSearchCritique
<1>2. PICK f \in CritiqueAnswers(chosen) :
        \E fresh \in Deduped(Critiqued(pool, chosen, f, TRUE), frontier) :
          \E kept \in Narrowed(fresh) :
           /\ frontier' = kept
           /\ pool' = MarkPruned(Critiqued(pool, chosen, f, TRUE), fresh \ kept)
  BY <1>1
<1> DEFINE p == Critiqued(pool, chosen, f, TRUE)
<1>3. PICK fresh \in Deduped(p, frontier) :
        \E kept \in Narrowed(fresh) : frontier' = kept /\ pool' = MarkPruned(p, fresh \ kept)
  BY <1>2
<1>4. PICK kept \in Narrowed(fresh) : frontier' = kept /\ pool' = MarkPruned(p, fresh \ kept)
  BY <1>3
<1>5. pc = "review" /\ batch = {} /\ frontier \subseteq 1..Len(pool)
  BY Facts DEF MidSearchCritique, IInv, Placed
<1>6. p \in Seq(Rows) /\ Len(p) = Len(pool)
  <2>1. chosen \subseteq 1..Len(pool) /\ pool \in Seq(Rows)
    BY <1>5, ReviewRewritten, Typed DEF IInv
  <2>2. f \in [chosen -> Answers \cup {NoAnswer}]
    BY DEF CritiqueAnswers
  <2>3. OnlyCritiqued(pool, chosen, p)
    BY <2>1, <2>2, CritiquedRows
  <2> QED
    BY <2>3 DEF OnlyCritiqued
<1> HIDE DEF p
<1>7. CASE i \in fresh
  <2>1. pool'[i].phase \in Dead
    BY <1>4, <1>5, <1>6, <1>7, PrunedAreDead
  <2> QED
    BY <2>1 DEF Accounted, Alive
<1>8. CASE i \notin fresh
  <2>0. fresh \in Deduped(p, frontier) /\ i \in frontier \ fresh
    BY <1>3, <1>5, <1>8
  <2>1. PICK j \in frontier \ {i} : Key(p, j) = Key(p, i)
    BY <2>0, DedupedKeeps
  <2>2. Key(pool', j) = Key(p, j) /\ Key(pool', i) = Key(p, i)
    BY <1>4, <1>5, <1>6, KeysKept
  <2>3. j \in (frontier \cup batch) \ {i} /\ Key(pool', j) = Key(pool', i)
    BY <2>1, <2>2
  <2> QED
    BY <2>3 DEF Accounted
<1> QED
  BY <1>7, <1>8

\* A selected entry is in the history.
LEMMA SelectAccounts ==
  ASSUME IInv, NEW k \in frontier, Select(k), batch' = batch,
         NEW i \in (frontier \cup batch) \ (frontier' \cup batch')
  PROVE  Accounted(i)
<1>1. frontier' = frontier \ {k} /\ history' = Append(history, k) /\ k \in 1..Len(pool)
  BY Facts DEF Select
<1>2. i = k /\ Selected' = Selected \cup {k}
  BY <1>1, Facts, SelectedGrows
<1> QED
  BY <1>2 DEF Accounted

\* Every step accounts for the entries that leave.
LEMMA NextAccounts ==
  ASSUME IInv, [Next]_vars, NEW i \in (frontier \cup batch) \ (frontier' \cup batch')
  PROVE  Accounted(i)
<1>1. CASE SeedAttempt \/ ExpandChild
  <2>1. frontier' = frontier /\ batch \subseteq batch'
    BY <1>1 DEF SeedAttempt, ExpandChild, Register
  <2> QED
    BY <2>1
<1>2. CASE OpenFrontier
  <2>1. /\ pc = "seeding" /\ frontier' \in Deduped(pool, batch) /\ pool' = pool
    BY <1>2 DEF OpenFrontier
  <2>2. frontier = {}
    BY <2>1 DEF IInv, Budgeted
  <2>3. PICK j \in batch \ {i} : Key(pool, j) = Key(pool, i)
    BY <2>1, <2>2, DedupedKeeps
  <2> QED
    BY <2>1, <2>3 DEF Accounted
<1>3. CASE SkipDead
  <2>1. batch' = batch /\ pool' = pool /\ \E k \in frontier \ Alive : frontier' = frontier \ {k}
    BY <1>3 DEF SkipDead
  <2>2. i \notin Alive'
    BY <2>1 DEF Alive
  <2> QED
    BY <2>2 DEF Accounted
<1>4. CASE StopEarly \/ PruneDeep \/ StartExpansion
  BY <1>4, SelectAccounts DEF StopEarly, PruneDeep, StartExpansion
<1>5. CASE PushChildren
  BY <1>5, PushChildrenAccounts
<1>6. CASE MidSearchCritique
  BY <1>6, MidSearchCritiqueAccounts
<1>7. CASE SkipReview \/ LeaveLoop \/ SelectSurvivors \/ CritiqueSurvivors \/ UNCHANGED vars
  BY <1>7 DEF SkipReview, LeaveLoop, SelectSurvivors, CritiqueSurvivors, vars
<1> QED
  BY <1>1, <1>2, <1>3, <1>4, <1>5, <1>6, <1>7 DEF Next

\* No entry is lost: it leaves the frontier or the batch only when it was
\* selected, is dead, or has a duplicate there.
THEOREM SpecNoEntryLost == Spec => NoEntryLost
<1>1. IInv /\ [Next]_vars =>
        [\A i \in (frontier \cup batch) \ (frontier' \cup batch') :
           \/ i \in Selected'
           \/ i \notin Alive'
           \/ \E j \in (frontier \cup batch) \ {i} : Key(pool', j) = Key(pool', i)]_vars
  BY NextAccounts DEF Accounted
<1> QED
  BY <1>1, SpecIInv, PTL DEF Spec, NoEntryLost

-----------------------------------------------------------------------------
\* A step before the survivors are critiqued keeps the branches, the answers of
\* the solved and the dead ones dead.
OnlyGrown ==
  /\ DOMAIN pool \subseteq DOMAIN pool'
  /\ \A i \in solved : pool'[i].answer = pool[i].answer
  /\ \A i \in DOMAIN pool : pool[i].phase \in Dead => pool'[i].phase \in Dead

LEMMA PrunedGrown ==
  ASSUME IInv, NEW S, pool' = pool \/ pool' = MarkPruned(pool, S)
  PROVE  OnlyGrown /\ DOMAIN pool' = DOMAIN pool
<1>1. /\ pool \in Seq(Rows) /\ DOMAIN pool = 1..Len(pool) /\ solved \subseteq 1..Len(pool)
  BY Typed DEF IInv
<1>2. CASE pool' = pool
  BY <1>2 DEF OnlyGrown
<1>3. CASE pool' = MarkPruned(pool, S)
  <2>1. /\ DOMAIN pool' = 1..Len(pool)
        /\ \A i \in 1..Len(pool) : /\ pool'[i].phase = IF i \in S THEN "PRUNED" ELSE pool[i].phase
                                   /\ pool'[i].answer = pool[i].answer
    BY <1>1, <1>3, MarkPrunedRows
  <2> QED
    BY <1>1, <2>1 DEF OnlyGrown, Dead
<1> QED
  BY <1>2, <1>3

LEMMA RegisterGrown ==
  ASSUME IInv, NEW parent \in Nat, NEW op \in Operators, NEW depth \in Nat,
         NEW flag \in BOOLEAN, NEW critiques \in Nat,
         Register(parent, op, depth, flag, critiques)
  PROVE  OnlyGrown
<1>1. PICK o \in Outcomes :
        pool' = Append(pool, [phase |-> o.phase, answer |-> o.answer, op |-> op,
                              depth |-> depth, parent |-> parent, midCritiqued |-> flag,
                              critiques |-> critiques])
  BY DEF Register
<1> DEFINE row == [phase |-> o.phase, answer |-> o.answer, op |-> op,
                   depth |-> depth, parent |-> parent, midCritiqued |-> flag,
                   critiques |-> critiques]
<1>2. /\ pool \in Seq(Rows) /\ DOMAIN pool = 1..Len(pool) /\ solved \subseteq 1..Len(pool)
      /\ Len(pool) \in Nat
  BY Typed DEF IInv
<1>3. row \in Rows
  <2>1. o.phase \in BranchPhases /\ o.answer \in Answers \cup {NoAnswer}
    BY DEF BranchPhases, Dead, Outcomes
  <2> QED
    BY <2>1 DEF Rows
<1> HIDE DEF row
<1>4. /\ DOMAIN pool' = 1..(Len(pool) + 1)
      /\ \A i \in 1..Len(pool) : pool'[i] = pool[i]
  BY <1>1, <1>2, <1>3, AppendedRows DEF row
<1>5. DOMAIN pool \subseteq DOMAIN pool'
  BY <1>2, <1>4
<1>6. \A i \in DOMAIN pool : pool'[i] = pool[i]
  BY <1>2, <1>4
<1> QED
  BY <1>2, <1>5, <1>6 DEF OnlyGrown

LEMMA MidSearchCritiqueGrown == IInv /\ MidSearchCritique => OnlyGrown
<1> SUFFICES ASSUME IInv, MidSearchCritique PROVE OnlyGrown
  OBVIOUS
<1>1. PICK chosen \in SUBSET MidSearchEntries \ {{}} :
        \E f \in CritiqueAnswers(chosen) : \E S :
          pool' = MarkPruned(Critiqued(pool, chosen, f, TRUE), S)
  BY DEF MidSearchCritique
<1>2. PICK f \in CritiqueAnswers(chosen) : \E S :
        pool' = MarkPruned(Critiqued(pool, chosen, f, TRUE), S)
  BY <1>1
<1> DEFINE p == Critiqued(pool, chosen, f, TRUE)
<1>3. PICK S : pool' = MarkPruned(p, S)
  BY <1>2
<1>4. /\ chosen \subseteq 1..Len(pool) /\ chosen \cap solved = {}
      /\ pool \in Seq(Rows) /\ DOMAIN pool = 1..Len(pool) /\ solved \subseteq 1..Len(pool)
      /\ \A i \in chosen : pool[i].phase \notin Dead
  BY ReviewRewritten, Typed DEF IInv, MidSearchCritique, MidSearchEntries
<1>5. OnlyCritiqued(pool, chosen, p)
  BY <1>4, CritiquedRows DEF CritiqueAnswers
<1> HIDE DEF p
<1>6. /\ p \in Seq(Rows) /\ Len(p) = Len(pool)
      /\ \A i \in 1..Len(pool) : i \notin chosen => p[i] = pool[i]
  BY <1>5 DEF OnlyCritiqued
<1>7. /\ DOMAIN pool' = 1..Len(pool)
      /\ \A i \in 1..Len(pool) : /\ pool'[i].phase = IF i \in S THEN "PRUNED" ELSE p[i].phase
                                 /\ pool'[i].answer = p[i].answer
  BY <1>3, <1>6, MarkPrunedRows
<1> QED
  BY <1>4, <1>6, <1>7 DEF OnlyGrown, Dead

LEMMA NextGrown ==
  ASSUME IInv, [Next]_vars, ~CritiqueSurvivors
  PROVE  OnlyGrown
<1>1. CASE SeedAttempt
  BY <1>1, RegisterGrown DEF SeedAttempt
<1>2. CASE ExpandChild
  <2> DEFINE row == pool[current]
  <2>1. PICK op \in Operators :
          Register(current, op, row.depth + 1, row.midCritiqued, row.critiques)
    BY <1>2 DEF ExpandChild
  <2>2. current \in Nat /\ row \in Rows
    <3>1. pc = "expanding"
      BY <1>2 DEF ExpandChild
    <3> QED
      BY <3>1, Typed DEF IInv, Placed
  <2>3. row.depth + 1 \in Nat /\ row.midCritiqued \in BOOLEAN /\ row.critiques \in Nat
    BY <2>2 DEF Rows
  <2> HIDE DEF row
  <2> QED
    BY <2>1, <2>2, <2>3, RegisterGrown
<1>3. CASE OpenFrontier \/ SkipDead \/ StopEarly \/ StartExpansion \/ SkipReview \/ LeaveLoop
           \/ SelectSurvivors \/ UNCHANGED vars
  <2>1. pool' = pool
    BY <1>3 DEF OpenFrontier, SkipDead, StopEarly, StartExpansion, SkipReview, LeaveLoop,
       SelectSurvivors, vars
  <2> QED
    BY <2>1, PrunedGrown
<1>4. CASE PruneDeep \/ PushChildren
  <2>1. \E S : pool' = MarkPruned(pool, S)
    BY <1>4 DEF PruneDeep, PushChildren
  <2> QED
    BY <2>1, PrunedGrown
<1>5. CASE MidSearchCritique
  BY <1>5, MidSearchCritiqueGrown
<1> QED
  BY <1>1, <1>2, <1>3, <1>4, <1>5 DEF Next

\* The answers of solved branches do not move before the survivors are critiqued.
THEOREM SpecSolvedAnswersFixed == Spec => SolvedAnswersFixed
<1>1. IInv /\ [Next]_vars =>
        [pc # "critique" => \A i \in solved : pool'[i].answer = pool[i].answer]_vars
  <2>1. CritiqueSurvivors => pc = "critique"
    BY DEF CritiqueSurvivors
  <2> QED
    BY <2>1, NextGrown DEF OnlyGrown
<1> QED
  BY <1>1, SpecIInv, PTL DEF Spec, SolvedAnswersFixed

-----------------------------------------------------------------------------
\* The contract of the search, step by step.
LEMMA InitContract == Init => Contract!Init
<1> SUFFICES ASSUME Init PROVE Contract!Init
  OBVIOUS
<1>1. pool = <<>> /\ survivors = {} /\ pc = "seeding"
  BY DEF Init
<1>2. DOMAIN pool = {} /\ DOMAIN pool \ Alive = {}
  BY <1>1 DEF Alive
<1> QED
  BY <1>1, <1>2 DEF Contract!Init

\* No more branches are registered than the contract allows.
LEMMA FoundBounded == IInv => Contract!Cardinality(DOMAIN pool) <= Samples + Children * MaxNodes
<1> SUFFICES ASSUME IInv PROVE Contract!Cardinality(DOMAIN pool) <= Samples + Children * MaxNodes
  OBVIOUS
<1>1. /\ Len(pool) \in Nat /\ DOMAIN pool = 1..Len(pool)
      /\ Len(history) \in Nat /\ Len(history) <= MaxNodes
  BY Facts
<1>2. Len(pool) <= Samples + Children * Len(history)
  BY DEF IInv, Budgeted, SearchBounded
<1>3. Cardinality(DOMAIN pool) = Len(pool)
  <2>1. 1 \in Int /\ Len(pool) \in Int
    BY <1>1
  <2>2. Cardinality(1..Len(pool)) = IF 1 > Len(pool) THEN 0 ELSE Len(pool) - 1 + 1
    BY <2>1, FS_Interval
  <2> QED
    BY <1>1, <2>2
<1>4. Contract!Cardinality(DOMAIN pool) = Cardinality(DOMAIN pool)
  BY DEF Contract!Cardinality, Contract!IsFiniteSet, Cardinality, IsFiniteSet
<1> DEFINE spent == Children * Len(history)
           most == Children * MaxNodes
<1>5. spent \in Nat /\ most \in Nat /\ spent <= most /\ Samples \in Nat
  BY <1>1, Limits
<1>6. Len(pool) <= Samples + spent
  BY <1>2
<1> HIDE DEF spent, most
<1>7. Len(pool) <= Samples + most
  BY <1>1, <1>5, <1>6
<1> QED
  BY <1>3, <1>4, <1>7 DEF most

\* A step that grows the search explores, in the words of the contract.
LEMMA GrownExplores ==
  ASSUME IInv, IInv', OnlyGrown, survivors' = survivors,
         pc \notin {"critique", "done"}, pc' \notin {"critique", "done"}
  PROVE  Contract!Explore
<1>1. Contract!Cardinality(DOMAIN pool) <= Samples + Children * MaxNodes
  BY FoundBounded
<1>2. Contract!Cardinality(DOMAIN pool') <= Samples + Children * MaxNodes
  <2>1. (IInv => Contract!Cardinality(DOMAIN pool) <= Samples + Children * MaxNodes)'
    BY FoundBounded, PTL
  <2> QED
    BY <2>1
<1>3. DOMAIN pool \ Alive \subseteq DOMAIN pool' \ Alive' /\ DOMAIN pool \subseteq DOMAIN pool'
  BY DEF OnlyGrown, Alive
<1> QED
  BY <1>2, <1>3 DEF Contract!Explore

\* Picking the survivors is the choice.
LEMMA SelectSurvivorsChooses == IInv /\ SelectSurvivors => Contract!Choose
<1> SUFFICES ASSUME IInv, SelectSurvivors PROVE Contract!Choose
  OBVIOUS
<1> DEFINE k == SurvivorCount(Cardinality(Alive))
<1>1. /\ pc = "closing" /\ pc' = "critique" /\ pool' = pool
      /\ survivors' \subseteq Alive /\ Cardinality(survivors') = k
  BY DEF SelectSurvivors, kSubset
<1>2. Alive \subseteq DOMAIN pool /\ Alive' = Alive
  BY <1>1 DEF Alive
<1>3. IsFiniteSet(Alive) /\ Cardinality(Alive) \in Nat
  BY <1>2, Facts, FrontierFinite
<1>4. RetainTopK \in Nat /\ RetainTopK >= 1
  BY SearchAssumption
<1>5. k <= RetainTopK /\ (Cardinality(Alive) >= 1 => k >= 1)
  BY <1>3, <1>4 DEF SurvivorCount
<1>6. DOMAIN pool # DOMAIN pool \ Alive => survivors' # {}
  <2> SUFFICES ASSUME DOMAIN pool # DOMAIN pool \ Alive PROVE survivors' # {}
    OBVIOUS
  <2>1. Alive # {}
    OBVIOUS
  <2>2. Cardinality(Alive) # 0
    BY <1>3, <2>1, FS_EmptySet
  <2>3. Cardinality(survivors') # 0
    BY <1>1, <1>3, <1>5, <2>2
  <2> QED
    BY <2>3, FS_EmptySet
<1>7. Contract!Cardinality(survivors') <= RetainTopK
  <2>1. Contract!Cardinality(survivors') = Cardinality(survivors')
    BY DEF Contract!Cardinality, Contract!IsFiniteSet, Cardinality, IsFiniteSet
  <2> QED
    BY <1>1, <1>5, <2>1
<1> HIDE DEF k
<1>8. survivors' \subseteq DOMAIN pool \ (DOMAIN pool \ Alive)
  BY <1>1, <1>2
<1> QED
  BY <1>1, <1>2, <1>6, <1>7, <1>8 DEF Contract!Choose

\* The last critiques bring nothing back to life and rule nothing out.
LEMMA CritiqueSurvivorsStutters == IInv /\ CritiqueSurvivors => UNCHANGED Contract!vars
<1> SUFFICES ASSUME IInv, CritiqueSurvivors PROVE UNCHANGED Contract!vars
  OBVIOUS
<1>1. pc = "critique" /\ pc' = "done" /\ survivors' = survivors
  BY DEF CritiqueSurvivors
<1>2. PICK chosen \in SUBSET survivors :
        \E f \in CritiqueAnswers(chosen) : pool' = Critiqued(pool, chosen, f, FALSE)
  BY DEF CritiqueSurvivors
<1>3. PICK f \in CritiqueAnswers(chosen) : pool' = Critiqued(pool, chosen, f, FALSE)
  BY <1>2
<1>4. /\ pool \in Seq(Rows) /\ DOMAIN pool = 1..Len(pool) /\ chosen \subseteq 1..Len(pool)
      /\ chosen \subseteq Alive
  BY <1>1, Typed DEF IInv, Placed
<1>5. OnlyCritiqued(pool, chosen, pool')
  <2>1. f \in [chosen -> Answers \cup {NoAnswer}] /\ chosen \in SUBSET (1..Len(pool))
    BY <1>4 DEF CritiqueAnswers
  <2>2. pool' \in {Critiqued(pool, chosen, f, TRUE), Critiqued(pool, chosen, f, FALSE)}
    BY <1>3
  <2> QED
    BY <1>4, <2>1, <2>2, CritiquedRows
<1>6. /\ DOMAIN pool' = DOMAIN pool
      /\ \A i \in DOMAIN pool : pool[i].phase \in Dead <=> pool'[i].phase \in Dead
  BY <1>4, <1>5 DEF OnlyCritiqued, Alive, Dead
<1>7. Alive' = Alive
  BY <1>6 DEF Alive
<1> QED
  BY <1>1, <1>6, <1>7 DEF Contract!vars

LEMMA NextContract == IInv /\ IInv' /\ [Next]_vars => [Contract!Next]_(Contract!vars)
<1> SUFFICES ASSUME IInv, IInv', [Next]_vars PROVE [Contract!Next]_(Contract!vars)
  OBVIOUS
<1>1. CASE CritiqueSurvivors
  BY <1>1, CritiqueSurvivorsStutters
<1>2. CASE SelectSurvivors
  BY <1>2, SelectSurvivorsChooses DEF Contract!Next
<1>3. CASE UNCHANGED vars
  <2>1. pool' = pool /\ survivors' = survivors /\ pc' = pc /\ Alive' = Alive
    BY <1>3 DEF vars, Alive
  <2> QED
    BY <2>1 DEF Contract!vars
<1>4. CASE Next /\ ~CritiqueSurvivors /\ ~SelectSurvivors
  <2>1. OnlyGrown
    BY <1>4, NextGrown
  <2>2. /\ survivors' = survivors
        /\ pc \notin {"critique", "done"} /\ pc' \notin {"critique", "done"}
    BY <1>4 DEF Next, SeedAttempt, OpenFrontier, SkipDead, StopEarly, PruneDeep, StartExpansion,
       ExpandChild, PushChildren, SkipReview, MidSearchCritique, LeaveLoop, Select, InLoop
  <2> QED
    BY <2>1, <2>2, GrownExplores DEF Contract!Next
<1> QED
  BY <1>1, <1>2, <1>3, <1>4

\* The safety part of the contract: every step of the search is a step of it, or
\* none.
THEOREM SpecKeepsContract == Spec => Contract!Init /\ [][Contract!Next]_(Contract!vars)
  BY InitContract, SpecIInv, NextContract, PTL DEF Spec
=============================================================================
