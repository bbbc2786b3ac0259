------------------------ MODULE BudgetPlannerProofs ------------------------
(***************************************************************************)
(* What is proved of the budgets, for every amount of time, any problems   *)
(* and plans, and any observations in any order: plans stay under their    *)
(* ceilings, adaptations move them one way, and a run overdraws its budget *)
(* by no more than the floor it gives to each problem.                     *)
(***************************************************************************)
EXTENDS BudgetPlanner, TLAPS

Plans == [Parts -> Nat]
Widenings == [enabled : BOOLEAN, steps : Nat, branchGrowth : Nat, nodeGrowth : Nat]

\* Ceilings that the floors of every mode are below.
Roomy(ceilings) ==
  /\ ceilings.samples = ceilings.branches
  /\ ceilings.branches >= 8 /\ ceilings.nodes >= 16
  /\ ceilings.depth >= 2 /\ ceilings.repair >= 1 /\ ceilings.critique >= 2
Under(plan, ceilings) == \A p \in Parts : plan[p] <= ceilings[p]

\* The floors of _constrain that a plan has gone through.
AtFloors(plan, branches, nodes) ==
  /\ plan.branches >= branches /\ plan.samples >= branches /\ plan.nodes >= nodes
  /\ plan.depth >= 2 /\ plan.repair >= 1 /\ plan.critique >= 1
Floored(plan, mode) == IF mode = "panic_save" THEN AtFloors(plan, 6, 12) ELSE AtFloors(plan, 8, 16)

Growths == {110, 112, 120, 122}

\* What holds of a bundle that was not made in panic mode.
Sound(b) ==
  /\ Roomy(b.ceilings) /\ Under(b.plan, b.ceilings) /\ Floored(b.plan, b.mode)
  /\ b.widening.branchGrowth \in Growths \cup {100} /\ b.widening.nodeGrowth \in Growths \cup {100}

\* Panic that was not there from the start came with the clock.
PanicByClock ==
  bundle # NoBundle /\ bundle.mode = "panic_save" /\ bundle.born # "panic_save"
    => 100 * seen.elapsed >= 98 * bundle.wall

\* The time of the problem at hand is already provided for, and a floor was
\* given to no more problems than were started.
Provided ==
  /\ spent + (IF bundle = NoBundle THEN 0 ELSE bundle.wall) <= Available + 20 * floored
  /\ floored + left <= Problems + (IF bundle = NoBundle THEN 0 ELSE 1)
  /\ bundle # NoBundle => left > 0

IInv ==
  /\ TypeOK /\ Provided /\ PanicByClock /\ ExhaustedStops
  /\ bundle # NoBundle /\ bundle.born # "panic_save" => Sound(bundle)

-----------------------------------------------------------------------------
\* Rounding and the growth and shrinking of counts.
LEMMA Products == ASSUME NEW m \in Nat, NEW n \in Nat PROVE m * n \in Nat
  BY SMT

LEMMA Rounding ==
  ASSUME NEW n \in Nat, NEW d \in {100, 10000, 1000000}
  PROVE  /\ Rounded(n, d) \in Nat
         /\ \A k \in Nat : k * d <= n => k <= Rounded(n, d)
         /\ \A k \in Nat : n <= k * d => Rounded(n, d) <= k
<1>1. CASE d = 100
  BY <1>1, SMT DEF Rounded
<1>2. CASE d = 10000
  BY <1>2, SMT DEF Rounded
<1>3. CASE d = 1000000
  BY <1>3, SMT DEF Rounded
<1> QED BY <1>1, <1>2, <1>3

\* A percentage takes away, a growth does not.
LEMMA Shrinking ==
  ASSUME NEW n \in Nat, NEW p \in {50, 55, 60, 78, 82, 100}
  PROVE  Percent(n, p) \in Nat /\ Percent(n, p) <= n
<1>1. n * p \in Nat /\ n * p <= n * 100
  BY SMT
<1> QED BY <1>1, Rounding DEF Percent

\* The counts of a plan that are shrunk by the factors of two modes.
LEMMA CountsShrink ==
  ASSUME NEW n \in Nat
  PROVE  /\ Percent(n, 82) \in Nat /\ Percent(n, 82) <= n
         /\ Percent(n, 60) \in Nat /\ Percent(n, 60) <= n
         /\ Percent(n, 55) \in Nat /\ Percent(n, 55) <= n
  BY Shrinking
LEMMA Growing ==
  ASSUME NEW n \in Nat, NEW p \in Growths \cup {100}
  PROVE  Scaled(n, p) \in Nat /\ Scaled(n, p) >= n
<1>1. n * p \in Nat /\ n * 100 <= n * p
  BY SMT DEF Growths
<1>2. Percent(n, p) \in Nat /\ n <= Percent(n, p)
  BY <1>1, Rounding DEF Percent
<1> QED BY <1>2, SMT DEF Scaled, Most

-----------------------------------------------------------------------------
\* The plan under its ceilings, narrowed and raised to the floors of its mode.
Capped(plan, ceilings) == [p \in Parts |-> Least(plan[p], ceilings[p])]

LEMMA Capping ==
  ASSUME NEW plan \in Plans, NEW ceilings \in Plans
  PROVE  /\ Capped(plan, ceilings) \in Plans
         /\ \A p \in Parts : /\ Capped(plan, ceilings)[p] <= plan[p]
                             /\ Capped(plan, ceilings)[p] <= ceilings[p]
                             /\ \A k \in Nat : k <= plan[p] /\ k <= ceilings[p]
                                                 => k <= Capped(plan, ceilings)[p]
BY SMT DEF Plans, Capped, Least

\* _constrain, part by part.
LEMMA ConstrainedParts ==
  ASSUME NEW plan \in Plans, NEW ceilings \in Plans, NEW mode \in Modes
  PROVE  LET c == Capped(plan, ceilings)
             r == Constrained(plan, ceilings, mode)
         IN /\ r \in Plans
            /\ mode = "full" => \A p \in Parts : r[p] = Most(LeastParts[p], c[p])
            /\ mode = "degraded" =>
                 /\ r.branches = Most(4, Most(8, Percent(c.branches, 82)))
                 /\ r.samples = Most(4, Most(8, Percent(c.samples, 82)))
                 /\ r.nodes = Most(8, Most(16, Percent(c.nodes, 82)))
                 /\ r.retrieval = Most(0, Most(0, c.retrieval - 1))
                 /\ r.critique = Most(1, Most(2, Least(c.critique, 4)))
                 /\ r.depth = Most(2, c.depth) /\ r.repair = Most(1, c.repair)
            /\ mode = "panic_save" =>
                 /\ r.branches = Most(4, Most(6, Percent(c.branches, 60)))
                 /\ r.samples = Most(4, Most(6, Percent(c.samples, 60)))
                 /\ r.nodes = Most(8, Most(12, Percent(c.nodes, 55)))
                 /\ r.depth = Most(2, Most(2, Least(c.depth, 4)))
                 /\ r.retrieval = Most(0, Least(c.retrieval, 1))
                 /\ r.critique = Most(1, 1) /\ r.repair = Most(1, 1)
<1> DEFINE c == Capped(plan, ceilings)
           n == Narrowed(c, mode)
           r == Constrained(plan, ceilings, mode)
<1>1. c \in Plans
  BY Capping
<1>2. r = [p \in Parts |-> Most(LeastParts[p], n[p])]
  BY DEF Constrained, Capped
<1> HIDE DEF c
<1>3. /\ Percent(c.branches, 82) \in Nat /\ Percent(c.samples, 82) \in Nat /\ Percent(c.nodes, 82) \in Nat
      /\ Percent(c.branches, 60) \in Nat /\ Percent(c.samples, 60) \in Nat /\ Percent(c.nodes, 55) \in Nat
  BY <1>1, Shrinking DEF Plans, Parts
<1>4. LeastParts \in Plans
  BY DEF LeastParts, Plans, Parts
<1>5. CASE mode = "full"
  <2>1. n = c
    BY <1>5 DEF Narrowed
  <2> HIDE DEF n
  <2>2. r \in Plans
    BY <1>1, <1>2, <1>4, <2>1, SMT DEF Plans, Most
  <2> QED BY <1>2, <1>5, <2>1, <2>2 DEF c
<1>6. CASE mode = "degraded"
  <2>1. n = [c EXCEPT !.branches = Most(8, Percent(@, 82)), !.samples = Most(8, Percent(@, 82)),
                      !.nodes = Most(16, Percent(@, 82)), !.retrieval = Most(0, @ - 1),
                      !.critique = Most(2, Least(@, 4))]
    BY <1>6 DEF Narrowed
  <2> HIDE DEF n
  <2>2. /\ n.branches = Most(8, Percent(c.branches, 82)) /\ n.samples = Most(8, Percent(c.samples, 82))
        /\ n.nodes = Most(16, Percent(c.nodes, 82)) /\ n.retrieval = Most(0, c.retrieval - 1)
        /\ n.critique = Most(2, Least(c.critique, 4)) /\ n.depth = c.depth /\ n.repair = c.repair
    BY <1>1, <2>1 DEF Plans, Parts
  <2>3. /\ r.branches = Most(4, n.branches) /\ r.samples = Most(4, n.samples)
        /\ r.nodes = Most(8, n.nodes) /\ r.retrieval = Most(0, n.retrieval)
        /\ r.critique = Most(1, n.critique) /\ r.depth = Most(2, n.depth) /\ r.repair = Most(1, n.repair)
    BY <1>2 DEF Parts, LeastParts
  <2>4. \A p \in Parts : n[p] \in Nat
    BY <1>1, <1>3, <2>2 DEF Plans, Parts, Most, Least
  <2>5. r \in Plans
    BY <1>2, <1>4, <2>4, SMT DEF Plans, Most
  <2> QED BY <1>6, <2>2, <2>3, <2>5 DEF c
<1>7. CASE mode = "panic_save"
  <2>1. n = [c EXCEPT !.branches = Most(6, Percent(@, 60)), !.samples = Most(6, Percent(@, 60)),
                      !.nodes = Most(12, Percent(@, 55)), !.depth = Most(2, Least(@, 4)),
                      !.retrieval = Least(@, 1), !.critique = 1, !.repair = 1]
    BY <1>7 DEF Narrowed
  <2> HIDE DEF n
  <2>2. /\ n.branches = Most(6, Percent(c.branches, 60)) /\ n.samples = Most(6, Percent(c.samples, 60))
        /\ n.nodes = Most(12, Percent(c.nodes, 55)) /\ n.retrieval = Least(c.retrieval, 1)
        /\ n.critique = 1 /\ n.repair = 1 /\ n.depth = Most(2, Least(c.depth, 4))
    BY <1>1, <2>1 DEF Plans, Parts
  <2>3. /\ r.branches = Most(4, n.branches) /\ r.samples = Most(4, n.samples)
        /\ r.nodes = Most(8, n.nodes) /\ r.retrieval = Most(0, n.retrieval)
        /\ r.critique = Most(1, n.critique) /\ r.depth = Most(2, n.depth) /\ r.repair = Most(1, n.repair)
    BY <1>2 DEF Parts, LeastParts
  <2>4. \A p \in Parts : n[p] \in Nat
    BY <1>1, <1>3, <2>2 DEF Plans, Parts, Most, Least
  <2>5. r \in Plans
    BY <1>2, <1>4, <2>4, SMT DEF Plans, Most
  <2> QED BY <1>7, <2>2, <2>3, <2>5 DEF c
<1> QED BY <1>5, <1>6, <1>7 DEF Modes

\* What is constrained under ceilings with room for its floors stays under
\* them and at the floors of the mode.
LEMMA ConstrainedSound ==
  ASSUME NEW plan \in Plans, NEW ceilings \in Plans, NEW mode \in Modes, Roomy(ceilings)
  PROVE  LET r == Constrained(plan, ceilings, mode)
         IN /\ r \in Plans /\ Under(r, ceilings)
            /\ mode # "full" => Floored(r, mode)
            /\ AtFloors(plan, 8, 16) => Floored(r, mode)
<1> DEFINE c == Capped(plan, ceilings)
           r == Constrained(plan, ceilings, mode)
<1>1. /\ c \in Plans
      /\ \A p \in Parts : c[p] <= plan[p] /\ c[p] <= ceilings[p]
      /\ \A p \in Parts : \A k \in Nat : k <= plan[p] /\ k <= ceilings[p] => k <= c[p]
  BY Capping
<1>2. /\ r \in Plans
      /\ mode = "full" => \A p \in Parts : r[p] = Most(LeastParts[p], c[p])
      /\ mode = "degraded" =>
           /\ r.branches = Most(4, Most(8, Percent(c.branches, 82)))
           /\ r.samples = Most(4, Most(8, Percent(c.samples, 82)))
           /\ r.nodes = Most(8, Most(16, Percent(c.nodes, 82)))
           /\ r.retrieval = Most(0, Most(0, c.retrieval - 1))
           /\ r.critique = Most(1, Most(2, Least(c.critique, 4)))
           /\ r.depth = Most(2, c.depth) /\ r.repair = Most(1, c.repair)
      /\ mode = "panic_save" =>
           /\ r.branches = Most(4, Most(6, Percent(c.branches, 60)))
           /\ r.samples = Most(4, Most(6, Percent(c.samples, 60)))
           /\ r.nodes = Most(8, Most(12, Percent(c.nodes, 55)))
           /\ r.depth = Most(2, Most(2, Least(c.depth, 4)))
           /\ r.retrieval = Most(0, Least(c.retrieval, 1))
           /\ r.critique = Most(1, 1) /\ r.repair = Most(1, 1)
  BY ConstrainedParts
<1> HIDE DEF c, r
<1>3. /\ c.branches \in Nat /\ c.samples \in Nat /\ c.nodes \in Nat /\ c.retrieval \in Nat
      /\ c.critique \in Nat /\ c.depth \in Nat /\ c.repair \in Nat
      /\ c.branches <= ceilings.branches /\ c.samples <= ceilings.samples /\ c.nodes <= ceilings.nodes
      /\ c.retrieval <= ceilings.retrieval /\ c.critique <= ceilings.critique
      /\ c.depth <= ceilings.depth /\ c.repair <= ceilings.repair
  BY <1>1 DEF Plans, Parts
<1>4. /\ ceilings.branches \in Nat /\ ceilings.samples \in Nat /\ ceilings.nodes \in Nat
      /\ ceilings.retrieval \in Nat /\ ceilings.critique \in Nat /\ ceilings.depth \in Nat
      /\ ceilings.repair \in Nat
  BY DEF Plans, Parts
<1>5. /\ Percent(c.branches, 82) \in Nat /\ Percent(c.branches, 82) <= c.branches
      /\ Percent(c.samples, 82) \in Nat /\ Percent(c.samples, 82) <= c.samples
      /\ Percent(c.nodes, 82) \in Nat /\ Percent(c.nodes, 82) <= c.nodes
      /\ Percent(c.branches, 60) \in Nat /\ Percent(c.branches, 60) <= c.branches
      /\ Percent(c.samples, 60) \in Nat /\ Percent(c.samples, 60) <= c.samples
      /\ Percent(c.nodes, 55) \in Nat /\ Percent(c.nodes, 55) <= c.nodes
  <2>1. c.branches \in Nat /\ c.samples \in Nat /\ c.nodes \in Nat
    BY <1>3
  <2> QED BY <2>1, CountsShrink
<1>6. ASSUME /\ r.branches <= ceilings.branches /\ r.samples <= ceilings.samples
             /\ r.nodes <= ceilings.nodes /\ r.retrieval <= ceilings.retrieval
             /\ r.critique <= ceilings.critique /\ r.depth <= ceilings.depth
             /\ r.repair <= ceilings.repair
      PROVE  Under(r, ceilings)
  BY <1>6 DEF Under, Parts
<1>7. CASE mode = "full"
  <2>1. /\ r.branches = Most(4, c.branches) /\ r.samples = Most(4, c.samples)
        /\ r.nodes = Most(8, c.nodes) /\ r.retrieval = Most(0, c.retrieval)
        /\ r.critique = Most(1, c.critique) /\ r.depth = Most(2, c.depth) /\ r.repair = Most(1, c.repair)
    BY <1>2, <1>7 DEF Parts, LeastParts
  <2>2. Under(r, ceilings)
    BY <1>3, <1>4, <1>6, <2>1, SMT DEF Most, Roomy
  <2>3. ASSUME AtFloors(plan, 8, 16) PROVE AtFloors(r, 8, 16)
    <3>1. c.branches >= 8 /\ c.samples >= 8 /\ c.nodes >= 16
      BY <1>1, <1>4, <2>3 DEF AtFloors, Roomy, Parts
    <3> QED BY <1>3, <2>1, <3>1, SMT DEF AtFloors, Most
  <2> QED BY <1>2, <1>7, <2>2, <2>3 DEF Floored, r
<1>8. CASE mode = "degraded"
  <2>1. Under(r, ceilings)
    BY <1>2, <1>3, <1>4, <1>5, <1>6, <1>8, SMT DEF Most, Least, Roomy
  <2>2. AtFloors(r, 8, 16)
    BY <1>2, <1>3, <1>5, <1>8, SMT DEF Most, Least, AtFloors
  <2> QED BY <1>2, <1>8, <2>1, <2>2 DEF Floored, r
<1>9. CASE mode = "panic_save"
  <2>1. Under(r, ceilings)
    BY <1>2, <1>3, <1>4, <1>5, <1>6, <1>9, SMT DEF Most, Least, Roomy
  <2>2. AtFloors(r, 6, 12)
    BY <1>2, <1>3, <1>5, <1>9, SMT DEF Most, Least, AtFloors
  <2> QED BY <1>2, <1>9, <2>1, <2>2 DEF Floored, r
<1> QED BY <1>7, <1>8, <1>9 DEF Modes, r

\* A plan at the floors of a mode no milder than the one it is degraded to
\* loses: of every part but the critique's, and in panic of that too.
LEMMA DegradingShrinks ==
  ASSUME NEW plan \in Plans, NEW ceilings \in Plans, NEW mode \in {"degraded", "panic_save"},
         Floored(plan, mode) \/ AtFloors(plan, 8, 16)
  PROVE  LET r == Constrained(plan, ceilings, mode)
         IN /\ \A p \in Parts \ {"critique"} : r[p] <= plan[p]
            /\ mode = "panic_save" => r.critique <= plan.critique
<1> DEFINE c == Capped(plan, ceilings)
           r == Constrained(plan, ceilings, mode)
<1>1. c \in Plans /\ \A p \in Parts : c[p] <= plan[p]
  BY Capping
<1>2. /\ mode = "degraded" =>
           /\ r.branches = Most(4, Most(8, Percent(c.branches, 82)))
           /\ r.samples = Most(4, Most(8, Percent(c.samples, 82)))
           /\ r.nodes = Most(8, Most(16, Percent(c.nodes, 82)))
           /\ r.retrieval = Most(0, Most(0, c.retrieval - 1))
           /\ r.depth = Most(2, c.depth) /\ r.repair = Most(1, c.repair)
      /\ mode = "panic_save" =>
           /\ r.branches = Most(4, Most(6, Percent(c.branches, 60)))
           /\ r.samples = Most(4, Most(6, Percent(c.samples, 60)))
           /\ r.nodes = Most(8, Most(12, Percent(c.nodes, 55)))
           /\ r.depth = Most(2, Most(2, Least(c.depth, 4)))
           /\ r.retrieval = Most(0, Least(c.retrieval, 1))
           /\ r.critique = Most(1, 1) /\ r.repair = Most(1, 1)
  BY ConstrainedParts DEF Modes
<1> HIDE DEF c, r
<1>3. /\ c.branches \in Nat /\ c.samples \in Nat /\ c.nodes \in Nat /\ c.retrieval \in Nat
      /\ c.depth \in Nat /\ c.repair \in Nat
      /\ c.branches <= plan.branches /\ c.samples <= plan.samples /\ c.nodes <= plan.nodes
      /\ c.retrieval <= plan.retrieval /\ c.depth <= plan.depth /\ c.repair <= plan.repair
      /\ plan.branches \in Nat /\ plan.samples \in Nat /\ plan.nodes \in Nat /\ plan.retrieval \in Nat
      /\ plan.depth \in Nat /\ plan.repair \in Nat /\ plan.critique \in Nat
  BY <1>1 DEF Plans, Parts
<1>4. /\ Percent(c.branches, 82) \in Nat /\ Percent(c.branches, 82) <= c.branches
      /\ Percent(c.samples, 82) \in Nat /\ Percent(c.samples, 82) <= c.samples
      /\ Percent(c.nodes, 82) \in Nat /\ Percent(c.nodes, 82) <= c.nodes
      /\ Percent(c.branches, 60) \in Nat /\ Percent(c.branches, 60) <= c.branches
      /\ Percent(c.samples, 60) \in Nat /\ Percent(c.samples, 60) <= c.samples
      /\ Percent(c.nodes, 55) \in Nat /\ Percent(c.nodes, 55) <= c.nodes
  <2>1. c.branches \in Nat /\ c.samples \in Nat /\ c.nodes \in Nat
    BY <1>3
  <2> QED BY <2>1, CountsShrink
<1>5. /\ r.branches <= plan.branches /\ r.samples <= plan.samples /\ r.nodes <= plan.nodes
      /\ r.retrieval <= plan.retrieval /\ r.depth <= plan.depth /\ r.repair <= plan.repair
      /\ mode = "panic_save" => r.critique <= plan.critique
  <2>1. CASE mode = "degraded"
    <3>1. AtFloors(plan, 8, 16)
      BY <2>1 DEF Floored
    <3> QED BY <1>2, <1>3, <1>4, <2>1, <3>1, SMT DEF AtFloors, Most
  <2>2. CASE mode = "panic_save"
    <3>1. AtFloors(plan, 6, 12)
      BY <2>2, <1>3, SMT DEF Floored, AtFloors
    <3> QED BY <1>2, <1>3, <1>4, <2>2, <3>1, SMT DEF AtFloors, Most, Least
  <2> QED BY <2>1, <2>2
<1> QED BY <1>5 DEF r, Parts

-----------------------------------------------------------------------------
\* What a route's plan is raised to: every part at least its floor.

\* A product is at least that of what its factors are at least.
LEMMA ProductAtLeast ==
  ASSUME NEW m \in Nat, NEW n \in Nat, NEW k \in Nat, NEW l \in Nat, m >= k, n >= l
  PROVE  m * n \in Nat /\ m * n >= k * l
<1>1. m * n >= m * l
  BY SMT
<1>2. m * l >= k * l
  BY SMT
<1> QED BY <1>1, <1>2, Products, SMT

\* A count raised by a factor of at least one.
LEMMA RaisedBy ==
  ASSUME NEW n \in Nat, NEW f \in Nat, NEW d \in {10000, 1000000}, f >= d
  PROVE  Rounded(n * f, d) \in Nat /\ Rounded(n * f, d) >= n
<1>1. n * f \in Nat /\ n * f >= n * d /\ d \in Nat
  BY ProductAtLeast, SMT
<1> QED BY <1>1, Rounding

\* The parts of a route.
LEMMA RouteParts ==
  ASSUME NEW route \in Routes
  PROVE  /\ route.score \in 0..100 /\ route.uncertainty \in 0..100 /\ route.level \in Levels
         /\ route.plan \in Plans /\ route.widens \in BOOLEAN
         /\ route.spread[1] \in 0..100 /\ route.spread[2] \in 0..100
         /\ Intensity(route) \in Nat
<1>1. /\ route.level \in Difficulties /\ route.score \in Scores /\ route.uncertainty \in Scores
      /\ route.spread \in Spreads /\ route.plan \in RoutePlans /\ route.widens \in BOOLEAN
  BY DEF Routes
<1>2. /\ route.score \in 0..100 /\ route.uncertainty \in 0..100 /\ route.level \in Levels
      /\ route.plan \in Plans /\ route.spread \in (0..100) \X (0..100)
  BY <1>1, BudgetAssumption DEF Plans
<1>3. route.spread[1] \in 0..100 /\ route.spread[2] \in 0..100
  BY <1>2
<1>4. Intensity(route) \in Nat
  <2> DEFINE s1 == route.spread[1]
             s2 == route.spread[2]
             score == route.score
             u == route.uncertainty
  <2>1. Intensity(route) = 38 * score + 27 * u + 20 * s1 + 15 * s2
    BY DEF Intensity
  <2>2. s1 \in 0..100 /\ s2 \in 0..100 /\ score \in 0..100 /\ u \in 0..100
    BY <1>2, <1>3
  <2> HIDE DEF s1, s2, score, u
  <2>3. 38 * score + 27 * u + 20 * s1 + 15 * s2 \in Nat
    BY <2>2, SMT
  <2> QED BY <2>1, <2>3
<1> QED BY <1>1, <1>2, <1>3, <1>4

LEMMA NormalizedPlan ==
  ASSUME NEW route \in Routes
  PROVE  /\ NormalizePlan(route) \in Plans
         /\ AtFloors(NormalizePlan(route), 8, 24)
<1> DEFINE own == route.plan
           level == route.level
           u == route.uncertainty
           s == route.spread[1]
           grown(base, factor) == Most(base, Rounded(base * (1000000 + factor * Intensity(route)), 1000000))
           asked(base, hundredths) == Most(base, Rounded(100 * base + hundredths, 100))
           base == grown(By(level, 8, 16, 48, 96), 70)
           nodes == grown(By(level, 24, 64, 128, 192), 55)
           retrieval == asked(By(level, 2, 3, 4, 5), 2 * u + (120 * s) \div 100)
           depth == asked(By(level, 4, 6, 7, 8), (150 * route.score + 150 * u) \div 100)
           repair == 1 + (IF Harder(level) THEN 1 ELSE 0) + (IF u >= 72 THEN 1 ELSE 0)
           samples == Most(base, Rounded(base * (10000 + 12 * u), 10000))
           critique == Least(5, Most(1, base \div 16))
           merged == [branches |-> base, retrieval |-> retrieval, depth |-> depth, nodes |-> nodes,
                      repair |-> repair, samples |-> samples, critique |-> critique]
<1>1. /\ route.score \in 0..100 /\ u \in 0..100 /\ own \in Plans /\ s \in 0..100
      /\ Intensity(route) \in Nat
  BY RouteParts
<1>2. NormalizePlan(route) = [p \in Parts |-> Most(merged[p], own[p])]
  BY DEF NormalizePlan
<1> HIDE DEF grown, asked, base, nodes, retrieval, depth, repair, samples, critique, merged
<1>3. ASSUME NEW b \in Nat, NEW factor \in Nat
      PROVE  grown(b, factor) \in Nat /\ grown(b, factor) >= b
  <2> DEFINE f == 1000000 + factor * Intensity(route)
  <2>1. factor * Intensity(route) \in Nat
    BY <1>1, Products
  <2>2. f \in Nat /\ f >= 1000000
    BY <2>1, SMT
  <2>3. grown(b, factor) = Most(b, Rounded(b * f, 1000000))
    BY DEF grown
  <2> HIDE DEF f
  <2>4. Rounded(b * f, 1000000) \in Nat
    BY <2>2, RaisedBy
  <2> QED BY <2>3, <2>4, SMT DEF Most
<1>4. ASSUME NEW b \in Nat, NEW hundredths \in Nat
      PROVE  asked(b, hundredths) \in Nat /\ asked(b, hundredths) >= b
  <2>1. Rounded(100 * b + hundredths, 100) \in Nat
    BY Rounding, SMT
  <2> QED BY <2>1, SMT DEF Most, asked
<1>5. base \in Nat /\ base >= 8
  <2> DEFINE least == By(level, 8, 16, 48, 96)
  <2>1. least \in Nat /\ least >= 8
    BY DEF By
  <2>2. base = grown(least, 70)
    BY DEF base
  <2> HIDE DEF least
  <2>3. base \in Nat /\ base >= least
    BY <2>1, <2>2, <1>3
  <2> QED BY <2>1, <2>3, SMT
<1>6. nodes \in Nat /\ nodes >= 24
  <2> DEFINE least == By(level, 24, 64, 128, 192)
  <2>1. least \in Nat /\ least >= 24
    BY DEF By
  <2>2. nodes = grown(least, 55)
    BY DEF nodes
  <2> HIDE DEF least
  <2>3. nodes \in Nat /\ nodes >= least
    BY <2>1, <2>2, <1>3
  <2> QED BY <2>1, <2>3, SMT
<1>7. retrieval \in Nat
  <2> DEFINE least == By(level, 2, 3, 4, 5)
             more == 2 * u + (120 * s) \div 100
  <2>1. least \in Nat
    BY DEF By
  <2>2. more \in Nat
    <3>1. s \in 0..100 /\ u \in 0..100
      BY <1>1
    <3> HIDE DEF s, u
    <3>2. 2 * u \in Nat /\ (120 * s) \div 100 \in Nat
      BY <3>1, SMT
    <3> QED BY <3>2, SMT
  <2>3. retrieval = asked(least, more)
    BY DEF retrieval
  <2> HIDE DEF least, more
  <2> QED BY <2>1, <2>2, <2>3, <1>4
<1>8. depth \in Nat /\ depth >= 4
  <2> DEFINE least == By(level, 4, 6, 7, 8)
             score == route.score
             more == (150 * score + 150 * u) \div 100
  <2>1. least \in Nat /\ least >= 4
    BY DEF By
  <2>2. more \in Nat
    <3>1. score \in 0..100 /\ u \in 0..100
      BY <1>1
    <3> HIDE DEF score, u
    <3>2. 150 * score + 150 * u \in Nat
      BY <3>1, SMT
    <3> DEFINE sum == 150 * score + 150 * u
    <3> HIDE DEF sum
    <3>3. sum \div 100 \in Nat
      BY <3>2, SMT DEF sum
    <3> QED BY <3>3 DEF sum
  <2>3. depth = asked(least, more)
    BY DEF depth
  <2> HIDE DEF least, more
  <2>4. depth \in Nat /\ depth >= least
    BY <2>1, <2>2, <2>3, <1>4
  <2> QED BY <2>1, <2>4, SMT
<1>9. repair \in Nat /\ repair >= 1
  BY <1>1, SMT DEF Harder, repair
<1>10. samples \in Nat /\ samples >= 8
  <2> DEFINE f == 10000 + 12 * u
  <2>1. f \in Nat /\ f >= 10000
    BY <1>1, SMT
  <2>2. samples = Most(base, Rounded(base * f, 10000))
    BY DEF samples
  <2> HIDE DEF f
  <2>3. Rounded(base * f, 10000) \in Nat
    BY <1>5, <2>1, RaisedBy
  <2> QED BY <1>5, <2>2, <2>3, SMT DEF Most
<1>11. critique \in Nat /\ critique >= 1
  BY <1>5, SMT DEF Least, Most, critique
<1>12. \A p \in Parts : merged[p] \in Nat
  BY <1>5, <1>6, <1>7, <1>8, <1>9, <1>10, <1>11 DEF Parts, merged
<1>13. NormalizePlan(route) \in Plans
  BY <1>1, <1>2, <1>12, SMT DEF Plans, Most
<1>14. \A p \in Parts : own[p] \in Nat
  BY <1>1 DEF Plans
<1>15. AtFloors(NormalizePlan(route), 8, 24)
  <2> DEFINE n == NormalizePlan(route)
  <2>1. \A p \in Parts : n[p] >= merged[p]
    BY <1>2, <1>12, <1>14, SMT DEF Most
  <2>2. \A p \in Parts : n[p] \in Nat
    BY <1>13 DEF Plans
  <2> HIDE DEF n
  <2>3. /\ n.branches >= base /\ n.samples >= samples /\ n.nodes >= nodes /\ n.depth >= depth
        /\ n.repair >= repair /\ n.critique >= critique
    BY <2>1 DEF Parts, merged
  <2>4. /\ n.branches \in Nat /\ n.samples \in Nat /\ n.nodes \in Nat /\ n.depth \in Nat
        /\ n.repair \in Nat /\ n.critique \in Nat
    BY <2>2 DEF Parts
  <2>5. AtFloors(n, 8, 24)
    BY <2>3, <2>4, <1>5, <1>6, <1>8, <1>9, <1>10, <1>11, SMT DEF AtFloors
  <2> QED BY <2>5 DEF n
<1> QED BY <1>13, <1>15

\* The ceilings of a bundle, with room for the floors unless in panic mode.
LEMMA CeilingsTyped ==
  ASSUME NEW plan \in Plans, AtFloors(plan, 8, 24), NEW route \in Routes, NEW mode \in Modes
  PROVE  /\ Ceilings(plan, route, mode) \in Plans
         /\ mode # "panic_save" => Roomy(Ceilings(plan, route, mode))
<1> DEFINE doubt == Most(route.uncertainty, route.score)
           panic == mode = "panic_save"
           branch == Least(By(route.level, 24, 48, 96, 160),
                           Most(1, Rounded(plan.branches * (11500 + 45 * doubt), 10000)))
           node == Least(By(route.level, 40, 80, 144, 224),
                         Most(1, Rounded(plan.nodes * (11500 + 40 * doubt), 10000)))
           branches == Most(4, CASE mode = "full" -> branch
                                 [] panic -> Least(branch, Most(6, (plan.branches * 65) \div 100))
                                 [] OTHER -> Least(branch, Most(8, (plan.branches * 90) \div 100)))
           nodes == Most(8, CASE mode = "full" -> node
                              [] panic -> Least(node, Most(12, (plan.nodes * 60) \div 100))
                              [] OTHER -> Least(node, Most(16, (plan.nodes * 88) \div 100)))
           retrieval == Least(plan.retrieval + 2, IF panic THEN 2 ELSE 6)
           depth == Most(2, Least(12, Most(plan.depth, 2)
                                       + (IF Harder(route.level) THEN 1 ELSE 0)
                                       + (IF route.uncertainty >= 72 THEN 1 ELSE 0)))
           repair == IF panic THEN 1 ELSE Least(Most(plan.repair, 1) + 2, 5)
           critique == Least(Most(plan.critique, 1) + 2, IF panic THEN 2 ELSE 7)
<1>1. Ceilings(plan, route, mode) =
        [branches |-> branches, retrieval |-> retrieval, depth |-> depth, nodes |-> nodes,
         repair |-> repair, samples |-> branches, critique |-> critique]
  BY DEF Ceilings
<1> HIDE DEF doubt, branch, node, branches, nodes, retrieval, depth, repair, critique
<1>2. /\ plan.branches \in Nat /\ plan.nodes \in Nat /\ plan.retrieval \in Nat /\ plan.depth \in Nat
      /\ plan.repair \in Nat /\ plan.critique \in Nat /\ plan.branches >= 8 /\ plan.nodes >= 24
  BY DEF Plans, Parts, AtFloors
<1>3. doubt \in Nat /\ route.uncertainty \in 0..100
  BY RouteParts, SMT DEF Most, doubt
<1>4. branch \in Nat /\ branch >= 8
  <2> DEFINE f == 11500 + 45 * doubt
             most == By(route.level, 24, 48, 96, 160)
  <2>1. f \in Nat /\ f >= 10000
    BY <1>3, SMT
  <2>2. most \in Nat /\ most >= 24
    BY DEF By
  <2>3. branch = Least(most, Most(1, Rounded(plan.branches * f, 10000)))
    BY DEF branch
  <2> HIDE DEF f, most
  <2>4. Rounded(plan.branches * f, 10000) \in Nat /\ Rounded(plan.branches * f, 10000) >= plan.branches
    BY <1>2, <2>1, RaisedBy
  <2> QED BY <1>2, <2>2, <2>3, <2>4, SMT DEF Least, Most
<1>5. node \in Nat /\ node >= 24
  <2> DEFINE f == 11500 + 40 * doubt
             most == By(route.level, 40, 80, 144, 224)
  <2>1. f \in Nat /\ f >= 10000
    BY <1>3, SMT
  <2>2. most \in Nat /\ most >= 40
    BY DEF By
  <2>3. node = Least(most, Most(1, Rounded(plan.nodes * f, 10000)))
    BY DEF node
  <2> HIDE DEF f, most
  <2>4. Rounded(plan.nodes * f, 10000) \in Nat /\ Rounded(plan.nodes * f, 10000) >= plan.nodes
    BY <1>2, <2>1, RaisedBy
  <2> QED BY <1>2, <2>2, <2>3, <2>4, SMT DEF Least, Most
<1>6. branches \in Nat /\ (mode # "panic_save" => branches >= 8)
  BY <1>2, <1>4, SMT DEF Least, Most, Modes, branches
<1>7. nodes \in Nat /\ (mode # "panic_save" => nodes >= 16)
  BY <1>2, <1>5, SMT DEF Least, Most, Modes, nodes
<1>8. depth \in Nat /\ depth >= 2
  BY <1>2, <1>3, SMT DEF Least, Most, depth
<1>9. /\ retrieval \in Nat /\ repair \in Nat /\ critique \in Nat
      /\ mode # "panic_save" => repair >= 1 /\ critique >= 2
  BY <1>2, SMT DEF Least, Most, retrieval, repair, critique
<1>10. Ceilings(plan, route, mode) \in Plans
  BY <1>1, <1>6, <1>7, <1>8, <1>9 DEF Plans, Parts
<1>11. mode # "panic_save" => Roomy(Ceilings(plan, route, mode))
  BY <1>1, <1>6, <1>7, <1>8, <1>9 DEF Roomy
<1> QED BY <1>10, <1>11

-----------------------------------------------------------------------------
\* The other parts of a bundle.
LEMMA TokensTyped ==
  ASSUME NEW plan \in Plans, NEW route \in Routes, NEW mode \in Modes
  PROVE  TokenBudget(plan, route, mode) \in Nat
<1> DEFINE raw == 320 + 60 * plan.retrieval + 120 * Most(1, plan.critique) + 150 * Most(1, plan.repair)
                  + 30 * Most(1, plan.nodes) + 75 * Most(1, plan.samples)
           weighted == IF Harder(route.level) THEN Percent(raw, 110) ELSE raw
           factor == ByMode(mode, 100, 78, 50)
<1>1. /\ plan.retrieval \in Nat /\ plan.critique \in Nat /\ plan.repair \in Nat /\ plan.nodes \in Nat
      /\ plan.samples \in Nat
  BY DEF Plans, Parts
<1>2. raw \in Nat
  BY <1>1, SMT DEF Most
<1>3. TokenBudget(plan, route, mode) = Most(768, Percent(weighted, factor))
  BY DEF TokenBudget
<1>4. factor \in {100, 78, 50}
  BY DEF ByMode
<1> HIDE DEF raw, factor
<1>5. weighted \in Nat
  <2>1. Percent(raw, 110) \in Nat
    BY <1>2, Rounding, SMT DEF Percent
  <2> QED BY <1>2, <2>1
<1> HIDE DEF weighted
<1>6. Percent(weighted, factor) \in Nat
  BY <1>4, <1>5, Shrinking, SMTT(20)
<1> QED BY <1>3, <1>6, SMT DEF Most

\* What the tracker has left for a problem.
LEMMA SharesTyped ==
  ASSUME TypeOK, left > 0
  PROVE  /\ Remaining \in Nat /\ Share \in Nat /\ Share <= Remaining /\ ModeNow \in Modes
         /\ Remaining > 0 => Remaining = Available - spent
<1>1. left \in Nat /\ spent \in Nat /\ Available \in Nat
  BY BudgetAssumption DEF TypeOK
<1>2. Remaining \in Nat /\ (Remaining > 0 => Remaining = Available - spent)
  BY <1>1, SMT DEF Remaining, Most
<1> HIDE DEF Remaining
<1>3. Share \in Nat /\ Share <= Remaining
  <2> DEFINE q == Remaining \div left
  <2>1. q \in Nat /\ q * left <= Remaining
    BY <1>1, <1>2, SMT
  <2> HIDE DEF q
  <2>2. q <= q * left
    BY <1>1, <2>1, SMT
  <2>3. q * left \in Nat
    BY <1>1, <2>1, Products
  <2>4. q <= Remaining
    BY <1>2, <2>1, <2>2, <2>3, SMT
  <2> QED BY <2>1, <2>4 DEF Share, q
<1>4. ModeNow \in Modes
  BY DEF ModeNow, Modes
<1> QED BY <1>2, <1>3, <1>4

LEMMA WallTyped ==
  ASSUME TypeOK, left > 0, NEW route \in Routes, NEW mode \in Modes
  PROVE  /\ WallClockCap(route, mode) \in Nat
         /\ Share < 20 => WallClockCap(route, mode) = 20
         /\ Share >= 20 => WallClockCap(route, mode) <= Share
<1>1. Share \in Nat
  BY SharesTyped
<1>2. OwnTime(route, mode) \in Nat
  <2> DEFINE a == By(route.level, 210, 264, 309, 345)
             b == ByMode(mode, 100, 78, 50)
  <2>1. a \in Nat /\ b \in Nat
    BY DEF By, ByMode
  <2> HIDE DEF a, b
  <2>2. a * b \in Nat
    BY <2>1, Products
  <2> DEFINE ab == a * b
  <2> HIDE DEF ab
  <2>3. ab \div 100 \in Nat
    BY <2>2, SMT DEF ab
  <2> QED BY <2>3 DEF OwnTime, a, b, ab
<1> QED BY <1>1, <1>2, SMT DEF WallClockCap, Most, Least

\* A bundle as it is made, for any route in any mode.
LEMMA BundleMade ==
  ASSUME TypeOK, left > 0, NEW route \in Routes, NEW mode \in Modes
  PROVE  LET b == Bundle(route, mode)
         IN /\ b \in Records /\ b.mode = mode /\ b.born = mode
            /\ b.wall = WallClockCap(route, mode)
            /\ mode # "panic_save" => Sound(b)
<1> DEFINE base == NormalizePlan(route)
           ceilings == Ceilings(base, route, mode)
           plan == Constrained(base, ceilings, mode)
           wall == WallClockCap(route, mode)
           tokens == TokenBudget(base, route, mode)
           exit == EarlyExit(route, plan)
           widening == Widening(route, mode)
           u == route.uncertainty
           b == [mode |-> mode, born |-> mode, uncertainty |-> u, plan |-> plan, ceilings |-> ceilings,
                 wall |-> wall, tokens |-> tokens, exit |-> exit, widening |-> widening, widened |-> 0]
<1>1. Bundle(route, mode) = b
  BY DEF Bundle
<1>2. base \in Plans /\ AtFloors(base, 8, 24)
  BY NormalizedPlan
<1> HIDE DEF base
<1>3. ceilings \in Plans /\ (mode # "panic_save" => Roomy(ceilings))
  BY <1>2, CeilingsTyped
<1>4. tokens \in Nat
  BY <1>2, TokensTyped
<1> HIDE DEF ceilings, tokens
<1>5. plan \in Plans
  BY <1>2, <1>3, ConstrainedParts
<1>6. mode # "panic_save" => Under(plan, ceilings) /\ Floored(plan, mode)
  <2>1. AtFloors(base, 8, 16)
    <3>1. base.nodes \in Nat
      BY <1>2 DEF Plans, Parts
    <3> QED BY <1>2, <3>1, SMT DEF AtFloors
  <2> QED BY <1>2, <1>3, <2>1, ConstrainedSound
<1> HIDE DEF plan
<1>7. exit \in Nat
  <2>1. plan.branches \in Nat
    BY <1>5 DEF Plans, Parts
  <2> QED BY <2>1, SMT DEF EarlyExit, Most, Least
<1>8. wall \in Nat
  BY WallTyped
<1>9. u \in 0..100 /\ route.widens \in BOOLEAN
  BY RouteParts
<1>10. /\ widening \in Widenings
       /\ widening.branchGrowth \in Growths \cup {100} /\ widening.nodeGrowth \in Growths \cup {100}
  <2>1. (mode # "panic_save" /\ route.widens) \in BOOLEAN
    BY <1>9
  <2> DEFINE enabled == mode # "panic_save" /\ route.widens
  <2>2. widening = [enabled |-> enabled,
                    steps |-> IF mode = "panic_save" THEN 0 ELSE IF Harder(route.level) THEN 3 ELSE 2,
                    branchGrowth |-> ByMode(mode, 122, 112, 100),
                    nodeGrowth |-> ByMode(mode, 120, 110, 100)]
    BY DEF Widening
  <2> HIDE DEF enabled
  <2>3. enabled \in BOOLEAN
    BY <2>1 DEF enabled
  <2> QED BY <2>2, <2>3 DEF Widenings, ByMode, Growths
<1> HIDE DEF widening, exit, wall, u
<1>11. b \in Records
  BY <1>3, <1>4, <1>5, <1>7, <1>8, <1>9, <1>10 DEF Records, Plans, Widenings
<1>12. mode # "panic_save" => Sound(b)
  BY <1>3, <1>6, <1>10 DEF Sound
<1> QED BY <1>1, <1>11, <1>12 DEF wall

-----------------------------------------------------------------------------
\* What an adaptation does to a bundle.
LEMMA Degrading ==
  ASSUME NEW b \in Records, NEW obs
  PROVE  LET d == Degrade(b, obs)
             mode == IF 100 * obs.elapsed >= 98 * b.wall THEN "panic_save" ELSE "degraded"
         IN /\ d \in Records /\ d.mode = mode /\ d.plan = Constrained(b.plan, b.ceilings, mode)
            /\ d.born = b.born /\ d.ceilings = b.ceilings /\ d.wall = b.wall /\ d.tokens = b.tokens
            /\ d.widening = b.widening
<1> DEFINE mode == IF 100 * obs.elapsed >= 98 * b.wall THEN "panic_save" ELSE "degraded"
           plan == Constrained(b.plan, b.ceilings, mode)
           d == Degrade(b, obs)
<1>1. mode \in Modes
  BY DEF Modes
<1>2. b.plan \in Plans /\ b.ceilings \in Plans
  BY DEF Records, Plans
<1>3. d = [b EXCEPT !.mode = mode, !.plan = plan]
  BY DEF Degrade, Records
<1> HIDE DEF mode, d
<1>4. plan \in [Parts -> Nat]
  BY <1>1, <1>2, ConstrainedParts DEF Plans
<1>5. plan = Constrained(b.plan, b.ceilings, mode)
  OBVIOUS
<1> HIDE DEF plan
<1>6. d \in Records /\ d.mode = mode /\ d.plan = plan
        /\ d.born = b.born /\ d.ceilings = b.ceilings /\ d.wall = b.wall /\ d.tokens = b.tokens
        /\ d.widening = b.widening
  BY <1>1, <1>3, <1>4 DEF Records
<1> QED BY <1>5, <1>6 DEF mode, d

LEMMA WideningParts ==
  ASSUME NEW b \in Records, NEW steps \in Nat
  PROVE  LET w == Widen(b, steps)
             branches == Least(b.ceilings.branches, Scaled(b.plan.branches, b.widening.branchGrowth))
         IN /\ w \in Records /\ w.mode = b.mode
            /\ w.born = b.born /\ w.ceilings = b.ceilings /\ w.wall = b.wall /\ w.tokens = b.tokens
            /\ w.widening = b.widening
            /\ w.plan.branches = branches
            /\ w.plan.nodes = Least(b.ceilings.nodes, Scaled(b.plan.nodes, b.widening.nodeGrowth))
            /\ w.plan.retrieval = Least(b.ceilings.retrieval, b.plan.retrieval + 1)
            /\ w.plan.critique = Least(b.ceilings.critique, b.plan.critique + 1)
            /\ w.plan.repair = Least(b.ceilings.repair, b.plan.repair + 1)
            /\ w.plan.samples = Least(b.ceilings.branches, Most(b.plan.samples, branches))
            /\ w.plan.depth = b.plan.depth
<1> DEFINE p == b.plan
           grownBranches == Scaled(p.branches, b.widening.branchGrowth)
           grownNodes == Scaled(p.nodes, b.widening.nodeGrowth)
           branches == Least(b.ceilings.branches, grownBranches)
           nodes == Least(b.ceilings.nodes, grownNodes)
           retrieval == Least(b.ceilings.retrieval, p.retrieval + 1)
           critique == Least(b.ceilings.critique, p.critique + 1)
           repair == Least(b.ceilings.repair, p.repair + 1)
           samples == Least(b.ceilings.branches, Most(p.samples, branches))
           wider == [p EXCEPT !.branches = branches, !.nodes = nodes, !.retrieval = retrieval,
                              !.critique = critique, !.repair = repair, !.samples = samples]
           w == Widen(b, steps)
<1>1. p \in [Parts -> Nat] /\ b.ceilings \in [Parts -> Nat]
        /\ b.widening.branchGrowth \in Nat /\ b.widening.nodeGrowth \in Nat
  BY DEF Records
<1>2. w = [b EXCEPT !.plan = wider, !.widened = steps + 1]
  BY <1>1 DEF Widen, Parts
<1> HIDE DEF w
<1>3. p.branches \in Nat /\ p.nodes \in Nat
  BY <1>1 DEF Parts
<1>4. grownBranches \in Nat /\ grownNodes \in Nat
  <2>1. ASSUME NEW n \in Nat, NEW g \in Nat PROVE Scaled(n, g) \in Nat
    <3>1. Rounded(n * g, 100) \in Nat
      BY Products, Rounding
    <3> QED BY <3>1, SMT DEF Scaled, Percent, Most
  <2> QED BY <1>1, <1>3, <2>1
<1> HIDE DEF grownBranches, grownNodes
<1>5. /\ branches \in Nat /\ nodes \in Nat /\ retrieval \in Nat /\ critique \in Nat /\ repair \in Nat
      /\ samples \in Nat
  <2>1. \A q \in Parts : p[q] \in Nat /\ b.ceilings[q] \in Nat
    BY <1>1
  <2>2. /\ p.retrieval \in Nat /\ p.critique \in Nat /\ p.repair \in Nat /\ p.samples \in Nat
        /\ b.ceilings.branches \in Nat /\ b.ceilings.nodes \in Nat /\ b.ceilings.retrieval \in Nat
        /\ b.ceilings.critique \in Nat /\ b.ceilings.repair \in Nat
    BY <2>1 DEF Parts
  <2> QED BY <1>4, <2>2 DEF Least, Most
<1>6. /\ w.plan.branches = branches /\ w.plan.nodes = nodes /\ w.plan.retrieval = retrieval
      /\ w.plan.critique = critique /\ w.plan.repair = repair /\ w.plan.samples = samples
      /\ w.plan.depth = p.depth /\ w \in Records /\ w.mode = b.mode
      /\ w.born = b.born /\ w.ceilings = b.ceilings /\ w.wall = b.wall /\ w.tokens = b.tokens
      /\ w.widening = b.widening
  <2> HIDE DEF branches, nodes, retrieval, critique, repair, samples
  <2>1. /\ wider \in [Parts -> Nat] /\ wider.branches = branches /\ wider.nodes = nodes
        /\ wider.retrieval = retrieval /\ wider.critique = critique /\ wider.repair = repair
        /\ wider.samples = samples /\ wider.depth = p.depth
    BY <1>1, <1>5 DEF Parts
  <2> HIDE DEF wider
  <2>2. steps + 1 \in Nat
    OBVIOUS
  <2>3. w \in Records
    BY <1>2, <2>1, <2>2 DEF Records
  <2>4. /\ w.mode = b.mode /\ w.plan = wider /\ w.born = b.born /\ w.ceilings = b.ceilings
        /\ w.wall = b.wall /\ w.tokens = b.tokens /\ w.widening = b.widening
    BY <1>2 DEF Records
  <2> QED BY <2>1, <2>3, <2>4
<1> QED BY <1>6 DEF w, grownBranches, grownNodes

\* Widening under ceilings stays under them and takes nothing away.
LEMMA WideningGrows ==
  ASSUME NEW b \in Records, NEW steps \in Nat, Sound(b)
  PROVE  /\ Sound(Widen(b, steps))
         /\ \A p \in Parts : Widen(b, steps).plan[p] >= b.plan[p]
<1> DEFINE w == Widen(b, steps)
           grownBranches == Scaled(b.plan.branches, b.widening.branchGrowth)
           grownNodes == Scaled(b.plan.nodes, b.widening.nodeGrowth)
           branches == Least(b.ceilings.branches, grownBranches)
<1>1. /\ w \in Records /\ w.mode = b.mode
      /\ w.born = b.born /\ w.ceilings = b.ceilings /\ w.widening = b.widening
      /\ w.plan.branches = branches
      /\ w.plan.nodes = Least(b.ceilings.nodes, grownNodes)
      /\ w.plan.retrieval = Least(b.ceilings.retrieval, b.plan.retrieval + 1)
      /\ w.plan.critique = Least(b.ceilings.critique, b.plan.critique + 1)
      /\ w.plan.repair = Least(b.ceilings.repair, b.plan.repair + 1)
      /\ w.plan.samples = Least(b.ceilings.branches, Most(b.plan.samples, branches))
      /\ w.plan.depth = b.plan.depth
  BY WideningParts
<1> HIDE DEF w
<1>2. \A p \in Parts : b.plan[p] \in Nat /\ b.ceilings[p] \in Nat /\ b.plan[p] <= b.ceilings[p]
  BY DEF Records, Sound, Under
<1>3. /\ b.plan.branches \in Nat /\ b.plan.nodes \in Nat /\ b.plan.retrieval \in Nat
      /\ b.plan.critique \in Nat /\ b.plan.repair \in Nat /\ b.plan.samples \in Nat /\ b.plan.depth \in Nat
      /\ b.ceilings.branches \in Nat /\ b.ceilings.nodes \in Nat /\ b.ceilings.retrieval \in Nat
      /\ b.ceilings.critique \in Nat /\ b.ceilings.repair \in Nat /\ b.ceilings.samples \in Nat
      /\ b.ceilings.depth \in Nat
      /\ b.plan.branches <= b.ceilings.branches /\ b.plan.nodes <= b.ceilings.nodes
      /\ b.plan.retrieval <= b.ceilings.retrieval /\ b.plan.critique <= b.ceilings.critique
      /\ b.plan.repair <= b.ceilings.repair /\ b.plan.samples <= b.ceilings.samples
      /\ b.plan.depth <= b.ceilings.depth
  BY <1>2 DEF Parts
<1>4. b.ceilings.samples = b.ceilings.branches
  BY DEF Sound, Roomy
<1>5. /\ grownBranches \in Nat /\ grownBranches >= b.plan.branches
      /\ grownNodes \in Nat /\ grownNodes >= b.plan.nodes
  BY <1>3, Growing DEF Sound
<1> HIDE DEF grownBranches, grownNodes
<1>6. /\ w.plan.branches >= b.plan.branches /\ w.plan.nodes >= b.plan.nodes
      /\ w.plan.retrieval >= b.plan.retrieval /\ w.plan.critique >= b.plan.critique
      /\ w.plan.repair >= b.plan.repair /\ w.plan.samples >= b.plan.samples
      /\ w.plan.depth >= b.plan.depth
      /\ w.plan.branches <= b.ceilings.branches /\ w.plan.nodes <= b.ceilings.nodes
      /\ w.plan.retrieval <= b.ceilings.retrieval /\ w.plan.critique <= b.ceilings.critique
      /\ w.plan.repair <= b.ceilings.repair /\ w.plan.samples <= b.ceilings.samples
      /\ w.plan.depth <= b.ceilings.depth
  BY <1>1, <1>3, <1>4, <1>5, SMT DEF Least, Most
<1>7. \A p \in Parts : w.plan[p] >= b.plan[p] /\ w.plan[p] <= b.ceilings[p]
  BY <1>6 DEF Parts
<1>8. \A p \in Parts : w.plan[p] \in Nat
  BY <1>1 DEF Records
<1>9. Floored(w.plan, w.mode)
  <2>1. /\ w.plan.branches \in Nat /\ w.plan.samples \in Nat /\ w.plan.nodes \in Nat
        /\ w.plan.depth \in Nat /\ w.plan.repair \in Nat /\ w.plan.critique \in Nat
    BY <1>8 DEF Parts
  <2>2. \A k \in {6, 8}, l \in {12, 16} : AtFloors(b.plan, k, l) => AtFloors(w.plan, k, l)
    BY <2>1, <1>3, <1>6, SMT DEF AtFloors
  <2> QED BY <2>2, <1>1 DEF Sound, Floored
<1>10. Sound(w)
  BY <1>1, <1>7, <1>9 DEF Sound, Under
<1> QED BY <1>7, <1>10 DEF w

\* Degrading, from a sound bundle, to a sound one with less of everything, but
\* for the critique; in panic also of that.
LEMMA DegradingSound ==
  ASSUME NEW b \in Records, NEW obs, Sound(b),
         b.mode = "panic_save" => 100 * obs.elapsed >= 98 * b.wall
  PROVE  /\ Sound(Degrade(b, obs))
         /\ \A p \in Parts \ {"critique"} : Degrade(b, obs).plan[p] <= b.plan[p]
         /\ b.mode = "panic_save" =>
              /\ Degrade(b, obs).mode = "panic_save"
              /\ \A p \in Parts : Degrade(b, obs).plan[p] <= b.plan[p]
<1> DEFINE mode == IF 100 * obs.elapsed >= 98 * b.wall THEN "panic_save" ELSE "degraded"
           d == Degrade(b, obs)
<1>1. /\ d \in Records /\ d.mode = mode /\ d.plan = Constrained(b.plan, b.ceilings, mode)
      /\ d.ceilings = b.ceilings /\ d.widening = b.widening
  BY Degrading
<1>2. b.plan \in Plans /\ b.ceilings \in Plans /\ b.mode \in Modes
  BY DEF Records, Plans
<1>3. mode \in {"degraded", "panic_save"} /\ mode \in Modes /\ (b.mode = "panic_save" => mode = "panic_save")
  BY DEF Modes
<1> HIDE DEF mode, d
<1>4. Floored(b.plan, mode) \/ AtFloors(b.plan, 8, 16)
  BY <1>3 DEF Sound, Floored
<1>5. /\ \A p \in Parts \ {"critique"} : d.plan[p] <= b.plan[p]
      /\ mode = "panic_save" => d.plan.critique <= b.plan.critique
  BY <1>1, <1>2, <1>3, <1>4, DegradingShrinks
<1>6. mode = "panic_save" => \A p \in Parts : d.plan[p] <= b.plan[p]
  BY <1>5 DEF Parts
<1>7. Under(d.plan, b.ceilings) /\ Floored(d.plan, mode)
  BY <1>1, <1>2, <1>3, ConstrainedSound DEF Sound
<1>8. Sound(d)
  BY <1>1, <1>7 DEF Sound
<1> QED BY <1>1, <1>3, <1>5, <1>6, <1>8 DEF d

-----------------------------------------------------------------------------
\* What can be observed of a count is up to that count.
LEMMA PointsBounded == ASSUME NEW n \in Nat, NEW x \in Points(n) PROVE x \in Nat /\ x <= n
  BY SMT DEF Points

LEMMA ObservedTyped ==
  ASSUME NEW b \in Records, bundle = b, NEW obs \in Seen
  PROVE  obs \in [DOMAIN Nothing -> Nat]
<1>1. /\ b.wall \in Nat /\ b.tokens \in Nat /\ b.ceilings.branches \in Nat /\ b.ceilings.nodes \in Nat
  BY DEF Records, Parts
<1>2. /\ obs \in [elapsed : Points(b.wall), tokens : {0, b.tokens},
                  branches : Points(b.ceilings.branches), nodes : {0, b.ceilings.nodes}]
  BY DEF Seen
<1>3. obs \in [elapsed : Nat, tokens : Nat, branches : Nat, nodes : Nat]
  BY <1>1, <1>2, PointsBounded
<1>4. DOMAIN Nothing = {"elapsed", "tokens", "branches", "nodes"}
  BY DEF Nothing
<1> QED BY <1>3, <1>4

\* What an adaptation comes to.
Stops(obs) == IF MustStop(bundle, obs) THEN {"stop"} ELSE {}
LEMMA Adapting ==
  ASSUME IInv, Adapt
  PROVE  \E obs \in Seen :
           /\ obs.elapsed >= seen.elapsed /\ seen' = obs
           /\ \/ bundle' = bundle /\ decision' = {"stop"}
              \/ /\ bundle' = Degrade(bundle, obs) /\ decision' = {"degrade"} \cup Stops(obs)
              \/ \E steps \in Nat :
                   /\ bundle' = Widen(bundle, steps) /\ decision' = {"widen"}
                   /\ ~NearCeiling(bundle, obs)
              \/ bundle' = bundle /\ decision' = Stops(obs) /\ ~NearCeiling(bundle, obs)
<1>1. bundle \in Records
  BY DEF Adapt, IInv, TypeOK
<1>2. PICK obs \in Seen, forced \in BOOLEAN, confident \in BOOLEAN, doubtful \in BOOLEAN,
           steps \in {0, bundle.widened} :
        Later(obs) /\ Adapted(obs, forced, confident, doubtful, steps) /\ seen' = obs
  BY DEF Adapt
<1>3. steps \in Nat
  BY <1>1, <1>2 DEF Records
<1>4. obs.elapsed >= seen.elapsed
  <2>1. "elapsed" \in DOMAIN obs
    BY <1>2 DEF Seen
  <2> QED BY <1>2, <2>1 DEF Later
<1> DEFINE early == confident /\ obs.branches >= bundle.exit
           tight == Pressure(bundle, obs) >= 9200 \/ NearCeiling(bundle, obs)
           doubts == /\ doubtful \/ bundle.uncertainty >= 28
                     /\ bundle.widening.enabled /\ steps < bundle.widening.steps
<1>5. CASE forced \/ early
  <2>1. bundle' = bundle /\ decision' = {"stop"}
    BY <1>2, <1>5 DEF Adapted
  <2> QED BY <1>2, <1>4, <2>1
<1>6. CASE ~(forced \/ early) /\ tight
  <2>1. bundle' = Degrade(bundle, obs) /\ decision' = {"degrade"} \cup Stops(obs)
    BY <1>2, <1>6 DEF Adapted, Stops
  <2> QED BY <1>2, <1>4, <2>1
<1>7. CASE ~(forced \/ early \/ tight) /\ doubts
  <2>1. bundle' = Widen(bundle, steps) /\ decision' = {"widen"}
    BY <1>2, <1>7 DEF Adapted
  <2> QED BY <1>2, <1>3, <1>4, <1>7, <2>1
<1>8. CASE ~(forced \/ early \/ tight) /\ ~doubts
  <2>1. bundle' = bundle /\ decision' = Stops(obs)
    BY <1>2, <1>8 DEF Adapted, Stops
  <2> QED BY <1>2, <1>4, <1>8, <2>1
<1> QED BY <1>5, <1>6, <1>7, <1>8

\* What the two action properties say of one step.
PanicStays ==
  bundle # NoBundle /\ bundle' # NoBundle /\ bundle.mode = "panic_save"
    /\ bundle.born # "panic_save"
  => bundle'.mode = "panic_save" /\ \A p \in Parts : bundle'.plan[p] <= bundle.plan[p]
MovesAsDecided ==
  bundle # NoBundle /\ bundle' # NoBundle /\ bundle.born # "panic_save" =>
    /\ "widen" \in decision' => \A p \in Parts : bundle'.plan[p] >= bundle.plan[p]
    /\ "degrade" \in decision' =>
         \A p \in Parts \ {"critique"} : bundle'.plan[p] <= bundle.plan[p]

\* An adaptation.
LEMMA AdaptKeeps ==
  ASSUME IInv, Adapt
  PROVE  IInv' /\ PanicStays /\ MovesAsDecided
<1>1. /\ bundle \in Records /\ bundle # NoBundle /\ UNCHANGED <<spent, left, floored>>
      /\ adapts' = adapts + 1 /\ adapts \in 0..MaxAdapts /\ adapts < MaxAdapts /\ MaxAdapts \in Nat
  BY BudgetAssumption DEF Adapt, IInv, TypeOK
<1>2. PICK obs \in Seen :
        /\ obs.elapsed >= seen.elapsed /\ seen' = obs
        /\ \/ bundle' = bundle /\ decision' = {"stop"}
           \/ /\ bundle' = Degrade(bundle, obs) /\ decision' = {"degrade"} \cup Stops(obs)
           \/ \E steps \in Nat :
                /\ bundle' = Widen(bundle, steps) /\ decision' = {"widen"}
                /\ ~NearCeiling(bundle, obs)
           \/ bundle' = bundle /\ decision' = Stops(obs) /\ ~NearCeiling(bundle, obs)
  BY Adapting
<1>3. obs \in [DOMAIN Nothing -> Nat] /\ seen \in [DOMAIN Nothing -> Nat]
  BY <1>1, ObservedTyped DEF IInv, TypeOK
<1>4. /\ obs.elapsed \in Nat /\ obs.tokens \in Nat /\ obs.branches \in Nat /\ obs.nodes \in Nat
      /\ seen.elapsed \in Nat
  BY <1>3 DEF Nothing
<1>5. /\ bundle.wall \in Nat /\ bundle.tokens \in Nat /\ bundle.ceilings.branches \in Nat
      /\ bundle.ceilings.nodes \in Nat
      /\ \A p \in Parts : bundle.plan[p] \in Nat
  BY <1>1 DEF Records, Parts
<1>6. bundle.born # "panic_save" /\ bundle.mode = "panic_save" =>
        100 * obs.elapsed >= 98 * bundle.wall
  BY <1>1, <1>2, <1>4, <1>5, SMT DEF IInv, PanicByClock
<1>7. 100 * obs.elapsed >= 98 * bundle.wall => NearCeiling(bundle, obs)
  BY <1>4, <1>5, SMT DEF NearCeiling
<1>8. MustStop(bundle, obs) => NearCeiling(bundle, obs)
  BY <1>4, <1>5, SMT DEF NearCeiling, MustStop
<1>9. bundle.born # "panic_save" => Sound(bundle)
  BY <1>1 DEF IInv
\* The bundle stays one and keeps its limits.
<1>10. /\ bundle' \in Records /\ bundle'.wall = bundle.wall /\ bundle'.tokens = bundle.tokens
       /\ bundle'.ceilings = bundle.ceilings /\ bundle'.born = bundle.born
       /\ bundle.born # "panic_save" => Sound(bundle')
       /\ decision' \subseteq {"stop", "widen", "degrade"}
       /\ bundle'.mode = "panic_save" /\ bundle.born # "panic_save"
            => 100 * obs.elapsed >= 98 * bundle.wall
       /\ MustStop(bundle, obs) => "stop" \in decision'
       /\ PanicStays /\ MovesAsDecided
  <2>1. CASE bundle' = bundle /\ decision' = {"stop"}
    BY <1>1, <1>5, <1>6, <1>9, <2>1 DEF PanicStays, MovesAsDecided
  <2>2. CASE bundle' = Degrade(bundle, obs) /\ decision' = {"degrade"} \cup Stops(obs)
    <3> DEFINE mode == IF 100 * obs.elapsed >= 98 * bundle.wall THEN "panic_save" ELSE "degraded"
    <3>1. /\ bundle' \in Records /\ bundle'.mode = mode
          /\ bundle'.born = bundle.born /\ bundle'.ceilings = bundle.ceilings
          /\ bundle'.wall = bundle.wall /\ bundle'.tokens = bundle.tokens
      BY <1>1, <2>2, Degrading
    <3>2. bundle.born # "panic_save" =>
            /\ Sound(bundle')
            /\ \A p \in Parts \ {"critique"} : bundle'.plan[p] <= bundle.plan[p]
            /\ bundle.mode = "panic_save" =>
                 /\ bundle'.mode = "panic_save"
                 /\ \A p \in Parts : bundle'.plan[p] <= bundle.plan[p]
      <4> SUFFICES ASSUME bundle.born # "panic_save"
                   PROVE  /\ Sound(Degrade(bundle, obs))
                          /\ \A p \in Parts \ {"critique"} : Degrade(bundle, obs).plan[p] <= bundle.plan[p]
                          /\ bundle.mode = "panic_save" =>
                               /\ Degrade(bundle, obs).mode = "panic_save"
                               /\ \A p \in Parts : Degrade(bundle, obs).plan[p] <= bundle.plan[p]
        BY <2>2
      <4> QED BY <1>1, <1>6, <1>9, DegradingSound
    <3>3. decision' \subseteq {"stop", "widen", "degrade"} /\ "widen" \notin decision'
            /\ (MustStop(bundle, obs) => "stop" \in decision')
      BY <2>2 DEF Stops
    <3>4. bundle'.mode = "panic_save" => 100 * obs.elapsed >= 98 * bundle.wall
      BY <3>1
    <3> QED BY <3>1, <3>2, <3>3, <3>4 DEF PanicStays, MovesAsDecided
  <2>3. ASSUME NEW steps \in Nat, bundle' = Widen(bundle, steps), decision' = {"widen"},
               ~NearCeiling(bundle, obs)
        PROVE  <1>10
    <3>1. /\ bundle' \in Records /\ bundle'.mode = bundle.mode
          /\ bundle'.born = bundle.born /\ bundle'.ceilings = bundle.ceilings
          /\ bundle'.wall = bundle.wall /\ bundle'.tokens = bundle.tokens
      BY <1>1, <2>3, WideningParts
    <3>2. bundle.born # "panic_save" =>
            Sound(bundle') /\ \A p \in Parts : bundle'.plan[p] >= bundle.plan[p]
      BY <1>1, <1>9, <2>3, WideningGrows
    <3>3. ~MustStop(bundle, obs) /\ ~(bundle.born # "panic_save" /\ bundle.mode = "panic_save")
      BY <1>6, <1>7, <1>8, <2>3
    <3> QED BY <2>3, <3>1, <3>2, <3>3 DEF PanicStays, MovesAsDecided
  <2>4. CASE bundle' = bundle /\ decision' = Stops(obs) /\ ~NearCeiling(bundle, obs)
    <3>1. decision' \subseteq {"stop"} /\ ~MustStop(bundle, obs)
      BY <1>8, <2>4 DEF Stops
    <3> QED BY <1>1, <1>5, <1>6, <1>9, <2>4, <3>1 DEF PanicStays, MovesAsDecided
  <2> QED BY <1>2, <2>1, <2>2, <2>3, <2>4
<1>11. bundle' # NoBundle
  <2>1. bundle'.mode \in Modes /\ NoBundle.mode = "none"
    BY <1>10 DEF Records, NoBundle
  <2> QED BY <2>1 DEF Modes
<1>12. TypeOK'
  BY <1>1, <1>2, <1>3, <1>10 DEF IInv, TypeOK
<1>13. Provided' /\ PanicByClock'
  BY <1>1, <1>2, <1>10, <1>11 DEF IInv, Provided, PanicByClock
<1>14. ExhaustedStops'
  BY <1>2, <1>10 DEF ExhaustedStops, MustStop
<1>15. (bundle # NoBundle /\ bundle.born # "panic_save" => Sound(bundle))'
  BY <1>10
<1> QED BY <1>10, <1>12, <1>13, <1>14, <1>15 DEF IInv

\* A problem is started.
LEMMA StartKeeps ==
  ASSUME IInv, Start
  PROVE  IInv' /\ PanicStays /\ MovesAsDecided
<1>1. /\ left > 0 /\ Remaining > 0 /\ bundle = NoBundle /\ TypeOK
      /\ floored' = floored + (IF Share < 20 THEN 1 ELSE 0)
      /\ seen' = Nothing /\ adapts' = 0 /\ decision' = {} /\ UNCHANGED <<spent, left>>
  BY DEF Start, IInv
<1>2. PICK route \in Routes : bundle' = Bundle(route, ModeNow)
  BY DEF Start
<1>3. Remaining \in Nat /\ Share \in Nat /\ Share <= Remaining /\ ModeNow \in Modes
        /\ Remaining = Available - spent
  BY <1>1, SharesTyped
<1> DEFINE mode == ModeNow
<1> HIDE DEF mode
<1>4. mode = ModeNow /\ mode \in Modes
  BY <1>3 DEF mode
<1>5. bundle' = Bundle(route, mode)
  BY <1>2, <1>4
<1>6. /\ Bundle(route, mode) \in Records /\ Bundle(route, mode).mode = mode
      /\ Bundle(route, mode).born = mode
      /\ Bundle(route, mode).wall = WallClockCap(route, mode)
      /\ mode # "panic_save" => Sound(Bundle(route, mode))
  BY <1>1, <1>4, BundleMade
<1>7. /\ bundle' \in Records /\ bundle'.mode = mode /\ bundle'.born = mode
      /\ bundle'.wall = WallClockCap(route, mode)
      /\ mode # "panic_save" => Sound(bundle')
  BY <1>5, <1>6
<1>8. bundle' # NoBundle
  <2>1. NoBundle.mode = "none"
    BY DEF NoBundle
  <2> QED BY <1>4, <1>7, <2>1 DEF Modes
<1>9. /\ bundle'.wall \in Nat
      /\ Share < 20 => bundle'.wall = 20
      /\ Share >= 20 => bundle'.wall <= Share
  BY <1>1, <1>4, <1>7, WallTyped
<1>10. /\ spent \in Nat /\ left \in 0..Problems /\ floored \in 0..Problems /\ Available \in Nat
       /\ Problems \in Nat /\ MaxAdapts \in Nat
  BY <1>1, BudgetAssumption DEF TypeOK
<1>11. /\ spent <= Available + 20 * floored /\ floored + left <= Problems
  <2>1. spent + 0 <= Available + 20 * floored /\ floored + left <= Problems + 0
    BY <1>1 DEF IInv, Provided
  <2> QED BY <1>10, <2>1, SMT
<1>12. /\ spent + bundle'.wall <= Available + 20 * floored' /\ floored' + left <= Problems + 1
       /\ floored' \in 0..Problems
  BY <1>1, <1>3, <1>9, <1>10, <1>11, SMT
<1>13. Provided'
  BY <1>1, <1>8, <1>12 DEF Provided
<1>14. TypeOK'
  <2>1. Nothing \in [DOMAIN Nothing -> Nat]
    BY DEF Nothing
  <2> QED BY <1>1, <1>7, <1>10, <1>12, <2>1 DEF TypeOK
<1>15. PanicByClock' /\ ExhaustedStops'
  BY <1>1, <1>7 DEF PanicByClock, ExhaustedStops
<1>16. (bundle # NoBundle /\ bundle.born # "panic_save" => Sound(bundle))'
  BY <1>7
<1> QED BY <1>1, <1>13, <1>14, <1>15, <1>16 DEF IInv, PanicStays, MovesAsDecided

\* A problem ends.
LEMMA FinishKeeps ==
  ASSUME IInv, Finish
  PROVE  IInv' /\ PanicStays /\ MovesAsDecided
<1>1. /\ bundle # NoBundle /\ bundle \in Records /\ bundle' = NoBundle /\ left' = left - 1
      /\ seen' = Nothing /\ adapts' = 0 /\ decision' = {} /\ floored' = floored
  BY DEF Finish, IInv, TypeOK
<1>2. PICK elapsed \in Points(bundle.wall) : spent' = spent + elapsed
  BY DEF Finish, SpentAfter
<1>3. bundle.wall \in Nat /\ elapsed \in Nat /\ elapsed <= bundle.wall
  <2>1. bundle.wall \in Nat
    BY <1>1 DEF Records
  <2> QED BY <1>2, <2>1, PointsBounded
<1>4. /\ spent \in Nat /\ left \in 0..Problems /\ floored \in 0..Problems /\ Available \in Nat
      /\ Problems \in Nat /\ MaxAdapts \in Nat
  BY BudgetAssumption DEF IInv, TypeOK
<1>5. /\ spent + bundle.wall <= Available + 20 * floored /\ floored + left <= Problems + 1 /\ left > 0
  BY <1>1 DEF IInv, Provided
<1>6. /\ spent' <= Available + 20 * floored /\ floored + left' <= Problems /\ left' \in 0..Problems
      /\ spent' \in Nat
  BY <1>1, <1>2, <1>3, <1>4, <1>5, SMT
<1>7. Provided'
  <2>1. spent' + 0 <= Available + 20 * floored' /\ floored' + left' <= Problems + 0
    <3>1. floored' = floored
      BY <1>1
    <3>2. ASSUME NEW n \in Nat PROVE n + 0 = n
      BY SMT
    <3>3. Problems + 0 = Problems /\ spent' + 0 = spent'
      BY <1>4, <1>6, <3>2, Zenon
    <3> QED BY <1>6, <3>1, <3>3, Zenon
  <2> QED BY <1>1, <2>1 DEF Provided
<1>8. TypeOK'
  <2>1. Nothing \in [DOMAIN Nothing -> Nat]
    BY DEF Nothing
  <2> QED BY <1>1, <1>4, <1>6, <2>1 DEF TypeOK
<1>9. PanicByClock' /\ ExhaustedStops'
  BY <1>1 DEF PanicByClock, ExhaustedStops
<1> QED BY <1>1, <1>7, <1>8, <1>9 DEF IInv, PanicStays, MovesAsDecided

LEMMA InitIInv == Init => IInv
<1> SUFFICES ASSUME Init PROVE IInv
  OBVIOUS
<1>1. TypeOK
  <2>1. Nothing \in [DOMAIN Nothing -> Nat]
    BY DEF Nothing
  <2> QED BY <2>1, BudgetAssumption DEF Init, TypeOK
<1>2. Provided
  BY BudgetAssumption DEF Init, Provided
<1> QED BY <1>1, <1>2 DEF Init, IInv, PanicByClock, ExhaustedStops

LEMMA StutterKeeps == IInv /\ UNCHANGED vars => IInv'
BY DEF vars, IInv, TypeOK, Provided, PanicByClock, ExhaustedStops

\* The invariant behind the theorems: the time of the problem at hand is
\* provided for, plans are between floors and ceilings, and panic comes with
\* the clock.
THEOREM SpecIInv == Spec => []IInv
<1>1. IInv /\ [Next]_vars => IInv'
  BY StartKeeps, AdaptKeeps, FinishKeeps, StutterKeeps DEF Next
<1> QED BY <1>1, InitIInv, PTL DEF Spec

\* Bundles hold what RuntimeBudgetBundle declares.
THEOREM SpecTypeOK == Spec => []TypeOK
<1>1. IInv => TypeOK
  BY DEF IInv
<1> QED BY <1>1, SpecIInv, PTL

\* No part of a plan is above its ceiling whatever mixture of narrowing and
\* widening AdaptiveBudgetPlanner.adapt went through, and the adaptation that
\* sees a budget used up says stop.
THEOREM SpecCeilingsBind == Spec => []CeilingsBind
<1>1. IInv => CeilingsBind
  BY DEF IInv, CeilingsBind, CeilingsHold, Sound, Under
<1> QED BY <1>1, SpecIInv, PTL

\* GlobalBudgetTracker overdraws its budget by at most the twenty seconds of
\* each problem whose share was smaller, for any run and any routes.
THEOREM SpecKeepsBudget == Spec => []KeepsBudget
<1>1. IInv => KeepsBudget
  <2> SUFFICES ASSUME IInv PROVE KeepsBudget
    OBVIOUS
  <2>1. /\ spent \in Nat /\ floored \in Nat /\ Available \in Nat
        /\ bundle # NoBundle => bundle.wall \in Nat
    BY BudgetAssumption DEF IInv, TypeOK, Records
  <2> QED BY <2>1, SMT DEF IInv, Provided, KeepsBudget
<1> QED BY <1>1, SpecIInv, PTL

\* _widen only grows a plan and _degrade only shrinks it, and panic that came
\* with the clock is for good.
THEOREM SpecAdaptsOneWay == Spec => AdaptsOneWay
<1>1. IInv /\ [Next]_vars => [PanicStays]_vars /\ [MovesAsDecided]_vars
  BY StartKeeps, AdaptKeeps, FinishKeeps DEF Next
<1> QED BY <1>1, SpecIInv, PTL
        DEF Spec, AdaptsOneWay, PanicIsFinal, WideningGrowsDegradingShrinks, PanicStays, MovesAsDecided
=============================================================================
