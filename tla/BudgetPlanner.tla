--------------------------- MODULE BudgetPlanner ---------------------------
(***************************************************************************)
(* AdaptiveBudgetPlanner and GlobalBudgetTracker,                          *)
(* imo3_hybrid/src/online/adaptive_budget.py: how the time of a whole run  *)
(* is shared out, what one problem may spend, and how that is narrowed or  *)
(* widened while the problem is being solved.                              *)
(*                                                                         *)
(* Scores, factors and thresholds are the code's, in hundredths; rounding  *)
(* is Python's (a half goes to the even neighbour).  Times are seconds.    *)
(***************************************************************************)
EXTENDS Integers

CONSTANTS
  Available,    \* total_budget_s less reserve_s
  Problems,     \* bound: how many problems the run has
  MaxAdapts,    \* bound: adaptations of one bundle
  Difficulties, \* the difficulties that occur
  Scores,       \* the values uncertainty and difficulty_score take
  Spreads,      \* bound: <<archetype_spread, operator_spread>> that occur
  RoutePlans    \* the budget plans routes come with

Levels == {"easy", "medium", "hard", "very_hard"}
Modes == {"full", "degraded", "panic_save"}
\* The parts of a BudgetPlan that are numbers.
Parts == {"branches", "retrieval", "depth", "nodes", "repair", "samples", "critique"}

ASSUME BudgetAssumption ==
  /\ Available \in Nat /\ Problems \in Nat /\ MaxAdapts \in Nat
  /\ Difficulties \subseteq Levels /\ Scores \subseteq 0..100
  /\ Spreads \subseteq (0..100) \X (0..100) /\ RoutePlans \subseteq [Parts -> Nat]

VARIABLES
  spent,    \* spent_s of the tracker
  left,     \* problems not finished, the current one included
  floored,  \* history: problems that got the 20 seconds of the floor
  bundle,   \* the RuntimeBudgetBundle of the problem at hand, or NoBundle
  seen,     \* the last observation of the problem
  adapts,   \* history: adaptations of this bundle
  decision  \* what the last adaptation decided: stop, widen, degrade
vars == <<spent, left, floored, bundle, seen, adapts, decision>>

Most(a, b) == IF a > b THEN a ELSE b
Least(a, b) == IF a < b THEN a ELSE b
Rounded(n, d) ==
  LET q == n \div d  twice == 2 * (n % d) IN
  IF twice < d \/ (twice = d /\ q % 2 = 0) THEN q ELSE q + 1
Percent(n, p) == Rounded(n * p, 100)
Scaled(n, p) == Most(1, Percent(n, p))

Harder(level) == level \in {"hard", "very_hard"}
By(level, easy, medium, hard, veryHard) ==
  CASE level = "easy" -> easy [] level = "medium" -> medium
    [] level = "hard" -> hard [] OTHER -> veryHard
ByMode(mode, full, degraded, panic) ==
  CASE mode = "full" -> full [] mode = "degraded" -> degraded [] OTHER -> panic

Routes == [level : Difficulties, score : Scores, uncertainty : Scores,
           spread : Spreads, plan : RoutePlans, widens : BOOLEAN]

-----------------------------------------------------------------------------
\* The tracker: what is left, and the share of each remaining problem.
Remaining == Most(0, Available - spent)
Share == Remaining \div left

\* The mode the share asks for.
ModeNow == IF Remaining < 25 * left THEN "panic_save"
           ELSE IF Remaining < 45 * left THEN "degraded" ELSE "full"

\* The time a problem gets (UnsharedCap: the share of the rest is left out).
OwnTime(route, mode) == (By(route.level, 210, 264, 309, 345) * ByMode(mode, 100, 78, 50)) \div 100
UnsharedCap(route, mode) == Most(20, OwnTime(route, mode))
WallClockCap(route, mode) == Most(20, Least(OwnTime(route, mode), Share))

\* The route's plan, raised to what the difficulty and the doubts ask for.
Intensity(route) == 38 * route.score + 27 * route.uncertainty
                    + 20 * route.spread[1] + 15 * route.spread[2]
NormalizePlan(route) ==
  LET own == route.plan
      level == route.level
      u == route.uncertainty
      grown(base, factor) == Most(base, Rounded(base * (1000000 + factor * Intensity(route)), 1000000))
      asked(base, hundredths) == Most(base, Rounded(100 * base + hundredths, 100))
      base == grown(By(level, 8, 16, 48, 96), 70)
      merged ==
        [branches  |-> base,
         retrieval |-> asked(By(level, 2, 3, 4, 5), 2 * u + (120 * route.spread[1]) \div 100),
         depth     |-> asked(By(level, 4, 6, 7, 8), (150 * route.score + 150 * u) \div 100),
         nodes     |-> grown(By(level, 24, 64, 128, 192), 55),
         repair    |-> 1 + (IF Harder(level) THEN 1 ELSE 0) + (IF u >= 72 THEN 1 ELSE 0),
         samples   |-> Most(base, Rounded(base * (10000 + 12 * u), 10000)),
         critique  |-> Least(5, Most(1, base \div 16))]
  IN [p \in Parts |-> Most(merged[p], own[p])]

\* The ceilings; samples share the one of the branches.
Ceilings(plan, route, mode) ==
  LET doubt == Most(route.uncertainty, route.score)
      branch == Least(By(route.level, 24, 48, 96, 160),
                      Most(1, Rounded(plan.branches * (11500 + 45 * doubt), 10000)))
      node == Least(By(route.level, 40, 80, 144, 224),
                    Most(1, Rounded(plan.nodes * (11500 + 40 * doubt), 10000)))
      panic == mode = "panic_save"
      branches == Most(4, CASE mode = "full" -> branch
                            [] panic -> Least(branch, Most(6, (plan.branches * 65) \div 100))
                            [] OTHER -> Least(branch, Most(8, (plan.branches * 90) \div 100)))
      nodes == Most(8, CASE mode = "full" -> node
                         [] panic -> Least(node, Most(12, (plan.nodes * 60) \div 100))
                         [] OTHER -> Least(node, Most(16, (plan.nodes * 88) \div 100)))
  IN [branches  |-> branches,
      retrieval |-> Least(plan.retrieval + 2, IF panic THEN 2 ELSE 6),
      depth     |-> Most(2, Least(12, Most(plan.depth, 2)
                                  + (IF Harder(route.level) THEN 1 ELSE 0)
                                  + (IF route.uncertainty >= 72 THEN 1 ELSE 0))),
      nodes     |-> nodes,
      repair    |-> IF panic THEN 1 ELSE Least(Most(plan.repair, 1) + 2, 5),
      samples   |-> branches,
      critique  |-> Least(Most(plan.critique, 1) + 2, IF panic THEN 2 ELSE 7)]

\* The plan under its ceilings, then narrowed and kept at the floors of the mode.
Narrowed(capped, mode) ==
  CASE mode = "degraded" ->
         [capped EXCEPT !.branches = Most(8, Percent(@, 82)), !.samples = Most(8, Percent(@, 82)),
                        !.nodes = Most(16, Percent(@, 82)), !.retrieval = Most(0, @ - 1),
                        !.critique = Most(2, Least(@, 4))]
    [] mode = "panic_save" ->
         [capped EXCEPT !.branches = Most(6, Percent(@, 60)), !.samples = Most(6, Percent(@, 60)),
                        !.nodes = Most(12, Percent(@, 55)), !.depth = Most(2, Least(@, 4)),
                        !.retrieval = Least(@, 1), !.critique = 1, !.repair = 1]
    [] OTHER -> capped
LeastParts == [branches |-> 4, retrieval |-> 0, depth |-> 2, nodes |-> 8,
               repair |-> 1, samples |-> 4, critique |-> 1]
Constrained(plan, ceilings, mode) ==
  LET narrowed == Narrowed([p \in Parts |-> Least(plan[p], ceilings[p])], mode)
  IN [p \in Parts |-> Most(LeastParts[p], narrowed[p])]

TokenBudget(plan, route, mode) ==
  LET raw == 320 + 60 * plan.retrieval + 120 * Most(1, plan.critique) + 150 * Most(1, plan.repair)
             + 30 * Most(1, plan.nodes) + 75 * Most(1, plan.samples)
      weighted == IF Harder(route.level) THEN Percent(raw, 110) ELSE raw
  IN Most(768, Percent(weighted, ByMode(mode, 100, 78, 50)))

\* The branches an early exit waits for.
EarlyExit(route, plan) == Most(4, Least(plan.branches, IF Harder(route.level) THEN 12 ELSE 8))

\* Panic mode forbids widening.
Widening(route, mode) ==
  [enabled |-> mode # "panic_save" /\ route.widens,
   steps |-> IF mode = "panic_save" THEN 0 ELSE IF Harder(route.level) THEN 3 ELSE 2,
   branchGrowth |-> ByMode(mode, 122, 112, 100), nodeGrowth |-> ByMode(mode, 120, 110, 100)]

NoBundle == [mode |-> "none"]
Bundle(route, mode) ==
  LET base == NormalizePlan(route)
      ceilings == Ceilings(base, route, mode)
      plan == Constrained(base, ceilings, mode)
  IN [mode |-> mode, born |-> mode, uncertainty |-> route.uncertainty,
      plan |-> plan, ceilings |-> ceilings, wall |-> WallClockCap(route, mode),
      tokens |-> TokenBudget(base, route, mode), exit |-> EarlyExit(route, plan),
      widening |-> Widening(route, mode), widened |-> 0]

-----------------------------------------------------------------------------
\* What a caller can have seen of the run so far: counts only grow.  The
\* thresholds on scores are two Booleans: every score of should_stop_early is
\* good enough, some score of _is_ambiguous is bad enough.
Nothing == [elapsed |-> 0, tokens |-> 0, branches |-> 0, nodes |-> 0]
Points(n) == {0, n \div 2, (97 * n) \div 100, (99 * n) \div 100, n}
Seen == [elapsed : Points(bundle.wall), tokens : {0, bundle.tokens},
         branches : Points(bundle.ceilings.branches), nodes : {0, bundle.ceilings.nodes}]
Later(obs) == \A k \in DOMAIN obs : obs[k] >= seen[k]

\* 34, 24, 22 and 20 hundredths of how much of each is used, in 1/10000.
Pressure(b, obs) ==
  LET used(n, of) == Least(100, (100 * n) \div Most(1, of)) IN
  34 * used(obs.elapsed, b.wall) + 24 * used(obs.tokens, b.tokens)
  + 22 * used(obs.branches, b.plan.branches) + 20 * used(obs.nodes, b.plan.nodes)
NearCeiling(b, obs) ==
  \/ 100 * obs.elapsed >= 96 * b.wall \/ 100 * obs.tokens >= 96 * b.tokens
  \/ 100 * obs.nodes >= 96 * b.ceilings.nodes \/ 100 * obs.branches >= 96 * b.ceilings.branches
\* Nothing is left of something.
MustStop(b, obs) ==
  \/ obs.elapsed >= b.wall \/ obs.tokens >= b.tokens
  \/ obs.nodes >= b.ceilings.nodes \/ obs.branches >= b.ceilings.branches

\* _degrade (DegradesInTurn: by the mode it is in, not by the clock).
DegradesInTurn(b, obs) ==
  LET mode == IF b.mode = "degraded" THEN "panic_save" ELSE "degraded"
  IN [b EXCEPT !.mode = mode, !.plan = Constrained(@, b.ceilings, mode)]
Degrade(b, obs) ==
  LET mode == IF 100 * obs.elapsed >= 98 * b.wall THEN "panic_save" ELSE "degraded"
  IN [b EXCEPT !.mode = mode, !.plan = Constrained(@, b.ceilings, mode)]

\* _widen, after as many widenings as the observation tells of.
Widen(b, steps) ==
  LET p == b.plan
      w == b.widening
      branches == Least(b.ceilings.branches, Scaled(p.branches, w.branchGrowth))
      wider == [p EXCEPT
        !.branches = branches,
        !.nodes = Least(b.ceilings.nodes, Scaled(@, w.nodeGrowth)),
        !.retrieval = Least(b.ceilings.retrieval, @ + 1),
        !.critique = Least(b.ceilings.critique, @ + 1),
        !.repair = Least(b.ceilings.repair, @ + 1),
        !.samples = Least(b.ceilings.branches, Most(@, branches))]
  IN [b EXCEPT !.plan = wider, !.widened = steps + 1]

-----------------------------------------------------------------------------
\* A problem is started.
Start ==
  /\ left > 0 /\ Remaining > 0 /\ bundle = NoBundle
  /\ \E route \in Routes : bundle' = Bundle(route, ModeNow)
  /\ floored' = floored + (IF Share < 20 THEN 1 ELSE 0)
  /\ seen' = Nothing /\ adapts' = 0 /\ decision' = {}
  /\ UNCHANGED <<spent, left>>

\* adapt: forced or early stop, degrade, widen, or go on (WidenFirst: doubts
\* are looked at before the pressure).
WidenFirst(obs, forced, confident, doubtful, steps) ==
  LET early == confident /\ obs.branches >= bundle.exit
      ambiguous == doubtful \/ bundle.uncertainty >= 28
      tight == Pressure(bundle, obs) >= 9200 \/ NearCeiling(bundle, obs)
      stop == IF MustStop(bundle, obs) THEN {"stop"} ELSE {}
  IN CASE forced \/ early -> bundle' = bundle /\ decision' = {"stop"}
       [] ~(forced \/ early) /\ ambiguous /\ bundle.widening.enabled /\ steps < bundle.widening.steps ->
            bundle' = Widen(bundle, steps) /\ decision' = {"widen"}
       [] OTHER -> IF tight THEN bundle' = Degrade(bundle, obs) /\ decision' = {"degrade"} \cup stop
                   ELSE bundle' = bundle /\ decision' = stop
Adapted(obs, forced, confident, doubtful, steps) ==
  LET early == confident /\ obs.branches >= bundle.exit
      ambiguous == doubtful \/ bundle.uncertainty >= 28
      tight == Pressure(bundle, obs) >= 9200 \/ NearCeiling(bundle, obs)
      stop == IF MustStop(bundle, obs) THEN {"stop"} ELSE {}
  IN CASE forced \/ early -> bundle' = bundle /\ decision' = {"stop"}
       [] ~(forced \/ early) /\ tight ->
            bundle' = Degrade(bundle, obs) /\ decision' = {"degrade"} \cup stop
       [] ~(forced \/ early \/ tight) /\ ambiguous
            /\ bundle.widening.enabled /\ steps < bundle.widening.steps ->
            bundle' = Widen(bundle, steps) /\ decision' = {"widen"}
       [] OTHER -> bundle' = bundle /\ decision' = stop

\* The widenings a caller tells of: those of the bundle's diagnostics, or none
\* (the engine does not pass them on).
Adapt ==
  /\ bundle # NoBundle /\ adapts < MaxAdapts /\ "stop" \notin decision
  /\ \E obs \in Seen, forced, confident, doubtful \in BOOLEAN, steps \in {0, bundle.widened} :
       Later(obs) /\ Adapted(obs, forced, confident, doubtful, steps) /\ seen' = obs
  /\ adapts' = adapts + 1
  /\ UNCHANGED <<spent, left, floored>>

\* The problem ends and its time is charged.
SpentAfter(elapsed) == spent + elapsed
Finish ==
  /\ bundle # NoBundle
  /\ \E elapsed \in Points(bundle.wall) : elapsed >= seen.elapsed /\ spent' = SpentAfter(elapsed)
  /\ left' = left - 1 /\ bundle' = NoBundle
  /\ seen' = Nothing /\ adapts' = 0 /\ decision' = {}
  /\ UNCHANGED floored

Init ==
  /\ spent = 0 /\ left = Problems /\ floored = 0 /\ bundle = NoBundle
  /\ seen = Nothing /\ adapts = 0 /\ decision = {}
Next == Start \/ Adapt \/ Finish
Spec == Init /\ [][Next]_vars

-----------------------------------------------------------------------------
Records ==
  [mode : Modes, born : Modes, uncertainty : 0..100, plan : [Parts -> Nat],
   ceilings : [Parts -> Nat], wall : Nat, tokens : Nat, exit : Nat,
   widening : [enabled : BOOLEAN, steps : Nat, branchGrowth : Nat, nodeGrowth : Nat],
   widened : Nat]
\* Type invariant.
TypeOK ==
  /\ spent \in Nat /\ left \in 0..Problems /\ floored \in 0..Problems
  /\ bundle = NoBundle \/ bundle \in Records
  /\ seen \in [DOMAIN Nothing -> Nat] /\ adapts \in 0..MaxAdapts
  /\ decision \subseteq {"stop", "widen", "degrade"}

\* No part of the plan is above its ceiling, whatever mixture of narrowing
\* and widening the bundle went through, unless it was made in panic mode:
\* the floors that adapt applies after the ceilings are below them.
CeilingsHold ==
  bundle # NoBundle =>
    (bundle.born # "panic_save" => \A p \in Parts : bundle.plan[p] <= bundle.ceilings[p])

\* A run that used up its time, tokens, nodes or branches is told to stop by
\* the very adaptation that sees it, even where the doubts ask for more.
ExhaustedStops ==
  adapts > 0 /\ ( \/ seen.elapsed >= bundle.wall \/ seen.tokens >= bundle.tokens
                  \/ seen.nodes >= bundle.ceilings.nodes
                  \/ seen.branches >= bundle.ceilings.branches )
    => "stop" \in decision

\* The ceilings mean something: plans stay below them and work stops at them.
CeilingsBind == TypeOK /\ CeilingsHold /\ ExhaustedStops

\* If every problem keeps to its cap, the run overdraws its budget by at most
\* the twenty-second floor of the problems whose share was smaller: the
\* shares are of what is left, so what one problem saves the others may use.
KeepsBudget == spent <= Available + 20 * floored

\* Panic that came with the clock is for good: time does not run back, so no
\* later adaptation widens that plan or returns it to a milder mode.
PanicIsFinal ==
  [][bundle # NoBundle /\ bundle' # NoBundle /\ bundle.mode = "panic_save"
       /\ bundle.born # "panic_save"
     => bundle'.mode = "panic_save" /\ \A p \in Parts : bundle'.plan[p] <= bundle.plan[p]]_vars

\* Widening makes no part of the plan smaller, and degrading makes none but
\* the critique's larger (its floor of two may raise a one), unless the
\* bundle was made in panic mode.
WideningGrowsDegradingShrinks ==
  [][bundle # NoBundle /\ bundle' # NoBundle /\ bundle.born # "panic_save" =>
     /\ "widen" \in decision' => \A p \in Parts : bundle'.plan[p] >= bundle.plan[p]
     /\ "degrade" \in decision' =>
          \A p \in Parts \ {"critique"} : bundle'.plan[p] <= bundle.plan[p]]_vars

\* Each adaptation moves a plan the way its decision says, and panic is final.
AdaptsOneWay == PanicIsFinal /\ WideningGrowsDegradingShrinks
=============================================================================
