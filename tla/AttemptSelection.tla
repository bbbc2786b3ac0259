-------------------------- MODULE AttemptSelection --------------------------
(***************************************************************************)
(* What the inference engine makes of a batch of attempts: answers weighed *)
(* by the entropy of their attempts (_build_attempt_weighting_bundle,      *)
(* imo3_hybrid/src/online/inference_engine.py), ranked by the final        *)
(* selector (aggregation/final_selector.py), and kept or doubted           *)
(* (_attempt_escalation_reasons).                                          *)
(*                                                                         *)
(* Real numbers are whole multiples of 1/Unit, rounded down.  Attempts     *)
(* that say the same count as one kind: their order plays no part.         *)
(***************************************************************************)
EXTENDS Integers, Sequences, FiniteSetsExt

CONSTANTS
  None,
  Answers,         \* numbers in the order of the answers' strings
  Entropies,       \* what mean_token_entropy may be
  AttemptCount, StopCount,
  MinConfidence,   \* escalation_min_confidence, and so on
  MinAgreement, LowMargin, HighEntropy, Fragmentation

Unit == 10000

\* The engine makes at least one attempt and stops for two votes at the least;
\* an entropy over tokens is far below 1000.
ASSUME SelectionAssumption ==
  /\ Answers \subseteq Nat /\ IsFiniteSet(Answers)
  /\ Entropies \subseteq 0..(1000 * Unit) /\ IsFiniteSet(Entropies)
  /\ {AttemptCount, StopCount, MinConfidence, MinAgreement, LowMargin,
      HighEntropy, Fragmentation} \subseteq Nat
  /\ AttemptCount >= 1 /\ StopCount >= 2
  /\ None \notin Answers \cup Entropies

VARIABLES
  votes,     \* valid attempts of each kind
  blanks,    \* attempts without an answer
  selection, \* the FinalSelectionResult
  pc         \* "attempts", "consensus" or "exhausted", then "kept" or "escalated"

vars == <<votes, blanks, selection, pc>>

Epsilon == 500     \* minimal_mode_entropy_epsilon
Pct(p, x) == (p * x) \div 100
Clamp(x) == IF x < 0 THEN 0 ELSE IF x > Unit THEN Unit ELSE x
If(test, x) == IF test THEN x ELSE 0

\* An answer with the entropy of its attempt; without one it matters whether
\* the last turn gave the answer or only all turns together.
Kinds == [answer : Answers, entropy : Entropies, whole : {TRUE}]
         \cup [answer : Answers, entropy : {None}, whole : BOOLEAN]

Silent(kind) == kind.entropy = None
Confidence(kind) ==
  CASE ~Silent(kind) -> (Unit * Unit) \div (Unit + kind.entropy)
    [] Silent(kind) /\ kind.whole -> 0
    [] OTHER -> Unit \div 2
Uncertainty(kind) == IF Silent(kind) THEN Unit - Confidence(kind) ELSE Clamp(kind.entropy)

\* _attempt_vote_weight, in units of 1/1000.  An attempt without entropy counts
\* 1, which is also its weight when none has any.
Weight(kind) == IF Silent(kind) THEN 1000 ELSE (1000 * Unit) \div Max({kind.entropy, Epsilon})

-----------------------------------------------------------------------------
Present(bag) == {kind \in Kinds : bag[kind] > 0}
Found(bag) == {kind.answer : kind \in Present(bag)}
Total(bag, kinds, Of(_)) == SumFunction([kind \in kinds |-> bag[kind] * Of(kind)])
Size(bag, kinds) == SumFunctionOnSet(bag, kinds)

\* The cluster of the attempts with this answer.
Cluster(bag, answer) ==
  LET mine == {kind \in Present(bag) : kind.answer = answer}
      size == Size(bag, mine)
      levels == {Uncertainty(kind) : kind \in mine}
  IN  [answer |-> answer, size |-> size,
       share |-> (Unit * size) \div Size(bag, Present(bag)),
       weight |-> (Unit * Total(bag, mine, Weight)) \div Total(bag, Present(bag), Weight),
       confidence |-> Total(bag, mine, Confidence) \div size,
       entropy |-> Total(bag, mine, Uncertainty) \div size,
       spread |-> Max(levels) - Min(levels),
       unmeasured |-> 2 * Size(bag, {kind \in mine : Silent(kind)}) > size]

\* Mutant: the share and the confidence trade their weights.
CompositeSwapped(c) == Clamp(Pct(15, c.share) + Pct(33, c.weight) + Pct(52, c.confidence))
Composite(c) == Clamp(Pct(52, c.share) + Pct(33, c.weight) + Pct(15, c.confidence))
Completeness(c) == Pct(55, c.confidence) + Pct(45, c.share)
Likelihood(c) == (c.weight + c.confidence) \div 2

\* _global_disagreement: the first two shares, and how mixed the clusters are.
Disagreement(clusters) ==
  IF Cardinality(clusters) = 1 THEN 0
  ELSE LET top == CHOOSE c \in clusters : \A d \in clusters : d.share <= c.share
           next == Max({c.share : c \in clusters \ {top}})
       IN  Clamp(Pct(45, Unit - (top.share - next))
                 + Pct(30, SumFunction([c \in clusters |-> c.spread]) \div Cardinality(clusters)))

\* _score_cluster; symbolic agreement, retrieval, discharge and critique support
\* of an attempt are 0, its family diversity is 1.
Score(c, disagreement) ==
  LET quality == (4 * c.confidence + Completeness(c) + Likelihood(c)) \div 8
      bonus == Pct(5, Clamp(Pct(45, c.share) + Pct(30, c.weight) + Pct(25, Unit)))
               + Pct(5, Pct(40, c.confidence) + Pct(30, Completeness(c)))
               + Pct(5, Pct(55, c.confidence))
      caution == If(c.size = 1, Pct(3, Unit))
      burden == Pct(8, Pct(40, Unit)) + Pct(4, Pct(35, Unit))
      discord == Pct(8, Clamp(Pct(55, disagreement) + Pct(25, c.spread)))
      fragility == Pct(7, Clamp(If(c.size = 1, Pct(35, Unit)) + If(c.share < 1800, Pct(25, Unit))
                                + Pct(20, c.entropy) + Pct(20, Unit - quality)))
  IN  Clamp(Composite(c) + bonus - caution - burden - discord - fragility)

\* _tie_break_key
Key(c, score) == <<score, Likelihood(c), c.share, c.confidence, -c.spread, c.answer>>
\* Mutant: sorted without reverse.
AboveReversed(k, l) == \E i \in DOMAIN k : k[i] < l[i] /\ \A j \in 1..(i - 1) : k[j] = l[j]
Above(k, l) == \E i \in DOMAIN k : k[i] > l[i] /\ \A j \in 1..(i - 1) : k[j] = l[j]

\* rank_weighted_clusters
Rows(bag) ==
  LET clusters == {Cluster(bag, a) : a \in Found(bag)}
      disagreement == Disagreement(clusters)
  IN  {[cluster |-> c, score |-> Score(c, disagreement)] : c \in clusters}
Outranks(x, y) == Above(Key(x.cluster, x.score), Key(y.cluster, y.score))
Ranking(bag) ==
  LET rows == Rows(bag)
  IN  CHOOSE ranking \in [1..Cardinality(rows) -> rows] :
        \A i, j \in DOMAIN ranking : i < j => Outranks(ranking[i], ranking[j])
Chosen(bag) == Ranking(bag)[1].cluster.answer

-----------------------------------------------------------------------------
Margin(ranking) == ranking[1].score - (IF Len(ranking) > 1 THEN ranking[2].score ELSE 0)

\* _disagreement_level, and that of _selection_warnings.
Discord(ranking, margin, apart, mixed) ==
  IF Len(ranking) = 1 THEN 0
  ELSE LET first == ranking[1].cluster
           second == ranking[2].cluster
       IN  Clamp(Pct(margin, Unit - Margin(ranking))
                 + Pct(apart, Max({first.share - second.share, second.share - first.share}))
                 + Pct(mixed, Max({first.spread, second.spread})))
DisagreementLevel(ranking) == Discord(ranking, 55, 15, 20)

\* _abstention_pressure and _winner_fragility
Pressure(ranking) ==
  LET c == ranking[1].cluster
      fragility == Clamp(If(c.size = 1, Pct(30, Unit)) + If(c.share < 1800, Pct(20, Unit))
                         + Pct(20, c.entropy) + Pct(15, Unit) + Pct(15, c.spread))
  IN  Clamp(If(ranking[1].score < 4200, Pct(30, Unit)) + If(Margin(ranking) < 500, Pct(20, Unit))
            + If(c.share < 1800, Pct(15, Unit)) + Pct(15, Unit)
            + Pct(10, DisagreementLevel(ranking)) + Pct(10, fragility))

Marked(tests) == {t[1] : t \in {test \in tests : test[2]}}

\* _selection_warnings
Warnings(ranking) ==
  LET c == ranking[1].cluster
  IN  {"low_discharge"} \cup Marked({
        <<"low_confidence", ranking[1].score < 4200>>,
        <<"low_margin", Margin(ranking) < 500>>,
        <<"high_disagreement", Discord(ranking, 60, 20, 20) > 4200>>,
        <<"fragile_winner", c.size = 1 \/ c.share < 1800>>,
        <<"outlier_winner", c.size = 1>>,
        <<"weak_evidence", c.confidence < 4000>>,
        <<"cluster_caution", c.size = 1 \/ c.unmeasured>>,
        <<"abstention_recommended", Pressure(ranking) >= 5500>>})

\* _prediction_confidence
PredictionConfidence(ranking) ==
  Clamp(ranking[1].score - Pct(20, DisagreementLevel(ranking)) - Pct(18, Pressure(ranking))
        - Pct(10, Clamp((Unit * Cardinality(Warnings(ranking))) \div 8)) + Pct(6, Clamp(Margin(ranking))))

\* Mutant: the measured entropy decides alone.
DoubtsByEntropyAlone(bag) ==
  LET measured == {kind \in Present(bag) : ~Silent(kind)}
      sum == Total(bag, measured, LAMBDA kind : kind.entropy)
  IN  IF Present(bag) = {} THEN {"no_valid_attempts"}
      ELSE IF sum >= HighEntropy * Size(bag, measured) THEN {"high_true_entropy"} ELSE {}
\* _attempt_escalation_reasons, without the uncertainty of the route.
Doubts(bag) ==
  LET ranking == Ranking(bag)
      measured == {kind \in Present(bag) : ~Silent(kind)}
  IN  IF Present(bag) = {} THEN {"no_valid_attempts"}
      ELSE Marked({
        <<"low_confidence", PredictionConfidence(ranking) < MinConfidence>>,
        <<"low_agreement", ranking[1].cluster.weight < MinAgreement>>,
        <<"low_margin", Margin(ranking) < LowMargin>>,
        <<"high_true_entropy", measured # {} /\
           Total(bag, measured, LAMBDA kind : kind.entropy) >= HighEntropy * Size(bag, measured)>>,
        <<"fragmented_answer_families", DisagreementLevel(ranking) >= Fragmentation>>,
        <<"warning_high_disagreement", "high_disagreement" \in Warnings(ranking)>>})

-----------------------------------------------------------------------------
\* default_submission_answer when there is nothing to rank.
Answered(bag) ==
  IF Present(bag) = {} THEN <<0>>
  ELSE LET ranking == Ranking(bag) IN [i \in DOMAIN ranking |-> ranking[i].cluster.answer]

Method(bag) ==
  CASE pc = "consensus" -> "minimal_early_stop_consensus"
    [] pc # "consensus" /\ \E kind \in Present(bag) : ~Silent(kind) -> "minimal_entropy_weighted_voting"
    [] OTHER -> "minimal_equal_weight_voting"

Init ==
  /\ votes = [kind \in Kinds |-> 0] /\ blanks = 0
  /\ selection = None /\ pc = "attempts"

Tried(bag, failed) == Size(bag, Kinds) + failed
Further(bag, failed) == IF Tried(bag, failed) >= AttemptCount THEN "exhausted" ELSE "attempts"

\* run_minimal_attempts
Attempt(kind) ==
  /\ pc = "attempts"
  /\ votes' = [votes EXCEPT ![kind] = @ + 1]
  /\ pc' = IF Size(votes', {k \in Kinds : k.answer = kind.answer}) >= StopCount THEN "consensus"
            ELSE Further(votes', blanks)
  /\ UNCHANGED <<blanks, selection>>
BlankAttempt ==
  /\ pc = "attempts"
  /\ blanks' = blanks + 1
  /\ pc' = Further(votes, blanks')
  /\ UNCHANGED <<votes, selection>>

\* The selection, and whether it stands: a consensus is not doubted.  The route
\* may be uncertain.
Select(uncertain) ==
  LET reasons == IF pc = "consensus" THEN {}
                 ELSE Doubts(votes) \cup (IF uncertain THEN {"high_route_uncertainty"} ELSE {})
  IN  /\ pc \in {"consensus", "exhausted"}
      /\ selection' = [answers |-> Answered(votes), method |-> Method(votes), reasons |-> reasons]
      /\ pc' = IF reasons = {} THEN "kept" ELSE "escalated"
      /\ UNCHANGED <<votes, blanks>>

Next == (\E kind \in Kinds : Attempt(kind)) \/ BlankAttempt \/ \E uncertain \in BOOLEAN : Select(uncertain)

Spec == Init /\ [][Next]_vars

-----------------------------------------------------------------------------
Selected == pc \in {"kept", "escalated"}

TypeOK ==
  /\ votes \in [Kinds -> 0..AttemptCount] /\ blanks \in 0..AttemptCount
  /\ Tried(votes, blanks) <= AttemptCount
  /\ pc \in {"attempts", "consensus", "exhausted", "kept", "escalated"}
  /\ IF Selected THEN selection.answers \in Seq(Answers \cup {0}) ELSE selection = None

\* An answer of more attempts, with no less weight and no less confidence, is
\* ranked above: six bonuses and penalties and the tie-breaks never turn that
\* round, so even an early stop is overruled only by votes that are surer.
MoreOfEverythingWins ==
  Selected /\ Present(votes) # {} =>
    \A i, j \in DOMAIN selection.answers :
      LET x == Cluster(votes, selection.answers[i])
          y == Cluster(votes, selection.answers[j])
      IN  x.size > y.size /\ x.weight >= y.weight /\ x.confidence >= y.confidence => i < j

\* When the attempts ran out, an answer that another one has more votes than is
\* never kept: the thresholds of the weighing and of the doubts fit together.
MinorityDoubted ==
  pc = "kept" /\ selection.method # "minimal_early_stop_consensus" =>
    \A a \in Found(votes) :
      Cluster(votes, a).size <= Cluster(votes, selection.answers[1]).size

\* A selection that is kept after all attempts does not hang on a failed one: had
\* it found the same answer, however unsure, that answer would be selected.
KeptIsRobust ==
  pc = "kept" /\ selection.method # "minimal_early_stop_consensus" /\ blanks > 0 =>
    \A kind \in Kinds :
      kind.answer = selection.answers[1] => Chosen([votes EXCEPT ![kind] = @ + 1]) = kind.answer
=============================================================================
