---------------------------- MODULE SolvePipeline ----------------------------
(***************************************************************************)
(* InferenceEngine.solve_problem, imo3_hybrid/src/online/                  *)
(* inference_engine.py: one problem through the stages of the engine, on   *)
(* the minimal, the escalated or the hard path.  A stage turns exceptions  *)
(* into a failing stage record; some failures end the call, some do not.   *)
(*                                                                         *)
(* The block that follows a search on the minimal path is left out: no     *)
(* behaviour gets there (NeverSearchesMinimal).                            *)
(***************************************************************************)
EXTENDS Integers, Sequences

VARIABLES
  config,     \* the switches of InferenceEngineConfig and of the generator
  path,       \* runtime_path
  budget,     \* "none", the one acquired first, or the one adapted after the search
  searched,   \* branch_result is there
  selection,  \* final_selection: "none", or where it comes from
  row,        \* submission_row is there
  records,    \* stage_records
  status,     \* of the result, "open" before there is one
  failure,    \* the result carries a failure
  pc          \* the stage to run next

result == <<row, status, failure>>
vars == <<config, path, budget, searched, selection, result, records, pc>>

Configs == [strict : BOOLEAN,          \* strict_stage_failures
            includeRow : BOOLEAN,      \* include_submission_row
            mayEscalate : BOOLEAN,     \* minimal_mode_allow_post_attempt_escalation
            adapts : BOOLEAN,          \* post_branch_budget_adaptation
            hasAttempts : BOOLEAN]     \* the generator has run_minimal_attempts
Paths == {"minimal", "escalated", "hard"}
Stages == {"parse", "route", "budget", "state_init", "retrieval",
           "branch_controller", "aggregation", "submission"}

-----------------------------------------------------------------------------
Recorded(stage, ok) == Append(records, [stage |-> stage, ok |-> ok])

\* _finalize_failure and _finalize_success.
ReturnFailure(why) ==
  /\ status' = why /\ failure' = TRUE
  /\ pc' = "returned"
  /\ UNCHANGED <<config, path, searched, selection, row>>
ReturnResult(why, failed) ==
  /\ status' = why /\ failure' = failed
  /\ pc' = "returned"
  /\ UNCHANGED <<config, path, budget, searched, selection>>

Continue(stage) == pc' = stage /\ UNCHANGED <<config, result>>

Init ==
  /\ config \in Configs
  /\ path = "hard" /\ budget = "none" /\ searched = FALSE
  /\ selection = "none" /\ row = FALSE /\ records = <<>>
  /\ status = "open" /\ failure = FALSE
  /\ pc = "parse"

Parse ==
  /\ pc = "parse"
  /\ \E ok \in BOOLEAN :
       /\ records' = Recorded("parse", ok)
       /\ IF ok THEN Continue("route") /\ UNCHANGED <<path, searched, selection>>
          ELSE ReturnFailure("failed_parse")
  /\ UNCHANGED budget

Route ==
  /\ pc = "route"
  /\ \E ok \in BOOLEAN :
       /\ records' = Recorded("route", ok)
       /\ IF ok THEN Continue("budget") /\ UNCHANGED <<path, searched, selection>>
          ELSE ReturnFailure("failed_route")
  /\ UNCHANGED budget

\* Without strict_stage_failures the solve goes on without a budget, on the
\* route's own plan.
AcquireBudget ==
  /\ pc = "budget"
  /\ \E ok \in BOOLEAN :
       /\ records' = Recorded("budget", ok)
       /\ budget' = IF ok THEN "initial" ELSE "none"
       /\ IF ok \/ ~config.strict THEN Continue("path") /\ UNCHANGED <<path, searched, selection>>
          ELSE ReturnFailure("failed_budget")

\* Any path may be forced or follow from the route's metrics
\* (SelectRuntimePathAsIs: a generator without attempts goes unnoticed).
SelectRuntimePathAsIs ==
  /\ pc = "path"
  /\ \E chosen \in Paths :
       /\ path' = chosen
       /\ Continue(IF chosen = "minimal" /\ config.hasAttempts THEN "attempts" ELSE "state_init")
  /\ UNCHANGED <<budget, searched, selection, records>>
SelectRuntimePath ==
  /\ pc = "path"
  /\ \E chosen \in Paths :
       LET unavailable == chosen = "minimal" /\ ~config.hasAttempts
       IN  /\ path' = IF unavailable THEN "escalated" ELSE chosen
           /\ records' = IF unavailable THEN Recorded("branch_controller", TRUE) ELSE records
           /\ Continue(IF path' = "minimal" THEN "attempts" ELSE "state_init")
  /\ UNCHANGED <<budget, searched, selection>>

\* Whether the selection from the attempts is given up for a search.  A
\* consensus of the attempts is not questioned.
Escalations(outcome) ==
  IF outcome = "early_stop_consensus" \/ ~config.mayEscalate THEN {FALSE} ELSE BOOLEAN

\* The selection from the attempts, kept or given up (AttemptsDoneKeeping: a
\* selection given up stays in place).
AttemptRecords == <<[stage |-> "branch_controller", ok |-> TRUE],
                    [stage |-> "aggregation", ok |-> TRUE]>>
AttemptsDoneKeeping(escalate) ==
  /\ selection' = "attempts"
  /\ path' = IF escalate THEN "escalated" ELSE path
  /\ records' = records \o AttemptRecords
  /\ Continue(IF escalate THEN "state_init" ELSE "submission")
  /\ UNCHANGED searched
AttemptsDone(escalate) ==
  IF escalate
  THEN /\ path' = "escalated"
       /\ records' = records \o Append(AttemptRecords, [stage |-> "branch_controller", ok |-> TRUE])
       /\ Continue("state_init") /\ UNCHANGED <<searched, selection>>
  ELSE /\ selection' = "attempts"
       /\ records' = records \o AttemptRecords
       /\ Continue("submission") /\ UNCHANGED <<path, searched>>

\* _run_minimal_stage, on the outcomes AttemptBatch has.
MinimalAttempts ==
  /\ pc = "attempts"
  /\ \E outcome \in {"early_stop_consensus", "attempt_budget_exhausted", "raised"} :
       IF outcome = "raised"
       THEN records' = Recorded("branch_controller", FALSE) /\ ReturnFailure("failed_branch")
       ELSE \E escalate \in Escalations(outcome) : AttemptsDone(escalate)
  /\ UNCHANGED budget

StateInit ==
  /\ pc = "state_init"
  /\ \E ok \in BOOLEAN :
       /\ records' = Recorded("state_init", ok)
       /\ IF ok THEN Continue("retrieval") /\ UNCHANGED <<path, searched, selection>>
          ELSE ReturnFailure("failed_state_init")
  /\ UNCHANGED budget

\* The search does without traces when retrieval fails, unless that is strict
\* (RetrieveLenient: never).
RetrieveLenient ==
  /\ pc = "retrieval"
  /\ \E ok \in BOOLEAN : records' = Recorded("retrieval", ok)
  /\ Continue("branch_controller")
  /\ UNCHANGED <<path, budget, searched, selection>>
Retrieve ==
  /\ pc = "retrieval"
  /\ \E ok \in BOOLEAN :
       /\ records' = Recorded("retrieval", ok)
       /\ IF ok \/ ~config.strict
          THEN Continue("branch_controller") /\ UNCHANGED <<path, searched, selection>>
          ELSE ReturnFailure("failed_retrieval")
  /\ UNCHANGED budget

Search ==
  /\ pc = "branch_controller"
  /\ \E ok \in BOOLEAN :
       /\ records' = Recorded("branch_controller", ok)
       /\ IF ok THEN searched' = TRUE /\ Continue("adapt") /\ UNCHANGED <<path, selection>>
          ELSE ReturnFailure("failed_branch")
  /\ UNCHANGED budget

\* _post_branch_budget_update never stops the solve.
AdaptBudget ==
  /\ pc = "adapt"
  /\ IF budget = "none" \/ ~config.adapts THEN UNCHANGED <<budget, records>>
     ELSE \E ok \in BOOLEAN :
            /\ records' = Recorded("budget", ok)
            /\ budget' = IF ok THEN "adapted" ELSE budget
  /\ Continue("aggregation")
  /\ UNCHANGED <<path, searched, selection>>

Aggregate ==
  /\ pc = "aggregation"
  /\ \E ok \in BOOLEAN :
       /\ records' = Recorded("aggregation", ok)
       /\ IF ok THEN selection' = "branches" /\ Continue("submission") /\ UNCHANGED <<path, searched>>
          ELSE ReturnFailure("failed_aggregation")
  /\ UNCHANGED budget

\* A row that cannot be formatted fails the minimal path and makes the others a
\* partial success (SubmitAnyway: it is handed over all the same).
SubmitAnyway ==
  /\ pc = "submission"
  /\ \E ok \in BOOLEAN :
       /\ config.includeRow \/ ok
       /\ records' = Recorded("submission", ok)
       /\ row' = config.includeRow
       /\ IF ok THEN ReturnResult("success", FALSE)
          ELSE ReturnResult(IF path = "minimal" THEN "failed_submission_format"
                            ELSE "partial_success", TRUE)
Submit ==
  /\ pc = "submission"
  /\ \E ok \in BOOLEAN :
       /\ config.includeRow \/ ok
       /\ records' = Recorded("submission", ok)
       /\ row' = (ok /\ config.includeRow)
       /\ IF ok THEN ReturnResult("success", FALSE)
          ELSE ReturnResult(IF path = "minimal" THEN "failed_submission_format"
                            ELSE "partial_success", TRUE)

Next ==
  \/ Parse \/ Route \/ AcquireBudget \/ SelectRuntimePath \/ MinimalAttempts
  \/ StateInit \/ Retrieve \/ Search \/ AdaptBudget \/ Aggregate \/ Submit

\* One sequential call; each stage returns or raises.
Spec == Init /\ [][Next]_vars /\ WF_vars(Next)

-----------------------------------------------------------------------------
TypeOK ==
  /\ config \in Configs /\ path \in Paths
  /\ budget \in {"none", "initial", "adapted"} /\ searched \in BOOLEAN
  /\ selection \in {"none", "attempts", "branches"} /\ row \in BOOLEAN
  /\ records \in Seq([stage : Stages, ok : BOOLEAN])
  /\ failure \in BOOLEAN
  /\ pc \in Stages \cup {"path", "attempts", "adapt", "returned"}

\* No search runs on the minimal path, so the engine's handling of one (preview,
\* escalation after the search, hooks switched off) is never used.
NeverSearchesMinimal ==
  pc \in {"state_init", "retrieval", "branch_controller", "adapt", "aggregation"}
    => path # "minimal"

\* The record a failure is blamed on.
Blamed(why) ==
  CASE why = "failed_parse" -> "parse"
    [] why = "failed_route" -> "route"
    [] why = "failed_budget" -> "budget"
    [] why = "failed_state_init" -> "state_init"
    [] why = "failed_retrieval" -> "retrieval"
    [] why = "failed_branch" -> "branch_controller"
    [] why = "failed_aggregation" -> "aggregation"
    [] why \in {"failed_submission_format", "partial_success"} -> "submission"

\* A failed stage is the last one, except for the failures the solve tolerates;
\* the status of a failed result blames the stage that failed, and a success
\* follows a submission stage that worked.
FailuresEnd ==
  /\ \A i \in DOMAIN records : i < Len(records) /\ ~records[i].ok =>
       \/ records[i].stage = "budget"
            /\ (config.strict => \E j \in 1..i : records[j].stage = "retrieval")
       \/ records[i].stage = "retrieval" /\ ~config.strict
  /\ pc = "returned" =>
       LET last == records[Len(records)]
       IN  IF status = "success" THEN last.stage = "submission" /\ last.ok
           ELSE last.stage = Blamed(status) /\ ~last.ok

\* The answer handed over is the one of the path that was taken: attempts given
\* up for a search never come back as the result, not even when the search
\* fails, and an answer of the search rests on a search that finished.
AnswerOfThePath ==
  /\ selection = "attempts" => path = "minimal" /\ ~searched
  /\ selection = "branches" => path # "minimal" /\ searched
  /\ status = "success" => (row <=> config.includeRow)

\* The result is one the kaggle runner is prepared for.
Contract == INSTANCE SolveContract WITH
  result <- IF pc # "returned" THEN {}
            ELSE {[status |-> status, selection |-> selection # "none", row |-> row,
                   failure |-> failure]}
ImplementsContract == Contract!Spec
=============================================================================
