----------------------------- MODULE RecordRun -----------------------------
(***************************************************************************)
(* KaggleRunner.run_records, imo3_hybrid/src/online/kaggle_runner.py: the  *)
(* problems of an input file one after the other, under a time budget for  *)
(* all of them, with fallback rows for those that fail.  What one solve    *)
(* returns is the subject of SolvePipeline; here any result of its         *)
(* contract may come back, or an exception.                                *)
(*                                                                         *)
(* Records are numbered in the order they are run.                         *)
(***************************************************************************)
EXTENDS Integers, Sequences

CONSTANTS
  NumRecords,  \* problems in the input
  Budget,      \* total_time_budget_s less reserve_time_s, or NoBudget
  NoBudget,    \* no tracker was built
  MaxElapsed   \* bound: the longest a solve takes

ASSUME RunAssumption ==
  /\ NumRecords \in Nat /\ MaxElapsed \in Nat
  /\ Budget \in Int \/ Budget = NoBudget
  /\ NoBudget \notin Int

VARIABLES
  config,    \* the switches of KaggleRunnerConfig
  next,      \* the record to run next
  spent,     \* spent_s of the tracker
  worked,    \* time the solves really took
  rows,      \* submission_rows: the record and whether it is the fallback
  runs,      \* run_records: the record and its status
  failures,  \* failures: the record and the code
  loop       \* "run", then "returned" or "raised"

lists == <<rows, runs, failures>>
runVars == <<config, next, spent, worked, lists, loop>>

Contract == INSTANCE SolveContract WITH result <- {}

Configs == [emit : BOOLEAN,         \* emit_fallback_rows_on_failure
            continue : BOOLEAN,     \* continue_on_problem_failure
            stopsAtBudget : BOOLEAN] \* stop_when_out_of_budget

-----------------------------------------------------------------------------
\* _should_stop_for_budget (OutOfBudgetLate: an exact zero is left over).
OutOfBudgetLate == config.stopsAtBudget /\ Budget # NoBudget /\ Budget - spent < 0
OutOfBudget == config.stopsAtBudget /\ Budget # NoBudget /\ Budget - spent <= 0

\* _update_tracker_after_problem (ChargedLast: only the last solve counts).
ChargedLast(before, elapsed) == IF Budget = NoBudget THEN before ELSE elapsed
Charged(before, elapsed) == IF Budget = NoBudget THEN before ELSE before + elapsed

\* A failure is noted, with a fallback row if configured (FallbackUnlisted:
\* without a run record).
FallbackUnlisted(code, runStatus) ==
  /\ failures' = Append(failures, [id |-> next, code |-> code])
  /\ rows' = IF config.emit THEN Append(rows, [id |-> next, fallback |-> TRUE]) ELSE rows
  /\ UNCHANGED runs
Fallback(code, runStatus) ==
  /\ failures' = Append(failures, [id |-> next, code |-> code])
  /\ IF config.emit
     THEN /\ rows' = Append(rows, [id |-> next, fallback |-> TRUE])
          /\ runs' = Append(runs, [id |-> next, status |-> runStatus])
     ELSE UNCHANGED <<rows, runs>>

\* On to the next record, unless the loop is left or was at the last one.
Advance(leave) ==
  /\ next' = next + 1
  /\ loop' = IF leave \/ next = NumRecords THEN "returned" ELSE "run"

RunInit ==
  /\ config \in Configs
  /\ next = 1 /\ spent = 0 /\ worked = 0
  /\ rows = <<>> /\ runs = <<>> /\ failures = <<>>
  /\ loop = IF NumRecords = 0 THEN "returned" ELSE "run"

\* A record that is not run (SkipForBudgetStops: nor any after it).
SkipForBudgetStops ==
  /\ loop = "run" /\ OutOfBudget
  /\ Fallback("global_time_budget_exhausted", "budget_exhausted_fallback")
  /\ Advance(TRUE)
  /\ UNCHANGED <<config, spent, worked>>
SkipForBudget ==
  /\ loop = "run" /\ OutOfBudget
  /\ Fallback("global_time_budget_exhausted", "budget_exhausted_fallback")
  /\ Advance(~config.continue)
  /\ UNCHANGED <<config, spent, worked>>

\* _submission_row_from_result: whether the engine's row is there, or one can be
\* formatted here from the selection.  What the engine failed to format fails
\* again.
RowOutcomes(r) ==
  IF r.row THEN {TRUE}
  ELSE IF r.selection /\ ~r.failure THEN BOOLEAN
  ELSE {FALSE}
FailureCode(r) == IF r.selection THEN "submission_reformat_failed" ELSE "missing_submission_output"

\* The engine returns; its result has a row, or the fallback takes its place.
Solve ==
  /\ loop = "run" /\ ~OutOfBudget
  /\ \E r \in Contract!Results, elapsed \in 0..MaxElapsed : \E own \in RowOutcomes(r) :
       /\ own \/ config.emit
       /\ spent' = Charged(spent, elapsed) /\ worked' = worked + elapsed
       /\ rows' = Append(rows, [id |-> next, fallback |-> ~own])
       /\ runs' = Append(runs, [id |-> next, status |-> r.status])
       /\ failures' = IF own THEN failures
                      ELSE Append(failures, [id |-> next, code |-> FailureCode(r)])
  /\ Advance(FALSE)
  /\ UNCHANGED config

\* What the except clause does, once the elapsed time is charged.
HandleException ==
  /\ Fallback("runner_exception", "runner_exception_fallback")
  /\ IF config.emit \/ config.continue THEN Advance(~config.continue)
     ELSE loop' = "raised" /\ UNCHANGED next

\* The engine raises.
SolveRaises ==
  /\ loop = "run" /\ ~OutOfBudget
  /\ \E elapsed \in 0..MaxElapsed :
       spent' = Charged(spent, elapsed) /\ worked' = worked + elapsed
  /\ HandleException
  /\ UNCHANGED config

\* No row can be made and no fallback is wanted: the error is raised after the
\* tracker was charged and is handled by charging it again.
RowRaises ==
  /\ loop = "run" /\ ~OutOfBudget
  /\ ~config.emit
  /\ \E r \in Contract!Results, elapsed \in 0..MaxElapsed :
       /\ FALSE \in RowOutcomes(r)
       /\ spent' = Charged(Charged(spent, elapsed), elapsed) /\ worked' = worked + elapsed
  /\ HandleException
  /\ UNCHANGED config

RunNext == SkipForBudget \/ Solve \/ SolveRaises \/ RowRaises

\* One sequential loop; each solve returns or raises.
RunSpec == RunInit /\ [][RunNext]_runVars /\ WF_runVars(RunNext)
-----------------------------------------------------------------------------
Ids(list) == {list[k].id : k \in DOMAIN list}
InOrder(list) == \A j, k \in DOMAIN list : j < k => list[j].id < list[k].id
FailureCodes == {"global_time_budget_exhausted", "runner_exception", "submission_reformat_failed",
          "missing_submission_output"}
Statuses == {"budget_exhausted_fallback", "runner_exception_fallback", "success"}
            \cup Contract!EarlyFailures \cup Contract!FormatFailures

RunTypeOK ==
  /\ config \in Configs
  /\ next \in 1..(NumRecords + 1)
  /\ spent \in Nat /\ worked \in Nat
  /\ rows \in Seq([id : 1..NumRecords, fallback : BOOLEAN])
  /\ runs \in Seq([id : 1..NumRecords, status : Statuses])
  /\ failures \in Seq([id : 1..NumRecords, code : FailureCodes])
  /\ loop \in {"run", "returned", "raised"}

\* No record gets two rows, whatever fails on the way to the first; where fallback
\* rows are wanted each record the loop is done with has one, and elsewhere it has
\* a row or a failure, never both.
AccountedOnce ==
  /\ InOrder(rows) /\ InOrder(failures)
  /\ config.emit => Ids(rows) = 1..(next - 1)
  /\ ~config.emit => /\ Ids(rows) \cap Ids(failures) = {}
                     /\ 1..(next - 1) \subseteq Ids(rows) \cup Ids(failures)

\* Rows and run records, written at different places of the loop, tell the same
\* story: same records in the same order, and a fallback row exactly for the
\* records with a failure.
RowsMatchRuns ==
  /\ Len(rows) = Len(runs)
  /\ \A k \in DOMAIN rows : /\ rows[k].id = runs[k].id
                            /\ rows[k].fallback <=> rows[k].id \in Ids(failures)
                            /\ runs[k].status = "budget_exhausted_fallback" =>
                                 \A j \in DOMAIN runs : j > k => runs[j].status = runs[k].status

\* The three lists a run hands back agree on what became of every record.
BooksAgree == AccountedOnce /\ RowsMatchRuns

\* A run that is to continue over failures leaves no record out, with or without
\* time left.
NoneLeftOut ==
  config.continue => loop # "raised" /\ (loop = "returned" => next = NumRecords + 1)

\* Time is charged once per solve as long as fallback rows keep the making of a
\* row from raising; otherwise some is charged twice, but none is ever lost.
ChargedOnce ==
  Budget # NoBudget =>
    /\ worked <= spent /\ spent <= 2 * worked
    /\ config.emit => spent = worked

\* The budget is only looked at between solves, so it can be overrun by no more
\* than the last one.
OverrunBounded ==
  config.stopsAtBudget /\ Budget # NoBudget =>
    worked = 0 \/ worked < Budget + MaxElapsed
=============================================================================
