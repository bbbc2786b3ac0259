--------------------------- MODULE SolveContract ---------------------------
(***************************************************************************)
(* What InferenceEngine.solve_problem promises the kaggle runner: it       *)
(* returns one result, and these are the shapes a result may have.  Only   *)
(* a selection can be formatted into a submission row, and only a result   *)
(* without failure is called a success.                                    *)
(***************************************************************************)
EarlyFailures == {"failed_parse", "failed_route", "failed_budget", "failed_state_init",
                  "failed_retrieval", "failed_branch", "failed_aggregation"}
FormatFailures == {"failed_submission_format", "partial_success"}

Results ==
       [status : {"success"}, selection : {TRUE}, row : BOOLEAN, failure : {FALSE}]
  \cup [status : FormatFailures, selection : {TRUE}, row : {FALSE}, failure : {TRUE}]
  \cup [status : EarlyFailures, selection : {FALSE}, row : {FALSE}, failure : {TRUE}]

VARIABLE result  \* the results returned so far

Init == result = {}
Return == result = {} /\ \E r \in Results : result' = {r}
Spec == Init /\ [][Return]_result /\ <>(result # {})
=============================================================================
