---------------------------- MODULE ToolSession ----------------------------
(***************************************************************************)
(* PythonToolSession, imo3_hybrid/src/online/python_tool_runtime.py: the   *)
(* python tool of one attempt.  Each call starts a fresh worker process    *)
(* that runs the cells in history again before the new one; only a cell    *)
(* that succeeded joins the history.  Nothing of the process survives the  *)
(* call, so the history is all the state the tool has.                     *)
(***************************************************************************)
EXTENDS Integers, Sequences

CONSTANTS
  Cells,         \* pieces of code, as detect_python_tool_request returns them
  LongCells,     \* those over max_code_chars
  MaxToolCalls,  \* max_tool_calls_per_attempt
  None           \* no error, no code, no answer

\* Calls refused before a worker is started, calls whose worker died, and the
\* other ways to fail: "raised" is an exception of the cell or of a cell run
\* again before it.  Detected code is never empty, so EmptyToolCode is out.
Refusals == {"ToolCodeTooLong", "ToolCallLimitReached"}
Crashes == {"ToolWorkerCrashed", "ToolNoResult"}
Failures == Crashes \cup {"ToolTimeout", "raised"}

ASSUME ToolAssumption ==
  /\ LongCells \subseteq Cells /\ MaxToolCalls \in Nat
  /\ None \notin Cells \cup Refusals \cup Failures

Sessions == [history : Seq(Cells), calls : Nat, errors : Nat]
NewSession == [history |-> <<>>, calls |-> 0, errors |-> 0]

\* How a call of execute can end (ResultsLate: limit checked against the calls
\* after this one).
ResultsLate(s, cell) ==
  IF cell \in LongCells THEN {"ToolCodeTooLong"}
  ELSE IF s.calls > MaxToolCalls THEN {"ToolCallLimitReached"}
  ELSE {None} \cup Failures
Results(s, cell) ==
  IF cell \in LongCells THEN {"ToolCodeTooLong"}
  ELSE IF s.calls >= MaxToolCalls THEN {"ToolCallLimitReached"}
  ELSE {None} \cup Failures

\* The session after it (ExecutedAnyway: a cell that failed joins too).
ExecutedAnyway(s, cell, error) ==
  [history |-> IF error \in Refusals THEN s.history ELSE Append(s.history, cell),
   calls   |-> IF error \in Refusals THEN s.calls ELSE s.calls + 1,
   errors  |-> IF error = None THEN s.errors ELSE s.errors + 1]
Executed(s, cell, error) ==
  [history |-> IF error = None THEN Append(s.history, cell) ELSE s.history,
   calls   |-> IF error \in Refusals THEN s.calls ELSE s.calls + 1,
   errors  |-> IF error = None THEN s.errors ELSE s.errors + 1]
=============================================================================
