---------------------------- MODULE AttemptBatch ----------------------------
(***************************************************************************)
(* CompetitionAttemptGenerator.run_minimal_attempts and its _run_attempt,  *)
(* imo3_hybrid/src/online/kaggle_runner.py: a problem is attempted several *)
(* times, each attempt a dialogue of the model with the python tool, until *)
(* enough attempts agree on an answer.                                     *)
(***************************************************************************)
EXTENDS ToolSession, FiniteSets

CONSTANTS
  Answers,       \* answers in range, in digits
  MaxTurns,      \* max_turns_per_attempt
  AttemptCount,  \* attempt_count
  StopCount      \* early_stop_threshold

ASSUME BatchAssumption ==
  /\ {MaxTurns, AttemptCount, StopCount} \subseteq Nat
  /\ None \notin Answers

VARIABLES
  client,    \* runtime state of the VLLMClient that answers for the model
  session,   \* the tool session of the running attempt
  turns,     \* assistant_turns: the code each one asks to run, or None
  feedback,  \* tool_feedback: the code and error it reports, and the cells
             \* that were run again before it
  reason,    \* stopped_reason of the attempt
  attempts,  \* attempts
  counts,    \* answer_counts
  stopped,   \* stopped_reason of the batch
  pc         \* "batch" between attempts, "turn" and "close" inside one,
             \* then "returned" or "raised"

dialogue == <<session, turns, feedback, reason>>
tally == <<attempts, counts, stopped>>
vars == <<client, dialogue, tally, pc>>

AtLeast(low, n) == IF n < low THEN low ELSE n
TurnLimit == AtLeast(1, MaxTurns)
AttemptLimit == AtLeast(1, AttemptCount)
Quorum == AtLeast(2, StopCount)

ClientRefusals == {"ok", "invalid_request", "backend_error", "not_started", "unavailable"}
Reasons == ClientRefusals \cup
  {"max_turns_reached", "final_answer", "no_answer_or_tool", "tool_call_limit_reached",
   "fatal_tool_runtime_failure", "tool_call_executed", "early_stop_consensus"}

-----------------------------------------------------------------------------
\* One more valid attempt with this answer settles the vote.
Agrees(answer) == answer # None /\ counts[answer] + 1 >= Quorum

\* The end of _run_attempt and what run_minimal_attempts does with the record.
Record(answer, why, used) ==
  LET end == IF Agrees(answer) THEN "early_stop_consensus" ELSE why
  IN  /\ attempts' = Append(attempts, [answer |-> answer, reason |-> end, turns |-> used,
                                       calls |-> session.calls, errors |-> session.errors])
      /\ counts' = IF answer = None THEN counts ELSE [counts EXCEPT ![answer] = @ + 1]
      /\ stopped' = IF Agrees(answer) THEN end ELSE stopped
      /\ pc' = IF Agrees(answer) \/ Len(attempts') = AttemptLimit THEN "returned" ELSE "batch"

\* What VLLMClient.generate may say instead of an answer, "ok" when it has no
\* outputs.
Refusal(state) ==
  CASE state = "running" -> {"ok", "invalid_request", "backend_error"}
    [] state = "down" -> {"not_started"}
    [] state = "unavailable" -> {"unavailable"}

\* The client's state after a response.
AfterRefusal(state, status) == IF status = "backend_error" THEN "down" ELSE state

\* Answers _extract_competition_answer may find in all turns together and in
\* none of them alone: "final answer is" at the end of one turn and a number at
\* the start of the next.
JoinedAnswers == {None} \cup (IF Len(turns) > 1 THEN Answers ELSE {})

-----------------------------------------------------------------------------
Init ==
  /\ client \in {"running", "down", "unavailable"}
  /\ session = NewSession /\ turns = <<>> /\ feedback = <<>> /\ reason = "max_turns_reached"
  /\ attempts = <<>> /\ counts = [a \in Answers |-> 0]
  /\ stopped = "attempt_budget_exhausted"
  /\ pc = "batch"

BeginAttempt ==
  /\ pc = "batch" /\ pc' = "turn"
  /\ session' = NewSession
  /\ turns' = <<>> /\ feedback' = <<>> /\ reason' = "max_turns_reached"
  /\ UNCHANGED <<client, tally>>

\* Another turn of the dialogue is due.
InTurn == pc = "turn" /\ Len(turns) < TurnLimit

\* A refusal ends the attempt (ClientRefusesRetry: the turn is tried again).
ClientRefusesRetry ==
  /\ InTurn
  /\ \E status \in Refusal(client) : client' = AfterRefusal(client, status)
  /\ UNCHANGED <<dialogue, tally, pc>>
ClientRefuses ==
  /\ InTurn
  /\ \E status \in Refusal(client) :
       /\ client' = AfterRefusal(client, status)
       /\ UNCHANGED dialogue
       /\ Record(None, status, Len(turns))

\* An answer ends the attempt; code in the same turn is not run.
FinalAnswer ==
  /\ InTurn /\ client = "running"
  /\ \E answer \in Answers :
       /\ UNCHANGED <<client, dialogue>>
       /\ Record(answer, "final_answer", Len(turns) + 1)

\* Neither answer nor code (PlainTurnSilent: without feedback).
PlainTurnSilent ==
  /\ InTurn /\ client = "running"
  /\ turns' = Append(turns, None)
  /\ reason' = "no_answer_or_tool"
  /\ UNCHANGED <<client, session, feedback, tally, pc>>
PlainTurn ==
  /\ InTurn /\ client = "running"
  /\ turns' = Append(turns, None)
  /\ feedback' = Append(feedback, [cell |-> None, error |-> None, replayed |-> <<>>])
  /\ reason' = "no_answer_or_tool"
  /\ UNCHANGED <<client, session, tally, pc>>

\* The break conditions after a call, in the order of the code.
BreakReason(error) ==
  CASE error = "ToolCallLimitReached" -> "tool_call_limit_reached"
    [] error \in Crashes -> "fatal_tool_runtime_failure"
    [] OTHER -> "tool_call_executed"

ToolTurn ==
  /\ InTurn /\ client = "running"
  /\ \E cell \in Cells : \E error \in Results(session, cell) :
       /\ turns' = Append(turns, cell)
       /\ session' = Executed(session, cell, error)
       /\ feedback' = Append(feedback, [cell |-> cell, error |-> error,
                                        replayed |-> IF error \in Refusals THEN <<>>
                                                     ELSE session.history])
       /\ reason' = BreakReason(error)
       /\ pc' = IF reason' = "tool_call_executed" THEN "turn" ELSE "close"
  /\ UNCHANGED <<client, tally>>

\* The worker cannot be started at all: the exception leaves the batch, and
\* what its attempts found is lost.
WorkerNotStarted ==
  /\ InTurn /\ client = "running"
  /\ \E cell \in Cells : None \in Results(session, cell)
  /\ pc' = "raised"
  /\ UNCHANGED <<client, dialogue, tally>>

CloseAttempt ==
  /\ pc = "close" \/ (pc = "turn" /\ ~InTurn)
  /\ \E answer \in JoinedAnswers : Record(answer, reason, Len(turns))
  /\ UNCHANGED <<client, dialogue>>

Next ==
  \/ BeginAttempt \/ ClientRefuses \/ FinalAnswer \/ PlainTurn
  \/ ToolTurn \/ WorkerNotStarted \/ CloseAttempt

\* The loops keep running; the client and the tool answer, the latter because
\* of its timeout.
Spec == Init /\ [][Next]_vars /\ WF_vars(Next)

-----------------------------------------------------------------------------
Ended == pc \in {"returned", "raised"}
Codes == Cells \cup {None}
Errors == Refusals \cup Failures \cup {None}

TypeOK ==
  /\ client \in {"running", "down", "unavailable"}
  /\ session \in Sessions
  /\ turns \in Seq(Codes)
  /\ feedback \in Seq([cell : Codes, error : Errors, replayed : Seq(Cells)])
  /\ reason \in Reasons
  /\ attempts \in Seq([answer : Answers \cup {None}, reason : Reasons,
                       turns : Nat, calls : Nat, errors : Nat])
  /\ counts \in [Answers -> Nat]
  /\ stopped \in {"attempt_budget_exhausted", "early_stop_consensus"}
  /\ pc \in {"batch", "turn", "close", "returned", "raised"}

\* _compose_turn_prompt pairs turns and feedback by position: each turn of a
\* running dialogue has exactly one feedback, and it reports on the code of that
\* turn.
FeedbackPaired ==
  pc \in {"turn", "close"} =>
    /\ Len(feedback) = Len(turns)
    /\ \A i \in DOMAIN feedback : feedback[i].cell = turns[i]

\* The turns among the first n whose code ran and succeeded, and a history that
\* holds exactly their cells, in their order.
Good(reports, n) == {i \in 1..n : reports[i].cell # None /\ reports[i].error = None}
IsHistory(cells, reports, n) ==
  /\ Len(cells) = Cardinality(Good(reports, n))
  /\ \A i \in Good(reports, n) : cells[Cardinality(Good(reports, i))] = reports[i].cell

\* The tool behaves like one notebook per attempt: whatever failed, timed out or
\* crashed in between, a cell runs after exactly the cells of this attempt that
\* succeeded before it, in their order.
OneNotebook ==
  pc \in {"turn", "close"} =>
    /\ IsHistory(session.history, feedback, Len(feedback))
    /\ \A i \in DOMAIN feedback :
         feedback[i].error \notin Refusals /\ feedback[i].cell # None
           => IsHistory(feedback[i].replayed, feedback, i - 1)

\* No attempt starts more workers than the limit, and what a record says of an
\* attempt explains how it ended: running out of turns is reported by what the
\* last turn did, the limit of calls only once it is used up, a crash only after
\* a call; an attempt cut off by the client has no answer, and after an error of
\* the backend no later one has a turn.  The early stop names the attempt that
\* completed the quorum, and no other.
VotesFor(records, a, n) == Cardinality({i \in 1..n : records[i].answer = a})
RecordsExplain ==
  /\ TypeOK
  /\ \A i \in DOMAIN attempts :
    LET t == attempts[i]
    IN  /\ t.calls <= MaxToolCalls /\ t.calls <= t.turns /\ t.errors <= t.turns
        /\ t.turns <= TurnLimit
        /\ t.reason # "max_turns_reached"
        /\ t.reason \in {"no_answer_or_tool", "tool_call_executed"} => t.turns = TurnLimit
        /\ t.reason = "tool_call_limit_reached" => t.calls = MaxToolCalls /\ t.errors > 0
        /\ t.reason = "fatal_tool_runtime_failure" => t.calls > 0 /\ t.errors > 0
        /\ t.reason \in ClientRefusals => t.answer = None
        /\ t.reason = "backend_error" =>
             \A j \in DOMAIN attempts : j > i => attempts[j].reason = "not_started" /\ attempts[j].turns = 0
        /\ t.reason = "final_answer" => t.answer # None
        /\ t.reason = "early_stop_consensus" <=>
             t.answer # None /\ VotesFor(attempts, t.answer, i) >= Quorum

\* The batch is the vote its caller expects.
Voting == INSTANCE VoteContract WITH
  Limit <- AttemptLimit,
  ballots <- [i \in DOMAIN attempts |-> attempts[i].answer],
  outcome <- CASE pc = "returned" -> stopped
               [] pc = "raised" -> "raised"
               [] OTHER -> "open"
ImplementsVote == Voting!Spec
=============================================================================
