------------------------- MODULE KaggleRunnerProofs -------------------------
(***************************************************************************)
(* The two loops of kaggle_runner.py.                                      *)
(*                                                                         *)
(* The attempts of one problem, for any number of attempts, turns, calls   *)
(* and answers: the dialogue stays paired, the tool is one notebook, the   *)
(* records explain themselves, and the batch is the vote of VoteContract.  *)
(*                                                                         *)
(* The run over an input file keeps its books, for any number of records,  *)
(* any budget and solves of any length.  Its behaviours are RunSpec; the   *)
(* modules share no variable.                                              *)
(***************************************************************************)
EXTENDS AttemptBatch, RecordRun, FiniteSetTheorems, SequenceTheorems, TLAPS

-----------------------------------------------------------------------------
\* The attempts of one problem (AttemptBatch).

Records == [answer : Answers \cup {None}, reason : Reasons,
            turns : Nat, calls : Nat, errors : Nat]
Reports == [cell : Codes, error : Errors, replayed : Seq(Cells)]

Inside == pc \in {"turn", "close"}
AtBreak == {"tool_call_limit_reached", "fatal_tool_runtime_failure"}

\* The running attempt: what is counted is bounded by the turns, and the reason
\* says what the last turn did; only a break leaves the loop before its end.
Progress ==
  Inside =>
    /\ Len(turns) <= TurnLimit
    /\ session.calls <= MaxToolCalls
    /\ session.calls <= Len(turns) /\ session.errors <= Len(turns)
    /\ reason = "max_turns_reached" <=> Len(turns) = 0
    /\ reason \in {"max_turns_reached", "no_answer_or_tool", "tool_call_executed"} \cup AtBreak
    /\ pc = "close" <=> reason \in AtBreak
    /\ reason = "tool_call_limit_reached" => session.calls = MaxToolCalls /\ session.errors > 0
    /\ reason = "fatal_tool_runtime_failure" => session.calls > 0 /\ session.errors > 0

\* What a record says on its own.
Plausible(t) ==
  /\ t.calls <= MaxToolCalls /\ t.calls <= t.turns /\ t.errors <= t.turns
  /\ t.turns <= TurnLimit
  /\ t.reason # "max_turns_reached"
  /\ t.reason \in {"no_answer_or_tool", "tool_call_executed"} => t.turns = TurnLimit
  /\ t.reason = "tool_call_limit_reached" => t.calls = MaxToolCalls /\ t.errors > 0
  /\ t.reason = "fatal_tool_runtime_failure" => t.calls > 0 /\ t.errors > 0
  /\ t.reason \in ClientRefusals => t.answer = None
  /\ t.reason = "final_answer" => t.answer # None

\* The counts are the votes, and no answer has a quorum while the batch runs.
Counted ==
  /\ \A a \in Answers : counts[a] = VotesFor(attempts, a, Len(attempts))
  /\ pc \notin {"returned", "raised"} =>
       /\ stopped = "attempt_budget_exhausted"
       /\ Len(attempts) < AttemptLimit
       /\ \A a \in Answers : counts[a] < Quorum

\* After an error of the backend the client is down, and no attempt gets a turn.
Refused(i) == attempts[i].reason = "backend_error"
AfterError ==
  /\ \A i, j \in DOMAIN attempts :
       Refused(i) /\ i < j => attempts[j].reason = "not_started" /\ attempts[j].turns = 0
  /\ (\E i \in DOMAIN attempts : Refused(i)) =>
       client = "down" /\ (Inside => Len(turns) = 0)

\* The early stop is the attempt that completed a quorum.
StopNamed ==
  \A i \in DOMAIN attempts :
    attempts[i].reason = "early_stop_consensus" <=>
      attempts[i].answer # None /\ VotesFor(attempts, attempts[i].answer, i) >= Quorum

DialogueInv == Progress /\ FeedbackPaired /\ OneNotebook
TallyInv == Counted /\ AfterError /\ StopNamed /\ \A i \in DOMAIN attempts : Plausible(attempts[i])
IInv == TypeOK /\ DialogueInv /\ TallyInv

-----------------------------------------------------------------------------
\* The limits the code derives from its configuration.
LEMMA Limits ==
  /\ TurnLimit \in Nat /\ TurnLimit >= 1
  /\ AttemptLimit \in Nat /\ AttemptLimit >= 1
  /\ Quorum \in Nat /\ Quorum >= 2
BY BatchAssumption DEF TurnLimit, AttemptLimit, Quorum, AtLeast

\* How many of the first n turns succeeded, and that each success has its place
\* among them.
LEMMA GoodCounted ==
  ASSUME NEW reports, NEW n \in Nat
  PROVE  /\ IsFiniteSet(Good(reports, n)) /\ Cardinality(Good(reports, n)) \in Nat
         /\ \A i \in Good(reports, n) :
              /\ i \in 1..n /\ Cardinality(Good(reports, i)) \in Nat
              /\ 1 <= Cardinality(Good(reports, i))
              /\ Cardinality(Good(reports, i)) <= Cardinality(Good(reports, n))
<1>1. \A k \in Nat : IsFiniteSet(Good(reports, k)) /\ Cardinality(Good(reports, k)) \in Nat
  <2> TAKE k \in Nat
  <2>1. IsFiniteSet(1..k) /\ Good(reports, k) \in SUBSET (1..k)
    BY FS_Interval DEF Good
  <2> QED
    BY <2>1, FS_Subset, FS_CardinalityType
<1>2. ASSUME NEW i \in Good(reports, n)
      PROVE  /\ i \in 1..n /\ i \in Nat /\ i \in Good(reports, i)
             /\ Good(reports, i) \in SUBSET Good(reports, n)
  BY <1>2 DEF Good
<1>3. ASSUME NEW i \in Good(reports, n)
      PROVE  /\ Cardinality(Good(reports, i)) <= Cardinality(Good(reports, n))
             /\ Cardinality(Good(reports, i)) # 0
  <2>1. Cardinality(Good(reports, i)) <= Cardinality(Good(reports, n))
    BY <1>1, <1>2, <1>3, FS_Subset
  <2>2. Good(reports, i) # {} /\ IsFiniteSet(Good(reports, i))
    BY <1>1, <1>2, <1>3
  <2> QED
    BY <2>1, <2>2, FS_EmptySet
<1> QED
  BY <1>1, <1>2, <1>3

\* What is counted over the first n reports does not depend on later ones.
LEMMA GoodOfLonger ==
  ASSUME NEW T, NEW reports \in Seq(T), NEW r \in T
  PROVE  LET longer == Append(reports, r)
             m == Len(reports) + 1
             done == r.cell # None /\ r.error = None
         IN  /\ \A n \in 0..Len(reports) : Good(longer, n) = Good(reports, n)
             /\ ~done => Good(longer, m) = Good(reports, Len(reports))
             /\ done => /\ Good(longer, m) = Good(reports, Len(reports)) \cup {m}
                        /\ Cardinality(Good(longer, m)) =
                             Cardinality(Good(reports, Len(reports))) + 1
<1> DEFINE longer == Append(reports, r)
           m == Len(reports) + 1
<1>1. /\ Len(reports) \in Nat /\ longer[m] = r
      /\ \A i \in 1..Len(reports) : longer[i] = reports[i]
  BY AppendProperties, LenProperties
<1> HIDE DEF longer
<1>2. \A n \in 0..Len(reports) : Good(longer, n) = Good(reports, n)
  BY <1>1 DEF Good
<1>3. Good(longer, m) = Good(reports, Len(reports)) \cup
        {i \in {m} : r.cell # None /\ r.error = None}
  BY <1>1 DEF Good
<1>4. m \notin Good(reports, Len(reports)) /\ IsFiniteSet(Good(reports, Len(reports)))
  BY <1>1, GoodCounted DEF Good
<1>5. Cardinality(Good(reports, Len(reports)) \cup {m}) =
        Cardinality(Good(reports, Len(reports))) + 1
  BY <1>4, FS_AddElement
<1> QED
  BY <1>2, <1>3, <1>5 DEF longer

\* So a history of the first n stays one,
LEMMA HistoryKept ==
  ASSUME NEW T, NEW reports \in Seq(T), NEW r \in T,
         NEW cells, NEW n \in 0..Len(reports), IsHistory(cells, reports, n)
  PROVE  IsHistory(cells, Append(reports, r), n)
<1> DEFINE longer == Append(reports, r)
<1>1. Len(reports) \in Nat /\ \A i \in 1..Len(reports) : longer[i] = reports[i]
  BY AppendProperties, LenProperties
<1>2. \A k \in 0..Len(reports) : Good(longer, k) = Good(reports, k)
  BY GoodOfLonger
<1> HIDE DEF longer
<1>3. \A i \in Good(reports, n) : i \in 1..n /\ i \in 0..Len(reports) /\ i \in 1..Len(reports)
  BY <1>1 DEF Good
<1> QED
  BY <1>1, <1>2, <1>3 DEF IsHistory, longer

\* and the whole history grows by the cell of the last turn if that succeeded.
LEMMA HistoryGrows ==
  ASSUME NEW T, NEW reports \in Seq(T), NEW r \in T,
         NEW cells \in Seq(Cells), IsHistory(cells, reports, Len(reports)),
         NEW after,
         after = IF r.cell # None /\ r.error = None THEN Append(cells, r.cell) ELSE cells,
         r.cell # None => r.cell \in Cells
  PROVE  IsHistory(after, Append(reports, r), Len(reports) + 1)
<1> DEFINE longer == Append(reports, r)
           m == Len(reports) + 1
           old == Good(reports, Len(reports))
<1>1. /\ Len(reports) \in Nat /\ longer[m] = r
      /\ \A i \in 1..Len(reports) : longer[i] = reports[i]
  BY AppendProperties, LenProperties
<1>2. \A i \in old : /\ Good(longer, i) = Good(reports, i)
                     /\ longer[i] = reports[i]
                     /\ cells[Cardinality(Good(reports, i))] = reports[i].cell
                     /\ Cardinality(Good(reports, i)) \in 1..Len(cells)
  <2> TAKE i \in old
  <2>1. /\ i \in 1..Len(reports) /\ Cardinality(Good(reports, i)) \in Nat
        /\ 1 <= Cardinality(Good(reports, i))
        /\ Cardinality(Good(reports, i)) <= Cardinality(old)
        /\ Cardinality(old) \in Nat
    BY <1>1, GoodCounted
  <2>2. Good(longer, i) = Good(reports, i)
    BY <1>1, <2>1, GoodOfLonger
  <2> QED
    BY <1>1, <2>1, <2>2 DEF IsHistory
<1>3. CASE r.cell # None /\ r.error = None
  <2>1. /\ Good(longer, m) = old \cup {m} /\ Cardinality(Good(longer, m)) = Len(cells) + 1
    BY <1>3, GoodOfLonger DEF IsHistory
  <2>2. /\ after = Append(cells, r.cell) /\ Len(after) = Len(cells) + 1
        /\ after[Len(cells) + 1] = r.cell
        /\ \A k \in 1..Len(cells) : after[k] = cells[k]
    BY <1>3, AppendProperties
  <2> HIDE DEF longer, old
  <2> QED
    BY <1>1, <1>2, <2>1, <2>2 DEF IsHistory, longer
<1>4. CASE ~(r.cell # None /\ r.error = None)
  <2>1. Good(longer, m) = old
    BY <1>4, GoodOfLonger
  <2> HIDE DEF longer
  <2> QED
    BY <1>2, <1>4, <2>1 DEF IsHistory, longer
<1> QED
  BY <1>3, <1>4

\* One more record is one more vote for its answer.
LEMMA VotesOfLonger ==
  ASSUME NEW T, NEW records \in Seq(T), NEW t \in T, NEW a
  PROVE  LET longer == Append(records, t)
             m == Len(records) + 1
         IN  /\ VotesFor(records, a, Len(records)) \in Nat
             /\ \A n \in 0..Len(records) : VotesFor(longer, a, n) = VotesFor(records, a, n)
             /\ VotesFor(longer, a, m) = VotesFor(records, a, Len(records)) + IF t.answer = a THEN 1 ELSE 0
<1> DEFINE longer == Append(records, t)
           m == Len(records) + 1
           Of(list, n) == {i \in 1..n : list[i].answer = a}
<1>1. /\ Len(records) \in Nat /\ longer[m] = t
      /\ \A i \in 1..Len(records) : longer[i] = records[i]
  BY AppendProperties, LenProperties
<1> HIDE DEF longer
<1>2. \A n \in 0..Len(records) : Of(longer, n) = Of(records, n)
  BY <1>1
<1>3. IsFiniteSet(Of(records, Len(records))) /\ m \notin Of(records, Len(records))
  <2>1. IsFiniteSet(1..Len(records)) /\ Of(records, Len(records)) \in SUBSET (1..Len(records))
    BY <1>1, FS_Interval
  <2>2. m \notin Of(records, Len(records))
    BY <1>1
  <2> QED
    BY <2>1, <2>2, FS_Subset
<1>4. Of(longer, m) = IF t.answer = a THEN Of(records, Len(records)) \cup {m}
                      ELSE Of(records, Len(records))
  BY <1>1
<1>5. Cardinality(Of(records, Len(records))) \in Nat
  BY <1>3, FS_CardinalityType
<1>6. Cardinality(Of(records, Len(records)) \cup {m}) = Cardinality(Of(records, Len(records))) + 1
  BY <1>3, FS_AddElement
<1>7. \A list, n : VotesFor(list, a, n) = Cardinality(Of(list, n))
  BY DEF VotesFor
<1> HIDE DEF Of
<1> QED
  BY <1>2, <1>4, <1>5, <1>6, <1>7 DEF longer

-----------------------------------------------------------------------------
\* What the tool answers and leaves behind.
LEMMA ToolTyped ==
  ASSUME NEW s \in Sessions, NEW cell \in Cells, NEW error \in Results(s, cell)
  PROVE  /\ error \in Errors /\ Executed(s, cell, error) \in Sessions
         /\ Executed(s, cell, error).history =
              IF error = None THEN Append(s.history, cell) ELSE s.history
         /\ Executed(s, cell, error).calls = IF error \in Refusals THEN s.calls ELSE s.calls + 1
         /\ Executed(s, cell, error).errors = IF error = None THEN s.errors ELSE s.errors + 1
         /\ error = "ToolCallLimitReached" => s.calls >= MaxToolCalls
         /\ error \notin Refusals => s.calls < MaxToolCalls
<1>1. s.history \in Seq(Cells) /\ s.calls \in Nat /\ s.errors \in Nat
  BY DEF Sessions
<1>2. Append(s.history, cell) \in Seq(Cells)
  BY <1>1, AppendProperties
<1>3. /\ error \in Errors
      /\ error = "ToolCallLimitReached" => s.calls >= MaxToolCalls
      /\ error \notin Refusals => s.calls < MaxToolCalls
  BY <1>1, ToolAssumption DEF Results, Errors, Refusals, Failures, Crashes
<1> QED
  BY <1>1, <1>2, <1>3 DEF Executed, Sessions

\* What a record of an attempt needs to keep the tally's invariant: it explains
\* itself, and it is in line with an earlier error of the backend.
MayRecord(answer, why, used) ==
  LET t == [answer |-> answer, reason |-> why, turns |-> used,
            calls |-> session.calls, errors |-> session.errors]
  IN  /\ t \in Records /\ Plausible(t) /\ why # "early_stop_consensus"
      /\ why = "backend_error" => client' = "down"
      /\ (\E i \in DOMAIN attempts : Refused(i)) =>
           why = "not_started" /\ used = 0 /\ client' = "down"

\* The end of an attempt: one record more, counted, and the batch goes on, ends
\* with a quorum, or ends with the last attempt.
LEMMA RecordKeeps ==
  ASSUME TypeOK, TallyInv, Inside, NEW answer, NEW why, NEW used,
         MayRecord(answer, why, used), Record(answer, why, used)
  PROVE  /\ attempts' \in Seq(Records) /\ counts' \in [Answers -> Nat]
         /\ stopped' \in {"attempt_budget_exhausted", "early_stop_consensus"}
         /\ pc' \in {"batch", "returned"}
         /\ TallyInv'
<1> DEFINE end == IF Agrees(answer) THEN "early_stop_consensus" ELSE why
           t == [answer |-> answer, reason |-> end, turns |-> used,
                 calls |-> session.calls, errors |-> session.errors]
           n == Len(attempts)
<1>1. /\ attempts \in Seq(Records) /\ counts \in [Answers -> Nat] /\ n \in Nat
      /\ DOMAIN attempts = 1..n
  BY LenProperties DEF TypeOK, Records
<1>2. t \in Records /\ t.answer = answer /\ t.reason = end /\ t.turns = used
  BY DEF MayRecord, Records, Reasons
<1>3. Plausible(t)
  BY DEF MayRecord, Plausible, Agrees, ClientRefusals
<1>4. /\ attempts' = Append(attempts, t)
      /\ counts' = IF answer = None THEN counts ELSE [counts EXCEPT ![answer] = @ + 1]
      /\ stopped' = IF Agrees(answer) THEN "early_stop_consensus" ELSE stopped
      /\ pc' = IF Agrees(answer) \/ Len(attempts') = AttemptLimit THEN "returned" ELSE "batch"
  BY DEF Record
<1>5. answer \in Answers \cup {None}
  BY DEF MayRecord, Records
<1> HIDE DEF t
<1>6. /\ attempts' \in Seq(Records) /\ Len(attempts') = n + 1 /\ attempts'[n + 1] = t
      /\ \A i \in 1..n : attempts'[i] = attempts[i]
      /\ DOMAIN attempts' = 1..(n + 1)
  BY <1>1, <1>2, <1>4, AppendProperties, LenProperties
<1>7. counts' \in [Answers -> Nat]
  BY <1>1, <1>4, <1>5
<1>8. \A a : /\ VotesFor(attempts, a, n) \in Nat
             /\ \A k \in 0..n : VotesFor(attempts', a, k) = VotesFor(attempts, a, k)
             /\ VotesFor(attempts', a, n + 1) =
                  VotesFor(attempts, a, n) + IF answer = a THEN 1 ELSE 0
  BY <1>1, <1>2, <1>4, VotesOfLonger
<1>9. \A a \in Answers : counts'[a] = counts[a] + IF answer = a THEN 1 ELSE 0
  BY <1>1, <1>4, <1>5, BatchAssumption
<1>10. /\ stopped = "attempt_budget_exhausted" /\ n < AttemptLimit
       /\ \A a \in Answers : counts[a] < Quorum /\ counts[a] = VotesFor(attempts, a, n)
  BY DEF TallyInv, Counted, Inside
<1>11. Counted'
  <2>1. \A a \in Answers : counts'[a] = VotesFor(attempts', a, n + 1)
    BY <1>8, <1>9, <1>10
  <2>2. pc' \notin {"returned", "raised"} =>
          /\ ~Agrees(answer) /\ Len(attempts') # AttemptLimit
    BY <1>4
  <2>3. ~Agrees(answer) => \A a \in Answers : counts'[a] < Quorum
    BY <1>1, <1>5, <1>9, <1>10, BatchAssumption, Limits DEF Agrees
  <2> QED
    BY <1>1, <1>4, <1>6, <1>10, <2>1, <2>2, <2>3, Limits DEF Counted
<1>12. StopNamed'
  <2>1. ASSUME NEW i \in 1..n
        PROVE  attempts'[i].reason = "early_stop_consensus" <=>
                 /\ attempts'[i].answer # None
                 /\ VotesFor(attempts', attempts'[i].answer, i) >= Quorum
    <3>1. attempts'[i] = attempts[i] /\ i \in 0..n
      BY <1>1, <1>6
    <3>2. VotesFor(attempts', attempts[i].answer, i) = VotesFor(attempts, attempts[i].answer, i)
      BY <1>8, <3>1
    <3> QED
      BY <1>1, <3>1, <3>2 DEF TallyInv, StopNamed
  <2>2. attempts'[n + 1].reason = "early_stop_consensus" <=> Agrees(answer)
    BY <1>2, <1>6 DEF MayRecord
  <2>3. Agrees(answer) <=> answer # None /\ VotesFor(attempts', answer, n + 1) >= Quorum
    BY <1>5, <1>8, <1>10 DEF Agrees
  <2> QED
    BY <1>2, <1>6, <2>1, <2>2, <2>3 DEF StopNamed
<1>13. AfterError'
  <2>1. t.reason = "backend_error" => client' = "down"
    BY <1>2 DEF MayRecord
  <2>2. (\E i \in 1..n : Refused(i)) =>
           t.reason = "not_started" /\ t.turns = 0 /\ client' = "down"
    BY <1>1, <1>2, BatchAssumption DEF MayRecord, Agrees, Plausible, ClientRefusals
  <2>3. pc' \notin {"turn", "close"}
    BY <1>4
  <2>4. \A i, j \in 1..n : Refused(i) /\ i < j =>
           attempts[j].reason = "not_started" /\ attempts[j].turns = 0
    BY <1>1 DEF TallyInv, AfterError
  <2> QED
    BY <1>1, <1>6, <2>1, <2>2, <2>3, <2>4 DEF AfterError, Refused, Inside
<1>14. \A i \in DOMAIN attempts' : Plausible(attempts'[i])
  BY <1>1, <1>3, <1>6 DEF TallyInv
<1>15. TallyInv'
  BY <1>11, <1>12, <1>13, <1>14 DEF TallyInv, Plausible
<1> QED
  BY <1>4, <1>6, <1>7, <1>10, <1>15

-----------------------------------------------------------------------------
\* A batch starts with no attempt.
LEMMA InitIInv == Init => IInv
<1> SUFFICES ASSUME Init PROVE IInv
  OBVIOUS
<1>1. TypeOK
  BY BatchAssumption DEF Init, TypeOK, NewSession, Sessions, Reasons
<1>2. DialogueInv
  BY DEF Init, DialogueInv, Progress, FeedbackPaired, OneNotebook, Inside
<1>3. Counted
  <2>1. \A a : VotesFor(attempts, a, 0) = 0
    BY FS_EmptySet DEF VotesFor
  <2> QED
    BY <2>1, Limits DEF Init, Counted
<1>4. AfterError /\ StopNamed /\ \A i \in DOMAIN attempts : Plausible(attempts[i])
  BY DEF Init, AfterError, StopNamed
<1> QED
  BY <1>1, <1>2, <1>3, <1>4 DEF IInv, TallyInv

\* An attempt begins with an empty dialogue and a session of its own.
LEMMA BeginAttemptKeeps == IInv /\ BeginAttempt => IInv'
<1> SUFFICES ASSUME IInv, BeginAttempt PROVE IInv'
  OBVIOUS
<1>1. /\ turns' = <<>> /\ feedback' = <<>> /\ session' = NewSession
      /\ reason' = "max_turns_reached" /\ pc = "batch" /\ pc' = "turn"
      /\ UNCHANGED <<client, attempts, counts, stopped>>
  BY DEF BeginAttempt, tally
<1>2. TypeOK'
  BY <1>1 DEF IInv, TypeOK, NewSession, Sessions, Reasons
<1>3. Progress'
  BY <1>1, Limits, ToolAssumption DEF Progress, NewSession, Inside, AtBreak
<1>4. FeedbackPaired'
  BY <1>1 DEF FeedbackPaired
<1>5. OneNotebook'
  <2>1. Good(<<>>, 0) = {}
    BY DEF Good
  <2> QED
    BY <1>1, <2>1, FS_EmptySet DEF OneNotebook, IsHistory, NewSession
<1>6. TallyInv'
  BY <1>1 DEF IInv, TallyInv, Counted, AfterError, Refused, StopNamed, Inside
<1> QED
  BY <1>2, <1>3, <1>4, <1>5, <1>6 DEF IInv, DialogueInv

\* An attempt that ends leaves its dialogue behind, which no longer matters.
LEMMA EndKeeps ==
  ASSUME IInv, Inside, UNCHANGED dialogue, client' \in {"running", "down", "unavailable"},
         NEW answer, NEW why, NEW used,
         MayRecord(answer, why, used), Record(answer, why, used)
  PROVE  IInv'
<1>1. /\ attempts' \in Seq(Records) /\ counts' \in [Answers -> Nat]
      /\ stopped' \in {"attempt_budget_exhausted", "early_stop_consensus"}
      /\ pc' \in {"batch", "returned"}
      /\ TallyInv'
  BY RecordKeeps DEF IInv
<1>2. TypeOK'
  BY <1>1 DEF IInv, TypeOK, dialogue, Records
<1>3. DialogueInv'
  BY <1>1 DEF DialogueInv, Progress, FeedbackPaired, OneNotebook, Inside
<1> QED
  BY <1>1, <1>2, <1>3 DEF IInv

\* Facts about a dialogue with a turn to come.
LEMMA InTurnFacts ==
  ASSUME IInv, InTurn
  PROVE  /\ Inside /\ session \in Sessions /\ Len(turns) \in Nat
         /\ session.calls \in Nat /\ session.errors \in Nat
         /\ session.calls <= MaxToolCalls /\ session.calls <= Len(turns)
         /\ session.errors <= Len(turns) /\ Len(turns) + 1 <= TurnLimit
         /\ MaxToolCalls \in Nat /\ TurnLimit \in Nat
<1>1. session \in Sessions /\ Len(turns) \in Nat /\ Inside
  BY LenProperties DEF IInv, TypeOK, InTurn, Inside
<1>2. session.calls \in Nat /\ session.errors \in Nat
  BY <1>1 DEF Sessions
<1> QED
  BY <1>1, <1>2, Limits, ToolAssumption DEF IInv, DialogueInv, Progress, InTurn

\* The client refuses: an error of its backend takes it down.
LEMMA ClientRefusesKeeps == IInv /\ ClientRefuses => IInv'
<1> SUFFICES ASSUME IInv, ClientRefuses PROVE IInv'
  OBVIOUS
<1>1. PICK status \in Refusal(client) :
        /\ client' = AfterRefusal(client, status)
        /\ UNCHANGED dialogue
        /\ Record(None, status, Len(turns))
  BY DEF ClientRefuses
<1>2. /\ status \in ClientRefusals
      /\ client' \in {"running", "down", "unavailable"}
      /\ status = "backend_error" => client' = "down"
      /\ client = "down" => status = "not_started" /\ client' = "down"
  BY <1>1 DEF IInv, TypeOK, Refusal, AfterRefusal, ClientRefusals
<1>3. InTurn
  BY DEF ClientRefuses
<1>4. MayRecord(None, status, Len(turns))
  <2>1. (\E i \in DOMAIN attempts : Refused(i)) => client = "down" /\ Len(turns) = 0
    BY <1>3, InTurnFacts DEF IInv, TallyInv, AfterError
  <2> QED
    BY <1>2, <1>3, <2>1, InTurnFacts DEF MayRecord, Records, Plausible, Reasons, ClientRefusals
<1> QED
  BY <1>1, <1>2, <1>3, <1>4, InTurnFacts, EndKeeps

\* A final answer.
LEMMA FinalAnswerKeeps == IInv /\ FinalAnswer => IInv'
<1> SUFFICES ASSUME IInv, FinalAnswer PROVE IInv'
  OBVIOUS
<1>1. PICK answer \in Answers :
        UNCHANGED <<client, dialogue>> /\ Record(answer, "final_answer", Len(turns) + 1)
  BY DEF FinalAnswer
<1>2. InTurn /\ client = "running" /\ client' = "running" /\ answer # None
  BY <1>1, BatchAssumption DEF FinalAnswer
<1>3. ~ \E i \in DOMAIN attempts : Refused(i)
  BY <1>2 DEF IInv, TallyInv, AfterError
<1>4. MayRecord(answer, "final_answer", Len(turns) + 1)
  BY <1>2, <1>3, InTurnFacts DEF MayRecord, Records, Plausible, Reasons, ClientRefusals
<1> QED
  BY <1>1, <1>2, <1>4, InTurnFacts, EndKeeps

\* The loop is left by a break or after the last turn.
LEMMA CloseAttemptKeeps == IInv /\ CloseAttempt => IInv'
<1> SUFFICES ASSUME IInv, CloseAttempt PROVE IInv'
  OBVIOUS
<1>1. PICK answer \in JoinedAnswers : Record(answer, reason, Len(turns))
  BY DEF CloseAttempt
<1>2. answer \in Answers \cup {None} /\ UNCHANGED <<client, dialogue>>
  BY <1>1 DEF JoinedAnswers, CloseAttempt
<1>3. /\ Inside /\ session \in Sessions /\ Len(turns) \in Nat /\ reason \in Reasons
      /\ pc = "close" \/ Len(turns) >= TurnLimit
  BY LenProperties, Limits DEF IInv, TypeOK, Inside, InTurn, CloseAttempt
<1>4. session.calls \in Nat /\ session.errors \in Nat
  BY <1>3 DEF Sessions
<1>5. /\ Len(turns) # 0 /\ Len(turns) <= TurnLimit
      /\ session.calls <= MaxToolCalls
      /\ session.calls <= Len(turns) /\ session.errors <= Len(turns)
      /\ reason \in {"no_answer_or_tool", "tool_call_executed"} \cup AtBreak
      /\ reason \notin AtBreak => Len(turns) = TurnLimit
      /\ reason = "tool_call_limit_reached" => session.calls = MaxToolCalls /\ session.errors > 0
      /\ reason = "fatal_tool_runtime_failure" => session.calls > 0 /\ session.errors > 0
  BY <1>3, Limits DEF IInv, DialogueInv, Progress, AtBreak
<1>6. ~ \E i \in DOMAIN attempts : Refused(i)
  BY <1>3, <1>5 DEF IInv, TallyInv, AfterError
<1>7. MayRecord(answer, reason, Len(turns))
  BY <1>2, <1>3, <1>4, <1>5, <1>6 DEF MayRecord, Records, Plausible, ClientRefusals, AtBreak
<1> QED
  BY <1>1, <1>2, <1>3, <1>7, EndKeeps DEF IInv, TypeOK

\* A turn that does not end the attempt: its code and its report are appended
\* side by side, and the session has run the code or was not asked.
LEMMA TurnKeeps ==
  ASSUME IInv, InTurn, client = "running", UNCHANGED <<client, tally>>,
         NEW f \in Reports,
         f.cell # None => f.cell \in Cells,
         turns' = Append(turns, f.cell), feedback' = Append(feedback, f),
         session' \in Sessions, reason' \in Reasons, pc' \in {"turn", "close"},
         session'.history = IF f.cell # None /\ f.error = None
                            THEN Append(session.history, f.cell) ELSE session.history,
         f.error \notin Refusals /\ f.cell # None => f.replayed = session.history,
         Progress'
  PROVE  IInv'
<1>1. /\ turns \in Seq(Codes) /\ feedback \in Seq(Reports) /\ session \in Sessions
      /\ Len(feedback) = Len(turns) /\ Len(turns) \in Nat
      /\ \A i \in 1..Len(turns) : feedback[i].cell = turns[i]
      /\ DOMAIN feedback = 1..Len(turns)
      /\ Inside
  BY InTurnFacts, LenProperties DEF IInv, TypeOK, DialogueInv, FeedbackPaired, Inside, Reports
<1>2. f.cell \in Codes /\ session.history \in Seq(Cells)
  BY <1>1 DEF Reports, Sessions
<1>3. /\ turns' \in Seq(Codes) /\ Len(turns') = Len(turns) + 1
      /\ turns'[Len(turns) + 1] = f.cell
      /\ \A i \in 1..Len(turns) : turns'[i] = turns[i]
  BY <1>1, <1>2, AppendProperties
<1>4. /\ feedback' \in Seq(Reports) /\ Len(feedback') = Len(turns) + 1
      /\ feedback'[Len(turns) + 1] = f
      /\ \A i \in 1..Len(turns) : feedback'[i] = feedback[i]
      /\ DOMAIN feedback' = 1..(Len(turns) + 1)
  BY <1>1, AppendProperties, LenProperties
<1>5. TypeOK'
  BY <1>3, <1>4 DEF IInv, TypeOK, tally, Reports
<1>6. FeedbackPaired'
  BY <1>1, <1>3, <1>4 DEF FeedbackPaired
<1>7. OneNotebook'
  <2>1. /\ IsHistory(session.history, feedback, Len(feedback))
        /\ \A i \in 1..Len(turns) : feedback[i].error \notin Refusals /\ feedback[i].cell # None
             => IsHistory(feedback[i].replayed, feedback, i - 1)
    BY <1>1 DEF IInv, DialogueInv, OneNotebook, Inside
  <2>2. IsHistory(session'.history, feedback', Len(feedback'))
    BY <1>1, <1>2, <1>4, <2>1, HistoryGrows
  <2>3. IsHistory(session.history, feedback', Len(turns))
    BY <1>1, <2>1, HistoryKept
  <2>4. ASSUME NEW i \in 1..Len(turns),
               feedback[i].error \notin Refusals, feedback[i].cell # None
        PROVE  IsHistory(feedback[i].replayed, feedback', i - 1)
    <3>1. i - 1 \in 0..Len(feedback) /\ IsHistory(feedback[i].replayed, feedback, i - 1)
      BY <1>1, <2>1, <2>4
    <3> QED
      BY <1>1, <3>1, HistoryKept
  <2>5. ASSUME NEW i \in 1..(Len(turns) + 1),
               feedback'[i].error \notin Refusals, feedback'[i].cell # None
        PROVE  IsHistory(feedback'[i].replayed, feedback', i - 1)
    <3>1. CASE i = Len(turns) + 1
      BY <1>1, <1>4, <2>3, <2>5, <3>1
    <3>2. CASE i # Len(turns) + 1
      BY <1>1, <1>4, <2>4, <2>5, <3>2
    <3> QED
      BY <3>1, <3>2
  <2> QED
    BY <1>4, <2>2, <2>5 DEF OneNotebook
<1>8. TallyInv'
  <2>1. ~ \E i \in DOMAIN attempts : Refused(i)
    BY DEF IInv, TallyInv, AfterError
  <2>2. UNCHANGED <<attempts, counts, stopped>>
    BY DEF tally
  <2> QED
    BY <1>1, <2>1, <2>2 DEF IInv, TallyInv, Counted, AfterError, Refused, StopNamed, Inside
<1> QED
  BY <1>5, <1>6, <1>7, <1>8 DEF IInv, DialogueInv

\* A turn without code.
LEMMA PlainTurnKeeps == IInv /\ PlainTurn => IInv'
<1> SUFFICES ASSUME IInv, PlainTurn PROVE IInv'
  OBVIOUS
<1> DEFINE f == [cell |-> None, error |-> None, replayed |-> <<>>]
<1>1. /\ InTurn /\ client = "running" /\ UNCHANGED <<client, session, tally, pc>>
      /\ turns' = Append(turns, f.cell) /\ feedback' = Append(feedback, f)
      /\ reason' = "no_answer_or_tool"
  BY DEF PlainTurn
<1>2. f \in Reports /\ f.cell = None
  BY DEF Reports, Codes, Errors
<1> HIDE DEF f
<1>3. turns \in Seq(Codes) /\ f.cell \in Codes
  BY <1>2 DEF IInv, TypeOK, Codes
<1>4. Len(turns') = Len(turns) + 1
  BY <1>1, <1>3, AppendProperties
<1>5. Progress'
  BY <1>1, <1>4, InTurnFacts DEF Progress, Inside, AtBreak, InTurn
<1> QED
  BY <1>1, <1>2, <1>5, InTurnFacts, TurnKeeps DEF Reasons, InTurn

\* A turn with code: the tool runs it or refuses.
LEMMA ToolTurnKeeps == IInv /\ ToolTurn => IInv'
<1> SUFFICES ASSUME IInv, ToolTurn PROVE IInv'
  OBVIOUS
<1>1. PICK cell \in Cells : \E error \in Results(session, cell) :
        /\ turns' = Append(turns, cell)
        /\ session' = Executed(session, cell, error)
        /\ feedback' = Append(feedback, [cell |-> cell, error |-> error,
                                         replayed |-> IF error \in Refusals THEN <<>>
                                                      ELSE session.history])
        /\ reason' = BreakReason(error)
        /\ pc' = IF reason' = "tool_call_executed" THEN "turn" ELSE "close"
  BY DEF ToolTurn
<1>2. PICK error \in Results(session, cell) :
        /\ turns' = Append(turns, cell)
        /\ session' = Executed(session, cell, error)
        /\ feedback' = Append(feedback, [cell |-> cell, error |-> error,
                                         replayed |-> IF error \in Refusals THEN <<>>
                                                      ELSE session.history])
        /\ reason' = BreakReason(error)
        /\ pc' = IF reason' = "tool_call_executed" THEN "turn" ELSE "close"
  BY <1>1
<1>3. InTurn /\ client = "running" /\ UNCHANGED <<client, tally>>
  BY DEF ToolTurn
<1> DEFINE f == [cell |-> cell, error |-> error,
                 replayed |-> IF error \in Refusals THEN <<>> ELSE session.history]
<1>4. /\ error \in Errors /\ session' \in Sessions
      /\ session'.history = IF error = None THEN Append(session.history, cell) ELSE session.history
      /\ session'.calls = IF error \in Refusals THEN session.calls ELSE session.calls + 1
      /\ session'.errors = IF error = None THEN session.errors ELSE session.errors + 1
      /\ error = "ToolCallLimitReached" => session.calls >= MaxToolCalls
      /\ error \notin Refusals => session.calls < MaxToolCalls
  BY <1>2, <1>3, InTurnFacts, ToolTyped
<1>5. /\ f \in Reports /\ f.cell = cell /\ f.error = error
      /\ f.error \notin Refusals => f.replayed = session.history
  BY <1>3, <1>4, InTurnFacts DEF Reports, Codes, Sessions
<1>6. feedback' = Append(feedback, f)
  BY <1>2
<1> HIDE DEF f
<1>7. Len(turns') = Len(turns) + 1
  <2>1. turns \in Seq(Codes) /\ cell \in Codes
    BY DEF IInv, TypeOK, Codes
  <2> QED
    BY <1>2, <2>1, AppendProperties
<1>8. /\ reason' \in {"tool_call_executed"} \cup AtBreak
      /\ reason' \in Reasons /\ pc' \in {"turn", "close"}
      /\ pc' = "close" <=> reason' \in AtBreak
      /\ reason' = "tool_call_limit_reached" => error = "ToolCallLimitReached"
      /\ reason' = "fatal_tool_runtime_failure" => error \in Crashes
  BY <1>2 DEF BreakReason, Reasons, AtBreak
<1>9. Progress'
  <2>1. "ToolCallLimitReached" # None /\ None \notin Crashes /\ "ToolCallLimitReached" \in Refusals
        /\ Crashes \cap Refusals = {} /\ None \notin Refusals
    BY ToolAssumption DEF Refusals, Failures, Crashes
  <2> QED
    BY <1>3, <1>4, <1>7, <1>8, <2>1, InTurnFacts DEF Progress, Inside, AtBreak
<1>10. cell # None
  BY ToolAssumption
<1> QED
  BY <1>2, <1>3, <1>4, <1>5, <1>6, <1>8, <1>9, <1>10, TurnKeeps

\* The worker cannot be started, and the batch breaks off.
LEMMA WorkerNotStartedKeeps == IInv /\ WorkerNotStarted => IInv'
<1> SUFFICES ASSUME IInv, WorkerNotStarted PROVE IInv'
  OBVIOUS
<1>1. pc' = "raised" /\ UNCHANGED <<client, dialogue, tally>>
  BY DEF WorkerNotStarted
<1>2. TypeOK'
  BY <1>1 DEF IInv, TypeOK, dialogue, tally
<1>3. DialogueInv'
  BY <1>1 DEF DialogueInv, Progress, FeedbackPaired, OneNotebook, Inside
<1>4. TallyInv'
  BY <1>1 DEF IInv, TallyInv, Counted, AfterError, Refused, StopNamed, Inside, tally
<1> QED
  BY <1>2, <1>3, <1>4 DEF IInv

\* Every step keeps the invariant.
LEMMA NextIInv == IInv /\ [Next]_vars => IInv'
<1>1. IInv /\ UNCHANGED vars => IInv'
  BY DEF IInv, TypeOK, DialogueInv, Progress, FeedbackPaired, OneNotebook, TallyInv, Counted,
         AfterError, Refused, StopNamed, Inside, vars, dialogue, tally
<1> QED
  BY <1>1, BeginAttemptKeeps, ClientRefusesKeeps, FinalAnswerKeeps, PlainTurnKeeps,
     ToolTurnKeeps, WorkerNotStartedKeeps, CloseAttemptKeeps DEF Next

\* The inductive invariant holds throughout.
THEOREM SpecIInv == Spec => []IInv
  BY InitIInv, NextIInv, PTL DEF Spec

\* Every value of the batch keeps its type.
THEOREM SpecTypeOK == Spec => []TypeOK
<1>1. IInv => TypeOK
  BY DEF IInv
<1> QED
  BY <1>1, SpecIInv, PTL

\* Whatever the turns do, turns and feedback stay paired by position, as
\* _compose_turn_prompt counts on.
THEOREM SpecFeedbackPaired == Spec => []FeedbackPaired
<1>1. IInv => FeedbackPaired
  BY DEF IInv, DialogueInv
<1> QED
  BY <1>1, SpecIInv, PTL

\* The tool is one notebook per attempt, for any sequence of calls and failures:
\* the replay of PythonToolSession.execute runs exactly what succeeded before.
THEOREM SpecOneNotebook == Spec => []OneNotebook
<1>1. IInv => OneNotebook
  BY DEF IInv, DialogueInv
<1> QED
  BY <1>1, SpecIInv, PTL

\* What _run_attempt records of an attempt explains how it ended, for any limits.
THEOREM SpecRecordsExplain == Spec => []RecordsExplain
<1>1. IInv => RecordsExplain
  BY DEF IInv, TallyInv, Plausible, AfterError, Refused, StopNamed, RecordsExplain
<1> QED
  BY <1>1, SpecIInv, PTL

-----------------------------------------------------------------------------
\* The batch as a vote: its ballots and its outcome.
Ballots == [i \in DOMAIN attempts |-> attempts[i].answer]
Outcome == CASE pc = "returned" -> stopped
             [] pc = "raised" -> "raised"
             [] OTHER -> "open"

\* No vote is cast before the first attempt.
LEMMA InitVotes == Init => Voting!Init
<1> SUFFICES ASSUME Init PROVE Voting!Init
  OBVIOUS
<1>1. attempts = <<>> /\ pc = "batch"
  BY DEF Init
<1>2. Ballots = <<>>
  BY <1>1 DEF Ballots
<1>3. Outcome = "open"
  BY <1>1 DEF Outcome
<1> QED
  BY <1>2, <1>3 DEF Voting!Init, Ballots, Outcome

\* The votes of the contract are the counts of the code.
LEMMA VotesAreCounts == IInv => \A a \in Answers : Voting!Votes(a) = counts[a]
<1> SUFFICES ASSUME IInv, NEW a \in Answers PROVE Voting!Votes(a) = counts[a]
  OBVIOUS
<1>1. attempts \in Seq(Records) /\ DOMAIN attempts = 1..Len(attempts)
  BY LenProperties DEF IInv, TypeOK, Records
<1>2. {i \in DOMAIN Ballots : Ballots[i] = a} = {i \in 1..Len(attempts) : attempts[i].answer = a}
  BY <1>1 DEF Ballots
<1>3. Voting!Votes(a) = Cardinality({i \in DOMAIN Ballots : Ballots[i] = a})
  BY DEF Voting!Votes, Ballots, Voting!Cardinality, Voting!IsFiniteSet, Cardinality, IsFiniteSet
<1> QED
  BY <1>2, <1>3 DEF IInv, TallyInv, Counted, VotesFor

\* The end of an attempt casts its ballot: blank without an answer, and the last
\* one when it settles the vote or the attempts are used up.
LEMMA RecordCasts ==
  ASSUME IInv, Inside, NEW answer \in Answers \cup {None}, NEW why, NEW used,
         IInv', Record(answer, why, used)
  PROVE  Voting!Cast
<1> DEFINE n == Len(attempts)
<1>1. /\ attempts \in Seq(Records) /\ attempts' \in Seq(Records) /\ n \in Nat
      /\ DOMAIN attempts = 1..n /\ DOMAIN attempts' = 1..Len(attempts')
      /\ counts \in [Answers -> Nat]
      /\ Len(attempts') \in Nat
  BY LenProperties DEF IInv, TypeOK, Records
<1>2. PICK t : attempts' = Append(attempts, t) /\ t.answer = answer
  BY DEF Record
<1>3. /\ Len(attempts') = n + 1 /\ attempts'[n + 1] = t
      /\ \A i \in 1..n : attempts'[i] = attempts[i]
  BY <1>1, <1>2
<1>4. Ballots' = Append(Ballots, answer)
  BY <1>1, <1>2, <1>3 DEF Ballots
<1>5. Outcome = "open"
  BY DEF Outcome, Inside
<1>6. /\ pc' = IF Agrees(answer) \/ n + 1 = AttemptLimit THEN "returned" ELSE "batch"
      /\ stopped' = IF Agrees(answer) THEN "early_stop_consensus" ELSE stopped
      /\ counts' = IF answer = None THEN counts ELSE [counts EXCEPT ![answer] = @ + 1]
  BY <1>3 DEF Record
<1>7. /\ stopped = "attempt_budget_exhausted" /\ n < AttemptLimit
      /\ \A a \in Answers : counts[a] < Quorum
      /\ \A a \in Answers : counts'[a] = VotesFor(attempts', a, n + 1)
  BY <1>3 DEF IInv, TallyInv, Counted, Inside
<1>8. (\E a \in Answers : counts'[a] >= Quorum) <=> Agrees(answer)
  BY <1>1, <1>6, <1>7, Limits, BatchAssumption DEF Agrees
<1>9. Outcome' = IF \E a \in Answers : counts'[a] >= Quorum THEN "early_stop_consensus"
                 ELSE IF n + 1 >= AttemptLimit THEN "attempt_budget_exhausted"
                 ELSE "open"
  BY <1>1, <1>6, <1>7, <1>8, Limits DEF Outcome
<1>10. \A a \in Answers : Voting!Votes(a)' = counts'[a]
  <2>1. (IInv => \A a \in Answers : Voting!Votes(a) = counts[a])'
    BY VotesAreCounts, PTL
  <2> QED
    BY <2>1
<1>11. Len(Ballots') = n + 1
  BY <1>1, <1>3 DEF Ballots
<1>12. Outcome' = IF \E a \in Answers : Voting!Votes(a)' >= Quorum THEN "early_stop_consensus"
                  ELSE IF Len(Ballots') >= AttemptLimit THEN "attempt_budget_exhausted"
                  ELSE "open"
  BY <1>9, <1>10, <1>11
<1>13. \E b \in Answers \cup {None} : Ballots' = Append(Ballots, b)
  BY <1>4
<1> QED
  BY <1>5, <1>12, <1>13 DEF Voting!Cast, Ballots, Outcome

\* Every step of the batch casts a ballot, breaks the vote off, or leaves it
\* alone.
LEMMA NextVotes == IInv /\ IInv' /\ [Next]_vars => [Voting!Next]_(Voting!vars)
<1> SUFFICES ASSUME IInv, IInv', [Next]_vars PROVE [Voting!Next]_(Voting!vars)
  OBVIOUS
<1>1. CASE \E answer \in Answers \cup {None} : \E why, used : Inside /\ Record(answer, why, used)
  BY <1>1, RecordCasts DEF Voting!Next
<1>2. CASE UNCHANGED attempts /\ Outcome' = Outcome
  <2>1. Ballots' = Ballots
    BY <1>2 DEF Ballots
  <2> QED
    BY <1>2, <2>1 DEF Voting!vars, Ballots, Outcome
<1>3. CASE WorkerNotStarted
  <2>1. Ballots' = Ballots /\ Outcome = "open" /\ Outcome' = "raised"
    BY <1>3 DEF WorkerNotStarted, InTurn, tally, Ballots, Outcome
  <2> QED
    BY <2>1 DEF Voting!Next, Voting!BreakOff, Ballots, Outcome
<1>4. ClientRefuses \/ FinalAnswer \/ CloseAttempt
        => \E answer \in Answers \cup {None} : \E why, used : Inside /\ Record(answer, why, used)
  BY DEF ClientRefuses, FinalAnswer, CloseAttempt, JoinedAnswers, InTurn, Inside
<1>5. BeginAttempt \/ PlainTurn \/ ToolTurn \/ UNCHANGED vars
        => UNCHANGED attempts /\ Outcome' = Outcome
  BY DEF BeginAttempt, PlainTurn, ToolTurn, InTurn, vars, tally, Outcome
<1> QED
  BY <1>1, <1>2, <1>3, <1>4, <1>5 DEF Next

\* run_minimal_attempts is the vote of VoteContract: it never stops before a
\* quorum or the last attempt, never goes on after either, and casts each ballot
\* once, whatever happens inside the attempts.
THEOREM SpecVotes == Spec => Voting!Init /\ [][Voting!Next]_(Voting!vars)
  BY InitVotes, SpecIInv, NextVotes, PTL DEF Spec

-----------------------------------------------------------------------------
\* The run over an input file (RecordRun).

Elapsed == 0..MaxElapsed

\* The tracker and the clock, typed.
ClockOK == config \in Configs /\ spent \in Nat /\ worked \in Nat

ClockInv == ClockOK /\ ChargedOnce /\ OverrunBounded

-----------------------------------------------------------------------------
\* A solve, however it ends, starts with time left, takes some, and charges it
\* once, or twice where no fallback row is wanted.
TimedStep ==
  /\ config' = config /\ ~OutOfBudget
  /\ \E elapsed \in Elapsed :
       /\ worked' = worked + elapsed
       /\ \/ spent' = Charged(spent, elapsed)
          \/ ~config.emit /\ spent' = Charged(Charged(spent, elapsed), elapsed)

\* Every step of the run is a timed one or leaves the clock alone.
LEMMA StepsTimed == RunNext => TimedStep \/ UNCHANGED <<config, spent, worked>>
<1> SUFFICES ASSUME RunNext PROVE TimedStep \/ UNCHANGED <<config, spent, worked>>
  OBVIOUS
<1>1. CASE SkipForBudget
  BY <1>1 DEF SkipForBudget
<1>2. CASE Solve
  BY <1>2 DEF Solve, TimedStep, Elapsed
<1>3. CASE SolveRaises
  BY <1>3 DEF SolveRaises, TimedStep, Elapsed
<1>4. CASE RowRaises
  BY <1>4 DEF RowRaises, TimedStep, Elapsed
<1> QED
  BY <1>1, <1>2, <1>3, <1>4 DEF RunNext

\* At the start nothing is spent.
LEMMA InitClock == RunInit => ClockInv
  BY RunAssumption DEF RunInit, ClockInv, ClockOK, ChargedOnce, OverrunBounded

\* A timed step keeps the books: what was charged covers what was worked, and the
\* budget was not worked up before.
LEMMA TimedStepKeepsClock ==
  ASSUME ClockInv, TimedStep
  PROVE  ClockInv'
<1>1. PICK elapsed \in Elapsed :
        /\ worked' = worked + elapsed
        /\ \/ spent' = Charged(spent, elapsed)
           \/ ~config.emit /\ spent' = Charged(Charged(spent, elapsed), elapsed)
  BY DEF TimedStep
<1>2. elapsed \in Nat /\ elapsed <= MaxElapsed
  BY RunAssumption DEF Elapsed
<1>3. config' = config
  BY DEF TimedStep
<1>4. ClockOK'
  BY <1>1, <1>2, <1>3 DEF ClockInv, ClockOK, Charged
<1>5. ChargedOnce'
  BY <1>1, <1>2, <1>3, SMTT(30) DEF ClockInv, ClockOK, ChargedOnce, Charged
<1>6. OverrunBounded'
  <2> SUFFICES ASSUME config.stopsAtBudget, Budget # NoBudget
               PROVE  worked' < Budget + MaxElapsed
    BY <1>3 DEF OverrunBounded
  <2>1. Budget \in Int /\ spent < Budget
    BY RunAssumption DEF TimedStep, OutOfBudget, ClockInv, ClockOK
  <2>2. worked <= spent
    BY DEF ClockInv, ChargedOnce
  <2> QED
    BY <1>1, <1>2, <2>1, <2>2, RunAssumption DEF ClockInv, ClockOK
<1> QED
  BY <1>4, <1>5, <1>6 DEF ClockInv

\* Every step keeps the books on time.
LEMMA NextClock == ClockInv /\ [RunNext]_runVars => ClockInv'
<1> SUFFICES ASSUME ClockInv, [RunNext]_runVars PROVE ClockInv'
  OBVIOUS
<1>1. CASE TimedStep
  BY <1>1, TimedStepKeepsClock
<1>2. CASE UNCHANGED <<config, spent, worked>>
  BY <1>2 DEF ClockInv, ClockOK, ChargedOnce, OverrunBounded
<1> QED
  BY <1>1, <1>2, StepsTimed DEF runVars

\* The books on time are kept throughout a run.
THEOREM SpecClock == RunSpec => []ClockInv
  BY InitClock, NextClock, PTL DEF RunSpec

\* Time is charged to the tracker once per solve where fallback rows are on, and
\* never less than once: run_records charges before it makes the row, and again
\* in its handler.
THEOREM SpecChargedOnce == RunSpec => []ChargedOnce
<1>1. ClockInv => ChargedOnce
  BY DEF ClockInv
<1> QED
  BY <1>1, SpecClock, PTL

\* The global time budget, looked at between problems only, is overrun by less
\* than one solve.
THEOREM SpecOverrunBounded == RunSpec => []OverrunBounded
<1>1. ClockInv => OverrunBounded
  BY DEF ClockInv
<1> QED
  BY <1>1, SpecClock, PTL

-----------------------------------------------------------------------------
\* What the books rest on: where the loop is, that nothing is noted for a record
\* ahead of it, and that a record skipped for time means there is none left.
BudgetStatus == "budget_exhausted_fallback"
NotAhead ==
  /\ loop = "run" => next <= NumRecords
  /\ \A k \in DOMAIN rows : rows[k].id < next
  /\ \A k \in DOMAIN failures : failures[k].id <= next
  /\ loop = "run" => \A k \in DOMAIN failures : failures[k].id < next
SkippedForTime == (\E k \in DOMAIN runs : runs[k].status = BudgetStatus) => OutOfBudget

BooksInv == RunTypeOK /\ NotAhead /\ SkippedForTime /\ AccountedOnce /\ RowsMatchRuns

\* What a step writes into the books, by its effect.
Status(s) == s \in Statuses /\ (s = BudgetStatus <=> OutOfBudget)
Noted(s) == /\ Status(s)
            /\ runs' = Append(runs, [id |-> next, status |-> s])
Listed(code) == failures' = Append(failures, [id |-> next, code |-> code])
Goes == next' = next + 1 /\ loop' \in {"run", "returned"} /\ (loop' = "run" => next < NumRecords)

Served ==
  /\ rows' = Append(rows, [id |-> next, fallback |-> FALSE])
  /\ \E s \in Statuses : Noted(s)
  /\ UNCHANGED failures /\ Goes
Replaced ==
  /\ config.emit
  /\ rows' = Append(rows, [id |-> next, fallback |-> TRUE])
  /\ \E s \in Statuses : Noted(s)
  /\ \E code \in FailureCodes : Listed(code)
  /\ Goes
Missed ==
  /\ ~config.emit
  /\ UNCHANGED <<rows, runs>>
  /\ \E code \in FailureCodes : Listed(code)
  /\ Goes \/ (UNCHANGED next /\ loop' = "raised")
BookStep ==
  /\ loop = "run" /\ config' = config /\ (OutOfBudget => UNCHANGED spent)
  /\ spent' \in Nat /\ worked' \in Nat
  /\ Served \/ Replaced \/ Missed

\* A list that ends with the next record.
LEMMA AppendedElements ==
  ASSUME NEW T, NEW list \in Seq(T), NEW e
  PROVE  LET longer == Append(list, e)
         IN  /\ DOMAIN longer = DOMAIN list \cup {Len(list) + 1}
             /\ \A k \in DOMAIN list : longer[k] = list[k] /\ k < Len(list) + 1
             /\ longer[Len(list) + 1] = e
             /\ DOMAIN list \subseteq Nat /\ Len(list) + 1 \in Nat
  OBVIOUS

\* The elements of a list.
LEMMA ListElement ==
  ASSUME NEW T, NEW list \in Seq(T), NEW k \in DOMAIN list
  PROVE  list[k] \in T
  OBVIOUS

\* Appending the next record to a list of earlier ones keeps it in order.
LEMMA AppendInOrder ==
  ASSUME NEW T, NEW list \in Seq(T), NEW e, e.id = next,
         \A k \in DOMAIN list : list[k].id < next,
         InOrder(list)
  PROVE  InOrder(Append(list, e)) /\ Ids(Append(list, e)) = Ids(list) \cup {next}
<1> DEFINE longer == Append(list, e)
           n == Len(list) + 1
<1>1. /\ DOMAIN longer = DOMAIN list \cup {n}
      /\ \A k \in DOMAIN list : longer[k] = list[k] /\ k < n
      /\ longer[n] = e /\ DOMAIN list \subseteq Nat /\ n \in Nat
  BY AppendedElements
<1> HIDE DEF longer, n
<1>2. InOrder(longer)
  BY <1>1 DEF InOrder
<1>3. Ids(longer) = Ids(list) \cup {next}
  BY <1>1 DEF Ids
<1> QED
  BY <1>2, <1>3 DEF longer

-----------------------------------------------------------------------------
\* Advance goes on to the next record or leaves the loop.
LEMMA AdvanceGoes ==
  ASSUME RunTypeOK, NotAhead, loop = "run", NEW leave, Advance(leave)
  PROVE  Goes
  BY RunAssumption DEF RunTypeOK, NotAhead, Advance, Goes

\* A failure noted by the loop or its handler, with or without a fallback row.
LEMMA FallbackBooked ==
  ASSUME NEW code \in FailureCodes, NEW s, Status(s), Fallback(code, s),
         Goes \/ (~config.emit /\ UNCHANGED next /\ loop' = "raised"),
         config.emit \in BOOLEAN
  PROVE  Replaced \/ Missed
<1>1. Listed(code)
  BY DEF Fallback, Listed
<1>2. CASE config.emit
  <2>1. s \in Statuses /\ Noted(s)
    BY <1>2 DEF Fallback, Noted, Status
  <2> QED
    BY <1>1, <1>2, <2>1 DEF Fallback, Replaced
<1>3. CASE ~config.emit
  BY <1>1, <1>3 DEF Fallback, Missed
<1> QED
  BY <1>2, <1>3

\* Only a record skipped for time has the status that says so.
LEMMA KnownStatuses ==
  /\ BudgetStatus \in Statuses
  /\ "runner_exception_fallback" \in Statuses \ {BudgetStatus}
  /\ \A r \in Contract!Results : r.status \in Statuses \ {BudgetStatus}
<1>1. \A r \in Contract!Results :
        r.status \in {"success"} \cup Contract!EarlyFailures \cup Contract!FormatFailures
  BY DEF Contract!Results
<1>2. BudgetStatus \notin {"success"} \cup Contract!EarlyFailures \cup Contract!FormatFailures
  BY DEF BudgetStatus, Contract!EarlyFailures, Contract!FormatFailures
<1> QED
  BY <1>1, <1>2 DEF Statuses, BudgetStatus

\* Skipping a record for time is a step of the books.
LEMMA SkipBooked ==
  ASSUME BooksInv, SkipForBudget
  PROVE  BookStep
<1>1. Status(BudgetStatus)
  BY KnownStatuses DEF SkipForBudget, Status
<1>2. Goes
  BY AdvanceGoes DEF SkipForBudget, BooksInv
<1>3. Replaced \/ Missed
  <2>1. "global_time_budget_exhausted" \in FailureCodes
    BY DEF FailureCodes
  <2>2. Fallback("global_time_budget_exhausted", BudgetStatus)
    BY DEF SkipForBudget, BudgetStatus
  <2> QED
    BY <1>1, <1>2, <2>1, <2>2, FallbackBooked DEF BooksInv, RunTypeOK, Configs
<1> QED
  BY <1>3 DEF SkipForBudget, BookStep, BooksInv, RunTypeOK

\* What the handler of exceptions writes.
LEMMA ExceptionBooked ==
  ASSUME BooksInv, loop = "run", ~OutOfBudget, HandleException
  PROVE  Replaced \/ Missed
<1>1. Status("runner_exception_fallback")
  BY KnownStatuses DEF Status
<1>2. Goes \/ (~config.emit /\ UNCHANGED next /\ loop' = "raised")
  BY AdvanceGoes DEF HandleException, BooksInv
<1>3. "runner_exception" \in FailureCodes
  BY DEF FailureCodes
<1> QED
  BY <1>1, <1>2, <1>3, FallbackBooked DEF HandleException, BooksInv, RunTypeOK, Configs

\* What a solve that returns leads to.
LEMMA SolveBooked ==
  ASSUME BooksInv, Solve
  PROVE  Served \/ Replaced
<1>1. PICK r \in Contract!Results, elapsed \in 0..MaxElapsed, own \in BOOLEAN :
        /\ own \/ config.emit
        /\ rows' = Append(rows, [id |-> next, fallback |-> ~own])
        /\ runs' = Append(runs, [id |-> next, status |-> r.status])
        /\ failures' = IF own THEN failures
                       ELSE Append(failures, [id |-> next, code |-> FailureCode(r)])
  <2>1. \A r \in Contract!Results : RowOutcomes(r) \subseteq BOOLEAN
    BY DEF RowOutcomes
  <2> QED
    BY <2>1 DEF Solve
<1>2. r.status \in Statuses /\ Noted(r.status)
  BY <1>1, KnownStatuses DEF Solve, Noted, Status
<1>3. Goes
  BY AdvanceGoes DEF Solve, BooksInv
<1>4. CASE own
  <2>1. ~own = FALSE
    BY <1>4
  <2> QED
    BY <1>1, <1>2, <1>3, <1>4, <2>1 DEF Served
<1>5. CASE ~own
  <2>1. ~own = TRUE
    BY <1>5
  <2>2. FailureCode(r) \in FailureCodes /\ Listed(FailureCode(r))
    BY <1>1, <1>5 DEF FailureCode, FailureCodes, Listed
  <2> QED
    BY <1>1, <1>2, <1>3, <2>1, <2>2 DEF Replaced
<1> QED
  BY <1>4, <1>5

\* Every iteration is a step of the books.
LEMMA NextBooked ==
  ASSUME BooksInv, RunNext
  PROVE  BookStep
<1>1. CASE SkipForBudget
  BY <1>1, SkipBooked
<1>2. CASE Solve \/ SolveRaises \/ RowRaises
  <2>1. loop = "run" /\ ~OutOfBudget /\ config' = config
    BY <1>2 DEF Solve, SolveRaises, RowRaises
  <2>2. spent' \in Nat /\ worked' \in Nat
    <3>1. CASE TimedStep
      <4>1. PICK elapsed \in Elapsed :
              /\ worked' = worked + elapsed
              /\ \/ spent' = Charged(spent, elapsed)
                 \/ ~config.emit /\ spent' = Charged(Charged(spent, elapsed), elapsed)
        BY <3>1 DEF TimedStep
      <4>2. elapsed \in Nat
        BY RunAssumption DEF Elapsed
      <4> QED
        BY <4>1, <4>2 DEF Charged, BooksInv, RunTypeOK
    <3>2. CASE UNCHANGED <<config, spent, worked>>
      BY <3>2 DEF BooksInv, RunTypeOK
    <3> QED
      BY <3>1, <3>2, StepsTimed
  <2>3. Served \/ Replaced \/ Missed
    BY <1>2, <2>1, SolveBooked, ExceptionBooked DEF SolveRaises, RowRaises
  <2> QED
    BY <2>1, <2>2, <2>3 DEF BookStep
<1> QED
  BY <1>1, <1>2 DEF RunNext

-----------------------------------------------------------------------------
\* The rows and run records after a row is written.
LEMMA RowsGrow ==
  ASSUME BooksInv, NEW f \in BOOLEAN,
         rows' = Append(rows, [id |-> next, fallback |-> f]),
         \E s \in Statuses : Noted(s),
         next <= NumRecords
  PROVE  /\ rows' \in Seq([id : 1..NumRecords, fallback : BOOLEAN])
         /\ runs' \in Seq([id : 1..NumRecords, status : Statuses])
         /\ InOrder(rows)' /\ Ids(rows)' = Ids(rows) \cup {next}
<1>1. next \in 1..NumRecords
  BY RunAssumption DEF BooksInv, RunTypeOK
<1>2. rows' \in Seq([id : 1..NumRecords, fallback : BOOLEAN])
  BY <1>1 DEF BooksInv, RunTypeOK
<1>3. runs' \in Seq([id : 1..NumRecords, status : Statuses])
  BY <1>1 DEF BooksInv, RunTypeOK, Noted
<1>4. rows \in Seq([id : 1..NumRecords, fallback : BOOLEAN])
  BY DEF BooksInv, RunTypeOK
<1>5. InOrder(Append(rows, [id |-> next, fallback |-> f])) /\
      Ids(Append(rows, [id |-> next, fallback |-> f])) = Ids(rows) \cup {next}
  BY <1>4, AppendInOrder DEF BooksInv, NotAhead, AccountedOnce
<1> QED
  BY <1>2, <1>3, <1>5

\* The failures after one is noted.
LEMMA FailuresGrow ==
  ASSUME BooksInv, NEW code \in FailureCodes, Listed(code), loop = "run"
  PROVE  /\ failures' \in Seq([id : 1..NumRecords, code : FailureCodes])
         /\ InOrder(failures)' /\ Ids(failures)' = Ids(failures) \cup {next}
<1>1. next \in 1..NumRecords
  BY RunAssumption DEF BooksInv, RunTypeOK, NotAhead
<1>2. failures \in Seq([id : 1..NumRecords, code : FailureCodes])
  BY DEF BooksInv, RunTypeOK
<1>3. InOrder(Append(failures, [id |-> next, code |-> code])) /\
      Ids(Append(failures, [id |-> next, code |-> code])) = Ids(failures) \cup {next}
  BY <1>2, AppendInOrder DEF BooksInv, NotAhead, AccountedOnce
<1> QED
  BY <1>1, <1>2, <1>3 DEF Listed

\* Inside the loop nothing has been noted for the record at hand.
LEMMA IdsBehind ==
  ASSUME RunTypeOK, NotAhead, loop = "run"
  PROVE  \A x \in Ids(rows) \cup Ids(failures) : x \in Int /\ x < next
<1>1. ASSUME NEW k \in DOMAIN rows PROVE rows[k].id \in Int
  <2>1. rows[k] \in [id : 1..NumRecords, fallback : BOOLEAN]
    BY <1>1, ListElement DEF RunTypeOK
  <2> QED
    BY <2>1
<1>2. ASSUME NEW k \in DOMAIN failures PROVE failures[k].id \in Int
  <2>1. failures[k] \in [id : 1..NumRecords, code : FailureCodes]
    BY <1>2, ListElement DEF RunTypeOK
  <2> QED
    BY <2>1
<1> QED
  BY <1>1, <1>2 DEF NotAhead, Ids

\* A step that writes a row: it is for the record at hand and gets a run record,
\* and a failure exactly if it is a fallback.
RowStep(f) ==
  /\ rows' = Append(rows, [id |-> next, fallback |-> f])
  /\ \E s \in Statuses : Noted(s)
  /\ IF f THEN \E code \in FailureCodes : Listed(code) ELSE UNCHANGED failures
  /\ Goes

\* Writing a row keeps the books.
LEMMA RowStepKeepsBooks ==
  ASSUME BooksInv, BookStep, NEW f \in BOOLEAN, RowStep(f),
         f => config.emit
  PROVE  BooksInv'
<1>1. next \in 1..NumRecords /\ next <= NumRecords /\ loop = "run" /\ next' = next + 1
  BY RunAssumption DEF BooksInv, RunTypeOK, NotAhead, BookStep, RowStep, Goes
<1>2. PICK s \in Statuses : Noted(s)
  BY DEF RowStep
<1>3. /\ rows' \in Seq([id : 1..NumRecords, fallback : BOOLEAN])
      /\ runs' \in Seq([id : 1..NumRecords, status : Statuses])
      /\ InOrder(rows)' /\ Ids(rows)' = Ids(rows) \cup {next}
  BY <1>1, <1>2, RowsGrow DEF RowStep
<1>4. /\ failures' \in Seq([id : 1..NumRecords, code : FailureCodes])
      /\ InOrder(failures)'
      /\ Ids(failures)' = IF f THEN Ids(failures) \cup {next} ELSE Ids(failures)
  <2>1. CASE f
    BY <1>1, <2>1, FailuresGrow DEF RowStep
  <2>2. CASE ~f
    BY <2>2 DEF RowStep, BooksInv, RunTypeOK, AccountedOnce, Ids, InOrder
  <2> QED
    BY <2>1, <2>2
<1>5. \A x \in Ids(rows) \cup Ids(failures) : x \in Int /\ x < next
  BY <1>1, IdsBehind DEF BooksInv
<1>6. RunTypeOK'
  BY <1>1, <1>3, <1>4, RunAssumption DEF BooksInv, RunTypeOK, BookStep, RowStep, Goes
<1>7. NotAhead'
  <2>1. /\ \A k \in DOMAIN rows' : rows'[k].id \in Ids(rows)'
        /\ \A k \in DOMAIN failures' : failures'[k].id \in Ids(failures)'
    BY DEF Ids
  <2>2. \A x \in Ids(rows)' \cup Ids(failures)' : x < next' /\ x <= next'
    BY <1>1, <1>3, <1>4, <1>5
  <2>3. loop' = "run" => next' <= NumRecords
    BY <1>1, RunAssumption DEF RowStep, Goes
  <2> QED
    BY <2>1, <2>2, <2>3 DEF NotAhead
<1>8. SkippedForTime'
  <2>1. CASE OutOfBudget
    BY <2>1 DEF BookStep, OutOfBudget, SkippedForTime
  <2>2. CASE ~OutOfBudget
    BY <1>2, <2>2, AppendedElements DEF BooksInv, RunTypeOK, SkippedForTime, Noted, Status
  <2> QED
    BY <2>1, <2>2
<1>9. AccountedOnce'
  <2>1. 1..(next' - 1) = 1..(next - 1) \cup {next}
    BY <1>1
  <2>2. next \notin Ids(rows) \cup Ids(failures)
    BY <1>1, <1>5
  <2> QED
    BY <1>3, <1>4, <2>1, <2>2 DEF BooksInv, AccountedOnce, BookStep
<1>10. RowsMatchRuns'
  <2> DEFINE n == Len(rows) + 1
  <2>1. Len(runs) = Len(rows)
    BY DEF BooksInv, RowsMatchRuns
  <2>2. /\ DOMAIN rows' = DOMAIN rows \cup {n}
        /\ \A k \in DOMAIN rows : rows'[k] = rows[k] /\ k < n
        /\ rows'[n] = [id |-> next, fallback |-> f]
        /\ DOMAIN rows \subseteq Nat /\ n \in Nat
    BY AppendedElements DEF RowStep, BooksInv, RunTypeOK
  <2>3. /\ DOMAIN runs' = DOMAIN runs \cup {n}
        /\ \A k \in DOMAIN runs : runs'[k] = runs[k] /\ k < n
        /\ runs'[n] = [id |-> next, status |-> s]
    BY <1>2, <2>1, AppendedElements DEF Noted, BooksInv, RunTypeOK
  <2>4. DOMAIN runs = DOMAIN rows
    BY <2>1 DEF BooksInv, RunTypeOK
  <2>5. Len(rows') = Len(runs')
    BY <1>2, <2>1 DEF RowStep, Noted, BooksInv, RunTypeOK
  <2> HIDE DEF n
  <2>6. ASSUME NEW k \in DOMAIN rows
        PROVE  /\ rows'[k].id = runs'[k].id
               /\ rows'[k].fallback <=> rows'[k].id \in Ids(failures)'
    <3>1. rows[k].id \in Ids(rows)
      BY DEF Ids
    <3>2. rows[k].id # next
      BY <1>1, <1>5, <3>1
    <3>3. rows[k].id = runs[k].id /\ (rows[k].fallback <=> rows[k].id \in Ids(failures))
      BY DEF BooksInv, RowsMatchRuns
    <3>4. rows'[k] = rows[k] /\ runs'[k] = runs[k]
      BY <2>2, <2>3, <2>4
    <3> QED
      BY <1>4, <3>2, <3>3, <3>4
  <2>7. rows'[n].id = runs'[n].id /\ (rows'[n].fallback <=> rows'[n].id \in Ids(failures)')
    BY <1>1, <1>4, <1>5, <2>2, <2>3
  <2>8. ASSUME NEW k \in DOMAIN runs', runs'[k].status = BudgetStatus,
               NEW j \in DOMAIN runs', j > k
        PROVE  runs'[j].status = BudgetStatus
    <3>1. k \in DOMAIN runs /\ runs[k].status = BudgetStatus
      BY <2>2, <2>3, <2>4, <2>8
    <3>2. CASE j \in DOMAIN runs
      BY <2>3, <2>4, <2>8, <3>1, <3>2 DEF BooksInv, RowsMatchRuns, BudgetStatus
    <3>3. CASE j = n
      BY <1>2, <2>3, <3>1, <3>3 DEF Noted, Status, BooksInv, SkippedForTime
    <3> QED
      BY <2>3, <3>2, <3>3
  <2> QED
    BY <2>2, <2>3, <2>4, <2>5, <2>6, <2>7, <2>8 DEF RowsMatchRuns, BudgetStatus
<1> QED
  BY <1>6, <1>7, <1>8, <1>9, <1>10 DEF BooksInv

\* A failure without a row keeps the books.
LEMMA MissedKeepsBooks ==
  ASSUME BooksInv, BookStep, Missed
  PROVE  BooksInv'
<1>1. next \in 1..NumRecords /\ next <= NumRecords /\ loop = "run" /\ next' \in {next, next + 1}
  BY RunAssumption DEF BooksInv, RunTypeOK, NotAhead, BookStep, Missed, Goes
<1>2. /\ failures' \in Seq([id : 1..NumRecords, code : FailureCodes])
      /\ InOrder(failures)' /\ Ids(failures)' = Ids(failures) \cup {next}
  BY <1>1, FailuresGrow DEF Missed
<1>3. Ids(rows)' = Ids(rows) /\ (InOrder(rows)' <=> InOrder(rows))
  BY DEF Missed, Ids, InOrder
<1>4. \A x \in Ids(rows) \cup Ids(failures) : x \in Int /\ x < next
  BY <1>1, IdsBehind DEF BooksInv
<1>5. RunTypeOK'
  BY <1>1, <1>2, RunAssumption DEF BooksInv, RunTypeOK, BookStep, Missed, Goes
<1>6. NotAhead'
  <2>1. /\ \A k \in DOMAIN rows' : rows'[k].id \in Ids(rows)'
        /\ \A k \in DOMAIN failures' : failures'[k].id \in Ids(failures)'
    BY DEF Ids
  <2>2. (\A x \in Ids(rows)' : x < next') /\ (\A x \in Ids(failures)' : x <= next')
    BY <1>1, <1>2, <1>3, <1>4
  <2>3. loop' = "run" => next' = next + 1 /\ next' <= NumRecords
    BY <1>1, RunAssumption DEF Missed, Goes
  <2>4. loop' = "run" => \A x \in Ids(failures)' : x < next'
    BY <1>1, <1>2, <1>4, <2>3
  <2> QED
    BY <2>1, <2>2, <2>3, <2>4 DEF NotAhead
<1>7. SkippedForTime'
  BY DEF BooksInv, SkippedForTime, BookStep, Missed, OutOfBudget
<1>8. AccountedOnce'
  <2>1. 1..(next' - 1) \subseteq 1..(next - 1) \cup {next}
    <3>1. next \in Int
      BY <1>1
    <3>2. CASE next' = next
      BY <3>1, <3>2
    <3>3. CASE next' = next + 1
      BY <3>1, <3>3
    <3> QED
      BY <1>1, <3>2, <3>3
  <2>2. next \notin Ids(rows)
    BY <1>1, <1>4
  <2> QED
    BY <1>2, <1>3, <2>1, <2>2 DEF BooksInv, AccountedOnce, BookStep, Missed
<1>9. RowsMatchRuns'
  <2>1. rows' = rows /\ runs' = runs
    BY DEF Missed
  <2>2. \A k \in DOMAIN rows : rows[k].id # next
    BY <1>1, <1>4 DEF Ids
  <2> QED
    BY <1>2, <2>1, <2>2 DEF BooksInv, RowsMatchRuns
<1> QED
  BY <1>5, <1>6, <1>7, <1>8, <1>9 DEF BooksInv

\* The books are in order when they are empty.
LEMMA InitBooks == RunInit => BooksInv
<1> SUFFICES ASSUME RunInit PROVE BooksInv
  OBVIOUS
<1>1. Ids(rows) = {} /\ Ids(failures) = {} /\ 1..(next - 1) = {}
  BY DEF RunInit, Ids
<1>2. RunTypeOK
  BY RunAssumption DEF RunInit, RunTypeOK
<1>3. NotAhead
  BY RunAssumption DEF RunInit, NotAhead
<1>4. SkippedForTime
  BY DEF RunInit, SkippedForTime
<1>5. AccountedOnce
  BY <1>1 DEF RunInit, AccountedOnce, InOrder
<1>6. RowsMatchRuns
  BY DEF RunInit, RowsMatchRuns
<1> QED
  BY <1>2, <1>3, <1>4, <1>5, <1>6 DEF BooksInv

\* Every step keeps the books in order.
LEMMA NextBooks == BooksInv /\ [RunNext]_runVars => BooksInv'
<1> SUFFICES ASSUME BooksInv, [RunNext]_runVars PROVE BooksInv'
  OBVIOUS
<1>1. CASE RunNext
  <2>1. BookStep
    BY <1>1, NextBooked
  <2>2. CASE Served
    BY <2>1, <2>2, RowStepKeepsBooks DEF Served, RowStep
  <2>3. CASE Replaced
    BY <2>1, <2>3, RowStepKeepsBooks DEF Replaced, RowStep
  <2>4. CASE Missed
    BY <2>1, <2>4, MissedKeepsBooks
  <2> QED
    BY <2>1, <2>2, <2>3, <2>4 DEF BookStep
<1>2. CASE UNCHANGED runVars
  <2>1. RunTypeOK' /\ NotAhead'
    BY <1>2 DEF runVars, lists, BooksInv, RunTypeOK, NotAhead
  <2>2. SkippedForTime'
    BY <1>2 DEF runVars, lists, BooksInv, SkippedForTime, OutOfBudget
  <2>3. /\ Ids(rows)' = Ids(rows) /\ Ids(failures)' = Ids(failures)
        /\ InOrder(rows)' = InOrder(rows) /\ InOrder(failures)' = InOrder(failures)
    BY <1>2 DEF runVars, lists, InOrder, Ids
  <2>4. AccountedOnce'
    BY <1>2, <2>3 DEF runVars, BooksInv, AccountedOnce
  <2>5. RowsMatchRuns'
    BY <1>2, <2>3 DEF runVars, lists, BooksInv, RowsMatchRuns
  <2> QED
    BY <2>1, <2>2, <2>4, <2>5 DEF BooksInv
<1> QED
  BY <1>1, <1>2

\* The books are in order throughout a run.
THEOREM SpecBooks == RunSpec => []BooksInv
  BY InitBooks, NextBooks, PTL DEF RunSpec

\* Rows, run records and failures are lists of what they should be.
THEOREM SpecRunTypeOK == RunSpec => []RunTypeOK
<1>1. BooksInv => RunTypeOK
  BY DEF BooksInv
<1> QED
  BY <1>1, SpecBooks, PTL

\* However solves fail and wherever time runs out, run_records gives no record two
\* rows and leaves no record it is done with without a row or a failure.
THEOREM SpecAccountedOnce == RunSpec => []AccountedOnce
<1>1. BooksInv => AccountedOnce
  BY DEF BooksInv
<1> QED
  BY <1>1, SpecBooks, PTL

\* The rows and the run records of run_records tell the same story.
THEOREM SpecRowsMatchRuns == RunSpec => []RowsMatchRuns
<1>1. BooksInv => RowsMatchRuns
  BY DEF BooksInv
<1> QED
  BY <1>1, SpecBooks, PTL

-----------------------------------------------------------------------------
\* The loop of a run that is to continue over failures ends past the last record.
LEMMA AdvanceToEnd ==
  ASSUME RunTypeOK, loop = "run", Advance(FALSE)
  PROVE  loop' # "raised" /\ (loop' = "returned" => next' = NumRecords + 1)
  BY DEF RunTypeOK, Advance

\* No step leaves a record out or breaks off when the run is to continue.
LEMMA NextLeavesNoneOut ==
  ASSUME RunTypeOK, NoneLeftOut, [RunNext]_runVars
  PROVE  NoneLeftOut'
<1> SUFFICES ASSUME config'.continue
             PROVE  loop' # "raised" /\ (loop' = "returned" => next' = NumRecords + 1)
  BY DEF NoneLeftOut
<1>1. config' = config
  BY DEF RunNext, SkipForBudget, Solve, SolveRaises, RowRaises, runVars
<1>2. config.continue
  BY <1>1
<1>3. (~config.continue) = FALSE
  BY <1>2
<1>4. CASE RunNext
  <2>1. loop = "run" /\ Advance(FALSE)
    BY <1>2, <1>3, <1>4
       DEF RunNext, SkipForBudget, Solve, SolveRaises, RowRaises, HandleException
  <2> QED
    BY <2>1, AdvanceToEnd
<1>5. CASE UNCHANGED runVars
  BY <1>2, <1>5 DEF runVars, NoneLeftOut
<1> QED
  BY <1>4, <1>5

\* The three lists of a run agree on every record, whatever failed.
THEOREM SpecBooksAgree == RunSpec => []BooksAgree
  BY SpecAccountedOnce, SpecRowsMatchRuns, PTL DEF BooksAgree

\* With continue_on_problem_failure run_records gets to the last record, whatever
\* fails, with or without time left.
THEOREM SpecNoneLeftOut == RunSpec => []NoneLeftOut
<1>1. RunInit => NoneLeftOut
  BY DEF RunInit, NoneLeftOut
<1>2. RunTypeOK /\ NoneLeftOut /\ [RunNext]_runVars => NoneLeftOut'
  BY NextLeavesNoneOut
<1> QED
  BY <1>1, <1>2, SpecRunTypeOK, PTL DEF RunSpec
=============================================================================
