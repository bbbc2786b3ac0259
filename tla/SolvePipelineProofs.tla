------------------------ MODULE SolvePipelineProofs ------------------------
(***************************************************************************)
(* What a solve hands over, under every configuration and however its      *)
(* stages end.                                                             *)
(***************************************************************************)
EXTENDS SolvePipeline, TLAPS

StageRecords == [stage : Stages, ok : BOOLEAN]
Flags == searched \in BOOLEAN /\ row \in BOOLEAN /\ failure \in BOOLEAN
Names ==
  /\ path \in Paths /\ budget \in {"none", "initial", "adapted"}
  /\ selection \in {"none", "attempts", "branches"}
  /\ pc \in Stages \cup {"path", "attempts", "adapt", "returned"}

\* The shapes of SolveContract, in the variables of the pipeline.
Shape ==
  \/ status = "success" /\ selection # "none" /\ failure = FALSE
  \/ status \in Contract!FormatFailures /\ selection # "none" /\ row = FALSE /\ failure = TRUE
  \/ status \in Contract!EarlyFailures /\ selection = "none" /\ row = FALSE /\ failure = TRUE

\* Where the solve is, and what it has found by then.
Progress ==
  /\ pc # "returned" => row = FALSE /\ failure = FALSE /\ status = "open"
  /\ pc \notin {"submission", "returned"} => selection = "none"
  /\ pc = "submission" => selection # "none"
  /\ pc = "attempts" => path = "minimal"
  /\ pc \in {"adapt", "aggregation"} => searched = TRUE
  /\ pc \in {"parse", "route", "budget", "path", "attempts"} => searched = FALSE
  /\ pc = "returned" => Shape

IInv ==
  /\ config \in Configs /\ Flags /\ Names /\ records \in Seq(StageRecords)
  /\ NeverSearchesMinimal /\ AnswerOfThePath /\ Progress

-----------------------------------------------------------------------------
\* The inductive invariant is typed.
LEMMA IInvTyped == IInv => TypeOK
  BY DEF IInv, Flags, Names, StageRecords, TypeOK

\* Recording a stage.
LEMMA RecordedTyped ==
  ASSUME records \in Seq(StageRecords), NEW stage \in Stages, NEW ok \in BOOLEAN
  PROVE  Recorded(stage, ok) \in Seq(StageRecords)
  BY DEF Recorded, StageRecords

\* A solve starts with nothing in hand.
LEMMA InitIInv == Init => IInv
<1> SUFFICES ASSUME Init PROVE IInv
  OBVIOUS
<1>1. config \in Configs /\ Flags
  BY DEF Init, Flags
<1>5. records \in Seq(StageRecords)
  BY DEF Init
<1>2. Names
  BY DEF Init, Names, Paths, Stages
<1>3. NeverSearchesMinimal /\ AnswerOfThePath
  BY DEF Init, NeverSearchesMinimal, AnswerOfThePath
<1>4. Progress
  BY DEF Init, Progress
<1> QED
  BY <1>1, <1>2, <1>3, <1>4, <1>5 DEF IInv

\* The step keeps the invariant.
LEMMA ParseKeeps == IInv /\ Parse => IInv'
<1> SUFFICES ASSUME IInv, Parse PROVE IInv'
  OBVIOUS
<1>1. config' \in Configs /\ Flags'
  BY DEF Parse, IInv, Progress, Continue, ReturnFailure, ReturnResult, result, Flags
<1>2. Names'
  BY DEF Parse, IInv, Progress, Continue, ReturnFailure, ReturnResult, result, Names, Paths, Stages
<1>3. records' \in Seq(StageRecords)
  BY RecordedTyped DEF Parse, IInv, Progress, Continue, ReturnFailure, ReturnResult, result, Stages
<1>4. NeverSearchesMinimal' /\ AnswerOfThePath'
  BY DEF Parse, IInv, Progress, Continue, ReturnFailure, ReturnResult, result, NeverSearchesMinimal, AnswerOfThePath
<1>5. Progress'
  BY DEF Parse, IInv, Progress, Continue, ReturnFailure, ReturnResult, result, Shape, Contract!EarlyFailures, Contract!FormatFailures
<1> QED
  BY <1>1, <1>2, <1>3, <1>4, <1>5 DEF IInv

\* The step keeps the invariant.
LEMMA RouteKeeps == IInv /\ Route => IInv'
<1> SUFFICES ASSUME IInv, Route PROVE IInv'
  OBVIOUS
<1>1. config' \in Configs /\ Flags'
  BY DEF Route, IInv, Progress, Continue, ReturnFailure, ReturnResult, result, Flags
<1>2. Names'
  BY DEF Route, IInv, Progress, Continue, ReturnFailure, ReturnResult, result, Names, Paths, Stages
<1>3. records' \in Seq(StageRecords)
  BY RecordedTyped DEF Route, IInv, Progress, Continue, ReturnFailure, ReturnResult, result, Stages
<1>4. NeverSearchesMinimal' /\ AnswerOfThePath'
  BY DEF Route, IInv, Progress, Continue, ReturnFailure, ReturnResult, result, NeverSearchesMinimal, AnswerOfThePath
<1>5. Progress'
  BY DEF Route, IInv, Progress, Continue, ReturnFailure, ReturnResult, result, Shape, Contract!EarlyFailures, Contract!FormatFailures
<1> QED
  BY <1>1, <1>2, <1>3, <1>4, <1>5 DEF IInv

\* The step keeps the invariant.
LEMMA AcquireBudgetKeeps == IInv /\ AcquireBudget => IInv'
<1> SUFFICES ASSUME IInv, AcquireBudget PROVE IInv'
  OBVIOUS
<1>1. config' \in Configs /\ Flags'
  BY DEF AcquireBudget, IInv, Progress, Continue, ReturnFailure, ReturnResult, result, Flags
<1>2. Names'
  BY DEF AcquireBudget, IInv, Progress, Continue, ReturnFailure, ReturnResult, result, Names, Paths, Stages
<1>3. records' \in Seq(StageRecords)
  BY RecordedTyped DEF AcquireBudget, IInv, Progress, Continue, ReturnFailure, ReturnResult, result, Stages
<1>4. NeverSearchesMinimal' /\ AnswerOfThePath'
  BY DEF AcquireBudget, IInv, Progress, Continue, ReturnFailure, ReturnResult, result, NeverSearchesMinimal, AnswerOfThePath
<1>5. Progress'
  BY DEF AcquireBudget, IInv, Progress, Continue, ReturnFailure, ReturnResult, result, Shape, Contract!EarlyFailures, Contract!FormatFailures
<1> QED
  BY <1>1, <1>2, <1>3, <1>4, <1>5 DEF IInv

\* The step keeps the invariant.
LEMMA SelectRuntimePathKeeps == IInv /\ SelectRuntimePath => IInv'
<1> SUFFICES ASSUME IInv, SelectRuntimePath PROVE IInv'
  OBVIOUS
<1>1. config' \in Configs /\ Flags'
  BY DEF SelectRuntimePath, IInv, Progress, Continue, ReturnFailure, ReturnResult, result, Flags
<1>2. Names'
  BY DEF SelectRuntimePath, IInv, Progress, Continue, ReturnFailure, ReturnResult, result, Names, Paths, Stages
<1>3. records' \in Seq(StageRecords)
  BY RecordedTyped DEF SelectRuntimePath, IInv, Progress, Continue, ReturnFailure, ReturnResult, result, Stages
<1>4. NeverSearchesMinimal' /\ AnswerOfThePath'
  BY DEF SelectRuntimePath, IInv, Progress, Continue, ReturnFailure, ReturnResult, result, NeverSearchesMinimal, AnswerOfThePath
<1>5. Progress'
  BY DEF SelectRuntimePath, IInv, Progress, Continue, ReturnFailure, ReturnResult, result, Shape, Contract!EarlyFailures, Contract!FormatFailures
<1> QED
  BY <1>1, <1>2, <1>3, <1>4, <1>5 DEF IInv

\* The step keeps the invariant.
LEMMA MinimalAttemptsKeeps == IInv /\ MinimalAttempts => IInv'
<1> SUFFICES ASSUME IInv, MinimalAttempts PROVE IInv'
  OBVIOUS
<1>1. config' \in Configs /\ Flags'
  BY DEF MinimalAttempts, IInv, Progress, Continue, ReturnFailure, ReturnResult, result, Escalations, AttemptsDone, AttemptRecords, Flags
<1>2. Names'
  BY DEF MinimalAttempts, IInv, Progress, Continue, ReturnFailure, ReturnResult, result, Escalations, AttemptsDone, AttemptRecords, Names, Paths, Stages
<1>3. records' \in Seq(StageRecords)
  <2>1. \A l \in Seq(StageRecords) : records \o l \in Seq(StageRecords)
    BY DEF IInv
  <2>2. \A stage \in Stages, ok \in BOOLEAN : [stage |-> stage, ok |-> ok] \in StageRecords
    BY DEF StageRecords
  <2>3. "branch_controller" \in Stages /\ "aggregation" \in Stages
    BY DEF Stages
  <2>4. \A escalate \in BOOLEAN : AttemptsDone(escalate) => records' \in Seq(StageRecords)
    <3> DEFINE b == [stage |-> "branch_controller", ok |-> TRUE]
               c == [stage |-> "aggregation", ok |-> TRUE]
    <3>1. b \in StageRecords /\ c \in StageRecords
      BY <2>2, <2>3
    <3>2. <<b, c>> \in Seq(StageRecords)
      <4> HIDE DEF b, c
      <4> QED
        BY <3>1
    <3>3. AttemptRecords \in Seq(StageRecords)
      BY <3>2 DEF AttemptRecords
    <3>4. Append(AttemptRecords, b) \in Seq(StageRecords)
      BY <3>1, <3>3
    <3> QED
      BY <2>1, <3>3, <3>4 DEF AttemptsDone
  <2>5. Recorded("branch_controller", FALSE) \in Seq(StageRecords)
    BY <2>3, RecordedTyped DEF IInv
  <2> QED
    BY <2>4, <2>5 DEF MinimalAttempts, Escalations
<1>4. NeverSearchesMinimal' /\ AnswerOfThePath'
  BY DEF MinimalAttempts, IInv, Progress, Continue, ReturnFailure, ReturnResult, result, Escalations, AttemptsDone, AttemptRecords, NeverSearchesMinimal, AnswerOfThePath
<1>5. Progress'
  BY DEF MinimalAttempts, IInv, Progress, Continue, ReturnFailure, ReturnResult, result, Escalations, AttemptsDone, AttemptRecords, Shape, Contract!EarlyFailures, Contract!FormatFailures
<1> QED
  BY <1>1, <1>2, <1>3, <1>4, <1>5 DEF IInv

\* The step keeps the invariant.
LEMMA StateInitKeeps == IInv /\ StateInit => IInv'
<1> SUFFICES ASSUME IInv, StateInit PROVE IInv'
  OBVIOUS
<1>1. config' \in Configs /\ Flags'
  BY DEF StateInit, IInv, Progress, Continue, ReturnFailure, ReturnResult, result, Flags
<1>2. Names'
  BY DEF StateInit, IInv, Progress, Continue, ReturnFailure, ReturnResult, result, Names, Paths, Stages
<1>3. records' \in Seq(StageRecords)
  BY RecordedTyped DEF StateInit, IInv, Progress, Continue, ReturnFailure, ReturnResult, result, Stages
<1>4. NeverSearchesMinimal' /\ AnswerOfThePath'
  BY DEF StateInit, IInv, Progress, Continue, ReturnFailure, ReturnResult, result, NeverSearchesMinimal, AnswerOfThePath
<1>5. Progress'
  BY DEF StateInit, IInv, Progress, Continue, ReturnFailure, ReturnResult, result, Shape, Contract!EarlyFailures, Contract!FormatFailures
<1> QED
  BY <1>1, <1>2, <1>3, <1>4, <1>5 DEF IInv

\* The step keeps the invariant.
LEMMA RetrieveKeeps == IInv /\ Retrieve => IInv'
<1> SUFFICES ASSUME IInv, Retrieve PROVE IInv'
  OBVIOUS
<1>1. config' \in Configs /\ Flags'
  BY DEF Retrieve, IInv, Progress, Continue, ReturnFailure, ReturnResult, result, Flags
<1>2. Names'
  BY DEF Retrieve, IInv, Progress, Continue, ReturnFailure, ReturnResult, result, Names, Paths, Stages
<1>3. records' \in Seq(StageRecords)
  BY RecordedTyped DEF Retrieve, IInv, Progress, Continue, ReturnFailure, ReturnResult, result, Stages
<1>4. NeverSearchesMinimal' /\ AnswerOfThePath'
  BY DEF Retrieve, IInv, Progress, Continue, ReturnFailure, ReturnResult, result, NeverSearchesMinimal, AnswerOfThePath
<1>5. Progress'
  BY DEF Retrieve, IInv, Progress, Continue, ReturnFailure, ReturnResult, result, Shape, Contract!EarlyFailures, Contract!FormatFailures
<1> QED
  BY <1>1, <1>2, <1>3, <1>4, <1>5 DEF IInv

\* The step keeps the invariant.
LEMMA SearchKeeps == IInv /\ Search => IInv'
<1> SUFFICES ASSUME IInv, Search PROVE IInv'
  OBVIOUS
<1>1. config' \in Configs /\ Flags'
  BY DEF Search, IInv, Progress, Continue, ReturnFailure, ReturnResult, result, Flags
<1>2. Names'
  BY DEF Search, IInv, Progress, Continue, ReturnFailure, ReturnResult, result, Names, Paths, Stages
<1>3. records' \in Seq(StageRecords)
  BY RecordedTyped DEF Search, IInv, Progress, Continue, ReturnFailure, ReturnResult, result, Stages
<1>4. NeverSearchesMinimal' /\ AnswerOfThePath'
  BY DEF Search, IInv, Progress, Continue, ReturnFailure, ReturnResult, result, NeverSearchesMinimal, AnswerOfThePath
<1>5. Progress'
  BY DEF Search, IInv, Progress, Continue, ReturnFailure, ReturnResult, result, Shape, Contract!EarlyFailures, Contract!FormatFailures
<1> QED
  BY <1>1, <1>2, <1>3, <1>4, <1>5 DEF IInv

\* The step keeps the invariant.
LEMMA AdaptBudgetKeeps == IInv /\ AdaptBudget => IInv'
<1> SUFFICES ASSUME IInv, AdaptBudget PROVE IInv'
  OBVIOUS
<1>1. config' \in Configs /\ Flags'
  BY DEF AdaptBudget, IInv, Progress, Continue, ReturnFailure, ReturnResult, result, Flags
<1>2. Names'
  BY DEF AdaptBudget, IInv, Progress, Continue, ReturnFailure, ReturnResult, result, Names, Paths, Stages
<1>3. records' \in Seq(StageRecords)
  BY RecordedTyped DEF AdaptBudget, IInv, Progress, Continue, ReturnFailure, ReturnResult, result, Stages
<1>4. NeverSearchesMinimal' /\ AnswerOfThePath'
  BY DEF AdaptBudget, IInv, Progress, Continue, ReturnFailure, ReturnResult, result, NeverSearchesMinimal, AnswerOfThePath
<1>5. Progress'
  BY DEF AdaptBudget, IInv, Progress, Continue, ReturnFailure, ReturnResult, result, Shape, Contract!EarlyFailures, Contract!FormatFailures
<1> QED
  BY <1>1, <1>2, <1>3, <1>4, <1>5 DEF IInv

\* The step keeps the invariant.
LEMMA AggregateKeeps == IInv /\ Aggregate => IInv'
<1> SUFFICES ASSUME IInv, Aggregate PROVE IInv'
  OBVIOUS
<1>1. config' \in Configs /\ Flags'
  BY DEF Aggregate, IInv, Progress, Continue, ReturnFailure, ReturnResult, result, Flags
<1>2. Names'
  BY DEF Aggregate, IInv, Progress, Continue, ReturnFailure, ReturnResult, result, Names, Paths, Stages
<1>3. records' \in Seq(StageRecords)
  BY RecordedTyped DEF Aggregate, IInv, Progress, Continue, ReturnFailure, ReturnResult, result, Stages
<1>4. NeverSearchesMinimal' /\ AnswerOfThePath'
  BY DEF Aggregate, IInv, Progress, Continue, ReturnFailure, ReturnResult, result, NeverSearchesMinimal, AnswerOfThePath
<1>5. Progress'
  BY DEF Aggregate, IInv, Progress, Continue, ReturnFailure, ReturnResult, result, Shape, Contract!EarlyFailures, Contract!FormatFailures
<1> QED
  BY <1>1, <1>2, <1>3, <1>4, <1>5 DEF IInv

\* The step keeps the invariant.
LEMMA SubmitKeeps == IInv /\ Submit => IInv'
<1> SUFFICES ASSUME IInv, Submit PROVE IInv'
  OBVIOUS
<1>1. config' \in Configs /\ Flags'
  BY DEF Submit, IInv, Progress, Continue, ReturnFailure, ReturnResult, result, Flags
<1>2. Names'
  BY DEF Submit, IInv, Progress, Continue, ReturnFailure, ReturnResult, result, Names, Paths, Stages
<1>3. records' \in Seq(StageRecords)
  BY RecordedTyped DEF Submit, IInv, Progress, Continue, ReturnFailure, ReturnResult, result, Stages
<1>4. NeverSearchesMinimal' /\ AnswerOfThePath'
  BY DEF Submit, IInv, Progress, Continue, ReturnFailure, ReturnResult, result, NeverSearchesMinimal, AnswerOfThePath
<1>5. Progress'
  BY DEF Submit, IInv, Progress, Continue, ReturnFailure, ReturnResult, result, Shape, Contract!EarlyFailures, Contract!FormatFailures
<1> QED
  BY <1>1, <1>2, <1>3, <1>4, <1>5 DEF IInv

-----------------------------------------------------------------------------
\* No step spoils the result.
LEMMA NextIInv == IInv /\ [Next]_vars => IInv'
<1> SUFFICES ASSUME IInv, [Next]_vars PROVE IInv'
  OBVIOUS
<1>1. CASE Next
  BY <1>1, ParseKeeps, RouteKeeps, AcquireBudgetKeeps, SelectRuntimePathKeeps,
     MinimalAttemptsKeeps, StateInitKeeps, RetrieveKeeps, SearchKeeps, AdaptBudgetKeeps,
     AggregateKeeps, SubmitKeeps DEF Next
<1>2. CASE UNCHANGED vars
  BY <1>2 DEF vars, result, IInv, Flags, Names, NeverSearchesMinimal, AnswerOfThePath, Progress,
              Shape
<1> QED
  BY <1>1, <1>2

\* The invariant holds throughout a solve.
THEOREM SpecIInv == Spec => []IInv
  BY InitIInv, NextIInv, PTL DEF Spec

\* The state of a solve is typed.
THEOREM SpecTypeOK == Spec => []TypeOK
  BY SpecIInv, IInvTyped, PTL

\* solve_problem never searches on the minimal path, under no configuration.
THEOREM SpecNeverSearchesMinimal == Spec => []NeverSearchesMinimal
<1>1. IInv => NeverSearchesMinimal
  BY DEF IInv
<1> QED
  BY <1>1, SpecIInv, PTL

\* The answer solve_problem hands over comes from the path it took.
THEOREM SpecAnswerOfThePath == Spec => []AnswerOfThePath
<1>1. IInv => AnswerOfThePath
  BY DEF IInv
<1> QED
  BY <1>1, SpecIInv, PTL

-----------------------------------------------------------------------------
\* The results returned so far, as the contract sees them.
Returned ==
  IF pc # "returned" THEN {}
  ELSE {[status |-> status, selection |-> selection # "none", row |-> row, failure |-> failure]}

\* What is returned has one of the shapes of the contract.
ReturnsAResult ==
  pc = "returned" =>
    [status |-> status, selection |-> selection # "none", row |-> row, failure |-> failure]
      \in Contract!Results

\* The invariant says so.
LEMMA IInvReturns == IInv => ReturnsAResult
<1> SUFFICES ASSUME IInv, pc = "returned"
             PROVE  [status |-> status, selection |-> selection # "none", row |-> row,
                     failure |-> failure] \in Contract!Results
  BY DEF ReturnsAResult
<1>1. Shape /\ row \in BOOLEAN
  BY DEF IInv, Progress, Flags
<1>2. CASE selection # "none"
  <2>1. (selection # "none") = TRUE
    BY <1>2
  <2> QED
    BY <1>1, <1>2, <2>1 DEF Shape, Contract!Results
<1>3. CASE selection = "none"
  <2>1. (selection # "none") = FALSE
    BY <1>3
  <2> QED
    BY <1>1, <1>3, <2>1 DEF Shape, Contract!Results
<1> QED
  BY <1>2, <1>3

\* A step returns one result or none, and nothing follows it.
LEMMA NextReturns ==
  ASSUME ReturnsAResult', [Next]_vars
  PROVE  Contract!Return \/ UNCHANGED Returned
<1>1. CASE Next
  <2>1. pc # "returned"
    BY <1>1 DEF Next, Parse, Route, AcquireBudget, SelectRuntimePath, MinimalAttempts, StateInit,
                Retrieve, Search, AdaptBudget, Aggregate, Submit
  <2>2. CASE pc' = "returned"
    <3>1. [status |-> status, selection |-> selection # "none", row |-> row,
           failure |-> failure]' \in Contract!Results
      BY <2>2 DEF ReturnsAResult
    <3> QED
      BY <2>1, <2>2, <3>1 DEF Contract!Return
  <2>3. CASE pc' # "returned"
    BY <2>1, <2>3 DEF Returned
  <2> QED
    BY <2>2, <2>3
<1>2. CASE UNCHANGED vars
  BY <1>2 DEF vars, result, Returned
<1> QED
  BY <1>1, <1>2

\* solve_problem returns at most one result, of a shape the kaggle runner is
\* prepared for: the safety part of ImplementsContract.
THEOREM SpecReturnsOnce == Spec => Contract!Init /\ [][Contract!Return]_Returned
<1>1. Init => Contract!Init
  BY DEF Init, Contract!Init
<1>2. ReturnsAResult' /\ [Next]_vars => [Contract!Return]_Returned
  BY NextReturns
<1> QED
  BY <1>1, <1>2, SpecIInv, IInvReturns, PTL DEF Spec
-----------------------------------------------------------------------------
\* A stage record that does not end a solve.
Excused(list, i, strict) ==
  \/ list[i].ok
  \/ list[i].stage = "budget" /\ (strict => \E j \in 1..i : list[j].stage = "retrieval")
  \/ list[i].stage = "retrieval" /\ ~strict
AllExcused(list, strict) == \A i \in DOMAIN list : Excused(list, i, strict)

\* The history of a solve: excused so far, with a retrieval before the budget is
\* adapted; in the end only the last stage may have failed.
History ==
  /\ pc # "returned" => AllExcused(records, config.strict)
  /\ pc \in {"branch_controller", "adapt"} => \E j \in DOMAIN records : records[j].stage = "retrieval"
  /\ FailuresEnd

HInv == IInv /\ History

\* The records after another one, and what it leaves as it was.
LEMMA AppendedRecords ==
  ASSUME NEW list \in Seq(StageRecords), NEW e
  PROVE  LET longer == Append(list, e)
         IN  /\ DOMAIN longer = DOMAIN list \cup {Len(list) + 1}
             /\ \A i \in DOMAIN list : /\ longer[i] = list[i] /\ i < Len(list) + 1
                                       /\ i \in Nat /\ 1..i \subseteq DOMAIN list
             /\ longer[Len(list) + 1] = e /\ Len(longer) = Len(list) + 1
             /\ Len(list) \in Nat /\ DOMAIN list = 1..Len(list)
  OBVIOUS

\* Another record keeps the earlier ones excused.
LEMMA AppendExcused ==
  ASSUME NEW list \in Seq(StageRecords), NEW e, NEW strict, AllExcused(list, strict)
  PROVE  /\ \A i \in DOMAIN list : Excused(Append(list, e), i, strict)
         /\ e.ok => AllExcused(Append(list, e), strict)
<1> DEFINE longer == Append(list, e)
<1>1. /\ DOMAIN longer = DOMAIN list \cup {Len(list) + 1}
      /\ \A i \in DOMAIN list : longer[i] = list[i] /\ 1..i \subseteq DOMAIN list
      /\ longer[Len(list) + 1] = e
  BY AppendedRecords
<1> HIDE DEF longer
<1>2. ASSUME NEW i \in DOMAIN list PROVE Excused(longer, i, strict)
  <2>1. Excused(list, i, strict)
    BY DEF AllExcused
  <2>2. \A j \in 1..i : longer[j] = list[j]
    BY <1>1
  <2> QED
    BY <1>1, <2>1, <2>2 DEF Excused
<1>3. ASSUME e.ok PROVE AllExcused(longer, strict)
  BY <1>1, <1>2, <1>3 DEF AllExcused, Excused
<1> QED
  BY <1>2, <1>3 DEF longer

\* A step that goes on.
LEMMA GoesOn ==
  ASSUME config' = config, pc' # "returned", AllExcused(records', config.strict),
         pc' \in {"branch_controller", "adapt"} =>
           \E j \in DOMAIN records' : records'[j].stage = "retrieval"
  PROVE  History'
<1>1. FailuresEnd'
  BY DEF AllExcused, Excused, FailuresEnd
<1> QED
  BY <1>1 DEF History

\* A step that returns, with the record it returns on.
LEMMA ReturnsOn ==
  ASSUME HInv, pc # "returned", config' = config, pc' = "returned",
         NEW e, records' = Append(records, e),
         IF status' = "success" THEN e.stage = "submission" /\ e.ok
         ELSE e.stage = Blamed(status') /\ ~e.ok
  PROVE  History'
<1> DEFINE n == Len(records) + 1
<1>1. records \in Seq(StageRecords) /\ AllExcused(records, config.strict)
  BY DEF HInv, IInv, History
<1>2. /\ DOMAIN records' = DOMAIN records \cup {n}
      /\ records'[n] = e /\ Len(records') = n
  BY <1>1, AppendedRecords
<1>3. \A i \in DOMAIN records : Excused(records', i, config.strict)
  BY <1>1, AppendExcused
<1>4. n \in Nat /\ DOMAIN records \subseteq Nat
  BY <1>1
<1> HIDE DEF n
<1>5. FailuresEnd'
  <2>1. ASSUME NEW i \in DOMAIN records', i < n PROVE Excused(records', i, config.strict)
    BY <1>2, <1>3, <1>4, <2>1
  <2> QED
    BY <1>2, <2>1 DEF FailuresEnd, Excused, Blamed
<1> QED
  BY <1>5 DEF History

\* A step that records a stage that worked and goes on.
LEMMA WorksOn ==
  ASSUME HInv, pc # "returned", config' = config, pc' # "returned",
         NEW e, e.ok, records' = Append(records, e),
         pc' = "branch_controller" => e.stage = "retrieval",
         pc' = "adapt" => pc = "branch_controller"
  PROVE  History'
<1>1. records \in Seq(StageRecords) /\ AllExcused(records, config.strict)
  BY DEF HInv, IInv, History
<1>2. /\ DOMAIN records' = DOMAIN records \cup {Len(records) + 1}
      /\ \A i \in DOMAIN records : records'[i] = records[i]
      /\ records'[Len(records) + 1] = e
  BY <1>1, AppendedRecords
<1>3. AllExcused(records', config.strict)
  BY <1>1, AppendExcused
<1>4. pc = "branch_controller" => \E j \in DOMAIN records : records[j].stage = "retrieval"
  BY DEF HInv, History
<1> QED
  BY <1>2, <1>3, <1>4, GoesOn

\* A stage that works or ends the solve.
LEMMA ParseExplained == HInv /\ Parse => History'
<1> SUFFICES ASSUME HInv, Parse PROVE History'
  OBVIOUS
<1>1. PICK ok \in BOOLEAN :
        /\ records' = Append(records, [stage |-> "parse", ok |-> ok])
        /\ ok => pc' # "returned" /\ pc' # "branch_controller" /\ config' = config
                 /\ (pc' = "adapt" => pc = "branch_controller")
        /\ ~ok => pc' = "returned" /\ status' = "failed_parse" /\ config' = config
  BY DEF Parse, Recorded, Continue, ReturnFailure
<1>2. pc # "returned"
  BY DEF Parse
<1>3. CASE ok
  BY <1>1, <1>2, <1>3, WorksOn
<1>4. CASE ~ok
  BY <1>1, <1>2, <1>4, ReturnsOn DEF Blamed
<1> QED
  BY <1>3, <1>4

\* A stage that works or ends the solve.
LEMMA RouteExplained == HInv /\ Route => History'
<1> SUFFICES ASSUME HInv, Route PROVE History'
  OBVIOUS
<1>1. PICK ok \in BOOLEAN :
        /\ records' = Append(records, [stage |-> "route", ok |-> ok])
        /\ ok => pc' # "returned" /\ pc' # "branch_controller" /\ config' = config
                 /\ (pc' = "adapt" => pc = "branch_controller")
        /\ ~ok => pc' = "returned" /\ status' = "failed_route" /\ config' = config
  BY DEF Route, Recorded, Continue, ReturnFailure
<1>2. pc # "returned"
  BY DEF Route
<1>3. CASE ok
  BY <1>1, <1>2, <1>3, WorksOn
<1>4. CASE ~ok
  BY <1>1, <1>2, <1>4, ReturnsOn DEF Blamed
<1> QED
  BY <1>3, <1>4

\* A stage that works or ends the solve.
LEMMA StateInitExplained == HInv /\ StateInit => History'
<1> SUFFICES ASSUME HInv, StateInit PROVE History'
  OBVIOUS
<1>1. PICK ok \in BOOLEAN :
        /\ records' = Append(records, [stage |-> "state_init", ok |-> ok])
        /\ ok => pc' # "returned" /\ pc' # "branch_controller" /\ config' = config
                 /\ (pc' = "adapt" => pc = "branch_controller")
        /\ ~ok => pc' = "returned" /\ status' = "failed_state_init" /\ config' = config
  BY DEF StateInit, Recorded, Continue, ReturnFailure
<1>2. pc # "returned"
  BY DEF StateInit
<1>3. CASE ok
  BY <1>1, <1>2, <1>3, WorksOn
<1>4. CASE ~ok
  BY <1>1, <1>2, <1>4, ReturnsOn DEF Blamed
<1> QED
  BY <1>3, <1>4

\* A stage that works or ends the solve.
LEMMA SearchExplained == HInv /\ Search => History'
<1> SUFFICES ASSUME HInv, Search PROVE History'
  OBVIOUS
<1>1. PICK ok \in BOOLEAN :
        /\ records' = Append(records, [stage |-> "branch_controller", ok |-> ok])
        /\ ok => pc' # "returned" /\ pc' # "branch_controller" /\ config' = config
                 /\ (pc' = "adapt" => pc = "branch_controller")
        /\ ~ok => pc' = "returned" /\ status' = "failed_branch" /\ config' = config
  BY DEF Search, Recorded, Continue, ReturnFailure
<1>2. pc # "returned"
  BY DEF Search
<1>3. CASE ok
  BY <1>1, <1>2, <1>3, WorksOn
<1>4. CASE ~ok
  BY <1>1, <1>2, <1>4, ReturnsOn DEF Blamed
<1> QED
  BY <1>3, <1>4

\* A stage that works or ends the solve.
LEMMA AggregateExplained == HInv /\ Aggregate => History'
<1> SUFFICES ASSUME HInv, Aggregate PROVE History'
  OBVIOUS
<1>1. PICK ok \in BOOLEAN :
        /\ records' = Append(records, [stage |-> "aggregation", ok |-> ok])
        /\ ok => pc' # "returned" /\ pc' # "branch_controller" /\ config' = config
                 /\ (pc' = "adapt" => pc = "branch_controller")
        /\ ~ok => pc' = "returned" /\ status' = "failed_aggregation" /\ config' = config
  BY DEF Aggregate, Recorded, Continue, ReturnFailure
<1>2. pc # "returned"
  BY DEF Aggregate
<1>3. CASE ok
  BY <1>1, <1>2, <1>3, WorksOn
<1>4. CASE ~ok
  BY <1>1, <1>2, <1>4, ReturnsOn DEF Blamed
<1> QED
  BY <1>3, <1>4

\* A step that records a tolerated failure and goes on.
LEMMA ToleratesOn ==
  ASSUME HInv, pc # "returned", config' = config, pc' # "returned",
         NEW e, records' = Append(records, e),
         \/ e.stage = "retrieval" /\ ~config.strict
         \/ e.stage = "budget" /\ (config.strict => pc = "adapt") /\ pc' # "branch_controller",
         pc' # "adapt"
  PROVE  History'
<1> DEFINE n == Len(records) + 1
<1>1. records \in Seq(StageRecords) /\ AllExcused(records, config.strict)
  BY DEF HInv, IInv, History
<1>2. /\ DOMAIN records' = DOMAIN records \cup {n}
      /\ \A i \in DOMAIN records : records'[i] = records[i] /\ i \in Nat /\ i < n
      /\ records'[n] = e
      /\ DOMAIN records = 1..Len(records) /\ n \in Nat
  BY <1>1, AppendedRecords
<1>3. \A i \in DOMAIN records : Excused(records', i, config.strict)
  BY <1>1, AppendExcused
<1> HIDE DEF n
<1>4. Excused(records', n, config.strict)
  <2>1. pc = "adapt" => \E j \in DOMAIN records : records[j].stage = "retrieval"
    BY DEF HInv, History
  <2>2. pc = "adapt" => \E j \in 1..n : records'[j].stage = "retrieval"
    <3> SUFFICES ASSUME pc = "adapt" PROVE \E j \in 1..n : records'[j].stage = "retrieval"
      OBVIOUS
    <3>1. PICK j \in DOMAIN records : records[j].stage = "retrieval"
      BY <2>1
    <3>2. j \in 1..n /\ records'[j].stage = "retrieval"
      BY <1>2, <3>1
    <3> QED
      BY <3>2
  <2> QED
    BY <1>2, <2>2 DEF Excused
<1>5. AllExcused(records', config.strict)
  BY <1>2, <1>3, <1>4 DEF AllExcused
<1>6. pc' = "branch_controller" => \E j \in DOMAIN records' : records'[j].stage = "retrieval"
  BY <1>2
<1> QED
  BY <1>5, <1>6, GoesOn

\* A budget that cannot be acquired ends a strict solve only.
LEMMA AcquireBudgetExplained == HInv /\ AcquireBudget => History'
<1> SUFFICES ASSUME HInv, AcquireBudget PROVE History'
  OBVIOUS
<1>1. PICK ok \in BOOLEAN :
        /\ records' = Append(records, [stage |-> "budget", ok |-> ok])
        /\ config' = config
        /\ ok \/ ~config.strict => pc' = "path"
        /\ ~ok /\ config.strict => pc' = "returned" /\ status' = "failed_budget"
  BY DEF AcquireBudget, Recorded, Continue, ReturnFailure
<1>2. pc # "returned"
  BY DEF AcquireBudget
<1>3. CASE ok
  BY <1>1, <1>2, <1>3, WorksOn
<1>4. CASE ~ok /\ ~config.strict
  BY <1>1, <1>2, <1>4, ToleratesOn
<1>5. CASE ~ok /\ config.strict
  BY <1>1, <1>2, <1>5, ReturnsOn DEF Blamed
<1> QED
  BY <1>3, <1>4, <1>5

\* Two records at the end of a list.
LEMMA TwoAppended ==
  ASSUME NEW T, NEW list \in Seq(T), NEW b \in T, NEW c \in T
  PROVE  list \o <<b, c>> = Append(Append(list, b), c)
<1>1. <<b>> \in Seq(T) /\ <<b, c>> = Append(<<b>>, c)
  OBVIOUS
<1>2. list \o Append(<<b>>, c) = Append(list \o <<b>>, c)
  BY <1>1
<1>3. list \o <<b>> = Append(list, b)
  OBVIOUS
<1> QED
  BY <1>1, <1>2, <1>3

\* Nothing fails in the choice of the path.
LEMMA SelectRuntimePathExplained == HInv /\ SelectRuntimePath => History'
<1> SUFFICES ASSUME HInv, SelectRuntimePath PROVE History'
  OBVIOUS
<1>1. /\ records' = records \/ records' = Append(records, [stage |-> "branch_controller", ok |-> TRUE])
      /\ config' = config /\ pc' \in {"attempts", "state_init"} /\ pc = "path"
  BY DEF SelectRuntimePath, Recorded, Continue
<1>2. CASE records' = records
  BY <1>1, <1>2, GoesOn DEF HInv, History
<1>3. CASE records' = Append(records, [stage |-> "branch_controller", ok |-> TRUE])
  BY <1>1, <1>3, WorksOn
<1> QED
  BY <1>1, <1>2, <1>3

\* Attempts that are made leave records of success.
LEMMA MinimalAttemptsExplained == HInv /\ MinimalAttempts => History'
<1> SUFFICES ASSUME HInv, MinimalAttempts PROVE History'
  OBVIOUS
<1> DEFINE b == [stage |-> "branch_controller", ok |-> TRUE]
           c == [stage |-> "aggregation", ok |-> TRUE]
           one == Append(records, b)
           two == Append(one, c)
<1>1. records \in Seq(StageRecords) /\ AllExcused(records, config.strict) /\ pc = "attempts"
  BY DEF HInv, IInv, History, MinimalAttempts
<1>2. b \in StageRecords /\ c \in StageRecords /\ b.ok /\ c.ok
  BY DEF StageRecords, Stages
<1>3. CASE /\ records' = Append(records, [stage |-> "branch_controller", ok |-> FALSE])
           /\ pc' = "returned" /\ status' = "failed_branch" /\ config' = config
  BY <1>1, <1>3, ReturnsOn DEF Blamed
<1>4. CASE /\ records' \in {records \o AttemptRecords, records \o Append(AttemptRecords, b)}
           /\ pc' \in {"state_init", "submission"} /\ config' = config
  <2> HIDE DEF b, c
  <2>1. AllExcused(two, config.strict) /\ AllExcused(Append(two, b), config.strict)
    <3>1. one \in Seq(StageRecords) /\ AllExcused(one, config.strict)
      BY <1>1, <1>2, AppendExcused
    <3> HIDE DEF one
    <3>2. two \in Seq(StageRecords) /\ AllExcused(two, config.strict)
      BY <1>2, <3>1, AppendExcused
    <3> QED
      BY <1>2, <3>2, AppendExcused
  <2>2. records \o AttemptRecords = two
    <3>1. AttemptRecords = <<b, c>>
      BY DEF AttemptRecords, b, c
    <3> QED
      BY <1>1, <1>2, <3>1, TwoAppended
  <2>3. records \o Append(AttemptRecords, b) = Append(two, b)
    <3>1. AttemptRecords \in Seq(StageRecords)
      <4>1. AttemptRecords = <<b, c>>
        BY DEF AttemptRecords, b, c
      <4> QED
        BY <1>2, <4>1
    <3>2. records \o Append(AttemptRecords, b) = Append(records \o AttemptRecords, b)
      BY <1>1, <1>2, <3>1
    <3> QED
      BY <2>2, <3>2
  <2>4. AllExcused(records', config.strict)
    BY <1>4, <2>1, <2>2, <2>3
  <2> QED
    BY <1>4, <2>4, GoesOn
<1> QED
  BY <1>3, <1>4 DEF MinimalAttempts, AttemptsDone, Recorded, Continue, ReturnFailure

\* A retrieval that fails ends a strict solve only.
LEMMA RetrieveExplained == HInv /\ Retrieve => History'
<1> SUFFICES ASSUME HInv, Retrieve PROVE History'
  OBVIOUS
<1>1. PICK ok \in BOOLEAN :
        /\ records' = Append(records, [stage |-> "retrieval", ok |-> ok])
        /\ config' = config
        /\ ok \/ ~config.strict => pc' = "branch_controller"
        /\ ~ok /\ config.strict => pc' = "returned" /\ status' = "failed_retrieval"
  BY DEF Retrieve, Recorded, Continue, ReturnFailure
<1>2. pc # "returned"
  BY DEF Retrieve
<1>3. CASE ok
  BY <1>1, <1>2, <1>3, WorksOn
<1>4. CASE ~ok /\ ~config.strict
  BY <1>1, <1>2, <1>4, ToleratesOn
<1>5. CASE ~ok /\ config.strict
  BY <1>1, <1>2, <1>5, ReturnsOn DEF Blamed
<1> QED
  BY <1>3, <1>4, <1>5

\* A budget that cannot be adapted never ends the solve.
LEMMA AdaptBudgetExplained == HInv /\ AdaptBudget => History'
<1> SUFFICES ASSUME HInv, AdaptBudget PROVE History'
  OBVIOUS
<1>1. config' = config /\ pc = "adapt" /\ pc' = "aggregation"
  BY DEF AdaptBudget, Continue
<1>2. CASE records' = records
  BY <1>1, <1>2, GoesOn DEF HInv, History
<1>3. ASSUME NEW ok \in BOOLEAN, records' = Append(records, [stage |-> "budget", ok |-> ok])
      PROVE  History'
  BY <1>1, <1>3, ToleratesOn
<1> QED
  BY <1>2, <1>3 DEF AdaptBudget, Recorded

\* A submission that fails is the last stage, and not a success.
LEMMA SubmitExplained == HInv /\ Submit => History'
<1> SUFFICES ASSUME HInv, Submit PROVE History'
  OBVIOUS
<1>1. PICK ok \in BOOLEAN :
        /\ records' = Append(records, [stage |-> "submission", ok |-> ok])
        /\ config' = config /\ pc' = "returned"
        /\ ok => status' = "success"
        /\ ~ok => status' \in {"failed_submission_format", "partial_success"}
  BY DEF Submit, Recorded, ReturnResult
<1>2. pc # "returned"
  BY DEF Submit
<1>3. CASE ok
  BY <1>1, <1>2, <1>3, ReturnsOn
<1>4. CASE ~ok
  BY <1>1, <1>2, <1>4, ReturnsOn DEF Blamed
<1> QED
  BY <1>3, <1>4

\* Every failure is explained, step by step.
LEMMA NextHistory == HInv /\ [Next]_vars => History'
<1> SUFFICES ASSUME HInv, [Next]_vars PROVE History'
  OBVIOUS
<1>1. CASE Next
  BY <1>1, ParseExplained, RouteExplained, AcquireBudgetExplained, SelectRuntimePathExplained,
     MinimalAttemptsExplained, StateInitExplained, RetrieveExplained, SearchExplained,
     AdaptBudgetExplained, AggregateExplained, SubmitExplained DEF Next
<1>2. CASE UNCHANGED vars
  <2>1. records' = records /\ config' = config /\ pc' = pc /\ status' = status
    BY <1>2 DEF vars, result
  <2> QED
    BY <2>1 DEF HInv, History, FailuresEnd, AllExcused, Excused, Blamed
<1> QED
  BY <1>1, <1>2

\* solve_problem goes on after a failed stage only where it tolerates the failure,
\* and the status of a failed result names the stage that failed last.
THEOREM SpecFailuresEnd == Spec => []FailuresEnd
<1>1. Init => History
  BY DEF Init, History, AllExcused, FailuresEnd
<1>2. IInv /\ History /\ [Next]_vars => History'
  BY NextHistory DEF HInv
<1>3. History => FailuresEnd
  BY DEF History
<1> QED
  BY <1>1, <1>2, <1>3, SpecIInv, PTL DEF Spec
=============================================================================
