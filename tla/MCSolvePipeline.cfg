\* Every configuration and every way the stages can end.
SPECIFICATION Spec
INVARIANTS NeverSearchesMinimal FailuresEnd AnswerOfThePath
PROPERTIES ImplementsContract
CHECK_DEADLOCK FALSE
