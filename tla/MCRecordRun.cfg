\* Four records and time for two of the longest solves.
CONSTANTS
  NumRecords = 4
  Budget = 2
  MaxElapsed = 1
  NoBudget = NoBudget
SPECIFICATION RunSpec
INVARIANTS BooksAgree NoneLeftOut ChargedOnce OverrunBounded
CHECK_DEADLOCK FALSE
