SPECIFICATION FairSpec
CONSTANTS
  d1 = d1
  d2 = d2
  Db <- MCDb
  Statement <- MCStatements
  ProcBody <- MCProcs
  Batch <- MCBatches
  TableRows = 3
  CondsFail = TRUE
  MaxWhile = 2
  MaxCalls = 3
  MaxBatches = 2
INVARIANTS TypeOK SessionFollows
PROPERTIES CatchHasItsError CallersKept BatchAnswered
CHECK_DEADLOCK FALSE
