CONSTANTS
  t1 = t1
  t2 = t2
  t3 = t3
  t4 = t4
  t5 = t5
  t6 = t6
  Task = {t1, t2, t3, t4, t5, t6}
  Order <- WiderOrder
  Succ <- WiderGraph
  Main = main
  Thread = {main, x1, x2, x3}
  MaxRuns = 1
  NULL = NULL
SPECIFICATION FairSpec
INVARIANTS OneThreadPerTask CountNeverTooLow
PROPERTIES ImplementsTaskGraph RunReturns
CHECK_DEADLOCK FALSE
