CONSTANTS
  t1 = t1
  t2 = t2
  t3 = t3
  t4 = t4
  t5 = t5
  t6 = t6
  Task = {t1, t2, t3, t4, t5}
  Order <- TestOrder
  Succ <- TestGraph
  Main = main
  Thread = {main, x1, x2, x3, x4, x5}
  MaxRuns = 2
  NULL = NULL
SPECIFICATION Spec
PROPERTY ImplementsTaskGraph
CHECK_DEADLOCK FALSE
