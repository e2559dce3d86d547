SPECIFICATION NpuSpec
CONSTANTS
  W = 2
  Task = {t1, t2, t3, t4}
  NULL = NULL
  Job <- AllJobs
  JobPrio <- Priorities
  Dmkill = dmkill
  dmkill = dmkill
  load = load
  predict1 = predict1
  predict2 = predict2
  predict0 = predict0
CHECK_DEADLOCK FALSE
SYMMETRY TaskSymmetry
INVARIANTS SchedInv NoUseAfterFree RunsAtMostOnce FifoPerPriority PriorityZeroNeverRuns
PROPERTIES ImplementsPriorityQueues StartsGreatestFirst UsesSchedulerLegally
