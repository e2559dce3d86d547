SPECIFICATION NpuFairSpec
CONSTANTS
  W = 2
  Task = {t1, t2, t3}
  NULL = NULL
  Job <- SomeJobs
  JobPrio <- SomePriorities
  Dmkill = dmkill
  dmkill = dmkill
  load = load
  predict1 = predict1
  predict2 = predict2
  predict0 = predict0
CHECK_DEADLOCK FALSE
PROPERTIES SubmittedRunsUnlessOverlooked ShutdownCloses
