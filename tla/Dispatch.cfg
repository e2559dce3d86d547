CONSTANTS
  c1 = c1
  c2 = c2
  p1 = p1
  p2 = p2
  Clients = {c1, c2}
  Procs = {p1, p2}
  MaxNos = 2
  Registrations <- AnyAndSecond
  Affinities <- AnyOrFirst
  Kinds = {"data"}
  Settings = {c2}
  MaxChanges = 2
  Policies = {"mnt", "mwct"}
  Costs = {1, 2}
  PORT = 1
  PORT_MAX = 2
  MaxRuns <- TwoAndOne
  NULL = NULL
SPECIFICATION FairSpec
INVARIANTS CountIsOutstanding EwtIsCharged ChosenIsLeastBusy ConnectFindsListener
PROPERTIES RefusedOnlyIfAbsent RunReturns
