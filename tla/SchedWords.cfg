SPECIFICATION Spec
CONSTANTS
  Queues <- Corners
  Nodes = {n1, n2, n3, n4}
  NULL = NULL
SYMMETRY Symmetry
INVARIANT LinksMirror
PROPERTY ImplementsPriorityQueues
