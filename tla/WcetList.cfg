SPECIFICATION Spec
CONSTANTS
  n1 = n1
  b1 = b1
  b2 = b2
  b3 = b3
  Key <- Blocks
  Costs = {1, 2}
  Node = {m1, m2, m3}
  NULL = NULL
PROPERTIES ImplementsWcetMap QueriesAndReportsEnd
