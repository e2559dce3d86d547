CONSTANTS
  UNIT = 8
  NUM = 2
  INTW = 4
  NumOs = 2
  Ranges <- Narrow
  Addr = {a1, a2, a3}
  NULL = NULL
SPECIFICATION Spec
SYMMETRY Addresses
INVARIANTS PlacementConsistent HeldNodeIsLive AnswersAreCurrent
CHECK_DEADLOCK FALSE
