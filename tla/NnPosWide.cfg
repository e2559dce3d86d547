CONSTANTS
  UNIT = 8
  NUM = 2
  INTW = 4
  NumOs = 1
  Ranges <- Wide
  Addr = {a1, a2}
  NULL = NULL
SPECIFICATION Spec
INVARIANT EachPartitionHasItsBit
CHECK_DEADLOCK FALSE
