CONSTANTS
  Loaders = {l1, l2}
  Os = {o1, o2, o3}
  Running = {o1, o2}
  Supporting = {o1}
  Parts <- TwoParts
  Blocks <- AllBlocks
  Stacks <- CleanOrNot
  NULL = NULL
SPECIFICATION FairSpec
INVARIANTS NoAnswerLeftBehind PlacementIsOnlyLate BitStringIsNpu DaemonSurvives
PROPERTIES LoadsAreNew LoadReturns
CHECK_DEADLOCK FALSE
