SPECIFICATION Spec
CONSTANTS
  n1 = n1
  n2 = n2
  Nos = {n1, n2}
  Client = {c1}
  MaxNos = 3
  Choices <- MCChoices
  MaxQueries = 2
  NULL = NULL
CHECK_DEADLOCK FALSE
INVARIANTS IdsAgree NoHoleUnlessAsked AnswersBelongToQuery
PROPERTIES KnownAreStopped QueriesReturn
