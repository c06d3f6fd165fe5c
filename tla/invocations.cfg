SPECIFICATION FairSpec
CONSTANTS
  i1 = i1
  i2 = i2
  n1 = n1
  n2 = n2
  k1 = k1
  None = None
  Invocation <- TwoInvocations
  Node <- TwoNodes
  Cancel <- OneCancel
  Targets <- TemplateAndBuiltin
  Async <- OneAsync
  Builtin <- OneBuiltin
  CancelOf <- OfTemplate
  DBFails = FALSE
INVARIANTS
  FinalMatchesResults
  CancelTakesHold
  AuditAgrees
  RowIsCompleted
PROPERTIES
  StatusMovesForward
  EveryInvocationEnds
  CancelWins
