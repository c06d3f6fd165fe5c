SPECIFICATION FairSpec
CONSTANTS
  a1 = a1
  a2 = a2
  s1 = s1
  s2 = s2
  c1 = c1
  c2 = c2
  r1 = r1
  r2 = r2
  None = None
  Call <- TwoCalls
  Stream <- OneStream
  ReqId <- TwoIds
  Agent <- OneAgent
  Target <- SameTarget
  RequestId <- DistinctIds
  Owner <- OneOwner
INVARIANTS
  AnswerIsOwn
  PendingExact
  OnlyAbandonedRunsStop
  RunningIsCancelable
  CancelFollowsRequest
PROPERTIES
  ImplementsCalls
  EveryCallReturns
  AbandonedRunStops
