SPECIFICATION Spec
CONSTANTS
  a1 = a1
  a2 = a2
  s1 = s1
  s2 = s2
  c1 = c1
  c2 = c2
  r1 = r1
  r2 = r2
  None = None
  Call <- TwoCalls
  Stream <- TwoStreams
  ReqId <- TwoIds
  Agent <- TwoAgents
  Target <- TwoTargets
  RequestId <- InvocationId
  Owner <- TwoOwners
INVARIANT
  AnswerIsOwn
