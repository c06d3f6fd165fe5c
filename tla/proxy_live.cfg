SPECIFICATION FairSpec
CONSTANTS
  h1 = h1
  h2 = h2
  p1 = p1
  u1 = u1
  u2 = u2
  d1 = d1
  d2 = d2
  r1 = r1
  None = None
  Up <- OneUp
  Client <- AgentAndProxy
  Down <- TwoDowns
  Request <- OneRequest
  ClientOf <- OneEach
  Target <- OnlyTarget
  Nested <- HostBehind
PROPERTIES
  CanceledRunStops
  ClientIsAnnounced
