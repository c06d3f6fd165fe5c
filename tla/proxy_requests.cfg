SPECIFICATION Spec
CONSTANTS
  h1 = h1
  h2 = h2
  p1 = p1
  u1 = u1
  u2 = u2
  d1 = d1
  d2 = d2
  r1 = r1
  None = None
  Up <- TwoUps
  Client <- OneClient
  Down <- TwoDowns
  Request <- OneRequest
  ClientOf <- SameClient
  Target <- OnlyTarget
  Nested <- NotNested
INVARIANTS
  RouteIsServed
  PendingExact
  CancelFollowsRequest
PROPERTY
  RemovedByOwner
