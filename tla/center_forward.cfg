SPECIFICATION FairSpec
CONSTANTS
  p1 = p1
  p2 = p2
  p3 = p3
  iA = iA
  iB = iB
  h1 = h1
  s1 = s1
  s2 = s2
  c1 = c1
  None = None
  Process <- Processes
  Instance <- Instances
  Host <- Hosts
  Stream <- Streams
  Call <- Calls
  Id <- Ids
  HostOf <- Hosting
  ServerOf <- Moves
  TargetOf <- Targets
  OriginOf <- AskOther
INVARIANTS
  NotFoundMeansMoved
  ReturnIsLogged
PROPERTIES
  EveryCallReturns
  ServingIsAddressed
