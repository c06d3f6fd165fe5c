SPECIFICATION Spec
CONSTANTS
  h1 = h1
  p1 = p1
  s1 = s1
  s2 = s2
  None = None
  Host <- OneHost
  Proxy <- NoProxy
  Stream <- TwoStreams
  HostOf <- TwoDirect
  DB = "sound"
INVARIANT
  ConnectedIsRegistered
