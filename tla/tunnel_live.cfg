SPECIFICATION FairSpec
CONSTANTS
  h1 = h1
  p1 = p1
  s1 = s1
  s2 = s2
  None = None
  Host <- HostAndProxy
  Proxy <- OneProxy
  Stream <- TwoStreams
  HostOf <- ProxyTwice
  DB = "none"
PROPERTIES
  ForwardedRouteFollows
  GoneIsUnregistered
