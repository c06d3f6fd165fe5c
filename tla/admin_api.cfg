SPECIFICATION Spec
CONSTANTS
  q1 = q1
  q2 = q2
  q3 = q3
  q4 = q4
  w = w
  disk = disk
  colon = colon
  load = load
  a1 = a1
  a2 = a2
  px = px
  p = p
  Blank = Blank
  AnyOS = AnyOS
  Unparsable = Unparsable
  None = None
  Request <- FourRequests
  Walk <- OneWalk
  Scenarios <- AllScenarios
  Tokens <- FourDomains
  Name <- ThreeNames
  Dotted <- WithDots
  Node <- ThreeNodes
  NodesById <- Ordered
  NodeType <- Types_
  NodeOS <- Platforms
  DefaultOutput = 4
  DefaultTimeout = 3
  DefaultLimit = 2
  MaxLimit = 3
CHECK_DEADLOCK FALSE
INVARIANTS
  TemplatesAreSound
  RunIsOfOneVersion
  ClientsOnlyRead
  WalkListsAll
