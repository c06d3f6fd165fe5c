SPECIFICATION FairSpec
CONSTANTS
  c1 = c1
  c2 = c2
  a = a
  b = b
  None = None
  Missing = Missing
  Empty = Empty
  Garbled = Garbled
  Call <- TwoCalls
  Scenarios <- AllScenarios
  Settings <- Sections
  Initial <- Open_
  Default <- Defaults
  Absolute <- Paths
  Path <- TheFile
  Hidden = TRUE
  Byte <- AllBytes
  Texts <- Contents
  Channel <- TwoChannels
  PipeSize = 2
  DefaultOutput = 4
  MaxWritten <- Written
  WritesFail = TRUE
  ProbeBytes = 4
  LineLimit = 4
  DefaultLength = 3
  MB = 2
CHECK_DEADLOCK FALSE
INVARIANTS
  
  
  
  ExclusiveWritesExclude
  OutputAccounted
PROPERTIES
  EveryToolCallEnds
