CONSTANTS
  NameLen = 2
  FileSize = 3
  InSize = 4
  OutSizes <- SomeOutputs
  EchoLen = 2
  MAX_UDP_PAYLOAD = 2
  Buf = 3
  Junk <- SomeJunk
  Runs = 3
SPECIFICATION FairSpec
INVARIANT ArrivesWhole
PROPERTY RunReturns
CHECK_DEADLOCK FALSE
