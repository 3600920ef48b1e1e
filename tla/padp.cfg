SPECIFICATION FairSpec
CONSTANTS
  PC = PC
  Palm = Palm
  MaxPacket = 2
  MaxRetries = 2
  MaxTries = 2
  XidTop = 15
  FirstXid = 13
  RequestLengths = {3}
  ResponseLengths = {1, 4}
  SameCommand = TRUE
  MaxCalls = 2
  MaxLost = 2
  MaxEarly = 1
  MaxTickles = 1
CHECK_DEADLOCK FALSE
INVARIANTS TypeOK Reliable
PROPERTIES RpcSpec CallEndsOrBlocks
