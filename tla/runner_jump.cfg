SPECIFICATION Spec
CONSTANTS
  Queues <- TwoPrograms
  Flavor = "sync"
  Dbs <- TodoOnly
  AnyValue = AnyValue
  WithSpc = TRUE
  Failures = {"connection"}
  Headers = 2
  PipeSize = 2
  Lengths = {0, 2}
  InPieces = FALSE
  MaxFrames = 2
  MaxLines = 2
  MaxRequests = 2
CHECK_DEADLOCK FALSE
INVARIANT NoDeadJump
