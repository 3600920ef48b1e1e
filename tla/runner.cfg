SPECIFICATION FairSpec
CONSTANTS
  Queues <- Configurations
  Flavor = "sync"
  Dbs <- TodoOrNone
  AnyValue = AnyValue
  WithSpc = TRUE
  Failures = {"pipe", "fork", "preference", "connection"}
  Headers = 2
  PipeSize = 3
  Lengths = {0, 2}
  InPieces = TRUE
  MaxFrames = 2
  MaxLines = 3
  MaxRequests = 2
CHECK_DEADLOCK FALSE
INVARIANTS TypeOK   KillsNoReaped RanAsDocumented
PROPERTIES EndsWithChild
