SPECIFICATION Spec
CONSTANTS
    Word = 6
    IdSpan = 4
    MaxRecs = 3
    Records <- MCRecords
    Blocks <- MCBlocks
INVARIANTS OffsetsRight RoundTrip OnlyTheEndIsLost
CHECK_DEADLOCK FALSE
