CONSTANTS
    Callers = {1, 2, 3, 4, 5}
    NumBytes <- MCNumBytes
    NumMessages <- MCNumMessages
    batch_size_bytes = 5
    MayFail = TRUE
SPECIFICATION FairSpec
INVARIANTS
    OneWriteAtATime
    CallsAreAccountedFor
    PositionsAreApart
PROPERTIES
    AppendAnswered
    FlusherStops
CHECK_DEADLOCK FALSE
CONSTRAINT InOrder
