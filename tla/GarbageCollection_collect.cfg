CONSTANTS
    Writers = {w1}
    Batches = {1, 2, 3, 4}
    MarkDirtyErrors = {"error", "durable", "retry"}
    MaxFaults = 1
    NumRecords <- MCNumRecords
    Weight <- MCWeight
    NoBatch = NoBatch
    NoFragment = NoFragment
    fragment_rollover_threshold = 1
    snapshot_rollover_threshold = 2
    Collectors = {c1}
    MaxRounds = 2
SPECIFICATION GCSpec
INVARIANTS
    LiveLogIsReadable
    CursorKept
    SetsumsAccount
    PositionsAreNotReused
    CollectedIsTracked
    DeletesOnlyGarbage
CONSTRAINT InOrder
