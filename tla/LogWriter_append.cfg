CONSTANTS
    Writers = {w1, w2}
    Batches = {1, 2, 3}
    MarkDirtyErrors = {"error", "durable", "retry"}
    MaxFaults = 1
    NumRecords <- MCNumRecords
    Weight <- MCWeight
    NoBatch = NoBatch
    NoFragment = NoFragment
    fragment_rollover_threshold = 1
    snapshot_rollover_threshold = 2
SPECIFICATION FairSpec
INVARIANTS
    TypeOK
    AckedIsLinked
    LinkedOnce
    LogIsReadable
    ManifestScrubs
    OneFragmentAhead
    MarkedBeforeLinked
PROPERTIES
    ImplementsAppendLog
    AppendReturns
CONSTRAINT InOrder
