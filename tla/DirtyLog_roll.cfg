CONSTANTS
    Collections = {c1}
    MaxRecords <- MCMaxRecords
    c1 = c1
    MaxFaults = 1
    min_compaction_size = 2
    reinsert_threshold = 2
    num_records_before_backpressure = 2
SPECIFICATION FairSpec
INVARIANTS
    UncompactedIsDirty
    NotAheadOfSysdb
PROPERTIES
    EventuallyCompacted
    BackpressureLifts
