CONSTANTS
    c1 = c1
    c2 = c2
    Collections = {c1}
    Nodes = {n1, n2}
    Rank <- MCRank
    MaxRecords <- MCMaxRecords
    MaxJobs = 2
    MaxDisturbances = 2
    max_concurrent_jobs = 1
    max_failure_count = 2
    max_compaction_size = 1
SPECIFICATION Spec
INVARIANTS
    VersionHoldsLog
    CursorBehindSysdb
PROPERTIES
    VersionsAdvance
CHECK_DEADLOCK FALSE
