CONSTANTS
    c1 = c1
    c2 = c2
    Collections = {c1, c2}
    Nodes = {n1}
    Rank <- MCRank
    MaxRecords <- MCMaxRecords
    MaxJobs = 2
    MaxDisturbances = 1
    max_concurrent_jobs = 1
    max_failure_count = 2
    max_compaction_size = 1
SPECIFICATION FairSpec
PROPERTIES
    EventuallyCompacted
CHECK_DEADLOCK FALSE
