CONSTANTS
    Functions = {f1, f2}
    Detached = {f2}
    Workers = {w1, w2}
    Buckets <- MCBuckets
    f1 = f1
    f2 = f2
    w1 = w1
    w2 = w2
    MaxNonce = 2
    InitialRecords = 2
    MaxRecords = 3
    MaxVersion = 2
    min_records_for_invocation = 3
    None = None
SPECIFICATION Spec
INVARIANTS
    NothingForgotten
    LiveItemsRun
PROPERTIES
    CompletionAdvances
CHECK_DEADLOCK FALSE
SYMMETRY WorkersSymmetry
