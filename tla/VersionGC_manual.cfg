SPECIFICATION Spec
CONSTANTS
    a = a
    b = b
    c = c
    Collections = {a, b}
    Root = a
    Jobs = {j1}
    min_versions_to_keep = 1
    ManualRequests = {a, b}
    EmptyCompactions = FALSE
    MaxVersion = 2
    MaxCompactions = 3
    MaxFaults = 0
INVARIANTS
    AllFilesKept
CHECK_DEADLOCK FALSE
