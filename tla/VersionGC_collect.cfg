SPECIFICATION Spec
CONSTANTS
    a = a
    b = b
    c = c
    Collections = {a, b, c}
    Root = a
    Jobs = {j1}
    min_versions_to_keep = 1
    ManualRequests = {a}
    EmptyCompactions = FALSE
    MaxVersion = 2
    MaxCompactions = 2
    MaxFaults = 1
SYMMETRY Symmetry
INVARIANTS
    FilesKept
    
    NothingStranded
CHECK_DEADLOCK FALSE
