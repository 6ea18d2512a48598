CONSTANTS
    Kinds = {"compaction", "rebuild", "function"}
    Partitions = {1, 2}
    Segments = {"record", "metadata", "vector"}
    MaxErrors = 1
SPECIFICATION FairSpec
INVARIANTS
    RegistersEverything
    RegistersOnce
PROPERTIES
    TerminatesIfUniform
CHECK_DEADLOCK FALSE
