CONSTANTS
    Kinds = {"compaction"}
    Partitions = {1, 2}
    Segments = {"record", "metadata", "vector"}
    MaxErrors = 0
SPECIFICATION FairSpec
PROPERTIES
    Terminates
CHECK_DEADLOCK FALSE
