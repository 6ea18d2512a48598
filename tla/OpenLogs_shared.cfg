CONSTANTS
    Calls = {c1, c2, c3}
    None = None
    c1 = c1
    c2 = c2
    c3 = c3
SPECIFICATION LogsFairSpec
INVARIANTS
    SameState
    SharedWriter
PROPERTIES
    LogsAreClosed
CHECK_DEADLOCK FALSE
