SPECIFICATION LiveSpec
CONSTANTS
    Hosts = {a, b, lit}
    Literals = {lit}
    Gaicbs = {p1, p2}
    NULL = NULL
    MaxCalls = 4
PROPERTIES
    AttachedAnswered
\* Nothing happens after the last call, or after a crash.
CHECK_DEADLOCK FALSE
