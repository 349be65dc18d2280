SPECIFICATION Spec
CONSTANTS
    Hosts = {a, b}
    Literals = {}
    Gaicbs = {p1, p2}
    NULL = NULL
    MaxCalls = 3
INVARIANTS
    RequestsForThisHostname
CHECK_DEADLOCK FALSE
