SPECIFICATION Spec
CONSTANTS
    Hosts = {a, b, c, d}
    Literals = {}
    MaxCalls = 5
    Gaicbs = {p1, p2}
    NULL = NULL
SYMMETRY Symmetry
INVARIANTS
    TypeOK
    AnsweredOnce
    AnswersOwnHost
    RequestsUnshared
\* Nothing happens after the last handler was given, or after a crash.
CHECK_DEADLOCK FALSE
