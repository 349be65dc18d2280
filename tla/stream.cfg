SPECIFICATION Spec
CONSTANTS
    Items = {k1, k2, k3}
    NULL = NULL
    ListenSockets = {l}
    StreamSockets = {s}
    DatagramSockets = {}
    StopSockets = {s}
    Faults = {"eof", "intr", "nobufs", "err", "submit"}
    SqEntries = 2
    BUFFERS = 4
    MaxOutstanding = 1
    MaxCq = 2
    MaxRing = 3
SYMMETRY Symmetry
INVARIANTS
    TypeOK
    CompletionReachesOwner
    NoAssertFails
    OneRequestAtATime
\* A failure the code does not expect aborts the process: the ring may stop.
CHECK_DEADLOCK FALSE
