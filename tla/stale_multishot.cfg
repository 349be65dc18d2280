SPECIFICATION Spec
CONSTANTS
    Items = {k1, k2}
    NULL = NULL
    ListenSockets = {}
    StreamSockets = {}
    DatagramSockets = {d}
    StopSockets = {d}
    Faults = {}
    SqEntries = 2
    BUFFERS = 4
    MaxOutstanding = 3
    MaxCq = 2
    MaxRing = 5
INVARIANTS
    DefaultNeverReached
\* A failure the code does not expect aborts the process: the ring may stop.
CHECK_DEADLOCK FALSE
