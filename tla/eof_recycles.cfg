SPECIFICATION Spec
CONSTANTS
    Items = {k1, k2}
    NULL = NULL
    ListenSockets = {}
    StreamSockets = {s}
    DatagramSockets = {}
    StopSockets = {}
    Faults = {"eof"}
    SqEntries = 2
    BUFFERS = 4
    MaxOutstanding = 3
    MaxCq = 2
    MaxRing = 5
INVARIANTS
    ReceivedDataIntact
\* A failure the code does not expect aborts the process: the ring may stop.
CHECK_DEADLOCK FALSE
