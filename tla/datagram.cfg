SPECIFICATION Spec
CONSTANTS
    Items = {k1, k2, k3}
    NULL = NULL
    ListenSockets = {}
    StreamSockets = {}
    DatagramSockets = {d}
    StopSockets = {}
    Faults = {"intr", "nobufs", "err", "trunc", "submit"}
    SqEntries = 2
    BUFFERS = 2
    MaxOutstanding = 3
    MaxCq = 3
    MaxRing = 3
SYMMETRY Symmetry
INVARIANTS
    CompletionReachesOwner
    NoAssertFails
    BufferConservation
\* A failure the code does not expect aborts the process: the ring may stop.
CHECK_DEADLOCK FALSE
