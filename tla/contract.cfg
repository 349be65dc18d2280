SPECIFICATION Spec
CONSTANTS
    Items = {k1, k2}
    NULL = NULL
    ListenSockets = {l}
    StreamSockets = {s}
    DatagramSockets = {d}
    StopSockets = {s}
    Faults = {"eof", "intr", "err", "trunc", "submit"}
    SqEntries = 1
    BUFFERS = 4
    MaxOutstanding = 2
    MaxCq = 2
    MaxRing = 6
SYMMETRY Symmetry
INVARIANTS
    NotOrphaned
    BufferConservation
PROPERTIES
    ContractSpec
\* A failure the code does not expect aborts the process: the ring may stop.
CHECK_DEADLOCK FALSE
