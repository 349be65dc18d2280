SPECIFICATION LiveSpec
CONSTANTS
    Items = {k1, k2}
    NULL = NULL
    ListenSockets = {l}
    StreamSockets = {s}
    DatagramSockets = {}
    StopSockets = {s}
    Faults = {"eof", "intr"}
    SqEntries = 1
    BUFFERS = 4
    MaxOutstanding = 1
    MaxCq = 2
    MaxRing = 5
PROPERTIES
    CloseCompletes
    CompletionsHandled
    AcceptListensAgain
