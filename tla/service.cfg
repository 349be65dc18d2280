SPECIFICATION LiveSpec
CONSTANTS
    NULL = NULL
    Interface = "own"
    Answers <- MCAnswers
    BUFFERS = 4
    TailRange = 8
    BufferSize = 4096
    PacketCapacity = 4096
    Datagrams <- MCDatagrams
    SendItems = {k1, k2}
    MaxArmed = 2
    MaxCq = 3
INVARIANTS
    TypeOK
    AddressIsOwn
    ViewStable
    EchoFaithful
    ReplyFits
PROPERTIES
    QueueSpec
    WaitEnds
    BuffersReturn
    OldKernelNoticed
\* The process ends when something it needs is missing.
CHECK_DEADLOCK FALSE
