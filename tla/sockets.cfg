SPECIFICATION Spec
CONSTANTS
    Objects = {o1, o2}
    Files = {f1, f2, f3}
    Fds = {3, 4}
    Ports = {8443}
    Hosts = {h}
    Groups = {g}
    Stale <- Unwritten
    Wanted <- MCWanted
    LateAnswers = {"NONE"}
    ClosesMidReceive = FALSE
    NULL = NULL
SYMMETRY Symmetry
INVARIANTS
    TypeOK
    RequestsOnOwnFile
    DescriptorsOwned
    ConnectionsAreStreams
    RefusedByListenerOnly
    ConnectsWhereAsked
    LeaveSucceeds
