SPECIFICATION PoolSpec
CONSTANTS
    Items = {k1, k2, k3, k4}
    NULL = NULL
INVARIANTS
    PoolTypeOK
    FreeStackExact
    SlotsConsistent
PROPERTY
    AllocatorSpec
\* A double free ends the process: the pool may stop.
CHECK_DEADLOCK FALSE
