CONSTANTS
    c1 = c1
    d1 = d1
    Batches <- OneBatch
    Singles <- OneSingle
    Size <- Mixed

SPECIFICATION Spec

\* Every request has been answered, or the connection is lost.
CHECK_DEADLOCK FALSE

INVARIANTS
    TypeOK
    NewestHandoffComplete
    NoHandleLost
