CONSTANTS
    c1 = c1
    d1 = d1
    Batches <- OneBatch
    Singles <- OneSingle
    Size <- Mixed

SPECIFICATION Spec

CHECK_DEADLOCK FALSE

INVARIANT HandoffComplete
