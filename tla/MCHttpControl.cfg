CONSTANTS
    c1 = c1
    c2 = c2
    c3 = c3
    Conns <- ThreeConns
    Limit = 2

SPECIFICATION FairSpec

\* The process ends.
CHECK_DEADLOCK FALSE

INVARIANTS
    TypeOK
    SlotsAreExact
    NoPollOutlivesStop
    OrderlyEnd
PROPERTY
    RunEnds
