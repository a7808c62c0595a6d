CONSTANTS
    t1 = t1
    t2 = t2
    Threads = {t1, t2}
    MaxTurns = 2
    MaxAsked = 3
    MaxStarts = 3
    Endings = {"completed", "interrupted"}

SPECIFICATION Spec
CONSTRAINT FewTurns
SYMMETRY Symmetry

\* The bound on starts ends every behaviour.
CHECK_DEADLOCK FALSE

INVARIANTS
    TypeOK
    ServingIsComplete
    FileFollowsRegistry
PROPERTIES
    OutcomesAreKept
    ServiceKeepsRecords
