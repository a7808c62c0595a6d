CONSTANTS
    t1 = t1
    t2 = t2
    Threads = {t1, t2}
    MaxTurns = 2
    MaxAsked = 3
    MaxStarts = 2
    Endings = {"completed", "interrupted"}

SPECIFICATION Spec
CONSTRAINT FewTurns
SYMMETRY Symmetry

CHECK_DEADLOCK FALSE

INVARIANT SessionsAreOnFile
