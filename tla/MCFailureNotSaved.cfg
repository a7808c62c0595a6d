CONSTANTS
    t1 = t1
    t2 = t2
    x1 = x1
    x2 = x2
    Threads <- OneThread
    MaxTurns = 1
    SessionLimit = 2
    Stoppers <- NoStopper
    StrayAge = 0
    EndStatuses <- PlainStatuses
    Impatient = FALSE

SPECIFICATION Spec

\* The service may have stopped, and the bounds end every behaviour.
CHECK_DEADLOCK FALSE

INVARIANT
    FailureIsDurable
