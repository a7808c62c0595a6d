CONSTANTS
    t1 = t1
    t2 = t2
    x1 = x1
    x2 = x2
    Threads <- TwoThreads
    MaxTurns = 2
    SessionLimit = 2
    Stoppers <- TwoStoppers
    StrayAge = 1
    EndStatuses <- PlainStatuses
    Impatient = TRUE

SPECIFICATION Spec
CONSTRAINT OneTurnEach
SYMMETRY Symmetry

\* The service may have stopped, and the bounds end every behaviour.
CHECK_DEADLOCK FALSE

INVARIANT DurableOutcome
PROPERTIES
    StoppingStartsNothing
    CancelledOnConfirmation
    ShutdownHolds
