CONSTANTS
    t1 = t1
    x1 = x1
    w1 = w1
    Threads <- OneThread
    MaxTurns = 2
    SessionLimit = 2
    Stoppers <- OneStopper
    StrayAge = 1
    EndStatuses <- SomeStatuses
    Impatient = FALSE
    Waiters <- OneWaiter

SPECIFICATION FairWaitSpec

\* The service may have stopped, and the bounds end every behaviour.
CHECK_DEADLOCK FALSE

INVARIANTS
    AllTypeOK
    EventsTellState
    OutcomeIsOfNewestTurn
    OneTurnAtATime
    NoWaitSleeps
PROPERTIES
    StaleCompletionHarmless
    LifecycleHolds
    WaitTellsOutcome
    HandlersReturn
    ShutdownCompletes
    TurnsSettle
    WaitsEnd
