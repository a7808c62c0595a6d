CONSTANTS
    c1 = c1
    c2 = c2
    r1 = r1
    r2 = r2
    Callers = {c1, c2}
    Requests = {r1, r2}
    Approvable = {r1}
    Limit = 1

SPECIFICATION FairSpec

\* Every call and request may be over.
CHECK_DEADLOCK FALSE

INVARIANTS
    TypeOK
    RepliesOnRecord
PROPERTIES
    CallsHold
    LossEndsCalls
    RequestsAnswered
