CONSTANTS
    p1 = p1
    f1 = f1
    Pollers <- OnePoller
    Followers <- OneFollower
    Capacity = 3
    MaxBytes = 5
    MaxEventBytes = 4
    Sizes <- SmallOrLarge
    TruncatedSize = 3
    MinimalSize = 2
    MaxSequence = 5

SPECIFICATION FairSpec

CHECK_DEADLOCK FALSE

INVARIANTS
    TypeOK
    WindowIsNewest
    NoLostWakeup
PROPERTIES
    FeedHolds
    FollowersEnd
    PollersHear
