SPECIFICATION FairSpec
CONSTANTS
    Boards = {b1}
    MaxClock = 5
PROPERTY PullsAdvanceUnlessBlocked
INVARIANT LocalIsPastCloud
