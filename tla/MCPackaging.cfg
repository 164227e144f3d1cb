SPECIFICATION FairSpec
CONSTANTS
    Worker = {w1, w2}
    Slow = {w2}
    MaxVersion = 2
    MaxBuilds = 2
    MaxLosses = 1
INVARIANTS ReadyIsKept
PROPERTIES KeepsPackages Ends
CHECK_DEADLOCK FALSE
