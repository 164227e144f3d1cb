SPECIFICATION FairSpec
CONSTANTS
    Url <- Site
    Seed = 1
    Web <- Sites
    Sorted <- InOrder
    Nil = 0
    MaxPages = 5
    MaxDepth = 3
    MaxRedirects = 1
INVARIANTS Accounted Budget NoDetour Complete
PROPERTY Terminates
CHECK_DEADLOCK FALSE
