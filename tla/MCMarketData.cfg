SPECIFICATION FairSpec
CONSTANTS
    Worker = {w1}
    Run = {r1, r2}
    Tier = "standard"
    Budget = 300
    Replies <- Answers
    Phrases = 2
    MaxSends = 1
    MaxStarts = 3
    MaxTroubles = 1
INVARIANT Ceiling
INVARIANT Ledger
INVARIANT NothingInvented
 
 
CHECK_DEADLOCK FALSE
