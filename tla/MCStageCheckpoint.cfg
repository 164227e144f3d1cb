SPECIFICATION FairSpec
CONSTANTS
    Caller = {c1, c2}
    Token = {t1, t2}
    Stage = {collecting, auditing}
    None = none
    Timeout = 1
    MaxNow = 2
    MaxCalls = 3
    MaxMoves = 1
INVARIANT CallsNeverDeadlock
PROPERTY ExpiryIsReal
 
PROPERTY Expires
CHECK_DEADLOCK FALSE
