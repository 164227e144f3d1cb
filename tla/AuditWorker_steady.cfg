SPECIFICATION FairSpec
CONSTANTS
    Worker = {w1, w2}
    Follow = {"packaging"}
    Silent = {"collecting"}
    Moves = {"CANCELLED", "FAILED"}
    BrokerMayFail = TRUE
    MaxVersion = 3
    MaxClaims = 1
    MaxMsgs = 1
    MaxCrashes = 0
INVARIANT Driven
PROPERTY CancelWins
PROPERTY Settles
CHECK_DEADLOCK FALSE
