SPECIFICATION Spec
CONSTANTS
    Worker = {w1, w2}
    Follow = {}
    Silent = {"collecting"}
    Moves = {"CANCELLED"}
    BrokerMayFail = FALSE
    MaxVersion = 4
    MaxClaims = 0
    MaxMsgs = 2
    MaxCrashes = 0
SYMMETRY Replicas
INVARIANT NoSecondAudit
CHECK_DEADLOCK FALSE
