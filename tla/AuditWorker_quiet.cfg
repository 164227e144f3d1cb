SPECIFICATION Spec
CONSTANTS
    Worker = {w1, w2}
    Follow = {}
    Silent = {}
    Moves = {"CANCELLED", "PLANNING", "REVISION_REQUESTED"}
    BrokerMayFail = FALSE
    MaxVersion = 4
    MaxClaims = 3
    MaxMsgs = 2
    MaxCrashes = 2
SYMMETRY Replicas
INVARIANT OneAudit
INVARIANT GateEvidence
CHECK_DEADLOCK FALSE
