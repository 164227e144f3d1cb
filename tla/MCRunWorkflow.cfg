SPECIFICATION Spec
CONSTANTS
    User = {"admin", "rev"}
    Who <- MCWho
    Approval = {"g1", "g2", "risk", "pack"}
    GateOf <- MCGateOf
    OpensIn <- MCOpensIn
    Artifact = {"redirects"}
    Target <- MCTarget
    NoArtifact = "none"
    Nobody = "nobody"
    MaxVersion = 11
INVARIANTS SignOffStands  StraightRunIsGated QaNeverBypassed
PROPERTIES VersionChecked
