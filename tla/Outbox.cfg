SPECIFICATION FairSpec
CONSTANTS
    Call = {"c1", "c2", "c3"}
    NoCall = "nobody"
    Artifact = {"night", "rerun"}
    ArtifactOf <- MCArtifactOf
    Message = {"page", "resolved"}
    Queues <- MCQueues
    Channel = {"slack", "telegram"}
    Homeless = {"resolved"}
    Addressed <- MCAddressed
    MaxBreaks = 2
CHECK_DEADLOCK FALSE
INVARIANTS
    EverySendIsAccountedFor
PROPERTIES
    ImplementsDispatch
    NextPassDrains
