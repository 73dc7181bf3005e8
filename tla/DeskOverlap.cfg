SPECIFICATION Spec
CONSTANTS
    Node <- MCNode
    Edge <- MCEdge
    Rank <- MCRank
    Test <- MCTest
    Source = {"feed"}
    Subject <- MCSubject
    Dataset <- MCDataset
    TestsOf <- MCTestsOf
    Run = {1, 2, 3}
    NoRun = 0
    Invocation <- OverlapInvocation
    Target <- OverlapTarget
    Predecessors <- AnyOrder
    At <- OverlapAt
    Outcomes <- OverlapOutcomes
    Person = {"dana", "alex", "kim"}
    Owner <- MCOwner
    Backup <- MCBackup
    NoBackup = "none"
    MaxOpenPerPerson = 1
    Scored <- MCScored
    AfterHours <- MCAfterHours
    OpenWindows <- CloseAtNight2
CHECK_DEADLOCK FALSE
INVARIANTS
    EveryFailureIsAnnounced
    MergesEndLive
    ResolvedIsHealthy
PROPERTIES
    OnlyTheResolverReopens
