SPECIFICATION Spec
CONSTANTS
    Node <- MCNode
    Edge <- MCEdge
    Rank <- MCRank
    Test <- MCTest
    Source <- MCSource
    Subject <- MCSubject
    Dataset <- MCDataset
    TestsOf <- MCTestsOf
    Fault <- MCFault
    TableOf <- MCTableOf
    TypeOf <- MCTypeOf
    ColumnOf <- MCColumnOf
    Sees <- MCSees
    VolumeOf <- MCVolumeOf
    ProfileOf <- MCProfileOf
    ErrorAfter <- MCErrorAfter
    UsualDays = 3
    FaultOrder <- MCFaultOrder
    Schedules <- MCSchedules
    Days = 6
    Slots = 4
    FaultSlot = 2
    Delays = {1, 2, 6}
    Person = {"alex", "bea"}
    Owner <- MCOwner
    Backup <- MCBackup
    NoBackup = "none"
    MaxOpenPerPerson = 2
    Scored <- MCScored
CHECK_DEADLOCK FALSE
INVARIANTS
    NoFaultIsForgotten
    EveryIncidentHasAFault
    EveryRunIsIngestedWhole
PROPERTIES
    FixEndsItsIncident
