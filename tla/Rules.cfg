SPECIFICATION Spec
CONSTANTS
    Letter <- MCLetter
    Under = "_"
    Fine = 10
    Lower <- MCLower
    Zones <- MCZones
    Inexact <- MCInexact
    Tolerance = 10
    Registries <- MCRegistries
    Projects <- MCProjects
    Values <- MCValues
    Policies <- MCPolicies
    Cells <- MCCells
    Counts <- MCCounts
    Span = 120
    DayTicks = 12
    HourTicks = 1
    Draws = 3
    OrderLag = 3
    SessionLag = 6
    PaymentLag = 8
    CampaignDays = 3
    Companies <- MCCompanies
    WindowStart = 84
    WindowDays = 3
    Late = 3
    MonthDays = 4
    SecondTicks = 2
    Platform = 1
    OwnerOf <- MCOwnerOf
    TeamOf <- MCTeamOf
    Attached <- MCAttached
    Model = {21, 22, 23}
    TableAbove <- MCTableAbove
    Overhead = 1
    Throughput = 1
    IdleTicks = 3
    MinimumSeconds = 3
    QuantaPerSecond = 5
    MinimumBytes = 2
    QuantaPerByte = 3
    Warehouse <- MCWarehouse
    Logs <- MCLogs
    Bills <- MCBills
    Cutovers <- MCCutovers
    Workloads <- MCWorkloads
    DayLoads <- MCDayLoads
    Windows <- MCWindows
    Hash <- MCHash
    Boards <- MCBoards
    Statements <- MCStatements
    Analysts = {"lena", "sam"}
    Templates <- MCTemplates
    RefreshEvery <- MCRefreshEvery
    OwnPercent = 60
    OtherPercent = 20
    AdhocMaximum = 3
    RawTable = {11, 12}
    Catalogue <- MCCatalogue
    MinTableBytes = 20
    MinReads = 2
    TopN = 2
    InFull = {21, 22, 23}
    ChangedInPlace = {11}
    PipelineTeam = {1}
    LegacyStated <- MCLegacyStated
    Lookbacks = {1, 2}
    MonthlyQuanta = 5
    Node <- MCNode
    Edge <- MCEdge
    Rank <- MCRank
    TypeOf <- MCTypeOf
    AttachedTo <- MCAttachedTo
    Staging <- MCStaging
    DefaultTier = "best_effort"
    RawColumns <- MCRawColumns
    Pages <- MCPages
    Impacts <- MCImpacts
    Queries <- MCQueries
    ModelOrder <- MCModelOrder
    Shown = "p"
    Contents <- MCContents
    Nights <- MCNights
    Cases <- MCCases
CHECK_DEADLOCK FALSE
INVARIANTS
    CheckedMeansOwned
    StarterRulesMatchOnce
    RowsAreToldApart
    LabelNamesTheMechanism
    SplitArrivalsLandTheSame
    ParentsComeFirst
    IdsDoNotMoveWithTheLog
    BillAddsUp
    PricesCoverTheWork
    SuggestionsBreakNobody
    RouteMovesOnlyToTheModel
    UpstreamReachesMore
    LineageIsEnough
    PairsAreComparedOrFail
