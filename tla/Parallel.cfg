SPECIFICATION Spec
CONSTANTS
    t1 = t1
    t2 = t2
    r1 = r1
    r2 = r2
    Table = {t1, t2}
    Column = {"amount", "email"}
    Key = {1, 2, 3}
    Report = {r1, r2}
    ReportColumn = {"key", "total"}
    Depends <- MCDepends
    Logic <- MCLogic
    Untraced = {r2}
    History <- MCHistory
    Changing <- MCChanging
    Coming <- MCComing
    Defects <- MCDefects
    Lost <- MCLost
    CATALOGUE <- MCCatalogue
    Neutral <- MCNeutral
    Limit <- MCLimit
    MinRate = 30
    MaxLag = 2
    Overlap = 1
    Required = 2
    Nights = 7
    FixAfter = {1}
    Drifts <- MCDrifts
    Stoppable = {t1}
    MaxMishaps = 2
INVARIANTS
    OneSnapshot
    CutoverIsEarned
PROPERTIES
    CleanNightsAreRight
    GradeIsPerfect
    OnlyLogicIsUnexplained
CHECK_DEADLOCK FALSE
