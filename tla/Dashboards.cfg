SPECIFICATION DashboardsSpec
CONSTANTS
    NoHint = NoHint
    NoTeam = 0
    PlatformTeam = 2
    Metabase = 11
    Dbt = 12
    Loader = 13
    Projects <- MCProjects
    Teams = {1, 2}
    OldUsers <- MCOldUsers
    Marts <- MCMarts
    RecentDays = 2
    ChartRows = 5
    TableRows = 5
    MaxStops = 2
    Proc = {"cost", "again", "ingest", "reset", "role"}
    NoProc = "none"
    JobOf <- MCJobOf
    TablesOf <- MCTablesOf
    Migration <- MCMigration
    Released = 1
    MaxCalls <- MCMaxCalls
CHECK_DEADLOCK FALSE
INVARIANTS
    BiShowsTheProject
    RolesDecideAccess
    DashboardsReadTheStore
