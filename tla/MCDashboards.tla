---------------------------- MODULE MCDashboards ----------------------------
(***************************************************************************)
(* Three projects of a few dashboards: the second exchanges a card, drops  *)
(* the second team's dashboard and adds one; the third moves dashboards    *)
(* between the teams and changes a hint; the fourth is refused, for a hint *)
(* on a column that is gone. And the processes of a store: two runs of the *)
(* cost report, an ingest, a new history and the role.                     *)
(***************************************************************************)
EXTENDS BiTool, OpsStore

VARIABLE part       \* which of the two moves

DashboardsInit ==
    /\ Init /\ StoreInit
    /\ part \in {"tool", "store"}
    /\ part = "tool" => exists = {}

ToolStep == part = "tool" /\ Next /\ UNCHANGED <<storeVars, part>>

StoreStep == part = "store" /\ StoreNext /\ UNCHANGED <<vars, part>>

DashboardsSpec == DashboardsInit /\ [][ToolStep \/ StoreStep]_<<vars, storeVars, part>>

-----------------------------------------------------------------------------

Col(name, kind) == [name |-> name, kind |-> kind]
Rollup == [columns |-> <<Col("period_start", "time"), Col("channel", "other"), Col("orders", "number")>>,
           key |-> <<"period_start">>, hint |-> NoHint, daily |-> TRUE]
Facts == [columns |-> <<Col("day", "time"), Col("revenue", "number")>>, key |-> <<"day">>,
          hint |-> NoHint, daily |-> FALSE]
Hint(x) == [display |-> "bar", x |-> x, y |-> <<"revenue">>, breakout |-> <<>>]
Orders == [columns |-> <<Col("id", "number"), Col("channel", "other")>>, key |-> <<"id">>,
           hint |-> NoHint, daily |-> FALSE]
Shapes(hint) == [rollup |-> Rollup, facts |-> [Facts EXCEPT !.hint = hint], orders |-> Orders]
Board(team, models) == [team |-> team, models |-> models]

MCProjects ==
    <<[exposures |-> (1 :> Board(1, {"rollup", "facts"}) @@ 2 :> Board(2, {"facts"})),
       shapes |-> Shapes(NoHint), teams |-> {1, 2}],
      [exposures |-> (1 :> Board(1, {"facts", "orders"}) @@ 3 :> Board(1, {"rollup"})),
       shapes |-> Shapes(NoHint), teams |-> {1, 2}],
      [exposures |-> (1 :> Board(1, {"rollup", "facts"}) @@ 2 :> Board(1, {"facts"}) @@ 3 :> Board(2, {"rollup"})),
       shapes |-> Shapes(Hint("day")), teams |-> {1, 2}],
      [exposures |-> (1 :> Board(1, {"facts"})), shapes |-> Shapes(Hint("month")), teams |-> {1, 2}]>>

\* What the marts hold: an empty build; a rollup of more days than its chart goes back, with
\* as many series as fit, and facts just below the limit; one more of each.
RollupRows(days, channels) ==
    {("period_start" :> d @@ "channel" :> c @@ "orders" :> 1) : d \in days, c \in channels}
FactRows(days) == {("day" :> d @@ "revenue" :> 1) : d \in days}
Built(days, channels, facts) ==
    [rollup |-> RollupRows(days, channels), facts |-> FactRows(1..facts),
     orders |-> {("id" :> i @@ "channel" :> "web") : i \in 1..6}]
MCMarts == {Built({}, {}, 0), Built(1..4, {"web", "shop"}, 4),
            Built({1, 3, 4}, {"web", "shop", "app"}, 5)}

MCOldUsers == {(1 :> {<<"select", "marts">>, <<"insert", "marts">>} @@ Metabase :> {<<"select", "raw">>})}

\* Two migrations, as released; the cost report replaces two tables together.
MCJobOf == [cost |-> "report", again |-> "report", ingest |-> "ingest", reset |-> "reset", role |-> "role"]
MCTablesOf == [p \in {"cost", "again"} |-> <<"query_costs", "query_attribution">>]
MCMaxCalls == [p \in DOMAIN MCJobOf |-> IF p = "cost" THEN 2 ELSE 1]
MCMigration == <<{"incidents"}, {"incident_escalations"}>>
=============================================================================
