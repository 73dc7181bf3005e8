------------------------------- MODULE BiCards -------------------------------
(***************************************************************************)
(* The company's dashboards, generated from the dbt exposures              *)
(* (src/platform_ops/simulation/bi.py), and who may read what they show    *)
(* (src/platform_ops/simulation/access.py).                                *)
(*                                                                         *)
(* A project is [exposures, shapes, teams]: of every exposure's label the  *)
(* team that owns it and the models it reads, of every built model its     *)
(* columns in order, its sorting key and its dashboard hint, and the teams *)
(* of teams.yaml. Labels, teams and users are numbers, in the order of     *)
(* their names.                                                            *)
(***************************************************************************)
EXTENDS Integers, SequencesExt, FiniteSetsExt, TLC

CONSTANTS
    NoHint, NoTeam,     \* a model with no hint in its meta; the team of an exposure without a rule
    PlatformTeam,
    Metabase, Dbt, Loader,      \* the service users
    RecentDays,                 \* RECENT_DAYS: how far back a daily rollup's chart goes
    ChartRows, TableRows        \* CHART_ROWS and TABLE_ROWS: what Metabase draws, what a table asks for

ASSUME ServiceUsersAssumption == Metabase # Dbt /\ Metabase # Loader /\ Dbt # Loader

ASSUME RowLimitsAssumption == {RecentDays, ChartRows, TableRows} \subseteq Nat \ {0}

\* A column is [name, kind], its kind "time", "number" or "other".
Names(shape) == {shape.columns[i].name : i \in DOMAIN shape.columns}

HintedColumns(hint) == {hint.x} \cup ToSet(hint.y) \cup ToSet(hint.breakout)

StaleHint(shape) == shape.hint # NoHint /\ ~(HintedColumns(shape.hint) \subseteq Names(shape))

FirstWhere(columns, Is(_)) ==
    LET found == SelectSeq(columns, Is) IN IF found = <<>> THEN <<>> ELSE <<found[1].name>>

\* A card is [display, keys, metrics, recent]: the columns it groups by, those it sums, and
\* whether it is cut to the last days. breakout is the empty sequence or one column.
CardFor(shape) ==
    LET rest      == SelectSeq(shape.columns, LAMBDA c : c.name # "period_start")
        dimension == FirstWhere(rest, LAMBDA c : c.kind # "number")
        measure   == FirstWhere(rest, LAMBDA c : c.kind = "number")
    IN  IF shape.hint # NoHint
        THEN [display |-> shape.hint.display, keys |-> <<shape.hint.x>> \o shape.hint.breakout,
              metrics |-> shape.hint.y, recent |-> FALSE]
        ELSE IF "period_start" \in Names(shape) /\ measure # <<>>
        THEN [display |-> "line", keys |-> <<"period_start">> \o dimension,
              metrics |-> measure, recent |-> shape.daily]
        ELSE [display |-> "table", keys |-> shape.key, metrics |-> <<>>, recent |-> FALSE]

\* The rows a card reads of its model's rows: a cut one those of the last RecentDays days up
\* to the latest there is. A row maps its columns to values, a day is a number.
RowsRead(card, rows) ==
    IF card.recent
    THEN {r \in rows : \A s \in rows : r["period_start"] > s["period_start"] - RecentDays}
    ELSE rows

\* What a chart draws: a point for each value of its keys.
Points(card, rows) == {[k \in ToSet(card.keys) |-> r[k]] : r \in RowsRead(card, rows)}

\* How many rows the card's query returns.
RowCount(card, rows) ==
    IF card.metrics = <<>> THEN Min({TableRows, Cardinality(rows)})
    ELSE Cardinality(Points(card, rows))

ExposedModels(project) ==
    UNION {project.exposures[l].models : l \in DOMAIN project.exposures}

\* wanted_dashboards returns: every exposed model is built, no hint names a column that
\* is gone, and every exposure has an owning team.
Provisionable(project) ==
    /\ ExposedModels(project) \subseteq DOMAIN project.shapes
    /\ \A m \in ExposedModels(project) : ~StaleHint(project.shapes[m])
    /\ \A l \in DOMAIN project.exposures : project.exposures[l].team # NoTeam

\* A card's name is its dashboard's and its model's.
CardsOf(project, label) ==
    LET exposure == project.exposures[label]
    IN  [name \in {label} \X exposure.models |-> CardFor(project.shapes[name[2]])]

\* The dashboards of a team.
Dashboards(project, team) ==
    {l \in DOMAIN project.exposures : project.exposures[l].team = team}

TeamsShown(project) == {project.exposures[l].team : l \in DOMAIN project.exposures}

-----------------------------------------------------------------------------
\* access.py

DbtLayers == {"reference", "staging", "intermediate", "marts", "snapshots"}

\* The users of a company: a team is its number.
CompanyUsers(teams) == teams \cup {Metabase, Dbt, Loader}

Role(user) ==
    CASE user = Metabase -> "bi"
      [] user = Dbt -> "transform"
      [] user = Loader -> "load"
      [] OTHER -> IF user = PlatformTeam THEN "platform" ELSE "team"

Grants(user) ==
    LET role == Role(user)
        select(databases) == {"select"} \X databases
    IN  CASE role = "team" -> select({"marts", "reference"})
          [] role = "bi" -> select({"marts", "reference", "system.processes"})
                                \cup {<<"own rows only", "system.processes">>}
          [] role = "platform" -> select({"raw"} \cup DbtLayers)
          [] role = "transform" -> select({"raw", "system.parts"}) \cup ({"all"} \X DbtLayers)
          [] role = "load" -> {<<"insert", "raw">>, <<"read", "postgres">>, <<"create", "temporary table">>}
=============================================================================
