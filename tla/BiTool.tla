------------------------------- MODULE BiTool -------------------------------
(***************************************************************************)
(* `platform-ops metabase provision` (src/platform_ops/simulation/         *)
(* metabase.py) and the creation of the ClickHouse users the dashboards    *)
(* are read through (access.py). Both are calls to a server, each of which *)
(* may be the last one the process makes; both are said to be              *)
(* safe to run again, with whatever project there is by then.              *)
(***************************************************************************)
EXTENDS BiCards

CONSTANTS
    Projects,       \* the dbt projects, as they change
    Teams,          \* every team any of them knows
    OldUsers,       \* what the users of an older installation may do
    Marts,          \* what the built models may hold: each maps every model to its rows
    MaxStops        \* bound: how many jobs are cut short

\* Dashboards and teams are numbers, in the order of their names; a dashboard without an
\* owner is no team's.
ASSUME ToolAssumption ==
    /\ Teams \subseteq Nat
    /\ \A p \in DOMAIN Projects :
           LET exposures == Projects[p].exposures
           IN  /\ DOMAIN exposures \subseteq Nat
               /\ \A l \in DOMAIN exposures : exposures[l].team \in Teams \cup {NoTeam}

\* A built model has the columns of its shape.
ASSUME MartsAssumption ==
    \A marts \in Marts, p \in DOMAIN Projects : \A m \in DOMAIN Projects[p].shapes :
        /\ IsFiniteSet(marts[m])
        /\ \A r \in marts[m] : "period_start" \in Names(Projects[p].shapes[m]) => r["period_start"] \in Nat

VARIABLES
    shown,      \* per team's collection: its cards, and the cards placed on its dashboards
    users,      \* the privileges of every ClickHouse user there is
    job,        \* what runs now
    stops,      \* how many jobs were cut short
    since       \* the project last provisioned whole and those tried since; the same for the users

vars == <<shown, users, job, stops, since>>

Idle == [kind |-> "idle"]

Nothing == [c \in {} |-> {}]

Init ==
    /\ shown = [t \in Teams |-> [cards |-> Nothing, boards |-> Nothing]]
    /\ users \in OldUsers
    /\ job = Idle
    /\ stops = 0
    /\ since = [whole |-> {}, tried |-> {}, granted |-> {}, granting |-> {}]

-----------------------------------------------------------------------------
\* What a job has still to do is kept in sets; what comes in no order of its own is taken
\* in any one, the teams and their dashboards by name.
OneOf(S) == CHOOSE x \in S : TRUE

Without(f, x) == [y \in DOMAIN f \ {x} |-> f[y]]

WantedCards(project, team) == UNION {DOMAIN CardsOf(project, l) : l \in Dashboards(project, team)}

Wanted(project, team) ==
    [cards  |-> [c \in WantedCards(project, team) |-> CardFor(project.shapes[c[2]])],
     boards |-> [l \in Dashboards(project, team) |-> DOMAIN CardsOf(project, l)]]

NothingLeft == [cards |-> {}, boards |-> {}]

\* Plausible bug: what another team's dashboards ask for is not archived.
LeftOverOfAll(project, team, items) ==
    [cards  |-> DOMAIN items.cards \ UNION {WantedCards(project, t) : t \in TeamsShown(project)},
     boards |-> DOMAIN items.boards \ DOMAIN project.exposures]

\* What no exposure of the team asks for any more, among the items its collection holds.
LeftOver(project, team, items) ==
    [cards  |-> DOMAIN items.cards \ WantedCards(project, team),
     boards |-> DOMAIN items.boards \ Dashboards(project, team)]

\* The job at the first of the dashboards left to make, or past the last one.
Turned(j, labels) ==
    [j EXCEPT !.labels = labels,
              !.step  = IF labels = {} THEN "archive" ELSE "card",
              !.cards = IF labels = {} THEN {} ELSE DOMAIN CardsOf(Projects[j.project], Min(labels))]

\* Plausible bug: CREATE USER IF NOT EXISTS, which leaves the grants it already had.
CreatedIfNotExists(held, user) ==
    [u \in DOMAIN held \cup {user} |-> IF u \in DOMAIN held THEN held[u] ELSE {}]

\* CREATE USER OR REPLACE: whatever it was granted before is gone.
Created(held, user) == [u \in DOMAIN held \cup {user} |-> IF u = user THEN {} ELSE held[u]]

-----------------------------------------------------------------------------
\* A project that is not provisionable is refused before the first call.
StartProvision(p) ==
    /\ job = Idle /\ Provisionable(Projects[p])
    /\ job' = [kind |-> "provision", project |-> p, teams |-> TeamsShown(Projects[p]), team |-> NoTeam,
               labels |-> {}, cards |-> {}, step |-> "archive", old |-> NothingLeft]
    /\ since' = [since EXCEPT !.tried = @ \cup {p}]
    /\ UNCHANGED <<shown, users, stops>>

\* The last team is done with, or none was begun.
TeamDone == job.kind = "provision" /\ job.step = "archive" /\ job.old = NothingLeft

\* The next team's items are read, and so is what of them is to be archived.
TurnTo ==
    /\ TeamDone /\ job.teams # {}
    /\ LET team    == Min(job.teams)
           project == Projects[job.project]
       IN  job' = Turned([job EXCEPT !.team = team, !.teams = @ \ {team},
                                     !.old = LeftOver(project, team, shown[team])],
                         Dashboards(project, team))
    /\ UNCHANGED <<shown, users, stops, since>>

\* A card of the dashboard is replaced, or made.
PutCard ==
    /\ job.kind = "provision" /\ job.step = "card" /\ job.cards # {}
    /\ LET card == OneOf(job.cards)
           made == CardsOf(Projects[job.project], Min(job.labels))[card]
       IN  /\ shown' = [shown EXCEPT ![job.team].cards =
                            [c \in DOMAIN @ \cup {card} |-> IF c = card THEN made ELSE @[c]]]
           /\ job' = [job EXCEPT !.cards = @ \ {card}]
    /\ UNCHANGED <<users, stops, since>>

\* The dashboard keeps the cards it has, or is made without any.
PutBoard ==
    /\ job.kind = "provision" /\ job.step = "card" /\ job.cards = {}
    /\ LET label == Min(job.labels)
       IN  shown' = [shown EXCEPT ![job.team].boards =
                         [l \in DOMAIN @ \cup {label} |-> IF l \in DOMAIN @ THEN @[l] ELSE {}]]
    /\ job' = [job EXCEPT !.step = "place"]
    /\ UNCHANGED <<users, stops, since>>

Place ==
    /\ job.kind = "provision" /\ job.step = "place"
    /\ LET label == Min(job.labels)
       IN  /\ shown' = [shown EXCEPT ![job.team].boards[label] =
                            DOMAIN CardsOf(Projects[job.project], label)]
           /\ job' = Turned(job, job.labels \ {label})
    /\ UNCHANGED <<users, stops, since>>

\* A card that is archived leaves the dashboards it was on.
ArchiveCard ==
    /\ job.kind = "provision" /\ job.step = "archive" /\ job.old.cards # {}
    /\ LET card == OneOf(job.old.cards)
       IN  /\ shown' = [shown EXCEPT ![job.team] =
                  [cards  |-> Without(@.cards, card),
                   boards |-> [l \in DOMAIN @.boards |-> @.boards[l] \ {card}]]]
           /\ job' = [job EXCEPT !.old.cards = @ \ {card}]
    /\ UNCHANGED <<users, stops, since>>

ArchiveBoard ==
    /\ job.kind = "provision" /\ job.step = "archive" /\ job.old.cards = {} /\ job.old.boards # {}
    /\ LET board == OneOf(job.old.boards)
       IN  /\ shown' = [shown EXCEPT ![job.team].boards = Without(@, board)]
           /\ job' = [job EXCEPT !.old.boards = @ \ {board}]
    /\ UNCHANGED <<users, stops, since>>

EndProvision ==
    /\ TeamDone /\ job.teams = {}
    /\ job' = Idle
    /\ since' = [since EXCEPT !.whole = {job.project}, !.tried = {}]
    /\ UNCHANGED <<shown, users, stops>>

StartUsers(teams) ==
    /\ job = Idle
    /\ job' = [kind |-> "users", teams |-> teams, left |-> CompanyUsers(teams), user |-> Metabase,
               grants |-> {}]
    /\ since' = [since EXCEPT !.granting = @ \cup {teams}]
    /\ UNCHANGED <<shown, users, stops>>

CreateUser ==
    /\ job.kind = "users" /\ job.grants = {} /\ job.left # {}
    /\ LET user == OneOf(job.left)
       IN  /\ users' = Created(users, user)
           /\ job' = [job EXCEPT !.left = @ \ {user}, !.user = user, !.grants = Grants(user)]
    /\ UNCHANGED <<shown, stops, since>>

Grant ==
    /\ job.kind = "users" /\ job.grants # {}
    /\ LET privilege == OneOf(job.grants)
       IN  /\ users' = [users EXCEPT ![job.user] = @ \cup {privilege}]
           /\ job' = [job EXCEPT !.grants = @ \ {privilege}]
    /\ UNCHANGED <<shown, stops, since>>

EndUsers ==
    /\ job.kind = "users" /\ job.grants = {} /\ job.left = {}
    /\ job' = Idle
    /\ since' = [since EXCEPT !.granted = {job.teams}, !.granting = {}]
    /\ UNCHANGED <<shown, users, stops>>

\* Any call may fail, and the process may be stopped between two.
Stop ==
    /\ job # Idle /\ stops < MaxStops
    /\ job' = Idle
    /\ stops' = stops + 1
    /\ UNCHANGED <<shown, users, since>>

ProvisionNext ==
    \/ \E p \in DOMAIN Projects : StartProvision(p)
    \/ TurnTo \/ PutCard \/ PutBoard \/ Place \/ ArchiveCard \/ ArchiveBoard \/ EndProvision

UsersNext ==
    \/ \E p \in DOMAIN Projects : StartUsers(Projects[p].teams)
    \/ CreateUser \/ Grant \/ EndUsers

Next == ProvisionNext \/ UsersNext \/ Stop

Spec == Init /\ [][Next]_vars

-----------------------------------------------------------------------------
MayRead(user, database) ==
    user \in DOMAIN users /\ <<"select", database>> \in users[user]

\* What metabase check finds wrong with the dashboards of a project, and what the marts hold
\* by then: it runs every card of the exposure that is on the dashboard.
Failures(project, marts) ==
    LET of(l) ==
            LET items    == shown[project.exposures[l].team]
                expected == CardsOf(project, l)
                placed   == items.boards[l] \cap DOMAIN expected
                answered == IF MayRead(Metabase, "marts") THEN placed ELSE {}
                full(c)  == /\ expected[c].display # "table"
                            /\ RowCount(items.cards[c], marts[c[2]]) >= ChartRows
            IN  IF l \notin DOMAIN items.boards THEN {<<l, "no such dashboard">>}
                ELSE {<<l, "cards differ from the exposure">> :
                          x \in IF items.boards[l] = DOMAIN expected THEN {} ELSE {l}}
                     \cup {<<c, "query failed">> : c \in placed \ answered}
                     \cup {<<c, "cut off">> : c \in {x \in answered : full(x)}}
    IN  UNION {of(l) : l \in DOMAIN project.exposures}

\* The charts Metabase may not draw whole.
CutOff(project, marts) ==
    UNION {LET cards == CardsOf(project, l)
           IN  {c \in DOMAIN cards : /\ cards[c].display # "table"
                                     /\ RowCount(cards[c], marts[c[2]]) >= ChartRows} :
           l \in DOMAIN project.exposures}

\* A daily rollup without a hint whose series, ever, fit Metabase's limit for RecentDays days.
FewSeries(shape, rows) ==
    LET others == ToSet(CardFor(shape).keys) \ {"period_start"}
        series == {[k \in others |-> r[k]] : r \in rows}
    IN  shape.daily /\ shape.hint = NoHint /\ RecentDays * Cardinality(series) < ChartRows

\* However many runs were cut short before it, by which projects, a provision that ends
\* leaves in every collection it turns to exactly the project's cards and dashboards, and,
\* once the users were created whole, all a check finds wrong, whatever the marts hold by
\* then, are the charts that reach Metabase's limit of rows, every one of them, and never
\* the chart of a daily rollup with few series, however long its history. Until then a
\* dashboard that both the last whole provision and every project tried since want is never
\* gone or half changed: it shows the cards one of them gives it.
BiShowsTheProject ==
    /\ since.tried = {} => \A p \in since.whole :
           LET project == Projects[p]
           IN  /\ \A t \in TeamsShown(project) : shown[t] = Wanted(project, t)
               /\ since.granted # {} /\ since.granting = {} => \A marts \in Marts :
                      /\ Failures(project, marts) = {<<c, "cut off">> : c \in CutOff(project, marts)}
                      /\ \A c \in CutOff(project, marts) : ~FewSeries(project.shapes[c[2]], marts[c[2]])
    /\ \A p \in since.whole : \A l \in DOMAIN Projects[p].exposures :
           LET tried == since.whole \cup since.tried
               team  == Projects[p].exposures[l].team
               board == shown[team].boards[l]
           IN  (\A q \in tried : l \in DOMAIN Projects[q].exposures /\ Projects[q].exposures[l].team = team)
                   => /\ l \in DOMAIN shown[team].boards
                      /\ \E q \in tried : board = DOMAIN CardsOf(Projects[q], l)
                      /\ board \subseteq DOMAIN shown[team].cards

\* From the first time ensure_users ended, whatever older installation it replaced and
\* however later calls of it are cut short, no user of those teams holds more than its
\* role's privileges, and outside such a call none holds less; so nobody but dbt writes
\* what dbt builds and nobody but the loader writes raw.
RolesDecideAccess ==
    \A teams \in since.granted : \A u \in CompanyUsers(teams) :
        /\ u \in DOMAIN users
        /\ users[u] \subseteq Grants(u)
        /\ since.granting = {} => users[u] = Grants(u)
        /\ u # Dbt => {x \in users[u] : x[1] \in {"all", "insert"} /\ x[2] \in DbtLayers} = {}
=============================================================================
