------------------------------ MODULE QueryWork ------------------------------
(***************************************************************************)
(* The work a company's window leaves for the cost report: what every day  *)
(* sends to ClickHouse (src/platform_ops/simulation/workload.py, and the   *)
(* nightly build and merge of company.py), what the log says of it         *)
(* (cost/collect.py), what the SQL of a statement read and filtered        *)
(* (cost/sql_parse.py), and what was stored (cost/storage.py).             *)
(*                                                                         *)
(* Day 0 is a Monday; times are minutes of the day. Statements are numbers *)
(* and what is known of one is Statements[s]: the rows and bytes the       *)
(* server measures, the tables it reports, its kind and its scopes. Of what*)
(* the log holds only the statements that are kept are sent (see Kept).    *)
(***************************************************************************)
EXTENDS CostBill

CONSTANTS
    Hash(_, _, _),  \* hashing.stable_hash, of the seed, what is drawn and for whom
    Boards,         \* bi.dashboards: [exposure, team, maturity, cards]
    Statements,     \* [rows, bytes, tables, kind, scopes]
    Analysts,       \* settings.workload.adhoc_users
    Templates,      \* ADHOC_TEMPLATES: what each team types
    RefreshEvery,   \* settings.workload.dashboard_refresh_hours
    OwnPercent, OtherPercent,                       \* ... .dashboard_views
    AdhocMaximum,   \* ... .adhoc_max_queries_per_day
    RawTable,       \* the tables merged every night
    Catalogue       \* rows, bytes, sort key and engine of every table

DayMinutes == 24 * 60
OfficeMinutes == 9 * 60     \* office hours open at nine and last nine hours

People == SetToSeq(DOMAIN TeamOf)
IndexOf(x, s) == IF x \in ToSet(s) THEN CHOOSE i \in DOMAIN s : s[i] = x ELSE 0

-----------------------------------------------------------------------------
\* workload.py

Every(board) ==
    CASE board.maturity \in DOMAIN RefreshEvery -> RefreshEvery[board.maturity]
      [] "low" \in DOMAIN RefreshEvery          -> RefreshEvery["low"]
      [] OTHER                                  -> 24

\* refresh_hours: after the 02:00 run, staggered by board.
RefreshHours(seed, board) ==
    LET every == Every(board)
        first == 3 + (Hash(seed, "refresh", <<board.exposure>>) % Min({every, 21}))
    IN  {h \in first..23 : (h - first) % every = 0}

\* The n-th statement somebody sends at a minute of a day.
Sent(actor, node, person, day, at, sql, n) ==
    [actor |-> actor, node |-> node, person |-> person, day |-> day, at |-> at, sql |-> sql, n |-> n]

Refreshes(seed, day) ==
    UNION {{Sent("dashboard", b.exposure, "", day, 60 * h, c, 0) :
               h \in RefreshHours(seed, b), c \in b.cards} : b \in Boards}

\* What a person types in a day.
Adhoc(seed, day) ==
    UNION {LET who == IndexOf(p, People)
               typed == Templates[TeamOf[p]]
               pick(k) == Hash(seed, "adhoc_pick", <<who, day, k>>)
           IN  {Sent("adhoc", NoNode, p, day, OfficeMinutes + (pick(k) % OfficeMinutes),
                     typed[1 + (pick(k) % Len(typed))], k) :
                   k \in 1..(Hash(seed, "adhoc_count", <<who, day>>) % (AdhocMaximum + 1))} :
           p \in Analysts \cap DOMAIN TeamOf}

\* views: on working days, at most one of a board by a person, more of one's own team's.
Views(seed, day) ==
    LET percent(b, p) == IF TeamOf[p] = b.team THEN OwnPercent ELSE OtherPercent
        popularity(b) == Hash(seed, "popularity", <<b.exposure>>) % 4
        draw(b, p) == Hash(seed, "view", <<b.exposure, IndexOf(p, People), day>>)
    IN  {[n |-> 0, day |-> day, node |-> v[1].exposure, person |-> v[2]] :
            v \in {<<b, p>> \in Boards \X DOMAIN TeamOf :
                       /\ (day % 7) < 5
                       /\ (draw(b, p) % 200) < percent(b, p) * popularity(b)}}

\* The night before: the build writes every model, and every raw table is merged.
Nightly(day) ==
    {Sent("dbt", m, "", day, 120, m, 0) : m \in Model}
        \cup {Sent("maintenance", t, "", day, 120, t, 0) : t \in RawTable}

-----------------------------------------------------------------------------
\* collect.py: a record, as the server measured it.
Collected(e) ==
    LET s == Statements[e.sql]
    IN  [actor |-> e.actor, node |-> e.node, person |-> e.person, day |-> e.day, sql |-> e.sql,
         at |-> (e.day * DayMinutes + e.at) * 60 * SecondTicks,
         bytes |-> s.bytes, rows |-> s.rows, tables |-> s.tables, kind |-> s.kind]

\* The sort key of a record: its time, kind of work, and the rest as a number.
Actors == <<"adhoc", "dashboard", "dbt", "maintenance">>
Entry(e) ==
    [at |-> e.day * DayMinutes + e.at, actor |-> IndexOf(e.actor, Actors),
     what |-> ((e.node * 10 + IndexOf(e.person, People)) * 100 + e.sql) * 10 + e.n]

-----------------------------------------------------------------------------
\* sql_parse.py. A scope of a statement, one SELECT, has sources by alias, each a table or
\* what another scope yields (NoNode), and the columns <<alias, name>> in its WHERE.

TablesIn(scopes) == UNION {Range(s.sources) : s \in scopes} \ {NoNode}

\* parse_query: the columns a statement filters of each table, where it reads the table.
FiltersOf(stmt) ==
    [t \in TablesIn(stmt.scopes) |->
        UNION {{c[2] : c \in {d \in s.where : s.sources[d[1]] = t}} : s \in stmt.scopes}]

\* QueryLog.add: of a consumer's statement the filters are kept, the text is not.
Filters(queries) ==
    UNION {LET filters == FiltersOf(Statements[queries[q].sql])
           IN  {<<q, t, filters[t]>> : t \in {u \in DOMAIN filters : filters[u] # {}}} :
           q \in {p \in DOMAIN queries : queries[p].actor \in Consumers}}

-----------------------------------------------------------------------------
\* storage.py: a snapshot of every table at each month's end and on the last day.
SnapshotDays(start, days) ==
    {d \in start..(start + days - 1) : Month(d + 1) # Month(d) \/ d = start + days - 1}

Stored(start, days) ==
    [m \in {Month(d) : d \in SnapshotDays(start, days)} |-> [t \in DOMAIN Catalogue |-> Catalogue[t].bytes]]

\* gather: what the report finds of a window [seed, start, days, compute, storage, cutover], its
\* queries numbered in the order of their ids.
BillOf(w) ==
    LET window == w.start..(w.start + w.days - 1)
        sent == UNION {Nightly(d) \cup Refreshes(w.seed, d) \cup Adhoc(w.seed, d) : d \in window}
        log == InOrder(sent, LAMBDA e, f : Precedes(Entry(e), Entry(f)))
    IN  [queries |-> [i \in DOMAIN log |-> Collected(log[i])],
         views |-> UNION {Views(w.seed, d) : d \in window},
         compute |-> w.compute, storage |-> w.storage, stored |-> Stored(w.start, w.days),
         start |-> w.start, days |-> w.days, cutover |-> w.cutover]
=============================================================================
