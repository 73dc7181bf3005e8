# A verification project for data-platform-ops

TLA+ modules of the control logic of `src/platform_ops`, TLC configurations that
model-check them on small instances, and TLAPS proofs about them for every
instance. Paths below are under `src/src/platform_ops/` unless they say otherwise.

## 1. The system

The toolkit follows a simulated company that moves from a legacy Postgres to
ClickHouse and dbt, and then runs in production. What its parts keep and do:

| Component | State | Operations | Interacts with |
|---|---|---|---|
| Incident desk (`incidents/desk.py`, `ingest.py`) | ten tables of the ops store: invocations, results, check events, incidents, run links, shared nodes, escalations, notifications, responses, schema version | `ingest_target`: record, regroup, open, append, merge, resolve, reopen, raise, queue; `_deliver` | called by the orchestrators' hooks and by the company; reads the lineage graph and the registry |
| Lineage and grouping (`metadata/lineage.py`, `incidents/grouping.py`) | none (pure) | nearest failed ancestor, roots, shared failures, consumers | the desk, severity, the bill |
| Severity and routing (`incidents/severity.py`, `routing.py`) | none (pure) | score, severity, calendar windows, route by failing columns | the desk, column lineage, the registry |
| History and metrics (`incidents/history.py`, `metrics.py`) | stored metric rows, `fault_incidents` | read the store back, grade it against the faults | the desk's tables, dashboards |
| Ops database and incident store (`common/store.py`, `incidents/store.py`) | database, schema, tables, grants, schema version, one advisory lock | create, replace a report's tables, migrate, `reset`, let the dashboards' role in | everything that stores results |
| Notification outbox (`_deliver`, `incidents/notify.py`) | `incident_notifications.delivered` | select the undelivered, send on every channel, record | Slack, Telegram |
| Hooks (`integrations/`) and orchestrators (`src/orchestrators/`) | none | run one ingest per dbt task with a timeout, log a failure | Airflow with Cosmos, Dagster |
| Watermark ingestion (`simulation/ingest.py`, `legacy_db.py`) | raw tables, `ingestion_loads` | `load`, `backfill`, `resync`, `recreate` | reads Postgres while the application writes |
| Simulated rows (`simulation/raw_data.py`, `legacy_db.py`) | the operational Postgres | the rows of a window of time, parents first | ingestion, parallel run |
| Company day loop (`simulation/company.py`, `faults.py`, `incidents/production.py`, `lifecycle.py`) | active faults, pending fixes, the last load | arrive, plant, fix, resync, freeze, load, build, ingest | all of the above |
| Reconciliation (`reconcile/`, `simulation/migration.py`) | frozen reports, `reconcile_*` tables, the nights so far | line up the pairs, freeze, segmented diff, classify, verdict, explain, grade, decide the cutover, render the sign-off | Postgres, ClickHouse |
| Registry (`metadata/registry.py`, `check.py`, `bootstrap.py`) | none (files) | resolve an owner, check ownership, write a starter registry | routing, cost, BI |
| Column lineage (`metadata/column_lineage.py`) | none (pure) | the raw columns a column depends on | routing, explanations |
| Workload (`simulation/workload.py`) | ClickHouse's query log | refreshes, views, ad hoc queries, nightly merge | cost |
| Cost (`cost/`) | the `cost_*` tables | collect, price, share a pool, split a query, recommend | ClickHouse's query log, the ops store |
| BI and access (`simulation/bi.py`, `metabase.py`, `access.py`) | Metabase's collections, ClickHouse's users | provision, check, `ensure_users` | dbt exposures |
| Dashboards (`dashboard/`, `src/dashboards/`) | none | read the ops store | the ops store |
| Command line, printed reports, code generation, settings | files | presentation, configuration | everything |

`PROJECT.json` lists every component, the ones that are not modelled with the
reason.

**Hard behaviours.** The desk is called once per dbt task, so the pieces of a run
arrive in any order, pieces of different runs may alternate, a piece may carry a
result file left over by an earlier one, and a call may be killed by the hook's
timeout, or made again. One ingest decides about incidents opened by earlier
pieces of the same run and by other runs, from evidence that may be older than
they are. Its messages are sent by a second transaction, possibly of another
process. The ingestion reads tables while transactions that stamped their rows
earlier are still open, and may die between any two tables. A diff reads a
database that keeps moving, and the reports it compares must be of one moment. Over the
company's weeks a fault can mask another, a feed can stop without being stale yet, and a
fix can land after the night that would have shown it. Provisioning and the creation of users are
lists of calls of which any may be the last, made again later for another project. Reports
replace their tables while pages read them and a role is let in. The rules that bill, label,
own and trace are pure, and their hazards are in the inputs: ties, overlaps, rounding
remainders, windows cut at a boundary. The hazards, each at its line, are in `PROJECT.json`.

**What makes each part correct.**

- Desk: the incidents of a run do not depend on how it was split or ordered; no
  failure is without an incident; resolutions come from later evidence of another
  run, hold only while everything that run said supports them, and only that run
  takes them back; merging never strands a failure; severities move one level per
  recorded raise, never twice for one overdue period; everyone concerned is told;
  the record read back from the store tells the nights apart rightly.
- Outbox: nothing is sent that is not stored, nothing is recorded as sent that was
  not, nothing is sent twice unless something broke, and everything queued is sent
  by the next call that gets through.
- Store: whole reports, a schema at the version it says, pages that can read.
- Ingestion: no committed row is ever behind the watermark and missing from raw;
  raw never goes back; every row arrives.
- Company: every fault gets repaired, every incident has a cause and ends with its fix, and no run is refused.
- Diff and cutover: no false alarm from rows in flight, no difference missed, no
  cutover without the required streak, and a sign-off document that says the same.
- Cost: parts add up to the whole and none is negative; ids do not depend on the log's order;
  no suggestion would break somebody. Registry: one owner, by the most specific rule.
- BI: a finished provision shows exactly its project; a user holds exactly its role.

## 2. The modules

| Module | Models |
|---|---|
| `Lineage` | the graph, `Closest` (nearest failed ancestors), `RootOf`, `SharedBy`; recursion as functions |
| `IncidentDesk` | the desk on its store, one action per outcome of an ingest |
| `IncidentHistory` | the desk's store read back as incidents and run records |
| `IncidentRules` | score, severity, calendar windows, and the route from the failing columns |
| `MessageDispatch` | what the desk promises about its messages: an abstract specification |
| `NotificationOutbox` | the two transactions of an ingest, several calls, channels and crashes; implements `MessageDispatch` |
| `OpsStore` | the ops database among processes: created, replaced, migrated, reset, opened to the dashboards |
| `WatermarkIngest` | loads, resyncs and backfills against late commits and deaths |
| `SegmentDiff` | the comparison of one pair by segment summaries, against an application that writes between its questions |
| `ParallelRun`, `SignOff` | the nights of the parallel run, and the document made from their rows |
| `ComparisonSpecs` | how two catalogues are lined up into pairs, and when a pair drifted |
| `CanonicalValues` | the rendering of a value, a row, and the label of a difference |
| `RawFaults`, `CompanyDays` | the catalogue of faults with the checks that see them, and the production weeks, on the desk's operators |
| `RawData` | which rows a window has, when they change, and their parents |
| `OwnershipRules` | precedence of patterns, the check, the starter registry |
| `ColumnLineage` | what a column is computed from, beside what the warehouse computes |
| `CostBill`, `QueryWork`, `CostAdvice`, `CostTables` | the bill, the work it is for, the other recommendations, and the stored tables |
| `BiCards`, `BiTool` | the generated dashboards, and the calls that provision them and create users |
| `OneInput`, `PlatformRules`, `LineageRules`, `CostReport` | the properties of the pure rules, one input to a behaviour; `MCPlatform` puts them together, as `MCDashboards` does `BiTool` and `OpsStore` |
| `IncidentProofs`, `NotificationOutboxProofs`, `WatermarkIngestProofs`, `SegmentDiffProofs`, `ParallelRunProofs`, `DashboardsProofs`, `RulesProofs` | the theorems |
| `NumberLemmas` | what the proofs know of numbers, finite sets, sums, iterations and climbing a relation |
| `MC...` | the instances TLC checks |

### IncidentDesk

Variables are the store's tables: `ranBy` is `incident_invocations`, `incidents` is
the table of that name by `seq`, `eventOf` the `incident_id` of a run's check events,
`linkedAt` and `shared` the run links and shared nodes, `escalations` and `notes`
the tables of raises and of messages. `outcome` fixes what dbt reported before the
first call; `attempted` and `lost` say which calls were made and which rolled back;
`atStart` is a history variable, the incidents a run found when its first piece came.

An ingest holds the store's lock from its first read to its commit, so it is one
action: `IngestNothingNew` (the early return), `Ingest`, and `IngestRollsBack`
(the unique index refuses a statement). Within `Ingest` the operators follow the
code's order: `View` (events, worst statuses, roots), `Before` and `Mine`, `Match`
(the five rules, first match wins), `Assignment`, `Paged`, `Merged`, `Settle`
(resolve or take back), then `Raises` on the result and `Messages`/`Queue`. Roots are
taken in the order of their ids, which the page of a later root can see.

Data kept abstract: a status is none, ok, warn, bad or skipped; a root's score and its
owner and backup are constants (`Scored`, `Owner`, `Backup`; `IncidentRules` computes
them), as are the calendar windows that cover what is below it; times are numbers; message
texts are the reason of a raise or nothing. A source's check events are its freshness only
through the status of the source, its tests are tests on it (`TestsOf`).

`IncidentHistory` adds what `history.py` makes of these tables: the incidents that are not
merged away, the runs linked to each, what a run opened and appended to, and what was
skipped on an incident's account.

### NotificationOutbox and MessageDispatch

A call is `idle`, `ingesting` (first transaction), `committed`, `delivering` (second
transaction), `done`, `dead` or `raised`. The advisory lock is `lock`. `Send` is one
`deliver`: every channel's outcome is chosen, and a channel that reports a failure may
have delivered all the same. `SendRaises` is an exception outside the classes `deliver`
catches. `Die` is a kill at any point (the hook's timeout, a worker lost). A broken call
may be made again. `row` and `attempts` are also the variables of `MessageDispatch`, so
the refinement mapping is the identity on them: `CommitIngest` is `Queue`, `Send` and
`SendRaises` are `Attempt`, `CommitDelivery` is `Record`, everything else stutters.

### OpsStore

Each process is a report (it drops and makes its tables in one transaction), an ingest
(migrations under the advisory lock), a reset, or `ensure_dashboard_role`. A statement is a step;
what a transaction made, dropped or recorded is the process's own (`made`, `dropped`,
`versions`) until it commits; `Fail` ends it anywhere and gives the lock back. `seen` holds the
tables a `GRANT ... ON ALL TABLES` found, `granted` what the role was given, default
privileges among it. The store starts as any earlier release left it, or not at all.
The role itself is made by statements that commit one by one and that no other process looks at, so they
are one step; the grants and the default privileges after them are two, of one transaction.

### WatermarkIngest

A row is its key and `updated_at`. `Write` stamps a row with the clock, `Commit` makes it
visible; `Tick` keeps transactions shorter than `MaxLag`. A job (`StartLoad`,
`StartBackfill`, `StartResync`) empties the tables it recreates, pulls its tables one
statement at a time, and records all watermarks in one transaction; it may `Die` at any
step. A load may leave tables out. The delivered job's planted defects are in `ParallelRun`,
columns loaded as NULL in `RawFaults`; the start of a new company (`recreate`) is `Init`.
`emptied` is a history variable: tables emptied by a full reload that has not finished.

### SegmentDiff

The two sides are sets of rows: `legacy` (Postgres) and `copy` (ClickHouse). A row has a
key, an `id` that tells apart two rows of one key, one abstract value for all its other
columns, and `after`, whether `changed_at` puts it after the copy's watermark. `asOf` is
`connectors.as_of`: a pair without a watermark and a `changed_at` column (the frozen
reports, above all) is compared as it is.

`pc` is the next question of `diff_table`: `CountAfter`, then `HashSource` (the first
legacy summary fills the temporary table, which answers for every level), then per level
`Agree` or `Descend`, then `FetchRows` and, if it is asked, `AskKeysAfter`. Each reads the legacy
side once, and the application may commit between any two of them: `Insert` (also of a row
that was stamped before the watermark and committed late) and `Change`; it deletes nothing.
The copy stays as it is, since the night's load has ended, so its summary and its fetch need no step
of their own. `parents`, `depth` and `last` are the code's variables; a segment is the first
`depth` digits of the key's hash, so `In(rows, segments)` is the code's shift and `IN`.

Abstracted: a summary is the exact count of rows by key and value, so two hash sums never
collide; `Digit` and `MAX_DEPTH` are constants (16 and 8 in the code); the counters
of queries and transferred rows, and which cells differ, are left out. `Accounted` is the last
net of `metrics.verdict`. `touched`, `newer` and `moved` are history variables: keys written
during the diff, keys known to be after the watermark at its first question, and whether something
was written between the hashes and the fetch.

### ParallelRun and SignOff

One night goes through the steps of the company's loop: the day's rows, the repair of
yesterday's fault, the snapshot in which the reports are frozen (a row may commit while the
workers read, which is what the exported snapshot is for), the load or, on the night the fixed job
ships, the backfill, the planted fault, what the application writes after the load, the build, and
the comparison, which judges every pair, explains failing reports by their columns' lineage, grades
itself against what was planted and appends to `results`. The environment chooses which report
columns compute something else, on which night the fix ships, which copies stop, which pairs
drift, and which rows commit late. Time is in half days. A row is the stamp of its last
change, a defect is a column and a class, and a comparison is one step (`SegmentDiff` takes it apart).

`SignOff` is `report.py`'s `render`: it never sees the nights, only their stored rows, and judges
them again. `CutoverIsEarned` relates its lines to the nights.

### CompanyDays and RawFaults

A day plants what the schedule has for it, lands the fixes that are due (each followed by a
rerun of what it covers), loads, runs the night and collects the fixes the desk scheduled. The
desk is `IncidentDesk`'s own operators with one ingest to a run, which `SameIncidentsAsOneBuild`
justifies. `RawFaults` says what each kind of fault does to a raw table, what the loader makes of
it (a renamed column stops the feed, a loader fault writes NULL, a resync empties the history that
`recent_volume` and `column_profile` compare with), and which checks then fail. After the last day the stored
metrics, the incidents page and `fault_incidents` are those of `metrics.py`.

### The pure rules

A behaviour is one question (`OneInput`): its input is chosen from a set, and the invariants relate what
the operators make of it.

- `OwnershipRules`: names are sequences of characters, because precedence is decided by them;
  the prefix `model.<project>.` common to all ids is left out.
- `CanonicalValues`: a decimal is a number of its smallest units and binary floats that are nearer to zero are
  listed (`Inexact`); a timestamp is shifted by a zone whose offset changes once. One definition stands
  for the Python, Postgres and ClickHouse renderings, which the repository's golden rows hold together.
- `RawData`: the hashes of a row are the drawn `draw`; what matters is how they make times, parents
  and the ranges of ids a window is pruned to.
- `ColumnLineage`: small `SELECT`s with a join, a filter, a group and a sum or count, beside an
  evaluator of the same queries (external: the warehouse), so that the lineage can be held to
  what a query answers.
- `IncidentRules`, `ComparisonSpecs`: as in the code, over a graph and over catalogues.
- `CostBill` counts money in the quanta amounts are rounded to. `QueryWork` makes a window's queries
  with the code's draws (`Hash` is a constant), `CostAdvice` and `CostTables` what the report says and stores of it.

### BiTool

`job` is what runs now: a provision of one of the projects, or `ensure_users`; every call to the
server is a step, and any may be the last one (`stops` counts these). The code's loops are kept as what is
left of them: the `teams` and `labels` (dashboards) still to come, taken by name, the `cards` still to put on the dashboard at
hand, what is `old` in the collection and will be archived, the users `left` and the `grants` of the one
just created. Where the code's order is that of a file or a server's answer, any one order is taken (`OneOf`).
`since` is a history variable: what was last provisioned whole, and what was tried since.

`metabase check` (`Failures`) writes nothing, so it is an operator that the property asks in every state: a dashboard that
is missing, cards that differ, a query that fails for want of the privilege, and a chart whose query returns `CHART_ROWS`
rows or more (`metabase.py:334`). What a query returns depends on what the marts hold when the check runs, and dbt may have
built them anew by then; so `Marts` is the set of contents they may have, and the property is about each of them. A chart's rows are
one for each value of its keys (`Points`); a daily rollup reads its last `RecentDays` days (`RowsRead`). A query that
fails for another reason (a server that is down, a table dropped behind dbt's back) is left out.

## 3. The runs

Every run finishes in well under two minutes with two workers.

| Run | Instance | Shows |
|---|---|---|
| `DeskNights` | 2 nights two days apart, 3 pieces each, any order inside a night; feed ok or failing, staging and mart ok, failing test or error; a leftover file; a month-end window on the second night; 10 594 states | `SameIncidentsAsOneBuild`, `TheRecordAddsUp`, `OverdueWaits` |
| `DeskOverlap` | 3 runs, 5 pieces, any interleaving, detection times that may be older than the incidents they meet; 24 944 states | `EveryFailureIsAnnounced`, `MergesEndLive`, `ResolvedIsHealthy`, `OnlyTheResolverReopens` |
| `Outbox` | 3 calls, two on the same folder, 2 channels, a message whose team is unknown, 2 breaks; 24 001 states | `EverySendIsAccountedFor`, `ImplementsDispatch`, and under fairness `NextPassDrains` |
| `Watermark` | 1 table, 1 key, overlap 2, lag 1, clock to 6, with fairness; 42 697 states | `NoRowIsLost`, `EveryRowArrives` |
| `Diff` | 3 keys, two of which part at the last of 3 levels, 2 digits, leaves of 1 row; each key equal, different, missing, extra, in flight, new or absent (tables), or held once or twice (reports); 2 writes; 513 734 states | `EveryVerdictStands`, `RowCountsAddUp` |
| `Parallel` | 7 nights, 2 tables, 2 reports (one not traced), 4 planted faults, 2 required nights, 2 mishaps; 1 096 219 states | `OneSnapshot`, `CutoverIsEarned`, `CleanNightsAreRight`, `GradeIsPerfect`, `OnlyLogicIsUnexplained` |
| `Company` | 6 days of 4 slots, 3 feeds and 7 checks below them, 6 faults, two at a time on any three days, answers within the day or after the next night, 2 people; 40 617 states | `NoFaultIsForgotten`, `EveryIncidentHasAFault`, `EveryRunIsIngestedWhole`, `FixEndsItsIncident` |
| `Rules` | every input of 15 sets (below); 39 101 states | the fourteen properties of the pure rules |
| `Dashboards` | 4 projects (the fourth refused), 2 teams, 2 jobs cut short; 3 contents of the marts (empty; a rollup with more days than its chart goes back and charts just below the limit of 5 rows; charts that reach it); 2 reports on the same tables, an ingest, a reset and the role; 781 404 states | `BiShowsTheProject`, `RolesDecideAccess`, `DashboardsReadTheStore` |
| `DeskLatePiece` | a rerun, and a nightly run whose two pieces were detected before and after it | violated: the second finding of section 4 |
| `DeskTwoRaises`, `ParallelDrift` | as above | violated: the findings of section 4 |

The properties of `Rules`, by the module that states them:

- `PlatformRules`: `CheckedMeansOwned` and `StarterRulesMatchOnce` (registries of up to three
  overlapping or tied patterns; projects of up to four names that share prefixes), `RowsAreToldApart` and
  `LabelNamesTheMechanism` (values with bars, backslashes, spaces, NULL text, halves, zones; policies),
  `SplitArrivalsLandTheSame` and `ParentsComeFirst` (a history and a window split over any mornings).
- `CostReport`: `IdsDoNotMoveWithTheLog` (logs of up to three statements with one line of noise, in every order),
  `BillAddsUp`, `PricesCoverTheWork`, `SuggestionsBreakNobody` (bills that do not divide, bursts,
  cutovers inside a month, whole windows of one and two days made by the workload).
- `LineageRules`: `RouteMovesOnlyToTheModel`, `UpstreamReachesMore`, `LineageIsEnough`,
  `PairsAreComparedOrFail`.

**Why these bounds.** The desk's decisions are about one incident, the runs that opened,
append to or resolved it, and the order of the pieces: a root change inside a run needs
two pieces, a disagreement within one run three, a resolution taken back and a late piece
need a second run, and evidence of a third run between them the third. The shop graph has
one node of each kind the rules tell apart (source, model, test on a model, test that is
its own subject), in a chain, so every one of the five match rules fires; several roots above a
node are in the company's graph (a relationships test below two feeds). For the outbox, two calls on one
folder race and repeat, the third finds their leftovers, and two breaks let one call die after
its commit and another pass break in the middle. For the ingestion, keys do not interact and tables
meet only in the watermarks recorded together, which the theorems cover for any number; a clock to 6 is three more than the
overlap and the lag together, so a window has passed a row by while loads go on. For the diff, three keys
put one segment beside another at every level and two keys in one segment until the last, tables of
up to six rows reach every leaf depth from 1 to 3, and two writes may fall on two keys,
or twice on one, at any two points. Seven nights hold the delivered job, the backfill, a streak broken
once by each of two mishaps, and a streak of two after them. Six days hold a fault, the fault
it masks, both fixes and the nights that confirm them; `UsualDays` is 3 for the code's 7, so that both
the days before and after there is something to compare with occur. A store with two
reports on the same tables has the drop that waits for neither, and one released migration beside a later one
tells an old version from a new. `MaxStops`, `MaxCalls`, `MaxBreaks`, `MaxMishaps`, `MaxWrites` and
`MaxClock` are the bounds on the environment; all other counters are the code's.

**Deadlock** is not checked: every model ends (all calls made, all messages sent, the
clock's bound, the last night or day reached, the one question asked).

**Fairness.** `NotificationOutbox!FairSpec`: strong fairness of each call's own steps. A
process that is running goes on; the lock is Postgres's advisory lock, queued fairly
and given back by a commit, a rollback or a closed connection, so a waiting call cannot be
passed over for ever; a send ends within its timeout. Nothing obliges anyone to repeat
a broken call. `WatermarkIngest!FairSpec`: time passes, transactions commit, a job that
started goes on, the nightly load of all tables recurs (a stopped feed is repaired), and the load
does not die before reaching a given table every single time (strong fairness of
`NightlyPull`). A resync or backfill is never obliged to be repeated, which is why
`EveryRowArrives` excludes tables one of them left emptied. In the company that something gets done
in the end is stated as safety with its deadline (`NoFaultIsForgotten`: after every night a fix is
coming; `FixEndsItsIncident`: on that very step), which needs no fairness.

## 4. What the models show about the code

Three statements of the documentation do not hold of the code, each shown by a run
(`findings` in `PROJECT.json` quotes them):

1. **A second raise in one run is not sent** (`DeskTwoRaises`): two raises, one message key.
2. **A late piece can open a second incident** (`DeskLatePiece`): an ingest regroups the whole run but
   looks at older incidents as of the pieces it was handed. Another run opens an incident between two
   pieces of a run; the piece detected after it appends to it, and then the piece detected before it arrives and no
   longer sees it. One build would have appended. It takes two runs that overlap: with nights one after the other
   (`DeskNights`), and one ingest to a run, as the company does, the statement holds. For the same reason
   `ResolvedIsHealthy` speaks of runs with no evidence older than the incident: such a piece, arriving last, does not take
   back the resolution its own run gave.
3. **A drifted table pair ends the parallel run** (`ParallelDrift`): the grade asks for the rules of
   a pair whose rules were never read, a `KeyError`, instead of failing that pair's night.

Others were met while modelling. They are in the models as the code has them, with the premise or the
exception named where a property needs one:

- *Desk.* Who is paged depends on the order of the pieces: an own incident that this ingest is about to
  merge away still counts as keeping its owner busy (`desk.py:564`). A late piece of an older run that
  overlaps a newer one can break the unique index and is lost (`incidents/store.py:88`). Events of an older run keep pointing at an
  incident that was merged away. A page may go, as a backup, to someone none of whose checks failed.
- *Outbox.* "A failed send is logged and recorded, never raised" (`notify.py:18`): `deliver` catches `URLError`, `TimeoutError`,
  `RuntimeError` and `ValueError`, but a server that closes the connection before or inside its answer raises
  `http.client.RemoteDisconnected`, `IncompleteRead` or `ConnectionResetError`, which `urllib` does not wrap. The whole
  pass rolls back with messages already sent, the step `SendRaises`.
- *History.* `RunRecord.resolved` compares with the run's earliest invocation, the desk records the latest
  detection (`history.py:205-213`), so a rerun at exactly a night's time is counted in both. What a run skipped beside an
  older, lower incident it was appended to is not shown (`history.py:183`).
- *Diff.* The first row changed in place after the diff's first count can be reported extra
  (`diff.py:146`, against `diff.py:19`); only an application that writes during the
  comparison shows it. A rename that maps two legacy columns to one, and `numeric(p, 0)`
  taken as no scale, pass unseen through `specs.py`. A legacy report that no longer exists stops
  `freeze_reports`.
- *Sign-off.* "So its night counted as clean" (`reconcile/report.py:244-257`) looks only at passed pairs, so a
  tolerated fault beside an unexplained report would be called clean; the model's reports differ
  by more than rounding, where it does not happen.
- *Column lineage.* The columns read by a query are computed before the joins are folded
  (`column_lineage.py:177`), so a filter or group on a LEFT JOINed column leaves the join's ON columns out, against
  "when in doubt more, never less" (line 19). `LineageIsEnough` says which queries it is about.
- *Registry.* `specificity` and `fnmatch` read `[!]a]` differently. The starter registry's `_cover` does not end for names
  that differ only in leading underscores or in a model's version. "Trailing spaces" of `classify.py` strips both ends.
- *Cost.* A burst of zero milliseconds loses its cost (`pricing.py:142`). `share` relies on amounts large enough
  for its remainder (`EnoughFor`). A hotspot may suggest the sort key a table already has (`recommend.py:118-128`), and an
  incremental candidate may be on the unused list. The cost page's "By workload" leaves out the storage rows, so with the cluster model
  it adds up to less than the page's total (`src/dashboards/pages/cost.py:87-97`). A dashboard refreshed from 12, 13 or 14 o'clock on is refreshed
  once a day whatever its hours say (`workload.py:91-94`).
- *Company.* Fixes of a rerun's incidents land after the night with an earlier time (`company.py:505-506`, `561-562`). A second fault
  on a table that is still broken stops the whole run (`company.py:510`). After a resync `recent_volume` is
  blind for days, and `column_profile` gets used to NULLs. A fault planted at the very time an incident opens
  counts as its cause. `volume_drop` deletes any rows, not only those before the window. The incidents page
  lists an incident of two faults twice.
- *BI.* A provision never visits a team whose exposures are all gone (against `metabase.py:13-15`); an exposure without
  an owner raises `KeyError`; two provisions at once create cards twice; two exposures of one team with one label
  overwrite each other. A removed team keeps its ClickHouse user.
- *Store.* A table that is made for the first time while the role is let in stays unreadable until it is replaced
  (`common/store.py:137-147`). Of two processes that find the database missing the second fails (`28-34`), as does the
  second of two reports that make one table for the first time. A page asks its queries on separate
  connections and can mix two runs of a report.

## 5. What is proved

TLAPS proves these for every value of the constants that satisfies the modules' named
assumptions, which TLC evaluates in the runs of their module. They say what the code's inputs are:

- `GraphAssumption`, `AcyclicAssumption`: a finite project whose ids differ and whose graph has no cycle (dbt refuses
  one). `DeskAssumption`, `PolicyAssumption`: the types of the desk's constants, finitely many result files, and a
  calendar that names a window once (`config/incidents.yaml` maps names to windows).
- Two hypotheses of theorems, not of the desk: `NightsInOrder`, the runs come one after the other, also in the times at which their
  results were detected, but for files left over from earlier runs; `TestsAreLeaves`, nothing is built from a test (dbt's
  graph). The first is what tells the two schedules of section 3 apart: the runs of whole nights satisfy it (`MCIncidentDesk`
  assumes it of its nights, so TLC evaluates it), those of `DeskLatePiece`, whose times overlap, do not, and there TLC
  finds `SameIncidentsAsOneBuild` violated.
- `RulesAssumption`: columns are traced to sources of the project, nothing is built from a test, and the weights, the multiplier
  and the thresholds of severity are not negative (`common/config.py:167-188`, `ge=0`).
- `ValuesAssumption`: a text column holds texts or NULL and a decimal or a time is one number, a unit of a decimal is at
  least one, the offsets of a zone are numbers, and a blank is no letter and no letter's lower case.
- `OutboxAssumption`, `IngestAssumption` (the overlap is longer than the longest transaction), `DiffAssumption`
  (finitely many rows), `StoreAssumption` (a report's tables are not the incident store's, migrations are numbered
  from one).
- `ServiceUsersAssumption`, `ToolAssumption`: the three service users differ (their names are literals); dashboards and teams
  are numbered in the order of their names, and a dashboard's team is a known one or none. `RowLimitsAssumption`,
  `MartsAssumption`: `RECENT_DAYS`, `CHART_ROWS` and `TABLE_ROWS` are positive; a model has finitely many rows, and its
  `period_start` is a day.
- `ParallelAssumption`, `SizeAssumption`: types, finite data, a report is not a table. `SettingsAssumption`: the
  shipped thresholds tolerate no row that is missing, extra or of another version, and the policy calls no changed
  value equal. `CatalogueAssumption`: a planted fault is of whole rows or of cells and is no mere rounding.
  `DefectsAssumption`: the delivered job does lose a row nobody writes again, and does one thing to a cell.

- **WatermarkIngestProofs.** `TypesHold`, `NoRowIsEverLost`, `RawIsAlwaysCommitted`,
  `RawMovesForward`. `NoRowIsLost` is not inductive: it speaks of the recorded watermark,
  and the row is put in place while the job runs. The invariant adds
  that no open transaction is older than `MaxLag`, that neither a watermark nor the
  running job's end lies in the future, and that a table the job has
  pulled is already complete up to the window that starts at the job's end
  (`PulledIsComplete`). The commit of a late row is the case that needs
  `MaxLag < Overlap`: it falls inside every window still to come.
- **NotificationOutboxProofs.** `TypesHold`, `OneTransactionAtATime`, `OnlyStoredIsSent`,
  `SentOncePerBreak`, `RecordedWasReallySent`, the three together as `SendsAreAccountedFor`, and
  `OutboxImplementsDispatch`: initial
  states map to initial states and each step to a step of `MessageDispatch` or a stutter. The
  invariant adds that the rows a pass selected are still queued and those it
  marked were attempted (`Selection`, `Marks`), that only known artifacts have rows
  (`Stored`), and a bound on attempts that counts a row still in the batch apart from one
  already handed over (`Tries`); lock exclusion is what makes a selection stay true.
- **IncidentProofs.** `TypesHold`, `ResolutionsAreLater`, `MergedStaysMerged`,
  `ResolutionsBelongToTheirRun`, `FailuresAreAnnounced`, `MergesLeadToLive`, `SeverityIsExplained`,
  `OverdueRaisesWait`, `ResolutionsAreHealthy`, for every graph, every set of runs and pieces, and every
  order. The argument goes statement by statement: what the operators give (`RootsAreFailed`: the climb to nearest
  failed ancestors ends at a root that failed, because the graph has no cycle; `MatchIs`, `AssignmentSays`: every root
  gets an incident that may take it; `PagedIsSomebody`), what regrouping and raising make of a row,
  and so what one ingest may (`IngestStep`). The invariant says that the incidents are numbered without gaps
  and are rows with every column, and each theorem adds its own: that messages are about incidents, with one page each,
  of the run that opened it, and a message for every resolution in force and every failure reported (`Announced`; the
  primary key drops a second message only when the first is there); that incidents have ages such that a merge leads to a
  live incident or a younger one (`MergesRise`; `MergesEndLive` itself is not inductive, it says nothing of chains that are about
  to get longer); that the raises on record account for the severity and that an incident was overdue only at severities
  it has left (`RaisesAddUp`); that every check event is of an incident its run has not resolved (`FailuresUnresolved`), and
  that the run which resolved an incident found its root healthy in all it reported (`HealthStands`: an ingest looks again
  at every incident of other runs that is not younger than what it brings).

  `SplitRunsAreOneBuild` (`SameIncidentsAsOneBuild`) and `RecordAddsUp` (`TheRecordAddsUp`) assume `NightsInOrder`. Their invariant
  says first that a run is called only after all calls of earlier runs, so that what it detects is later than all they did (`InTurn`,
  `OpenedInTurn`), and that of the incidents standing as of a run no two have one root (`OnePerRoot`): so the unique index
  refuses nothing and no call is lost. The record is read from the links, so every live incident is linked to a failure
  of the run that opened it (`LiveAreLinked`), and a failing check is in a live incident that no later run opened, in its own run's
  below that incident's root (`LinkedInTurn`); what is skipped below a failed node is below its root, because what is above
  an ancestor is above the node (`AboveSays`). For one build, the invariant `StartStands`
  compares the incidents with those the run started from: what other runs left is changed only as this run's own evidence
  changes it. Then regrouping what there is and regrouping the start, with all the run
  reported, look at the same roots with the same candidates and give each to the same older incident (`MatchSame`), or
  open a new one.
- **SegmentDiffProofs.** `TypesHold`, `DifferencesStayBelowAParent`,
  `StandingDifferencesAreFound`, `NothingEqualIsBlamed`, `KnownInFlightIsSpared`, and the last three
  as `VerdictsStand`: for any
  finite set of rows, any hash of the keys, any depth and any leaf width, a key nobody
  writes is reported as one comparison of the two sides would. The report is right only
  because of what was read on the way, so the invariant follows the readings: for the keys left
  alone the hashes and the fetched rows still are the rows of the table (`Snapshot`,
  `Fetched`), a row after the watermark was counted (`Known`), and a difference lies below an open
  parent (`Covered`). That a key with different rows makes its segment's summary differ, and
  every segment above it, is `DifferenceShows`. `RowCountsBalance`: `RowCountsAddUp` counts the rows of
  all keys, so it is taken key by key (`KeyAddsUp` for one key, `GrowingSets` for all); on a table at rest the
  hashes stay the rows of the tables (`Steady`), and where every segment agrees so do the counts (`SameCounts`).
- **DashboardsProofs.** Of the store: `StoreStaysAtItsVersion`: the invariant `StoreIsAtItsVersion`, a
  part of `DashboardsReadTheStore`, for any number of processes, reports and migrations,
  wherever they fail. It is about what is committed, while an open migration worked out what it
  makes and records from the tables as they stood when it began. So the invariant adds what
  keeps them standing until it commits: the advisory lock is held by whoever migrates
  (`LockIsHeld`), reports touch none of these tables (`ReportsKeepAway`), and what is about to be
  committed is the newest version (`Prepared`). `PagesReadTheStore` is `DashboardsReadTheStore`, the same with
  what a page sees: once the role is let in every committed table is readable, but for those a `GRANT` could not
  see yet (`missed`), and a report's tables are of one call. It needs what open transactions are
  about to commit: whole reports, of their own call (`MadeAsAsked`), no table made twice (`Apart`), readable as soon as
  the default privileges are in force (`LetIn`).

  Of the BI tool: `RolesAreEnough` (`RolesDecideAccess`) and `ProjectIsShown` (`BiShowsTheProject`), for any projects, teams
  and older users, and jobs stopped at any call. Both say how things stand between jobs, while the next job may start from what
  a stopped one left; so the invariant says what a job under way has done: every user created anew holds its role's
  privileges but those it is still to get (`GrantedSoFar`); the teams whose turn is over show the project, and of the team at hand the
  dashboards made are in place, the cards put are the wanted ones, and all that is not wanted is among what is still
  to archive (`TeamSoFar`). A dashboard wanted by every project tried stands because no step takes a wanted card away and a
  dashboard is replaced only when all its cards are there (`BoardsStand`, `TurnGoesOn`).
  What a check reports after a whole provision are the charts at the limit and nothing else (`OnlyLimitsFail`), and a daily rollup is
  not among them while its series times `RecentDays` stay below it (`FewSeriesAreDrawn`): its points are told apart by day and
  series (`PointsOfSeries`), and the days it reads are at most `RecentDays` (`RecentRows`), for any contents of the marts.
- **ParallelRunProofs.** `TypesHold`, `FrozenFromOneSnapshot`, `CleanIsRight`, `EveryGradeIsPerfect`,
  `UnexplainedIsLogic`, `RecommendedIsEarned`, for any tables, reports, faults and number of nights. The properties are about the
  comparison at the end of a night, and what it finds depends on all that happened to the copy. The invariant
  follows the copy: behind the window of the next load it holds every row the job at work loads in the version Postgres
  has (`CopyFollows`), on a night without mishaps everything up to that night (`CopyIsTonights`), with what the job
  makes of it (`CopyIsOfRows`); a planted fault still stands as planted (`FaultStands`); and the reports are of
  one moment (`FrozenTogether`). Then what the comparison finds is exactly what is expected (`FoundIsExpected`,
  `ExpectedIsFound`), a thing found is charged once (`OnePerCell`), and a clean verdict means equal copies (`PassingIsRight`).
  `RecommendedIsEarned`: the streak is counted along the nights by a recursive function, so
  what it says (`StreakSays`) is an induction over the nights; a result stays true once given (`ResultsAreTrue`), and the
  lines of the document, made from the stored rows alone, say the same (`DocumentAgrees`, `TotalsArePerfect`).
- **RulesProofs.** Of the lineage: `PagesOnlyStepBack` (`RouteMovesOnlyToTheModel`), `FurtherUpIsNoLess` (`UpstreamReachesMore`) and
  `PairsStandAlone` (`PairsAreComparedOrFail`). These rules keep no state; what makes them right is a law of the operators. A
  page goes to a source exactly when every failing check is a test of columns that are traced to that one source and to no
  other (`PointTo`), so more checks can only end it. What is below a root further up contains what is below the
  node, because climbing twice is climbing (`ClimbIsTransitive`), and a sum over a part is no greater than over the whole when
  no weight is negative (`PartsAddUpToLess`), which is what settings with `ge=0` are for. Whether a pair lines up
  (`LinesUp`), and on which columns, reads its own two relations and nothing else (`OwnRelations`).

  Of the compared values: `RowsTellApart` (`RowsAreToldApart`) and `LabelsNameMechanisms` (`LabelNamesTheMechanism`), for any
  zones, scale, lower case, policies and values. Escaping is taken a character at a time (`EscapeGrows`): replacing the
  backslashes and then the bars gives each character its code, a code ends with its character, and so
  an escape has one text (`EscapeIsOne`) and is never the marker of NULL (`NoEscapeIsNull`). Read from the left, an escaped
  text never shows a bar that no backslash precedes, and ends between two codes (`Escapes`), so two rows of
  one text have their separator in one place (`RowIsRead`). What a policy leaves of two texts is the same exactly when they
  are equal up to trailing blanks and case (`LeftAlike`), because blanks have no case, so trimming and lowering commute (`LoweredTrims`).
  Of the labels: every rounding leaves less than a unit (`RoundingIsNear`), and reading a wall clock with both folds gives
  back the time it was made from whichever offset was in force (`ReadingIsUndone`).
- **NumberLemmas.** Sets of natural numbers have a least and a greatest element, which is how the inductions are
  taken: the library's own induction theorems take an operator, `EveryNumber` and `GrowingSets` a set. `Iterates` is what
  a function applied over and over ends at, `IsClimb` what is reached over a relation,
  `AddsUp` a sum over a set.

What is proved for every instance needs no run beside it where a run would show less: the type
invariants of these modules, `ResolvedByALaterRun`, `MergedIsFinal`, `RaisesExplainSeverity`, `RawIsCommitted` and
`RawOnlyMovesForward` are theorems only.

Only model-checked:

- Liveness: `NextPassDrains`, `EveryRowArrives`.
- The company (`NoFaultIsForgotten`, `EveryIncidentHasAFault`, `EveryRunIsIngestedWhole`, `FixEndsItsIncident`), whose
  statements depend on which checks see which fault, on a schedule of days; no proof has been tried.
- The pure rules but for the five of `RulesProofs`: the registry sorts its candidates and reads its patterns by a recursive
  function, `LineageIsEnough` folds queries over the rows of tables, `CostReport` and the company's rows sum, sort and
  count: each would be an induction over data.

## 6. Plan

| Step | Module | Content | State |
|---|---|---|---|
| 1 | `Lineage`, `IncidentDesk`, `IncidentHistory` | the desk and its record | built, checked, proved |
| 2 | `MessageDispatch`, `NotificationOutbox` | the outbox and its abstraction | built, checked, proved |
| 3 | `WatermarkIngest` | the copy | built, checked, proved (liveness checked) |
| 4 | `SegmentDiff` | the descent over summaries with a writer committing between its queries | built, checked, proved |
| 5 | `ParallelRun`, `SignOff` | freeze, copy, compare; verdict, explanation, streak, cutover and sign-off | built, checked, proved |
| 6 | `RawFaults`, `CompanyDays` | faults, fixes, resyncs, loads, nights and reruns in a day's order, on the desk's operators | built, checked |
| 7 | `CostBill` to `CostTables`, `OwnershipRules`, `CanonicalValues`, `RawData`, `ColumnLineage`, `ComparisonSpecs`, `IncidentRules` | the pure rules | built, checked; the rules of incidents, pairs and compared values proved |
| 8 | `OpsStore`, `BiCards`, `BiTool` | what dashboards depend on | built, checked, proved |
| 9 | proofs | next: that the company's desk takes every run (`EveryRunIsIngestedWhole`), on the lemmas of `RecordAddsUp` | open |
| 10 | models | the vendors' cost collectors; a run of the company's weeks with pieces instead of whole runs; SQL of anti and semi joins | open |

## 7. Not modelled, and why

The Markdown of the incident and cost reports, charts, the command line and the scripts are presentation.
The vendors' collectors (`cost/collectors/`) translate a job list into the records `CostBill` starts from.
Manifest parsing, code generation and the text of the legacy reports are files written
once. The canonical SQL of two engines and the tracing through SQL text are other libraries' work;
their results are inputs here. Wall-clock pacing, settings, logging and connections are configuration;
the settings that matter are constants. `drop_dashboard_role` and `remove_company` serve the tests' own
clean-up. A cutover after the window it is asked about is not a state of the program. Clocks of different
machines are not modelled: `detected_at` is given with each invocation.
