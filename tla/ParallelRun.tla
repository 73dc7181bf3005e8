---------------------------- MODULE ParallelRun ----------------------------
(***************************************************************************)
(* The migration's parallel run: the company's nights from the start of    *)
(* the parallel weeks (src/platform_ops/simulation/company.py), what is    *)
(* planted and repaired on the way (migration.py), and the reconciliation  *)
(* that judges every night and decides the cutover (reconcile/parallel.py, *)
(* asof.py, metrics.py, explain.py).                                       *)
(*                                                                         *)
(* Time is counted in half days: night n reads up to 2 * n, and what the   *)
(* application writes after the copy is stamped 2 * n + 1. A row is the    *)
(* stamp of its last change, updated_at, which every change moves. The     *)
(* comparison of a night is one step; SegmentDiff takes it apart.          *)
(***************************************************************************)
EXTENDS SignOff, Sequences

CONSTANTS
    Table, Column, Key, Report, ReportColumn,
    Depends,       \* the raw columns each report column is computed from
    Logic,         \* report columns whose new SQL may compute something else
    Untraced,      \* reports whose mart has no column lineage
    History,       \* rows older than the window that nobody writes again
    Changing,      \* older rows that the application may change in place
    Coming,        \* rows that may arrive
    Defects,       \* what the delivered job makes of a row: <<t, k, column, class>>
    Lost,          \* the rows the delivered job never loads
    CATALOGUE,     \* the one-off faults, in order
    Neutral,       \* <<t, column, class>> that the legacy policy calls equal
    Limit,         \* thresholds.max_discrepancies, by class
    MinRate,       \* the least share of rows, and of a column's cells, that match, in percent
    MaxLag,        \* thresholds.max_watermark_lag_hours, in half days
    Overlap,       \* company.ingest_overlap_minutes, in half days
    Required,      \* clean_nights_for_cutover
    Nights,        \* nights of the parallel run
    FixAfter,      \* fix_after_nights, which may be any of these
    Drifts,        \* the sets of pairs that may drift on a night
    Stoppable,     \* tables whose copy may stop
    MaxMishaps     \* bound: late commits, stopped copies and drifts, in all

Row == Table \X Key
Class == DOMAIN Limit
Defect == Column \X Class
INVENTED_KEYS == 1000000000   \* an invented row takes a key far above those in use

ASSUME ParallelAssumption ==
    /\ Depends \in [Report -> [ReportColumn -> SUBSET (Table \X Column)]]
    /\ Logic \subseteq Report \X ReportColumn /\ Untraced \subseteq Report
    /\ History \cup Changing \cup Coming \cup Lost \subseteq Row
    /\ Limit \in [Class -> Nat] /\ MinRate \in 0..100
    /\ {Overlap, MaxLag, Nights, MaxMishaps} \subseteq Nat
    /\ Required \in Nat \ {0} /\ FixAfter \subseteq Nat \ {0}
    /\ Drifts \subseteq SUBSET (Table \cup Report) /\ Stoppable \subseteq Table
    /\ Key \subseteq 0..(INVENTED_KEYS - 1)

\* The data is finite, and a report is not a table.
ASSUME SizeAssumption ==
    /\ IsFiniteSet(Table) /\ IsFiniteSet(Report) /\ Table \cap Report = {}
    /\ IsFiniteSet(Key) /\ IsFiniteSet(Column) /\ IsFiniteSet(Class)
    /\ Column # {} /\ "" \notin Column

RowClass == {"missing_in_target", "extra_in_target"}
CellClass == Class \ RowClass

\* The shipped settings: no row may be missing, extra or of another version, the overlap
\* is not empty, and the policy calls no changed value equal.
ASSUME SettingsAssumption ==
    /\ RowClass \cup {"value_mismatch"} \subseteq Class
    /\ \A c \in RowClass \cup {"value_mismatch"} : Limit[c] = 0
    /\ Overlap > 0
    /\ Neutral \subseteq Table \X Column \X (CellClass \ {"value_mismatch"})

\* A fault is of whole rows or of cells, and none is a mere rounding.
ASSUME CatalogueAssumption ==
    /\ CATALOGUE \in Seq([table : Table, class : RowClass, column : {""}]
                         \cup [table : Table, class : CellClass, column : Column])
    /\ \A i \in DOMAIN CATALOGUE : CATALOGUE[i].class # "rounding"

\* The delivered job loses a row that nobody writes again, and does one thing to a cell, of
\* a row that it loads.
ASSUME DefectsAssumption ==
    /\ History \cap Lost # {} /\ History \cap (Changing \cup Coming) = {}
    /\ Defects \subseteq Table \X Key \X Column \X CellClass
    /\ \A d \in Defects : <<d[1], d[2]>> \notin Lost
    /\ \A d, e \in Defects : d[1] = e[1] /\ d[2] = e[2] /\ d[3] = e[3] => d = e

VARIABLES
    night, pc,
    fixNight,   \* Timeline: the night the fixed job ships
    logic,      \* the report columns whose new SQL does compute something else
    legacy,     \* Postgres: the rows of every table, by stamp
    raw,        \* ClickHouse's raw layer: the version copied of a row, and what is wrong in it
    watermark,  \* ingestion_loads: the latest loaded_until of every table
    snapshot,   \* the leader's exported snapshot while the reports are frozen
    frozen,     \* the frozen reports, as the rows each was computed from
    marts,      \* the raw rows the night's build read
    planted,    \* the one-off faults that stand: at most one, with its key
    results,    \* ParallelRun.results
    cutover,    \* reconcile_cutover
    late,       \* history: something committed late, was stopped or drifted tonight
    mishaps

vars == <<night, pc, fixNight, logic, legacy, raw, watermark, snapshot, frozen, marts,
          planted, results, cutover, late, mishaps>>
fixed == <<fixNight, logic>>
judged == <<results, cutover>>
outside == <<late, mishaps>>

RunAt == 2 * night
AsDelivered == night < fixNight

-----------------------------------------------------------------------------
(* The copy.                                                               *)

Held(t) == {k \in Key : <<t, k>> \in DOMAIN legacy}

\* What the job writes of a row: as delivered, with its defects.
Copied(r, asDelivered) ==
    [at |-> legacy[r],
     bad |-> IF asDelivered THEN {d \in Defect : <<r[1], r[2], d[1], d[2]>> \in Defects} ELSE {}]

\* The rows a load reads of table t: ReplacingMergeTree keeps the later version of
\* a row, and the last inserted of equal ones.
Selected(t, since, asDelivered) ==
    {r \in {t} \X Held(t) :
        /\ legacy[r] > since /\ legacy[r] <= RunAt
        /\ ~(asDelivered /\ r \in Lost)
        /\ r \in DOMAIN raw => raw[r].at <= legacy[r]}

Over(copy, rows) == [r \in DOMAIN copy \cup DOMAIN rows |->
                        IF r \in DOMAIN rows THEN rows[r] ELSE copy[r]]
Without(copy, rows) == [r \in DOMAIN copy \ rows |-> copy[r]]

-----------------------------------------------------------------------------
(* One table compared with its copy, as of the copy's watermark.           *)

AsOf(t) == {k \in Held(t) : legacy[<<t, k>>] <= watermark[t]}

InFlight(t) == Held(t) \ AsOf(t)
InRaw(t) == {k \in Key \cup {INVENTED_KEYS} : <<t, k>> \in DOMAIN raw}
InBoth(t) == AsOf(t) \cap InRaw(t)
Missing(t) == AsOf(t) \ InRaw(t)
Extra(t) == InRaw(t) \ (AsOf(t) \cup InFlight(t))

\* A version that is not the legacy one differs in every column.
CellsOf(t, k) ==
    {d \in IF raw[<<t, k>>].at # legacy[<<t, k>>] THEN Column \X {"value_mismatch"} ELSE raw[<<t, k>>].bad :
        <<t, d[1], d[2]>> \notin Neutral}

\* The discrepancies of a table: <<t, key, column, class>>, no column for a row.
Found(t) ==
    {<<t, k, "", "missing_in_target">> : k \in Missing(t)}
    \cup {<<t, k, "", "extra_in_target">> : k \in Extra(t)}
    \cup UNION {{<<t, k, d[1], d[2]>> : d \in CellsOf(t, k)} : k \in InBoth(t)}

DifferingIn(t, x) == {k \in InBoth(t) : \E d \in CellsOf(t, k) : d[1] = x}

\* verdict: the failures of a table, by kind.
Stale(t) == RunAt - watermark[t] > MaxLag
BelowRate(t) ==
    LET differing == UNION {DifferingIn(t, x) : x \in Column}
    IN  \/ 100 * Cardinality(InBoth(t) \ differing) < MinRate * Cardinality(AsOf(t))
        \/ \E x \in Column : 100 * Cardinality(InBoth(t) \ DifferingIn(t, x))
                               < MinRate * Cardinality(InBoth(t))
\* Mutant of OverLimit: only rows one side lacks count.
OverLimitOfRows(t) ==
    \E c \in {"missing_in_target", "extra_in_target"} :
        Cardinality({d \in Found(t) : d[4] = c}) > Limit[c]
OverLimit(t) == \E c \in Class : Cardinality({d \in Found(t) : d[4] = c}) > Limit[c]

TablePasses(t) == ~Stale(t) /\ ~BelowRate(t) /\ ~OverLimit(t)

-----------------------------------------------------------------------------
(* One report, as it was frozen, compared with the mart that replaces it.  *)

RowsOf(rows, t) == {<<r[2], rows[r]>> : r \in {r \in DOMAIN rows : r[1] = t}}
MartRowsOf(t) == {<<r[2], marts[r].at>> : r \in {r \in DOMAIN marts : r[1] = t}}

\* The classes of what is wrong in a raw column that the build read.
WrongIn(t, x) == {c \in Class : /\ <<t, x, c>> \notin Neutral
                                /\ \E r \in DOMAIN marts : r[1] = t /\ <<x, c>> \in marts[r].bad}

DiffersUpstream(r, c) == \E d \in Depends[r][c] :
    RowsOf(frozen[r], d[1]) # MartRowsOf(d[1]) \/ WrongIn(d[1], d[2]) # {}
DifferingColumns(r) == {c \in ReportColumn : DiffersUpstream(r, c) \/ <<r, c>> \in logic}

\* Differences that came from rounding alone may stay within the report's own
\* tolerance and limits.
OnlyRounded(r) == \A c \in DifferingColumns(r) :
    /\ <<r, c>> \notin logic
    /\ \A d \in Depends[r][c] : /\ RowsOf(frozen[r], d[1]) = MartRowsOf(d[1])
                                /\ WrongIn(d[1], d[2]) \subseteq {"rounding"}

\* What differs upstream tonight: raw columns, and tables with rows missing or extra.
Cells == {d \in Table \X Column : DifferingIn(d[1], d[2]) # {}}
Rows == {t \in Table : Missing(t) \cup Extra(t) # {}}

\* Mutant of Explained: by table, which was too loose.
ExplainedByTable(r) ==
    LET upstream == UNION {Depends[r][c] : c \in ReportColumn}
    IN  DifferingColumns(r) = {}
        \/ {d[1] : d \in upstream} \cap (Rows \cup {d[1] : d \in Cells}) # {}

\* The column lineage of a report, from tonight's compiled SQL: none where it cannot be traced.
Traced(r) == r \notin Untraced

\* explain: every report column that differs needs a cause of its own; without a lineage,
\* any difference in a table upstream will do.
Explained(r) ==
    LET upstream == UNION {Depends[r][c] : c \in ReportColumn}
        hit(columns) == \E d \in columns : d \in Cells \/ d[1] \in Rows
    IN  \/ DifferingColumns(r) = {}
        \/ Traced(r) /\ \A c \in DifferingColumns(r) : hit(Depends[r][c])
        \/ ~Traced(r) /\ {d[1] : d \in upstream} \cap (Rows \cup {d[1] : d \in Cells}) # {}

-----------------------------------------------------------------------------
(* The ground truth, and the grade of the night's comparison against it.   *)

DeliveredTruth ==
    {<<r[1], r[2], "", "missing_in_target">> : r \in {r \in Lost \cap DOMAIN legacy : legacy[r] <= RunAt}}
    \cup {d \in Defects : <<d[1], d[2]>> \in DOMAIN legacy /\ legacy[<<d[1], d[2]>>] <= RunAt}

PlantedTruth == {<<p.table, p.key, p.column, p.class>> : p \in planted}

Truth == (IF AsDelivered THEN DeliveredTruth ELSE {}) \cup PlantedTruth
Expected == {d \in Truth : <<d[1], d[3], d[4]>> \notin Neutral}

\* grade: by cell first, then by class.
Grade ==
    LET found == UNION {Found(t) : t \in Table}
        cells(ds) == {<<d[1], d[2], d[3]>> : d \in ds}
    IN  [expected |-> Cardinality(cells(Expected)), detected |-> Cardinality(cells(found)),
         hits |-> Cardinality(cells(Expected) \cap cells(found)),
         correct |-> Cardinality(Expected \cap found)]
Perfect(g) == {g.expected, g.detected, g.hits} = {g.correct}

-----------------------------------------------------------------------------
(* The days.                                                               *)

Init ==
    /\ night = 0 /\ pc = "day"
    /\ \E n \in FixAfter : fixNight = IF n < Nights THEN 1 + n ELSE 1 + Nights
    /\ logic \in SUBSET Logic
    /\ legacy = [r \in History \cup Changing |-> 0]
    /\ raw = [r \in (History \cup Changing) \ Lost |-> Copied(r, TRUE)]
    /\ watermark = [t \in Table |-> 0]
    /\ snapshot = <<>> /\ frozen = [r \in Report |-> <<>>] /\ marts = raw
    /\ planted = {} /\ results = <<>> /\ cutover = <<>>
    /\ late = FALSE /\ mishaps = 0

Written(rows, at) == Over(legacy, [r \in rows |-> at])
AtMostOne(rows) == {{}} \cup {{r} : r \in rows}

\* legacy.arrive: the day's new rows, and one changed in place an hour before the run.
Arrive ==
    /\ pc = "day" /\ night < Nights
    /\ night' = night + 1
    /\ \E new \in AtMostOne(Coming \ DOMAIN legacy), changed \in AtMostOne(Changing) :
            legacy' = Written(new \cup changed, 2 * (night + 1))
    /\ late' = FALSE
    /\ pc' = "repair"
    /\ UNCHANGED <<fixed, judged, raw, watermark, snapshot, frozen, marts, planted,
                   mishaps>>

\* repair: invented rows are deleted, the others reloaded from Postgres as they are now.
Repaired ==
    LET wrong == {<<p.table, p.key>> : p \in planted}
    IN  Over(Without(raw, {r \in wrong : r[2] = INVENTED_KEYS}),
             [r \in wrong \cap DOMAIN legacy |-> Copied(r, FALSE)])

Repair ==
    /\ pc = "repair" /\ pc' = "freeze"
    /\ raw' = Repaired /\ planted' = {}
    /\ UNCHANGED <<night, fixed, judged, outside, legacy, watermark, snapshot, frozen, marts>>

\* freeze_reports: the leader exports one snapshot, every worker reads in it.
TakeSnapshot ==
    /\ pc = "freeze" /\ pc' = "freezing"
    /\ snapshot' = legacy
    /\ frozen' = [r \in Report |-> <<>>]
    /\ UNCHANGED <<night, fixed, judged, outside, legacy, raw, watermark, marts, planted>>

Frozen(r) == frozen[r] # <<>>
\* Mutant of FreezeReport: a worker that did not import the snapshot.
FreezeReportLive(r) ==
    /\ pc = "freezing" /\ ~Frozen(r)
    /\ frozen' = [frozen EXCEPT ![r] = legacy]
    /\ UNCHANGED <<night, pc, fixed, judged, outside, legacy, raw, watermark, snapshot, marts,
                   planted>>

FreezeReport(r) ==
    /\ pc = "freezing" /\ ~Frozen(r)
    /\ frozen' = [frozen EXCEPT ![r] = snapshot]
    /\ UNCHANGED <<night, pc, fixed, judged, outside, legacy, raw, watermark, snapshot, marts, planted>>

CommitLeader ==
    /\ pc = "freezing" /\ \A r \in Report : Frozen(r)
    /\ snapshot' = <<>> /\ pc' = "copy"
    /\ UNCHANGED <<night, fixed, judged, outside, legacy, raw, watermark, frozen, marts, planted>>

\* The night's load, from each watermark less the overlap; a stopped table stays behind.
Load ==
    /\ pc = "copy" /\ night # fixNight
    /\ \E skip \in AtMostOne(IF mishaps < MaxMishaps THEN Stoppable ELSE {}) :
        LET rows == UNION {Selected(t, watermark[t] - Overlap, AsDelivered) : t \in Table \ skip}
        IN  /\ raw' = Over(raw, [r \in rows |-> Copied(r, AsDelivered)])
            /\ watermark' = [t \in Table |-> IF t \in skip THEN watermark[t] ELSE RunAt]
            /\ mishaps' = mishaps + Cardinality(skip)
            /\ late' = (late \/ skip # {})
    /\ pc' = "plant"
    /\ UNCHANGED <<night, fixed, judged, legacy, snapshot, frozen, marts, planted>>

\* The fixed job ships: raw is emptied and every table reloaded in full.
Backfill ==
    /\ pc = "copy" /\ night = fixNight
    /\ raw' = [r \in {r \in DOMAIN legacy : legacy[r] <= RunAt} |-> Copied(r, FALSE)]
    /\ watermark' = [t \in Table |-> RunAt]
    /\ pc' = "plant"
    /\ UNCHANGED <<night, fixed, judged, outside, legacy, snapshot, frozen, marts, planted>>

\* Every other night from the second after the fix, none on the last.
FaultsOf(n) == {CATALOGUE[i] : i \in {i \in DOMAIN CATALOGUE : n = fixNight + 2 * i /\ n < Nights}}

\* Mutant of Targets: an invented row takes the next key.
TargetsNextKey(f) == IF f.class = "extra_in_target"
                     THEN {k \in Key : <<f.table, k>> \notin DOMAIN raw}
                     ELSE {k \in Key : <<f.table, k>> \in DOMAIN raw /\ raw[<<f.table, k>>].at = 0}

\* The rows a fault may fall on: older than the window, as the copy holds them.
Targets(f) == IF f.class = "extra_in_target" THEN {INVENTED_KEYS}
              ELSE {k \in Key : <<f.table, k>> \in DOMAIN raw /\ raw[<<f.table, k>>].at = 0}

Planted(f, k) ==
    LET r == <<f.table, k>>
    IN  CASE f.class = "extra_in_target" -> Over(raw, [x \in {r} |-> [at |-> 0, bad |-> {}]])
          [] f.class = "missing_in_target" -> Without(raw, {r})
          [] OTHER -> [raw EXCEPT ![r].bad = raw[r].bad \cup {<<f.column, f.class>>}]

Plant ==
    /\ pc = "plant" /\ pc' = "write"
    /\ \/ /\ FaultsOf(night) = {}
          /\ UNCHANGED <<raw, planted>>
       \/ \E f \in FaultsOf(night) : \E k \in Targets(f) :
            /\ raw' = Planted(f, k)
            /\ planted' = {[table |-> f.table, key |-> k, column |-> f.column, class |-> f.class]}
    /\ UNCHANGED <<night, fixed, judged, outside, legacy, watermark, snapshot, frozen, marts>>

\* legacy.arrive_new: the next day's first rows, after the copy has read.
WriteOn ==
    /\ pc = "write" /\ pc' = "build"
    /\ \E new \in AtMostOne(Coming \ DOMAIN legacy) : legacy' = Written(new, RunAt + 1)
    /\ UNCHANGED <<night, fixed, judged, outside, raw, watermark, snapshot, frozen, marts, planted>>

Build ==
    /\ pc = "build" /\ pc' = "compare"
    /\ marts' = raw
    /\ UNCHANGED <<night, fixed, judged, outside, legacy, raw, watermark, snapshot, frozen, planted>>

\* A transaction that stamped its row before the freeze and commits after its snapshot:
\* while the reports are frozen, before the copy reads, or before the comparison.
CommitLate ==
    /\ pc \in {"freezing", "copy", "compare"} /\ mishaps < MaxMishaps
    /\ \E r \in (Coming \ DOMAIN legacy) \cup {r \in Changing : legacy[r] < RunAt} :
            legacy' = Written({r}, RunAt)
    /\ mishaps' = mishaps + 1 /\ late' = TRUE
    /\ UNCHANGED <<night, pc, fixed, judged, raw, watermark, snapshot, frozen, marts, planted>>

\* _load_specs: the pairs whose two sides no longer match, read again every night.
DriftedTonight == IF mishaps < MaxMishaps THEN Drifts ELSE {{}}

\* A drifted pair fails its night with the reason; a report of lenient stays within its
\* limits.
Passes(pair, drifted, lenient) ==
    /\ pair \notin drifted
    /\ IF pair \in Table THEN TablePasses(pair)
       ELSE DifferingColumns(pair) = {} \/ pair \in lenient

\* The night's result.
Result(drifted, lenient) ==
    [night |-> night, delivered |-> AsDelivered, planted |-> Cardinality(planted),
     failing |-> {p \in Table \cup Report : ~Passes(p, drifted, lenient)},
     unexplained |-> {r \in Report \ drifted : ~Explained(r)}, grade |-> Grade]
Clean(result) == result.failing = {} /\ result.unexplained = {}

\* _record: the rows of reconcile_nights. Only a report is explained or not.
Recorded(result) ==
    {[night |-> result.night, planted |-> result.planted, name |-> pair,
      level |-> IF pair \in Table THEN "table" ELSE "report",
      passed |-> pair \notin result.failing,
      explained |-> IF pair \in Table THEN "none"
                    ELSE IF pair \in result.unexplained THEN "no" ELSE "yes"] :
        pair \in Table \cup Report}

\* ParallelRun.__call__: the pairs compared, explained, graded, recorded.
Compare ==
    /\ pc = "compare" /\ pc' = "day"
    /\ \E drifted \in DriftedTonight,
          lenient \in SUBSET {r \in Report : OnlyRounded(r)} :
        /\ drifted \cap Table = {}
        /\ results' = Append(results, Result(drifted, lenient))
        /\ mishaps' = mishaps + Cardinality(drifted)
        /\ late' = (late \/ drifted # {})
    /\ UNCHANGED <<night, fixed, legacy, raw, watermark, snapshot, frozen, marts, planted,
                   cutover>>

\* The rules of a drifted table were never read, and the grade asks for them.
CompareRaises ==
    /\ pc = "compare" /\ pc' = "raised"
    /\ \E drifted \in DriftedTonight :
        /\ drifted \cap Table # {}
        /\ mishaps' = mishaps + Cardinality(drifted)
    /\ UNCHANGED <<night, fixed, judged, legacy, raw, watermark, snapshot, frozen, marts, planted,
                   late>>

\* decide: the streak after each night, counted from zero after one that is not clean.
Streak[n \in Nat] == IF n = 0 \/ ~Clean(results[n]) THEN 0 ELSE Streak[n - 1] + 1

\* Mutant of Decided: clean nights in all, not in a row.
DecidedInAll ==
    LET completing == {n \in DOMAIN results :
                         Cardinality({o \in 1..n : Clean(results[o])}) = Required}
    IN  IF completing = {} THEN [recommended |-> FALSE, night |-> 0, streak |-> 0]
        ELSE [recommended |-> TRUE, streak |-> Required,
              night |-> CHOOSE n \in completing : \A o \in completing : n <= o]

Decided ==
    LET completing == {n \in DOMAIN results : Streak[n] = Required}
    IN  IF completing = {}
        THEN [recommended |-> FALSE, night |-> 0, streak |-> Streak[Len(results)]]
        ELSE [recommended |-> TRUE, streak |-> Required,
              night |-> CHOOSE n \in completing : \A o \in completing : n <= o]

Finish ==
    /\ pc = "day" /\ night = Nights /\ pc' = "done"
    /\ cutover' = <<Decided>>
    /\ UNCHANGED <<night, fixed, outside, legacy, raw, watermark, snapshot, frozen, marts,
                   planted, results>>

Next ==
    \/ Arrive \/ Repair \/ TakeSnapshot \/ CommitLeader \/ Load \/ Backfill
    \/ Plant \/ WriteOn \/ Build \/ Compare \/ CompareRaises \/ Finish \/ CommitLate
    \/ \E r \in Report : FreezeReport(r)

Spec == Init /\ [][Next]_vars

-----------------------------------------------------------------------------
(* Properties.                                                             *)

TypeOK ==
    /\ night \in 0..Nights /\ fixNight \in 1..(Nights + 1) /\ logic \subseteq Logic
    /\ pc \in {"day", "repair", "freeze", "freezing", "copy", "plant", "write", "build",
               "compare", "raised", "done"}
    /\ DOMAIN legacy \subseteq Row /\ \A r \in DOMAIN legacy : legacy[r] \in 0..(2 * Nights + 1)
    /\ \A copy \in {raw, marts} : \A r \in DOMAIN copy :
            /\ r \in Table \X (Key \cup {INVENTED_KEYS})
            /\ copy[r].at \in 0..(2 * Nights) /\ copy[r].bad \subseteq Defect
    /\ \A t \in Table : watermark[t] \in 0..RunAt
    /\ \A r \in DOMAIN raw : r[2] = INVENTED_KEYS => \E p \in planted : p.key = r[2]
    /\ Cardinality(planted) <= 1 /\ Len(results) <= night

Last == results'[Len(results')]
Judged == results' # results

\* What the reconciliation promises of a copy: every row the copy's watermark says it
\* read is there in the version Postgres has, wrong at most as the thresholds allow, and
\* nothing else is.
CopyIsRight(t) ==
    /\ \A k \in Held(t) : legacy[<<t, k>>] <= watermark[t] =>
            /\ <<t, k>> \in DOMAIN raw /\ raw[<<t, k>>].at = legacy[<<t, k>>]
            /\ \A d \in raw[<<t, k>>].bad : Limit[d[2]] > 0 \/ <<t, d[1], d[2]>> \in Neutral
    /\ \A k \in InRaw(t) : k \in Held(t)

\* A night is judged clean only if the copies are right and no report computes anything
\* else, whatever was planted, committed late or stopped (parallel.py, NightResult.clean);
\* and a right night is judged clean: rows in flight, changes in place, the overlap, the
\* backfill and the repair of yesterday's fault raise no alarm (parallel.py:17-20).
CleanNightsAreRight ==
    [][Judged =>
        /\ Clean(Last) => logic = {} /\ \A t \in Table : CopyIsRight(t)
        /\ (~late' /\ planted = {} /\ ~AsDelivered /\ logic = {}) => Clean(Last)]_vars

\* The comparison finds what is wrong in the copy, all of it and nothing else, with its
\* class, on every night on which nothing went wrong outside (metrics.py, grade).
GradeIsPerfect == [][Judged /\ ~late => Perfect(Last.grade)]_vars

\* A report is left unexplained only for its own logic; and a column that computes
\* something else is not excused by another column's difference upstream (explain.py:12-20).
OnlyLogicIsUnexplained ==
    [][Judged => \A r \in Report :
        /\ r \in Last.unexplained /\ ~late => \E c \in ReportColumn : <<r, c>> \in logic
        /\ \A c \in ReportColumn :
            /\ <<r, c>> \in logic /\ r \notin Untraced /\ ~late'
            /\ \A d \in Depends[r][c] : d \notin Cells /\ d[1] \notin Rows
            => r \in Last.unexplained]_vars

\* The reports of a night are frozen from one snapshot, whatever commits meanwhile
\* (asof.py:69-71).
OneSnapshot == \A r, s \in Report : Frozen(r) /\ Frozen(s) => frozen[r] = frozen[s]

\* The document to be signed recommends the cutover if and only if the required nights
\* followed one another clean by its own lines, on the first night that completes them;
\* each of those nights ran the fixed job; it calls a planted fault tolerated only on a
\* night that did count as clean (report.py, "so its night counted as clean"); and it
\* shows that everything planted was found, and nothing else, when nothing went wrong
\* outside (parallel.py, decide; report.py, render).
CutoverIsEarned ==
    LET rows == UNION {Recorded(results[n]) : n \in DOMAIN results}
        clean(n) == NightLine(rows, n).clean
        earned(n) == n >= Required /\ \A o \in (n - Required + 1)..n : clean(o)
        verdict == Verdict(cutover[1])
        n == verdict.number
    IN  pc = "done" =>
        /\ IF verdict.recommended
           THEN /\ earned(n) /\ \A o \in DOMAIN results : o < n => ~earned(o)
                /\ \A o \in (n - Required + 1)..n : ~results[o].delivered
           ELSE /\ n < Required /\ \A o \in DOMAIN results : ~earned(o)
                /\ \A o \in (Len(results) - n + 1)..Len(results) : clean(o)
        /\ \A o \in DOMAIN results : clean(o) <=> Clean(results[o])
        /\ \A o \in Tolerated(rows) : clean(o)
        /\ UnexplainedRows(rows) # {} => logic # {} \/ mishaps > 0
        /\ mishaps = 0 => Perfect(Totals([o \in DOMAIN results |-> results[o].grade]))

\* "That pair fails its night with the reason, ... and the other pairs are compared as
\* usual" (specs.py:14-16): every night is recorded.
EveryNightIsRecorded == pc # "raised"
=============================================================================
