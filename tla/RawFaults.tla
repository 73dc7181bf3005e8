----------------------------- MODULE RawFaults -----------------------------
(***************************************************************************)
(* What breaks raw data on ClickHouse in production                        *)
(* (src/platform_ops/simulation/faults.py), what the loader makes of it    *)
(* (simulation/ingest.py) and which checks see it (dbt/tests/generic,      *)
(* dbt/models/sources.yml).                                                *)
(*                                                                         *)
(* The copy of a table is what is wrong in its old rows (marks), and the   *)
(* nights its rows were loaded in, the value of _loaded_at: loads, and the *)
(* ones among them that wrote NULL into a column: nulled. Time is counted  *)
(* in slots, Slots to a day.                                               *)
(***************************************************************************)
EXTENDS Integers, FiniteSets

CONSTANTS
    Slots,
    Fault, TypeOf, TableOf, ColumnOf,   \* the catalogue
    Sees,          \* the marks that make a check fail: [check -> SUBSET (table \X mark)]
    VolumeOf,      \* the tables with a recent_volume test, by test
    ProfileOf,     \* the tables with a column_profile test, by test
    ErrorAfter,    \* the freshness rule of a source, in slots
    UsualDays      \* the days recent_volume and column_profile compare with: 7

Mark == {"nulls", "values", "orphans", "rows", "column"}

ASSUME RawFaultsAssumption ==
    /\ Slots \in Nat \ {0} /\ UsualDays \in Nat \ {0}
    /\ {DOMAIN TypeOf, DOMAIN TableOf, DOMAIN ColumnOf} = {Fault}
    /\ \A check \in DOMAIN Sees : \A seen \in Sees[check] : seen[2][1] \in Mark

Latest(copy) == CHOOSE at \in copy.loads : \A other \in copy.loads : other <= at

\* Fault.stops_loader, Fault.loads_nulls.
StopsLoader(f) == TypeOf[f] \in {"stale_source", "schema_drop", "schema_rename"}
LoadsNulls(f) == TypeOf[f] = "loader_nulls"

\* plant: a statement on the raw table, none for a feed that stops or a loader that
\* writes NULLs from its next load on.
MarksOf(f) ==
    CASE TypeOf[f] = "null_spike" -> {<<"nulls", ColumnOf[f]>>}
      [] TypeOf[f] = "invalid_category" -> {<<"values", ColumnOf[f]>>}
      [] TypeOf[f] = "orphan_keys" -> {<<"orphans", "">>}
      [] TypeOf[f] = "volume_drop" -> {<<"rows", "">>}
      [] TypeOf[f] \in {"schema_drop", "schema_rename"} -> {<<"column", ColumnOf[f]>>}
      [] OTHER -> {}

AfterFault(raw, f) == [raw EXCEPT ![TableOf[f]].marks = @ \cup MarksOf(f)]

\* Ingestion.load: the tables that can be loaded take the night's rows. What is
\* wrong in the old rows stays: no load reads them again.
AfterLoad(raw, active, at) ==
    LET of(t) == {f \in active : TableOf[f] = t}
    IN  [t \in DOMAIN raw |->
            IF \E f \in of(t) : StopsLoader(f) THEN raw[t]
            ELSE [raw[t] EXCEPT !.loads = @ \cup {at},
                                !.nulled = @ \cup IF \E f \in of(t) : LoadsNulls(f)
                                                  THEN {at} ELSE {}]]

\* Ingestion.resync: the table is created again and reloaded, every row stamped with
\* the latest load before.
AfterResync(raw, tables, at) ==
    [t \in DOMAIN raw |-> IF t \in tables THEN [marks |-> {}, loads |-> {at}, nulled |-> {}]
                          ELSE raw[t]]

-----------------------------------------------------------------------------
(* The checks. "Now" of the volume and profile tests is the data's own:    *)
(* the latest load of any table.                                           *)

Anchor(raw) ==
    CHOOSE at \in {Latest(raw[t]) : t \in DOMAIN raw} : \A t \in DOMAIN raw : Latest(raw[t]) <= at

Today(raw, nights) == {at \in nights : at > Anchor(raw) - Slots}
DaysBefore(raw, nights) ==
    {at \in nights : at <= Anchor(raw) - Slots /\ at > Anchor(raw) - (UsualDays + 1) * Slots}

\* recent_volume: nothing loaded today, although more than half of the days before
\* have rows (a day without counts as zero).
VolumeFails(raw, t) ==
    /\ Today(raw, raw[t].loads) = {}
    /\ 2 * Cardinality(DaysBefore(raw, raw[t].loads)) > UsualDays

\* column_profile: today's rows are NULL, those of the usual day (of those with rows) not.
ProfileFails(raw, t) ==
    LET before == Cardinality(DaysBefore(raw, raw[t].loads))
    IN  /\ Today(raw, raw[t].nulled) # {}
        /\ before - Cardinality(DaysBefore(raw, raw[t].nulled)) > before \div 2

\* collect_freshness, on simulated time.
FreshnessFails(raw, t, at) == at - Latest(raw[t]) > ErrorAfter[t]

\* The checks that fail at a time, were all of them run.
Broken(raw, at) ==
    {n \in DOMAIN Sees : \E seen \in Sees[n] : seen[2] \in raw[seen[1]].marks}
    \cup {n \in DOMAIN VolumeOf : VolumeFails(raw, VolumeOf[n])}
    \cup {n \in DOMAIN ProfileOf : ProfileFails(raw, ProfileOf[n])}
    \cup {t \in DOMAIN ErrorAfter : FreshnessFails(raw, t, at)}
=============================================================================
