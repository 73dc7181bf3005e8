------------------------------ MODULE SignOff ------------------------------
(***************************************************************************)
(* The document that is signed before the cutover                          *)
(* (src/platform_ops/reconcile/report.py, render), read back from the      *)
(* tables of the ops store: reconcile_nights, a row per night and pair,    *)
(* [night, level, name, planted, passed, explained]; reconcile_grades, a   *)
(* record per night; and the one row of reconcile_cutover. It judges every *)
(* night again, from those rows, for its own "clean" column.               *)
(***************************************************************************)
EXTENDS Integers, FiniteSets, Functions

Nightly(rows, n) == {row \in rows : row.night = n}
Names(rows, level) == {row.name : row \in {r \in rows : r.level = level}}

\* "Night by night": the counts of a night, and whether it is shown as clean.
NightLine(rows, n) ==
    LET passing(level) == Cardinality({r \in Nightly(rows, n) : r.level = level /\ r.passed})
        tables == passing("table")
        reports == passing("report")
        unexplained == Cardinality({r \in Nightly(rows, n) : r.explained = "no"})
    IN  [tables |-> tables, reports |-> reports, unexplained |-> unexplained,
         clean |-> /\ tables = Cardinality(Names(rows, "table"))
                   /\ reports = Cardinality(Names(rows, "report"))
                   /\ unexplained = 0]

\* "Found but within the thresholds, so its night counted as clean": the nights named so.
Tolerated(rows) ==
    {n \in {r.night : r \in rows} : \A r \in Nightly(rows, n) : r.planted > 0 /\ r.passed}

\* "Detection over the whole run": what was planted, found, and found with its class.
Totals(grades) ==
    [expected |-> SumFunction([n \in DOMAIN grades |-> grades[n].expected]),
     detected |-> SumFunction([n \in DOMAIN grades |-> grades[n].detected]),
     hits |-> SumFunction([n \in DOMAIN grades |-> grades[n].hits]),
     correct |-> SumFunction([n \in DOMAIN grades |-> grades[n].correct])]

\* "Reports the tables do not explain": by night. None means that the marts reproduce
\* the legacy reports' logic.
UnexplainedRows(rows) == {<<r.night, r.name>> : r \in {x \in rows : x.explained = "no"}}

\* "Verdict": the night of the recommendation, or the streak the run ended with.
Verdict(cutover) ==
    IF cutover.recommended THEN [recommended |-> TRUE, number |-> cutover.night]
    ELSE [recommended |-> FALSE, number |-> cutover.streak]
=============================================================================
