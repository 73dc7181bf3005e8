--------------------------- MODULE MCParallelRun ---------------------------
(* An instance of ParallelRun: one table the application changes in place,  *)
(* one the delivered job loses rows of, a report traced column by column    *)
(* and one that is not.                                                     *)
EXTENDS ParallelRun

CONSTANTS t1, t2, r1, r2

MCDepends ==
    [r \in {r1, r2} |-> IF r = r1
        THEN [c \in ReportColumn |-> IF c = "key" THEN {<<t1, "email">>} ELSE {<<t1, "amount">>}]
        ELSE [c \in ReportColumn |-> {<<t2, "email">>, <<t1, "amount">>}]]
MCLogic == {<<r1, "key">>}
MCHistory == {<<t1, 1>>, <<t2, 1>>, <<t2, 2>>}
MCChanging == {<<t1, 2>>}
MCComing == {<<t1, 3>>}
MCDefects == {<<t1, 1, "amount", "rounding">>, <<t1, 2, "email", "whitespace">>,
              <<t1, 3, "amount", "rounding">>}
MCLost == {<<t2, 2>>}
MCNeutral == {<<t2, "email", "case_only">>}
MCLimit == [c \in {"missing_in_target", "extra_in_target", "value_mismatch", "rounding",
                   "whitespace", "case_only"} |-> IF c = "rounding" THEN 2 ELSE 0]
Fault(t, class, column) == [table |-> t, class |-> class, column |-> column]
MCCatalogue == <<Fault(t1, "extra_in_target", ""), Fault(t1, "value_mismatch", "amount"),
                 Fault(t2, "case_only", "email"), Fault(t2, "missing_in_target", "")>>
MCDrifts == {{}, {r1}, {t2}}
=============================================================================
