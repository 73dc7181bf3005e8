--------------------------- MODULE MCSegmentDiff ---------------------------
(* An instance of SegmentDiff: two digits, three levels, a row a leaf. A   *)
(* table has one row per key and is compared as of its watermark; a report *)
(* is a frozen view, which may hold a key twice.                           *)
EXTENDS SegmentDiff

CONSTANTS k1, k2, k3, v1, v2

\* k1 and k2 part at the last digit, k3 parts from them at the first.
MCHash == [k \in {k1, k2, k3} |->
            CASE k = k1 -> [i \in 1..3 |-> 0]
              [] k = k2 -> [i \in 1..3 |-> IF i = 3 THEN 1 ELSE 0]
              [] k = k3 -> [i \in 1..3 |-> 1]]

Old(k, i, v) == [key |-> k, id |-> i, value |-> v, after |-> FALSE]
New(k, v) == [key |-> k, id |-> 1, value |-> v, after |-> TRUE]

\* What a key may be on <<legacy, copy>> of a table, and of a report.
TableKey(k) ==
    {<<{Old(k, 1, v1)}, {Old(k, 1, v1)}>>, <<{Old(k, 1, v2)}, {Old(k, 1, v1)}>>,
     <<{Old(k, 1, v1)}, {}>>, <<{}, {Old(k, 1, v1)}>>,
     <<{New(k, v2)}, {Old(k, 1, v1)}>>, <<{New(k, v2)}, {}>>, <<{}, {}>>}
ReportKey(k) ==
    LET once == {Old(k, 1, v1)}  twice == {Old(k, 1, v1), Old(k, 2, v1)}
    IN  {<<once, once>>, <<once, twice>>, <<twice, once>>, <<twice, twice>>,
         <<once, {Old(k, 1, v1), Old(k, 2, v2)}>>, <<{Old(k, 1, v2)}, once>>, <<{}, twice>>}

Nights(side(_), watermark) ==
    {[legacy |-> x[1] \cup y[1] \cup z[1], copy |-> x[2] \cup y[2] \cup z[2],
      asOf |-> watermark] : x \in side(k1), y \in side(k2), z \in side(k3)}

MCNight == Nights(TableKey, TRUE) \cup Nights(ReportKey, FALSE)
=============================================================================
