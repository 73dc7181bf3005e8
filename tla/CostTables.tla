----------------------------- MODULE CostTables -----------------------------
(***************************************************************************)
(* What the cost report keeps for the dashboards                           *)
(* (src/platform_ops/cost/run.py, _derived and _persist): the rows of each *)
(* of its tables, and the sums the cost page shows of them                 *)
(* (src/dashboards/pages/cost.py). Amounts are those of the cluster model. *)
(***************************************************************************)
EXTENDS CostAdvice

CONSTANTS
    LegacyStated,   \* settings.cost.legacy_reporting: [compute, storage]
    Lookbacks,      \* settings.recommendations.unused_lookback_days
    MonthlyQuanta   \* what a monthly saving is rounded to

ASSUME TablesAssumption ==
    Lookbacks \subseteq Nat \ {0} /\ MonthlyQuanta \in Nat \ {0}

Months(bill) == WindowMonths(bill.start, bill.days)

\* What was shared out of every pool: the costs of the queries and of the tables.
QueryCosts(bill) == ComputeShares(Pools(bill.compute, Months(bill)), bill.queries)
TableCosts(bill) == StorageShares(Pools(bill.storage, Months(bill)), bill.stored)

\* cost_months, of the costs of the queries and the tables.
CostMonths(bill, queries, tables) ==
    LET months  == Months(bill)
        compute == Pools(bill.compute, months)
        storage == Pools(bill.storage, months)
    IN  [m \in DOMAIN months |->
            [days |-> months[m], stated |-> compute[m] + storage[m],
             shared |-> SumFunctionOnSet(queries, InMonth(bill.queries, m) \cap DOMAIN queries)
                        + (IF m \in DOMAIN tables THEN SumFunction(tables[m]) ELSE 0)]]

\* cost_business_case: both systems, month by month.
CaseMonths(bill, months, queries) ==
    LET legacy   == LegacyMonths(bill.start, bill.days, bill.cutover)
        compute  == Pools(LegacyStated.compute, legacy)
        storage  == Pools(LegacyStated.storage, legacy)
        compared(m) == {q \in InMonth(bill.queries, m) \cap DOMAIN queries : bill.queries[q].actor = "reconcile"}
    IN  [m \in DOMAIN months |->
            [days |-> months[m].days, clickhouse |-> months[m].stated,
             legacyDays |-> IF m \in DOMAIN legacy THEN legacy[m] ELSE 0,
             legacy |-> IF m \in DOMAIN legacy THEN compute[m] + storage[m] ELSE 0,
             reconcile |-> SumFunctionOnSet(queries, compared(m))]]

\* cost_business_summary: months until the saving has paid for the overlap, in tenths.
NoPayback == -1
CaseSummary(bill, case) ==
    LET saving  == LegacyStated.compute + LegacyStated.storage - bill.compute - bill.storage
        overlap == Overlap([m \in DOMAIN case |-> case[m].clickhouse], bill.start, bill.days, bill.cutover)
    IN  [saving |-> saving, overlap |-> overlap,
         payback |-> IF saving <= 0 THEN NoPayback ELSE HalfEven(10 * overlap, saving)]

\* cost_unused: what dropping a table would save in a month of MonthDays days.
UnusedRows(bill, cost) ==
    LET saving(m) == IF m \in DOMAIN cost
                     THEN MonthlyQuanta * HalfEven(cost[m] * MonthDays, bill.days * MonthlyQuanta) ELSE 0
    IN  UNION {{[lookback |-> n, model |-> m, team |-> TeamOwning(m), saving |-> saving(m)] :
                   m \in Unused(bill.queries, bill.start + bill.days - n)} : n \in Lookbacks}

\* cost_hotspots
HotspotRows(queries) ==
    {LET reads == HotReads(queries, h[1], h[2])
     IN  [table |-> h[1], column |-> h[2], reads |-> Cardinality(reads),
          bytes |-> MapThenSumSet(LAMBDA q : queries[q].bytes, reads),
          suggestion |-> SuggestedKey(h[1], h[2])] : h \in Hotspots(queries)}

\* cost_incremental: by rank.
IncrementalRows(cost) ==
    [rank \in DOMAIN Ranked(cost) |->
        LET m == Ranked(cost)[rank] IN [model |-> m, usd |-> cost[m], candidate |-> BlockedBy(m) = {}]]

\* cost_quotas: by user.
QuotaRows(queries) ==
    LET days(u) == UserDays(queries, u)
    IN  [u \in UNION {UserOf(queries[q]) : q \in DOMAIN queries} |->
            [active |-> Len(days(u)), quota |-> Quota(days(u)), limit |-> QueryLimit(days(u))]]

\* query_attribution: a row per query and team that pays, with its share as weight / of.
AttributionRows(bill) ==
    UNION {LET weights == ViewerWeights(bill.views, bill.queries[q])
               whole == SumFunction(weights)
           IN  IF DOMAIN weights = {}
               THEN {[query |-> q, team |-> Attributed(bill.queries[q]).team, weight |-> 1, of |-> 1]}
               ELSE {[query |-> q, team |-> t, weight |-> weights[t], of |-> whole] : t \in DOMAIN weights} :
           q \in DOMAIN bill.queries}

-----------------------------------------------------------------------------
\* pages/cost.py

\* cost_showback, whole: by month, team, kind of cost and kind of work.
ShowbackRows(bill, queries, tables) ==
    LET of(m) == Showback(bill.views, bill.queries, queries, tables, m)
    IN  UNION {{[month |-> m, team |-> k[1], cost |-> k[2], actor |-> k[3], usd |-> of(m)[k]] :
                   k \in DOMAIN of(m)} : m \in DOMAIN Months(bill)}

TotalOf(rows) == MapThenSumSet(LAMBDA r : r.usd, rows)

\* "By workload": the log's kinds of work, with what the showback says of each.
WorkloadTable(bill, rows) ==
    [a \in {bill.queries[q].actor : q \in DOMAIN bill.queries} |-> TotalOf({r \in rows : r.actor = a})]

-----------------------------------------------------------------------------
\* What run_cost stores, and the cost page's sums of it.
Persisted(bill) ==
    LET queries == QueryCosts(bill)
        tables  == TableCosts(bill)
        rows    == ShowbackRows(bill, queries, tables)
        months  == CostMonths(bill, queries, tables)
        case    == CaseMonths(bill, months, queries)
    IN  [queries |-> queries, tables |-> tables, showback |-> rows, months |-> months,
         case |-> case, summary |-> CaseSummary(bill, case), workload |-> WorkloadTable(bill, rows),
         shares |-> AttributionRows(bill)]

\* What it advises, given what producing each node cost.
Advised(bill, cost) ==
    [production |-> cost, unused |-> UnusedRows(bill, cost), hotspots |-> HotspotRows(bill.queries),
     incremental |-> IncrementalRows(cost), quotas |-> QuotaRows(bill.queries)]
=============================================================================
