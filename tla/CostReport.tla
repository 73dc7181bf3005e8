----------------------------- MODULE CostReport -----------------------------
(***************************************************************************)
(* The promises of the cost report, each checked on every input of a small *)
(* set: run_cost computes one report from what the company's run left, so  *)
(* a behaviour is one input, and the invariants relate what the operators  *)
(* make of it: a bill given as such, or what a window's work leaves.       *)
(***************************************************************************)
EXTENDS CostTables, OneInput

CONSTANTS
    Logs,        \* [log, again]: two readings of one query log
    Bills,       \* [queries, views, compute, storage, stored, start, days, cutover]
    Cutovers,    \* [compute, storage, start, days, cutover]
    Workloads,   \* the queries of a window
    DayLoads,    \* the sizes of a user's queries, day by day
    Windows      \* [seed, start, days, compute, storage, cutover]: the company's days

Collect   == Asked("log") /\ \E i \in Logs : input' = [case |-> "log", of |-> i]
Charge    == Asked("bill") /\ \E i \in Bills : input' = [case |-> "bill", of |-> i, report |-> Persisted(i)]
Advise    == Asked("window") /\ \E w \in Windows : \E bill \in {BillOf(w)} :
                 input' = [case |-> "window", of |-> bill, report |-> Persisted(bill),
                           advice |-> Advised(bill, Production(bill))]
Compare   == Asked("cutover") /\ \E i \in Cutovers : input' = [case |-> "cutover", of |-> i]
Recommend == Asked("workload") /\ \E i \in Workloads : input' = [case |-> "workload", of |-> i]
Suggest   == Asked("days") /\ \E i \in DayLoads : input' = [case |-> "days", of |-> i]

-----------------------------------------------------------------------------
\* The ids of the queries do not depend on the order in which the query log returns
\* them nor on the statements that are counted and not kept, which vary from run to
\* run (clickhouse_records); and no two queries have one id.
IdsDoNotMoveWithTheLog ==
    input.case = "log" =>
        LET kept(log) == SelectSeq(log, Kept)
        IN  ToBag(kept(input.of.log)) = ToBag(kept(input.of.again)) =>
                /\ Numbered(input.of.log) = Numbered(input.of.again)
                /\ Cardinality({r.id : r \in Numbered(input.of.log)}) = Len(kept(input.of.log))

Sharing(b) == [compute |-> Pools(b.compute, WindowMonths(b.start, b.days)),
               storage |-> Pools(b.storage, WindowMonths(b.start, b.days))]

\* How far apart the largest and the rounded shares can be: below it the remainder of
\* share() could exceed the largest share.
EnoughFor(total, n) == 2 * total >= n * (n - 1)

\* The tables the dashboards read say the same as the bill. A month's shared cost is what
\* its teams pay; the kinds of work of the cost page add up to everything but the storage;
\* what a team pays of a query is its share of it, within a quantum for each team that
\* pays. The replica is paid for to the day, without a gap, and the overlap is part of
\* what ClickHouse costs.
TablesAgree(bill, report) ==
    LET rows   == report.showback
        months == report.months
        case   == report.case
        usd    == report.queries
        storage == TotalOf({r \in rows : r.cost = "storage"})
    IN  /\ \A m \in DOMAIN months :
               /\ months[m].shared = TotalOf({r \in rows : r.month = m})
               /\ \A earlier \in DOMAIN months : earlier < m /\ case[m].legacyDays > 0 =>
                      case[earlier].legacyDays = case[earlier].days
        /\ SumFunction(report.workload) + storage = TotalOf(rows)
        /\ report.summary.overlap \in 0..SumFunction([m \in DOMAIN case |-> case[m].clickhouse])
        /\ \A q \in {p \in DOMAIN usd : usd[p] >= 0} :
               LET paid == PaidBy(bill.views, bill.queries[q], usd[q])
                   payers == {r \in report.shares : r.query = q}
               IN  /\ DOMAIN paid = {r.team : r \in payers} /\ Cardinality(payers) = Cardinality(DOMAIN paid)
                   /\ \A r \in payers :
                          (paid[r.team] * r.of - usd[q] * r.weight)
                              \in (1 - r.of)..(r.of * (Cardinality(payers) - 1))

\* Each month, what the teams pay for the cluster is the stated cost of its compute if
\* any query of the month read a byte, plus the stated cost of its disks if anything was
\* stored: split over the queries, then over the viewers, nothing is lost or charged
\* twice (ADR 0004), and no team is charged a negative amount. And what the company pays
\* for both systems grows with every night the cutover is put off, up to the whole bill
\* on the window's last night (business_case, overlap_usd). The disks of every month of a
\* window are charged: each has its snapshot (StorageWatch).
BillAddsUp ==
    /\ input.case = "window" => DOMAIN input.of.stored = DOMAIN Sharing(input.of).storage
    /\ input.case \in {"bill", "window"} => TablesAgree(input.of, input.report)
    /\ input.case \in {"bill", "window"} =>
        LET b       == input.of
            pools   == Sharing(b)
            readers(m) == {q \in InMonth(b.queries, m) : b.queries[q].bytes > 0}
            tables(m)  == IF m \in DOMAIN b.stored THEN Positive(b.stored[m]) ELSE {}
        IN  \A m \in DOMAIN pools.compute :
                LET rows == {r \in input.report.showback : r.month = m}
                IN  /\ TotalOf(rows) = (IF readers(m) = {} THEN 0 ELSE pools.compute[m])
                                           + (IF tables(m) = {} THEN 0 ELSE pools.storage[m])
                    /\ (/\ EnoughFor(pools.compute[m], Cardinality(readers(m)))
                        /\ EnoughFor(pools.storage[m], Cardinality(tables(m))))
                           => \A r \in rows : r.usd >= 0
    /\ input.case = "cutover" =>
        LET c     == input.of
            pools == Sharing(c)
            pool  == [m \in DOMAIN pools.compute |-> pools.compute[m] + pools.storage[m]]
            cost(day) == Overlap(pool, c.start, c.days, day)
            last  == c.start + c.days - 1
        IN  /\ cost(NoCutover) = SumFunction(pool)
            /\ cost(last) = cost(NoCutover)
            /\ c.cutover < last => cost(c.cutover) <= cost(c.cutover + 1)
            /\ c.cutover < c.start => cost(c.cutover) = 0

\* By when a warehouse that takes one query at a time has finished a job: the latest of
\* the waits its predecessors cause.
FinishOf(jobs, job) ==
    Max({k.at + MapThenSumSet(LAMBDA j : j.ticks,
            {j \in jobs : ~Submitted(j, k) /\ ~Submitted(job, j)}) :
                k \in {j \in jobs : ~Submitted(job, j)}})

\* Both ways to price the queries cover the work. A warehouse is billed for exactly the
\* time it is running: while a query runs, the queries served one at a time in the order
\* they came, and for the idle timeout after each; every query is priced once, and the
\* prices of a burst are the burst's cost, up to the rounding of each (ComputePricing).
\* And a scan is never billed below the bytes the query read, however they were divided
\* among its tables (_estimated, ScanPricing).
PricesCoverTheWork ==
    input.case \in {"bill", "window"} =>
        LET queries == input.of.queries
            jobs(w) == JobsOn(w, queries)
            bursts  == [w \in Range(Warehouse) |-> Bursts(jobs(w))]
            billed(w) == UNION {(b.started)..(b.ended + IdleTicks - 1) : b \in ToSet(bursts[w])}
            ran(w) == UNION {(FinishOf(jobs(w), j) - j.ticks)..(FinishOf(jobs(w), j) + IdleTicks - 1) :
                                    j \in jobs(w)}
        IN  /\ \A w \in Range(Warehouse) : billed(w) = ran(w)
            /\ \A q \in DOMAIN queries :
                   Cardinality({<<w, i>> \in Range(Warehouse) \X (1..Cardinality(DOMAIN queries)) :
                       /\ i \in DOMAIN bursts[w]
                       /\ \E j \in ToSet(bursts[w][i].jobs) : j.id = q}) = 1
            /\ \A w \in Range(Warehouse) : \A b \in ToSet(bursts[w]) :
                   LET cost == BurstSeconds(b) * QuantaPerSecond
                       paid == SumFunction(BurstPrices(b))
                   IN  BurstTicks(b) > 0 =>
                           2 * (IF paid > cost THEN paid - cost ELSE cost - paid) <= Len(b.jobs)
            /\ \A q \in DOMAIN queries :
                   ScanPrice(queries[q]) >= QuantaPerByte * queries[q].bytes

\* What a suggested daily quota and limit allow, for the sizes of a user's queries.
RoomFor(days) ==
    LET tight == {d \in DOMAIN days : 2 * DayTotals(days)[d] > Quota(days)}
    IN  /\ 20 * Cardinality(tight) <= Len(days)
        /\ \A d \in DOMAIN days : \A i \in DOMAIN days[d] : 2 * days[d][i] <= QueryLimit(days)

\* Following the recommendations breaks nobody. A table that is dropped is neither read
\* since the lookback nor above one that was, and a longer lookback only drops fewer
\* (unused_tables). A suggested daily quota would have stopped the user on at most one
\* day in twenty, and had room for twice the day on the others; the suggested limit has
\* room for twice the largest query of any day; and every query a person or a dashboard
\* sends counts for one user, or for none when the user runs the pipeline (quotas). A
\* table to sort again is one somebody reads, and is still sorted by all it was sorted
\* by, in that order; where the key deduplicates it stays (Hotspot.suggestion). A model
\* to build incrementally costs no less than any that is not listed, and what is below it
\* is ruled out with it (incremental_candidates).
SuggestionsBreakNobody ==
    /\ input.case \in {"workload", "window"} =>
          LET q == IF input.case = "window" THEN input.of.queries ELSE input.of
              days == {q[i].day : i \in DOMAIN q}
          IN  \A since \in days :
                  /\ \A t \in ReadSince(q, since) :
                         (IF t \in Model THEN TableAbove[t] \cup {t} ELSE {t})
                             \cap Unused(q, since) = {}
                  /\ \A earlier \in {d \in days : d <= since} :
                         Unused(q, earlier) \subseteq Unused(q, since)
    /\ input.case = "days" => RoomFor(input.of)
    /\ input.case = "window" =>
          LET bill == input.of
              q    == bill.queries
              quotas   == input.advice.quotas
              listed   == input.advice.incremental
              models   == {listed[i].model : i \in DOMAIN listed}
              cost     == input.advice.production
              unused   == input.advice.unused
          IN  /\ PipelineTeam \cap DOMAIN quotas = {}
              /\ \A u \in DOMAIN quotas : RoomFor(UserDays(q, u))
              /\ \A i \in DOMAIN q : UserOf(q[i]) # {} =>
                     /\ q[i].actor \in Consumers /\ Cardinality(UserOf(q[i])) = 1
                     /\ \A u \in UserOf(q[i]) : 2 * q[i].bytes <= quotas[u].limit
              /\ \A r \in unused : \A n \in Lookbacks : n <= r.lookback =>
                     [r EXCEPT !.lookback = n] \in unused
              /\ \A h \in input.advice.hotspots :
                     LET key == Catalogue[h.table].key
                         rest(s) == SelectSeq(s, LAMBDA c : c # h.column)
                     IN  /\ h.table \notin Unused(q, bill.start)
                         /\ rest(h.suggestion) = rest(key)
                         /\ Catalogue[h.table].replacing => h.suggestion = key
              /\ \A i \in DOMAIN listed :
                     /\ \A m \in (DOMAIN cost \cap Model \cap InFull) \ models : cost[m] <= listed[i].usd
                     /\ \A j \in DOMAIN listed :
                            listed[i].candidate /\ listed[j].model \in TableAbove[listed[i].model] =>
                                listed[j].candidate
=============================================================================
