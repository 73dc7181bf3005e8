------------------------------ MODULE CostBill ------------------------------
(***************************************************************************)
(* The cost report of a company run (src/platform_ops/cost): the queries   *)
(* read back from the query log and numbered (collect.py), priced          *)
(* (cluster.py, pricing.py), charged to teams (attribution.py) and summed  *)
(* per month and team (run.py); the business case (business.py) and the    *)
(* recommendations (recommend.py).                                         *)
(*                                                                         *)
(* Money is counted in quanta of 1e-12 dollars, which every amount is      *)
(* rounded to. A month has MonthDays days and a second SecondTicks ticks.  *)
(* Teams, nodes and queries are numbers, in the order of their names; team *)
(* 0 is "unattributed" and node 0 stands for no node; a table is the node  *)
(* stored in it. Query text, redaction and parsing are left out.           *)
(***************************************************************************)
EXTENDS Integers, SequencesExt

CONSTANTS
    MonthDays, SecondTicks,
    Platform,       \* the platform team
    OwnerOf,        \* registry.resolve(node).rule.team, for the owned nodes
    TeamOf,         \* registry.team_of, for the people in the registry
    Attached,       \* attached_node of the tests; 0 for a test on no model
    Model,          \* the models among the nodes
    TableAbove,     \* lineage.upstream of every model, sources included
    Overhead, Throughput,                          \* settings.cost
    IdleTicks, MinimumSeconds, QuantaPerSecond,    \* settings.pricing.compute
    MinimumBytes, QuantaPerByte,                   \* settings.pricing.scan
    Warehouse                                      \* rates.warehouses

ASSUME CostAssumption ==
    /\ MonthDays \in Nat \ {0} /\ SecondTicks \in Nat \ {0} /\ Throughput \in Nat \ {0}
    /\ Overhead \in Nat /\ IdleTicks \in Nat /\ MinimumSeconds \in Nat

Unattributed == 0
NoNode == 0
Consumers == {"dashboard", "adhoc"}
Billed == {"Select", "Insert"}

Month(day) == day \div MonthDays

\* Decimal.quantize: to the nearest quantum, a half to the even one.
HalfEven(n, d) ==
    LET q == n \div d
        r == 2 * (n % d)
    IN  IF r > d \/ (r = d /\ q % 2 = 1) THEN q + 1 ELSE q

Positive(weights) == {k \in DOMAIN weights : weights[k] > 0}

\* The largest weight, the smallest key among equals.
Largest(weights) ==
    Min({k \in DOMAIN weights : \A j \in DOMAIN weights : weights[j] <= weights[k]})

\* A set in the order of its elements, all of them comparable.
InOrder(S, before(_, _)) ==
    [i \in 1..Cardinality(S) |-> CHOOSE x \in S : Cardinality({y \in S : before(y, x)}) = i - 1]

-----------------------------------------------------------------------------
\* collect.py: numbering what the query log holds.
\* An entry is [at, actor, what, kind, system]: its simulated time, its kind of
\* work, the rest of its sort key as a number, its statement kind, and whether
\* it read system tables only.

Precedes(a, b) ==
    \/ a.at < b.at
    \/ a.at = b.at /\ a.actor < b.actor
    \/ a.at = b.at /\ a.actor = b.actor /\ a.what < b.what

Kept(e) == e.kind \in Billed /\ ~e.system

SameNumbering(a, b) == a.at = b.at /\ a.actor = b.actor

\* Mutant of Numbered: the statements that are not kept take a number too.
NumberedAll(log) ==
    LET ordered == SortSeq(log, Precedes)
        seq(i) == Cardinality({j \in 1..(i - 1) : SameNumbering(ordered[j], ordered[i])})
    IN  {[id |-> <<ordered[i].at, ordered[i].actor, seq(i)>>, what |-> ordered[i].what] :
            i \in {j \in DOMAIN ordered : Kept(ordered[j])}}

\* clickhouse_records: an id is a time, a kind of work and a sequence number.
Numbered(log) ==
    LET ordered == SortSeq(SelectSeq(log, Kept), Precedes)
        seq(i) == Cardinality({j \in 1..(i - 1) : SameNumbering(ordered[j], ordered[i])})
    IN  {[id |-> <<ordered[i].at, ordered[i].actor, seq(i)>>, what |-> ordered[i].what] :
            i \in DOMAIN ordered}

-----------------------------------------------------------------------------
\* cluster.py: the stated monthly cost, prorated and shared.

WindowMonths(start, days) ==
    LET offsets == 0..(days - 1)
    IN  [m \in {Month(start + o) : o \in offsets} |->
            Cardinality({o \in offsets : Month(start + o) = m})]

Pools(stated, months) == [m \in DOMAIN months |-> HalfEven(stated * months[m], MonthDays)]

\* Mutant of Share: the rounding remainder is lost.
ShareRounded(total, weights) ==
    LET whole == SumFunctionOnSet(weights, Positive(weights))
    IN  [k \in Positive(weights) |-> HalfEven(total * weights[k], whole)]

Share(total, weights) ==
    LET positive == Restrict(weights, Positive(weights))
        whole    == SumFunction(positive)
        rounded  == [k \in DOMAIN positive |-> HalfEven(total * positive[k], whole)]
    IN  IF DOMAIN positive = {} THEN positive
        ELSE [rounded EXCEPT ![Largest(positive)] = @ + total - SumFunction(rounded)]

\* A query is [actor, node, person, day, bytes, tables, kind]; queries are indexed by id.
InMonth(queries, m) == {q \in DOMAIN queries : Month(queries[q].day) = m}

ComputeShares(pools, queries) ==
    LET shares(m) == Share(pools[m], [q \in InMonth(queries, m) |-> queries[q].bytes])
    IN  [q \in {p \in DOMAIN queries : queries[p].bytes > 0
                                       /\ Month(queries[p].day) \in DOMAIN pools} |->
            shares(Month(queries[q].day))[q]]

\* stored[m][t]: the bytes of table t in the snapshot at the end of month m.
StorageShares(pools, stored) ==
    [m \in DOMAIN pools \cap DOMAIN stored |-> Share(pools[m], stored[m])]

-----------------------------------------------------------------------------
\* attribution.py: who pays for a query.

SubjectOf(node) == IF node \in DOMAIN Attached THEN Attached[node] ELSE node

TeamOwning(node) == IF node \in DOMAIN OwnerOf THEN OwnerOf[node] ELSE Unattributed

TeamOfPerson(p) == IF p \in DOMAIN TeamOf THEN TeamOf[p] ELSE Unattributed

Attributed(q) ==
    CASE q.actor = "dbt" ->
            [cost |-> "production", subject |-> SubjectOf(q.node),
             team |-> IF SubjectOf(q.node) = NoNode THEN Platform ELSE TeamOwning(SubjectOf(q.node))]
      [] q.actor \in {"ingestion", "maintenance"} ->
            [cost |-> "production", subject |-> q.node, team |-> TeamOwning(q.node)]
      [] q.actor = "reconcile" ->
            [cost |-> "migration", subject |-> q.node, team |-> Platform]
      [] q.actor = "dashboard" ->
            [cost |-> "consumption", subject |-> q.node, team |-> TeamOwning(q.node)]
      [] q.actor = "adhoc" ->
            [cost |-> "consumption", subject |-> NoNode, team |-> TeamOfPerson(q.person)]

\* views: the set of openings [n, day, node, person]; the weights of a refresh are
\* the views of its dashboard in its month, by team.
ViewerWeights(views, q) ==
    LET seen == {v \in views : /\ v.node = q.node
                               /\ Month(v.day) = Month(q.day)
                               /\ v.person \in DOMAIN TeamOf}
    IN  IF q.actor # "dashboard" THEN [t \in {} |-> 0]
        ELSE [t \in {TeamOf[v.person] : v \in seen} |->
                Cardinality({v \in seen : TeamOf[v.person] = t})]

Split(usd, weights) ==
    LET whole == SumFunction(weights)
        parts == [t \in DOMAIN weights |-> (usd * weights[t]) \div whole]
    IN  [parts EXCEPT ![Largest(weights)] = @ + usd - SumFunction(parts)]

\* CostData.shares
PaidBy(views, q, usd) ==
    LET weights == ViewerWeights(views, q)
    IN  IF DOMAIN weights = {} THEN [t \in {Attributed(q).team} |-> usd]
        ELSE Split(usd, weights)

\* _persist: the rows of cost_showback for one month, what every team pays by kind of cost
\* and kind of work.
Showback(views, queries, usd, storage, m) ==
    LET paid(q) == PaidBy(views, queries[q], usd[q])
        parts   == UNION {{[of |-> q, team |-> t, cost |-> Attributed(queries[q]).cost,
                            actor |-> queries[q].actor, usd |-> paid(q)[t]] : t \in DOMAIN paid(q)} :
                                q \in InMonth(queries, m) \cap DOMAIN usd}
        kept    == {[of |-> t, team |-> TeamOwning(t), cost |-> "storage", actor |-> "storage",
                     usd |-> storage[m][t]] :
                        t \in IF m \in DOMAIN storage THEN DOMAIN storage[m] ELSE {}}
        rows    == parts \cup kept
    IN  [k \in {<<r.team, r.cost, r.actor>> : r \in rows} |->
            MapThenSumSet(LAMBDA r : r.usd, {r \in rows : <<r.team, r.cost, r.actor>> = k})]

-----------------------------------------------------------------------------
\* pricing.py: the same queries by scan and by warehouse.

\* _estimated: the bytes of a query, divided among its tables.
TableBytes(q) ==
    LET n == IF q.tables = {} THEN 1 ELSE Cardinality(q.tables)
    IN  [i \in 1..n |-> (q.bytes \div n) + (IF i = 1 THEN q.bytes % n ELSE 0)]

ScanPrice(q) ==
    QuantaPerByte * SumFunction([i \in DOMAIN TableBytes(q) |-> Max({MinimumBytes, TableBytes(q)[i]})])

\* _estimated: how long a query runs on a warehouse.
Modelled(q) == Overhead + (q.bytes * SecondTicks) \div Throughput

\* A job is [id, at, ticks]. Mutant of NextBurst: a query does not wait for the one
\* before it.
NextBurstNoQueue(bursts, job) ==
    LET n == Len(bursts)
    IN  IF n > 0 /\ job.at <= bursts[n].ended + IdleTicks
        THEN [bursts EXCEPT ![n] = [@ EXCEPT !.ended = job.at + job.ticks,
                                             !.jobs = Append(@, job)]]
        ELSE Append(bursts, [started |-> job.at, ended |-> job.at + job.ticks, jobs |-> <<job>>])

NextBurst(bursts, job) ==
    LET n == Len(bursts)
    IN  IF n > 0 /\ job.at <= bursts[n].ended + IdleTicks
        THEN [bursts EXCEPT ![n] = [@ EXCEPT !.ended = Max({job.at, @}) + job.ticks,
                                             !.jobs = Append(@, job)]]
        ELSE Append(bursts, [started |-> job.at, ended |-> job.at + job.ticks, jobs |-> <<job>>])

Submitted(a, b) == a.at < b.at \/ (a.at = b.at /\ a.id < b.id)

\* The running periods of one warehouse, from the jobs it was sent.
Bursts(jobs) == FoldLeft(NextBurst, <<>>, InOrder(jobs, Submitted))

BurstSeconds(burst) ==
    LET running == burst.ended - burst.started + IdleTicks
    IN  Max({MinimumSeconds, (running + SecondTicks - 1) \div SecondTicks})

BurstTicks(burst) == SumFunction([i \in DOMAIN burst.jobs |-> burst.jobs[i].ticks])

BurstPrices(burst) ==
    [i \in DOMAIN burst.jobs |->
        IF BurstTicks(burst) = 0 THEN 0
        ELSE HalfEven(BurstSeconds(burst) * QuantaPerSecond * burst.jobs[i].ticks, BurstTicks(burst))]

\* The jobs of each warehouse: every kind of work has one.
JobsOn(warehouse, queries) ==
    {[id |-> q, at |-> queries[q].at, ticks |-> Modelled(queries[q])] :
        q \in {p \in DOMAIN queries : Warehouse[queries[p].actor] = warehouse}}

-----------------------------------------------------------------------------
\* business.py: the legacy replica runs until the cutover, ClickHouse throughout.

NoCutover == -1

LegacyMonths(start, days, cutover) ==
    WindowMonths(start, IF cutover = NoCutover THEN days ELSE Max({0, cutover - start + 1}))

\* overlap_usd: what ClickHouse cost while the replica still served; pool[m] is
\* ClickHouse's prorated cost in month m. Only the total is rounded.
Overlap(pool, start, days, cutover) ==
    LET months == WindowMonths(start, days)
        legacy == LegacyMonths(start, days, cutover)
        whole  == ProductSet({months[m] : m \in DOMAIN months})
    IN  HalfEven(MapThenSumSet(LAMBDA m : pool[m] * legacy[m] * (whole \div months[m]),
                               DOMAIN months \cap DOMAIN legacy), whole)

-----------------------------------------------------------------------------
\* recommend.py

\* The models dbt wrote, with their tests' models (Owners.subject).
Written(queries) ==
    {SubjectOf(queries[q].node) : q \in {p \in DOMAIN queries :
        queries[p].actor = "dbt" /\ queries[p].kind = "Insert"}} \cap Model

ReadSince(queries, since) ==
    UNION {queries[q].tables : q \in {p \in DOMAIN queries :
        queries[p].actor \in Consumers /\ queries[p].day >= since}}

\* Mutant of Unused: only what is read itself counts as used.
UnusedByItself(queries, since) == Written(queries) \ ReadSince(queries, since)

Unused(queries, since) ==
    LET read == ReadSince(queries, since)
    IN  {m \in Written(queries) \ read : \A t \in read \cap DOMAIN TableAbove : m \notin TableAbove[t]}

\* Two significant figures, up.
RoundUp(value) ==
    LET large == {k \in 1..8 : value >= 10^(k + 1)}
        unit  == IF large = {} THEN 1 ELSE 10^Max(large)
    IN  IF value <= 0 THEN 0 ELSE ((value + unit - 1) \div unit) * unit

P95(days) ==
    LET ordered == SortSeq(days, <)
    IN  ordered[Max({0, (19 * Len(days) + 19) \div 20 - 1}) + 1]

\* A user's daily quota and per-query limit, with a headroom of 2; days[d] are the
\* sizes of the queries of an active day.
DayTotals(days) == [d \in DOMAIN days |-> SumFunction(days[d])]

Quota(days) == RoundUp(2 * P95(DayTotals(days)))

QueryLimit(days) ==
    RoundUp(2 * Max(UNION {{days[d][i] : i \in DOMAIN days[d]} : d \in DOMAIN days}))
=============================================================================
