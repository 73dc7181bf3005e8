----------------------------- MODULE CostAdvice -----------------------------
(***************************************************************************)
(* The other recommendations of src/platform_ops/cost/recommend.py, from   *)
(* the work of a window: tables whose sort key serves nobody, models to    *)
(* build incrementally, and each user's quota.                             *)
(***************************************************************************)
EXTENDS QueryWork

CONSTANTS
    MinTableBytes, MinReads,    \* settings.recommendations.hotspot_*
    TopN,                       \* ... .incremental_top_n
    InFull,                     \* the models neither incremental, views nor abandoned
    ChangedInPlace,             \* the sources ops.source_changes names
    PipelineTeam                \* the teams whose users run the pipeline (ACTOR_USERS)

\* hotspots: the consumers' reads of a table alone that filter a column of it and still
\* scan nine tenths of it.
HotReads(queries, t, c) ==
    {q \in DOMAIN queries :
        /\ queries[q].tables = {t}
        /\ \E f \in Filters(queries) : f[1] = q /\ f[2] = t /\ c \in f[3]
        /\ Catalogue[t].rows > 0 /\ Catalogue[t].bytes >= MinTableBytes
        /\ 10 * queries[q].rows >= 9 * Catalogue[t].rows}

Hotspots(queries) ==
    {h \in UNION {{<<f[2], c>> : c \in f[3]} : f \in Filters(queries)} :
        Cardinality(HotReads(queries, h[1], h[2])) >= MinReads}

\* Hotspot.suggestion: the sort key the table would have.
SuggestedKey(t, c) ==
    IF Catalogue[t].replacing THEN Catalogue[t].key
    ELSE <<c>> \o SelectSeq(Catalogue[t].key, LAMBDA k : k # c)

\* gather: what producing each node cost, its queries and its storage.
Production(bill) ==
    LET months  == WindowMonths(bill.start, bill.days)
        usd     == ComputeShares(Pools(bill.compute, months), bill.queries)
        storage == StorageShares(Pools(bill.storage, months), bill.stored)
        making(n) == {q \in DOMAIN usd : LET a == Attributed(bill.queries[q])
                                         IN  a.cost = "production" /\ a.subject = n}
        keeping(n) == {m \in DOMAIN storage : n \in DOMAIN storage[m]}
    IN  [n \in {k \in Model \cup DOMAIN Catalogue : making(k) # {} \/ keeping(k) # {}} |->
            SumFunctionOnSet(usd, making(n)) + MapThenSumSet(LAMBDA m : storage[m][n], keeping(n))]

\* incremental_candidates: the most expensive models built in full, dearest first ...
Ranked(production) ==
    LET dearer(m, n) == production[m] > production[n] \/ (production[m] = production[n] /\ m < n)
        all == InOrder(DOMAIN production \cap Model \cap InFull, dearer)
    IN  SubSeq(all, 1, Min({TopN, Len(all)}))

\* ... and the sources, however far up, that rule one out.
BlockedBy(m) == (TableAbove[m] \ Model) \cap ChangedInPlace

Metabase == -1      \* the dashboards' user; a person's is their team

\* quotas: whom a consumer's query is counted for; nobody when they run the pipeline too.
UserOf(q) ==
    IF q.actor = "dashboard" THEN {Metabase}
    ELSE IF q.actor = "adhoc" /\ q.person \in Analysts \cap DOMAIN TeamOf
         THEN {TeamOf[q.person]} \ PipelineTeam
    ELSE {}

\* The sizes of a user's queries, active day by active day.
UserDays(queries, user) ==
    LET own == {q \in DOMAIN queries : user \in UserOf(queries[q])}
        active == InOrder({queries[q].day : q \in own}, <)
        of(d) == InOrder({q \in own : queries[q].day = d}, <)
    IN  [i \in DOMAIN active |-> [j \in DOMAIN of(active[i]) |-> queries[of(active[i])[j]].bytes]]
=============================================================================
