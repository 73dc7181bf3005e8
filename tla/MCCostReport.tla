---------------------------- MODULE MCCostReport ----------------------------
(***************************************************************************)
(* Three teams (platform 1, payments 2, growth 3), two sources (11, 12),   *)
(* three models (21 <- 11, 22 <- 21, 23 <- 12), a test (41 on 22) and one  *)
(* on no model (42), and two dashboards (31, 32). A month has four days.   *)
(***************************************************************************)
EXTENDS CostReport

MCOwnerOf == (11 :> 2 @@ 12 :> 3 @@ 21 :> 2 @@ 22 :> 2 @@ 31 :> 3 @@ 32 :> 2)    \* 23 is owned by nobody
MCTeamOf == [lena |-> 2, maya |-> 3, sam |-> 1]
MCAttached == (41 :> 22 @@ 42 :> 0)
MCTableAbove == (21 :> {11} @@ 22 :> {11, 21} @@ 23 :> {12})
MCWarehouse == [dbt |-> "transform", ingestion |-> "transform", maintenance |-> "transform",
                reconcile |-> "transform", dashboard |-> "bi", adhoc |-> "adhoc"]

Entries == {[at |-> 1, actor |-> 1, what |-> 1, kind |-> "Select", system |-> FALSE],
            [at |-> 1, actor |-> 1, what |-> 3, kind |-> "Insert", system |-> FALSE],
            [at |-> 2, actor |-> 1, what |-> 1, kind |-> "Insert", system |-> FALSE],
            [at |-> 1, actor |-> 2, what |-> 1, kind |-> "Select", system |-> FALSE]}
Noise == {[at |-> 1, actor |-> 1, what |-> 2, kind |-> "Create", system |-> FALSE],
          [at |-> 1, actor |-> 1, what |-> 0, kind |-> "Select", system |-> TRUE]}
Rearranged(s) == {[i \in DOMAIN s |-> s[p[i]]] : p \in Bijection(DOMAIN s, DOMAIN s)}
MCLogs == UNION {{[log |-> l, again |-> s] : s \in Rearranged(l \o n)} :
                    <<l, n>> \in BoundedSeq(Entries, 3) \X BoundedSeq(Noise, 1)}

Query(actor, node, person, day, at, bytes, tables, kind) ==
    [actor |-> actor, node |-> node, person |-> person, day |-> day, at |-> at,
     bytes |-> bytes, tables |-> tables, kind |-> kind]

Openings == {[n |-> 1, day |-> 0, node |-> 31, person |-> "maya"],
             [n |-> 2, day |-> 3, node |-> 31, person |-> "lena"],
             [n |-> 3, day |-> 1, node |-> 31, person |-> "lena"],
             [n |-> 4, day |-> 4, node |-> 31, person |-> "guest"]}
MCBills ==
    {[queries |-> <<Query("dbt", n, "", 0, 2, x, {11}, "Insert"),
                    Query("dbt", 22, "", 0, 3, y, {21}, "Insert"),
                    Query("dashboard", 31, "", d, 6 + 4 * d, z, {22}, "Select"),
                    Query("adhoc", 0, "lena", 3, 20, 7, {22, 23}, "Select"),
                    Query("reconcile", 0, "", 0, t, 2, {11}, "Select")>>,
      views |-> v, compute |-> c, storage |-> 9, start |-> 0, days |-> days, cutover |-> 3,
      stored |-> (0 :> (21 :> 1 @@ 22 :> y @@ 23 :> 1) @@ 1 :> (21 :> 0 @@ 23 :> z))] :
        <<n, x, y, z, d, t, v, c, days>> \in
            {21, 41, 42} \X {0, 1} \X {0, 3} \X {0, 2} \X {1, 4} \X {1, 9} \X (SUBSET Openings)
                \X {3, 41} \X {6}}

MCCutovers == {[compute |-> x, storage |-> y, start |-> s, days |-> n, cutover |-> c] :
    <<x, y, s, n, c>> \in {3, 10, 41} \X {0, 7} \X {0, 2} \X {3, 7, 9} \X (0..10)}

MCWorkloads ==
    {<<Query("dbt", 21, "", 0, 0, 1, {11}, "Insert"), Query("dbt", 41, "", 0, 0, 1, {22}, "Insert"),
       Query("dbt", 23, "", 0, 0, 1, {12}, "Insert"), Query("dashboard", 31, "", d, 0, 1, t, "Select"),
       Query("adhoc", 0, "lena", e, 0, 1, u, "Select")>> :
        <<d, t, e, u>> \in (0..2) \X (SUBSET {21, 22, 23} \ {{}}) \X (0..2) \X (SUBSET {11, 21, 22, 23})}

MCDayLoads == {[d \in 1..n |-> IF d <= k THEN <<a, b>> ELSE <<5>>] :
    <<n, k, a, b>> \in {1, 2, 19, 20, 21, 39, 40, 41} \X (0..4) \X {0, 50, 123} \X {7, 4321}}

-----------------------------------------------------------------------------
\* The hashes of a window: a seed moves every draw.
Draw == [refresh |-> 4, adhoc_pick |-> 31, adhoc_count |-> 7, popularity |-> 3, view |-> 13]
MCHash(seed, draw, of) ==
    (seed + 1) * (Draw[draw] + 7 * of[1] + (IF Len(of) > 1 THEN 11 * of[2] ELSE 0)
                  + (IF Len(of) > 2 THEN 29 * of[3] ELSE 0))

MCBoards == {[exposure |-> 31, team |-> 3, maturity |-> "high", cards |-> {51}],
             [exposure |-> 32, team |-> 2, maturity |-> "medium", cards |-> {51, 52}]}
MCRefreshEvery == [high |-> 12, low |-> 24]
MCTemplates == (2 :> <<61, 62>> @@ 3 :> <<63>> @@ 1 :> <<64>>)

Scope(sources, where) == [sources |-> sources, where |-> where]
Statement(kind, rows, bytes, tables, scopes) ==
    [kind |-> kind, rows |-> rows, bytes |-> bytes, tables |-> tables, scopes |-> scopes]
\* 52 filters what a common table expression yields and a column the sort key starts with,
\* 61 a column it does not, 62 joins two tables, 63 scans all, 64 reads the raw table.
MCStatements ==
    (11 :> Statement("Optimize", 100, 30, {11}, {}) @@ 12 :> Statement("Optimize", 10, 0, {12}, {})
     @@ 21 :> Statement("Insert", 100, 30, {11}, {}) @@ 22 :> Statement("Insert", 90, 20, {21}, {})
     @@ 23 :> Statement("Insert", 10, 4, {12}, {})
     @@ 51 :> Statement("Select", 95, 12, {22}, {Scope([o |-> 22], {<<"o", "id">>})})
     @@ 52 :> Statement("Select", 40, 6, {22}, {Scope([c |-> NoNode], {<<"c", "id">>}),
                                                Scope([o |-> 22], {<<"o", "day">>})})
     @@ 61 :> Statement("Select", 100, 14, {22}, {Scope([o |-> 22], {<<"o", "id">>, <<"o", "kind">>})})
     @@ 62 :> Statement("Select", 110, 9, {21, 22}, {Scope([o |-> 22, p |-> 21], {<<"p", "id">>})})
     @@ 63 :> Statement("Select", 10, 0, {23}, {Scope([x |-> 23], {})})
     @@ 64 :> Statement("Select", 100, 25, {11}, {Scope([r |-> 11], {<<"r", "day">>})}))
Table(rows, bytes, key, replacing) ==
    [rows |-> rows, bytes |-> bytes, key |-> key, replacing |-> replacing]
MCCatalogue ==
    (11 :> Table(100, 30, <<"id", "day">>, TRUE) @@ 12 :> Table(10, 0, <<"id">>, TRUE)
     @@ 21 :> Table(90, 25, <<"id">>, FALSE) @@ 22 :> Table(100, 50, <<"day", "id">>, FALSE)
     @@ 23 :> Table(10, 3, <<"id">>, FALSE))

MCLegacyStated == [compute |-> 30, storage |-> 10]
MCWindows ==
    {[seed |-> s, start |-> t, days |-> n, compute |-> c, storage |-> 9, cutover |-> o] :
        <<s, t, n, c, o>> \in {w \in (0..2) \X {2, 3} \X {1, 2} \X {3, 410} \X {NoCutover, 2, 3} :
                                  w[5] \in {NoCutover} \cup (w[2]..(w[2] + w[3] - 1))}}
=============================================================================
