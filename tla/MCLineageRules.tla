--------------------------- MODULE MCLineageRules ---------------------------
(***************************************************************************)
(* Two sources, a staging model of each and one that reads both, a diamond *)
(* of marts below them, a dashboard, a test on a staging model and one     *)
(* that spans two models; two models whose SQL is traced; two pairs.       *)
(***************************************************************************)
EXTENDS LineageRules

MCNode == {"orders", "users", "stg_o", "stg_u", "stg_both", "mart", "side", "top", "dash", "test", "rel"}
MCEdge == {<<"orders", "stg_o">>, <<"users", "stg_u">>, <<"orders", "stg_both">>, <<"users", "stg_both">>,
           <<"stg_o", "mart">>, <<"stg_u", "mart">>, <<"stg_o", "side">>, <<"mart", "top">>, <<"side", "top">>,
           <<"top", "dash">>, <<"stg_o", "test">>, <<"mart", "rel">>, <<"stg_u", "rel">>}
MCRank == [n \in MCNode |-> CHOOSE i \in 1..11 : n = <<"dash", "mart", "orders", "rel", "side", "stg_both",
                                                       "stg_o", "stg_u", "test", "top", "users">>[i]]
MCTypeOf == [n \in MCNode |-> CASE n \in {"orders", "users"} -> "source" [] n = "dash" -> "exposure"
                                [] n \in {"test", "rel"} -> "test" [] OTHER -> "model"]
MCAttachedTo == ("test" :> "stg_o" @@ "rel" :> "mart")
MCStaging == {"stg_o", "stg_u", "stg_both"}

TestOn(d, n, columns) == [node |-> n, type |-> "test", subject |-> d, columns |-> columns]
ChecksOf(d) == {TestOn(d, 1, {"a"}), TestOn(d, 2, {"b"}), TestOn(d, 3, {"a", "b"}), TestOn(d, 4, {}),
                [node |-> d, type |-> "model", subject |-> d, columns |-> {}], TestOn("top", 5, {"a"})}
MCPages ==
    {[root |-> r, events |-> e, traced |-> t] :
        <<r, e, t>> \in UNION {
            {r} \X {s \in SUBSET ChecksOf(DatasetOf(r)) : Cardinality(s) \in 1..4}
                \X ({<<>>} \cup {DatasetOf(r) :> (("a" :> x) @@ y) :
                        <<x, y>> \in (SUBSET {"orders", "users"})
                            \X ({<<>>} \cup {"b" :> z : z \in SUBSET {"orders", "users"}})}) :
            r \in {"test", "stg_both", "mart", "rel", "orders"}}}

Policy(multiplier, sev1, sev2) ==
    [multiplier |-> multiplier, weight |-> [critical |-> 5, important |-> 2, best_effort |-> 0],
     sev1 |-> sev1, sev2 |-> sev2,
     windows |-> {[team |-> 1, firstDays |-> 1, lastDays |-> 0], [team |-> 2, firstDays |-> 0, lastDays |-> 2],
                  [team |-> 3, firstDays |-> 4, lastDays |-> 4]}]
MCImpacts ==
    {[tiers |-> t, rules |-> [n \in d |-> [owner |-> n, team |-> IF n = "side" THEN 2 ELSE 1]],
      policy |-> Policy(m, s, s \div 2), daysInMonth |-> 4] :
        <<t, d, m, s>> \in [{"orders", "stg_o", "mart", "side"} -> {"critical", "important"}]
                            \X {{"mart", "side", "dash"}, {"top"}, {}} \X {1, 3} \X {8, 14, 20}}

MCRawColumns == [orders |-> {"k", "a"}, map |-> {"m", "v"}]
Plain(c) == [agg |-> "no", column |-> c]
Sum(c) == [agg |-> "sum", column |-> c]
CountOf == [agg |-> "count"]
JoinTo(side) == [side |-> side, table |-> "map", on |-> <<"k", "m">>]
Alone == [side |-> "none", table |-> "map", on |-> <<>>]
Firsts ==
    {[from |-> "orders", join |-> j, where |-> w, group |-> {}, distinct |-> d,
      select |-> [x |-> Plain("a"), y |-> Plain(c)]] :
        <<j, w, d, c>> \in {Alone} \X {{}, {"k"}} \X BOOLEAN \X {"k"}
            \cup {JoinTo("LEFT"), JoinTo("INNER")} \X {{}, {"v"}, {"k"}} \X BOOLEAN \X {"v"}}
Seconds ==
    {[from |-> "A", join |-> Alone, where |-> w, group |-> g, distinct |-> FALSE, select |-> [p |-> e]] :
        <<w, g, e>> \in {{}, {"y"}} \X {{"y"}, {}} \X {Sum("x"), CountOf}}
    \cup {[from |-> "A", join |-> Alone, where |-> {}, group |-> {}, distinct |-> d, select |-> [p |-> Plain(c)]] :
            <<d, c>> \in BOOLEAN \X {"x", "y"}}
MCQueries == {[A |-> a, B |-> b] : <<a, b>> \in Firsts \X Seconds}
MCModelOrder == <<"A", "B">>
MCContents ==
    {[orders |-> o, map |-> m] :
        <<o, m>> \in {<<r, s>> : <<r, s>> \in [k : 0..1, a : 0..1] \X [k : 0..1, a : {1}]}
            \X ({<<r>> : r \in [m : 0..1, v : 0..1]}
                \cup {<<r, s>> : <<r, s>> \in {x \in [m : 0..1, v : 0..1] \X [m : 0..1, v : {1}] : x[1].m # x[2].m}})}

Legacy(type, scale) == [type |-> type, scale |-> scale]
OrdersThen == [id |-> Legacy("bigint", 0), total |-> Legacy("numeric", 2), at |-> Legacy("timestamp with time zone", 0)]
OrdersLegacy == {OrdersThen, OrdersThen @@ [note |-> Legacy("text", 0)], Restrict(OrdersThen, {"id", "total"}),
                 [OrdersThen EXCEPT !.at = Legacy("date", 0)], [OrdersThen EXCEPT !.total = Legacy("numeric", 0)]}
OrdersNew == {[id |-> 0, amount |-> 2, at |-> 0], [id |-> 0, amount |-> 4, at |-> 0, note |-> 0],
              [id |-> 0, at |-> 0], [id |-> 0, amount |-> 2, at |-> 0, flag |-> 0]}
UsersThen == [id |-> Legacy("bigint", 0), ssn |-> Legacy("text", 0)]
MCPair(name, target, key, skip, rename, changed) ==
    [name |-> name, source |-> name, target |-> target, key |-> key, skip |-> skip, rename |-> rename,
     scale |-> <<>>, changed |-> changed]
MCPairs == {MCPair("orders", "raw_orders", {"id"}, {}, [total |-> "amount"], "at"),
            MCPair("users", "raw_users", {"id"}, {"ssn"}, <<>>, "")}
LegacyCatalogues == {("orders" :> o @@ "users" :> UsersThen) : o \in OrdersLegacy} \cup {"users" :> UsersThen}
NewCatalogues == {("raw_orders" :> o @@ "raw_users" :> ("id" :> 0)) : o \in OrdersNew}
                    \cup {"raw_orders" :> [id |-> 0, amount |-> 2, at |-> 0]}
MCNights ==
    {[pairs |-> MCPairs, legacy |-> l, new |-> n, nextLegacy |-> m, nextNew |-> o] :
        <<l, n, m, o>> \in LegacyCatalogues \X NewCatalogues \X LegacyCatalogues \X NewCatalogues}
=============================================================================
