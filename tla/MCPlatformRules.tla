--------------------------- MODULE MCPlatformRules ---------------------------
EXTENDS PlatformRules

MCLetter == ("!" :> 1 @@ "*" :> 2 @@ "?" :> 3 @@ "[" :> 4 @@ "]" :> 5 @@ "_" :> 6 @@ "a" :> 7 @@ "b" :> 8)
MCLower == ("A" :> "a")

Patterns == {<<"a", "*">>, <<"*", "a">>, <<"a">>, <<"?", "b">>, <<"[", "!", "a", "]", "*">>, <<"*">>}
Owners == {[owner |-> "lena", team |-> "growth", backup |-> ""],
           [owner |-> "maya", team |-> "growth", backup |-> "lena"],
           [owner |-> "lena", team |-> "payments", backup |-> "maya"]}
MCTeams == [growth |-> {"lena", "maya"}]
RuleFiles ==
    {[i \in DOMAIN p |-> [match |-> p[i]] @@ o[i]] :
        <<p, o>> \in UNION {{q \in [1..n -> Patterns] : \A i, j \in 1..n : i < j => q[i] # q[j]}
                                \X [1..n -> Owners] : n \in 1..2}}
    \cup {[i \in DOMAIN p |-> [match |-> p[i], owner |-> "lena", team |-> "growth", backup |-> ""]] :
            p \in {q \in [1..3 -> Patterns] : \A i, j \in 1..3 : i < j => q[i] # q[j]}}
NodeSets == {{[name |-> <<"a">>, type |-> "model", owner |-> ""],
              [name |-> <<"a", "b">>, type |-> "model", owner |-> ""]},
             {[name |-> <<"b", "b">>, type |-> "model", owner |-> ""],
              [name |-> <<"a", "a">>, type |-> "exposure", owner |-> "lena"]}}
MCRegistries == {[rules |-> r, teams |-> MCTeams, nodes |-> n] : <<r, n>> \in RuleFiles \X NodeSets}

Names == {<<"a">>, <<"b">>, <<"a", "b">>, <<"a", "_">>, <<"_", "a">>, <<"_">>, <<"a", "_", "b">>,
          <<"a", "_", "a">>, <<"a", "_", "a", "b">>, <<"a", "_", "_", "b">>, <<"a", "_", "a", "_", "b">>,
          <<"b", "_", "a">>, <<"_", "b", "_">>}
MCProjects == UNION {[models -> {"staging", "marts"}] :
                        models \in {s \in SUBSET Names : Cardinality(s) \in 1..4}}

Text(t) == [kind |-> "text", of |-> t]
MCValues == {Null} \cup {Text(t) : t \in BoundedSeq({Backslash, Bar, "N"}, 2)
                                        \cup {<<"a">>, <<"A">>, <<"a", Space>>, <<"A", Space>>, <<Space, "a">>}}
Say(r, c) == [rtrim |-> r, casefold |-> c]
MCPolicies == {[override |-> Say("", ""), base |-> Say("", "")],
               [override |-> Say("no", ""), base |-> Say("yes", "yes")],
               [override |-> Say("yes", ""), base |-> Say("", "")]}

\* Berlin goes back an hour and Kyiv forward; times in half hours.
MCZones == {[before |-> 4, after |-> 2, at |-> 6], [before |-> 4, after |-> 6, at |-> 10]}
MCInexact == {20, -30}
MCCells == [ts |-> {NullText} \cup {<<t>> : t \in 0..20},
            decimal |-> {NullText} \cup {<<n>> : n \in -32..32},
            text |-> {NullText} \cup BoundedSeq({"a", "A", Space}, 3)]

\* Ten days of twelve hours, the last three of them simulated.
MCCounts == [customers |-> 4, products |-> 3, orders |-> 8, web_sessions |-> 9,
             marketing_campaigns |-> 3, support_tickets |-> 4]
Hashed(u, lag, delay, late, parts) ==
    [u |-> u, lag |-> lag, delay |-> delay, late |-> late, parts |-> parts]
MCCompanies ==
    {[all |-> Hashed(0, lag, 1, late, 1), odd |-> 6, other |-> b] :
        <<lag, late, b>> \in {1, 3} \X {1, 6} \X
            {Hashed(u, l, 2, e, parts) : <<u, l, e, parts>> \in {0, 2} \X {1, 3} \X {1, 6} \X {0, 1, 2}}}
=============================================================================
