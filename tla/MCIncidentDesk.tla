--------------------------- MODULE MCIncidentDesk ---------------------------
(***************************************************************************)
(* The shop project of tests/test_incident_desk.py, cut to one feed, two   *)
(* models, a test on the first model and a relationships test that spans   *)
(* both and is its own subject.                                            *)
(***************************************************************************)
EXTENDS IncidentHistory

MCNode == {"feed", "stg", "fct", "notnull", "rel"}
MCEdge == {<<"feed", "stg">>, <<"stg", "fct">>, <<"stg", "notnull">>,
           <<"stg", "rel">>, <<"fct", "rel">>}
MCRank == [feed |-> 5, fct |-> 1, stg |-> 2, notnull |-> 3, rel |-> 4]
MCTest == {"notnull", "rel"}
MCSubject == [n \in MCNode |-> IF n = "notnull" THEN "stg" ELSE n]
MCDataset == [n \in MCNode |-> CASE n = "notnull" -> "stg" [] n = "rel" -> "fct" [] OTHER -> n]
MCTestsOf == [n \in MCNode |-> CASE n = "stg" -> {"notnull"} [] n = "fct" -> {"rel"} [] OTHER -> {}]

Reports(ok) == [n \in MCNode |-> IF n \in DOMAIN ok THEN ok[n] ELSE "none"]

Feed(s) == Reports([feed |-> s])
Stg(s, t) == Reports([stg |-> s, notnull |-> t])
Fct(s, t) == Reports([fct |-> s, rel |-> t])

StgReports == {Stg("ok", "ok"), Stg("ok", "bad"), Stg("bad", "skipped")}
FctReports == {Fct("ok", "ok"), Fct("ok", "bad"), Fct("bad", "skipped")}

\* Two nights two days apart, one invocation per model and one, an hour earlier,
\* for freshness; the second night's last folder still holds the result file of
\* the one before it.
NightsInvocation == {"f1", "s1", "t1", "f2", "s2", "t2"}
NightsTarget ==
    {[run |-> 1, files |-> {"f1"}], [run |-> 1, files |-> {"s1"}],
     [run |-> 1, files |-> {"t1"}],
     [run |-> 2, files |-> {"f2"}], [run |-> 2, files |-> {"s2"}],
     [run |-> 2, files |-> {"t2", "s2"}]}
NightsAt == [i \in NightsInvocation |-> IF i \in {"f1", "s1", "t1"} THEN 1
                               ELSE IF i = "f2" THEN 49 ELSE 50]
NightsOutcomes ==
    {[f1 |-> Feed(f1), s1 |-> s1, t1 |-> t1, f2 |-> Feed(f2), s2 |-> s2, t2 |-> t2] :
        f1 \in {"ok", "bad"}, s1 \in StgReports, t1 \in FctReports,
        f2 \in {"ok", "bad"}, s2 \in StgReports, t2 \in FctReports}
OneAfterTheOther == [r \in Run |-> {q \in Run : q < r}]

ASSUME NightsAreInOrder ==
    Invocation = NightsInvocation => NightsInOrder /\ TestsAreLeaves

\* Three runs whose calls reach the desk in any order.
OverlapInvocation == {"s1", "t1", "s2", "t2", "t3"}
OverlapTarget ==
    {[run |-> 1, files |-> {"s1"}], [run |-> 1, files |-> {"t1"}],
     [run |-> 2, files |-> {"s2"}], [run |-> 2, files |-> {"t2"}],
     [run |-> 3, files |-> {"t3"}]}
OverlapAt == [i \in OverlapInvocation |-> CASE i \in {"s1", "t1"} -> 1
                                            [] i \in {"s2", "t2"} -> 25
                                            [] OTHER -> 30]
\* An invocation that runs the staging model's test too, and is warned by it.
TestsStgAgain == Reports([notnull |-> "warn", fct |-> "ok", rel |-> "ok"])
OverlapOutcomes ==
    {[s1 |-> s1, t1 |-> t1, s2 |-> s2, t2 |-> t2, t3 |-> t3] :
        s1 \in StgReports, t1 \in FctReports \ {Fct("ok", "ok")},
        s2 \in {Stg("ok", "ok"), Stg("ok", "bad")},
        t2 \in FctReports \cup {TestsStgAgain}, t3 \in FctReports}
AnyOrder == [r \in Run |-> {}]

\* A rerun, and a nightly run around it whose first piece may reach the desk last.
LateInvocation == {"s1", "t1", "s2", "t2"}
LateTarget ==
    {[run |-> 1, files |-> {"s1"}], [run |-> 1, files |-> {"t1"}],
     [run |-> 2, files |-> {"s2"}], [run |-> 2, files |-> {"t2"}]}
LateAt == [i \in LateInvocation |-> CASE i = "s2" -> 25 [] i = "t2" -> 35 [] OTHER -> 30]
LateOutcomes ==
    {[s1 |-> s1, t1 |-> t1, s2 |-> s2, t2 |-> t2] :
        s1 \in StgReports, t1 \in FctReports, s2 \in StgReports, t2 \in FctReports}

\* alex owns the models, with kim to page when alex is busy; dana the feeds.
MCOwner == [n \in Node |-> IF n \in Source THEN "dana" ELSE "alex"]
MCBackup == [n \in Node |-> IF n \in Source THEN "none" ELSE "kim"]
MCScored == [n \in Node |-> CASE n \in Source -> 1 [] n = "stg" -> 2
                              [] OTHER -> 3]

\* Hours at SEV1 (never overdue), SEV2 and SEV3; a month-end close that opens
\* on the second night.
MCAfterHours == <<1000, 24, 48>>
CloseAtNight2 == [n \in Node |-> [at \in Times |->
                    IF at \in {25, 50} THEN <<<<"window", 1>>>> ELSE <<>>]]
=============================================================================
