--------------------------- MODULE MCCompanyDays ---------------------------
(***************************************************************************)
(* Three feeds of the company with the checks that catch the catalogue's   *)
(* faults (faults.py): a freshness rule on the sessions, tests on the      *)
(* staging models, and the relationships test from payments to orders.     *)
(***************************************************************************)
EXTENDS CompanyDays

MCNode == {"orders", "payments", "sessions", "stg_o", "stg_p", "stg_s", "fct", "t_o", "rel", "t_f",
           "vol_p", "vol_s", "prof_s"}
MCEdge == {<<"orders", "stg_o">>, <<"payments", "stg_p">>, <<"sessions", "stg_s">>,
           <<"stg_o", "fct">>, <<"stg_p", "fct">>, <<"stg_s", "fct">>,
           <<"stg_o", "t_o">>, <<"stg_o", "rel">>, <<"stg_p", "rel">>, <<"fct", "t_f">>,
           <<"payments", "vol_p">>, <<"sessions", "vol_s">>, <<"sessions", "prof_s">>}
MCRank == [fct |-> 1, stg_o |-> 2, stg_p |-> 3, stg_s |-> 4, orders |-> 5, payments |-> 6,
           sessions |-> 7, prof_s |-> 8, rel |-> 9, t_f |-> 10, t_o |-> 11, vol_p |-> 12,
           vol_s |-> 13]
MCTest == {"t_o", "rel", "t_f", "vol_p", "vol_s", "prof_s"}
MCSource == {"orders", "payments", "sessions"}
MCSubject == [n \in MCNode |-> CASE n = "t_o" -> "stg_o" [] n = "t_f" -> "fct"
                                 [] n = "vol_p" -> "payments"
                                 [] n \in {"vol_s", "prof_s"} -> "sessions" [] OTHER -> n]
MCDataset == [n \in MCNode |-> IF n = "rel" THEN "stg_p" ELSE MCSubject[n]]
MCTestsOf == [n \in MCNode |-> IF n \in MCTest THEN {} ELSE {t \in MCTest : MCDataset[t] = n}]

MCFault == {"F1", "F3", "F4", "F6", "F7", "F9"}
MCTypeOf == [F1 |-> "null_spike", F3 |-> "orphan_keys", F4 |-> "stale_source",
             F6 |-> "volume_drop", F7 |-> "schema_rename", F9 |-> "loader_nulls"]
MCTableOf == [F1 |-> "orders", F3 |-> "payments", F4 |-> "sessions", F6 |-> "orders",
              F7 |-> "payments", F9 |-> "sessions"]
MCColumnOf == [F1 |-> "customer_id", F3 |-> "", F4 |-> "", F6 |-> "", F7 |-> "status",
               F9 |-> "device"]
MCSees == [t_o |-> {<<"orders", <<"nulls", "customer_id">>>>, <<"orders", <<"rows", "">>>>},
           rel |-> {<<"payments", <<"orphans", "">>>>, <<"orders", <<"rows", "">>>>},
           stg_p |-> {<<"payments", <<"column", "status">>>>}]
MCVolumeOf == [vol_p |-> "payments", vol_s |-> "sessions"]
MCProfileOf == [prof_s |-> "sessions"]
MCErrorAfter == [t \in MCSource |-> 2 * Slots]
MCFaultOrder == [F1 |-> 1, F3 |-> 3, F4 |-> 4, F6 |-> 6, F7 |-> 7, F9 |-> 9]

\* Three pairs of faults on any three days (incidents.fault_days).
MCSchedules ==
    {[d \in 1..Days |-> CASE d = x -> {"F1", "F3"} [] d = y -> {"F4", "F6"} [] d = z -> {"F7", "F9"}
                          [] OTHER -> {}] :
        <<x, y, z>> \in {w \in (1..(Days - 1)) \X (1..(Days - 1)) \X (1..(Days - 1)) :
                            w[1] # w[2] /\ w[2] # w[3] /\ w[1] # w[3]}}
MCOwner == [n \in Node |-> IF n \in {"orders", "stg_o", "t_o", "fct", "t_f"} THEN "alex" ELSE "bea"]
MCBackup == [n \in Node |-> "none"]
MCScored == [n \in Node |-> 2]
=============================================================================
