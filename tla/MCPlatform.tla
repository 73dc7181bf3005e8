----------------------------- MODULE MCPlatform -----------------------------
(***************************************************************************)
(* The pure rules of the platform put together for one run, one question   *)
(* to a behaviour: ownership, compared values and the simulated rows       *)
(* (PlatformRules), the bill (CostReport), lineage and what hangs on it    *)
(* (LineageRules), each with the inputs of its own MC module.              *)
(***************************************************************************)
EXTENDS MCPlatformRules, MCCostReport, MCLineageRules

MCCases == {"company", "row", "query", "bill", "page", "project", "registry", "cell", "log", "cutover",
            "workload", "days", "window", "impact", "pairs"}

Next ==
    \/ AskPlatform
    \/ Collect \/ Charge \/ Advise \/ Compare \/ Recommend \/ Suggest
    \/ AskLineage

Spec == Init /\ [][Next]_input
=============================================================================
