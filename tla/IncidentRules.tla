---------------------------- MODULE IncidentRules ----------------------------
(***************************************************************************)
(* How bad an incident is and who is paged for it                          *)
(* (src/platform_ops/incidents/severity.py and routing.py), over the       *)
(* lineage graph: what the incident desk's constants Scored, Owner and     *)
(* Backup stand for.                                                       *)
(*                                                                         *)
(* A policy is [multiplier, weight, sev1, sev2, windows]; tierOf gives the *)
(* tier of some datasets and ruleOf the ownership rule of some.            *)
(***************************************************************************)
EXTENDS Lineage, SequencesExt

CONSTANTS
    TypeOf,         \* the resource type of every node
    AttachedTo,     \* for a test, the model it belongs to, or itself
    Staging,        \* the models whose names start with stg_
    DefaultTier

NoRoute == [owner |-> "unowned", team |-> "unowned"]

DatasetOf(root) == IF TypeOf[root] = "test" THEN AttachedTo[root] ELSE root

\* Plausible bug: only what reads the dataset itself is counted.
DirectConsumers(dataset) == {n \in Node : dataset \in Parents(n) /\ TypeOf[n] \in {"model", "exposure"}}

DownstreamConsumers(dataset) == {n \in Node : dataset \in Above[n] /\ TypeOf[n] \in {"model", "exposure"}}

TierOf(n, tierOf) == IF n \in DOMAIN tierOf THEN tierOf[n] ELSE DefaultTier

ConsumerWeight(consumers, tierOf, policy) ==
    MapThenSumSet(LAMBDA n : policy.weight[TierOf(n, tierOf)], consumers)

Score(root, tierOf, policy) ==
    LET dataset == DatasetOf(root)
    IN  policy.multiplier * policy.weight[TierOf(dataset, tierOf)]
            + ConsumerWeight(DownstreamConsumers(dataset), tierOf, policy)

SeverityFor(score, policy) ==
    CASE score >= policy.sev1 -> 1
      [] score >= policy.sev2 /\ score < policy.sev1 -> 2
      [] OTHER -> 3

\* A window spans the last days of every month and the first days of the next.
OpenOn(window, day, daysInMonth) ==
    day <= window.firstDays \/ day > daysInMonth - window.lastDays

OpenWindows(root, ruleOf, policy, day, daysInMonth) ==
    {w \in policy.windows :
        /\ OpenOn(w, day, daysInMonth)
        /\ \E n \in DownstreamConsumers(DatasetOf(root)) : n \in DOMAIN ruleOf /\ ruleOf[n].team = w.team}

-----------------------------------------------------------------------------
\* routing.py. A check is [node, type, subject, columns]; traced is what column lineage
\* says of a model's columns: the sources each is traced to.

NoSource == "no source"

\* Plausible bug: any of the sources the failing columns are traced to will do.
SourceOfAnyColumn(dataset, events, traced) ==
    LET columns == UNION {e.columns : e \in {x \in events : x.subject = dataset}}
        known == IF dataset \in DOMAIN traced THEN columns \cap DOMAIN traced[dataset] ELSE {}
        sources == UNION {traced[dataset][c] : c \in known}
    IN  IF sources = {} THEN NoSource ELSE CHOOSE s \in sources : TRUE

SourceOfFailingColumns(dataset, events, traced) ==
    LET own == {e \in events : e.subject = dataset}
        columns == UNION {e.columns : e \in own}
        sources == UNION {traced[dataset][c] : c \in columns \cap DOMAIN traced[dataset]}
    IN  IF /\ TypeOf[dataset] = "model" /\ dataset \in DOMAIN traced /\ own # {}
           /\ \A e \in own : e.type = "test" /\ e.columns # {}
           /\ \A c \in columns : c \in DOMAIN traced[dataset] /\ traced[dataset][c] # {}
           /\ Cardinality(sources) = 1
        THEN CHOOSE s \in sources : TRUE ELSE NoSource

\* The staging rule, when there is no lineage to go by.
RoutedByName(dataset) ==
    LET sources == {p \in Parents(dataset) : TypeOf[p] = "source"}
    IN  IF dataset \in Staging /\ Cardinality(sources) = 1
        THEN CHOOSE s \in sources : TRUE ELSE dataset

\* The dataset whose ownership rule decides the page.
RoutedVia(root, events, traced) ==
    LET dataset == DatasetOf(root)
        source == SourceOfFailingColumns(dataset, events, traced)
    IN  IF source # NoSource THEN source ELSE RoutedByName(dataset)

RouteTo(dataset, ruleOf) == IF dataset \in DOMAIN ruleOf THEN ruleOf[dataset] ELSE NoRoute
=============================================================================
