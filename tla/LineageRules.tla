---------------------------- MODULE LineageRules ----------------------------
(***************************************************************************)
(* What the lineage of a project promises: how severe an incident is and   *)
(* who is paged for it, which raw columns a mart's column depends on, and  *)
(* which pairs a night of the parallel run can compare.                    *)
(***************************************************************************)
EXTENDS IncidentRules, ColumnLineage, ComparisonSpecs, OneInput

CONSTANTS
    Pages,          \* [root, events, traced]: the checks that failed on an incident's root
    Impacts,        \* [tiers, rules, policy, daysInMonth]
    Queries,        \* two models, the second after the first
    ModelOrder,     \* the models, each after those it reads
    Shown,          \* the column of the last model a report shows
    Contents,       \* what the raw tables can hold
    Nights          \* [pairs, legacy, new, nextLegacy, nextNew]: two nights' catalogues

\* Columns are traced to sources of the project, nothing is built from a test, and the settings
\* are numbers, not negative (common/config.py).
ASSUME RulesAssumption ==
    /\ NoSource \notin Node
    /\ \A page \in Pages : \A d \in DOMAIN page.traced : \A c \in DOMAIN page.traced[d] :
           page.traced[d][c] \subseteq Node
    /\ \A e \in Edge : TypeOf[e[1]] # "test"
    /\ \A i \in Impacts :
           /\ {i.policy.multiplier, i.policy.sev1, i.policy.sev2} \subseteq Nat
           /\ \A n \in Node : i.policy.weight[TierOf(n, i.tiers)] \in Nat

Page  == Asked("page") /\ \E i \in Pages : input' = [case |-> "page", of |-> i]
Rate  == Asked("impact") /\ \E i \in Impacts : input' = [case |-> "impact", of |-> i]
Trace == Asked("query") /\ \E i \in Queries : input' = [case |-> "query", of |-> i]
Load  == Asked("pairs") /\ \E i \in Nights : input' = [case |-> "pairs", of |-> i]

AskLineage == Page \/ Rate \/ Trace \/ Load
LineageSpec == Init /\ [][AskLineage]_input

-----------------------------------------------------------------------------
\* An incident is routed once, from the checks that had failed when it was opened, and the
\* pieces that come later only add checks. They can take the page from a source's owner
\* back to the owner of the dataset by name, never to another source's; and a source is
\* only paged when every failing check alone points to it (route, source_of_failing_columns).
RouteMovesOnlyToTheModel ==
    input.case = "page" =>
        LET page    == input.of
            dataset == DatasetOf(page.root)
            own(events) == {e \in events : e.subject = dataset}
            via(events) == RoutedVia(page.root, events, page.traced)
        IN  /\ \A early \in SUBSET page.events :
                   own(early) # {} => via(page.events) \in {via(early), RoutedByName(dataset)}
            /\ \A s \in {n \in Node : TypeOf[n] = "source"} \ {RoutedByName(dataset)} :
                   via(page.events) = s <=>
                       /\ own(page.events) # {}
                       /\ \A e \in own(page.events) : via({e}) = s

\* When a later piece shows that an incident's cause lies further up, regrouping it to that
\* root, at a dataset of at least the same tier, never makes it less severe, and no
\* calendar window that was open for it closes: everyone who was reached still is
\* (score_incident, open_windows).
UpstreamReachesMore ==
    input.case = "impact" =>
        LET tiers  == input.of.tiers
            policy == input.of.policy
            weight(n) == policy.weight[TierOf(n, tiers)]
            severity(n) == SeverityFor(Score(n, tiers, policy), policy)
            open(n, day) == OpenWindows(n, input.of.rules, policy, day, input.of.daysInMonth)
        IN  \A n \in Node : \A root \in Above[n] :
                (TypeOf[n] \in {"model", "exposure"} /\ weight(root) >= weight(n)) =>
                    /\ severity(root) <= severity(n)
                    /\ \A day \in 1..input.of.daysInMonth : open(n, day) \subseteq open(root, day)

DifferOnlyIn(db, other, table, column) ==
    /\ \A t \in DOMAIN db \ {table} : db[t] = other[t]
    /\ DOMAIN db[table] = DOMAIN other[table]
    /\ \A i \in DOMAIN db[table] : \A c \in DOMAIN db[table][i] \ {column} :
           db[table][i][c] = other[table][i][c]

\* No condition, group or DISTINCT reads the side of a left join that may be missing.
LeavesOptionalSideAlone(q, columns) ==
    q.join.side = "LEFT" => RowShaping(q) \cap columns[q.join.table] = {}

\* Changing a raw column that is not in a mart column's lineage changes nothing a reader of
\* that column sees, so a report's discrepancy is never blamed on less than what can cause
\* it (column_lineage.py, "when in doubt more, never less"). Of a column that reads
\* something, where left joined keys are unique and the query's rows do not hang on the
\* left joined side: elsewhere the ON columns are missing from the lineage.
LineageIsEnough ==
    input.case = "query" =>
        LET models  == input.of
            lineage == Traced(models, ModelOrder)[Shown]
            seen    == [db \in Contents |-> Seen(BuiltModels(models, ModelOrder, db)[Last(ModelOrder)], Shown)]
        IN  (lineage # {} /\ \A m \in DOMAIN models : LeavesOptionalSideAlone(models[m], Columns(models))) =>
                \A t \in DOMAIN RawColumns : \A c \in RawColumns[t] \ lineage : \A db, other \in Contents :
                    DifferOnlyIn(db, other, t, c) => seen[db] = seen[other]

\* Every pair is compared or has failed with a reason, whatever happens to the others:
\* its outcome is decided by its own two relations, so a drift that is undone is
\* forgotten. A column added on both sides is compared from that night on, and the others
\* as they were; one added on the ClickHouse side alone changes nothing, and one on the
\* legacy side alone fails the pair (specs.py).
PairsAreComparedOrFail ==
    input.case = "pairs" =>
        LET i       == input.of
            tonight == LoadPairs(i.pairs, i.legacy, i.new)
            next    == LoadPairs(i.pairs, i.nextLegacy, i.nextNew)
            outcome(load, p) == IF p \in DOMAIN load.specs THEN load.specs[p] ELSE load.drifted[p]
            side(catalogue, r) == Restrict(catalogue, {r} \cap DOMAIN catalogue)
            added(then, now, r) == DOMAIN now[r] \ DOMAIN then[r]
            kept(then, now, r) == \A c \in DOMAIN then[r] : c \in DOMAIN now[r] /\ now[r][c] = then[r][c]
        IN  \A p \in i.pairs :
            /\ p \in DOMAIN tonight.specs <=> p \notin DOMAIN tonight.drifted
            /\ (side(i.legacy, p.source) = side(i.nextLegacy, p.source)
                    /\ side(i.new, p.target) = side(i.nextNew, p.target)) =>
                   (p \in DOMAIN next.specs <=> p \in DOMAIN tonight.specs)
                       /\ outcome(next, p) = outcome(tonight, p)
            /\ (/\ p \in DOMAIN tonight.specs
                /\ p.source \in DOMAIN i.nextLegacy /\ p.target \in DOMAIN i.nextNew
                /\ kept(i.legacy, i.nextLegacy, p.source) /\ kept(i.new, i.nextNew, p.target)) =>
                   LET compared == added(i.legacy, i.nextLegacy, p.source) \ p.skip
                       spec     == tonight.specs[p]
                   IN  /\ p \in DOMAIN next.specs <=>
                              \A c \in compared : TargetName(p, c) \in DOMAIN i.nextNew[p.target]
                       /\ p \in DOMAIN next.specs =>
                              /\ DOMAIN next.specs[p] = DOMAIN spec \cup compared
                              /\ \A c \in DOMAIN spec : next.specs[p][c] = spec[c]
=============================================================================
