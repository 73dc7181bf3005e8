---------------------------- MODULE PlatformRules ----------------------------
(***************************************************************************)
(* What the pure rules of the platform promise: the registry that says who *)
(* owns a dataset, the starter registry, the rendering and labelling of    *)
(* compared values, and the rows of the simulated company. A behaviour is  *)
(* one input, taken from a small set, and the invariants relate what the   *)
(* operators make of it.                                                   *)
(***************************************************************************)
EXTENDS OwnershipRules, CanonicalValues, RawData, OneInput

CONSTANTS
    Registries,    \* [rules, teams, nodes]
    Projects,      \* folderOf: the folder of every model of a project
    Values,        \* the values of a column
    Policies,      \* [override, base]: the rendering rules of a column
    Cells,         \* per kind of column, the canonical values of its cells
    Companies,     \* what the hashes of a company's row ids come to
    WindowStart, WindowDays,
    Late           \* company.writes_after_ingest_minutes

\* What is compared: a column's decimals and times are numbers, its texts are texts, and
\* a blank has no case.
ASSUME ValuesAssumption ==
    /\ Fine \in Nat \ {0} /\ \A z \in Zones : {z.before, z.after, z.at} \subseteq Int
    /\ Lower \in [DOMAIN Lower -> STRING] /\ Space \notin DOMAIN Lower \cup Range(Lower)
    /\ DOMAIN Cells \subseteq {"ts", "decimal", "text"}
    /\ \A kind \in DOMAIN Cells : \A c \in Cells[kind] :
           IF kind = "text" THEN c \in Seq(STRING) ELSE c = NullText \/ (Len(c) = 1 /\ c[1] \in Int)
    /\ \A v \in Values : v = Null \/ (v.kind = "text" /\ v.of \in Seq(STRING))

Final(draw, mornings) == AfterDays(draw, WindowStart, WindowDays, mornings, Late)

Check     == Asked("registry") /\ \E i \in Registries : input' = [case |-> "registry", of |-> i]
Bootstrap == Asked("project") /\ \E i \in Projects : input' = [case |-> "project", of |-> i]
Render    == Asked("row") /\ \E l, r \in Values, p, q \in Policies :
                 input' = [case |-> "row", of |-> <<l, r>>, under |-> <<p, q>>]
Label     == Asked("cell") /\ \E kind \in DOMAIN Cells : \E s, t \in Cells[kind] :
                 s # t /\ input' = [case |-> "cell", kind |-> kind, source |-> s, target |-> t]
Simulate  == Asked("company") /\ \E i \in Companies, mornings \in SUBSET (1..(WindowDays - 1)) :
                 input' = [case |-> "company", split |-> Final(i, mornings), whole |-> Final(i, {}),
                           direct |-> LoadWindow(Empty, i, Never, Final(i, {}).until)]

AskPlatform == Check \/ Bootstrap \/ Render \/ Label \/ Simulate
PlatformSpec == Init /\ [][AskPlatform]_input

-----------------------------------------------------------------------------
Reordered(rules) ==
    {[i \in DOMAIN rules |-> rules[p[i]]] : p \in Bijection(DOMAIN rules, DOMAIN rules)}

\* A check that passes means what the alerts and the bills rely on: every dataset is
\* counted as covered, ops.node_ownership gets exactly one row for it, the owner and the
\* backup are two members of the row's team, and an exposure's dbt owner is that owner;
\* and it passes however the warnings stand. Passing or not, moving lines of the file
\* hands no dataset to another owner and turns no ambiguity into an ownership or back.
CheckedMeansOwned ==
    input.case = "registry" =>
        LET rules == input.of.rules
            teams == input.of.teams
            nodes == input.of.nodes
            rows  == OwnershipRows(rules, nodes)
        IN  /\ \A n \in nodes, again \in Reordered(rules) : Resolve(again, n.name) = Resolve(rules, n.name)
            /\ Errors(teams, rules, nodes) = {} =>
                   /\ Covered(teams, rules, nodes) = nodes
                   /\ \A n \in nodes : \E r \in ToSet(rules) :
                          /\ {row \in rows : row[1] = n.name} = {<<n.name, r>>}
                          /\ r.match \notin Warnings(rules, nodes)
                          /\ {r.owner, r.backup} \ {""} \subseteq teams[r.team]
                          /\ r.backup # r.owner
                          /\ n.type = "exposure" => n.owner = r.owner

Unled(name) ==
    LET first == {i \in DOMAIN name : name[i] # Under}
    IN  IF first = {} THEN <<>> ELSE SubSeq(name, Min(first), Len(name))

\* The starter registry gives every model exactly one matching rule, so its check can
\* only report the owners left to do, and every rule matches a model: shared prefixes
\* never reach into another folder. Of a project in which no two models of a folder
\* differ only in the underscores they start with: there _cover does not return.
StarterRulesMatchOnce ==
    input.case = "project" =>
        LET folderOf == input.of
            models   == DOMAIN folderOf
            rules    == StarterRules(folderOf)
        IN  (\A m, n \in models : folderOf[m] = folderOf[n] /\ Unled(m) = Unled(n) => m = n) =>
                /\ \A m \in models : Cardinality({r \in rules : Matches(m, r)}) = 1
                /\ \A r \in rules : \E m \in models : Matches(m, r)

CharAt(text, i) == IF i \in DOMAIN text THEN text[i] ELSE Space

Fold(char) == IF char \in DOMAIN Lower THEN Lower[char] ELSE char

\* Two values of a text column the data owner calls equal.
SameValue(v, w, rule) ==
    \/ v = w
    \/ /\ v.kind = "text" /\ w.kind = "text"
       /\ Len(v.of) = Len(w.of) \/ rule.rtrim
       /\ \A i \in 1..Max({Len(v.of), Len(w.of)}) :
              \/ CharAt(v.of, i) = CharAt(w.of, i)
              \/ rule.casefold /\ Fold(CharAt(v.of, i)) = Fold(CharAt(w.of, i))

CanonicalRow(row, under) ==
    RowString([i \in DOMAIN row |-> Canonical(row[i], RuleFor(under[i].override, under[i].base))])

\* Two rows have one rendering, and so one hash, exactly when their values are equal
\* column by column under the policy: no separator or escape inside a text can make two
\* rows alike, and NULL is told from the empty text and from a text that spells it.
RowsAreToldApart ==
    input.case = "row" =>
        LET row   == input.of
            under == input.under
            rule(i) == RuleFor(under[i].override, under[i].base)
        IN  \A v, w \in Values :
                (CanonicalRow(<<v, w>>, under) = CanonicalRow(row, under))
                    <=> (SameValue(v, row[1], rule(1)) /\ SameValue(w, row[2], rule(2)))

OffsetAt(utc, z) == IF utc < z.at THEN z.before ELSE z.after

\* A label names a mechanism that reproduces the value, whichever system is the target:
\* a time read as a zone's wall clock is always named, the repeated and the skipped hour
\* included, and no other distance is; a rounding is a whole number of the column's units
\* next to the amount; a text that differs in more than its outer spaces or its case, and
\* a NULL, is a value mismatch.
LabelNamesTheMechanism ==
    input.case = "cell" =>
        LET kind  == input.kind
            a     == input.source[1]
            b     == input.target[1]
            label == Classify(kind, input.source, input.target)
        IN  /\ label = Classify(kind, input.target, input.source)
            /\ NullText \in {input.source, input.target} => label = "value_mismatch"
            /\ kind = "ts" /\ NullText \notin {input.source, input.target} =>
                   /\ \A z \in Zones : a = b + OffsetAt(b, z) => label = "timezone_shift"
                   /\ label = "timezone_shift" =>
                          \E z \in Zones : Distance(a, b) \in {Distance(z.before, 0), Distance(z.after, 0)}
            /\ label = "rounding" =>
                   /\ 0 \in {a % Fine, b % Fine}
                   /\ Distance(a, b) < Fine \/ (Distance(a, b) = Fine /\ {a, b} \cap Inexact # {})
            /\ label \in {"whitespace", "case_only"} =>
                   Lowered(Stripped(input.source)) = Lowered(Stripped(input.target))

\* Whatever part of a day's rows arrives in the morning after the nightly load, the same
\* rows with the same timestamps are in the company, each once; those of the tables that
\* are never changed are the ones a single load of the whole time gives; and Postgres
\* holds exactly the generator's rows (arrive_new). The pruned range of ids drops no row.
SplitArrivalsLandTheSame ==
    input.case = "company" =>
        LET split == input.split
            stamps(rows) == {<<r.id, r.stamp>> : r \in BagToSet(rows)}
        IN  /\ split = input.whole
            /\ \A t \in ToSet(Tables) : /\ split.postgres[t] = BagToSet(split.db[t])
                                        /\ \A r \in DOMAIN split.db[t] : split.db[t][r] = 1
            /\ \A t \in ToSet(Tables) \ {"customers", "products"} :
                    stamps(split.db[t]) = stamps(input.direct[t])

\* A row is never in the company before the row it refers to: an order before a payment,
\* a campaign before its spend; and whoever an order or a session is attributed to had
\* signed up by then, but for the first ids, which all refer to the first customer.
ParentsComeFirst ==
    input.case = "company" =>
        LET db == input.split.db
            rows(t) == BagToSet(db[t])
            before(child, parent, width) ==
                \A r \in rows(child) : \E p \in rows(parent) :
                    p.id = r.id \div width /\ p.stamp <= r.stamp
            customers == Counts["customers"]
        IN  /\ before("order_items", "orders", 10)
            /\ before("payments", "orders", 10)
            /\ before("marketing_spend", "marketing_campaigns", 1000)
            /\ \A t \in {"orders", "web_sessions"}, u, v \in 0..(Draws - 1) :
                    \A r \in rows(t) : customers * (r.id - 1) >= Counts[t] =>
                        \A c \in Eligible(r.id, Counts[t], customers) :
                            EventTime(c, u, customers) <= EventTime(r.id, v, Counts[t])
=============================================================================
