--------------------------- MODULE OwnershipRules ---------------------------
(***************************************************************************)
(* The ownership registry (src/platform_ops/metadata): how a pattern is    *)
(* ranked and which rule owns a dataset (registry.py), the check           *)
(* (check.py), and the starter registry written from a manifest            *)
(* (bootstrap.py).                                                         *)
(*                                                                         *)
(* A name or a pattern is a sequence of characters, each a string of one;  *)
(* Letter numbers the characters in the order strings are compared in. A   *)
(* model's unique id is its name: the prefix every model of the project    *)
(* has in common is left out, here and in the patterns.                    *)
(***************************************************************************)
EXTENDS Integers, SequencesExt

CONSTANTS Letter, Under    \* Under is the underscore

Before(s, t) ==
    LET n == Min({Len(s), Len(t)})
        differ == {i \in 1..n : s[i] # t[i]}
    IN  IF differ = {} THEN Len(s) < Len(t)
        ELSE Letter[s[Min(differ)]] < Letter[t[Min(differ)]]

-----------------------------------------------------------------------------
\* registry.py

\* Where the bracket that opens at i closes, 0 if nowhere. A "]" right after the "[" is
\* literal; fnmatch, unlike specificity, also reads past the "!" of a negated class.
Closing(pattern, i, negation) ==
    LET skip == IF negation /\ i < Len(pattern) /\ pattern[i + 1] = "!" THEN 3 ELSE 2
        at   == {j \in (i + skip)..Len(pattern) : pattern[j] = "]"}
    IN  IF at = {} THEN 0 ELSE Min(at)

\* The tokens of a pattern: a character, or a whole bracket.
Tokens(pattern, negation) ==
    LET tokens[i \in 1..(Len(pattern) + 1)] ==
            IF i > Len(pattern) THEN <<>>
            ELSE LET close == IF pattern[i] = "[" THEN Closing(pattern, i, negation) ELSE 0
                     last  == IF close = 0 THEN i ELSE close
                 IN  <<[from |-> i, to |-> last, wild |-> pattern[i] \in {"*", "?"} \/ close # 0]>>
                         \o tokens[last + 1]
    IN  tokens[1]

Wild(t) == t.wild

CountTokens(tokens) ==
    LET wild == Len(SelectSeq(tokens, Wild))
    IN  [literal |-> Len(tokens) - wild, wild |-> wild]

Specificity(pattern) == CountTokens(Tokens(pattern, FALSE))

\* Whether a token that stands for one character can stand for this one.
Admits(pattern, t, char) ==
    LET negated == pattern[t.from + 1] = "!"
        class   == {pattern[j] : j \in (t.from + IF negated THEN 2 ELSE 1)..(t.to - 1)}
    IN  CASE ~t.wild -> char = pattern[t.from]
          [] t.wild /\ pattern[t.from] = "[" -> (char \in class) # negated
          [] t.wild /\ pattern[t.from] = "?" -> TRUE

\* fits is of the characters from i on and the tokens from k on.
Fits(name, pattern, tokens) ==
    LET fits[i \in 1..(Len(name) + 1), k \in 1..(Len(tokens) + 1)] ==
            IF k > Len(tokens) THEN i > Len(name)
            ELSE IF tokens[k].wild /\ pattern[tokens[k].from] = "*"
                THEN \E j \in i..(Len(name) + 1) : fits[j, k + 1]
            ELSE i <= Len(name) /\ Admits(pattern, tokens[k], name[i]) /\ fits[i + 1, k + 1]
    IN  fits[1, 1]

\* fnmatchcase
Matches(name, pattern) == Fits(name, pattern, Tokens(pattern, TRUE))

\* A rule is [match, owner, team, backup].
SameRank(r, s) == Specificity(r.match) = Specificity(s.match)

MoreSpecific(r, s) ==
    LET a == Specificity(r.match)
        b == Specificity(s.match)
    IN  a.literal > b.literal \/ (a.literal = b.literal /\ a.wild < b.wild)

First(r, s) == MoreSpecific(r, s) \/ (SameRank(r, s) /\ Before(r.match, s.match))

\* The candidates of a dataset, best first; rules is the file, in order.
Candidates(rules, name) ==
    LET Candidate(r) == Matches(name, r.match)
    IN  SortSeq(SelectSeq(rules, Candidate), First)

Resolve(rules, name) ==
    LET candidates == Candidates(rules, name)
    IN  [candidates |-> candidates,
         rule |-> IF candidates = <<>> THEN <<>> ELSE <<candidates[1]>>,
         ambiguous |-> Len(candidates) >= 2 /\ SameRank(candidates[1], candidates[2])]

Owned(resolution) == resolution.rule # <<>> /\ ~resolution.ambiguous

\* rule_problems; teams maps a team to its members.
Broken(teams, r) ==
    \/ r.team \notin DOMAIN teams
    \/ r.owner \notin teams[r.team]
    \/ r.backup # "" /\ (r.backup \notin teams[r.team] \/ r.backup = r.owner)

-----------------------------------------------------------------------------
\* check.py; a node is [name, type, owner], the owner for an exposure only.

\* Mutant of Errors: an ambiguous dataset is not an error.
ErrorsButTies(teams, rules, nodes) ==
    LET of(n) == Resolve(rules, n.name)
    IN  {<<"rule", r.match>> : r \in {x \in ToSet(rules) : Broken(teams, x)}}
        \cup {<<"unowned", n.name>> : n \in {x \in nodes : of(x).rule = <<>>}}
        \cup {<<"exposure", n.name>> : n \in {x \in nodes :
                Owned(of(x)) /\ x.type = "exposure" /\ x.owner # of(x).rule[1].owner}}

Errors(teams, rules, nodes) ==
    LET of(n) == Resolve(rules, n.name)
    IN  {<<"rule", r.match>> : r \in {x \in ToSet(rules) : Broken(teams, x)}}
        \cup {<<"unowned", n.name>> : n \in {x \in nodes : of(x).rule = <<>>}}
        \cup {<<"ambiguous", n.name>> : n \in {x \in nodes : of(x).ambiguous}}
        \cup {<<"exposure", n.name>> : n \in {x \in nodes :
                Owned(of(x)) /\ x.type = "exposure" /\ x.owner # of(x).rule[1].owner}}

Warnings(rules, nodes) ==
    {r.match : r \in {x \in ToSet(rules) : \A n \in nodes : ~Matches(n.name, x.match)}}

\* coverage: the datasets whose rule names a real team and member.
Covered(teams, rules, nodes) ==
    {n \in nodes : Owned(Resolve(rules, n.name)) /\ ~Broken(teams, Resolve(rules, n.name).rule[1])}

\* store_ownership
OwnershipRows(rules, nodes) ==
    {<<n.name, Resolve(rules, n.name).rule[1]>> : n \in {x \in nodes : Owned(Resolve(rules, x.name))}}

-----------------------------------------------------------------------------
\* bootstrap.py

\* The positions where a token of a name ends: at its last underscore before a letter.
TokenEnds(name) ==
    {i \in 1..Len(name) : /\ \E j \in 1..i : name[j] # Under
                          /\ i < Len(name) => name[i] = Under /\ name[i + 1] # Under}

\* _token_prefix: a name's first tokens; underscores before the first are dropped.
TokenPrefix(name, tokens) ==
    LET ends  == {i \in TokenEnds(name) : Cardinality({j \in TokenEnds(name) : j <= i}) <= tokens}
        first == {i \in 1..Len(name) : name[i] # Under}
    IN  IF ends = {} \/ first = {} THEN <<>> ELSE SubSeq(name, Min(first), Max(ends))

Forever == {<<"never returns">>}

Starts(prefix) == Append(prefix, "*")

\* Mutant of Cover: the names outside the group are not looked at.
CoverGreedily(names, all) ==
    LET part(n, depth) == TokenPrefix(n, depth + 1)
        cover[group \in SUBSET names, depth \in Nat] ==
            IF Cardinality(group) = 1 THEN group
            ELSE IF LongestCommonPrefix(group) # <<>> THEN {Starts(LongestCommonPrefix(group))}
            ELSE UNION {cover[{n \in group : part(n, depth) = p}, depth + 1] :
                            p \in {part(n, depth) : n \in group}}
    IN  cover[names, 0]

\* The patterns of a group of names. Names that differ only in the underscores they
\* start with are never split. (A model with versions, whose names are equal, is left out.)
Cover(names, all) ==
    LET part(n, depth) == TokenPrefix(n, depth + 1)
        tokens(group)  == Max({Cardinality(TokenEnds(n)) : n \in group})
        alone(prefix, group) == prefix # <<>> /\ \A n \in all \ group : ~Matches(n, Starts(prefix))
        cover[group \in SUBSET names, depth \in Nat] ==
            LET prefix   == LongestCommonPrefix(group)
                prefixes == {part(n, depth) : n \in group}
            IN  IF Cardinality(group) = 1 THEN group
                ELSE IF alone(prefix, group) THEN {Starts(prefix)}
                ELSE IF Cardinality(prefixes) = 1 /\ depth > tokens(group) THEN Forever
                ELSE UNION {cover[{n \in group : part(n, depth) = p}, depth + 1] : p \in prefixes}
    IN  cover[names, 0]

\* _model_rules: folderOf maps every model of the root project to its folder.
StarterRules(folderOf) ==
    UNION {Cover({n \in DOMAIN folderOf : folderOf[n] = f}, DOMAIN folderOf) : f \in Range(folderOf)}
=============================================================================
