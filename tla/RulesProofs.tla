----------------------------- MODULE RulesProofs -----------------------------
(***************************************************************************)
(* What the pure rules promise, for every input.                           *)
(*                                                                         *)
(* The lineage: any project, any policy, any checks and any two            *)
(* catalogues.                                                             *)
(*                                                                         *)
(* The compared values: any zones, scale, lower case, cells and policies.  *)
(* A row is read back off its text because an escape, read from the left,  *)
(* never leaves a bar on its own and is always finished (Escapes).         *)
(***************************************************************************)
EXTENDS LineageRules, PlatformRules, NumberLemmas, SequenceTheorems

-----------------------------------------------------------------------------
(* The pairs of a night.                                                   *)

\* A relation is as it was when the catalogue restricted to it is.
LEMMA SameSide ==
    ASSUME NEW then, NEW now, NEW r,
           Restrict(then, {r} \cap DOMAIN then) = Restrict(now, {r} \cap DOMAIN now)
    PROVE  (r \in DOMAIN then <=> r \in DOMAIN now) /\ (r \in DOMAIN then => then[r] = now[r])
<1>1. {r} \cap DOMAIN then = {r} \cap DOMAIN now
  <2>1. \A f, S : DOMAIN Restrict(f, S) = S
    BY DEF Restrict
  <2> QED
    BY <2>1
<1>2. r \in DOMAIN then => Restrict(then, {r} \cap DOMAIN then)[r] = then[r]
  BY DEF Restrict
<1>3. r \in DOMAIN now => Restrict(now, {r} \cap DOMAIN now)[r] = now[r]
  BY DEF Restrict
<1> QED
  BY <1>1, <1>2, <1>3

\* Whether a pair drifted and what is compared of it depend on its two relations.
LEMMA OwnRelations ==
    ASSUME NEW p, NEW legacy, NEW new, NEW nextLegacy, NEW nextNew,
           p.source \in DOMAIN legacy <=> p.source \in DOMAIN nextLegacy,
           p.source \in DOMAIN legacy => legacy[p.source] = nextLegacy[p.source],
           p.target \in DOMAIN new <=> p.target \in DOMAIN nextNew,
           p.target \in DOMAIN new => new[p.target] = nextNew[p.target]
    PROVE  /\ DriftOf(p, legacy, new) = DriftOf(p, nextLegacy, nextNew)
           /\ DriftOf(p, legacy, new) = "none" => SpecOf(p, legacy, new) = SpecOf(p, nextLegacy, nextNew)
<1>1. CASE p.source \notin DOMAIN legacy
  BY <1>1 DEF DriftOf
<1>2. CASE p.source \in DOMAIN legacy /\ p.target \notin DOMAIN new
  BY <1>2 DEF DriftOf
<1>3. CASE p.source \in DOMAIN legacy /\ p.target \in DOMAIN new
  <2>1. legacy[p.source] = nextLegacy[p.source] /\ new[p.target] = nextNew[p.target]
    BY <1>3
  <2>2. DriftOf(p, legacy, new) = DriftOf(p, nextLegacy, nextNew)
    BY <1>3, <2>1 DEF DriftOf
  <2>3. SpecOf(p, legacy, new) = SpecOf(p, nextLegacy, nextNew)
    BY <2>1 DEF SpecOf
  <2> QED
    BY <2>2, <2>3
<1> QED
  BY <1>1, <1>2, <1>3

\* A pair that lines up has both relations, a counterpart for every column, its key and its
\* timestamp; and a pair with all of these does not drift.
LEMMA LinesUp ==
    ASSUME NEW p, NEW legacy, NEW new
    PROVE  LET compared == DOMAIN legacy[p.source] \ p.skip
           IN  DriftOf(p, legacy, new) = "none" <=>
                  /\ p.source \in DOMAIN legacy /\ p.target \in DOMAIN new
                  /\ \A c \in compared : TargetName(p, c) \in DOMAIN new[p.target]
                  /\ p.key \subseteq compared
                  /\ p.changed \in {c \in compared : KindFromPostgres(legacy[p.source][c].type) = "ts"} \cup {""}
  BY DEF DriftOf

\* When columns are added and none is taken away, a pair goes on lining up exactly when each
\* one added on the legacy side has its counterpart.
LEMMA ColumnsAreAdded ==
    ASSUME NEW p, NEW legacy, NEW new, NEW nextLegacy, NEW nextNew,
           DriftOf(p, legacy, new) = "none",
           p.source \in DOMAIN nextLegacy, p.target \in DOMAIN nextNew,
           \A c \in DOMAIN legacy[p.source] :
               c \in DOMAIN nextLegacy[p.source] /\ nextLegacy[p.source][c] = legacy[p.source][c],
           \A c \in DOMAIN new[p.target] :
               c \in DOMAIN nextNew[p.target] /\ nextNew[p.target][c] = new[p.target][c]
    PROVE  LET compared == (DOMAIN nextLegacy[p.source] \ DOMAIN legacy[p.source]) \ p.skip
           IN  DriftOf(p, nextLegacy, nextNew) = "none" <=>
                   \A c \in compared : TargetName(p, c) \in DOMAIN nextNew[p.target]
<1> DEFINE then == DOMAIN legacy[p.source] \ p.skip
           now == DOMAIN nextLegacy[p.source] \ p.skip
           compared == (DOMAIN nextLegacy[p.source] \ DOMAIN legacy[p.source]) \ p.skip
           stamps(cat, S) == {c \in S : KindFromPostgres(cat[p.source][c].type) = "ts"}
<1>1. now = then \cup compared
  OBVIOUS
<1>2. /\ \A c \in then : TargetName(p, c) \in DOMAIN new[p.target]
      /\ p.key \subseteq then
      /\ p.changed \in stamps(legacy, then) \cup {""}
  BY LinesUp
<1>3. \A c \in then : nextLegacy[p.source][c] = legacy[p.source][c]
  OBVIOUS
<1>4. \A c \in then : /\ TargetName(p, c) \in DOMAIN nextNew[p.target]
                      /\ nextNew[p.target][TargetName(p, c)] = new[p.target][TargetName(p, c)]
  BY <1>2
<1>5. stamps(legacy, then) \subseteq stamps(nextLegacy, now)
  BY <1>1, <1>3
<1>6. p.key \subseteq now /\ p.changed \in stamps(nextLegacy, now) \cup {""}
  BY <1>1, <1>2, <1>5
<1>7. DriftOf(p, nextLegacy, nextNew) = "none" <=>
          \A c \in compared : TargetName(p, c) \in DOMAIN nextNew[p.target]
  <2>1. DriftOf(p, nextLegacy, nextNew) = "none" <=>
            /\ p.source \in DOMAIN nextLegacy /\ p.target \in DOMAIN nextNew
            /\ \A c \in now : TargetName(p, c) \in DOMAIN nextNew[p.target]
            /\ p.key \subseteq now
            /\ p.changed \in stamps(nextLegacy, now) \cup {""}
    BY DEF DriftOf
  <2>2. (\A c \in now : TargetName(p, c) \in DOMAIN nextNew[p.target])
            <=> \A c \in compared : TargetName(p, c) \in DOMAIN nextNew[p.target]
    BY <1>1, <1>4
  <2> HIDE DEF now, compared, stamps
  <2> QED
    BY <1>6, <2>1, <2>2
<1> QED
  BY <1>7

\* What a night makes of a pair.
LEMMA LoadSays ==
    ASSUME NEW pairs, NEW legacy, NEW new, NEW p \in pairs
    PROVE  LET load == LoadPairs(pairs, legacy, new)
           IN  /\ p \in DOMAIN load.specs <=> DriftOf(p, legacy, new) = "none"
               /\ p \in DOMAIN load.drifted <=> DriftOf(p, legacy, new) # "none"
               /\ p \in DOMAIN load.specs => load.specs[p] = SpecOf(p, legacy, new)
               /\ p \in DOMAIN load.drifted => load.drifted[p] = DriftOf(p, legacy, new)
  BY DEF LoadPairs

\* Whatever the pairs and whatever the two catalogues of two nights.
LEMMA PairsNeedOnlyThemselves == PairsAreComparedOrFail
<1> SUFFICES ASSUME NEW i, i = input.of, NEW p \in i.pairs
    PROVE
        LET tonight == LoadPairs(i.pairs, i.legacy, i.new)
            next    == LoadPairs(i.pairs, i.nextLegacy, i.nextNew)
            outcome(load, q) == IF q \in DOMAIN load.specs THEN load.specs[q] ELSE load.drifted[q]
            side(catalogue, r) == Restrict(catalogue, {r} \cap DOMAIN catalogue)
            added(then, now, r) == DOMAIN now[r] \ DOMAIN then[r]
            kept(then, now, r) == \A c \in DOMAIN then[r] : c \in DOMAIN now[r] /\ now[r][c] = then[r][c]
        IN  /\ p \in DOMAIN tonight.specs <=> p \notin DOMAIN tonight.drifted
            /\ (side(i.legacy, p.source) = side(i.nextLegacy, p.source)
                    /\ side(i.new, p.target) = side(i.nextNew, p.target)) =>
                   (p \in DOMAIN next.specs <=> p \in DOMAIN tonight.specs)
                       /\ outcome(next, p) = outcome(tonight, p)
            /\ (/\ p \in DOMAIN tonight.specs
                /\ p.source \in DOMAIN i.nextLegacy /\ p.target \in DOMAIN i.nextNew
                /\ kept(i.legacy, i.nextLegacy, p.source) /\ kept(i.new, i.nextNew, p.target)) =>
                   LET compared == added(i.legacy, i.nextLegacy, p.source) \ p.skip
                       spec     == tonight.specs[p]
                   IN  /\ p \in DOMAIN next.specs <=>
                              \A c \in compared : TargetName(p, c) \in DOMAIN i.nextNew[p.target]
                       /\ p \in DOMAIN next.specs =>
                              /\ DOMAIN next.specs[p] = DOMAIN spec \cup compared
                              /\ \A c \in DOMAIN spec : next.specs[p][c] = spec[c]
  BY DEF PairsAreComparedOrFail
<1> DEFINE tonight == LoadPairs(i.pairs, i.legacy, i.new)
           next == LoadPairs(i.pairs, i.nextLegacy, i.nextNew)
           side(catalogue, r) == Restrict(catalogue, {r} \cap DOMAIN catalogue)
<1>1. /\ p \in DOMAIN tonight.specs <=> DriftOf(p, i.legacy, i.new) = "none"
      /\ p \in DOMAIN tonight.drifted <=> DriftOf(p, i.legacy, i.new) # "none"
      /\ p \in DOMAIN tonight.specs => tonight.specs[p] = SpecOf(p, i.legacy, i.new)
      /\ p \in DOMAIN tonight.drifted => tonight.drifted[p] = DriftOf(p, i.legacy, i.new)
  BY LoadSays
<1>2. /\ p \in DOMAIN next.specs <=> DriftOf(p, i.nextLegacy, i.nextNew) = "none"
      /\ p \in DOMAIN next.drifted <=> DriftOf(p, i.nextLegacy, i.nextNew) # "none"
      /\ p \in DOMAIN next.specs => next.specs[p] = SpecOf(p, i.nextLegacy, i.nextNew)
      /\ p \in DOMAIN next.drifted => next.drifted[p] = DriftOf(p, i.nextLegacy, i.nextNew)
  BY LoadSays
<1> HIDE DEF tonight, next
<1>3. ASSUME side(i.legacy, p.source) = side(i.nextLegacy, p.source),
             side(i.new, p.target) = side(i.nextNew, p.target)
      PROVE  /\ p \in DOMAIN next.specs <=> p \in DOMAIN tonight.specs
             /\ (IF p \in DOMAIN next.specs THEN next.specs[p] ELSE next.drifted[p])
                    = (IF p \in DOMAIN tonight.specs THEN tonight.specs[p] ELSE tonight.drifted[p])
  <2>1. /\ p.source \in DOMAIN i.legacy <=> p.source \in DOMAIN i.nextLegacy
        /\ p.source \in DOMAIN i.legacy => i.legacy[p.source] = i.nextLegacy[p.source]
    <3>1. Restrict(i.legacy, {p.source} \cap DOMAIN i.legacy) = Restrict(i.nextLegacy, {p.source} \cap DOMAIN i.nextLegacy)
      BY <1>3
    <3>2. p.source \in DOMAIN i.legacy <=> p.source \in DOMAIN i.nextLegacy
      BY ONLY <3>1, SameSide
    <3>3. p.source \in DOMAIN i.legacy => i.legacy[p.source] = i.nextLegacy[p.source]
      BY ONLY <3>1, SameSide
    <3> QED
      BY <3>2, <3>3
  <2>2. /\ p.target \in DOMAIN i.new <=> p.target \in DOMAIN i.nextNew
        /\ p.target \in DOMAIN i.new => i.new[p.target] = i.nextNew[p.target]
    <3>1. Restrict(i.new, {p.target} \cap DOMAIN i.new) = Restrict(i.nextNew, {p.target} \cap DOMAIN i.nextNew)
      BY <1>3
    <3>2. p.target \in DOMAIN i.new <=> p.target \in DOMAIN i.nextNew
      BY ONLY <3>1, SameSide
    <3>3. p.target \in DOMAIN i.new => i.new[p.target] = i.nextNew[p.target]
      BY ONLY <3>1, SameSide
    <3> QED
      BY <3>2, <3>3
  <2>3. /\ DriftOf(p, i.legacy, i.new) = DriftOf(p, i.nextLegacy, i.nextNew)
        /\ DriftOf(p, i.legacy, i.new) = "none"
              => SpecOf(p, i.legacy, i.new) = SpecOf(p, i.nextLegacy, i.nextNew)
    BY <2>1, <2>2, OwnRelations
  <2> QED
    BY <1>1, <1>2, <2>3
<1>4. ASSUME p \in DOMAIN tonight.specs, p.source \in DOMAIN i.nextLegacy, p.target \in DOMAIN i.nextNew,
             \A c \in DOMAIN i.legacy[p.source] :
                 c \in DOMAIN i.nextLegacy[p.source] /\ i.nextLegacy[p.source][c] = i.legacy[p.source][c],
             \A c \in DOMAIN i.new[p.target] :
                 c \in DOMAIN i.nextNew[p.target] /\ i.nextNew[p.target][c] = i.new[p.target][c]
      PROVE  LET compared == (DOMAIN i.nextLegacy[p.source] \ DOMAIN i.legacy[p.source]) \ p.skip
             IN  /\ p \in DOMAIN next.specs <=>
                        \A c \in compared : TargetName(p, c) \in DOMAIN i.nextNew[p.target]
                 /\ p \in DOMAIN next.specs =>
                        /\ DOMAIN next.specs[p] = DOMAIN tonight.specs[p] \cup compared
                        /\ \A c \in DOMAIN tonight.specs[p] : next.specs[p][c] = tonight.specs[p][c]
  <2>1. DriftOf(p, i.legacy, i.new) = "none"
    BY <1>1, <1>4
  <2>2. LET compared == (DOMAIN i.nextLegacy[p.source] \ DOMAIN i.legacy[p.source]) \ p.skip
            spec == SpecOf(p, i.legacy, i.new)
            nextSpec == SpecOf(p, i.nextLegacy, i.nextNew)
        IN  /\ DriftOf(p, i.nextLegacy, i.nextNew) = "none" <=>
                   \A c \in compared : TargetName(p, c) \in DOMAIN i.nextNew[p.target]
            /\ DOMAIN nextSpec = DOMAIN spec \cup compared
            /\ \A c \in DOMAIN spec : nextSpec[c] = spec[c]
    <3> PICK legacy, new, nextLegacy, nextNew :
            legacy = i.legacy /\ new = i.new /\ nextLegacy = i.nextLegacy /\ nextNew = i.nextNew
      OBVIOUS
    <3>1. /\ DriftOf(p, legacy, new) = "none"
          /\ p.source \in DOMAIN nextLegacy /\ p.target \in DOMAIN nextNew
          /\ \A c \in DOMAIN legacy[p.source] :
                 c \in DOMAIN nextLegacy[p.source] /\ nextLegacy[p.source][c] = legacy[p.source][c]
          /\ \A c \in DOMAIN new[p.target] :
                 c \in DOMAIN nextNew[p.target] /\ nextNew[p.target][c] = new[p.target][c]
      BY <1>4, <2>1
    <3> DEFINE compared == (DOMAIN nextLegacy[p.source] \ DOMAIN legacy[p.source]) \ p.skip
    <3>2. DriftOf(p, nextLegacy, nextNew) = "none" <=>
              \A c \in compared : TargetName(p, c) \in DOMAIN nextNew[p.target]
      BY ONLY <3>1, ColumnsAreAdded
    <3>3. DOMAIN SpecOf(p, nextLegacy, nextNew) = DOMAIN SpecOf(p, legacy, new) \cup compared
      BY <3>1 DEF SpecOf
    <3>4. ASSUME NEW c \in DOMAIN SpecOf(p, legacy, new)
          PROVE  SpecOf(p, nextLegacy, nextNew)[c] = SpecOf(p, legacy, new)[c]
      <4>1. c \in DOMAIN legacy[p.source] \ p.skip
        BY DEF SpecOf
      <4>2. TargetName(p, c) \in DOMAIN new[p.target]
        BY <3>1, <4>1, LinesUp
      <4>3. /\ c \in DOMAIN nextLegacy[p.source] /\ nextLegacy[p.source][c] = legacy[p.source][c]
            /\ nextNew[p.target][TargetName(p, c)] = new[p.target][TargetName(p, c)]
        BY <3>1, <4>1, <4>2
      <4> QED
        BY <4>1, <4>3 DEF SpecOf
    <3> QED
      BY <3>2, <3>3, <3>4
  <2> QED
    BY <1>1, <1>2, <1>4, <2>2
<1> QED
  BY <1>1, <1>3, <1>4 DEF tonight, next

-----------------------------------------------------------------------------
(* The route of an incident.                                               *)

\* What a page's columns are traced to is in the project, so it can be counted.
TracedInProject(traced) ==
    \A d \in DOMAIN traced : \A c \in DOMAIN traced[d] : traced[d][c] \subseteq Node

\* The checks that failed on a dataset are all tests of columns traced to one source.
PointTo(d, events, traced, s) ==
    LET own == {e \in events : e.subject = d}
    IN  /\ TypeOf[d] = "model" /\ d \in DOMAIN traced /\ own # {}
        /\ \A e \in own : e.type = "test" /\ e.columns # {}
        /\ \A e \in own : \A c \in e.columns : c \in DOMAIN traced[d] /\ traced[d][c] = {s}

\* That is exactly when the source is named.
LEMMA SourceSays ==
    ASSUME NEW d, NEW events, NEW traced, TracedInProject(traced), NEW s, s # NoSource
    PROVE  SourceOfFailingColumns(d, events, traced) = s <=> PointTo(d, events, traced, s)
<1> DEFINE own == {e \in events : e.subject = d}
           columns == UNION {e.columns : e \in own}
           sources == UNION {traced[d][c] : c \in columns \cap DOMAIN traced[d]}
           Tests == /\ TypeOf[d] = "model" /\ d \in DOMAIN traced /\ own # {}
                    /\ \A e \in own : e.type = "test" /\ e.columns # {}
           Known == \A c \in columns : c \in DOMAIN traced[d] /\ traced[d][c] # {}
           One == \A c \in columns : c \in DOMAIN traced[d] /\ traced[d][c] = {s}
<1>1. SourceOfFailingColumns(d, events, traced)
          = IF Tests /\ Known /\ Cardinality(sources) = 1 THEN CHOOSE x \in sources : TRUE ELSE NoSource
  BY DEF SourceOfFailingColumns
<1>2. One <=> \A e \in own : \A c \in e.columns : c \in DOMAIN traced[d] /\ traced[d][c] = {s}
  OBVIOUS
<1>3. ASSUME Tests, One PROVE Known /\ Cardinality(sources) = 1 /\ (CHOOSE x \in sources : TRUE) = s
  <2>1. columns # {}
    BY <1>3
  <2>2. sources = {s}
    BY <1>3, <2>1
  <2>3. Known
    BY <1>3
  <2> HIDE DEF sources, Known
  <2> QED
    BY <2>2, <2>3, FS_Singleton
<1>4. ASSUME Tests, Known, Cardinality(sources) = 1, (CHOOSE x \in sources : TRUE) = s PROVE One
  <2>1. sources \subseteq Node
    BY <1>4 DEF TracedInProject
  <2>2. IsFiniteSet(sources)
    BY <2>1, GraphAssumption, FS_Subset
  <2>3. \E x : sources = {x}
    <3> HIDE DEF sources
    <3> QED
      BY <1>4, <2>2, FS_Singleton
  <2>4. sources = {s}
    <3> HIDE DEF sources
    <3> QED
      BY <1>4, <2>3
  <2>5. \A c \in columns : traced[d][c] \subseteq sources /\ traced[d][c] # {}
    BY <1>4
  <2> HIDE DEF sources
  <2> QED
    BY <1>4, <2>4, <2>5
<1> HIDE DEF Tests, Known, One, sources
<1>5. SourceOfFailingColumns(d, events, traced) = s <=> Tests /\ One
  BY <1>1, <1>3, <1>4
<1> QED
  BY <1>2, <1>5 DEF Tests, PointTo

\* The checks that fail later can only take the page back to the model's owner.
LEMMA LaterChecksStepBack ==
    ASSUME NEW root, NEW events, NEW traced, TracedInProject(traced), NEW early \in SUBSET events,
           {e \in early : e.subject = DatasetOf(root)} # {}
    PROVE  RoutedVia(root, events, traced)
              \in {RoutedVia(root, early, traced), RoutedByName(DatasetOf(root))}
<1> PICK d, s : d = DatasetOf(root) /\ s = SourceOfFailingColumns(d, events, traced)
  OBVIOUS
<1>1. CASE s = NoSource
  BY <1>1 DEF RoutedVia
<1>2. CASE s # NoSource
  <2>1. PointTo(d, events, traced, s)
    BY <1>2, SourceSays
  <2>2. PointTo(d, early, traced, s)
    BY <2>1 DEF PointTo
  <2>3. SourceOfFailingColumns(d, early, traced) = s
    BY <1>2, <2>2, SourceSays
  <2> QED
    BY <1>2, <2>3 DEF RoutedVia
<1> QED
  BY <1>1, <1>2

\* A source is paged only when every failing check alone points to it.
LEMMA EveryCheckPointsToIt ==
    ASSUME NEW root, NEW events, NEW traced, TracedInProject(traced), NEW s, s # NoSource,
           s # RoutedByName(DatasetOf(root))
    PROVE  LET own == {e \in events : e.subject = DatasetOf(root)}
           IN  RoutedVia(root, events, traced) = s <=>
                  own # {} /\ \A e \in own : RoutedVia(root, {e}, traced) = s
<1> PICK d : d = DatasetOf(root)
  OBVIOUS
<1> DEFINE own(S) == {e \in S : e.subject = d}
           Points(S) == PointTo(d, S, traced, s)
<1>1. ASSUME NEW S PROVE RoutedVia(root, S, traced) = s <=> Points(S)
  <2>1. SourceOfFailingColumns(d, S, traced) = s <=> Points(S)
    BY SourceSays
  <2> HIDE DEF Points
  <2> QED
    BY <2>1 DEF RoutedVia
<1>2. \A e \in own(events) : own({e}) = {e}
  OBVIOUS
<1>3. Points(events) <=> own(events) # {} /\ \A e \in own(events) : Points({e})
  <2>1. ASSUME Points(events) PROVE own(events) # {} /\ \A e \in own(events) : Points({e})
    BY <2>1, <1>2 DEF PointTo
  <2>2. ASSUME own(events) # {}, \A e \in own(events) : Points({e}) PROVE Points(events)
    BY <2>2, <1>2 DEF PointTo
  <2> QED
    BY <2>1, <2>2
<1> HIDE DEF Points
<1> QED
  BY <1>1, <1>3

\* Whatever checks fail on whatever root.
LEMMA RouteStands ==
    ASSUME input.case = "page" => input.of \in Pages
    PROVE  RouteMovesOnlyToTheModel
<1> SUFFICES ASSUME input.case = "page", NEW page, page = input.of, page \in Pages,
                    NEW dataset, dataset = DatasetOf(page.root)
    PROVE
        LET own(events) == {e \in events : e.subject = dataset}
            via(events) == RoutedVia(page.root, events, page.traced)
        IN  /\ \A early \in SUBSET page.events :
                   own(early) # {} => via(page.events) \in {via(early), RoutedByName(dataset)}
            /\ \A s \in {n \in Node : TypeOf[n] = "source"} \ {RoutedByName(dataset)} :
                   via(page.events) = s <=>
                       /\ own(page.events) # {}
                       /\ \A e \in own(page.events) : via({e}) = s
  BY DEF RouteMovesOnlyToTheModel
<1> PICK root, checks, traced : root = page.root /\ checks = page.events /\ traced = page.traced
  OBVIOUS
<1>1. TracedInProject(traced)
  BY RulesAssumption DEF TracedInProject
<1>2. ASSUME NEW early \in SUBSET checks, {e \in early : e.subject = DatasetOf(root)} # {}
      PROVE  RoutedVia(root, checks, traced)
                \in {RoutedVia(root, early, traced), RoutedByName(DatasetOf(root))}
  BY ONLY <1>1, <1>2, LaterChecksStepBack
<1>3. ASSUME NEW s \in Node, s # RoutedByName(DatasetOf(root))
      PROVE  LET own == {e \in checks : e.subject = DatasetOf(root)}
             IN  RoutedVia(root, checks, traced) = s <=>
                    own # {} /\ \A e \in own : RoutedVia(root, {e}, traced) = s
  <2>1. s # NoSource
    BY RulesAssumption
  <2> QED
    BY ONLY <1>1, <1>3, <2>1, EveryCheckPointsToIt
<1>4. dataset = DatasetOf(root)
  OBVIOUS
<1>5. \A early \in SUBSET checks : {e \in early : e.subject = dataset} # {} =>
          RoutedVia(root, checks, traced) \in {RoutedVia(root, early, traced), RoutedByName(dataset)}
  BY ONLY <1>2, <1>4
<1>6. \A s \in {n \in Node : TypeOf[n] = "source"} \ {RoutedByName(dataset)} :
          RoutedVia(root, checks, traced) = s <=>
              /\ {e \in checks : e.subject = dataset} # {}
              /\ \A e \in {e \in checks : e.subject = dataset} : RoutedVia(root, {e}, traced) = s
  BY ONLY <1>3, <1>4
<1> QED
  BY <1>5, <1>6

-----------------------------------------------------------------------------
(* What is above, and what it is worth.                                    *)

\* Reach is the relation of parents, followed step by step.
LEMMA ReachIs == Climbs(Reach, Node, [n \in Node |-> Parents(n)])
<1> DEFINE up == [n \in Node |-> Parents(n)]
           Grows(f) == f = [k \in 0..Cardinality(Node) |->
                              IF k = 0 THEN [n \in Node |-> {n}]
                              ELSE LET nearer == f[k - 1]
                                   IN  [n \in Node |-> nearer[n] \cup UNION {nearer[p] : p \in Parents(n)}]]
<1>1. IsFiniteSet(Node) /\ Cardinality(Node) \in Nat /\ up \in [Node -> SUBSET Node]
  BY GraphAssumption, FS_CardinalityType DEF Parents
<1>2. PICK f : IsClimb(f, Node, up)
  <2> HIDE DEF up
  <2> QED
    BY <1>1, Climbing
<1>3. Grows(f)
  BY <1>2 DEF IsClimb
<1>4. Reach = CHOOSE g : Grows(g)
  BY DEF Reach
<1>5. Grows(Reach)
  <2> HIDE DEF Grows
  <2> QED
    BY <1>3, <1>4
<1>6. 0 \in 0..Cardinality(Node) /\ \A k \in 1..Cardinality(Node) : k \in 0..Cardinality(Node) /\ k # 0
  BY <1>1
<1>7. Reach[0] = [n \in Node |-> {n}]
  BY <1>5, <1>6
<1>8. ASSUME NEW k \in 1..Cardinality(Node)
      PROVE  Reach[k] = [n \in Node |-> Reach[k - 1][n] \cup UNION {Reach[k - 1][p] : p \in up[n]}]
  <2>1. Reach[k] = [n \in Node |-> Reach[k - 1][n] \cup UNION {Reach[k - 1][p] : p \in Parents(n)}]
    BY <1>5, <1>6
  <2> QED
    BY <2>1
<1> QED
  BY <1>7, <1>8 DEF Climbs

\* What is above is in the project, what is above it is above too, and something is built
\* from it.
LEMMA AboveSays ==
    ASSUME NEW n \in Node, NEW m \in Above[n]
    PROVE  m \in Node /\ Above[m] \subseteq Above[n] /\ \E e \in Edge : e[1] = m
<1> DEFINE up == [l \in Node |-> Parents(l)]
           N == Cardinality(Node)
<1>1. IsFiniteSet(Node) /\ up \in [Node -> SUBSET Node] /\ N \in Nat
  BY GraphAssumption, FS_CardinalityType DEF Parents
<1>2. N \in 0..N /\ \A l \in Node : Above[l] = Reach[N][l] \ {l}
  BY <1>1 DEF Above, Within
<1>3. Climbs(Reach, Node, up)
  BY ReachIs
<1>4. m \in Reach[N][n] /\ m # n
  BY <1>2
<1>5. \A l \in Node : Reach[N][l] \subseteq Node
  <2> HIDE DEF up
  <2> QED
    BY <1>1, <1>2, <1>3, ClimbsFurther
<1>6. /\ Reach[N][m] \subseteq Reach[N][n]
      /\ m = n \/ \E l \in Node : m \in up[l]
  <2> HIDE DEF up
  <2> QED
    BY <1>1, <1>3, <1>4, ClimbIsTransitive
<1>7. m \in Node /\ n \notin Above[m]
  BY <1>4, <1>5, AcyclicAssumption
<1>8. Above[m] \subseteq Above[n]
  BY <1>2, <1>6, <1>7
<1>9. \E e \in Edge : e[1] = m
  BY <1>4, <1>6 DEF Parents
<1> QED
  BY <1>7, <1>8, <1>9

\* More consumers weigh no less.
LEMMA MoreConsumersWeighMore ==
    ASSUME NEW S \in SUBSET Node, NEW T \in SUBSET S, NEW tiers, NEW policy,
           \A n \in Node : policy.weight[TierOf(n, tiers)] \in Nat
    PROVE  /\ ConsumerWeight(S, tiers, policy) \in Nat /\ ConsumerWeight(T, tiers, policy) \in Nat
           /\ ConsumerWeight(T, tiers, policy) <= ConsumerWeight(S, tiers, policy)
<1> DEFINE weight(n) == policy.weight[TierOf(n, tiers)]
           Sums(f, K) == f = [s \in SUBSET K |->
                                IF s = {} THEN 0
                                ELSE weight(CHOOSE x \in s : TRUE) + f[s \ {CHOOSE x \in s : TRUE}]]
<1>1. ASSUME NEW K \in SUBSET Node
      PROVE  /\ IsFiniteSet(K) /\ [n \in K |-> weight(n)] \in [K -> Nat]
             /\ \E f : AddsUp(f, K, [n \in K |-> weight(n)]) /\ ConsumerWeight(K, tiers, policy) = f[K]
  <2>1. IsFiniteSet(K)
    BY GraphAssumption, FS_Subset
  <2>2. [n \in K |-> weight(n)] \in [K -> Nat]
    OBVIOUS
  <2>3. ConsumerWeight(K, tiers, policy) = (CHOOSE f : Sums(f, K))[K]
    BY DEF ConsumerWeight, MapThenSumSet, MapThenFoldSet
  <2> DEFINE w == [n \in K |-> weight(n)]
             one(s) == CHOOSE x \in s : TRUE
  <2>4. ASSUME NEW f PROVE Sums(f, K) <=> AddsUp(f, K, w)
    <3> DEFINE sum == [s \in SUBSET K |-> IF s = {} THEN 0 ELSE weight(one(s)) + f[s \ {one(s)}]]
               add == [s \in SUBSET K |-> IF s = {} THEN 0 ELSE w[one(s)] + f[s \ {one(s)}]]
    <3>1. \A s \in SUBSET K : s # {} => one(s) \in s
      OBVIOUS
    <3> HIDE DEF one
    <3>2. \A s \in SUBSET K : s # {} => w[one(s)] = weight(one(s))
      BY <3>1
    <3> HIDE DEF weight, w
    <3>3. sum = add
      BY <3>2
    <3>4. (Sums(f, K) <=> f = sum) /\ (AddsUp(f, K, w) <=> f = add)
      BY DEF AddsUp, one
    <3> HIDE DEF sum, add, Sums
    <3> QED
      BY <3>3, <3>4
  <2>5. \E f : AddsUp(f, K, w)
    <3> HIDE DEF w
    <3> QED
      BY <2>1, <2>2, Adding DEF w
  <2> HIDE DEF w, Sums
  <2>6. Sums(CHOOSE f : Sums(f, K), K)
    BY <2>4, <2>5
  <2>7. AddsUp(CHOOSE f : Sums(f, K), K, w)
    BY <2>4, <2>6
  <2>8. \E f : AddsUp(f, K, w) /\ ConsumerWeight(K, tiers, policy) = f[K]
    BY <2>3, <2>7
  <2> QED
    BY <2>1, <2>2, <2>8 DEF w
<1> DEFINE w == [n \in S |-> weight(n)]
           v == [n \in T |-> weight(n)]
<1>2. PICK f : AddsUp(f, S, w) /\ ConsumerWeight(S, tiers, policy) = f[S]
  BY <1>1
<1>3. PICK g : AddsUp(g, T, v) /\ ConsumerWeight(T, tiers, policy) = g[T]
  BY <1>1
<1>4. IsFiniteSet(S) /\ w \in [S -> Nat] /\ v \in [T -> Nat] /\ \A x \in T : v[x] = w[x]
  BY <1>1
<1> HIDE DEF w, v
<1>5. g[T] \in Nat /\ f[S] \in Nat /\ g[T] <= f[S]
  BY ONLY <1>2, <1>3, <1>4, T \in SUBSET S, PartsAddUpToLess
<1> QED
  BY <1>2, <1>3, <1>5

\* A product grows with its factor.
LEMMA ProductGrows ==
    ASSUME NEW m \in Nat, NEW a \in Nat, NEW b \in Nat, a <= b
    PROVE  m * a \in Nat /\ m * b \in Nat /\ m * a <= m * b
<1> DEFINE T == {k \in Nat : k * a \in Nat /\ k * b \in Nat /\ k * a <= k * b}
<1>1. 0 \in T
  OBVIOUS
<1>2. ASSUME NEW k \in Nat, k \in T PROVE k + 1 \in T
  <2>1. (k + 1) * a = k * a + a /\ (k + 1) * b = k * b + b
    OBVIOUS
  <2>2. k * a \in Nat /\ k * b \in Nat /\ k * a <= k * b
    BY <1>2
  <2>3. k * a + a \in Nat /\ k * b + b \in Nat /\ k * a + a <= k * b + b
    BY <2>2
  <2> QED
    BY <2>1, <2>3
<1> QED
  <2> HIDE DEF T
  <2>1. m \in T
    BY <1>1, <1>2, EveryNumber
  <2> QED
    BY <2>1 DEF T

\* A root further up reaches everyone the node reaches.
LEMMA RootReachesMore ==
    ASSUME NEW n \in Node, NEW root \in Above[n], TypeOf[n] \in {"model", "exposure"}
    PROVE  /\ root \in Node /\ DatasetOf(root) = root /\ DatasetOf(n) = n
           /\ DownstreamConsumers(n) \subseteq DownstreamConsumers(root)
<1>1. root \in Node /\ TypeOf[root] # "test"
  BY AboveSays, RulesAssumption
<1>2. DatasetOf(root) = root /\ DatasetOf(n) = n
  BY <1>1 DEF DatasetOf
<1>3. \A m \in Node : n \in Above[m] => root \in Above[m]
  BY AboveSays
<1> QED
  BY <1>1, <1>2, <1>3 DEF DownstreamConsumers

\* Whatever the tiers, the owners, the settings and the month.
LEMMA UpstreamStands ==
    ASSUME input.case = "impact" => input.of \in Impacts
    PROVE  UpstreamReachesMore
<1> SUFFICES ASSUME input.case = "impact", NEW i \in Impacts, i = input.of,
                    NEW n \in Node, NEW root \in Above[n], TypeOf[n] \in {"model", "exposure"},
                    i.policy.weight[TierOf(root, i.tiers)] >= i.policy.weight[TierOf(n, i.tiers)]
    PROVE  /\ SeverityFor(Score(root, i.tiers, i.policy), i.policy)
                 <= SeverityFor(Score(n, i.tiers, i.policy), i.policy)
           /\ \A day \in 1..i.daysInMonth :
                 OpenWindows(n, i.rules, i.policy, day, i.daysInMonth)
                    \subseteq OpenWindows(root, i.rules, i.policy, day, i.daysInMonth)
  BY DEF UpstreamReachesMore
<1> DEFINE weight(m) == i.policy.weight[TierOf(m, i.tiers)]
           worth(m) == ConsumerWeight(DownstreamConsumers(m), i.tiers, i.policy)
<1>1. /\ root \in Node /\ DatasetOf(root) = root /\ DatasetOf(n) = n
      /\ DownstreamConsumers(n) \subseteq DownstreamConsumers(root)
  BY RootReachesMore
<1>2. /\ i.policy.multiplier \in Nat /\ i.policy.sev1 \in Nat /\ i.policy.sev2 \in Nat
      /\ \A m \in Node : weight(m) \in Nat
  BY RulesAssumption
<1>3. worth(root) \in Nat /\ worth(n) \in Nat /\ worth(n) <= worth(root)
  <2>1. DownstreamConsumers(root) \in SUBSET Node
    BY DEF DownstreamConsumers
  <2>2. \A m \in Node : i.policy.weight[TierOf(m, i.tiers)] \in Nat
    BY <1>2
  <2> QED
    BY <1>1, <2>1, <2>2, MoreConsumersWeighMore
<1>4. /\ Score(root, i.tiers, i.policy) = i.policy.multiplier * weight(root) + worth(root)
      /\ Score(n, i.tiers, i.policy) = i.policy.multiplier * weight(n) + worth(n)
  BY <1>1 DEF Score
<1>5. weight(n) <= weight(root) /\ weight(n) \in Nat /\ weight(root) \in Nat
  BY <1>1, <1>2
<1> HIDE DEF weight, worth
<1>6. /\ i.policy.multiplier * weight(n) \in Nat /\ i.policy.multiplier * weight(root) \in Nat
      /\ i.policy.multiplier * weight(n) <= i.policy.multiplier * weight(root)
  BY <1>2, <1>5, ProductGrows
<1>7. /\ Score(root, i.tiers, i.policy) \in Nat /\ Score(n, i.tiers, i.policy) \in Nat
      /\ Score(n, i.tiers, i.policy) <= Score(root, i.tiers, i.policy)
  BY <1>3, <1>4, <1>6
<1>8. SeverityFor(Score(root, i.tiers, i.policy), i.policy)
         <= SeverityFor(Score(n, i.tiers, i.policy), i.policy)
  <2> PICK x, y : x = Score(root, i.tiers, i.policy) /\ y = Score(n, i.tiers, i.policy)
    OBVIOUS
  <2>1. x \in Nat /\ y \in Nat /\ y <= x
    BY <1>7
  <2>2. SeverityFor(x, i.policy) <= SeverityFor(y, i.policy)
    BY <1>2, <2>1 DEF SeverityFor
  <2> QED
    BY <2>2
<1>9. ASSUME NEW day \in 1..i.daysInMonth
      PROVE  OpenWindows(n, i.rules, i.policy, day, i.daysInMonth)
                \subseteq OpenWindows(root, i.rules, i.policy, day, i.daysInMonth)
  BY <1>1 DEF OpenWindows
<1> QED
  BY <1>8, <1>9

-----------------------------------------------------------------------------
(* The theorems: what holds of every question of lineage that is asked.    *)

\* A question is asked of one of its inputs.
AskedOfInputs ==
    /\ input.case = "page" => input.of \in Pages
    /\ input.case = "impact" => input.of \in Impacts

\* Only what the constants hold is ever asked about.
LEMMA QuestionsAreOfInputs == LineageSpec => []AskedOfInputs
<1>1. Init => AskedOfInputs
  BY DEF Init, None, AskedOfInputs
<1>2. AskedOfInputs /\ [AskLineage]_input => AskedOfInputs'
  <2> SUFFICES ASSUME AskedOfInputs, [AskLineage]_input PROVE AskedOfInputs'
    OBVIOUS
  <2>1. CASE UNCHANGED input
    BY <2>1 DEF AskedOfInputs
  <2>2. CASE Page
    BY <2>2 DEF Page, AskedOfInputs
  <2>3. CASE Rate
    BY <2>3 DEF Rate, AskedOfInputs
  <2>4. CASE Trace
    BY <2>4 DEF Trace, AskedOfInputs
  <2>5. CASE Load
    BY <2>5 DEF Load, AskedOfInputs
  <2> QED
    BY <2>1, <2>2, <2>3, <2>4, <2>5 DEF AskLineage
<1> QED
  BY <1>1, <1>2, PTL DEF LineageSpec

\* For any project, checks and traced columns: the pieces of a run that come later take a page
\* back to the model's owner or leave it, and a source's owner is paged only when every failing
\* check alone points there (routing.py, route and source_of_failing_columns).
THEOREM PagesOnlyStepBack == LineageSpec => []RouteMovesOnlyToTheModel
<1>1. AskedOfInputs => RouteMovesOnlyToTheModel
  BY RouteStands DEF AskedOfInputs
<1> QED
  BY <1>1, QuestionsAreOfInputs, PTL

\* For any project, tiers, owners, calendar and settings: an incident regrouped to a root further
\* up, of at least the same tier, is no less severe and loses no open window (severity.py,
\* score_incident and open_windows).
THEOREM FurtherUpIsNoLess == LineageSpec => []UpstreamReachesMore
<1>1. AskedOfInputs => UpstreamReachesMore
  BY UpstreamStands DEF AskedOfInputs
<1> QED
  BY <1>1, QuestionsAreOfInputs, PTL

\* For any pairs and any catalogues of two nights: each pair is compared or has failed with a
\* reason, which its own two relations decide, and added columns change nothing else (specs.py,
\* load_pairs).
THEOREM PairsStandAlone == LineageSpec => []PairsAreComparedOrFail
<1>1. PairsAreComparedOrFail
  BY PairsNeedOnlyThemselves
<1> QED
  BY <1>1, PTL

-----------------------------------------------------------------------------
(* Texts: putting them together.                                          *)

\* A text is a sequence of characters, and each is a string; three of them are named.
Letters == STRING \cup {Backslash, Bar, "N"}
Text == Seq(Letters)

\* A sequence that an element ends, and a sequence of one element.
LEMMA Ends ==
    ASSUME NEW S, NEW s \in Seq(S), NEW c \in S
    PROVE  /\ Append(s, c) \in Seq(S) /\ <<c>> \in Seq(S) /\ s \o <<c>> = Append(s, c)
           /\ Len(Append(s, c)) = Len(s) + 1 /\ Append(s, c)[Len(s) + 1] = c
           /\ \A i \in 1..Len(s) : Append(s, c)[i] = s[i]
<1>1. /\ Append(s, c) \in Seq(S) /\ Len(Append(s, c)) = Len(s) + 1 /\ Append(s, c)[Len(s) + 1] = c
      /\ \A i \in 1..Len(s) : Append(s, c)[i] = s[i]
  BY AppendProperties
<1>2. <<c>> \in Seq(S)
  OBVIOUS
<1>3. s \o <<c>> = Append(s, c)
  BY AppendIsConcat
<1> QED
  BY <1>1, <1>2, <1>3

\* Two elements one after another.
LEMMA OneAndTwo ==
    ASSUME NEW S, NEW b \in S, NEW c \in S
    PROVE  /\ <<c>> \in Seq(S) /\ Len(<<c>>) = 1 /\ <<c>>[1] = c
           /\ <<b, c>> \in Seq(S) /\ Len(<<b, c>>) = 2 /\ <<b, c>>[1] = b /\ <<b, c>>[2] = c
<1>1. \A d \in S : <<d>> \in Seq(S) /\ Len(<<d>>) = 1 /\ <<d>>[1] = d
  OBVIOUS
<1>2. <<b, c>> \in Seq(S) /\ Len(<<b, c>>) = 2 /\ <<b, c>>[1] = b /\ <<b, c>>[2] = c
  OBVIOUS
<1> QED
  BY <1>1, <1>2

\* A sequence of two is one of one and another.
LEMMA OneThenTwo ==
    ASSUME NEW S, NEW b \in S, NEW c \in S
    PROVE  <<b, c>> = <<b>> \o <<c>>
<1>3. PICK s, t, u, v : s = <<b>> /\ t = <<c>> /\ u = s \o t /\ v = <<b, c>>
  OBVIOUS
<1>4. s \in Seq(S) /\ Len(s) = 1 /\ s[1] = b /\ t \in Seq(S) /\ Len(t) = 1 /\ t[1] = c
  BY <1>3, OneAndTwo
<1>5. u \in Seq(S) /\ Len(u) = 2 /\ u[1] = b /\ u[2] = c
  BY <1>3, <1>4, ConcatProperties
<1>6. v \in Seq(S) /\ Len(v) = 2 /\ v[1] = b /\ v[2] = c
  BY <1>3, OneAndTwo
<1>7. u = v
  <2>1. \A i \in 1..Len(u) : u[i] = v[i]
    BY <1>5, <1>6
  <2> QED
    BY <1>5, <1>6, <2>1, SeqEqual
<1> QED
  BY <1>3, <1>7

\* The same of texts.
LEMMA TextEnds ==
    ASSUME NEW s \in Text, NEW c \in Letters
    PROVE  /\ Append(s, c) \in Text /\ <<c>> \in Text /\ s \o <<c>> = Append(s, c)
           /\ Len(Append(s, c)) = Len(s) + 1 /\ Append(s, c)[Len(s) + 1] = c
           /\ \A i \in 1..Len(s) : Append(s, c)[i] = s[i]
BY Ends DEF Text

\* The same of texts.
LEMMA TextOfTwo ==
    ASSUME NEW b \in Letters, NEW c \in Letters
    PROVE  /\ <<c>> \in Text /\ Len(<<c>>) = 1 /\ <<c>>[1] = c
           /\ <<b, c>> \in Text /\ Len(<<b, c>>) = 2 /\ <<b, c>>[1] = b /\ <<b, c>>[2] = c
           /\ <<b, c>> = <<b>> \o <<c>>
<1>1. PICK S : S = Letters
  OBVIOUS
<1>2. b \in S /\ c \in S /\ Text = Seq(S)
  BY <1>1 DEF Text
<1> HIDE <1>1
<1> QED
  BY <1>2, OneAndTwo, OneThenTwo


\* One text after another.
LEMMA Joins ==
    ASSUME NEW s \in Text, NEW t \in Text
    PROVE  /\ s \o t \in Text /\ Len(s \o t) = Len(s) + Len(t)
           /\ s \o <<>> = s /\ <<>> \o s = s
<1>1. s \o t \in Text /\ Len(s \o t) = Len(s) + Len(t)
  BY ConcatProperties DEF Text
<1>2. s \o <<>> = s /\ <<>> \o s = s
  BY ConcatEmptySeq DEF Text
<1> QED
  BY <1>1, <1>2

\* It is all one which of three texts are put together first.
LEMMA Regroups ==
    ASSUME NEW s \in Text, NEW t \in Text, NEW u \in Text
    PROVE  (s \o t) \o u = s \o (t \o u)
BY ConcatAssociative DEF Text

\* f holds what the first i of the texts g come to, for every i up to n.
JoinedUp(f, g, n) == f = [i \in 1..n |-> IF i = 1 THEN g[i] ELSE f[i - 1] \o g[i]]

\* One text more can be put at the end of what they come to.
LEMMA JoinedGrows ==
    ASSUME NEW n \in Nat \ {0}, NEW g \in [1..(n + 1) -> Text],
           NEW f \in [1..n -> Text], JoinedUp(f, g, n)
    PROVE  \E h \in [1..(n + 1) -> Text] :
               JoinedUp(h, g, n + 1) /\ h[n] = f[n] /\ h[n + 1] = f[n] \o g[n + 1]
<1>1. PICK last : last = f[n] \o g[n + 1]
  OBVIOUS
<1>2. last \in Text
  <2>1. f[n] \in Text /\ g[n + 1] \in Text
    OBVIOUS
  <2> QED
    BY <1>1, <2>1, Joins
<1>3. PICK h : h = [i \in 1..(n + 1) |-> IF i = n + 1 THEN last ELSE f[i]]
  OBVIOUS
<1>4. h \in [1..(n + 1) -> Text] /\ h[n + 1] = last /\ \A i \in 1..n : h[i] = f[i]
  BY <1>2, <1>3
<1>5. \A i \in 1..n : f[i] = IF i = 1 THEN g[i] ELSE f[i - 1] \o g[i]
  BY DEF JoinedUp
<1>6. ASSUME NEW i \in 1..(n + 1) PROVE h[i] = IF i = 1 THEN g[i] ELSE h[i - 1] \o g[i]
  <2>1. CASE i = n + 1
    <3>1. i # 1 /\ i - 1 = n /\ h[n] = f[n]
      BY <1>4, <2>1
    <3> QED
      BY <1>1, <1>4, <2>1, <3>1
  <2>2. CASE i \in 1..n
    <3>1. h[i] = f[i] /\ (i # 1 => i - 1 \in 1..n)
      BY <1>4, <2>2
    <3> QED
      BY <1>4, <1>5, <2>2, <3>1
  <2> QED
    BY <2>1, <2>2
<1>7. h[n] = f[n] /\ h[n + 1] = f[n] \o g[n + 1]
  BY <1>1, <1>4
<1>8. JoinedUp(h, g, n + 1)
  <2>1. PICK e : e = [i \in 1..(n + 1) |-> IF i = 1 THEN g[i] ELSE h[i - 1] \o g[i]]
    OBVIOUS
  <2>2. DOMAIN e = 1..(n + 1) /\ \A i \in 1..(n + 1) : e[i] = IF i = 1 THEN g[i] ELSE h[i - 1] \o g[i]
    BY <2>1
  <2>3. h = e
    <3>1. e = [i \in 1..(n + 1) |-> e[i]] /\ h = [i \in 1..(n + 1) |-> h[i]]
      BY <1>3, <2>1
    <3>2. \A i \in 1..(n + 1) : e[i] = h[i]
      BY <1>6, <2>2
    <3> QED
      BY <3>1, <3>2
  <2> QED
    BY <2>1, <2>3 DEF JoinedUp
<1> QED
  BY <1>4, <1>7, <1>8

\* They come to one thing.
LEMMA JoinedIsOne ==
    ASSUME NEW n \in Nat, NEW g, NEW f, JoinedUp(f, g, n), NEW h, JoinedUp(h, g, n), NEW i \in 1..n
    PROVE  f[i] = h[i]
<1> DEFINE same == {m \in Nat : m + 1 <= n => h[m + 1] = f[m + 1]}
<1>1. \A j \in 1..n : h[j] = IF j = 1 THEN g[j] ELSE h[j - 1] \o g[j]
  BY DEF JoinedUp
<1>2. \A j \in 1..n : f[j] = IF j = 1 THEN g[j] ELSE f[j - 1] \o g[j]
  BY DEF JoinedUp
<1>3. 0 \in same
  BY <1>1, <1>2
<1>4. ASSUME NEW m \in Nat, m \in same PROVE m + 1 \in same
  <2> SUFFICES ASSUME (m + 1) + 1 <= n PROVE h[(m + 1) + 1] = f[(m + 1) + 1]
    OBVIOUS
  <2>1. h[m + 1] = f[m + 1] /\ (m + 1) + 1 \in 1..n /\ (m + 1) + 1 # 1 /\ ((m + 1) + 1) - 1 = m + 1
    BY <1>4
  <2> QED
    BY <1>1, <1>2, <2>1
<1> HIDE DEF same
<1>5. Nat \subseteq same
  BY <1>3, <1>4, EveryNumber
<1>6. i - 1 \in same /\ (i - 1) + 1 = i
  BY <1>5
<1> QED
  BY <1>6 DEF same

\* And they do come to something.
LEMMA JoinedExists ==
    ASSUME NEW n \in Nat \ {0}, NEW g \in [1..n -> Text]
    PROVE  \E f \in [1..n -> Text] : JoinedUp(f, g, n)
<1> DEFINE goes == {m \in Nat : \A t \in [1..(m + 1) -> Text] : \E f \in [1..(m + 1) -> Text] : JoinedUp(f, t, m + 1)}
<1>1. 0 \in goes
  <2> SUFFICES ASSUME NEW t \in [1..(0 + 1) -> Text]
               PROVE  \E f \in [1..(0 + 1) -> Text] : JoinedUp(f, t, 0 + 1)
    OBVIOUS
  <2>1. PICK f : f = [i \in 1..1 |-> t[i]]
    OBVIOUS
  <2>2. f \in [1..(0 + 1) -> Text] /\ JoinedUp(f, t, 0 + 1)
    BY <2>1 DEF JoinedUp
  <2> QED
    BY <2>2
<1>2. ASSUME NEW m \in Nat, m \in goes PROVE m + 1 \in goes
  <2> SUFFICES ASSUME NEW t \in [1..((m + 1) + 1) -> Text]
               PROVE  \E f \in [1..((m + 1) + 1) -> Text] : JoinedUp(f, t, (m + 1) + 1)
    OBVIOUS
  <2>1. PICK k : k = m + 1
    OBVIOUS
  <2>2. PICK s : s = [i \in 1..k |-> t[i]]
    OBVIOUS
  <2>3. s \in [1..k -> Text] /\ k \in Nat \ {0} /\ \A i \in 1..k : s[i] = t[i]
    BY <2>1, <2>2
  <2>4. PICK f \in [1..k -> Text] : JoinedUp(f, s, k)
    BY <1>2, <2>1, <2>3
  <2>5. JoinedUp(f, t, k)
    BY <2>3, <2>4 DEF JoinedUp
  <2>6. t \in [1..(k + 1) -> Text]
    BY <2>1
  <2>7. \E h \in [1..(k + 1) -> Text] : JoinedUp(h, t, k + 1)
    BY <2>3, <2>5, <2>6, JoinedGrows
  <2> QED
    BY <2>1, <2>7
<1> HIDE DEF goes
<1>3. Nat \subseteq goes
  BY <1>1, <1>2, EveryNumber
<1>4. n - 1 \in goes /\ (n - 1) + 1 = n
  BY <1>3
<1> QED
  BY <1>4 DEF goes

\* FlattenSeq of a sequence of texts.
LEMMA FlattenIs ==
    ASSUME NEW n \in Nat \ {0}, NEW g \in [1..n -> Text], NEW f, JoinedUp(f, g, n)
    PROVE  FlattenSeq(g) = f[n]
<1>1. Len(g) = n
  OBVIOUS
<1>2. PICK h : h = CHOOSE x : JoinedUp(x, g, n)
  OBVIOUS
<1>3. JoinedUp(h, g, n)
  BY <1>2
<1>4. FlattenSeq(g) = h[n]
  BY <1>1, <1>2 DEF FlattenSeq, JoinedUp
<1> QED
  BY <1>3, <1>4, JoinedIsOne

\* One text more is put at the end.
LEMMA FlattenGrows ==
    ASSUME NEW g \in Seq(Text), NEW t \in Text
    PROVE  /\ FlattenSeq(g) \in Text /\ FlattenSeq(<<>>) = <<>>
           /\ FlattenSeq(Append(g, t)) = FlattenSeq(g) \o t
<1>1. PICK n, h : n = Len(g) /\ h = Append(g, t)
  OBVIOUS
<1>2. /\ n \in Nat /\ g \in [1..n -> Text] /\ h \in [1..(n + 1) -> Text]
      /\ h[n + 1] = t /\ \A i \in 1..n : h[i] = g[i]
  <2>1. n \in Nat /\ g \in [1..n -> Text]
    BY <1>1, LenProperties
  <2>2. h \in Seq(Text) /\ Len(h) = n + 1 /\ h[n + 1] = t /\ \A i \in 1..n : h[i] = g[i]
    BY <1>1, Ends
  <2>3. h \in [1..(n + 1) -> Text]
    BY <2>2, LenProperties
  <2> QED
    BY <2>1, <2>2, <2>3
<1>3. FlattenSeq(<<>>) = <<>> /\ <<>> \in Text
  BY DEF FlattenSeq, Text
<1>4. CASE n = 0
  <2>1. g = <<>>
    BY <1>1, <1>4, EmptySeq
  <2>2. PICK f \in [1..(n + 1) -> Text] : JoinedUp(f, h, n + 1)
    BY <1>2, JoinedExists
  <2>3. f[1] = h[1] /\ n + 1 = 1
    BY <1>4, <2>2 DEF JoinedUp
  <2>4. FlattenSeq(h) = f[n + 1]
    BY <1>2, <2>2, FlattenIs
  <2>5. <<>> \o t = t
    BY Joins
  <2> QED
    BY <1>1, <1>2, <1>3, <2>1, <2>3, <2>4, <2>5
<1>5. CASE n # 0
  <2>1. PICK f \in [1..n -> Text] : JoinedUp(f, g, n)
    BY <1>2, <1>5, JoinedExists
  <2>2. FlattenSeq(g) = f[n] /\ f[n] \in Text
    BY <1>2, <1>5, <2>1, FlattenIs
  <2>3. JoinedUp(f, h, n)
    BY <1>2, <2>1 DEF JoinedUp
  <2>4. PICK e \in [1..(n + 1) -> Text] : JoinedUp(e, h, n + 1) /\ e[n + 1] = f[n] \o h[n + 1]
    BY <1>2, <1>5, <2>3, JoinedGrows
  <2>5. FlattenSeq(h) = e[n + 1]
    <3>1. n + 1 \in Nat \ {0}
      BY <1>2
    <3> QED
      BY <1>2, <2>4, <3>1, FlattenIs
  <2> QED
    BY <1>1, <1>2, <1>3, <2>2, <2>4, <2>5
<1> QED
  BY <1>2, <1>4, <1>5
\* An induction over texts adds a character at the end.
LEMMA EveryText ==
    ASSUME NEW T, <<>> \in T, \A s \in Text, c \in Letters : s \in T => Append(s, c) \in T
    PROVE  Text \subseteq T
<1> DEFINE long == {n \in Nat : \A t \in Text : Len(t) = n => t \in T}
<1>1. 0 \in long
  <2>1. ASSUME NEW t \in Text, Len(t) = 0 PROVE t = <<>>
    BY <2>1, EmptySeq DEF Text
  <2> QED
    BY <2>1
<1>2. ASSUME NEW n \in Nat, n \in long PROVE n + 1 \in long
  <2> SUFFICES ASSUME NEW t \in Text, Len(t) = n + 1 PROVE t \in T
    BY <1>2
  <2>1. t # <<>>
    BY <1>2
  <2>2. PICK s \in Text, c \in Letters : t = Append(s, c)
    BY <2>1, SequenceEmptyOrAppend DEF Text
  <2>3. Len(s) = n /\ Len(s) \in Nat
    BY <1>2, <2>2, AppendProperties, LenProperties DEF Text
  <2> QED
    BY <1>2, <2>2, <2>3
<1> HIDE DEF long
<1>3. Nat \subseteq long
  BY <1>1, <1>2, EveryNumber
<1> QED
  <2> SUFFICES ASSUME NEW t \in Text PROVE t \in T
    OBVIOUS
  <2>1. Len(t) \in Nat
    BY LenProperties DEF Text
  <2> QED
    BY <1>3, <2>1 DEF long


-----------------------------------------------------------------------------
(* Escaping, a character at a time.                                        *)

\* What Replaced and Escape make of one character.
Piece(c, char, by) == IF c = char THEN by ELSE <<c>>

Code(c) ==
    IF c = Backslash THEN <<Backslash, Backslash>> ELSE IF c = Bar THEN <<Backslash, Bar>> ELSE <<c>>

\* A text with the code of one character more.
Coded(e, c) == e \o Code(c)

\* A sequence is a function.
LEMMA SequenceIsFunction ==
    ASSUME NEW S, NEW s \in Seq(S)
    PROVE  /\ Len(s) \in Nat /\ DOMAIN s = 1..Len(s) /\ s \in [1..Len(s) -> S]
           /\ s = [i \in 1..Len(s) |-> s[i]]
           /\ \A i \in 1..Len(s) : s[i] \in S
BY LenProperties

\* Both are texts.
LEMMA PiecesAreTexts ==
    ASSUME NEW c \in Letters, NEW char, NEW by \in Text
    PROVE  Piece(c, char, by) \in Text
<1>1. <<c>> \in Text
  BY TextOfTwo
<1> QED
  BY <1>1 DEF Piece

\* The texts that Replaced puts together.
LEMMA ReplacedIs ==
    ASSUME NEW s \in Text, NEW char, NEW by \in Text
    PROVE  \E g \in Seq(Text) :
               /\ Len(g) = Len(s) /\ Replaced(s, char, by) = FlattenSeq(g)
               /\ g = [i \in 1..Len(s) |-> Piece(s[i], char, by)]
<1>1. PICK g : g = [i \in 1..Len(s) |-> Piece(s[i], char, by)]
  OBVIOUS
<1>2. Len(s) \in Nat /\ DOMAIN s = 1..Len(s) /\ \A i \in 1..Len(s) : s[i] \in Letters
  BY SequenceIsFunction DEF Text
<1>3. g \in [1..Len(s) -> Text]
  <2>1. \A i \in 1..Len(s) : Piece(s[i], char, by) \in Text
    BY <1>2, PiecesAreTexts
  <2> QED
    BY <1>1, <2>1
<1>4. g \in Seq(Text) /\ Len(g) = Len(s)
  BY <1>2, <1>3
<1>5. Replaced(s, char, by) = FlattenSeq(g)
  BY <1>1, <1>2 DEF Replaced, Piece
<1> QED
  BY <1>1, <1>4, <1>5

\* So a replacement is a text, and that of the empty text is empty.
LEMMA ReplacedIsText ==
    ASSUME NEW s \in Text, NEW char, NEW by \in Text
    PROVE  Replaced(s, char, by) \in Text /\ Replaced(<<>>, char, by) = <<>>
<1>1. Replaced(<<>>, char, by) = <<>>
  BY DEF Replaced, FlattenSeq
<1>2. PICK g \in Seq(Text) : Replaced(s, char, by) = FlattenSeq(g)
  BY ReplacedIs
<1>3. FlattenSeq(g) \in Text
  BY FlattenGrows
<1> QED
  BY <1>1, <1>2, <1>3

\* A replacement goes a character at a time.
LEMMA ReplacedGrows ==
    ASSUME NEW s \in Text, NEW c \in Letters, NEW char, NEW by \in Text
    PROVE  Replaced(Append(s, c), char, by) = Replaced(s, char, by) \o Piece(c, char, by)
<1>1. PICK g \in Seq(Text) :
          /\ Len(g) = Len(s) /\ Replaced(s, char, by) = FlattenSeq(g)
          /\ g = [i \in 1..Len(s) |-> Piece(s[i], char, by)]
  BY ReplacedIs
<1>2. Len(s) \in Nat
  BY SequenceIsFunction DEF Text
<1>3. PICK r, p : r = Append(s, c) /\ p = Piece(c, char, by)
  OBVIOUS
<1>4. r \in Text /\ p \in Text
  <2>1. r \in Text
    BY <1>3, TextEnds
  <2> QED
    BY <1>3, <2>1, PiecesAreTexts
<1>5. Len(r) = Len(s) + 1 /\ r[Len(s) + 1] = c /\ \A i \in 1..Len(s) : r[i] = s[i]
  BY <1>3, TextEnds
<1>6. PICK h \in Seq(Text) :
          /\ Len(h) = Len(r) /\ Replaced(r, char, by) = FlattenSeq(h)
          /\ h = [i \in 1..Len(r) |-> Piece(r[i], char, by)]
  BY <1>4, ReplacedIs
<1>7. PICK k : k = Append(g, p)
  OBVIOUS
<1>8. k \in Seq(Text) /\ Len(k) = Len(s) + 1 /\ k[Len(s) + 1] = p
  <2>1. g \in Seq(Text) /\ p \in Text /\ Len(g) = Len(s)
    BY <1>1, <1>4
  <2> QED
    BY <1>7, <2>1, Ends
<1>9. \A i \in 1..Len(s) : k[i] = g[i]
  <2>1. g \in Seq(Text) /\ p \in Text /\ Len(g) = Len(s)
    BY <1>1, <1>4
  <2> QED
    BY <1>7, <2>1, Ends
<1>10. h = k
  <2>1. ASSUME NEW i \in 1..Len(h) PROVE h[i] = k[i]
    <3>1. h[i] = Piece(r[i], char, by)
      BY <1>6, <2>1
    <3>2. CASE i = Len(s) + 1
      BY <1>3, <1>5, <1>8, <3>1, <3>2
    <3>3. CASE i \in 1..Len(s)
      <4>1. g[i] = Piece(s[i], char, by)
        BY <1>1, <3>3
      <4> QED
        BY <1>5, <1>9, <3>1, <3>3, <4>1
    <3> QED
      BY <1>2, <1>5, <1>6, <3>2, <3>3
  <2> QED
    BY <1>5, <1>6, <1>8, <2>1, SeqEqual
<1>11. FlattenSeq(k) = FlattenSeq(g) \o p
  BY <1>4, <1>7, FlattenGrows
<1> QED
  BY <1>1, <1>3, <1>6, <1>10, <1>11

\* The characters that are special are three.
LEMMA Specials ==
    /\ Backslash \in Letters /\ Bar \in Letters /\ "N" \in Letters
    /\ Backslash # Bar /\ Backslash # "N" /\ "N" # Bar
<1>1. Backslash \in Letters /\ Bar \in Letters /\ "N" \in Letters
  BY DEF Letters
<1>2. Backslash # Bar /\ Backslash # "N" /\ "N" # Bar
  BY DEF Backslash, Bar
<1> QED
  BY <1>1, <1>2

\* A code is one character, or a backslash and one.
LEMMA CodesAre ==
    ASSUME NEW c \in Letters
    PROVE  /\ Code(c) \in Text /\ Len(Code(c)) \in {1, 2} /\ Code(c)[Len(Code(c))] = c
           /\ Len(Code(c)) = 2 <=> c \in {Backslash, Bar}
           /\ Len(Code(c)) = 2 => Code(c)[1] = Backslash
<1>1. <<c>> \in Text /\ Len(<<c>>) = 1 /\ <<c>>[1] = c
  BY TextOfTwo
<1>2. /\ <<Backslash, c>> \in Text /\ Len(<<Backslash, c>>) = 2
      /\ <<Backslash, c>>[1] = Backslash /\ <<Backslash, c>>[2] = c
  BY TextOfTwo, Specials
<1>3. Code(c) = IF c \in {Backslash, Bar} THEN <<Backslash, c>> ELSE <<c>>
  BY DEF Code
<1>4. CASE c \in {Backslash, Bar}
  <2>1. Code(c) = <<Backslash, c>>
    BY <1>3, <1>4
  <2> QED
    BY <1>2, <1>4, <2>1
<1>5. CASE c \notin {Backslash, Bar}
  <2>1. Code(c) = <<c>>
    BY <1>3, <1>5
  <2> QED
    BY <1>1, <1>5, <2>1
<1> QED
  BY <1>4, <1>5

\* An escape is a text.
LEMMA EscapeIsText ==
    ASSUME NEW s \in Text
    PROVE  Escape(s) \in Text /\ Escape(<<>>) = <<>>
<1>1. PICK two, esc : two = <<Backslash, Backslash>> /\ esc = <<Backslash, Bar>>
  OBVIOUS
<1>2. two \in Text /\ esc \in Text
  BY <1>1, TextOfTwo, Specials
<1>3. PICK m : m = Replaced(s, Backslash, two)
  OBVIOUS
<1>4. m \in Text /\ Replaced(<<>>, Backslash, two) = <<>> /\ Replaced(<<>>, Bar, esc) = <<>>
  BY <1>2, <1>3, ReplacedIsText
<1>5. Replaced(m, Bar, esc) \in Text
  BY <1>2, <1>4, ReplacedIsText
<1> QED
  BY <1>1, <1>3, <1>4, <1>5 DEF Escape

\* Escaping the backslashes and then the bars is taking the code of each character.
LEMMA EscapeGrows ==
    ASSUME NEW s \in Text, NEW c \in Letters
    PROVE  Escape(Append(s, c)) = Coded(Escape(s), c)
<1>1. PICK one, two, esc :
          one = <<Backslash>> /\ two = <<Backslash, Backslash>> /\ esc = <<Backslash, Bar>>
  OBVIOUS
<1>2. one \in Text /\ two \in Text /\ esc \in Text /\ two = one \o one
  BY <1>1, TextOfTwo, Specials
<1>3. PICK m, e, a : m = Replaced(s, Backslash, two) /\ e = Escape(s) /\ a = Append(s, c)
  OBVIOUS
<1>4. m \in Text /\ e \in Text
  BY <1>2, <1>3, ReplacedIsText, EscapeIsText
<1>5. e = Replaced(m, Bar, esc)
  BY <1>1, <1>3 DEF Escape
<1>6. Escape(a) = Replaced(m \o Piece(c, Backslash, two), Bar, esc)
  <2>1. Replaced(a, Backslash, two) = m \o Piece(c, Backslash, two)
    <3>1. Replaced(Append(s, c), Backslash, two) = Replaced(s, Backslash, two) \o Piece(c, Backslash, two)
      BY <1>2, ReplacedGrows
    <3> QED
      BY <1>3, <3>1
  <2> QED
    BY <1>1, <2>1 DEF Escape
<1>7. ASSUME NEW t \in Text, NEW d \in Letters, NEW b, b = Append(t, d)
      PROVE  Replaced(b, Bar, esc) = Replaced(t, Bar, esc) \o Piece(d, Bar, esc)
  BY <1>2, <1>7, ReplacedGrows
<1>8. CASE c = Backslash
  <2>0. one \in Text
    BY <1>2
  <2>1. PICK n, k : n = Append(m, Backslash) /\ k = Append(n, Backslash)
    OBVIOUS
  <2>2. n \in Text /\ n = m \o one
    BY <1>1, <1>4, <2>1, Specials, TextEnds
  <2>3. k = m \o two
    <3>1. n \o one = m \o two
      <4>1. (m \o one) \o one = m \o (one \o one)
        BY <1>2, <1>4, Regroups
      <4> QED
        BY <1>2, <2>2, <4>1
    <3>2. n \o one = k
      <4>1. n \o <<Backslash>> = Append(n, Backslash)
        BY <2>2, Specials, TextEnds
      <4> QED
        BY <1>1, <2>1, <4>1
    <3> QED
      BY <3>1, <3>2
  <2>4. Piece(Backslash, Bar, esc) = one
    BY <1>1, Specials DEF Piece
  <2>5. Replaced(n, Bar, esc) = e \o one
    <3>1. Replaced(n, Bar, esc) = Replaced(m, Bar, esc) \o Piece(Backslash, Bar, esc)
      BY <1>4, <1>7, <2>1, Specials
    <3> QED
      BY <1>5, <2>4, <3>1
  <2>6. Replaced(k, Bar, esc) = (e \o one) \o one
    <3>1. Replaced(k, Bar, esc) = Replaced(n, Bar, esc) \o Piece(Backslash, Bar, esc)
      BY <1>7, <2>1, <2>2, Specials
    <3> QED
      BY <2>4, <2>5, <3>1
  <2>7. (e \o one) \o one = e \o two
    <3>1. (e \o one) \o one = e \o (one \o one)
      BY <1>4, <2>0, Regroups
    <3> QED
      BY <1>2, <3>1
  <2>8. Code(c) = two /\ Piece(c, Backslash, two) = two
    BY <1>1, <1>8 DEF Code, Piece
  <2> QED
    BY <1>3, <1>6, <2>3, <2>6, <2>7, <2>8 DEF Coded
<1>9. CASE c # Backslash
  <2>1. PICK n : n = Append(m, c)
    OBVIOUS
  <2>2. m \o Piece(c, Backslash, two) = n
    <3>1. Piece(c, Backslash, two) = <<c>>
      BY <1>9 DEF Piece
    <3>2. m \o <<c>> = Append(m, c)
      BY <1>4, TextEnds
    <3> QED
      BY <2>1, <3>1, <3>2
  <2>3. Replaced(n, Bar, esc) = Replaced(m, Bar, esc) \o Piece(c, Bar, esc)
    BY <1>4, <1>7, <2>1
  <2>4. Piece(c, Bar, esc) = Code(c)
    BY <1>1, <1>9 DEF Piece, Code
  <2> QED
    BY <1>3, <1>5, <1>6, <2>2, <2>3, <2>4 DEF Coded
<1> QED
  BY <1>8, <1>9

\* What it ends with.
LEMMA CodeEnds ==
    ASSUME NEW e \in Text, NEW c \in Letters
    PROVE  /\ Coded(e, c) \in Text /\ Len(Coded(e, c)) = Len(e) + Len(Code(c))
           /\ Len(Coded(e, c)) # 0 /\ Coded(e, c)[Len(Coded(e, c))] = c
           /\ Len(Code(c)) = 2 => Coded(e, c)[Len(e) + 1] = Backslash
<1>1. PICK d, r : d = Code(c) /\ r = Coded(e, c)
  OBVIOUS
<1>2. d \in Text /\ Len(d) \in {1, 2} /\ d[Len(d)] = c /\ (Len(d) = 2 => d[1] = Backslash)
  BY <1>1, CodesAre
<1>3. Len(e) \in Nat
  BY SequenceIsFunction DEF Text
<1>4. r \in Text /\ Len(r) = Len(e) + Len(d)
  BY <1>1, <1>2, Joins DEF Coded
<1>5. \A i \in 1..(Len(e) + Len(d)) : r[i] = IF i <= Len(e) THEN e[i] ELSE d[i - Len(e)]
  BY <1>1, <1>2, ConcatProperties DEF Text, Coded
<1>6. Len(r) # 0 /\ r[Len(r)] = c
  BY <1>2, <1>3, <1>4, <1>5
<1>7. Len(d) = 2 => r[Len(e) + 1] = Backslash
  BY <1>2, <1>3, <1>5
<1> QED
  BY <1>1, <1>4, <1>6, <1>7

\* And what it begins with.
LEMMA CodeKeeps ==
    ASSUME NEW e \in Text, NEW c \in Letters, NEW i \in 1..Len(e)
    PROVE  Coded(e, c)[i] = e[i]
<1>1. PICK d : d = Code(c)
  OBVIOUS
<1>2. d \in Text /\ Len(d) \in Nat /\ Len(e) \in Nat
  <2>1. d \in Text
    BY <1>1, CodesAre
  <2> QED
    BY <2>1, SequenceIsFunction DEF Text
<1>3. \A j \in 1..(Len(e) + Len(d)) : (e \o d)[j] = IF j <= Len(e) THEN e[j] ELSE d[j - Len(e)]
  BY <1>2, ConcatProperties DEF Text
<1> QED
  BY <1>1, <1>2, <1>3 DEF Coded

\* Only one text has an escape.
LEMMA EscapeIsOne ==
    ASSUME NEW s \in Text, NEW t \in Text, Escape(s) = Escape(t)
    PROVE  s = t
<1> DEFINE told == {u \in Text : \A v \in Text : Escape(u) = Escape(v) => u = v}
<1>1. \A v \in Text : v = <<>> \/ \E u \in Text, c \in Letters : v = Append(u, c)
  BY SequenceEmptyOrAppend DEF Text
<1>2. ASSUME NEW u \in Text, NEW c \in Letters, NEW v, v = Append(u, c)
      PROVE  Escape(v) = Coded(Escape(u), c) /\ Escape(u) \in Text
  BY <1>2, EscapeGrows, EscapeIsText
<1>3. ASSUME NEW u \in Text, NEW c \in Letters, NEW v, v = Append(u, c)
      PROVE  Len(Escape(v)) # 0 /\ Escape(v)[Len(Escape(v))] = c
  <2>1. Escape(v) = Coded(Escape(u), c) /\ Escape(u) \in Text
    BY <1>2, <1>3
  <2> QED
    BY <2>1, CodeEnds
<1>4. <<>> \in Text /\ Escape(<<>>) = <<>> /\ Len(<<>>) = 0
  <2>1. <<>> \in Text
    BY DEF Text
  <2> QED
    BY <2>1, EscapeIsText
<1>5. <<>> \in told
  <2>1. ASSUME NEW v \in Text, Escape(v) = <<>> PROVE v = <<>>
    BY <1>1, <1>3, <1>4, <2>1
  <2> QED
    BY <1>4, <2>1
<1>6. ASSUME NEW u \in Text, NEW c \in Letters, u \in told PROVE Append(u, c) \in told
  <2>1. PICK r : r = Append(u, c)
    OBVIOUS
  <2>2. r \in Text
    BY <2>1, TextEnds
  <2>3. ASSUME NEW v \in Text, Escape(r) = Escape(v) PROVE r = v
    <3>1. Len(Escape(r)) # 0 /\ Escape(r)[Len(Escape(r))] = c
      BY <1>3, <2>1
    <3>2. v # <<>>
      BY <1>4, <2>3, <3>1
    <3>3. PICK w \in Text, d \in Letters : v = Append(w, d)
      BY <1>1, <3>2
    <3>4. Escape(v)[Len(Escape(v))] = d
      BY <1>3, <3>3
    <3>5. c = d
      BY <2>3, <3>1, <3>4
    <3>6. Escape(r) = Coded(Escape(u), c) /\ Escape(v) = Coded(Escape(w), c)
      BY <1>2, <2>1, <3>3, <3>5
    <3>7. Escape(u) \in Text /\ Escape(w) \in Text /\ Code(c) \in Text
      BY EscapeIsText, CodesAre
    <3>8. Escape(u) = Escape(w)
      BY <2>3, <3>6, <3>7, ConcatSimplifications DEF Text, Coded
    <3>9. u = w
      BY <1>6, <3>8
    <3> QED
      BY <2>1, <3>3, <3>5, <3>9
  <2> QED
    BY <2>1, <2>2, <2>3
<1> HIDE DEF told
<1>7. Text \subseteq told
  BY <1>5, <1>6, EveryText
<1> QED
  BY <1>7 DEF told

\* No escape is the NULL marker.
LEMMA NoEscapeIsNull ==
    ASSUME NEW t \in Text
    PROVE  Escape(t) # NullText
<1>1. PICK n : n = NullText
  OBVIOUS
<1>2. Len(n) = 2 /\ n[1] = Backslash /\ n[2] = "N"
  BY <1>1, TextOfTwo, Specials DEF NullText
<1> SUFFICES ASSUME Escape(t) = n PROVE FALSE
  BY <1>1
<1>3. \A v \in Text : v = <<>> \/ \E u \in Text, c \in Letters : v = Append(u, c)
  BY SequenceEmptyOrAppend DEF Text
<1>4. <<>> \in Text /\ Escape(<<>>) = <<>> /\ Len(<<>>) = 0
  <2>1. <<>> \in Text
    BY DEF Text
  <2> QED
    BY <2>1, EscapeIsText
<1>5. PICK u \in Text, c \in Letters : t = Append(u, c)
  BY <1>2, <1>3, <1>4
<1>6. PICK e : e = Escape(u)
  OBVIOUS
<1>7. e \in Text /\ n = Coded(e, c)
  BY <1>5, <1>6, EscapeGrows, EscapeIsText
<1>8. Len(n) = Len(e) + Len(Code(c)) /\ n[Len(n)] = c /\ \A i \in 1..Len(e) : n[i] = e[i]
  <2>1. Len(n) = Len(e) + Len(Code(c)) /\ n[Len(n)] = c
    BY <1>7, CodeEnds
  <2>2. \A i \in 1..Len(e) : n[i] = e[i]
    BY <1>7, CodeKeeps
  <2> QED
    BY <2>1, <2>2
<1>9. Len(Code(c)) = 1
  <2>1. c \notin {Backslash, Bar}
    BY <1>2, <1>8, Specials
  <2> QED
    BY <2>1, CodesAre
<1>10. Len(e) \in Nat
  BY <1>7, SequenceIsFunction DEF Text
<1>11. Len(e) = 1 /\ e[1] = Backslash
  <2>1. Len(e) = 1
    <3>1. PICK m \in Nat : m = Len(e)
      BY <1>10
    <3>2. m + 1 = 2
      BY <1>2, <1>8, <1>9, <3>1
    <3>3. m = 1
      BY <3>2
    <3> QED
      BY <3>1, <3>3
  <2> QED
    BY <1>2, <1>8, <2>1
<1>12. PICK w \in Text, d \in Letters : u = Append(w, d)
  <2>1. u # <<>>
    BY <1>4, <1>6, <1>11
  <2> QED
    BY <1>3, <2>1
<1>13. PICK f : f = Escape(w)
  OBVIOUS
<1>14. f \in Text /\ e = Coded(f, d)
  BY <1>6, <1>12, <1>13, EscapeGrows, EscapeIsText
<1>15. Len(e) = Len(f) + Len(Code(d)) /\ e[Len(e)] = d /\ Len(f) \in Nat
  <2>1. Len(f) \in Nat
    BY <1>14, SequenceIsFunction DEF Text
  <2> QED
    BY <1>14, <2>1, CodeEnds
<1>16. d = Backslash
  BY <1>11, <1>15
<1>17. Len(Code(d)) = 2
  BY <1>16, CodesAre
<1> QED
  BY <1>11, <1>15, <1>17

\* o are the places of the backslashes that begin an escape in c, read from the left: a
\* bar never stands on its own there, and the last escape is finished.
Escapes(c, o) ==
    /\ o \subseteq 1..Len(c) /\ Len(c) \notin o
    /\ \A i \in 1..Len(c) : /\ i \in o <=> c[i] = Backslash /\ i - 1 \notin o
                            /\ c[i] = Bar => i - 1 \in o

\* The NULL marker reads as one escape.
LEMMA NullEscapes == NullText \in Text /\ Escapes(NullText, {1})
<1>1. PICK n : n = NullText
  OBVIOUS
<1>2. n \in Text /\ Len(n) = 2 /\ n[1] = Backslash /\ n[2] = "N"
  BY <1>1, TextOfTwo, Specials DEF NullText
<1>3. Escapes(n, {1})
  <2>1. \A i \in 1..Len(n) : i \in {1, 2}
    BY <1>2
  <2> QED
    BY <1>2, <2>1, Specials DEF Escapes
<1> QED
  BY <1>1, <1>2, <1>3

\* One code more is an escape more, or none.
LEMMA EscapesGrow ==
    ASSUME NEW e \in Text, NEW o, Escapes(e, o), NEW c \in Letters, NEW r, r = Coded(e, c)
    PROVE  \E p : Escapes(r, p)
<1>1. Len(e) \in Nat
  BY SequenceIsFunction DEF Text
<1>2. PICK k : k = Len(Code(c))
  OBVIOUS
<1>3. /\ Len(r) = Len(e) + k /\ r[Len(e) + k] = c /\ \A i \in 1..Len(e) : r[i] = e[i]
      /\ k = 2 => r[Len(e) + 1] = Backslash
  <2>1. Len(r) = Len(e) + k
    BY <1>2, CodeEnds
  <2>2. r[Len(e) + k] = c
    BY <1>2, <2>1, CodeEnds
  <2>3. k = 2 => r[Len(e) + 1] = Backslash
    BY <1>2, CodeEnds
  <2>4. \A i \in 1..Len(e) : r[i] = e[i]
    BY CodeKeeps
  <2> QED
    BY <2>1, <2>2, <2>3, <2>4
<1>4. k \in {1, 2} /\ (k = 2 <=> c \in {Backslash, Bar})
  BY <1>2, CodesAre
<1>5. CASE k = 1
  <2>1. Escapes(r, o)
    <3>1. o \subseteq 1..Len(r) /\ Len(r) \notin o
      BY <1>1, <1>3, <1>5 DEF Escapes
    <3>2. ASSUME NEW i \in 1..Len(r)
          PROVE  /\ i \in o <=> r[i] = Backslash /\ i - 1 \notin o
                 /\ r[i] = Bar => i - 1 \in o
      <4>1. CASE i \in 1..Len(e)
        BY <1>3, <4>1 DEF Escapes
      <4>2. CASE i = Len(e) + 1
        <5>1. i \notin o
          BY <1>1, <4>2 DEF Escapes
        <5> QED
          BY <1>3, <1>4, <1>5, <4>2, <5>1
      <4> QED
        BY <1>1, <1>3, <1>5, <4>1, <4>2
    <3> QED
      BY <3>1, <3>2 DEF Escapes
  <2> QED
    BY <2>1
<1>6. CASE k = 2
  <2>1. PICK p : p = o \cup {Len(e) + 1}
    OBVIOUS
  <2>2. \A i \in 0..Len(e) : i \in p <=> i \in o
    BY <1>1, <2>1
  <2>3. Len(e) + 1 \in p /\ Len(e) + 2 \notin p /\ Len(e) \notin p
    BY <1>1, <2>1 DEF Escapes
  <2>4. Escapes(r, p)
    <3>1. p \subseteq 1..Len(r) /\ Len(r) \notin p
      <4>1. Len(r) = Len(e) + 2 /\ o \subseteq 1..Len(e)
        BY <1>3, <1>6 DEF Escapes
      <4> QED
        <5>1. Len(r) \notin p
          BY <2>3, <4>1
        <5>2. \A i \in p : i \in 1..(Len(e) + 2)
          BY <1>1, <2>1, <4>1
        <5> QED
          BY <4>1, <5>1, <5>2
    <3>2. ASSUME NEW i \in 1..Len(r)
          PROVE  /\ i \in p <=> r[i] = Backslash /\ i - 1 \notin p
                 /\ r[i] = Bar => i - 1 \in p
      <4>1. CASE i \in 1..Len(e)
        <5>1. i \in 0..Len(e) /\ i - 1 \in 0..Len(e)
          BY <1>1, <4>1
        <5> QED
          BY <1>3, <2>2, <4>1, <5>1 DEF Escapes
      <4>2. CASE i = Len(e) + 1
        <5>1. i - 1 = Len(e)
          BY <1>1, <4>2
        <5> QED
          BY <1>3, <1>6, <2>3, <4>2, <5>1, Specials
      <4>3. CASE i = Len(e) + 2
        <5>1. i - 1 = Len(e) + 1
          BY <1>1, <4>3
        <5> QED
          BY <1>3, <1>4, <1>6, <2>3, <4>3, <5>1
      <4> QED
        BY <1>1, <1>3, <1>6, <4>1, <4>2, <4>3
    <3> QED
      BY <3>1, <3>2 DEF Escapes
  <2> QED
    BY <2>4
<1> QED
  BY <1>4, <1>5, <1>6

\* Every escaped text is read from the left so.
LEMMA EscapeEscapes ==
    ASSUME NEW t \in Text
    PROVE  \E o : Escapes(Escape(t), o)
<1> DEFINE well == {u \in Text : \E o : Escapes(Escape(u), o)}
<1>1. <<>> \in well
  <2>1. <<>> \in Text
    BY DEF Text
  <2>2. Escape(<<>>) = <<>>
    BY <2>1, EscapeIsText
  <2>3. Escapes(<<>>, {})
    BY DEF Escapes
  <2> QED
    BY <2>1, <2>2, <2>3
<1>2. ASSUME NEW u \in Text, NEW c \in Letters, u \in well PROVE Append(u, c) \in well
  <2>1. PICK o : Escapes(Escape(u), o)
    BY <1>2
  <2>2. PICK r : r = Append(u, c)
    OBVIOUS
  <2>3. r \in Text /\ Escape(u) \in Text
    BY <2>2, TextEnds, EscapeIsText
  <2>4. Escape(r) = Coded(Escape(u), c)
    BY <2>2, EscapeGrows
  <2>5. \E p : Escapes(Escape(r), p)
    BY <2>1, <2>3, <2>4, EscapesGrow
  <2> QED
    BY <2>2, <2>3, <2>5
<1> HIDE DEF well
<1>3. Text \subseteq well
  BY <1>1, <1>2, EveryText
<1> QED
  BY <1>3 DEF well

\* The bar between two renderings stands where it must.
LEMMA BarIsPlaced ==
    ASSUME NEW c \in Text, NEW o, Escapes(c, o), NEW d \in Text, NEW p, Escapes(d, p),
           Len(c) < Len(d), \A i \in 1..Len(c) : c[i] = d[i], d[Len(c) + 1] = Bar
    PROVE  FALSE
<1>1. Len(c) \in Nat /\ Len(d) \in Nat
  BY SequenceIsFunction DEF Text
<1> DEFINE same == {m \in Nat : m <= Len(c) => (m \in o <=> m \in p)}
<1>2. 0 \in same
  BY <1>1 DEF Escapes
<1>3. ASSUME NEW m \in Nat, m \in same PROVE m + 1 \in same
  <2> SUFFICES ASSUME m + 1 <= Len(c) PROVE m + 1 \in o <=> m + 1 \in p
    OBVIOUS
  <2>1. PICK n : n = m + 1
    OBVIOUS
  <2>2. n \in 1..Len(c) /\ n \in 1..Len(d) /\ n - 1 = m
    BY <1>1, <2>1
  <2>3. n - 1 \in o <=> n - 1 \in p
    BY <1>1, <1>3, <2>1, <2>2
  <2>4. (n \in o <=> c[n] = Backslash /\ n - 1 \notin o) /\ (n \in p <=> d[n] = Backslash /\ n - 1 \notin p)
    BY <2>2 DEF Escapes
  <2>5. c[n] = d[n]
    BY <2>2
  <2> QED
    BY <2>1, <2>3, <2>4, <2>5
<1> HIDE DEF same
<1>4. Nat \subseteq same
  BY <1>2, <1>3, EveryNumber
<1>5. Len(c) \in o <=> Len(c) \in p
  BY <1>1, <1>4 DEF same
<1>6. Len(c) \notin o
  BY DEF Escapes
<1>7. Len(c) + 1 \in 1..Len(d) /\ (Len(c) + 1) - 1 = Len(c)
  BY <1>1
<1>8. Len(c) \in p
  BY <1>7 DEF Escapes
<1> QED
  BY <1>5, <1>6, <1>8

\* The text of a row of two renderings.
RowOf(c, u) == c \o (<<Bar>> \o u)

\* The renderings of a row are read off its text in one way.
LEMMA RowIsRead ==
    ASSUME NEW c \in Text, NEW o, Escapes(c, o), NEW d \in Text, NEW p, Escapes(d, p),
           NEW u \in Text, NEW v \in Text, RowOf(c, u) = RowOf(d, v)
    PROVE  c = d /\ u = v
<1>1. PICK bar, x, y, w : bar = <<Bar>> /\ x = bar \o u /\ y = bar \o v /\ w = c \o x
  OBVIOUS
<1>2. bar \in Text /\ Len(bar) = 1 /\ bar[1] = Bar
  BY <1>1, TextOfTwo, Specials
<1>3. x \in Text /\ Len(x) = 1 + Len(u) /\ y \in Text /\ Len(y) = 1 + Len(v)
  BY <1>1, <1>2, Joins
<1>4. Len(c) \in Nat /\ Len(d) \in Nat /\ Len(u) \in Nat /\ Len(v) \in Nat
  BY SequenceIsFunction DEF Text
<1>5. x[1] = Bar /\ y[1] = Bar
  <2>1. \A i \in 1..(Len(bar) + Len(u)) : x[i] = IF i <= Len(bar) THEN bar[i] ELSE u[i - Len(bar)]
    BY <1>1, <1>2, ConcatProperties DEF Text
  <2>2. \A i \in 1..(Len(bar) + Len(v)) : y[i] = IF i <= Len(bar) THEN bar[i] ELSE v[i - Len(bar)]
    BY <1>1, <1>2, ConcatProperties DEF Text
  <2> QED
    BY <1>2, <1>4, <2>1, <2>2
<1>6. w = d \o y
  BY <1>1 DEF RowOf
<1>7. /\ \A i \in 1..Len(c) : w[i] = c[i]
      /\ w[Len(c) + 1] = Bar /\ Len(w) = Len(c) + Len(x)
  <2>1. \A i \in 1..(Len(c) + Len(x)) : w[i] = IF i <= Len(c) THEN c[i] ELSE x[i - Len(c)]
    BY <1>1, <1>3, ConcatProperties DEF Text
  <2>2. Len(w) = Len(c) + Len(x)
    BY <1>1, <1>3, Joins
  <2> QED
    BY <1>3, <1>4, <1>5, <2>1, <2>2
<1>8. /\ \A i \in 1..Len(d) : w[i] = d[i]
      /\ w[Len(d) + 1] = Bar /\ Len(w) = Len(d) + Len(y)
  <2>1. \A i \in 1..(Len(d) + Len(y)) : w[i] = IF i <= Len(d) THEN d[i] ELSE y[i - Len(d)]
    BY <1>6, <1>3, ConcatProperties DEF Text
  <2>2. Len(w) = Len(d) + Len(y)
    BY <1>6, <1>3, Joins
  <2> QED
    BY <1>3, <1>4, <1>5, <2>1, <2>2
<1>9. ~(Len(c) < Len(d))
  <2> SUFFICES ASSUME Len(c) < Len(d) PROVE FALSE
    OBVIOUS
  <2>1. (\A i \in 1..Len(c) : c[i] = d[i]) /\ d[Len(c) + 1] = Bar
    <3>1. \A i \in 1..Len(c) : i \in 1..Len(d)
      BY <1>4
    <3>2. Len(c) + 1 \in 1..Len(d)
      BY <1>4
    <3> QED
      BY <1>7, <1>8, <3>1, <3>2
  <2> QED
    BY <2>1, BarIsPlaced
<1>10. ~(Len(d) < Len(c))
  <2> SUFFICES ASSUME Len(d) < Len(c) PROVE FALSE
    OBVIOUS
  <2>1. (\A i \in 1..Len(d) : d[i] = c[i]) /\ c[Len(d) + 1] = Bar
    <3>1. \A i \in 1..Len(d) : i \in 1..Len(c)
      BY <1>4
    <3>2. Len(d) + 1 \in 1..Len(c)
      BY <1>4
    <3> QED
      BY <1>7, <1>8, <3>1, <3>2
  <2> QED
    BY <2>1, BarIsPlaced
<1>11. c = d
  <2>1. Len(c) = Len(d) /\ \A i \in 1..Len(c) : c[i] = d[i]
    BY <1>4, <1>7, <1>8, <1>9, <1>10
  <2> QED
    BY <2>1, SeqEqual DEF Text
<1>12. x = y
  BY <1>1, <1>3, <1>6, <1>11, ConcatSimplifications DEF Text
<1>13. u = v
  BY <1>1, <1>2, <1>12, ConcatSimplifications DEF Text
<1> QED
  BY <1>11, <1>13

\* The text of a row of two.
LEMMA RowOfTwo ==
    ASSUME NEW c \in Text, NEW d \in Text
    PROVE  RowString(<<c, d>>) = RowOf(c, d)
<1>1. PICK x : x = <<Bar>> \o d
  OBVIOUS
<1>2. x \in Text
  <2>1. <<Bar>> \in Text
    BY TextOfTwo, Specials
  <2> QED
    BY <1>1, <2>1, Joins
<1>3. <<c>> \in Seq(Text) /\ <<>> \in Seq(Text)
  OBVIOUS
<1>4. Append(<<>>, c) = <<c>> /\ Append(<<c>>, x) = <<c, x>>
  <2>1. <<>> \o <<c>> = Append(<<>>, c) /\ <<>> \o <<c>> = <<c>>
    BY <1>3, Ends, ConcatEmptySeq
  <2>2. <<c>> \o <<x>> = Append(<<c>>, x)
    BY <1>2, <1>3, Ends
  <2>3. <<c>> \o <<x>> = <<c, x>>
    BY <1>2, OneThenTwo
  <2> QED
    BY <2>1, <2>2, <2>3
<1>5. FlattenSeq(<<>>) = <<>> /\ FlattenSeq(Append(<<>>, c)) = FlattenSeq(<<>>) \o c
  BY <1>3, FlattenGrows
<1>6. FlattenSeq(<<c>>) = c
  BY <1>4, <1>5, Joins
<1>7. FlattenSeq(Append(<<c>>, x)) = FlattenSeq(<<c>>) \o x
  BY <1>2, <1>3, FlattenGrows
<1>8. [i \in DOMAIN <<c, d>> |-> IF i = 1 THEN <<c, d>>[i] ELSE <<Bar>> \o <<c, d>>[i]] = <<c, x>>
  BY <1>1
<1> QED
  BY <1>1, <1>4, <1>6, <1>7, <1>8 DEF RowString, RowOf

-----------------------------------------------------------------------------
(* Texts: blanks, case and order.                                         *)

\* The texts of the columns are texts.
LEMMA LettersDo == Seq(STRING) \subseteq Text
<1>1. STRING \subseteq Letters
  BY DEF Letters
<1> SUFFICES ASSUME NEW s \in Seq(STRING) PROVE s \in Seq(Letters)
  BY DEF Text
<1>2. Len(s) \in Nat /\ s \in [1..Len(s) -> STRING]
  BY LenProperties
<1>3. s \in [1..Len(s) -> Letters]
  BY <1>1, <1>2
<1> QED
  BY <1>2, <1>3

\* The largest number of a set.
LEMMA LargestIs ==
    ASSUME NEW S, S \subseteq Int, NEW m \in S, \A i \in S : i <= m
    PROVE  Max(S) = m
<1>1. \A y \in S : m >= y
  OBVIOUS
<1>2. PICK k : k = Max(S)
  OBVIOUS
<1>3. k \in S /\ \A y \in S : k >= y
  <2>1. \E x : x \in S /\ \A y \in S : x >= y
    BY <1>1
  <2> QED
    BY <1>2, <2>1, Zenon DEF Max
<1>4. k \in Int /\ m \in Int /\ k >= m /\ k <= m
  BY <1>3
<1> QED
  BY <1>2, <1>4

\* What a text keeps when the blanks it ends with are dropped.
LEMMA TrimmedSays ==
    ASSUME NEW t \in Text
    PROVE  LET s == RightTrimmed(t)
           IN  /\ s \in Text /\ Len(s) \in 0..Len(t)
               /\ \A i \in 1..Len(s) : s[i] = t[i]
               /\ \A i \in (Len(s) + 1)..Len(t) : t[i] = Space
               /\ Len(s) # 0 => t[Len(s)] # Space
<1> DEFINE kept == {i \in DOMAIN t : t[i] # Space}
<1>1. /\ Len(t) \in Nat /\ DOMAIN t = 1..Len(t)
      /\ \A i \in 1..Len(t) : t[i] \in Letters
  BY DEF Text
<1>2. CASE kept = {}
  <2>1. RightTrimmed(t) = <<>>
    BY <1>2 DEF RightTrimmed
  <2> QED
    BY <1>1, <1>2, <2>1 DEF Text
<1>3. CASE kept # {}
  <2>1. PICK m \in kept : \A i \in kept : i <= m
    <3>1. kept \subseteq Nat /\ IsFiniteSet(kept)
      <4>1. IsFiniteSet(1..Len(t)) /\ kept \subseteq 1..Len(t)
        BY <1>1, FS_Interval
      <4> QED
        BY <1>1, <4>1, FS_Subset
    <3>2. kept # {}
      BY <1>3
    <3> HIDE DEF kept
    <3> QED
      BY <3>1, <3>2, Greatest
  <2>2. Max(kept) = m
    <3>1. kept \subseteq Int
      BY <1>1
    <3> HIDE DEF kept
    <3> QED
      BY <2>1, <3>1, LargestIs
  <2>3. RightTrimmed(t) = SubSeq(t, 1, m)
    BY <1>3, <2>2 DEF RightTrimmed
  <2>4. m \in 1..Len(t) /\ t[m] # Space
    BY <1>1, <2>1
  <2>5. /\ SubSeq(t, 1, m) \in Seq(Letters) /\ Len(SubSeq(t, 1, m)) = m
        /\ \A i \in 1..m : SubSeq(t, 1, m)[i] = t[i]
    <3>1. /\ 1 \in Int /\ m \in Int /\ 1 <= m /\ (m - 1) + 1 = m
          /\ \A i \in 1..m : t[i] \in Letters /\ (1 + i) - 1 = i
      BY <1>1, <2>4
    <3> QED
      BY <3>1, SubSeqProperties
  <2>6. \A i \in (m + 1)..Len(t) : t[i] = Space
    BY <1>1, <2>1, <2>4
  <2> QED
    BY <1>1, <2>3, <2>4, <2>5, <2>6 DEF Text
<1> QED
  BY <1>2, <1>3

\* Only one text is that, of a text.
LEMMA TrimmedIs ==
    ASSUME NEW t \in Text, NEW s \in Text, Len(s) <= Len(t),
           \A i \in 1..Len(s) : s[i] = t[i],
           \A i \in (Len(s) + 1)..Len(t) : t[i] = Space,
           Len(s) # 0 => t[Len(s)] # Space
    PROVE  RightTrimmed(t) = s
<1>1. PICK r : r = RightTrimmed(t)
  OBVIOUS
<1>2. /\ r \in Text /\ Len(r) \in 0..Len(t)
      /\ \A i \in 1..Len(r) : r[i] = t[i]
      /\ \A i \in (Len(r) + 1)..Len(t) : t[i] = Space
      /\ Len(r) # 0 => t[Len(r)] # Space
  BY <1>1, TrimmedSays
<1>3. Len(s) \in Nat /\ Len(t) \in Nat /\ Len(r) \in Nat
  BY DEF Text
<1>4. Len(r) = Len(s)
  BY <1>2, <1>3
<1>5. r = s
  <2>1. \A i \in 1..Len(r) : r[i] = s[i]
    BY <1>2, <1>4
  <2> QED
    BY <1>2, <1>4, <2>1, SeqEqual DEF Text
<1> QED
  BY <1>1, <1>5

\* Lowering keeps the length and the blanks.
LEMMA LoweredSays ==
    ASSUME NEW t \in Text
    PROVE  /\ Lowered(t) \in Text /\ Len(Lowered(t)) = Len(t)
           /\ \A i \in 1..Len(t) : Lowered(t)[i] = Fold(t[i]) /\ (Lowered(t)[i] = Space <=> t[i] = Space)
<1>1. /\ Len(t) \in Nat /\ DOMAIN t = 1..Len(t)
      /\ \A i \in 1..Len(t) : t[i] \in Letters
  BY DEF Text
<1>2. \A c \in Letters : Fold(c) \in Letters /\ (Fold(c) = Space <=> c = Space)
  <2>1. /\ Lower \in [DOMAIN Lower -> STRING] /\ Space \notin DOMAIN Lower
        /\ \A c \in DOMAIN Lower : Lower[c] # Space
    BY ValuesAssumption DEF Range
  <2> QED
    BY <2>1 DEF Fold, Letters
<1>3. Lowered(t) = [i \in 1..Len(t) |-> Fold(t[i])]
  BY <1>1 DEF Lowered, Fold
<1>4. Lowered(t) \in [1..Len(t) -> Letters]
  BY <1>1, <1>2, <1>3
<1>5. Lowered(t) \in Seq(Letters) /\ Len(Lowered(t)) = Len(t)
  BY <1>1, <1>4
<1> QED
  BY <1>1, <1>2, <1>3, <1>5 DEF Text

\* Blanks have no case: it is all one whether a text is trimmed or lowered first.
LEMMA LoweredTrims ==
    ASSUME NEW t \in Text
    PROVE  RightTrimmed(Lowered(t)) = Lowered(RightTrimmed(t))
<1>1. PICK s, l, r : s = RightTrimmed(t) /\ l = Lowered(t) /\ r = Lowered(s)
  OBVIOUS
<1>2. /\ s \in Text /\ Len(s) \in 0..Len(t)
      /\ \A i \in 1..Len(s) : s[i] = t[i]
      /\ \A i \in (Len(s) + 1)..Len(t) : t[i] = Space
      /\ Len(s) # 0 => t[Len(s)] # Space
  BY <1>1, TrimmedSays
<1>3. /\ l \in Text /\ Len(l) = Len(t)
      /\ \A i \in 1..Len(t) : l[i] = Fold(t[i]) /\ (l[i] = Space <=> t[i] = Space)
  BY <1>1, LoweredSays
<1>4. /\ r \in Text /\ Len(r) = Len(s)
      /\ \A i \in 1..Len(s) : r[i] = Fold(s[i])
  BY <1>1, <1>2, LoweredSays
<1>5. Len(t) \in Nat /\ Len(s) \in Nat
  BY <1>2 DEF Text
<1>6. /\ \A i \in 1..Len(r) : r[i] = l[i]
      /\ \A i \in (Len(r) + 1)..Len(l) : l[i] = Space
      /\ Len(r) # 0 => l[Len(r)] # Space
  BY <1>2, <1>3, <1>4, <1>5
<1>7. RightTrimmed(l) = r
  BY <1>2, <1>3, <1>4, <1>5, <1>6, TrimmedIs
<1> QED
  BY <1>1, <1>7

\* A text turned round.
LEMMA ReversedSays ==
    ASSUME NEW t \in Text
    PROVE  /\ Reverse(t) \in Text /\ Len(Reverse(t)) = Len(t)
           /\ \A i \in 1..Len(t) : Reverse(t)[i] = t[(Len(t) - i) + 1]
<1>1. Len(t) \in Nat /\ \A i \in 1..Len(t) : t[i] \in Letters /\ (Len(t) - i) + 1 \in 1..Len(t)
  BY DEF Text
<1>2. Reverse(t) \in [1..Len(t) -> Letters]
  BY <1>1 DEF Reverse
<1>3. Reverse(t) \in Seq(Letters) /\ Len(Reverse(t)) = Len(t)
  BY <1>1, <1>2
<1> QED
  BY <1>1, <1>3 DEF Text, Reverse

\* And whether it is turned round or lowered first.
LEMMA LoweredReverses ==
    ASSUME NEW t \in Text
    PROVE  Reverse(Lowered(t)) = Lowered(Reverse(t))
<1>1. PICK s, l : s = Reverse(t) /\ l = Lowered(t)
  OBVIOUS
<1>2. /\ s \in Text /\ Len(s) = Len(t) /\ \A i \in 1..Len(t) : s[i] = t[(Len(t) - i) + 1]
  BY <1>1, ReversedSays
<1>3. l \in Text /\ Len(l) = Len(t) /\ \A i \in 1..Len(t) : l[i] = Fold(t[i])
  BY <1>1, LoweredSays
<1>4. Reverse(l) \in Text /\ Len(Reverse(l)) = Len(t) /\ \A i \in 1..Len(t) : Reverse(l)[i] = l[(Len(t) - i) + 1]
  BY <1>3, ReversedSays
<1>5. Lowered(s) \in Text /\ Len(Lowered(s)) = Len(t) /\ \A i \in 1..Len(t) : Lowered(s)[i] = Fold(s[i])
  BY <1>2, LoweredSays
<1>6. Len(t) \in Nat /\ \A i \in 1..Len(t) : (Len(t) - i) + 1 \in 1..Len(t)
  BY DEF Text
<1>7. \A i \in 1..Len(t) : Reverse(l)[i] = Lowered(s)[i]
  BY <1>2, <1>3, <1>4, <1>5, <1>6
<1>8. Reverse(l) = Lowered(s)
  BY <1>4, <1>5, <1>7, SeqEqual DEF Text
<1> QED
  BY <1>1, <1>8

\* So texts that differ in case alone still do when both ends are trimmed.
LEMMA LoweredStrips ==
    ASSUME NEW t \in Text
    PROVE  Lowered(Stripped(t)) = Stripped(Lowered(t))
<1>1. PICK a, b, c : a = RightTrimmed(t) /\ b = Reverse(a) /\ c = RightTrimmed(b)
  OBVIOUS
<1>2. a \in Text
  BY <1>1, TrimmedSays
<1>3. b \in Text
  BY <1>1, <1>2, ReversedSays
<1>4. c \in Text
  BY <1>1, <1>3, TrimmedSays
<1>5. RightTrimmed(Lowered(t)) = Lowered(a)
  BY <1>1, LoweredTrims
<1>6. Reverse(Lowered(a)) = Lowered(b)
  BY <1>1, <1>2, LoweredReverses
<1>7. RightTrimmed(Lowered(b)) = Lowered(c)
  BY <1>1, <1>3, LoweredTrims
<1>8. Reverse(Lowered(c)) = Lowered(Reverse(c))
  BY <1>4, LoweredReverses
<1> QED
  BY <1>1, <1>5, <1>6, <1>7, <1>8 DEF Stripped

-----------------------------------------------------------------------------
(* Values: what a policy leaves of a text.                                 *)

\* The longer of two lengths.
LEMMA LongerIs ==
    ASSUME NEW a \in Nat, NEW b \in Nat
    PROVE  Max({a, b}) \in Nat /\ Max({a, b}) \in {a, b} /\ a <= Max({a, b}) /\ b <= Max({a, b})
<1>1. \E m \in {a, b} : \A j \in {a, b} : j <= m
  OBVIOUS
<1>2. PICK m \in {a, b} : \A j \in {a, b} : j <= m
  BY <1>1
<1>3. Max({a, b}) = m
  <2>1. {a, b} \subseteq Int
    OBVIOUS
  <2> QED
    BY <1>2, <2>1, LargestIs
<1> QED
  BY <1>2, <1>3

\* A place is in the longer of two texts.
LEMMA InTheLonger ==
    ASSUME NEW a \in Nat, NEW b \in Nat, NEW i \in Int
    PROVE  i \in 1..Max({a, b}) <=> i >= 1 /\ (i <= a \/ i <= b)
BY LongerIs

\* Two texts have the same letters in the same places, blanks added to the shorter one.
Alike(s, t) == \A i \in 1..Max({Len(s), Len(t)}) : CharAt(s, i) = CharAt(t, i)

\* Beyond both texts there are blanks only.
LEMMA AlikeSays ==
    ASSUME NEW s \in Text, NEW t \in Text
    PROVE  Alike(s, t) <=> \A i \in Nat \ {0} : CharAt(s, i) = CharAt(t, i)
<1>1. Len(s) \in Nat /\ Len(t) \in Nat /\ DOMAIN s = 1..Len(s) /\ DOMAIN t = 1..Len(t)
  BY SequenceIsFunction DEF Text
<1>2. \A i \in Int : i \in 1..Max({Len(s), Len(t)}) <=> i >= 1 /\ (i <= Len(s) \/ i <= Len(t))
  BY <1>1, InTheLonger
<1>3. \A i \in Nat \ {0} : i \notin 1..Max({Len(s), Len(t)}) => CharAt(s, i) = Space /\ CharAt(t, i) = Space
  BY <1>1, <1>2 DEF CharAt
<1>4. \A i \in 1..Max({Len(s), Len(t)}) : i \in Nat \ {0}
  <2>1. Max({Len(s), Len(t)}) \in Nat
    BY <1>1, LongerIs
  <2> QED
    BY <2>1
<1> QED
  BY <1>3, <1>4 DEF Alike

\* The trimmed text has the same letters.
LEMMA TrimmedIsAlike ==
    ASSUME NEW t \in Text, NEW i \in Nat \ {0}
    PROVE  CharAt(RightTrimmed(t), i) = CharAt(t, i)
<1>1. PICK s : s = RightTrimmed(t)
  OBVIOUS
<1>2. /\ s \in Text /\ Len(s) \in 0..Len(t)
      /\ \A j \in 1..Len(s) : s[j] = t[j]
      /\ \A j \in (Len(s) + 1)..Len(t) : t[j] = Space
  BY <1>1, TrimmedSays
<1>3. Len(s) \in Nat /\ Len(t) \in Nat /\ DOMAIN s = 1..Len(s) /\ DOMAIN t = 1..Len(t)
  BY <1>2, SequenceIsFunction DEF Text
<1>4. CharAt(s, i) = CharAt(t, i)
  BY <1>2, <1>3 DEF CharAt
<1> QED
  BY <1>1, <1>4

\* And it is one text for all texts with these letters.
LEMMA TrimmedAlike ==
    ASSUME NEW s \in Text, NEW t \in Text
    PROVE  RightTrimmed(s) = RightTrimmed(t) <=> Alike(s, t)
<1>1. ASSUME RightTrimmed(s) = RightTrimmed(t) PROVE Alike(s, t)
  <2>1. \A i \in Nat \ {0} : CharAt(s, i) = CharAt(t, i)
    BY <1>1, TrimmedIsAlike
  <2> QED
    BY <2>1, AlikeSays
<1>2. ASSUME Alike(s, t) PROVE RightTrimmed(s) = RightTrimmed(t)
  <2>1. PICK u, v : u = RightTrimmed(s) /\ v = RightTrimmed(t)
    OBVIOUS
  <2>2. /\ u \in Text /\ v \in Text
        /\ (Len(u) # 0 => u[Len(u)] # Space) /\ (Len(v) # 0 => v[Len(v)] # Space)
    BY <2>1, TrimmedSays
  <2>3. \A i \in Nat \ {0} : CharAt(u, i) = CharAt(v, i)
    <3>1. \A i \in Nat \ {0} : CharAt(s, i) = CharAt(t, i)
      BY <1>2, AlikeSays
    <3> QED
      BY <2>1, <3>1, TrimmedIsAlike
  <2>4. Len(u) \in Nat /\ Len(v) \in Nat /\ DOMAIN u = 1..Len(u) /\ DOMAIN v = 1..Len(v)
    BY <2>2, SequenceIsFunction DEF Text
  <2>5. ~(Len(u) < Len(v))
    <3> SUFFICES ASSUME Len(u) < Len(v) PROVE FALSE
      OBVIOUS
    <3>1. Len(v) \in Nat \ {0} /\ CharAt(u, Len(v)) = Space /\ CharAt(v, Len(v)) # Space
      BY <2>2, <2>4 DEF CharAt
    <3> QED
      BY <2>3, <3>1
  <2>6. ~(Len(v) < Len(u))
    <3> SUFFICES ASSUME Len(v) < Len(u) PROVE FALSE
      OBVIOUS
    <3>1. Len(u) \in Nat \ {0} /\ CharAt(v, Len(u)) = Space /\ CharAt(u, Len(u)) # Space
      BY <2>2, <2>4 DEF CharAt
    <3>2. CharAt(u, Len(u)) = CharAt(v, Len(u))
      BY <2>3, <3>1
    <3> QED
      BY <3>1, <3>2
  <2>7. Len(u) = Len(v)
    <3>1. PICK m \in Nat, n \in Nat : m = Len(u) /\ n = Len(v)
      BY <2>4
    <3>2. ~(m < n) /\ ~(n < m)
      BY <2>5, <2>6, <3>1
    <3>3. m = n
      BY <3>2
    <3> QED
      BY <3>1, <3>3
  <2>8. \A i \in 1..Len(u) : u[i] = v[i]
    <3> SUFFICES ASSUME NEW i \in 1..Len(u) PROVE u[i] = v[i]
      OBVIOUS
    <3>1. i \in Nat \ {0} /\ CharAt(u, i) = u[i] /\ CharAt(v, i) = v[i]
      BY <2>4, <2>7 DEF CharAt
    <3> QED
      BY <2>3, <3>1
  <2>9. u = v
    BY <2>2, <2>7, <2>8, SeqEqual DEF Text
  <2> QED
    BY <2>1, <2>9
<1> QED
  BY <1>1, <1>2

\* Texts of one length with the same letters are one.
LEMMA SameTexts ==
    ASSUME NEW s \in Text, NEW t \in Text
    PROVE  s = t <=> Len(s) = Len(t) /\ Alike(s, t)
<1>1. ASSUME s = t PROVE Alike(s, t)
  BY <1>1 DEF Alike
<1>2. ASSUME Len(s) = Len(t), Alike(s, t) PROVE s = t
  <2>1. Len(s) \in Nat /\ DOMAIN s = 1..Len(s) /\ DOMAIN t = 1..Len(s)
    BY <1>2, SequenceIsFunction DEF Text
  <2>2. \A i \in 1..Len(s) : s[i] = t[i]
    <3> SUFFICES ASSUME NEW i \in 1..Len(s) PROVE s[i] = t[i]
      OBVIOUS
    <3>1. i \in Nat \ {0} /\ CharAt(s, i) = s[i] /\ CharAt(t, i) = t[i]
      BY <2>1 DEF CharAt
    <3> QED
      BY <1>2, <3>1, AlikeSays
  <2> QED
    BY <1>2, <2>2, SeqEqual DEF Text
<1> QED
  BY <1>1, <1>2

\* What a policy leaves of a text.
LeftOf(t, rule) ==
    LET trimmed == IF rule.rtrim THEN RightTrimmed(t) ELSE t
    IN  IF rule.casefold THEN Lowered(trimmed) ELSE trimmed

\* The texts a data owner calls equal are those it leaves the same of.
LEMMA LeftAlike ==
    ASSUME NEW s \in Text, NEW t \in Text, NEW rule
    PROVE  /\ LeftOf(s, rule) \in Text
           /\ LeftOf(s, rule) = LeftOf(t, rule) <=>
                 /\ Len(s) = Len(t) \/ rule.rtrim
                 /\ \A i \in 1..Max({Len(s), Len(t)}) :
                        \/ CharAt(s, i) = CharAt(t, i)
                        \/ rule.casefold /\ Fold(CharAt(s, i)) = Fold(CharAt(t, i))
<1> DEFINE cased(u) == IF rule.casefold THEN Lowered(u) ELSE u
<1>1. ASSUME NEW u \in Text
      PROVE  /\ cased(u) \in Text /\ Len(cased(u)) = Len(u)
             /\ LeftOf(u, rule) = IF rule.rtrim THEN RightTrimmed(cased(u)) ELSE cased(u)
  <2>1. Lowered(u) \in Text /\ Len(Lowered(u)) = Len(u) /\ RightTrimmed(Lowered(u)) = Lowered(RightTrimmed(u))
    BY LoweredSays, LoweredTrims
  <2> QED
    BY <2>1 DEF LeftOf
<1>2. ASSUME NEW u \in Text, NEW i \in Nat
      PROVE  CharAt(cased(u), i) = IF rule.casefold THEN Fold(CharAt(u, i)) ELSE CharAt(u, i)
  <2>1. CASE rule.casefold
    <3>1. PICK l : l = Lowered(u)
      OBVIOUS
    <3>2. l \in Text /\ Len(l) = Len(u) /\ \A j \in 1..Len(u) : l[j] = Fold(u[j])
      BY <3>1, LoweredSays
    <3>3. DOMAIN l = 1..Len(u) /\ DOMAIN u = 1..Len(u)
      BY <3>2, SequenceIsFunction DEF Text
    <3>4. Fold(Space) = Space
      BY ValuesAssumption DEF Fold
    <3>5. CharAt(l, i) = Fold(CharAt(u, i))
      BY <3>2, <3>3, <3>4 DEF CharAt
    <3> QED
      BY <2>1, <3>1, <3>5
  <2>2. CASE ~rule.casefold
    BY <2>2
  <2> QED
    BY <2>1, <2>2
<1>3. PICK f, g : f = cased(s) /\ g = cased(t)
  OBVIOUS
<1>4. f \in Text /\ g \in Text /\ Len(f) = Len(s) /\ Len(g) = Len(t)
  BY <1>1, <1>3
<1>5. Alike(f, g) <=>
          \A i \in 1..Max({Len(s), Len(t)}) :
              \/ CharAt(s, i) = CharAt(t, i)
              \/ rule.casefold /\ Fold(CharAt(s, i)) = Fold(CharAt(t, i))
  <2>1. Len(s) \in Nat /\ Len(t) \in Nat
    BY SequenceIsFunction DEF Text
  <2>2. \A i \in 1..Max({Len(s), Len(t)}) : i \in Nat
    <3>1. Max({Len(s), Len(t)}) \in Nat
      BY <2>1, LongerIs
    <3> QED
      BY <3>1
  <2>3. \A i \in 1..Max({Len(s), Len(t)}) :
            CharAt(f, i) = CharAt(g, i) <=>
                \/ CharAt(s, i) = CharAt(t, i)
                \/ rule.casefold /\ Fold(CharAt(s, i)) = Fold(CharAt(t, i))
    BY <1>2, <1>3, <2>2
  <2> QED
    BY <1>4, <2>3 DEF Alike
<1>6. LeftOf(s, rule) = LeftOf(t, rule) <=> (Len(s) = Len(t) \/ rule.rtrim) /\ Alike(f, g)
  <2>1. CASE rule.rtrim
    <3>1. LeftOf(s, rule) = RightTrimmed(f) /\ LeftOf(t, rule) = RightTrimmed(g)
      BY <1>1, <1>3, <2>1
    <3> QED
      BY <1>4, <2>1, <3>1, TrimmedAlike
  <2>2. CASE ~rule.rtrim
    <3>1. LeftOf(s, rule) = f /\ LeftOf(t, rule) = g
      BY <1>1, <1>3, <2>2
    <3> QED
      BY <1>4, <2>2, <3>1, SameTexts
  <2> QED
    BY <2>1, <2>2
<1>7. LeftOf(s, rule) \in Text
  <2>1. CASE rule.rtrim
    BY <1>1, <1>3, <1>4, <2>1, TrimmedSays
  <2>2. CASE ~rule.rtrim
    BY <1>1, <1>3, <1>4, <2>2
  <2> QED
    BY <2>1, <2>2
<1> QED
  BY <1>5, <1>6, <1>7

\* The rendering of a value.
LEMMA CanonicalSays ==
    ASSUME NEW v \in Values, NEW rule
    PROVE  /\ Canonical(v, rule) \in Text
           /\ \E o : Escapes(Canonical(v, rule), o)
           /\ v = Null => Canonical(v, rule) = NullText
           /\ v # Null => v.kind = "text" /\ v.of \in Text /\ Canonical(v, rule) = Escape(LeftOf(v.of, rule))
<1>1. CASE v = Null
  <2>1. v.kind = "null"
    BY <1>1 DEF Null
  <2>2. Canonical(v, rule) = NullText
    BY <2>1 DEF Canonical
  <2> QED
    BY <1>1, <2>2, NullEscapes
<1>2. CASE v # Null
  <2>1. v.kind = "text" /\ v.of \in Seq(STRING)
    BY <1>2, ValuesAssumption
  <2>2. v.of \in Text
    BY <2>1, LettersDo
  <2>3. Canonical(v, rule) = Escape(LeftOf(v.of, rule))
    BY <2>1 DEF Canonical, LeftOf
  <2>4. LeftOf(v.of, rule) \in Text
    BY <2>2, LeftAlike
  <2>5. Escape(LeftOf(v.of, rule)) \in Text /\ \E o : Escapes(Escape(LeftOf(v.of, rule)), o)
    BY <2>4, EscapeIsText, EscapeEscapes
  <2> QED
    BY <1>2, <2>1, <2>2, <2>3, <2>5
<1> QED
  BY <1>1, <1>2

\* Two values have one rendering exactly when the data owner calls them equal.
LEMMA RenderingsTell ==
    ASSUME NEW v \in Values, NEW w \in Values, NEW rule
    PROVE  Canonical(v, rule) = Canonical(w, rule) <=> SameValue(v, w, rule)
<1>0. Null.kind = "null"
  BY DEF Null
<1>1. CASE v = Null /\ w = Null
  BY <1>1 DEF SameValue
<1>2. CASE v = Null /\ w # Null
  <2>1. w.kind = "text" /\ w.of \in Text /\ Canonical(w, rule) = Escape(LeftOf(w.of, rule))
    BY <1>2, CanonicalSays
  <2>2. Canonical(v, rule) # Canonical(w, rule)
    BY <1>2, <2>1, CanonicalSays, NoEscapeIsNull, LeftAlike
  <2>3. ~SameValue(v, w, rule)
    BY <1>0, <1>2 DEF SameValue
  <2> QED
    BY <2>2, <2>3
<1>3. CASE v # Null /\ w = Null
  <2>1. v.kind = "text" /\ v.of \in Text /\ Canonical(v, rule) = Escape(LeftOf(v.of, rule))
    BY <1>3, CanonicalSays
  <2>2. Canonical(v, rule) # Canonical(w, rule)
    BY <1>3, <2>1, CanonicalSays, NoEscapeIsNull, LeftAlike
  <2>3. ~SameValue(v, w, rule)
    BY <1>0, <1>3 DEF SameValue
  <2> QED
    BY <2>2, <2>3
<1>4. CASE v # Null /\ w # Null
  <2>1. PICK s, t : s = v.of /\ t = w.of
    OBVIOUS
  <2>2. /\ v.kind = "text" /\ w.kind = "text" /\ s \in Text /\ t \in Text
        /\ Canonical(v, rule) = Escape(LeftOf(s, rule)) /\ Canonical(w, rule) = Escape(LeftOf(t, rule))
    BY <1>4, <2>1, CanonicalSays
  <2>3. Canonical(v, rule) = Canonical(w, rule) <=> LeftOf(s, rule) = LeftOf(t, rule)
    BY <2>2, LeftAlike, EscapeIsOne
  <2>4. LeftOf(s, rule) = LeftOf(t, rule) <=>
            /\ Len(s) = Len(t) \/ rule.rtrim
            /\ \A i \in 1..Max({Len(s), Len(t)}) :
                   \/ CharAt(s, i) = CharAt(t, i)
                   \/ rule.casefold /\ Fold(CharAt(s, i)) = Fold(CharAt(t, i))
    BY <2>2, LeftAlike
  <2>5. v = w => LeftOf(s, rule) = LeftOf(t, rule)
    BY <2>1
  <2> QED
    BY <2>1, <2>2, <2>3, <2>4, <2>5 DEF SameValue
<1> QED
  BY <1>1, <1>2, <1>3, <1>4

\* So rows of two have one rendering exactly when they are equal column by column.
LEMMA RowsTell ==
    ASSUME NEW v \in Values, NEW w \in Values, NEW l \in Values, NEW r \in Values, NEW p, NEW q
    PROVE  LET rule(i) == RuleFor(<<p, q>>[i].override, <<p, q>>[i].base)
           IN  CanonicalRow(<<v, w>>, <<p, q>>) = CanonicalRow(<<l, r>>, <<p, q>>)
                   <=> SameValue(v, l, rule(1)) /\ SameValue(w, r, rule(2))
<1>1. PICK a, b : a = RuleFor(p.override, p.base) /\ b = RuleFor(q.override, q.base)
  OBVIOUS
<1>2. ASSUME NEW x \in Values, NEW y \in Values
      PROVE  CanonicalRow(<<x, y>>, <<p, q>>) = RowOf(Canonical(x, a), Canonical(y, b))
  <2>1. CanonicalRow(<<x, y>>, <<p, q>>) = RowString(<<Canonical(x, a), Canonical(y, b)>>)
    <3>1. [i \in DOMAIN <<x, y>> |-> Canonical(<<x, y>>[i], RuleFor(<<p, q>>[i].override, <<p, q>>[i].base))]
              = <<Canonical(x, a), Canonical(y, b)>>
      BY <1>1
    <3> QED
      BY <3>1 DEF CanonicalRow
  <2> QED
    BY <2>1, CanonicalSays, RowOfTwo
<1>3. CanonicalRow(<<v, w>>, <<p, q>>) = CanonicalRow(<<l, r>>, <<p, q>>)
          <=> Canonical(v, a) = Canonical(l, a) /\ Canonical(w, b) = Canonical(r, b)
  <2>1. PICK c, d, e, f : c = Canonical(v, a) /\ d = Canonical(l, a) /\ e = Canonical(w, b) /\ f = Canonical(r, b)
    OBVIOUS
  <2>2. c \in Text /\ d \in Text /\ e \in Text /\ f \in Text
    BY <2>1, CanonicalSays
  <2>3. PICK o, k : Escapes(c, o) /\ Escapes(d, k)
    BY <2>1, CanonicalSays
  <2>4. ASSUME RowOf(c, e) = RowOf(d, f) PROVE c = d /\ e = f
    BY <2>2, <2>3, <2>4, RowIsRead
  <2> QED
    BY <1>2, <2>1, <2>4
<1>4. /\ Canonical(v, a) = Canonical(l, a) <=> SameValue(v, l, a)
      /\ Canonical(w, b) = Canonical(r, b) <=> SameValue(w, r, b)
  BY RenderingsTell
<1> QED
  BY <1>1, <1>3, <1>4

-----------------------------------------------------------------------------
(* Labels: numbers.                                                        *)

\* Division with remainder.
LEMMA Dividing ==
    ASSUME NEW a \in Int, NEW b \in Nat \ {0}
    PROVE  /\ a \div b \in Int /\ a % b \in 0..(b - 1)
           /\ a = b * (a \div b) + (a % b)
OBVIOUS

\* A whole number of units leaves no rest.
LEMMA WholeUnits ==
    ASSUME NEW k \in Int, NEW b \in Nat \ {0}
    PROVE  (b * k) % b = 0 /\ b * k \in Int
<1>1. /\ b * k \in Int
  OBVIOUS
<1> DEFINE n == b * k
           q == n \div b
           r == n % b
<1>2. q \in Int /\ r \in 0..(b - 1) /\ n = b * q + r
  BY <1>1, Dividing
<1>3. b * (k - q) = r
  <2> HIDE DEF q, r
  <2>1. b * k = b * q + r
    BY <1>2
  <2> QED
    BY <1>2, <2>1
<1> HIDE DEF q, r
<1>4. k - q = 0
  <2>1. CASE k - q >= 1
    <3>1. b * (k - q) >= b
      BY <1>2, <2>1
    <3> QED
      BY <1>2, <1>3, <3>1
  <2>2. CASE k - q <= -1
    <3>1. b * (k - q) <= -b
      BY <1>2, <2>2
    <3> QED
      BY <1>2, <1>3, <3>1
  <2> QED
    BY <1>2, <2>1, <2>2
<1> QED
  BY <1>1, <1>2, <1>3, <1>4 DEF r

\* Every way of rounding leaves less than a unit.
LEMMA RoundingIsNear ==
    ASSUME NEW n \in Int, NEW k \in {HalfUp(n), HalfToEven(n), Truncated(n)}
    PROVE  k \in Int /\ Fine * k \in Int /\ Distance(n, Fine * k) < Fine
<1> DEFINE up(m) == (2 * m + Fine) \div (2 * Fine)
<1>0. Fine \in Nat \ {0}
  BY ValuesAssumption
<1>1. ASSUME NEW m \in Nat
      PROVE  up(m) \in Int /\ Fine * up(m) - m < Fine /\ m - Fine * up(m) < Fine
  <2>1. 2 * m + Fine \in Int /\ 2 * Fine \in Nat \ {0}
    BY <1>0
  <2>2. PICK u, r : u = up(m) /\ r = (2 * m + Fine) % (2 * Fine)
    OBVIOUS
  <2>3. u \in Int /\ r \in 0..(2 * Fine - 1) /\ 2 * m + Fine = 2 * Fine * u + r
    BY <2>1, <2>2, Dividing
  <2>4. u \in Int /\ 2 * m + Fine = 2 * (Fine * u) + r /\ Fine * u \in Int
    BY <1>0, <2>3
  <2> QED
    BY <1>0, <2>2, <2>3, <2>4
<1>2. CASE k = HalfUp(n) /\ n >= 0
  <2>1. k = up(n)
    BY <1>2 DEF HalfUp
  <2> HIDE DEF up
  <2> QED
    BY <1>0, <1>1, <1>2, <2>1 DEF Distance
<1>3. CASE k = HalfUp(n) /\ n < 0
  <2>1. k = -up(-n) /\ -n \in Nat
    BY <1>3 DEF HalfUp
  <2>2. PICK m, u : m = -n /\ u = up(m)
    OBVIOUS
  <2>3. u \in Int /\ Fine * u - m < Fine /\ m - Fine * u < Fine
    <3> HIDE DEF up
    <3> QED
      BY <1>1, <2>1, <2>2
  <2>4. k = -u /\ Fine * k = -(Fine * u) /\ Fine * u \in Int
    <3> HIDE DEF up
    <3> QED
      BY <1>0, <2>1, <2>2, <2>3
  <2> QED
    BY <1>0, <1>3, <2>2, <2>3, <2>4 DEF Distance
<1>4. CASE k = HalfToEven(n)
  <2>1. PICK q, r : q = n \div Fine /\ r = n % Fine
    OBVIOUS
  <2>2. q \in Int /\ r \in 0..(Fine - 1) /\ n = Fine * q + r /\ Fine * q \in Int /\ Fine * (q + 1) = Fine * q + Fine
    BY <1>0, <2>1, Dividing
  <2>3. k = q \/ (k = q + 1 /\ r > 0)
    BY <1>0, <1>4, <2>1, <2>2 DEF HalfToEven
  <2> QED
    BY <1>0, <2>2, <2>3 DEF Distance
<1>5. CASE k = Truncated(n) /\ n >= 0
  <2>1. PICK q, r : q = n \div Fine /\ r = n % Fine
    OBVIOUS
  <2>2. q \in Int /\ r \in 0..(Fine - 1) /\ n = Fine * q + r /\ Fine * q \in Int
    BY <1>0, <2>1, Dividing
  <2>3. k = q
    BY <1>5, <2>1 DEF Truncated
  <2> QED
    BY <1>0, <2>2, <2>3 DEF Distance
<1>6. CASE k = Truncated(n) /\ n < 0
  <2>1. PICK q, r : q = (-n) \div Fine /\ r = (-n) % Fine
    OBVIOUS
  <2>2. q \in Int /\ r \in 0..(Fine - 1) /\ -n = Fine * q + r /\ Fine * q \in Int
    BY <1>0, <2>1, Dividing
  <2>3. k = -q /\ Fine * k = -(Fine * q)
    BY <1>0, <1>6, <2>1, <2>2 DEF Truncated
  <2> QED
    BY <1>0, <2>2, <2>3 DEF Distance
<1> QED
  BY <1>2, <1>3, <1>4, <1>5, <1>6

\* What rounding leaves is a whole number of units less than one away, or the amount is a
\* whole number of units that a binary float takes one down.
LEMMA RoundedSays ==
    ASSUME NEW a \in Int, NEW b \in Int, b \in Roundings(a)
    PROVE  /\ 0 \in {a % Fine, b % Fine}
           /\ Distance(a, b) < Fine \/ (Distance(a, b) = Fine /\ {a, b} \cap Inexact # {})
<1>0. Fine \in Nat \ {0}
  BY ValuesAssumption
<1>1. ASSUME NEW k \in {HalfUp(a), HalfToEven(a), Truncated(a)}, b = Fine * k
      PROVE  b % Fine = 0 /\ Distance(a, b) < Fine
  BY <1>0, <1>1, RoundingIsNear, WholeUnits
<1>2. CASE a \in Inexact /\ a % Fine = 0 /\ b \in {a - Fine, a + Fine}
  <2>1. Distance(a, b) = Fine
    BY <1>0, <1>2 DEF Distance
  <2> QED
    BY <1>2, <2>1
<1>3. \/ \E k \in {HalfUp(a), HalfToEven(a), Truncated(a)} : b = Fine * k
      \/ a \in Inexact /\ a % Fine = 0 /\ b \in {a - Fine, a + Fine}
  BY DEF Roundings
<1> QED
  BY <1>1, <1>2, <1>3

-----------------------------------------------------------------------------
(* Labels: times.                                                          *)

\* The smaller and the larger of two numbers are the two.
LEMMA TwoNumbers ==
    ASSUME NEW a \in Int, NEW b \in Int
    PROVE  {Min({a, b}), Max({a, b})} = {a, b}
<1>1. (a <= b /\ Min({a, b}) = a) \/ (b <= a /\ Min({a, b}) = b)
  BY DEF Min
<1>2. (a <= b /\ Max({a, b}) = b) \/ (b <= a /\ Max({a, b}) = a)
  BY DEF Max
<1> QED
  BY <1>1, <1>2

\* A clock reading is taken back to the time it was made from, whichever offset was in force.
LEMMA ReadingIsUndone ==
    ASSUME NEW z \in Zones, NEW b \in Int, NEW a, a = b + OffsetAt(b, z)
    PROVE  b \in ReadAsLocal(a, z)
<1>1. z.before \in Int /\ z.after \in Int /\ z.at \in Int
  BY ValuesAssumption
<1>2. {Min({z.before, z.after}), Max({z.before, z.after})} = {z.before, z.after}
  BY <1>1, TwoNumbers
<1>3. CASE b < z.at
  <2>1. a = b + z.before /\ a < z.at + z.before
    BY <1>1, <1>3 DEF OffsetAt
  <2>2. b = a - (IF a < z.at + z.before THEN z.before ELSE z.after)
    BY <1>1, <2>1
  <2> QED
    BY <1>2, <2>2 DEF ReadAsLocal
<1>4. CASE ~(b < z.at)
  <2>1. a = b + z.after /\ ~(a < z.at + z.after)
    BY <1>1, <1>4 DEF OffsetAt
  <2>2. b = a - (IF a < z.at + z.after THEN z.before ELSE z.after)
    BY <1>1, <2>1
  <2> QED
    BY <1>2, <2>2 DEF ReadAsLocal
<1> QED
  BY <1>3, <1>4

\* What a reading makes of a clock is as far away as one of the zone's offsets.
LEMMA ReadingIsAnOffset ==
    ASSUME NEW z \in Zones, NEW a \in Int, NEW b \in ReadAsLocal(a, z)
    PROVE  /\ Distance(a, b) \in {Distance(z.before, 0), Distance(z.after, 0)}
           /\ Distance(b, a) \in {Distance(z.before, 0), Distance(z.after, 0)}
<1>1. z.before \in Int /\ z.after \in Int
  BY ValuesAssumption
<1>2. b = a - z.before \/ b = a - z.after
  BY DEF ReadAsLocal
<1> QED
  BY <1>1, <1>2 DEF Distance

\* What a time is labelled.
LEMMA TimesAreLabelled ==
    ASSUME NEW a \in Int, NEW b \in Int
    PROVE  /\ Shifted(a, b) <=> Shifted(b, a)
           /\ \A z \in Zones : a = b + OffsetAt(b, z) => Shifted(a, b)
           /\ Shifted(a, b) =>
                 \E z \in Zones : Distance(a, b) \in {Distance(z.before, 0), Distance(z.after, 0)}
<1>1. Shifted(a, b) <=> Shifted(b, a)
  BY DEF Shifted
<1>2. ASSUME NEW z \in Zones, a = b + OffsetAt(b, z) PROVE Shifted(a, b)
  BY <1>2, ReadingIsUndone DEF Shifted
<1>3. ASSUME Shifted(a, b)
      PROVE  \E z \in Zones : Distance(a, b) \in {Distance(z.before, 0), Distance(z.after, 0)}
  BY <1>3, ReadingIsAnOffset DEF Shifted
<1> QED
  BY <1>1, <1>2, <1>3

-----------------------------------------------------------------------------
(* Every label names a mechanism.                                          *)

\* What a label says of two cells that differ.
LabelSays(kind, s, t) ==
    LET a     == s[1]
        b     == t[1]
        label == Classify(kind, s, t)
    IN  /\ label = Classify(kind, t, s)
        /\ NullText \in {s, t} => label = "value_mismatch"
        /\ kind = "ts" /\ NullText \notin {s, t} =>
               /\ \A z \in Zones : a = b + OffsetAt(b, z) => label = "timezone_shift"
               /\ label = "timezone_shift" =>
                      \E z \in Zones : Distance(a, b) \in {Distance(z.before, 0), Distance(z.after, 0)}
        /\ label = "rounding" =>
               /\ 0 \in {a % Fine, b % Fine}
               /\ Distance(a, b) < Fine \/ (Distance(a, b) = Fine /\ {a, b} \cap Inexact # {})
        /\ label \in {"whitespace", "case_only"} => Lowered(Stripped(s)) = Lowered(Stripped(t))

\* Every class says it, whatever the cells.
LEMMA LabelsStand ==
    ASSUME NEW kind \in DOMAIN Cells, NEW s \in Cells[kind], NEW t \in Cells[kind]
    PROVE  LabelSays(kind, s, t)
<1> DEFINE label == Classify(kind, s, t)
           back  == Classify(kind, t, s)
<1>0. kind \in {"ts", "decimal", "text"}
  BY ValuesAssumption
<1>1. CASE NullText \in {s, t}
  <2>1. label = "value_mismatch" /\ back = "value_mismatch"
    BY <1>1 DEF Classify
  <2> QED
    BY <1>1, <2>1 DEF LabelSays
<1>2. CASE NullText \notin {s, t} /\ kind = "ts"
  <2>1. s[1] \in Int /\ t[1] \in Int
    BY <1>2, ValuesAssumption
  <2>2. /\ label = IF Shifted(s[1], t[1]) THEN "timezone_shift" ELSE "value_mismatch"
        /\ back = IF Shifted(t[1], s[1]) THEN "timezone_shift" ELSE "value_mismatch"
    BY <1>2 DEF Classify
  <2>3. /\ Shifted(s[1], t[1]) <=> Shifted(t[1], s[1])
        /\ \A z \in Zones : s[1] = t[1] + OffsetAt(t[1], z) => Shifted(s[1], t[1])
        /\ Shifted(s[1], t[1]) => \E z \in Zones :
              Distance(s[1], t[1]) \in {Distance(z.before, 0), Distance(z.after, 0)}
    BY <2>1, TimesAreLabelled
  <2>4. label \in {"timezone_shift", "value_mismatch"} /\ label = back
    BY <2>2, <2>3
  <2>5. label = "timezone_shift" <=> Shifted(s[1], t[1])
    BY <2>2
  <2> HIDE DEF label, back
  <2> QED
    BY <1>2, <2>3, <2>4, <2>5 DEF LabelSays, label, back
<1>3. CASE NullText \notin {s, t} /\ kind = "decimal"
  <2>1. s[1] \in Int /\ t[1] \in Int
    BY <1>3, ValuesAssumption
  <2>2. /\ label = IF Rounding(s[1], t[1]) THEN "rounding" ELSE "value_mismatch"
        /\ back = IF Rounding(t[1], s[1]) THEN "rounding" ELSE "value_mismatch"
    BY <1>3 DEF Classify
  <2>3. Distance(s[1], t[1]) = Distance(t[1], s[1])
    BY <2>1 DEF Distance
  <2>4. Rounding(s[1], t[1]) <=> Rounding(t[1], s[1])
    BY <2>3 DEF Rounding
  <2>5. Rounding(s[1], t[1]) =>
           /\ 0 \in {s[1] % Fine, t[1] % Fine}
           /\ \/ Distance(s[1], t[1]) < Fine
              \/ Distance(s[1], t[1]) = Fine /\ {s[1], t[1]} \cap Inexact # {}
    <3>1. CASE t[1] \in Roundings(s[1])
      BY <2>1, <3>1, RoundedSays
    <3>2. CASE s[1] \in Roundings(t[1])
      BY <2>1, <2>3, <3>2, RoundedSays
    <3> QED
      BY <3>1, <3>2 DEF Rounding
  <2>6. label \in {"rounding", "value_mismatch"} /\ label = back /\ (label = "rounding" <=> Rounding(s[1], t[1]))
    BY <2>2, <2>4
  <2> HIDE DEF label, back
  <2> QED
    BY <1>3, <2>5, <2>6 DEF LabelSays, label, back
<1>4. CASE NullText \notin {s, t} /\ kind = "text"
  <2>1. s \in Text /\ t \in Text
    BY <1>4, ValuesAssumption, LettersDo
  <2>2. /\ label = IF Stripped(s) = Stripped(t) THEN "whitespace"
                   ELSE IF Lowered(s) = Lowered(t) THEN "case_only" ELSE "value_mismatch"
        /\ back = label
    BY <1>4 DEF Classify
  <2>3. Lowered(s) = Lowered(t) => Lowered(Stripped(s)) = Lowered(Stripped(t))
    BY <2>1, LoweredStrips
  <2>4. label \in {"whitespace", "case_only", "value_mismatch"} /\ label = back
    BY <2>2
  <2>5. label \in {"whitespace", "case_only"} => Lowered(Stripped(s)) = Lowered(Stripped(t))
    BY <2>2, <2>3
  <2> HIDE DEF label, back
  <2> QED
    BY <1>4, <2>4, <2>5 DEF LabelSays, label, back
<1> QED
  BY <1>0, <1>1, <1>2, <1>3, <1>4

\* A question is asked of cells of one column, or of values of the company.
AskedOfValues ==
    /\ input.case = "cell" =>
          input.kind \in DOMAIN Cells /\ input.source \in Cells[input.kind] /\ input.target \in Cells[input.kind]
    /\ input.case = "row" =>
          \E l, r \in Values, p, q \in Policies : input.of = <<l, r>> /\ input.under = <<p, q>>

\* Every question of a behaviour is such a one.
LEMMA QuestionsAreOfValues == PlatformSpec => []AskedOfValues
<1>1. Init => AskedOfValues
  BY DEF Init, None, AskedOfValues
<1>2. AskedOfValues /\ [AskPlatform]_input => AskedOfValues'
  <2> SUFFICES ASSUME AskedOfValues, [AskPlatform]_input PROVE AskedOfValues'
    OBVIOUS
  <2>1. CASE UNCHANGED input
    BY <2>1 DEF AskedOfValues
  <2>2. CASE Check
    BY <2>2 DEF Check, AskedOfValues
  <2>3. CASE Bootstrap
    BY <2>3 DEF Bootstrap, AskedOfValues
  <2>4. CASE Render
    BY <2>4 DEF Render, AskedOfValues
  <2>5. CASE Label
    BY <2>5 DEF Label, AskedOfValues
  <2>6. CASE Simulate
    BY <2>6 DEF Simulate, AskedOfValues
  <2> QED
    BY <2>1, <2>2, <2>3, <2>4, <2>5, <2>6 DEF AskPlatform
<1> QED
  BY <1>1, <1>2, PTL DEF PlatformSpec

\* For any company, policies and lower case: two rows have one rendering exactly when their
\* values are equal column by column under the policy (canonical.py, row_string).
THEOREM RowsTellApart == PlatformSpec => []RowsAreToldApart
<1>1. AskedOfValues => RowsAreToldApart
  <2> SUFFICES ASSUME AskedOfValues, input.case = "row" PROVE RowsAreToldApart
    BY DEF RowsAreToldApart
  <2>1. PICK l \in Values, r \in Values, p \in Policies, q \in Policies :
            input.of = <<l, r>> /\ input.under = <<p, q>>
    BY DEF AskedOfValues
  <2> DEFINE rule(i) == RuleFor(<<p, q>>[i].override, <<p, q>>[i].base)
  <2>2. \A v, w \in Values :
            (CanonicalRow(<<v, w>>, <<p, q>>) = CanonicalRow(<<l, r>>, <<p, q>>))
                <=> (SameValue(v, l, rule(1)) /\ SameValue(w, r, rule(2)))
    <3> SUFFICES ASSUME NEW v \in Values, NEW w \in Values
                 PROVE  (CanonicalRow(<<v, w>>, <<p, q>>) = CanonicalRow(<<l, r>>, <<p, q>>))
                            <=> (SameValue(v, l, rule(1)) /\ SameValue(w, r, rule(2)))
      OBVIOUS
    <3> QED
      BY RowsTell
  <2>3. input.of[1] = l /\ input.of[2] = r
    BY <2>1
  <2> QED
    BY <2>1, <2>2, <2>3 DEF RowsAreToldApart
<1> QED
  BY <1>1, QuestionsAreOfValues, PTL

\* For any zones, scale, inexact decimals and cells: a label names a mechanism that reproduces
\* the value, whichever system is the target (classify.py, classify).
THEOREM LabelsNameMechanisms == PlatformSpec => []LabelNamesTheMechanism
<1>1. AskedOfValues => LabelNamesTheMechanism
  <2> SUFFICES ASSUME AskedOfValues, input.case = "cell" PROVE LabelNamesTheMechanism
    BY DEF LabelNamesTheMechanism
  <2>1. LabelSays(input.kind, input.source, input.target)
    BY LabelsStand DEF AskedOfValues
  <2> QED
    BY <2>1 DEF LabelSays, LabelNamesTheMechanism
<1> QED
  BY <1>1, QuestionsAreOfValues, PTL
=============================================================================
