--------------------------- MODULE IncidentProofs ---------------------------
(***************************************************************************)
(* The theorems about the incident desk and its record, for any project,   *)
(* lineage, runs and invocations.                                          *)
(*                                                                         *)
(* First what one ingest may do to the incidents it finds, in any order of *)
(* arrival: a root for every failed node, an incident for every root, a    *)
(* person for every new incident, the rows after the run is regrouped and  *)
(* after the raises. Then what the store shows when the runs come one      *)
(* after the other, however each is split into invocations: the incidents  *)
(* of a run are those of one build, and the record of the nights adds up.  *)
(***************************************************************************)
EXTENDS IncidentHistory, NumberLemmas, SequenceTheorems

-----------------------------------------------------------------------------
(* The roots of a run.                                                     *)

\* The desk only ever compares nodes of the lineage.
LEMMA SmallestIsOne ==
    ASSUME NEW S \in SUBSET Node, S # {}
    PROVE  Smallest(S) \in S /\ \A m \in S : Rank[Smallest(S)] <= Rank[m]
<1> DEFINE T == {Rank[n] : n \in S}
<1>1. T \subseteq Nat /\ T # {}
  BY GraphAssumption
<1>2. PICK k \in T : \A y \in T : k <= y
  BY <1>1, Least
<1>3. \E n \in S : \A m \in S : Rank[n] <= Rank[m]
  BY <1>2
<1> QED
  BY <1>3 DEF Smallest

\* The nearest failed ancestor, or the node itself when none failed.
Up(failed) == [n \in failed |-> IF Closest(n, failed) = {} THEN n ELSE Smallest(Closest(n, failed))]

\* The nearest failed ancestor is a failed node, and following it once for each failed node
\* leads to the root.
LEMMA RootOfSays ==
    ASSUME NEW failed \in SUBSET Node
    PROVE  /\ Cardinality(failed) \in Nat /\ Up(failed) \in [failed -> failed]
           /\ \E climbed :
                 /\ RootOf(failed) = climbed[Cardinality(failed)]
                 /\ \A k \in 0..Cardinality(failed) : climbed[k] \in [failed -> failed]
                 /\ \A n \in failed : climbed[0][n] = n
                 /\ \A k \in 1..Cardinality(failed) : \A n \in failed :
                       climbed[k][n] = Up(failed)[climbed[k - 1][n]]
<1> DEFINE up == Up(failed)
           N == Cardinality(failed)
           start == [n \in failed |-> n]
           step == [g \in [failed -> failed] |-> [n \in failed |-> up[g[n]]]]
           Ascends(f) == f = [k \in 0..N |-> IF k = 0 THEN start
                                             ELSE [n \in failed |-> up[f[k - 1][n]]]]
<1>1. N \in Nat
  BY FS_Subset, FS_CardinalityType, GraphAssumption
<1>2. up \in [failed -> failed]
  <2>1. ASSUME NEW n \in failed, Closest(n, failed) # {}
        PROVE  Smallest(Closest(n, failed)) \in failed
    <3>1. Closest(n, failed) \in SUBSET failed
      BY DEF Closest
    <3> QED
      BY <2>1, <3>1, SmallestIsOne
  <2> QED
    BY <2>1 DEF Up
<1>3. start \in [failed -> failed] /\ step \in [[failed -> failed] -> [failed -> failed]]
  <2> HIDE DEF up
  <2> QED
    BY <1>2
<1>4. PICK f \in [0..N -> [failed -> failed]] : f[0] = start /\ \A k \in 1..N : f[k] = step[f[k - 1]]
  <2> DEFINE S == [failed -> failed]
  <2>1. start \in S /\ step \in [S -> S] /\ N \in Nat
    BY <1>1, <1>3
  <2> HIDE DEF S, start, step, N, up, Ascends
  <2>2. \E f : Repeats(f, S, start, step, N)
    BY <2>1, Iterates
  <2> QED
    BY <2>2 DEF S, Repeats
<1> HIDE DEF up, N, start
<1>5. Ascends(f)
  <2>1. ASSUME NEW k \in 0..N, k # 0 PROVE f[k] = [n \in failed |-> up[f[k - 1][n]]]
    <3>1. k \in 1..N /\ k - 1 \in 0..N
      BY <1>1, <2>1
    <3>2. f[k] = step[f[k - 1]] /\ f[k - 1] \in [failed -> failed]
      BY <1>4, <3>1
    <3> QED
      BY <3>2
  <2> QED
    BY <1>4, <2>1
<1> DEFINE g == CHOOSE h : Ascends(h)
<1>6. Ascends(g)
  <2> HIDE DEF Ascends
  <2> QED
    BY <1>5
<1>7. RootOf(failed) = g[N]
  BY DEF RootOf, Up, up, N, start
<1> HIDE DEF g, step
<1>8. g[0] = start /\ \A k \in 0..N : k # 0 => g[k] = [n \in failed |-> up[g[k - 1][n]]]
  <2>1. 0 \in 0..N
    BY <1>1
  <2> QED
    BY <1>6, <2>1
<1> HIDE DEF Climbs
<1> DEFINE T == {k \in Nat : k \in 0..N => g[k] \in [failed -> failed]}
<1>9. 0 \in T
  BY <1>3, <1>8
<1>10. ASSUME NEW k \in Nat, k \in T PROVE k + 1 \in T
  <2>1. ASSUME k + 1 \in 0..N PROVE g[k + 1] \in [failed -> failed]
    <3>1. k \in 0..N /\ k + 1 # 0 /\ (k + 1) - 1 = k
      BY <1>1, <2>1
    <3>2. g[k] \in [failed -> failed]
      BY <1>10, <3>1
    <3>3. g[k + 1] = [n \in failed |-> up[g[k][n]]]
      BY <1>8, <2>1, <3>1
    <3> QED
      BY <1>2, <3>2, <3>3
  <2> QED
    BY <2>1
<1>11. Nat \subseteq T
  <2> HIDE DEF T
  <2> QED
    BY <1>9, <1>10, EveryNumber
<1>12. \A k \in 0..N : g[k] \in [failed -> failed]
  BY <1>1, <1>11
<1>13. \A k \in 1..N : \A n \in failed : g[k][n] = up[g[k - 1][n]]
  <2> SUFFICES ASSUME NEW k \in 1..N, NEW n \in failed PROVE g[k][n] = up[g[k - 1][n]]
    OBVIOUS
  <2>1. k \in 0..N /\ k # 0
    BY <1>1
  <2>2. g[k] = [m \in failed |-> up[g[k - 1][m]]]
    BY <1>8, <2>1
  <2> QED
    BY <2>2
<1>14. \A n \in failed : g[0][n] = n
  BY <1>8 DEF start
<1> QED
  BY <1>1, <1>2, <1>7, <1>12, <1>13, <1>14 DEF up, N

\* The root is a failed node.
LEMMA RootsAreFailed ==
    ASSUME NEW failed \in SUBSET Node
    PROVE  RootOf(failed) \in [failed -> failed]
<1>1. Cardinality(failed) \in 0..Cardinality(failed)
  BY RootOfSays
<1> QED
  BY <1>1, RootOfSays

\* A call detects what it brings when the last of it was detected.
LEMMA DetectedIsOfAPiece ==
    ASSUME NEW t \in Target, Fresh(t) # {}
    PROVE  \E i \in Fresh(t) : At[i] = Detected(t)
<1> DEFINE T == {At[i] : i \in Fresh(t)}
<1>1. Fresh(t) \in SUBSET Invocation
  BY DeskAssumption DEF Fresh
<1>2. T \subseteq Nat /\ T # {}
  BY <1>1, DeskAssumption
<1>3. IsFiniteSet(T)
  <2>1. IsFiniteSet(Fresh(t))
    BY <1>1, FS_Subset, PolicyAssumption
  <2>2. [i \in Fresh(t) |-> At[i]] \in Surjection(Fresh(t), T)
    BY DEF Surjection
  <2> QED
    BY <2>1, <2>2, FS_Surjection
<1>4. \E x \in T : \A y \in T : y <= x
  BY <1>2, <1>3, Greatest
<1>5. Latest(T) \in T
  <2> HIDE DEF T
  <2> QED
    BY <1>4 DEF Latest
<1> QED
  BY <1>5 DEF Detected

\* So it is a time at which something was detected.
LEMMA DetectedIsATime ==
    ASSUME NEW t \in Target, Fresh(t) # {}
    PROVE  Detected(t) \in Times
BY DetectedIsOfAPiece, DeskAssumption DEF Fresh, Times

\* What a call sees: the rows of the store, and for the failed nodes of its run, roots
\* that are failed nodes too.
LEMMA ViewSays ==
    ASSUME NEW t \in Target, NEW v, v = ViewOf(t)
    PROVE  /\ v.incs = incidents /\ v.run = t.run /\ v.at = Detected(t)
           /\ v.events = {n \in Node : "bad" \in Reported(t.run, Ran(t), n)}
           /\ DOMAIN v.rootOf = {Subject[n] : n \in v.events}
           /\ v.rootOf \in [DOMAIN v.rootOf -> DOMAIN v.rootOf]
           /\ Roots(v) \subseteq DOMAIN v.rootOf
           /\ DOMAIN v.rootOf \subseteq Node /\ IsFiniteSet(Roots(v))
<1>1. /\ v.incs = incidents /\ v.run = t.run /\ v.at = Detected(t)
      /\ v.events = {n \in Node : "bad" \in Reported(t.run, Ran(t), n)}
      /\ v.rootOf = RootOf({Subject[n] : n \in v.events})
  BY DEF ViewOf, View
<1> DEFINE failed == {Subject[n] : n \in v.events}
<1>2. failed \in SUBSET Node
  BY <1>1, DeskAssumption
<1>3. v.rootOf \in [failed -> failed]
  <2>1. RootOf(failed) \in [failed -> failed]
    <3> HIDE DEF failed
    <3> QED
      BY <1>2, RootsAreFailed
  <2> QED
    BY <1>1, <2>1
<1>4. Roots(v) \in SUBSET failed
  BY <1>3 DEF Roots
<1>5. IsFiniteSet(Roots(v))
  BY <1>2, <1>4, FS_Subset, GraphAssumption
<1> QED
  BY <1>1, <1>2, <1>3, <1>4, <1>5

-----------------------------------------------------------------------------
(* The incident of each root.                                              *)

\* The incidents are numbered from 1 without a gap.
Numbered(incs) == Len(incs) \in Nat /\ DOMAIN incs = 1..Len(incs)

\* The smallest number of a set is one of them.
LEMMA FirstIsOne ==
    ASSUME NEW S, S \subseteq Nat, S # {}
    PROVE  First(S) \in S /\ \A i \in S : First(S) <= i
BY Least DEF First

\* A root is matched to an incident that the run may append to, or to one of its own
\* that has this root.
LEMMA MatchIs ==
    ASSUME NEW v, Numbered(v.incs), NEW root
    PROVE  \/ Match(v, root) = 0
           \/ Match(v, root) \in Before(v)
           \/ Match(v, root) \in Mine(v) /\ v.incs[Match(v, root)].root = root
<1> DEFINE before == Before(v)
           rules == <<{i \in before : v.incs[i].root = root},
                      {i \in before : v.incs[i].root \in FailedNodes(v, root)},
                      {i \in before : root \in Above[v.incs[i].root]},
                      {i \in before : /\ v.incs[i].root \in Above[root]
                                      /\ ~Covered(v, v.incs[i].root)},
                      {i \in Mine(v) : v.incs[i].root = root}>>
           fitting == {k \in DOMAIN rules : rules[k] # {}}
           m == Match(v, root)
<1>1. before \subseteq Nat /\ Mine(v) \subseteq Nat
  BY DEF Before, Mine, Numbered
<1>2. /\ DOMAIN rules = 1..5 /\ \A k \in 1..4 : rules[k] \subseteq before
      /\ rules[5] = {i \in Mine(v) : v.incs[i].root = root}
  <2> HIDE DEF before
  <2> QED
    OBVIOUS
<1>3. m = IF fitting = {} THEN 0 ELSE First(rules[First(fitting)])
  BY DEF Match
<1> HIDE DEF before, rules, m
<1>4. CASE fitting # {}
  <2>1. fitting \subseteq Nat
    BY <1>2
  <2>2. First(fitting) \in fitting
    <3> HIDE DEF fitting
    <3> QED
      BY <1>4, <2>1, FirstIsOne
  <2> DEFINE k == First(fitting)
  <2>3. k \in 1..5 /\ rules[k] # {}
    BY <1>2, <2>2
  <2> HIDE DEF k, fitting
  <2>4. rules[k] \subseteq Nat
    <3>1. CASE k \in 1..4
      BY <1>1, <1>2, <3>1
    <3>2. CASE k = 5
      BY <1>1, <1>2, <3>2
    <3> QED
      BY <2>3, <3>1, <3>2
  <2>5. First(rules[k]) \in rules[k]
    BY <2>3, <2>4, FirstIsOne
  <2>6. m \in rules[k]
    BY <1>3, <1>4, <2>5 DEF k
  <2>7. CASE k \in 1..4
    BY <1>2, <2>6, <2>7 DEF before, m
  <2>8. CASE k = 5
    BY <1>2, <2>6, <2>8 DEF m
  <2> QED
    BY <2>3, <2>7, <2>8
<1> QED
  BY <1>3, <1>4 DEF m

\* What an assignment says: the incident of a root is one of the store that the root
\* fits, or a new one; the new ones are numbered on, one for each root that opens.
Assigns(v, assigned) ==
    LET new == Opened(v, assigned)
        next == (Len(v.incs) + 1)..(Len(v.incs) + Cardinality(new))
    IN  /\ DOMAIN assigned = Roots(v) /\ IsFiniteSet(new) /\ Cardinality(new) \in Nat
        /\ \A r \in Roots(v) \ new :
              \/ assigned[r] \in Before(v)
              \/ assigned[r] \in Mine(v) /\ v.incs[assigned[r]].root = r
        /\ \A r \in new : assigned[r] \in next
        /\ \A q, r \in new : assigned[q] = assigned[r] => q = r
        /\ \A i \in next : \E r \in new : assigned[r] = i

\* The assignment says so.
LEMMA AssignmentSays ==
    ASSUME NEW v, Numbered(v.incs), Roots(v) \subseteq Node, IsFiniteSet(Roots(v))
    PROVE  Assigns(v, Assignment(v))
<1> DEFINE match == [r \in Roots(v) |-> Match(v, r)]
           new == {r \in Roots(v) : match[r] = 0}
           place == [r \in new |-> Cardinality({n \in new : Rank[n] <= Rank[r]})]
           assigned == Assignment(v)
<1>1. Len(v.incs) \in Nat /\ DOMAIN v.incs = 1..Len(v.incs)
  BY DEF Numbered
<1>2. \A r \in Roots(v) :
         \/ r \in new
         \/ Match(v, r) \in Before(v)
         \/ Match(v, r) \in Mine(v) /\ v.incs[Match(v, r)].root = r
  BY MatchIs
<1>3. new \in SUBSET Roots(v) /\ new \subseteq Node
  OBVIOUS
<1>4. IsFiniteSet(new) /\ Cardinality(new) \in Nat
  <2> HIDE DEF new
  <2> QED
    BY <1>3, FS_Subset, FS_CardinalityType
<1>5. /\ DOMAIN assigned = Roots(v)
      /\ \A r \in new : assigned[r] = Len(v.incs) + place[r]
      /\ \A r \in Roots(v) \ new : assigned[r] = Match(v, r)
  BY DEF Assignment
<1>6. place = [r \in new |-> Cardinality({n \in new : Rank[n] <= Rank[r]})]
  OBVIOUS
<1> HIDE DEF place, assigned, new
<1>7. /\ \A r \in new : place[r] \in 1..Cardinality(new)
      /\ \A q, r \in new : place[q] = place[r] => q = r
      /\ \A i \in 1..Cardinality(new) : \E r \in new : place[r] = i
  <2>1. /\ \A r \in new : Rank[r] \in Nat
        /\ \A q, r \in new : Rank[q] = Rank[r] => q = r
    BY <1>3, GraphAssumption
  <2>2. place \in [new -> 1..Cardinality(new)]
    BY <1>4, <1>6, <2>1, Places
  <2>3. /\ \A q, r \in new : place[q] = place[r] => q = r
        /\ \A i \in 1..Cardinality(new) : \E r \in new : place[r] = i
    BY <1>4, <1>6, <2>1, Places
  <2> QED
    BY <2>2, <2>3
<1>8. \A r \in Roots(v) \ new : assigned[r] \in 1..Len(v.incs)
  BY <1>1, <1>2, <1>5 DEF Before, Mine
<1>9. new = Opened(v, assigned)
  <2>1. \A r \in new : assigned[r] > Len(v.incs)
    BY <1>1, <1>4, <1>5, <1>7
  <2>2. \A r \in Roots(v) \ new : ~(assigned[r] > Len(v.incs))
    BY <1>1, <1>8
  <2> QED
    BY <1>3, <2>1, <2>2 DEF Opened
<1> DEFINE next == (Len(v.incs) + 1)..(Len(v.incs) + Cardinality(new))
<1>10. /\ \A r \in new : assigned[r] \in next
       /\ \A q, r \in new : assigned[q] = assigned[r] => q = r
  BY <1>1, <1>4, <1>5, <1>7
<1>11. \A i \in next : \E r \in new : assigned[r] = i
  <2> SUFFICES ASSUME NEW i \in next PROVE \E r \in new : assigned[r] = i
    OBVIOUS
  <2>1. i - Len(v.incs) \in 1..Cardinality(new)
    BY <1>1, <1>4
  <2>2. PICK r \in new : place[r] = i - Len(v.incs)
    BY <1>7, <2>1
  <2>3. assigned[r] = i
    BY <1>1, <1>5, <2>2
  <2> QED
    BY <2>3
<1>12. \A r \in Roots(v) \ new :
          \/ assigned[r] \in Before(v)
          \/ assigned[r] \in Mine(v) /\ v.incs[assigned[r]].root = r
  BY <1>2, <1>5
<1> HIDE DEF next
<1>13. Assigns(v, assigned)
  BY <1>4, <1>5, <1>9, <1>10, <1>11, <1>12 DEF Assigns, next
<1> QED
  BY <1>13 DEF assigned

-----------------------------------------------------------------------------
(* Who is paged.                                                           *)

\* Each new incident pages one person. Who is paged for a root depends on who is paged
\* for the roots before it: going through the roots once more per root settles it.
LEMMA PagedIsSomebody ==
    ASSUME NEW v, NEW assigned, Assigns(v, assigned), Roots(v) \subseteq Node
    PROVE  Paged(v, assigned) \in [Opened(v, assigned) -> Person]
<1> DEFINE new == Opened(v, assigned)
           reopenedBefore(r) ==
              {i \in Appended(v, assigned) :
                  \E q \in Roots(v) : assigned[q] = i /\ Rank[q] < Rank[r]}
           busy(r) ==
              {i \in DOMAIN v.incs :
                  /\ Live(v.incs[i]) /\ v.incs[i].paged = Owner[r]
                  /\ \/ v.incs[i].resolvedBy = NoRun
                     \/ v.incs[i].resolvedAt > v.at
                     \/ i \in reopenedBefore(r)}
           earlier(f, r) == {q \in new : Rank[q] < Rank[r] /\ f[q] = Owner[r]}
           pick(f, r) ==
              IF /\ Backup[r] # NoBackup
                 /\ Cardinality(busy(r)) + Cardinality(earlier(f, r)) >= MaxOpenPerPerson
              THEN Backup[r] ELSE Owner[r]
           Picks(f) == f = [r \in new |-> pick(f, r)]
           who == CHOOSE f : Picks(f)
           N == Cardinality(new)
           place == [r \in new |-> Cardinality({q \in new : Rank[q] <= Rank[r]})]
           start == [r \in new |-> Owner[r]]
           step == [f \in [new -> Person] |-> [r \in new |-> pick(f, r)]]
<1>1. Paged(v, assigned) = [r \in new |-> who[r]]
  BY DEF Paged
<1>2. new \subseteq Node /\ IsFiniteSet(new) /\ N \in Nat
  <2>1. new \subseteq Roots(v)
    BY DEF Opened
  <2> QED
    BY <2>1 DEF Assigns
<1>3. /\ place \in [new -> 1..N]
      /\ \A q, r \in new : Rank[q] < Rank[r] => place[q] < place[r]
  <2>1. place = [r \in new |-> Cardinality({q \in new : Rank[q] <= Rank[r]})]
    OBVIOUS
  <2> HIDE DEF place, new
  <2>2. /\ \A r \in new : Rank[r] \in Nat
        /\ \A q, r \in new : Rank[q] = Rank[r] => q = r
    BY <1>2, GraphAssumption
  <2> QED
    BY <1>2, <2>1, <2>2, Places
<1> HIDE DEF place, N, new, busy
<1>4. \A f : \A r \in new : pick(f, r) \in Person
  BY <1>2, DeskAssumption
<1>5. start \in [new -> Person]
  BY <1>2, DeskAssumption
<1> HIDE DEF pick
<1>6. step \in [[new -> Person] -> [new -> Person]]
  BY <1>4
<1>7. PICK f : /\ f \in [0..(N + 1) -> [new -> Person]]
               /\ \A k \in 1..(N + 1) : f[k] = step[f[k - 1]]
  <2> DEFINE S == [new -> Person]
  <2>1. start \in S /\ step \in [S -> S] /\ N + 1 \in Nat
    BY <1>2, <1>5, <1>6
  <2> HIDE DEF S, start, step
  <2>2. \E f : Repeats(f, S, start, step, N + 1)
    BY <2>1, Iterates
  <2> QED
    BY <2>2 DEF S, Repeats
<1>8. \A k \in 1..(N + 1) : f[k] = [r \in new |-> pick(f[k - 1], r)]
  <2> SUFFICES ASSUME NEW k \in 1..(N + 1) PROVE f[k] = [r \in new |-> pick(f[k - 1], r)]
    OBVIOUS
  <2>1. k - 1 \in 0..(N + 1)
    BY <1>2
  <2> QED
    BY <1>7, <2>1
<1> HIDE DEF step, start
<1> DEFINE T == {k \in Nat : k <= N => \A r \in new : place[r] <= k => f[k][r] = f[k + 1][r]}
<1>9. 0 \in T
  <2>1. \A r \in new : ~(place[r] <= 0)
    BY <1>2, <1>3
  <2> QED
    BY <2>1
<1>10. ASSUME NEW k \in Nat, k \in T PROVE k + 1 \in T
  <2> SUFFICES ASSUME k + 1 <= N, NEW r \in new, place[r] <= k + 1
               PROVE  f[k + 1][r] = f[(k + 1) + 1][r]
    OBVIOUS
  <2>1. k + 1 \in 1..(N + 1) /\ (k + 1) - 1 = k /\ k <= N
    BY <1>2
  <2>2. (k + 1) + 1 \in 1..(N + 1) /\ ((k + 1) + 1) - 1 = k + 1
    BY <1>2
  <2>3. f[k + 1][r] = pick(f[k], r)
    BY <1>8, <2>1
  <2>4. f[(k + 1) + 1][r] = pick(f[k + 1], r)
    BY <1>8, <2>2
  <2>5. \A q \in new : Rank[q] < Rank[r] => f[k][q] = f[k + 1][q]
    <3> SUFFICES ASSUME NEW q \in new, Rank[q] < Rank[r] PROVE f[k][q] = f[k + 1][q]
      OBVIOUS
    <3>1. place[q] < place[r] /\ place[q] \in Nat /\ place[r] \in Nat
      BY <1>2, <1>3
    <3>2. place[q] <= k
      BY <3>1
    <3> QED
      BY <1>10, <2>1, <3>2
  <2>6. earlier(f[k], r) = earlier(f[k + 1], r)
    BY <2>5
  <2> HIDE DEF earlier
  <2>7. pick(f[k], r) = pick(f[k + 1], r)
    BY <2>6 DEF pick
  <2> QED
    BY <2>3, <2>4, <2>7
<1>11. Nat \subseteq T
  <2> HIDE DEF T
  <2> QED
    BY <1>9, <1>10, EveryNumber
<1>12. Picks(f[N])
  <2>1. N \in T /\ \A r \in new : place[r] <= N
    BY <1>2, <1>3, <1>11
  <2>2. \A r \in new : f[N][r] = f[N + 1][r]
    BY <1>2, <2>1
  <2>3. N + 1 \in 1..(N + 1) /\ (N + 1) - 1 = N /\ N \in 0..(N + 1)
    BY <1>2
  <2>4. f[N + 1] = [r \in new |-> pick(f[N], r)]
    BY <1>8, <2>3
  <2>5. f[N] \in [new -> Person]
    BY <1>7, <2>3
  <2>6. f[N] = [r \in new |-> pick(f[N], r)]
    BY <2>2, <2>4, <2>5
  <2> QED
    BY <2>6
<1>13. Picks(who)
  <2> HIDE DEF Picks
  <2> QED
    BY <1>12
<1> HIDE DEF who
<1>14. \A r \in new : who[r] \in Person
  BY <1>4, <1>13
<1> QED
  BY <1>1, <1>14 DEF new

-----------------------------------------------------------------------------
(* The rows after the run is regrouped, and after the raises.              *)

\* A function on 1..n is a sequence of length n.
LEMMA NumberedFunction ==
    ASSUME NEW n \in Nat, NEW f, f = [i \in 1..n |-> f[i]]
    PROVE  Len(f) = n /\ DOMAIN f = 1..n
<1> DEFINE T == {f[i] : i \in 1..n}
<1>1. f \in [1..n -> T]
  OBVIOUS
<1>2. f \in Seq(T)
  BY <1>1
<1>3. DOMAIN f = 1..Len(f) /\ Len(f) \in Nat
  BY <1>2, LenProperties
<1>4. DOMAIN f = 1..n
  OBVIOUS
<1> QED
  BY <1>3, <1>4

\* A reopened incident keeps its other columns.
LEMMA ReopenIs ==
    ASSUME NEW inc \in Incident
    PROVE  /\ Reopen(inc) \in Incident /\ Reopen(inc).resolvedBy = NoRun
           /\ Reopen(inc).root = inc.root /\ Reopen(inc).openedAt = inc.openedAt
           /\ Reopen(inc).openedBy = inc.openedBy /\ Reopen(inc).mergedInto = inc.mergedInto
           /\ Reopen(inc).severity = inc.severity
BY DEF Reopen, Incident

\* What regrouping a run may make of an incident it finds.
Untouched(v, i, after) == after[i] = v.incs[i]
Reopened(v, i, after) == i \in Before(v) /\ after[i] = Reopen(v.incs[i])
MergedAway(v, assigned, i, after) ==
    /\ i \in Merged(v, assigned)
    /\ \E r \in Roots(v) : after[i] = [v.incs[i] EXCEPT !.mergedInto = assigned[r]]
NowResolved(v, assigned, i, after) ==
    /\ i \in Resolved(v, assigned)
    /\ after[i] = [v.incs[i] EXCEPT !.resolvedAt = v.at, !.resolvedBy = v.run]

\* What the view of an ingest is like.
IsView(v) ==
    /\ Numbered(v.incs) /\ \A i \in DOMAIN v.incs : v.incs[i] \in Incident
    /\ v.run \in Run /\ v.run # NoRun /\ v.at \in Times
    /\ v.rootOf \in [DOMAIN v.rootOf -> DOMAIN v.rootOf]
    /\ Roots(v) \subseteq DOMAIN v.rootOf /\ DOMAIN v.rootOf \subseteq Node
    /\ \A i \in Mine(v) : v.incs[i].root \in DOMAIN v.rootOf

\* Regrouping a run keeps every row, changes an older row in one of four ways, and
\* appends a new row for each root that opens.
LEMMA RegroupedRows ==
    ASSUME NEW v, NEW assigned, IsView(v), Assigns(v, assigned),
           NEW after, after = Regrouped(v, assigned)
    PROVE  /\ Numbered(after) /\ Len(after) = Len(v.incs) + Cardinality(Opened(v, assigned))
           /\ \A i \in DOMAIN v.incs :
                 \/ Untouched(v, i, after) \/ Reopened(v, i, after)
                 \/ MergedAway(v, assigned, i, after) \/ NowResolved(v, assigned, i, after)
           /\ \A r \in Opened(v, assigned) :
                 after[assigned[r]] = NewIncident(v, r, Paged(v, assigned)[r])
<1> DEFINE new == Opened(v, assigned)
           n == Len(v.incs) + Cardinality(new)
<1>1. n \in Nat /\ Len(v.incs) \in Nat /\ DOMAIN v.incs = 1..Len(v.incs) /\ Len(v.incs) <= n
  BY DEF IsView, Numbered, Assigns
<1>2. after = [i \in 1..n |-> after[i]]
  BY DEF Regrouped
<1>3. Numbered(after) /\ DOMAIN after = 1..n /\ Len(after) = n
  <2> HIDE DEF n
  <2> QED
    BY <1>1, <1>2, NumberedFunction DEF Numbered
<1>4. ASSUME NEW i \in DOMAIN v.incs
      PROVE  \/ Untouched(v, i, after) \/ Reopened(v, i, after)
             \/ MergedAway(v, assigned, i, after) \/ NowResolved(v, assigned, i, after)
  <2>0. i \in 1..n /\ ~(i > Len(v.incs))
    BY <1>1
  <2>1. CASE i \in Appended(v, assigned)
    BY <2>0, <2>1 DEF Regrouped, Reopened, Appended
  <2>2. CASE i \notin Appended(v, assigned) /\ i \in Merged(v, assigned)
    <3>1. v.rootOf[v.incs[i].root] \in Roots(v)
      BY <2>2 DEF IsView, Merged, Roots
    <3>2. after[i] = [v.incs[i] EXCEPT !.mergedInto = assigned[v.rootOf[v.incs[i].root]]]
      BY <2>0, <2>2 DEF Regrouped
    <3> QED
      BY <2>2, <3>1, <3>2 DEF MergedAway
  <2>3. CASE i \notin Appended(v, assigned) /\ i \notin Merged(v, assigned) /\ i \in Before(v)
    <3>1. after[i] = Settle(v, v.incs[i]) /\ i \notin Taken(v, assigned)
      BY <2>0, <2>3 DEF Regrouped, Appended
    <3> QED
      BY <2>3, <3>1 DEF Settle, Untouched, Reopened, NowResolved, Resolved
  <2>4. CASE i \notin Appended(v, assigned) /\ i \notin Merged(v, assigned) /\ i \notin Before(v)
    BY <2>0, <2>4 DEF Regrouped, Untouched
  <2> QED
    BY <2>1, <2>2, <2>3, <2>4
<1>5. ASSUME NEW r \in new
      PROVE  after[assigned[r]] = NewIncident(v, r, Paged(v, assigned)[r])
  <2> DEFINE i == assigned[r]
             q == CHOOSE x \in new : assigned[x] = i
  <2>1. i \in (Len(v.incs) + 1)..n
    BY DEF Assigns
  <2>2. i \in 1..n /\ i > Len(v.incs)
    BY <1>1, <2>1
  <2>3. after[i] = NewIncident(v, q, Paged(v, assigned)[q])
    BY <2>2 DEF Regrouped
  <2>4. q \in new /\ assigned[q] = assigned[r]
    OBVIOUS
  <2> HIDE DEF q, i
  <2>5. q = r
    BY <2>4 DEF Assigns
  <2> QED
    BY <2>3, <2>5 DEF i
<1> QED
  BY <1>3, <1>4, <1>5

\* The regrouped rows are rows of the incidents table; the incident that a root is given
\* is one of them, and it is live.
LEMMA RegroupedAreIncidents ==
    ASSUME NEW v, NEW assigned, IsView(v), Assigns(v, assigned),
           NEW after, after = Regrouped(v, assigned)
    PROVE  /\ DOMAIN v.incs \subseteq DOMAIN after
           /\ \A i \in DOMAIN after : after[i] \in Incident
           /\ \A r \in Roots(v) : assigned[r] \in DOMAIN after /\ Live(after[assigned[r]])
           /\ \A i \in DOMAIN after \ DOMAIN v.incs : \E r \in Opened(v, assigned) : assigned[r] = i
<1> DEFINE new == Opened(v, assigned)
<1>1. /\ Len(v.incs) \in Nat /\ DOMAIN v.incs = 1..Len(v.incs) /\ Cardinality(new) \in Nat
      /\ DOMAIN after = 1..(Len(v.incs) + Cardinality(new))
  <2>1. Numbered(after) /\ Len(after) = Len(v.incs) + Cardinality(new)
    BY RegroupedRows
  <2> QED
    BY <2>1 DEF IsView, Numbered, Assigns
<1>2. DOMAIN v.incs \subseteq DOMAIN after
  BY <1>1
<1>3. \A i \in DOMAIN after \ DOMAIN v.incs : \E r \in new : assigned[r] = i
  <2>1. DOMAIN after \ DOMAIN v.incs = (Len(v.incs) + 1)..(Len(v.incs) + Cardinality(new))
    BY <1>1
  <2> QED
    BY <2>1 DEF Assigns
<1>4. \A r \in Roots(v) : assigned[r] \in DOMAIN after
  <2>1. \A r \in new : assigned[r] \in DOMAIN after
    BY <1>1 DEF Assigns
  <2>2. \A r \in Roots(v) \ new : assigned[r] \in DOMAIN v.incs
    BY DEF Assigns, Before, Mine
  <2> QED
    BY <1>2, <2>1, <2>2
<1>5. \A r \in new : /\ after[assigned[r]] \in Incident
                     /\ Live(after[assigned[r]])
  <2> SUFFICES ASSUME NEW r \in new
               PROVE  after[assigned[r]] \in Incident /\ Live(after[assigned[r]])
    OBVIOUS
  <2>1. after[assigned[r]] = NewIncident(v, r, Paged(v, assigned)[r])
    BY RegroupedRows
  <2>2. Paged(v, assigned)[r] \in Person
    BY PagedIsSomebody DEF IsView
  <2>3. r \in Node /\ v.at \in Nat /\ Scored[r] \in Severity
    BY DeskAssumption DEF IsView, Opened, Times
  <2> QED
    BY <2>1, <2>2, <2>3 DEF NewIncident, Incident, Live, IsView
<1>6. \A i \in DOMAIN v.incs : after[i] \in Incident
  <2> SUFFICES ASSUME NEW i \in DOMAIN v.incs PROVE after[i] \in Incident
    OBVIOUS
  <2>0. v.incs[i] \in Incident /\ v.at \in Nat /\ v.run \in Run
    BY DeskAssumption DEF IsView, Times
  <2>1. CASE Untouched(v, i, after)
    BY <2>0, <2>1 DEF Untouched
  <2>2. CASE Reopened(v, i, after)
    BY <2>0, <2>2, ReopenIs DEF Reopened
  <2>3. CASE MergedAway(v, assigned, i, after)
    <3>1. \A r \in Roots(v) : assigned[r] \in Nat
      BY <1>1, <1>4
    <3>2. PICK r \in Roots(v) : after[i] = [v.incs[i] EXCEPT !.mergedInto = assigned[r]]
      BY <2>3 DEF MergedAway
    <3> QED
      BY <2>0, <3>1, <3>2 DEF Incident
  <2>4. CASE NowResolved(v, assigned, i, after)
    <3>1. after[i] = [v.incs[i] EXCEPT !.resolvedAt = v.at, !.resolvedBy = v.run]
      BY <2>4 DEF NowResolved
    <3> QED
      BY <2>0, <3>1 DEF Incident
  <2> QED
    BY <2>1, <2>2, <2>3, <2>4, RegroupedRows
<1>7. \A i \in DOMAIN after : after[i] \in Incident
  BY <1>3, <1>5, <1>6
<1>8. \A r \in Roots(v) \ new : Live(after[assigned[r]])
  <2> SUFFICES ASSUME NEW r \in Roots(v) \ new PROVE Live(after[assigned[r]])
    OBVIOUS
  <2> DEFINE i == assigned[r]
  <2>1. i \in DOMAIN v.incs /\ Live(v.incs[i]) /\ i \notin Merged(v, assigned)
    BY DEF Assigns, Before, Mine, Merged, Taken
  <2>2. v.incs[i] \in Incident
    BY <2>1 DEF IsView
  <2>3. Untouched(v, i, after) \/ Reopened(v, i, after) \/ NowResolved(v, assigned, i, after)
    BY <2>1, RegroupedRows DEF MergedAway
  <2> HIDE DEF i
  <2>4. Live(after[i])
    BY <2>1, <2>2, <2>3 DEF Untouched, Reopened, NowResolved, Reopen, Live, Incident
  <2> QED
    BY <2>4 DEF i
<1> QED
  BY <1>2, <1>3, <1>4, <1>5, <1>7, <1>8

\* An incident is raised by fewer levels than its severity: SEV1 is the last.
LEMMA RaisesAreFew ==
    ASSUME NEW inc \in Incident, NEW at \in Times, NEW i
    PROVE  /\ Due(i, inc, at) \subseteq Nat /\ IsFiniteSet(Due(i, inc, at))
           /\ Raises(i, inc, at) \subseteq Due(i, inc, at)
           /\ Cardinality(Raises(i, inc, at)) \in Nat
           /\ Cardinality(Raises(i, inc, at)) < inc.severity
<1> DEFINE due == Due(i, inc, at)
           raises == Raises(i, inc, at)
           windows == OpenWindows[inc.root][at]
           upTo(k) == {j \in due : j <= k}
<1>1. /\ inc.severity \in Nat /\ inc.severity >= 1
      /\ Len(windows) \in Nat /\ DOMAIN windows = 1..Len(windows)
  <2>1. inc.root \in Node /\ inc.severity \in Severity
    BY DEF Incident
  <2>2. OpenWindows[inc.root][at] \in Seq({"window"} \X Nat)
    BY <2>1, DeskAssumption
  <2> QED
    BY <2>1, <2>2 DEF Severity
<1>2. due \subseteq {0} \cup DOMAIN windows
  BY DEF Due
<1> HIDE DEF windows, due
<1>3. due \subseteq Nat
  BY <1>1, <1>2
<1>4. IsFiniteSet(due)
  <2>1. due \in SUBSET (0..Len(windows))
    BY <1>1, <1>2
  <2>2. IsFiniteSet(0..Len(windows))
    BY <1>1, FS_Interval
  <2> QED
    BY <2>1, <2>2, FS_Subset
<1>5. raises \subseteq due /\ \A k \in raises : Cardinality(upTo(k)) < inc.severity
  BY DEF Raises, due
<1>6. IsFiniteSet(raises) /\ Cardinality(raises) \in Nat
  BY <1>4, <1>5, FS_Subset, FS_CardinalityType
<1> HIDE DEF raises
<1>7. raises # {} => Cardinality(raises) < inc.severity
  <2> SUFFICES ASSUME raises # {} PROVE Cardinality(raises) < inc.severity
    OBVIOUS
  <2>1. PICK k \in raises : \A j \in raises : j <= k
    <3>1. raises \subseteq Nat
      BY <1>3, <1>5
    <3> QED
      BY <1>6, <3>1, Greatest
  <2>2. raises \in SUBSET upTo(k) /\ upTo(k) \in SUBSET due
    BY <1>5, <2>1
  <2>3. Cardinality(upTo(k)) < inc.severity
    BY <1>5
  <2> HIDE DEF upTo
  <2>4. IsFiniteSet(upTo(k))
    BY <1>4, <2>2, FS_Subset
  <2>5. Cardinality(raises) <= Cardinality(upTo(k)) /\ Cardinality(upTo(k)) \in Nat
    BY <2>2, <2>4, FS_Subset, FS_CardinalityType
  <2> QED
    BY <1>1, <1>6, <2>3, <2>5
<1>8. raises = {} => Cardinality(raises) < inc.severity
  <2>1. Cardinality({}) = 0
    BY FS_EmptySet
  <2> QED
    BY <1>1, <2>1
<1>9. Cardinality(raises) < inc.severity
  BY <1>7, <1>8
<1> QED
  BY <1>3, <1>4, <1>5, <1>6, <1>9 DEF due, raises

\* Raising changes severities only, and only those of open incidents.
LEMMA EscalatedRows ==
    ASSUME NEW incs, Numbered(incs), \A i \in DOMAIN incs : incs[i] \in Incident,
           NEW at \in Times, NEW after, after = Escalated(incs, at)
    PROVE  /\ Numbered(after) /\ DOMAIN after = DOMAIN incs
           /\ \A i \in DOMAIN incs :
                 /\ after[i] \in Incident
                 /\ after[i] = [incs[i] EXCEPT !.severity =
                                  incs[i].severity - Cardinality(Raises(i, incs[i], at))]
                 /\ ~Open(incs[i]) => after[i] = incs[i]
<1>1. DOMAIN after = DOMAIN incs /\ after = [i \in 1..Len(incs) |-> after[i]]
  BY DEF Escalated, Numbered
<1>2. Numbered(after)
  BY <1>1, NumberedFunction DEF Numbered
<1>3. ASSUME NEW i \in DOMAIN incs
      PROVE  /\ after[i] \in Incident
             /\ after[i] = [incs[i] EXCEPT !.severity =
                              incs[i].severity - Cardinality(Raises(i, incs[i], at))]
             /\ ~Open(incs[i]) => after[i] = incs[i]
  <2> DEFINE inc == incs[i]
             up == Cardinality(Raises(i, inc, at))
  <2>1. after[i] = [inc EXCEPT !.severity = inc.severity - up]
    BY DEF Escalated
  <2>2. inc \in Incident /\ up \in Nat /\ up < inc.severity
    BY RaisesAreFew
  <2>3. ~Open(inc) => up = 0
    <3>1. ~Open(inc) => Raises(i, inc, at) = {}
      BY DEF Raises
    <3> QED
      BY <3>1, FS_EmptySet
  <2> HIDE DEF up, inc
  <2>4. inc.severity - up \in Severity
    BY <2>2 DEF Incident, Severity
  <2>5. after[i] \in Incident
    BY <2>1, <2>2, <2>4 DEF Incident
  <2>6. ASSUME ~Open(inc) PROVE after[i] = inc
    <3>1. inc.severity - up = inc.severity
      BY <2>2, <2>3, <2>6 DEF Incident, Severity
    <3> QED
      BY <2>1, <2>2, <3>1 DEF Incident
  <2> QED
    BY <2>1, <2>5, <2>6 DEF inc, up
<1> QED
  BY <1>1, <1>2, <1>3

-----------------------------------------------------------------------------
(* What an ingest makes of the rows.                                       *)

\* The nodes that fail in a run, by what its invocations have reported.
FailedIn(run, ran) == {Subject[n] : n \in {m \in Node : "bad" \in Reported(run, ran, m)}}

\* The incidents are rows of the table, each with a root that failed in the run that
\* opened it.
Rows ==
    /\ Numbered(incidents)
    /\ \A i \in IncidentIds :
          /\ incidents[i] \in Incident
          /\ incidents[i].root \in FailedIn(incidents[i].openedBy, ranBy)

\* Every call names a run.
LEMMA TargetRun == \A t \in Target : t.run \in Run /\ t.run # NoRun
BY DeskAssumption

\* What a run has reported is never taken back, and an ingest adds to its own run only.
LEMMA ReportedGrows ==
    ASSUME NEW t \in Target
    PROVE  \A r \in Run : \A n :
              /\ Reported(r, ranBy, n) \subseteq Reported(r, Ran(t), n)
              /\ r # t.run => Reported(r, Ran(t), n) = Reported(r, ranBy, n)
<1> SUFFICES ASSUME NEW r \in Run, NEW n
             PROVE  /\ Reported(r, ranBy, n) \subseteq Reported(r, Ran(t), n)
                    /\ r # t.run => Reported(r, Ran(t), n) = Reported(r, ranBy, n)
  OBVIOUS
<1>1. \A i \in Invocation : ranBy[i] = r => Ran(t)[i] = r
  BY DeskAssumption DEF Ran, Fresh
<1>2. ASSUME r # t.run PROVE \A i \in Invocation : Ran(t)[i] = r => ranBy[i] = r
  BY <1>2 DEF Ran
<1> QED
  BY <1>1, <1>2 DEF Reported

\* The view of an ingest is a view.
LEMMA ViewIsView ==
    ASSUME NEW t \in Target, Rows, Fresh(t) # {}
    PROVE  IsView(ViewOf(t))
<1> DEFINE v == ViewOf(t)
<1>1. /\ v.incs = incidents /\ v.run = t.run /\ v.at = Detected(t)
      /\ v.events = {n \in Node : "bad" \in Reported(t.run, Ran(t), n)}
      /\ DOMAIN v.rootOf = {Subject[n] : n \in v.events}
      /\ v.rootOf \in [DOMAIN v.rootOf -> DOMAIN v.rootOf]
      /\ Roots(v) \subseteq DOMAIN v.rootOf
      /\ DOMAIN v.rootOf \subseteq Node
  BY ViewSays
<1>2. v.run \in Run /\ v.run # NoRun /\ v.at \in Times
  BY <1>1, TargetRun, DetectedIsATime
<1>3. DOMAIN v.rootOf = FailedIn(t.run, Ran(t))
  BY <1>1 DEF FailedIn
<1>4. \A i \in Mine(v) : v.incs[i].root \in DOMAIN v.rootOf
  <2> SUFFICES ASSUME NEW i \in Mine(v) PROVE v.incs[i].root \in DOMAIN v.rootOf
    OBVIOUS
  <2>1. i \in IncidentIds /\ incidents[i].openedBy = t.run
    BY <1>1 DEF Mine, IncidentIds
  <2>2. incidents[i].root \in FailedIn(t.run, ranBy)
    BY <2>1 DEF Rows
  <2>3. FailedIn(t.run, ranBy) \subseteq FailedIn(t.run, Ran(t))
    BY ReportedGrows, TargetRun DEF FailedIn
  <2> QED
    BY <1>1, <1>3, <2>2, <2>3
<1> HIDE DEF v
<1>5. IsView(v)
  BY <1>1, <1>2, <1>4 DEF IsView, Rows, IncidentIds
<1> QED
  BY <1>5 DEF v

\* What one ingest makes of the incidents, in the desk's own terms: v is its view,
\* assigned the incident of each root, after the regrouped rows.
IngestMakes(t, v, assigned, after) ==
    /\ v = ViewOf(t) /\ IsView(v) /\ Assigns(v, assigned) /\ after = Regrouped(v, assigned)
    /\ v.incs = incidents /\ v.run = t.run /\ v.at = Detected(t)
    /\ assigned = Assignment(v)
    /\ Numbered(incidents') /\ DOMAIN incidents' = DOMAIN after
    /\ \A i \in DOMAIN after :
          /\ incidents'[i] \in Incident
          /\ incidents'[i] = [after[i] EXCEPT !.severity =
                                after[i].severity - Cardinality(Raises(i, after[i], v.at))]
          /\ ~Open(after[i]) => incidents'[i] = after[i]

\* What regrouping and raising make of the rows, for one ingest.
LEMMA IngestSays ==
    ASSUME NEW t \in Target, Rows, Ingest(t)
    PROVE  \E v, assigned, after : IngestMakes(t, v, assigned, after)
<1> DEFINE v == ViewOf(t)
           assigned == Assignment(v)
           after == Regrouped(v, assigned)
<1>1. IsView(v)
  BY ViewIsView DEF Ingest
<1>2. v.incs = incidents /\ v.run = t.run /\ v.at = Detected(t) /\ v = ViewOf(t)
  BY ViewSays
<1>3. Roots(v) \subseteq Node /\ IsFiniteSet(Roots(v))
  BY ViewSays
<1>4. incidents' = Escalated(after, v.at)
  BY DEF Ingest
<1> HIDE DEF v
<1>5. Numbered(v.incs) /\ v.at \in Times
  BY <1>1 DEF IsView
<1>6. Assigns(v, assigned)
  BY <1>3, <1>5, AssignmentSays
<1>7. assigned = Assignment(v)
  OBVIOUS
<1> HIDE DEF assigned
<1>8. after = Regrouped(v, assigned)
  OBVIOUS
<1> HIDE DEF after
<1>9. Numbered(after) /\ \A i \in DOMAIN after : after[i] \in Incident
  BY <1>1, <1>6, <1>8, RegroupedRows, RegroupedAreIncidents
<1>10. /\ Numbered(incidents') /\ DOMAIN incidents' = DOMAIN after
       /\ \A i \in DOMAIN after :
             /\ incidents'[i] \in Incident
             /\ incidents'[i] = [after[i] EXCEPT !.severity =
                                   after[i].severity - Cardinality(Raises(i, after[i], v.at))]
             /\ ~Open(after[i]) => incidents'[i] = after[i]
  BY <1>4, <1>5, <1>9, EscalatedRows
<1>11. IngestMakes(t, v, assigned, after)
  BY <1>1, <1>2, <1>6, <1>7, <1>8, <1>10 DEF IngestMakes
<1> QED
  BY <1>11

\* Raising keeps every column but the severity.
LEMMA RaisedColumns ==
    ASSUME NEW t, NEW v, NEW assigned, NEW after, IngestMakes(t, v, assigned, after),
           NEW i \in DOMAIN after
    PROVE  /\ incidents'[i].root = after[i].root
           /\ incidents'[i].openedAt = after[i].openedAt
           /\ incidents'[i].openedBy = after[i].openedBy
           /\ incidents'[i].resolvedAt = after[i].resolvedAt
           /\ incidents'[i].resolvedBy = after[i].resolvedBy
           /\ incidents'[i].mergedInto = after[i].mergedInto
           /\ incidents'[i].severity =
                 after[i].severity - Cardinality(Raises(i, after[i], v.at))
<1> DEFINE s == after[i].severity - Cardinality(Raises(i, after[i], v.at))
<1>1. after[i] \in Incident
  BY RegroupedAreIncidents DEF IngestMakes
<1>2. incidents'[i] = [after[i] EXCEPT !.severity = s]
  BY DEF IngestMakes
<1> HIDE DEF s
<1>3. /\ incidents'[i].root = after[i].root
      /\ incidents'[i].openedAt = after[i].openedAt
      /\ incidents'[i].openedBy = after[i].openedBy
      /\ incidents'[i].resolvedAt = after[i].resolvedAt
      /\ incidents'[i].resolvedBy = after[i].resolvedBy
      /\ incidents'[i].mergedInto = after[i].mergedInto
      /\ incidents'[i].severity = s
  BY <1>1, <1>2 DEF Incident
<1> QED
  BY <1>3 DEF s

\* What one ingest does to an incident it finds.
Kept(i) ==
    /\ incidents'[i].resolvedBy = incidents[i].resolvedBy
    /\ incidents'[i].resolvedAt = incidents[i].resolvedAt
TakenBack(i, t) ==
    /\ incidents[i].resolvedBy \in {NoRun, t.run}
    /\ incidents'[i].resolvedBy = NoRun
ResolvedNow(i, t) ==
    /\ incidents[i].resolvedBy \in {NoRun, t.run}
    /\ incidents[i].openedBy # t.run /\ incidents[i].openedAt <= Detected(t)
    /\ incidents'[i].resolvedBy = t.run /\ incidents'[i].resolvedAt = Detected(t)

\* What one ingest does to every incident it finds: keep it, take back a resolution of
\* its own run, resolve it, or merge it away; and the incidents it opens are open.
LEMMA IngestStep ==
    ASSUME NEW t \in Target, Rows, Ingest(t)
    PROVE  /\ Rows' /\ DOMAIN incidents \subseteq DOMAIN incidents'
           /\ \A i \in DOMAIN incidents :
                 /\ Kept(i) \/ TakenBack(i, t) \/ ResolvedNow(i, t)
                 /\ incidents'[i].root = incidents[i].root
                 /\ incidents'[i].openedBy = incidents[i].openedBy
                 /\ incidents'[i].openedAt = incidents[i].openedAt
                 /\ ~Live(incidents[i]) => incidents'[i] = incidents[i]
           /\ \A i \in DOMAIN incidents' \ DOMAIN incidents : incidents'[i].resolvedBy = NoRun
<1>1. PICK v, assigned, after : IngestMakes(t, v, assigned, after)
  BY IngestSays
<1>2. DOMAIN incidents \subseteq DOMAIN after /\ DOMAIN incidents' = DOMAIN after
  BY <1>1, RegroupedAreIncidents DEF IngestMakes
<1>3. ASSUME NEW i \in DOMAIN incidents
      PROVE  /\ after[i].root = incidents[i].root
             /\ after[i].openedBy = incidents[i].openedBy
             /\ after[i].openedAt = incidents[i].openedAt
             /\ ~Live(incidents[i]) => after[i] = incidents[i]
             /\ \/ /\ after[i].resolvedBy = incidents[i].resolvedBy
                   /\ after[i].resolvedAt = incidents[i].resolvedAt
                \/ /\ incidents[i].resolvedBy \in {NoRun, t.run}
                   /\ after[i].resolvedBy = NoRun
                \/ /\ incidents[i].resolvedBy \in {NoRun, t.run}
                   /\ incidents[i].openedBy # t.run
                   /\ incidents[i].openedAt <= Detected(t)
                   /\ after[i].resolvedBy = t.run /\ after[i].resolvedAt = Detected(t)
  <2>0. /\ incidents[i] \in Incident /\ v.incs = incidents
        /\ v.run = t.run /\ v.at = Detected(t)
    BY <1>1 DEF IngestMakes, Rows, IncidentIds
  <2>1. CASE Untouched(v, i, after)
    BY <2>0, <2>1 DEF Untouched
  <2>2. CASE Reopened(v, i, after)
    BY <2>0, <2>2, ReopenIs DEF Reopened, Before
  <2>3. CASE MergedAway(v, assigned, i, after)
    <3>1. PICK r \in Roots(v) : after[i] = [incidents[i] EXCEPT !.mergedInto = assigned[r]]
      BY <2>0, <2>3 DEF MergedAway
    <3>2. Live(incidents[i])
      BY <2>0, <2>3 DEF MergedAway, Merged, Mine
    <3> QED
      BY <2>0, <3>1, <3>2 DEF Incident
  <2>4. CASE NowResolved(v, assigned, i, after)
    <3>1. after[i] = [incidents[i] EXCEPT !.resolvedAt = v.at, !.resolvedBy = v.run]
      BY <2>0, <2>4 DEF NowResolved
    <3>2. i \in Before(v)
      BY <2>4 DEF NowResolved, Resolved
    <3> QED
      BY <2>0, <3>1, <3>2 DEF Incident, Before
  <2> QED
    BY <1>1, <2>0, <2>1, <2>2, <2>3, <2>4, RegroupedRows DEF IngestMakes
<1>4. \A i \in DOMAIN after :
         /\ incidents'[i].root = after[i].root
         /\ incidents'[i].openedBy = after[i].openedBy
         /\ incidents'[i].openedAt = after[i].openedAt
         /\ incidents'[i].resolvedBy = after[i].resolvedBy
         /\ incidents'[i].resolvedAt = after[i].resolvedAt
         /\ ~Open(after[i]) => incidents'[i] = after[i]
  <2>1. \A i \in DOMAIN after : ~Open(after[i]) => incidents'[i] = after[i]
    BY <1>1 DEF IngestMakes
  <2> QED
    BY <1>1, <2>1, RaisedColumns
<1>5. \A i \in DOMAIN after \ DOMAIN incidents :
         /\ after[i].resolvedBy = NoRun
         /\ after[i].openedBy = t.run
         /\ after[i].root \in FailedIn(t.run, Ran(t))
  <2> SUFFICES ASSUME NEW i \in DOMAIN after \ DOMAIN incidents
               PROVE  /\ after[i].resolvedBy = NoRun
                      /\ after[i].openedBy = t.run
                      /\ after[i].root \in FailedIn(t.run, Ran(t))
    OBVIOUS
  <2>1. v.incs = incidents /\ v.run = t.run /\ v = ViewOf(t)
    BY <1>1 DEF IngestMakes
  <2>2. PICK r \in Opened(v, assigned) : assigned[r] = i
    BY <1>1, <2>1, RegroupedAreIncidents DEF IngestMakes
  <2>3. after[i] = NewIncident(v, r, Paged(v, assigned)[r])
    BY <1>1, <2>2, RegroupedRows DEF IngestMakes
  <2>4. r \in FailedIn(t.run, Ran(t))
    BY <2>1, ViewSays DEF Opened, FailedIn
  <2> QED
    BY <2>1, <2>3, <2>4 DEF NewIncident
<1>6. Rows'
  <2>1. \A i \in DOMAIN after : incidents'[i].root \in FailedIn(incidents'[i].openedBy, Ran(t))
    <3> SUFFICES ASSUME NEW i \in DOMAIN after
                 PROVE  incidents'[i].root \in FailedIn(incidents'[i].openedBy, Ran(t))
      OBVIOUS
    <3>1. CASE i \in DOMAIN incidents
      <4>1. /\ incidents'[i].root = incidents[i].root
            /\ incidents'[i].openedBy = incidents[i].openedBy
        BY <1>2, <1>3, <1>4, <3>1
      <4>2. /\ incidents[i].openedBy \in Run
            /\ incidents[i].root \in FailedIn(incidents[i].openedBy, ranBy)
        BY <3>1 DEF Rows, IncidentIds, Incident
      <4>3. FailedIn(incidents[i].openedBy, ranBy) \subseteq FailedIn(incidents[i].openedBy, Ran(t))
        BY <4>2, ReportedGrows DEF FailedIn
      <4> QED
        BY <4>1, <4>2, <4>3
    <3>2. CASE i \notin DOMAIN incidents
      BY <1>4, <1>5, <3>2
    <3> QED
      BY <3>1, <3>2
  <2>2. outcome' = outcome /\ ranBy' = Ran(t)
    BY DEF Ingest
  <2>3. \A run : FailedIn(run, ranBy)' = FailedIn(run, Ran(t))
    BY <2>2 DEF FailedIn, Reported
  <2>4. Numbered(incidents') /\ \A i \in DOMAIN after : incidents'[i] \in Incident
    BY <1>1 DEF IngestMakes
  <2> QED
    BY <1>2, <2>1, <2>3, <2>4 DEF Rows, IncidentIds, Numbered
<1>7. \A i \in DOMAIN incidents : ~Live(incidents[i]) => incidents'[i] = incidents[i]
  BY <1>2, <1>3, <1>4 DEF Open
<1>8. \A i \in DOMAIN incidents : Kept(i) \/ TakenBack(i, t) \/ ResolvedNow(i, t)
  BY <1>2, <1>3, <1>4 DEF Kept, TakenBack, ResolvedNow
<1>9. \A i \in DOMAIN incidents :
         /\ incidents'[i].root = incidents[i].root
         /\ incidents'[i].openedBy = incidents[i].openedBy
         /\ incidents'[i].openedAt = incidents[i].openedAt
  BY <1>2, <1>3, <1>4
<1>10. \A i \in DOMAIN incidents' \ DOMAIN incidents : incidents'[i].resolvedBy = NoRun
  BY <1>2, <1>4, <1>5
<1> QED
  BY <1>2, <1>6, <1>7, <1>8, <1>9, <1>10

-----------------------------------------------------------------------------
(* Resolutions and merges.                                                 *)

IInv == Rows /\ ResolvedByALaterRun

\* A step that is no ingest leaves the tables alone.
LEMMA OtherSteps ==
    ASSUME [Next]_vars
    PROVE  \/ UNCHANGED <<outcome, ranBy, incidents, eventOf, linkedAt, shared, escalations,
                          notes, atStart>>
           \/ \E t \in Target : Ingest(t)
BY DEF Next, IngestNothingNew, IngestRollsBack, vars

\* The empty store satisfies the invariant.
LEMMA InitIInv == Init => IInv
BY DEF Init, IInv, Rows, Numbered, IncidentIds, ResolvedByALaterRun

\* An ingest keeps the invariant, and no other step touches the incidents.
LEMMA NextIInv == IInv /\ [Next]_vars => IInv'
<1> SUFFICES ASSUME IInv, [Next]_vars PROVE IInv'
  OBVIOUS
<1>1. CASE UNCHANGED <<outcome, ranBy, incidents>>
  <2>1. \A run : FailedIn(run, ranBy)' = FailedIn(run, ranBy)
    BY <1>1 DEF FailedIn, Reported
  <2> QED
    BY <1>1, <2>1 DEF IInv, Rows, Numbered, IncidentIds, ResolvedByALaterRun
<1>2. ASSUME NEW t \in Target, Ingest(t) PROVE IInv'
  <2>1. Rows'
    BY <1>2, IngestStep DEF IInv
  <2>2. ResolvedByALaterRun'
    <3> SUFFICES ASSUME NEW i \in DOMAIN incidents', incidents'[i].resolvedBy # NoRun
                 PROVE  /\ incidents'[i].resolvedBy # incidents'[i].openedBy
                        /\ incidents'[i].openedAt <= incidents'[i].resolvedAt
      BY DEF ResolvedByALaterRun, IncidentIds
    <3>1. /\ i \in DOMAIN incidents
          /\ Kept(i) \/ TakenBack(i, t) \/ ResolvedNow(i, t)
          /\ incidents'[i].openedBy = incidents[i].openedBy
          /\ incidents'[i].openedAt = incidents[i].openedAt
      BY <1>2, IngestStep DEF IInv
    <3>2. CASE Kept(i)
      BY <3>1, <3>2 DEF Kept, IInv, ResolvedByALaterRun, IncidentIds
    <3>3. CASE TakenBack(i, t)
      BY <3>3 DEF TakenBack
    <3>4. CASE ResolvedNow(i, t)
      BY <3>1, <3>4 DEF ResolvedNow
    <3> QED
      BY <3>1, <3>2, <3>3, <3>4
  <2> QED
    BY <2>1, <2>2 DEF IInv
<1> QED
  BY <1>1, <1>2, OtherSteps

\* The invariant holds in every state of the desk.
LEMMA Invariance == Spec => []IInv
BY InitIInv, NextIInv, PTL DEF Spec

\* An incident is only ever resolved by evidence of another run than the one that
\* opened it, and never by evidence older than itself.
THEOREM ResolutionsAreLater == Spec => []ResolvedByALaterRun
<1>1. IInv => ResolvedByALaterRun
  BY DEF IInv
<1> QED
  BY <1>1, Invariance, PTL

\* No ingest of any run changes an incident that was merged away.
THEOREM MergedStaysMerged == Spec => MergedIsFinal
<1> DEFINE Final == \A i \in IncidentIds : ~Live(incidents[i]) => incidents'[i] = incidents[i]
<1>1. IInv /\ [Next]_vars => [Final]_vars
  BY OtherSteps, IngestStep DEF IInv, IncidentIds
<1> QED
  BY <1>1, Invariance, PTL DEF Spec, MergedIsFinal

\* A resolution is taken back by the run it came from or not at all.
THEOREM ResolutionsBelongToTheirRun == Spec => OnlyTheResolverReopens
<1> DEFINE Reopens == \A i \in IncidentIds :
              incidents[i].resolvedBy # NoRun /\ incidents'[i].resolvedBy # incidents[i].resolvedBy =>
                 incidents'[i].resolvedBy = NoRun /\ Ingesting(incidents[i].resolvedBy)
<1>1. ASSUME IInv, [Next]_vars PROVE [Reopens]_vars
  <2>1. CASE incidents' = incidents
    BY <2>1
  <2>2. ASSUME NEW t \in Target, Ingest(t) PROVE Reopens
    <3>1. Ingesting(t.run)
      BY <2>2 DEF Ingest, Arrives, Ingesting
    <3> SUFFICES ASSUME NEW i \in DOMAIN incidents, incidents[i].resolvedBy # NoRun,
                        incidents'[i].resolvedBy # incidents[i].resolvedBy
                 PROVE  incidents'[i].resolvedBy = NoRun /\ Ingesting(incidents[i].resolvedBy)
      BY DEF IncidentIds
    <3>2. TakenBack(i, t) \/ ResolvedNow(i, t)
      BY <1>1, <2>2, IngestStep DEF IInv, Kept
    <3> QED
      BY <3>1, <3>2 DEF TakenBack, ResolvedNow
  <2> QED
    BY <1>1, <2>1, <2>2, OtherSteps
<1> QED
  BY <1>1, Invariance, PTL DEF Spec, OnlyTheResolverReopens

\* The rows the store holds have their types, and every incident's root failed in the
\* run that opened it.
LEMMA InitTypes == Init => TypeOK
<1> SUFFICES ASSUME Init PROVE TypeOK
  OBVIOUS
<1>1. incidents = <<>> /\ <<>> \in Seq(Incident)
  BY DEF Init
<1> QED
  BY <1>1 DEF Init, TypeOK

\* An ingest writes values of the columns' types.
LEMMA IngestTypes ==
    ASSUME NEW t \in Target, Rows, TypeOK, Ingest(t)
    PROVE  TypeOK'
<1>1. PICK v, assigned, after : IngestMakes(t, v, assigned, after)
  BY IngestSays
<1>2. /\ v = ViewOf(t) /\ assigned = Assignment(v) /\ v.run = t.run /\ v.at \in Nat
      /\ v.events \subseteq Node /\ \A n \in v.events : Subject[n] \in DOMAIN v.rootOf
      /\ DOMAIN v.rootOf \subseteq Node
      /\ \A n \in DOMAIN v.rootOf : v.rootOf[n] \in Roots(v)
  <2>1. v = ViewOf(t) /\ assigned = Assignment(v) /\ v.run = t.run
    BY <1>1 DEF IngestMakes
  <2>2. v.at \in Nat
    BY <1>1, DeskAssumption DEF IngestMakes, IsView, Times
  <2>3. /\ DOMAIN v.rootOf = {Subject[n] : n \in v.events} /\ DOMAIN v.rootOf \subseteq Node
        /\ v.events = {n \in Node : "bad" \in Reported(t.run, Ran(t), n)}
    BY <2>1, ViewSays
  <2>4. v.events \subseteq Node /\ \A n \in v.events : Subject[n] \in DOMAIN v.rootOf
    BY <2>3
  <2> QED
    BY <2>1, <2>2, <2>3, <2>4 DEF Roots
<1>3. \A r \in Roots(v) : assigned[r] \in Nat
  <2>1. \A r \in Roots(v) : assigned[r] \in DOMAIN after
    BY <1>1, RegroupedAreIncidents DEF IngestMakes
  <2>2. DOMAIN after \subseteq Nat
    BY <1>1 DEF IngestMakes, Numbered
  <2> QED
    BY <2>1, <2>2
<1>4. /\ eventOf' = [eventOf EXCEPT ![t.run] =
             [n \in Node |-> IF n \in v.events THEN assigned[v.rootOf[Subject[n]]] ELSE 0]]
      /\ linkedAt' = [linkedAt EXCEPT ![t.run] = v.at]
      /\ shared' = [shared EXCEPT ![t.run] = SharedRows(v, assigned)]
  BY <1>2 DEF Ingest
<1>5. /\ outcome' = outcome /\ lost' = lost /\ attempted' = attempted \cup {t}
      /\ ranBy' = Ran(t)
      /\ atStart' = atStart \/ atStart' = [atStart EXCEPT ![t.run] = incidents]
  BY DEF Ingest
<1>6. eventOf' \in [Run -> [Node -> Nat]]
  <2>1. [n \in Node |-> IF n \in v.events THEN assigned[v.rootOf[Subject[n]]] ELSE 0]
           \in [Node -> Nat]
    BY <1>2, <1>3
  <2> QED
    BY <1>4, <2>1 DEF TypeOK
<1>7. linkedAt' \in [Run -> Nat]
  BY <1>2, <1>4 DEF TypeOK
<1>8. shared' \in [Run -> SUBSET (Nat \X Node)]
  <2>1. SharedRows(v, assigned) \subseteq Nat \X Node
    <3> DEFINE above == SharedBy(v.rootOf)
    <3>1. /\ DOMAIN above \subseteq Node
          /\ \A n \in DOMAIN above : above[n] \subseteq Roots(v)
      BY <1>2 DEF SharedBy, Roots
    <3>2. SharedRows(v, assigned) = UNION {{<<assigned[r], n>> : r \in above[n]} : n \in DOMAIN above}
      BY DEF SharedRows
    <3> HIDE DEF above
    <3> QED
      BY <1>3, <3>1, <3>2
  <2> QED
    BY <1>4, <2>1 DEF TypeOK
<1>9. incidents' \in Seq(Incident)
  <2>1. /\ Len(incidents') \in Nat /\ DOMAIN incidents' = 1..Len(incidents')
        /\ \A i \in DOMAIN incidents' : incidents'[i] \in Incident
    BY <1>1 DEF IngestMakes, Numbered
  <2>2. incidents' = [i \in DOMAIN incidents' |-> incidents'[i]]
    <3>1. incidents' = Escalated(Regrouped(v, assigned), v.at)
      BY <1>2 DEF Ingest
    <3> QED
      BY <3>1 DEF Escalated
  <2>3. incidents' \in [1..Len(incidents') -> Incident]
    BY <2>1, <2>2
  <2> QED
    BY <2>1, <2>3
<1>10. ranBy' \in [Invocation -> Run \cup {NoRun}]
  BY <1>5, TargetRun DEF TypeOK, Ran
<1>11. atStart' \in [Run -> Seq(Incident)]
  BY <1>5 DEF TypeOK
<1> QED
  BY <1>5, <1>6, <1>7, <1>8, <1>9, <1>10, <1>11 DEF TypeOK

\* Every other step only notes the call.
LEMMA NextTypes == Rows /\ TypeOK /\ [Next]_vars => TypeOK'
<1> SUFFICES ASSUME Rows, TypeOK, [Next]_vars PROVE TypeOK'
  OBVIOUS
<1>1. ASSUME NEW t \in Target, IngestNothingNew(t) PROVE TypeOK'
  BY <1>1 DEF IngestNothingNew, TypeOK
<1>2. ASSUME NEW t \in Target, IngestRollsBack(t) PROVE TypeOK'
  BY <1>2 DEF IngestRollsBack, TypeOK
<1>3. CASE UNCHANGED vars
  BY <1>3 DEF vars, TypeOK
<1> QED
  BY <1>1, <1>2, <1>3, IngestTypes DEF Next

\* The store holds incidents of the table's types, whatever arrives.
THEOREM TypesHold == Spec => []TypeOK
<1>1. IInv /\ TypeOK /\ [Next]_vars => TypeOK'
  BY NextTypes DEF IInv
<1> QED
  BY <1>1, InitTypes, Invariance, PTL DEF Spec

-----------------------------------------------------------------------------
(* Messages.                                                               *)

\* The invariant: a message is about an incident; an incident has one page, of the run
\* that opened it; a resolution in force and a failure reported have their message.
NotesHaveIncidents == \A m \in notes : m.inc \in IncidentIds

PagedOnce ==
    \A i \in IncidentIds :
        {m \in notes : m.inc = i /\ m.kind = "page"} = {Note(i, "page", incidents[i].openedBy, <<>>)}

ResolutionsAnnounced ==
    \A i \in IncidentIds : incidents[i].resolvedBy # NoRun =>
        \E m \in notes : m.inc = i /\ m.kind = "resolved" /\ m.run = incidents[i].resolvedBy

FailuresAnnounced ==
    \A r \in Run, n \in Node :
        IF "bad" \in Reported(r, ranBy, n)
        THEN \E m \in notes : /\ m.inc = eventOf[r][n] /\ m.inc \in IncidentIds
                              /\ m.run = r /\ m.kind \in {"page", "update"}
        ELSE eventOf[r][n] = 0

Announced == NotesHaveIncidents /\ PagedOnce /\ ResolutionsAnnounced /\ FailuresAnnounced

\* Queueing drops a message only when one with its key is there.
LEMMA Queued ==
    ASSUME NEW queued, NEW new
    PROVE  /\ queued \subseteq Queue(queued, new)
           /\ \A m \in new : \E q \in Queue(queued, new) : SameKey(q, m)
           /\ \A q \in Queue(queued, new) : q \in queued \/ q \in new
           /\ \A m \in new : (\A n \in queued : ~SameKey(m, n)) => m \in Queue(queued, new)
<1>1. \A m \in new : \E q \in Queue(queued, new) : SameKey(q, m)
  <2> SUFFICES ASSUME NEW m \in new PROVE \E q \in Queue(queued, new) : SameKey(q, m)
    OBVIOUS
  <2>1. CASE \A n \in queued : ~SameKey(m, n)
    BY <2>1 DEF Queue, SameKey
  <2>2. CASE \E n \in queued : SameKey(m, n)
    BY <2>2 DEF Queue, SameKey
  <2> QED
    BY <2>1, <2>2
<1> QED
  BY <1>1 DEF Queue

\* The messages of an ingest: one page for each root that opens, an update for each
\* incident appended to, a message for each resolution, all about incidents.
LEMMA MessagesSay ==
    ASSUME NEW v, NEW assigned, NEW after, NEW sent, sent = Messages(v, assigned, after),
           IsView(v), Assigns(v, assigned), after = Regrouped(v, assigned)
    PROVE  /\ \A r \in Opened(v, assigned) : Note(assigned[r], "page", v.run, <<>>) \in sent
           /\ \A i \in Appended(v, assigned) : Note(i, "update", v.run, <<>>) \in sent
           /\ \A i \in Resolved(v, assigned) : Note(i, "resolved", v.run, <<>>) \in sent
           /\ \A m \in sent : m.inc \in DOMAIN after
           /\ \A m \in sent : m.kind = "page" =>
                 \E r \in Opened(v, assigned) : m = Note(assigned[r], "page", v.run, <<>>)
<1>1. \A r \in Opened(v, assigned) : assigned[r] \in DOMAIN after
  BY RegroupedAreIncidents DEF Opened
<1>2. \A i \in Before(v) : i \in DOMAIN after
  BY RegroupedAreIncidents DEF Before
<1>3. ASSUME NEW m \in sent
      PROVE  /\ m.inc \in DOMAIN after
             /\ m.kind = "page" =>
                   \E r \in Opened(v, assigned) : m = Note(assigned[r], "page", v.run, <<>>)
  <2>1. \/ \E r \in Opened(v, assigned) : m = Note(assigned[r], "page", v.run, <<>>)
        \/ \E i \in Appended(v, assigned) : m = Note(i, "update", v.run, <<>>)
        \/ \E i \in Resolved(v, assigned) : m = Note(i, "resolved", v.run, <<>>)
        \/ \E i \in DOMAIN after : \E x : m = Note(i, "escalation", v.run, x)
    BY DEF Messages
  <2>2. CASE \E r \in Opened(v, assigned) : m = Note(assigned[r], "page", v.run, <<>>)
    BY <1>1, <2>2 DEF Note
  <2>3. CASE \E i \in Appended(v, assigned) : m = Note(i, "update", v.run, <<>>)
    BY <1>2, <2>3 DEF Note, Appended
  <2>4. CASE \E i \in Resolved(v, assigned) : m = Note(i, "resolved", v.run, <<>>)
    BY <1>2, <2>4 DEF Note, Resolved
  <2>5. CASE \E i \in DOMAIN after : \E x : m = Note(i, "escalation", v.run, x)
    BY <2>5 DEF Note
  <2> QED
    BY <2>1, <2>2, <2>3, <2>4, <2>5
<1>4. /\ \A r \in Opened(v, assigned) : Note(assigned[r], "page", v.run, <<>>) \in sent
      /\ \A i \in Appended(v, assigned) : Note(i, "update", v.run, <<>>) \in sent
      /\ \A i \in Resolved(v, assigned) : Note(i, "resolved", v.run, <<>>) \in sent
  BY DEF Messages
<1> QED
  BY <1>3, <1>4

\* Nothing is ingested yet, so nothing has failed.
LEMMA InitAnnounced == Init => Announced
<1> SUFFICES ASSUME Init PROVE Announced
  OBVIOUS
<1>1. IncidentIds = {} /\ notes = {}
  BY DEF Init, IncidentIds
<1>2. \A r \in Run, n \in Node : Reported(r, ranBy, n) = {} /\ eventOf[r][n] = 0
  BY DeskAssumption DEF Init, Reported
<1> QED
  BY <1>1, <1>2 DEF Announced, NotesHaveIncidents, PagedOnce, ResolutionsAnnounced, FailuresAnnounced

\* An ingest announces what it finds.
LEMMA IngestAnnounced ==
    ASSUME NEW t \in Target, Rows, TypeOK, Announced, Ingest(t)
    PROVE  Announced'
<1>1. PICK v, assigned, after : IngestMakes(t, v, assigned, after)
  BY IngestSays
<1> DEFINE sent == Messages(v, assigned, after)
<1>2. /\ v = ViewOf(t) /\ IsView(v) /\ Assigns(v, assigned) /\ after = Regrouped(v, assigned)
      /\ v.incs = incidents /\ v.run = t.run /\ assigned = Assignment(v)
      /\ DOMAIN incidents' = DOMAIN after
  BY <1>1 DEF IngestMakes
<1>3. notes' = Queue(notes, sent)
  BY <1>2 DEF Ingest
<1>4. /\ \A r \in Opened(v, assigned) : Note(assigned[r], "page", v.run, <<>>) \in sent
      /\ \A i \in Appended(v, assigned) : Note(i, "update", v.run, <<>>) \in sent
      /\ \A i \in Resolved(v, assigned) : Note(i, "resolved", v.run, <<>>) \in sent
      /\ \A m \in sent : m.inc \in DOMAIN after
      /\ \A m \in sent : m.kind = "page" =>
            \E r \in Opened(v, assigned) : m = Note(assigned[r], "page", v.run, <<>>)
  BY <1>2, MessagesSay
<1> HIDE DEF sent
<1>5. /\ notes \subseteq notes'
      /\ \A m \in sent : \E q \in notes' : SameKey(q, m)
      /\ \A q \in notes' : q \in notes \/ q \in sent
      /\ \A m \in sent : (\A n \in notes : ~SameKey(m, n)) => m \in notes'
  BY <1>3, Queued
<1>6. /\ DOMAIN incidents \subseteq DOMAIN after
      /\ \A r \in Roots(v) : assigned[r] \in DOMAIN after
      /\ \A i \in DOMAIN after \ DOMAIN incidents : \E r \in Opened(v, assigned) : assigned[r] = i
  BY <1>2, RegroupedAreIncidents
<1>7. \A r \in Opened(v, assigned) : assigned[r] \notin DOMAIN incidents
  <2>1. \A r \in Opened(v, assigned) : assigned[r] > Len(incidents)
    BY <1>2 DEF Opened
  <2>2. \A i \in DOMAIN incidents : ~(i > Len(incidents))
    BY DEF Rows, Numbered
  <2> QED
    BY <2>1, <2>2
<1>8. \A i \in DOMAIN incidents : incidents'[i].openedBy = incidents[i].openedBy
  BY IngestStep
<1>9. \A i \in DOMAIN after \ DOMAIN incidents :
         incidents'[i].openedBy = t.run /\ incidents'[i].resolvedBy = NoRun
  <2> SUFFICES ASSUME NEW i \in DOMAIN after \ DOMAIN incidents
               PROVE  incidents'[i].openedBy = t.run /\ incidents'[i].resolvedBy = NoRun
    OBVIOUS
  <2>1. PICK r \in Opened(v, assigned) : assigned[r] = i
    BY <1>6
  <2>2. after[i] = NewIncident(v, r, Paged(v, assigned)[r])
    BY <1>2, <2>1, RegroupedRows
  <2>3. /\ incidents'[i].openedBy = after[i].openedBy
        /\ incidents'[i].resolvedBy = after[i].resolvedBy
    BY <1>1, RaisedColumns
  <2> QED
    BY <1>2, <2>2, <2>3 DEF NewIncident
<1>10. NotesHaveIncidents'
  BY <1>2, <1>4, <1>5, <1>6 DEF Announced, NotesHaveIncidents, IncidentIds
<1>11. PagedOnce'
  <2> SUFFICES ASSUME NEW i \in DOMAIN after
               PROVE  {m \in notes' : m.inc = i /\ m.kind = "page"}
                         = {Note(i, "page", incidents'[i].openedBy, <<>>)}
    BY <1>2 DEF PagedOnce, IncidentIds
  <2>1. CASE i \in DOMAIN incidents
    <3>1. \A m \in sent : m.kind = "page" => m.inc # i
      BY <1>4, <1>7, <2>1 DEF Note
    <3>2. {m \in notes : m.inc = i /\ m.kind = "page"}
             = {Note(i, "page", incidents[i].openedBy, <<>>)}
      BY <2>1 DEF Announced, PagedOnce, IncidentIds
    <3>3. {m \in notes' : m.inc = i /\ m.kind = "page"}
             = {m \in notes : m.inc = i /\ m.kind = "page"}
      BY <1>5, <3>1
    <3> QED
      BY <1>8, <2>1, <3>2, <3>3
  <2>2. CASE i \notin DOMAIN incidents
    <3> DEFINE page == Note(i, "page", t.run, <<>>)
    <3>1. \A m \in notes : m.inc # i
      BY <2>2 DEF Announced, NotesHaveIncidents, IncidentIds
    <3>2. page \in sent /\ page.inc = i /\ page.kind = "page"
      BY <1>2, <1>4, <1>6, <2>2 DEF Note
    <3>3. page \in notes'
      BY <1>5, <3>1, <3>2 DEF SameKey
    <3>4. \A m \in sent : m.kind = "page" /\ m.inc = i => m = page
      BY <1>2, <1>4 DEF Note
    <3> HIDE DEF page
    <3>5. {m \in notes' : m.inc = i /\ m.kind = "page"} = {page}
      BY <1>5, <3>1, <3>2, <3>3, <3>4
    <3> QED
      BY <1>9, <2>2, <3>5 DEF page
  <2> QED
    BY <2>1, <2>2
<1>12. ResolutionsAnnounced'
  <2> SUFFICES ASSUME NEW i \in DOMAIN after, incidents'[i].resolvedBy # NoRun
               PROVE  \E m \in notes' : /\ m.inc = i /\ m.kind = "resolved"
                                        /\ m.run = incidents'[i].resolvedBy
    BY <1>2 DEF ResolutionsAnnounced, IncidentIds
  <2>0. i \in DOMAIN incidents /\ incidents[i] \in Incident
    BY <1>9 DEF Rows, IncidentIds
  <2>1. incidents'[i].resolvedBy = after[i].resolvedBy
    BY <1>1, RaisedColumns
  <2>2. CASE after[i].resolvedBy = incidents[i].resolvedBy
    <3>1. \E m \in notes : m.inc = i /\ m.kind = "resolved" /\ m.run = incidents[i].resolvedBy
      BY <2>0, <2>1, <2>2 DEF Announced, ResolutionsAnnounced, IncidentIds
    <3> QED
      BY <1>5, <2>1, <2>2, <3>1
  <2>3. CASE NowResolved(v, assigned, i, after)
    <3>1. i \in Resolved(v, assigned) /\ after[i].resolvedBy = t.run
      BY <1>2, <2>0, <2>3 DEF NowResolved, Incident
    <3>2. PICK q \in notes' : SameKey(q, Note(i, "resolved", t.run, <<>>))
      BY <1>2, <1>4, <1>5, <3>1
    <3> QED
      BY <2>1, <3>1, <3>2 DEF SameKey, Note
  <2>4. Untouched(v, i, after) => after[i].resolvedBy = incidents[i].resolvedBy
    BY <1>2 DEF Untouched
  <2>5. Reopened(v, i, after) => after[i].resolvedBy = NoRun
    BY <1>2, <2>0, ReopenIs DEF Reopened
  <2>6. MergedAway(v, assigned, i, after) => after[i].resolvedBy = incidents[i].resolvedBy
    BY <1>2, <2>0 DEF MergedAway, Incident
  <2>7. \/ Untouched(v, i, after) \/ Reopened(v, i, after)
        \/ MergedAway(v, assigned, i, after) \/ NowResolved(v, assigned, i, after)
    BY <1>2, <2>0, RegroupedRows
  <2> QED
    BY <2>1, <2>2, <2>3, <2>4, <2>5, <2>6, <2>7
<1>13. FailuresAnnounced'
  <2>1. /\ ranBy' = Ran(t) /\ outcome' = outcome
        /\ eventOf' = [eventOf EXCEPT ![t.run] =
              [n \in Node |-> IF n \in v.events THEN assigned[v.rootOf[Subject[n]]] ELSE 0]]
    BY <1>2 DEF Ingest
  <2>2. \A r, n : Reported(r, ranBy, n)' = Reported(r, Ran(t), n)
    BY <2>1 DEF Reported
  <2>3. /\ v.events = {n \in Node : "bad" \in Reported(t.run, Ran(t), n)}
        /\ \A n \in v.events : v.rootOf[Subject[n]] \in Roots(v)
    <3>1. /\ v.events = {n \in Node : "bad" \in Reported(t.run, Ran(t), n)}
          /\ DOMAIN v.rootOf = {Subject[n] : n \in v.events}
      BY <1>2, ViewSays
    <3> QED
      BY <3>1 DEF Roots
  <2> SUFFICES ASSUME NEW r \in Run, NEW n \in Node
               PROVE  IF "bad" \in Reported(r, Ran(t), n)
                      THEN \E m \in notes' : /\ m.inc = eventOf'[r][n] /\ m.inc \in DOMAIN after
                                             /\ m.run = r /\ m.kind \in {"page", "update"}
                      ELSE eventOf'[r][n] = 0
    BY <1>2, <2>2 DEF FailuresAnnounced, IncidentIds
  <2>4. CASE r # t.run
    <3>1. eventOf'[r] = eventOf[r] /\ Reported(r, Ran(t), n) = Reported(r, ranBy, n)
      BY <2>1, <2>4, ReportedGrows DEF TypeOK
    <3>2. IF "bad" \in Reported(r, ranBy, n)
          THEN \E m \in notes : /\ m.inc = eventOf[r][n] /\ m.inc \in DOMAIN incidents
                                /\ m.run = r /\ m.kind \in {"page", "update"}
          ELSE eventOf[r][n] = 0
      BY DEF Announced, FailuresAnnounced, IncidentIds
    <3> QED
      BY <1>5, <1>6, <3>1, <3>2
  <2>5. CASE r = t.run /\ n \notin v.events
    <3>1. "bad" \notin Reported(r, Ran(t), n) /\ eventOf'[r][n] = 0
      BY <2>1, <2>3, <2>5 DEF TypeOK
    <3> QED
      BY <3>1
  <2>6. CASE r = t.run /\ n \in v.events
    <3> DEFINE root == v.rootOf[Subject[n]]
               i == assigned[root]
    <3>1. /\ root \in Roots(v) /\ eventOf'[r][n] = i /\ i \in DOMAIN after
          /\ "bad" \in Reported(r, Ran(t), n)
      BY <1>6, <2>1, <2>3, <2>6 DEF TypeOK
    <3> SUFFICES \E m \in notes' : m.inc = i /\ m.run = r /\ m.kind \in {"page", "update"}
      BY <3>1
    <3>2. CASE root \in Opened(v, assigned)
      <4>1. PICK q \in notes' : SameKey(q, Note(i, "page", t.run, <<>>))
        BY <1>2, <1>4, <1>5, <3>2
      <4> QED
        BY <2>6, <4>1 DEF SameKey, Note
    <3>3. CASE i \in Before(v)
      <4>1. i \in Appended(v, assigned)
        BY <3>1, <3>3 DEF Appended, Taken
      <4>2. PICK q \in notes' : SameKey(q, Note(i, "update", t.run, <<>>))
        BY <1>2, <1>4, <1>5, <4>1
      <4> QED
        BY <2>6, <4>2 DEF SameKey, Note
    <3>4. CASE i \in Mine(v)
      <4>1. i \in DOMAIN incidents /\ incidents[i].openedBy = t.run
        BY <1>2, <3>4 DEF Mine
      <4>2. Note(i, "page", t.run, <<>>) \in notes
        BY <4>1 DEF Announced, PagedOnce, IncidentIds
      <4> QED
        BY <1>5, <2>6, <4>2 DEF Note
    <3> QED
      BY <1>2, <3>1, <3>2, <3>3, <3>4 DEF Assigns
  <2> QED
    BY <2>4, <2>5, <2>6
<1> QED
  BY <1>10, <1>11, <1>12, <1>13 DEF Announced

\* Every other step leaves the tables alone.
LEMMA NextAnnounced == Rows /\ TypeOK /\ Announced /\ [Next]_vars => Announced'
<1> SUFFICES ASSUME Rows, TypeOK, Announced, [Next]_vars PROVE Announced'
  OBVIOUS
<1>1. CASE UNCHANGED <<outcome, ranBy, incidents, eventOf, notes>>
  <2>1. \A r, n : Reported(r, ranBy, n)' = Reported(r, ranBy, n)
    BY <1>1 DEF Reported
  <2> QED
    BY <1>1, <2>1 DEF Announced, NotesHaveIncidents, PagedOnce, ResolutionsAnnounced,
                      FailuresAnnounced, IncidentIds
<1> QED
  BY <1>1, OtherSteps, IngestAnnounced

\* Nobody is left uninformed: every failing check that a run reported is in an incident
\* that told someone about that run, an incident pages once, and a resolution in force
\* has its message - however the run is split, and whatever was queued before.
THEOREM FailuresAreAnnounced == Spec => []EveryFailureIsAnnounced
<1>1. IInv /\ TypeOK /\ Announced /\ [Next]_vars => Announced'
  BY NextAnnounced DEF IInv
<1>2. Announced => EveryFailureIsAnnounced
  <2> SUFFICES ASSUME Announced PROVE EveryFailureIsAnnounced
    OBVIOUS
  <2>1. \A i \in IncidentIds : Cardinality({m \in notes : m.inc = i /\ m.kind = "page"}) = 1
    BY FS_Singleton DEF Announced, PagedOnce
  <2> QED
    BY <2>1 DEF EveryFailureIsAnnounced, Announced, ResolutionsAnnounced, FailuresAnnounced
<1> QED
  BY <1>1, <1>2, InitAnnounced, Invariance, TypesHold, PTL DEF Spec

-----------------------------------------------------------------------------
(* Merging.                                                                *)

\* The invariant: the incidents can be given ages so that an incident merged away leads
\* to a live one or to one that was merged away later.
MergesRise ==
    \E last \in Nat : \E age \in [IncidentIds -> 0..last] :
        \A i \in IncidentIds : ~Live(incidents[i]) =>
            LET into == incidents[i].mergedInto
            IN  into \in IncidentIds /\ (Live(incidents[into]) \/ age[i] < age[into])

\* There is no incident to lead astray.
LEMMA InitMergesRise == Init => MergesRise
<1> SUFFICES ASSUME Init PROVE MergesRise
  OBVIOUS
<1>1. IncidentIds = {}
  BY DEF Init, IncidentIds
<1> DEFINE age == [i \in IncidentIds |-> 0]
<1>2. 0 \in Nat /\ age \in [IncidentIds -> 0..0] /\ \A i \in IncidentIds : FALSE
  BY <1>1
<1> QED
  BY <1>2 DEF MergesRise

\* An ingest merges an incident into one that a root of the run is given, which is live.
LEMMA IngestMergesRise ==
    ASSUME NEW t \in Target, Rows, MergesRise, Ingest(t)
    PROVE  MergesRise'
<1>1. PICK v, assigned, after : IngestMakes(t, v, assigned, after)
  BY IngestSays
<1>2. /\ IsView(v) /\ Assigns(v, assigned) /\ after = Regrouped(v, assigned)
      /\ v.incs = incidents /\ DOMAIN incidents' = DOMAIN after
  BY <1>1 DEF IngestMakes
<1>3. /\ DOMAIN incidents \subseteq DOMAIN after
      /\ \A r \in Roots(v) : assigned[r] \in DOMAIN after /\ Live(after[assigned[r]])
      /\ \A i \in DOMAIN after \ DOMAIN incidents : \E r \in Opened(v, assigned) : assigned[r] = i
  BY <1>2, RegroupedAreIncidents
<1>4. PICK last \in Nat : \E age \in [IncidentIds -> 0..last] :
         \A i \in IncidentIds : ~Live(incidents[i]) =>
            LET into == incidents[i].mergedInto
            IN  into \in IncidentIds /\ (Live(incidents[into]) \/ age[i] < age[into])
  BY DEF MergesRise
<1>5. PICK age \in [DOMAIN incidents -> 0..last] :
         \A i \in DOMAIN incidents : ~Live(incidents[i]) =>
            /\ incidents[i].mergedInto \in DOMAIN incidents
            /\ Live(incidents[incidents[i].mergedInto]) \/ age[i] < age[incidents[i].mergedInto]
  BY <1>4 DEF IncidentIds
<1> DEFINE gone == {i \in DOMAIN incidents : ~Live(incidents[i])}
           older == [i \in DOMAIN after |-> IF i \in gone THEN age[i] ELSE last + 1]
<1>6. older \in [DOMAIN after -> 0..(last + 1)]
  OBVIOUS
<1>7. \A i \in gone : incidents'[i] = incidents[i]
  BY IngestStep
<1>8. \A i \in DOMAIN after : incidents'[i].mergedInto = after[i].mergedInto
  BY <1>1, RaisedColumns
<1>9. ASSUME NEW i \in DOMAIN after, ~Live(incidents'[i])
      PROVE  LET into == incidents'[i].mergedInto
             IN  into \in DOMAIN after /\ (Live(incidents'[into]) \/ older[i] < older[into])
  <2> DEFINE into == incidents'[i].mergedInto
  <2>1. CASE i \in gone
    <3>1. /\ into = incidents[i].mergedInto /\ into \in DOMAIN incidents
          /\ Live(incidents[into]) \/ age[i] < age[into]
      BY <1>5, <1>7, <2>1
    <3> HIDE DEF into
    <3>2. into \in DOMAIN after /\ older[i] = age[i] /\ age[i] \in 0..last
      BY <1>3, <2>1, <3>1
    <3>3. CASE Live(incidents[into])
      <4>1. older[into] = last + 1
        BY <3>2, <3>3
      <4> QED
        BY <3>2, <4>1 DEF into
    <3>4. CASE ~Live(incidents[into])
      <4>1. older[into] = age[into]
        BY <3>1, <3>2, <3>4
      <4> QED
        BY <3>1, <3>2, <3>4, <4>1 DEF into
    <3> QED
      BY <3>3, <3>4
  <2>2. CASE i \notin DOMAIN incidents
    <3>1. PICK r \in Opened(v, assigned) : assigned[r] = i
      BY <1>3, <2>2
    <3>2. Live(after[i])
      BY <1>3, <3>1 DEF Opened
    <3> QED
      BY <1>8, <1>9, <3>2 DEF Live
  <2>3. CASE i \in DOMAIN incidents /\ Live(incidents[i])
    <3>0. incidents[i] \in Incident
      BY <2>3 DEF Rows, IncidentIds
    <3>1. ~Live(after[i])
      BY <1>8, <1>9 DEF Live
    <3>2. ~Untouched(v, i, after)
      BY <1>2, <2>3, <3>1 DEF Untouched
    <3>3. ~Reopened(v, i, after)
      BY <1>2, <2>3, <3>0, <3>1, ReopenIs DEF Reopened, Live
    <3>4. ~NowResolved(v, assigned, i, after)
      BY <1>2, <2>3, <3>0, <3>1 DEF NowResolved, Live, Incident
    <3>5. MergedAway(v, assigned, i, after)
      BY <1>2, <2>3, <3>2, <3>3, <3>4, RegroupedRows
    <3>6. PICK r \in Roots(v) : after[i].mergedInto = assigned[r]
      BY <1>2, <3>0, <3>5 DEF MergedAway, Incident
    <3>7. into = assigned[r] /\ into \in DOMAIN after /\ Live(after[into])
      BY <1>3, <1>8, <3>6
    <3> HIDE DEF into
    <3>8. Live(incidents'[into])
      BY <1>8, <3>7 DEF Live
    <3> QED
      BY <3>7, <3>8 DEF into
  <2> QED
    BY <2>1, <2>2, <2>3
<1> HIDE DEF older
<1>10. last + 1 \in Nat
  OBVIOUS
<1> QED
  BY <1>2, <1>6, <1>9, <1>10 DEF MergesRise, IncidentIds

\* Every other step leaves the incidents alone.
LEMMA NextMergesRise == Rows /\ MergesRise /\ [Next]_vars => MergesRise'
<1> SUFFICES ASSUME Rows, MergesRise, [Next]_vars PROVE MergesRise'
  OBVIOUS
<1>1. CASE UNCHANGED incidents
  BY <1>1 DEF MergesRise, IncidentIds, Live
<1> QED
  BY <1>1, OtherSteps, IngestMergesRise

\* The way from an incident: while it is merged away it rises, and there are only so many
\* incidents to pass.
LEMMA RisingEndsLive ==
    ASSUME Rows, MergesRise
    PROVE  MergesEndLive
<1> SUFFICES ASSUME NEW i \in IncidentIds
             PROVE  LET after[k \in 0..Len(incidents)] ==
                            IF k = 0 THEN i
                            ELSE LET j == after[k - 1]
                                 IN  IF Live(incidents[j]) THEN j ELSE incidents[j].mergedInto
                    IN  Live(incidents[after[Len(incidents)]])
  BY DEF MergesEndLive
<1> DEFINE N == Len(incidents)
           step == [j \in IncidentIds |-> IF Live(incidents[j]) THEN j ELSE incidents[j].mergedInto]
           Goes(f) == f = [k \in 0..N |->
                              IF k = 0 THEN i
                              ELSE LET j == f[k - 1]
                                   IN  IF Live(incidents[j]) THEN j ELSE incidents[j].mergedInto]
           way == CHOOSE f : Goes(f)
<1>1. N \in Nat /\ IncidentIds = 1..N
  BY DEF Rows, Numbered, IncidentIds
<1>2. PICK last \in Nat : \E age \in [IncidentIds -> 0..last] :
         \A n \in IncidentIds : ~Live(incidents[n]) =>
            LET into == incidents[n].mergedInto
            IN  into \in IncidentIds /\ (Live(incidents[into]) \/ age[n] < age[into])
  BY DEF MergesRise
<1>3. PICK age \in [IncidentIds -> 0..last] :
         \A n \in IncidentIds : ~Live(incidents[n]) =>
            /\ incidents[n].mergedInto \in IncidentIds
            /\ Live(incidents[incidents[n].mergedInto]) \/ age[n] < age[incidents[n].mergedInto]
  BY <1>2
<1>4. step \in [IncidentIds -> IncidentIds]
  BY <1>3
<1> HIDE DEF N
<1>5. PICK f \in [0..N -> IncidentIds] : f[0] = i /\ \A k \in 1..N : f[k] = step[f[k - 1]]
  <2> HIDE DEF step
  <2>1. \E f : Repeats(f, IncidentIds, i, step, N)
    BY <1>1, <1>4, Iterates
  <2> QED
    BY <2>1 DEF Repeats
<1>6. Goes(f)
  <2>1. ASSUME NEW k \in 0..N, k # 0
        PROVE  f[k] = LET j == f[k - 1]
                      IN  IF Live(incidents[j]) THEN j ELSE incidents[j].mergedInto
    <3>1. k \in 1..N /\ k - 1 \in 0..N
      BY <1>1, <2>1
    <3>2. f[k] = step[f[k - 1]] /\ f[k - 1] \in IncidentIds
      BY <1>5, <3>1
    <3> QED
      BY <3>2
  <2> QED
    BY <1>5, <2>1
<1>7. Goes(way)
  <2> HIDE DEF Goes
  <2> QED
    BY <1>6
<1> HIDE DEF way
<1>8. /\ way[0] = i
      /\ \A k \in 1..N : way[k] = LET j == way[k - 1]
                                  IN  IF Live(incidents[j]) THEN j ELSE incidents[j].mergedInto
  <2>1. 0 \in 0..N /\ \A k \in 1..N : k \in 0..N /\ k # 0
    BY <1>1
  <2> QED
    BY <1>7, <2>1
<1> HIDE DEF Goes
<1> DEFINE T == {k \in Nat : k \in 0..N => way[k] \in IncidentIds}
<1>9. 0 \in T
  BY <1>8
<1>10. ASSUME NEW k \in Nat, k \in T PROVE k + 1 \in T
  <2>1. ASSUME k + 1 \in 0..N PROVE way[k + 1] \in IncidentIds
    <3>1. k + 1 \in 1..N /\ k \in 0..N /\ (k + 1) - 1 = k
      BY <1>1, <2>1
    <3>2. way[k] \in IncidentIds
      BY <1>10, <3>1
    <3>3. way[k + 1] = IF Live(incidents[way[k]]) THEN way[k] ELSE incidents[way[k]].mergedInto
      BY <1>8, <3>1
    <3> QED
      BY <1>3, <3>2, <3>3
  <2> QED
    BY <2>1
<1>11. \A k \in 0..N : way[k] \in IncidentIds
  <2>1. Nat \subseteq T
    <3> HIDE DEF T
    <3> QED
      BY <1>9, <1>10, EveryNumber
  <2> QED
    BY <1>1, <2>1
<1> HIDE DEF T
<1>12. SUFFICES ASSUME ~Live(incidents[way[N]]) PROVE FALSE
  BY DEF way, Goes, N
<1>13. \A k \in 0..N : ~Live(incidents[way[k]])
  <2> DEFINE D == {k \in Nat : k <= N => ~Live(incidents[way[N - k]])}
  <2>1. 0 \in D
    BY <1>1, <1>12
  <2>2. ASSUME NEW k \in Nat, k \in D PROVE k + 1 \in D
    <3>1. ASSUME k + 1 <= N PROVE ~Live(incidents[way[N - (k + 1)]])
      <4>1. N - k \in 1..N /\ (N - k) - 1 = N - (k + 1) /\ k <= N
        BY <1>1, <3>1
      <4>2. ~Live(incidents[way[N - k]])
        BY <2>2, <4>1
      <4>3. Live(incidents[way[N - (k + 1)]]) => way[N - k] = way[N - (k + 1)]
        BY <1>8, <4>1
      <4> QED
        BY <4>2, <4>3
    <3> QED
      BY <3>1
  <2>3. Nat \subseteq D
    <3> HIDE DEF D
    <3> QED
      BY <2>1, <2>2, EveryNumber
  <2> SUFFICES ASSUME NEW k \in 0..N PROVE ~Live(incidents[way[k]])
    OBVIOUS
  <2>4. N - k \in D /\ N - k <= N /\ N - (N - k) = k
    BY <1>1, <2>3
  <2> QED
    BY <2>4
<1> DEFINE g == [k \in 0..N |-> age[way[k]]]
<1>14. g \in [0..N -> Nat]
  BY <1>11
<1>15. \A k \in 1..N : g[k - 1] < g[k]
  <2> SUFFICES ASSUME NEW k \in 1..N PROVE age[way[k - 1]] < age[way[k]]
    BY <1>1
  <2>1. k - 1 \in 0..N /\ k \in 0..N
    BY <1>1
  <2>2. ~Live(incidents[way[k - 1]]) /\ ~Live(incidents[way[k]]) /\ way[k - 1] \in IncidentIds
    BY <1>11, <1>13, <2>1
  <2>3. way[k] = incidents[way[k - 1]].mergedInto
    BY <1>8, <2>2
  <2> QED
    BY <1>3, <2>2, <2>3
<1>16. \A j, k \in 0..N : j < k => g[j] < g[k]
  <2> HIDE DEF g
  <2> QED
    BY <1>1, <1>14, <1>15, Rising
<1> DEFINE w == [k \in 0..N |-> way[k]]
<1>17. w \in [0..N -> 1..N]
  BY <1>1, <1>11
<1>18. /\ IsFiniteSet(0..N) /\ IsFiniteSet(1..N)
       /\ Cardinality(0..N) = N + 1 /\ Cardinality(1..N) = N
  BY <1>1, FS_Interval
<1>19. \E j, k \in 0..N : j # k /\ w[j] = w[k]
  <2>1. Cardinality(1..N) < Cardinality(0..N)
    BY <1>1, <1>18
  <2> HIDE DEF w
  <2> QED
    BY <1>17, <1>18, <2>1, FS_PigeonHole
<1>20. PICK j, k \in 0..N : j # k /\ way[j] = way[k]
  BY <1>19
<1>21. g[j] = g[k] /\ g[j] \in Nat
  BY <1>14, <1>20
<1> HIDE DEF g
<1>22. j < k \/ k < j
  BY <1>1, <1>20
<1> QED
  BY <1>16, <1>21, <1>22

\* Whatever is merged into whatever, a merged incident leads to a live one: merging never
\* makes a cycle and never strands a failure.
THEOREM MergesLeadToLive == Spec => []MergesEndLive
<1>1. IInv /\ MergesRise /\ [Next]_vars => MergesRise'
  BY NextMergesRise DEF IInv
<1>2. IInv /\ MergesRise => MergesEndLive
  BY RisingEndsLive DEF IInv
<1> QED
  BY <1>1, <1>2, InitMergesRise, Invariance, PTL DEF Spec

-----------------------------------------------------------------------------
(* Raises.                                                                 *)

\* The rows of incident_escalations about an incident.
RaisesOf(i) == {e \in escalations : e.inc = i}

\* The invariant: a raise is about an incident; the raises of an incident account for its
\* severity; and it was overdue only at severities that it has left.
RaisesAddUp ==
    /\ \A e \in escalations : e.inc \in IncidentIds /\ e.at \in Nat
    /\ \A i \in IncidentIds :
          /\ IsFiniteSet(RaisesOf(i))
          /\ incidents[i].severity = Scored[incidents[i].root] - Cardinality(RaisesOf(i))
    /\ \A e \in escalations : e.reason[1] = "overdue" =>
          e.reason[2] \in Nat /\ e.reason[2] > incidents[e.inc].severity

\* The reason of a raise tells whether the incident was overdue, and which window it was.
LEMMA ReasonsDiffer ==
    ASSUME NEW inc \in Incident, NEW at \in Times, NEW i
    PROVE  /\ ReasonOf(inc, at, 0) = <<"overdue", inc.severity>>
           /\ \A k \in Raises(i, inc, at) :
                 k # 0 => /\ ReasonOf(inc, at, k)[1] # "overdue"
                          /\ ReasonOf(inc, at, k) \notin {e.reason : e \in RaisesOf(i)}
           /\ \A j, k \in Raises(i, inc, at) :
                 ReasonOf(inc, at, j) = ReasonOf(inc, at, k) => j = k
<1> DEFINE windows == OpenWindows[inc.root][at]
<1>1. windows \in Seq({"window"} \X Nat) /\ inc.root \in Node
  BY DeskAssumption DEF Incident
<1>2. \A k \in DOMAIN windows : windows[k] \in {"window"} \X Nat
  <2> HIDE DEF windows
  <2> QED
    BY <1>1
<1>3. \A j, k \in DOMAIN windows : windows[j] = windows[k] => j = k
  BY <1>1, PolicyAssumption
<1>4. ReasonOf(inc, at, 0) = <<"overdue", inc.severity>>
  BY DEF ReasonOf
<1>5. ASSUME NEW k \in Raises(i, inc, at), k # 0
      PROVE  /\ k \in DOMAIN windows /\ ReasonOf(inc, at, k) = windows[k]
             /\ windows[k] \notin {e.reason : e \in RaisesOf(i)}
  <2>1. k \in Due(i, inc, at)
    BY DEF Raises
  <2> QED
    BY <1>5, <2>1 DEF Due, ReasonOf, RaisesOf
<1> HIDE DEF windows
<1>6. \A k \in Raises(i, inc, at) : k # 0 => ReasonOf(inc, at, k)[1] # "overdue"
  BY <1>2, <1>5
<1>7. \A j, k \in Raises(i, inc, at) : ReasonOf(inc, at, j) = ReasonOf(inc, at, k) => j = k
  <2> SUFFICES ASSUME NEW j \in Raises(i, inc, at), NEW k \in Raises(i, inc, at),
                      ReasonOf(inc, at, j) = ReasonOf(inc, at, k)
               PROVE  j = k
    OBVIOUS
  <2>1. CASE j # 0 /\ k # 0
    BY <1>3, <1>5, <2>1
  <2>2. CASE j = 0
    BY <1>4, <1>6, <2>2
  <2>3. CASE k = 0
    BY <1>4, <1>6, <2>3
  <2> QED
    BY <2>1, <2>2, <2>3
<1> QED
  BY <1>4, <1>5, <1>6, <1>7

\* What an ingest records of the raises of an incident.
RowsOf(i, inc, at, run) ==
    {[inc |-> i, run |-> run, at |-> at, reason |-> ReasonOf(inc, at, k)] :
        k \in Raises(i, inc, at)}

\* The raises that an ingest records of an incident are new rows, one for each level.
LEMMA RowsOfAnIncident ==
    ASSUME NEW inc \in Incident, NEW at \in Times, NEW i, NEW run, NEW rows,
           rows = RowsOf(i, inc, at, run),
           \A e \in RaisesOf(i) : e.reason[1] = "overdue" => e.reason[2] > inc.severity
    PROVE  /\ IsFiniteSet(rows) /\ Cardinality(rows) = Cardinality(Raises(i, inc, at))
           /\ rows \cap RaisesOf(i) = {}
           /\ \A e \in rows :
                 /\ e.inc = i /\ e.at = at
                 /\ e.reason[1] = "overdue" =>
                       0 \in Raises(i, inc, at) /\ e.reason = <<"overdue", inc.severity>>
<1> DEFINE raises == Raises(i, inc, at)
           row(k) == [inc |-> i, run |-> run, at |-> at, reason |-> ReasonOf(inc, at, k)]
           f == [k \in raises |-> row(k)]
<1>1. /\ ReasonOf(inc, at, 0) = <<"overdue", inc.severity>>
      /\ \A k \in raises :
            k # 0 => /\ ReasonOf(inc, at, k)[1] # "overdue"
                     /\ ReasonOf(inc, at, k) \notin {e.reason : e \in RaisesOf(i)}
      /\ \A j, k \in raises : ReasonOf(inc, at, j) = ReasonOf(inc, at, k) => j = k
  BY ReasonsDiffer
<1>2. IsFiniteSet(raises)
  BY RaisesAreFew, FS_Subset
<1>3. inc.severity \in Nat
  BY DEF Incident, Severity
<1> HIDE DEF raises
<1>4. f \in Bijection(raises, rows)
  <2>1. f \in Surjection(raises, rows)
    BY DEF raises, Surjection, RowsOf
  <2>2. f \in Injection(raises, rows)
    <3>1. \A j, k \in raises : f[j] = f[k] => j = k
      BY <1>1
    <3>2. f \in [raises -> rows]
      BY <2>1 DEF Surjection
    <3> HIDE DEF f
    <3> QED
      BY <3>1, <3>2 DEF Injection, IsInjective
  <2> QED
    BY <2>1, <2>2 DEF Bijection
<1>5. IsFiniteSet(rows) /\ Cardinality(rows) = Cardinality(raises)
  <2>1. ExistsBijection(raises, rows)
    BY <1>4 DEF ExistsBijection
  <2> QED
    BY <1>2, <2>1, FS_Bijection
<1>6. \A e \in rows :
         /\ e.inc = i /\ e.at = at
         /\ \E k \in raises : e.reason = ReasonOf(inc, at, k)
  BY DEF raises, RowsOf
<1>7. \A e \in rows : e.reason[1] = "overdue" =>
         0 \in raises /\ e.reason = <<"overdue", inc.severity>>
  BY <1>1, <1>6
<1>8. ASSUME NEW e \in rows, e \in RaisesOf(i) PROVE FALSE
  <2>1. PICK k \in raises : e.reason = ReasonOf(inc, at, k)
    BY <1>6
  <2>2. CASE k = 0
    <3>1. e.reason[1] = "overdue" /\ e.reason[2] = inc.severity
      BY <1>1, <2>1, <2>2
    <3> QED
      BY <1>3, <1>8, <3>1
  <2>3. CASE k # 0
    BY <1>1, <1>8, <2>1, <2>3
  <2> QED
    BY <2>2, <2>3
<1> QED
  BY <1>5, <1>6, <1>7, <1>8 DEF raises

\* An incident that an ingest finds keeps its root and its severity until it is raised;
\* one that it opens has the severity that its root scores.
LEMMA SeverityIsKept ==
    ASSUME NEW t, NEW v, NEW assigned, NEW after, IngestMakes(t, v, assigned, after), Rows,
           NEW i \in DOMAIN after
    PROVE  /\ after[i] \in Incident
           /\ i \in DOMAIN incidents => /\ after[i].severity = incidents[i].severity
                                        /\ after[i].root = incidents[i].root
           /\ i \notin DOMAIN incidents => after[i].severity = Scored[after[i].root]
<1>1. /\ IsView(v) /\ Assigns(v, assigned) /\ after = Regrouped(v, assigned)
      /\ v.incs = incidents
  BY DEF IngestMakes
<1>2. after[i] \in Incident
  BY <1>1, RegroupedAreIncidents
<1>3. ASSUME i \notin DOMAIN incidents PROVE after[i].severity = Scored[after[i].root]
  <2>1. PICK r \in Opened(v, assigned) : assigned[r] = i
    BY <1>1, <1>3, RegroupedAreIncidents
  <2>2. after[i] = NewIncident(v, r, Paged(v, assigned)[r])
    BY <1>1, <2>1, RegroupedRows
  <2> QED
    BY <2>2 DEF NewIncident
<1>4. ASSUME i \in DOMAIN incidents
      PROVE  after[i].severity = incidents[i].severity /\ after[i].root = incidents[i].root
  <2>0. incidents[i] \in Incident
    BY <1>4 DEF Rows, IncidentIds
  <2>1. CASE Untouched(v, i, after)
    BY <1>1, <2>1 DEF Untouched
  <2>2. CASE Reopened(v, i, after)
    BY <1>1, <2>0, <2>2, ReopenIs DEF Reopened
  <2>3. CASE MergedAway(v, assigned, i, after)
    BY <1>1, <2>0, <2>3 DEF MergedAway, Incident
  <2>4. CASE NowResolved(v, assigned, i, after)
    BY <1>1, <2>0, <2>4 DEF NowResolved, Incident
  <2> QED
    BY <1>1, <1>4, <2>1, <2>2, <2>3, <2>4, RegroupedRows
<1> QED
  BY <1>2, <1>3, <1>4

\* An ingest records the rows of each incident after it is regrouped.
RowsNow(v, after, i) == RowsOf(i, after[i], v.at, v.run)

\* The raises one ingest records are new, finitely many and of its own time.
LEMMA IngestRaises ==
    ASSUME NEW t \in Target, Rows, RaisesAddUp, Ingest(t),
           NEW v, NEW assigned, NEW after, IngestMakes(t, v, assigned, after)
    PROVE  /\ escalations' = escalations \cup UNION {RowsNow(v, after, i) : i \in DOMAIN after}
           /\ \A i \in DOMAIN after :
                 /\ IsFiniteSet(RaisesOf(i))
                 /\ i \notin DOMAIN incidents => RaisesOf(i) = {}
                 /\ IsFiniteSet(RowsNow(v, after, i))
                 /\ Cardinality(RowsNow(v, after, i)) = Cardinality(Raises(i, after[i], v.at))
                 /\ RowsNow(v, after, i) \cap RaisesOf(i) = {}
                 /\ \A e \in RowsNow(v, after, i) :
                       /\ e.inc = i /\ e.at = v.at
                       /\ e.reason[1] = "overdue" =>
                             /\ 0 \in Raises(i, after[i], v.at)
                             /\ e.reason = <<"overdue", after[i].severity>>
<1>1. /\ v = ViewOf(t) /\ IsView(v) /\ after = Regrouped(v, assigned)
      /\ assigned = Assignment(v)
  BY DEF IngestMakes
<1>2. escalations' = escalations \cup UNION {RowsNow(v, after, i) : i \in DOMAIN after}
  BY <1>1 DEF Ingest, RaisedRows, RowsNow, RowsOf
<1>3. ASSUME NEW i \in DOMAIN after
      PROVE  /\ IsFiniteSet(RaisesOf(i))
             /\ i \notin DOMAIN incidents => RaisesOf(i) = {}
             /\ IsFiniteSet(RowsNow(v, after, i))
             /\ Cardinality(RowsNow(v, after, i)) = Cardinality(Raises(i, after[i], v.at))
             /\ RowsNow(v, after, i) \cap RaisesOf(i) = {}
             /\ \A e \in RowsNow(v, after, i) :
                   /\ e.inc = i /\ e.at = v.at
                   /\ e.reason[1] = "overdue" =>
                         /\ 0 \in Raises(i, after[i], v.at)
                         /\ e.reason = <<"overdue", after[i].severity>>
  <2>1. /\ after[i] \in Incident /\ v.at \in Times
        /\ i \in DOMAIN incidents => after[i].severity = incidents[i].severity
    BY <1>1, SeverityIsKept DEF IsView
  <2>2. i \notin DOMAIN incidents => RaisesOf(i) = {}
    BY DEF RaisesAddUp, RaisesOf, IncidentIds
  <2>3. IsFiniteSet(RaisesOf(i))
    BY <2>2, FS_EmptySet DEF RaisesAddUp, IncidentIds
  <2>4. \A e \in RaisesOf(i) : e.reason[1] = "overdue" => e.reason[2] > after[i].severity
    BY <2>1, <2>2 DEF RaisesAddUp, RaisesOf
  <2>5. RowsNow(v, after, i) = RowsOf(i, after[i], v.at, v.run)
    BY DEF RowsNow
  <2>6. /\ IsFiniteSet(RowsNow(v, after, i))
        /\ Cardinality(RowsNow(v, after, i)) = Cardinality(Raises(i, after[i], v.at))
        /\ RowsNow(v, after, i) \cap RaisesOf(i) = {}
        /\ \A e \in RowsNow(v, after, i) :
              /\ e.inc = i /\ e.at = v.at
              /\ e.reason[1] = "overdue" =>
                    /\ 0 \in Raises(i, after[i], v.at)
                    /\ e.reason = <<"overdue", after[i].severity>>
    BY <2>1, <2>4, <2>5, RowsOfAnIncident
  <2> QED
    BY <2>2, <2>3, <2>6
<1> QED
  BY <1>2, <1>3

\* Nothing is raised yet.
LEMMA InitRaisesAddUp == Init => RaisesAddUp
BY DEF Init, RaisesAddUp, IncidentIds

\* An ingest lowers a severity by the rows that it adds.
LEMMA IngestRaisesAddUp ==
    ASSUME NEW t \in Target, Rows, RaisesAddUp, Ingest(t)
    PROVE  RaisesAddUp'
<1>1. PICK v, assigned, after : IngestMakes(t, v, assigned, after)
  BY IngestSays
<1> DEFINE rows(i) == RowsNow(v, after, i)
           levels(i) == Cardinality(Raises(i, after[i], v.at))
<1>2. /\ escalations' = escalations \cup UNION {rows(i) : i \in DOMAIN after}
      /\ \A i \in DOMAIN after :
            /\ IsFiniteSet(RaisesOf(i))
            /\ i \notin DOMAIN incidents => RaisesOf(i) = {}
            /\ IsFiniteSet(rows(i)) /\ Cardinality(rows(i)) = levels(i)
            /\ rows(i) \cap RaisesOf(i) = {}
            /\ \A e \in rows(i) :
                  /\ e.inc = i /\ e.at = v.at
                  /\ e.reason[1] = "overdue" =>
                        /\ 0 \in Raises(i, after[i], v.at)
                        /\ e.reason = <<"overdue", after[i].severity>>
  BY <1>1, IngestRaises
<1>3. /\ DOMAIN incidents' = DOMAIN after /\ v.at \in Times /\ v.at \in Nat
      /\ DOMAIN incidents \subseteq DOMAIN after
  <2>1. v.at \in Times /\ DOMAIN incidents' = DOMAIN after
    BY <1>1 DEF IngestMakes, IsView
  <2>2. v.at \in Nat
    BY <2>1, DeskAssumption DEF Times
  <2>3. DOMAIN incidents \subseteq DOMAIN after
    BY <1>1, RegroupedAreIncidents DEF IngestMakes
  <2> QED
    BY <2>1, <2>2, <2>3
<1>4. \A i \in DOMAIN after :
         /\ after[i] \in Incident /\ incidents'[i].root = after[i].root
         /\ incidents'[i].severity = after[i].severity - levels(i)
         /\ i \in DOMAIN incidents => /\ after[i].severity = incidents[i].severity
                                      /\ after[i].root = incidents[i].root
         /\ i \notin DOMAIN incidents => after[i].severity = Scored[after[i].root]
  BY <1>1, RaisedColumns, SeverityIsKept
<1>5. \A i \in DOMAIN after : levels(i) \in Nat /\ after[i].severity \in Nat /\ after[i].root \in Node
  <2> TAKE i \in DOMAIN after
  <2>1. after[i] \in Incident
    BY <1>4
  <2>2. levels(i) \in Nat
    BY <1>3, <2>1, RaisesAreFew
  <2> QED
    BY <2>1, <2>2 DEF Incident, Severity
<1> HIDE DEF rows, levels
<1>6. \A i \in DOMAIN after : {e \in escalations' : e.inc = i} = RaisesOf(i) \cup rows(i)
  <2> SUFFICES ASSUME NEW i \in DOMAIN after
               PROVE  {e \in escalations' : e.inc = i} = RaisesOf(i) \cup rows(i)
    OBVIOUS
  <2>1. \A e \in rows(i) : e \in escalations' /\ e.inc = i
    BY <1>2
  <2>2. ASSUME NEW e \in escalations', e.inc = i PROVE e \in RaisesOf(i) \/ e \in rows(i)
    <3>1. CASE e \in escalations
      BY <2>2, <3>1 DEF RaisesOf
    <3>2. CASE e \notin escalations
      <4>1. PICK j \in DOMAIN after : e \in rows(j)
        BY <1>2, <3>2
      <4>2. j = i
        BY <1>2, <2>2, <4>1
      <4> QED
        BY <4>1, <4>2
    <3> QED
      BY <3>1, <3>2
  <2>3. \A e \in RaisesOf(i) : e \in escalations' /\ e.inc = i
    BY <1>2 DEF RaisesOf
  <2> QED
    BY <2>1, <2>2, <2>3
<1>7. \A e \in escalations' : e.inc \in DOMAIN after /\ e.at \in Nat
  BY <1>2, <1>3 DEF RaisesAddUp, IncidentIds
<1>8. ASSUME NEW i \in DOMAIN after
      PROVE  LET of == {e \in escalations' : e.inc = i}
             IN  /\ IsFiniteSet(of)
                 /\ incidents'[i].severity = Scored[incidents'[i].root] - Cardinality(of)
  <2> DEFINE of == {e \in escalations' : e.inc = i}
  <2>1. of = RaisesOf(i) \cup rows(i)
    BY <1>6
  <2>2. /\ IsFiniteSet(RaisesOf(i)) /\ IsFiniteSet(rows(i)) /\ Cardinality(rows(i)) = levels(i)
        /\ RaisesOf(i) \cap rows(i) = {}
    BY <1>2
  <2>3. Cardinality(RaisesOf(i)) \in Nat
    BY <2>2, FS_CardinalityType
  <2> HIDE DEF of
  <2>4. /\ IsFiniteSet(of)
        /\ Cardinality(of) = Cardinality(RaisesOf(i)) + Cardinality(rows(i))
                                - Cardinality(RaisesOf(i) \cap rows(i))
    BY <2>1, <2>2, FS_Union
  <2>5. Cardinality(of) = Cardinality(RaisesOf(i)) + levels(i)
    <3>1. Cardinality(RaisesOf(i) \cap rows(i)) = 0
      BY <2>2, FS_EmptySet
    <3> QED
      BY <1>5, <2>2, <2>3, <2>4, <3>1
  <2>6. Scored[after[i].root] \in Nat
    <3>1. Scored[after[i].root] \in Severity
      BY <1>5, DeskAssumption
    <3> QED
      BY <3>1 DEF Severity
  <2>7. after[i].severity = Scored[after[i].root] - Cardinality(RaisesOf(i))
    <3>1. CASE i \in DOMAIN incidents
      <4>1. incidents[i].severity = Scored[incidents[i].root] - Cardinality(RaisesOf(i))
        BY <3>1 DEF RaisesAddUp, IncidentIds
      <4> QED
        BY <1>4, <3>1, <4>1
    <3>2. CASE i \notin DOMAIN incidents
      <4>1. Cardinality(RaisesOf(i)) = 0
        BY <1>2, <3>2, FS_EmptySet
      <4> QED
        BY <1>4, <2>6, <3>2, <4>1
    <3> QED
      BY <3>1, <3>2
  <2>8. /\ incidents'[i].severity = after[i].severity - levels(i)
        /\ incidents'[i].root = after[i].root /\ levels(i) \in Nat
    BY <1>4, <1>5
  <2>9. incidents'[i].severity = Scored[incidents'[i].root] - Cardinality(of)
    BY <2>3, <2>5, <2>6, <2>7, <2>8
  <2> QED
    BY <2>4, <2>9 DEF of
<1>9. ASSUME NEW e \in escalations', e.reason[1] = "overdue"
      PROVE  e.reason[2] \in Nat /\ e.reason[2] > incidents'[e.inc].severity
  <2>1. CASE e \in escalations
    <3> DEFINE i == e.inc
    <3>1. i \in DOMAIN incidents /\ e.reason[2] \in Nat /\ e.reason[2] > incidents[i].severity
      BY <1>9, <2>1 DEF RaisesAddUp, IncidentIds
    <3> HIDE DEF i
    <3>2. /\ incidents'[i].severity = incidents[i].severity - levels(i)
          /\ levels(i) \in Nat /\ incidents[i].severity \in Nat
      BY <1>3, <1>4, <1>5, <3>1
    <3>3. i \in DOMAIN after
      BY <1>3, <3>1
    <3> QED
      BY <2>1, <3>1, <3>2 DEF i
  <2>2. CASE e \notin escalations
    <3>1. PICK i \in DOMAIN after : e \in rows(i)
      BY <1>2, <2>2
    <3>2. e.inc = i /\ 0 \in Raises(i, after[i], v.at) /\ e.reason[2] = after[i].severity
      BY <1>2, <1>9, <3>1
    <3>3. levels(i) # 0
      <4>1. IsFiniteSet(Raises(i, after[i], v.at))
        BY <1>3, <1>4, RaisesAreFew, FS_Subset
      <4> QED
        BY <3>2, <4>1, FS_EmptySet DEF levels
    <3>4. /\ incidents'[i].severity = after[i].severity - levels(i)
          /\ levels(i) \in Nat /\ after[i].severity \in Nat
      BY <1>4, <1>5
    <3> QED
      BY <3>2, <3>3, <3>4
  <2> QED
    BY <2>1, <2>2
<1> QED
  BY <1>3, <1>7, <1>8, <1>9 DEF RaisesAddUp, RaisesOf, IncidentIds

\* Every other step leaves the raises alone.
LEMMA NextRaisesAddUp == Rows /\ RaisesAddUp /\ [Next]_vars => RaisesAddUp'
<1> SUFFICES ASSUME Rows, RaisesAddUp, [Next]_vars PROVE RaisesAddUp'
  OBVIOUS
<1>1. CASE UNCHANGED <<incidents, escalations>>
  BY <1>1 DEF RaisesAddUp, RaisesOf, IncidentIds
<1> QED
  BY <1>1, OtherSteps, IngestRaisesAddUp

\* An incident's severity is what lineage scored less one level for each raise recorded,
\* whatever was merged, resolved or reopened between, in whatever order runs arrive.
THEOREM SeverityIsExplained == Spec => []RaisesExplainSeverity
<1>1. IInv /\ RaisesAddUp /\ [Next]_vars => RaisesAddUp'
  BY NextRaisesAddUp DEF IInv
<1>2. RaisesAddUp => RaisesExplainSeverity
  BY DEF RaisesAddUp, RaisesExplainSeverity, RaisesOf
<1> QED
  BY <1>1, <1>2, InitRaisesAddUp, Invariance, PTL DEF Spec

\* The latest of finitely many times is no earlier than any of them.
LEMMA LatestIsLatest ==
    ASSUME NEW T, T \subseteq Nat, T # {}, IsFiniteSet(T)
    PROVE  Latest(T) \in T /\ \A u \in T : u <= Latest(T)
<1>1. \E x \in T : \A u \in T : u <= x
  BY Greatest
<1> QED
  BY <1>1 DEF Latest

\* A raise of an overdue incident leaves the full time of its severity since it was opened
\* and since every raise recorded before it.
THEOREM OverdueRaisesWait == Spec => OverdueWaits
<1> DEFINE Waits == \A e \in escalations' \ escalations : e.reason[1] = "overdue" =>
              \A at \in {incidents'[e.inc].openedAt}
                           \cup {d.at : d \in {x \in escalations : x.inc = e.inc}} :
                 at + AfterHours[e.reason[2]] <= e.at
<1>1. ASSUME IInv, RaisesAddUp, [Next]_vars PROVE [Waits]_vars
  <2>1. CASE UNCHANGED escalations
    BY <2>1
  <2>2. ASSUME NEW t \in Target, Ingest(t) PROVE Waits
    <3> SUFFICES ASSUME NEW e \in escalations' \ escalations, e.reason[1] = "overdue",
                        NEW at \in {incidents'[e.inc].openedAt}
                                      \cup {d.at : d \in {x \in escalations : x.inc = e.inc}}
                 PROVE  at + AfterHours[e.reason[2]] <= e.at
      OBVIOUS
    <3>1. PICK v, assigned, after : IngestMakes(t, v, assigned, after)
      BY <1>1, <2>2, IngestSays DEF IInv
    <3>2. PICK i \in DOMAIN after :
             /\ IsFiniteSet(RaisesOf(i)) /\ e.inc = i /\ e.at = v.at
             /\ 0 \in Raises(i, after[i], v.at) /\ e.reason = <<"overdue", after[i].severity>>
      BY <1>1, <2>2, <3>1, IngestRaises DEF IInv
    <3> DEFINE inc == after[i]
               T == {inc.openedAt} \cup {d.at : d \in RaisesOf(i)}
    <3>3. inc \in Incident /\ v.at \in Times /\ v.at \in Nat
      <4>1. v.at \in Times
        BY <3>1 DEF IngestMakes, IsView
      <4>2. inc \in Incident
        BY <1>1, <3>1, SeverityIsKept DEF IInv
      <4> QED
        BY <4>1, <4>2, DeskAssumption DEF Times
    <3>4. incidents'[i].openedAt = inc.openedAt
      BY <3>1, RaisedColumns
    <3> HIDE DEF inc
    <3>5. at \in T
      BY <3>2, <3>4 DEF RaisesOf
    <3>6. T \subseteq Nat /\ T # {}
      BY <1>1, <3>3 DEF RaisesAddUp, RaisesOf, Incident
    <3>7. IsFiniteSet(T)
      <4> DEFINE U == {d.at : d \in RaisesOf(i)}
      <4>1. [d \in RaisesOf(i) |-> d.at] \in Surjection(RaisesOf(i), U)
        BY DEF Surjection
      <4>2. IsFiniteSet(U) /\ IsFiniteSet({inc.openedAt})
        BY <3>2, <4>1, FS_Surjection, FS_Singleton
      <4> QED
        BY <4>2, FS_Union
    <3>8. at <= Latest(T) /\ Latest(T) \in Nat /\ at \in Nat
      <4> HIDE DEF T
      <4> QED
        BY <3>5, <3>6, <3>7, LatestIsLatest
    <3>9. v.at >= Latest(T) + AfterHours[inc.severity]
      <4>1. 0 \in Due(i, inc, v.at)
        BY <3>2 DEF Raises, inc
      <4>2. 0 \notin DOMAIN OpenWindows[inc.root][v.at]
        <5>1. OpenWindows[inc.root][v.at] \in Seq({"window"} \X Nat)
          BY <3>3, DeskAssumption DEF Incident
        <5> QED
          BY <5>1
      <4> QED
        BY <4>1, <4>2 DEF Due, RaisesOf
    <3>10. AfterHours[inc.severity] \in Nat
      BY <3>3, DeskAssumption DEF Incident
    <3>11. e.reason[2] = inc.severity
      BY <3>2 DEF inc
    <3> QED
      BY <3>2, <3>3, <3>8, <3>9, <3>10, <3>11
  <2> QED
    BY <1>1, <2>1, <2>2, OtherSteps
<1>2. IInv /\ RaisesAddUp /\ [Next]_vars => RaisesAddUp'
  BY NextRaisesAddUp DEF IInv
<1> QED
  BY <1>1, <1>2, InitRaisesAddUp, Invariance, PTL DEF Spec, OverdueWaits

-----------------------------------------------------------------------------
(* A run's failures and the resolutions of that run.                       *)

\* Every failing check on record is in an incident of the table, and its run has not
\* resolved that incident.
FailuresUnresolved ==
    \A r \in Run, n \in Node : eventOf[r][n] # 0 =>
        eventOf[r][n] \in IncidentIds /\ incidents[eventOf[r][n]].resolvedBy # r

\* The incident that an ingest gives to a root is open, or the run's own.
LEMMA TakenAreUnresolved ==
    ASSUME NEW t \in Target, Rows, ResolvedByALaterRun, Ingest(t),
           NEW v, NEW assigned, NEW after, IngestMakes(t, v, assigned, after),
           NEW r \in Roots(v)
    PROVE  assigned[r] \in DOMAIN incidents' /\ incidents'[assigned[r]].resolvedBy # t.run
<1> DEFINE i == assigned[r]
<1>1. /\ IsView(v) /\ Assigns(v, assigned) /\ after = Regrouped(v, assigned)
      /\ v.incs = incidents /\ v.run = t.run /\ DOMAIN incidents' = DOMAIN after
  BY DEF IngestMakes
<1>2. i \in DOMAIN after
  BY <1>1, RegroupedAreIncidents
<1>3. incidents'[i].resolvedBy = after[i].resolvedBy
  BY <1>2, RaisedColumns
<1>4. t.run # NoRun
  BY TargetRun
<1>5. CASE r \in Opened(v, assigned)
  <2>1. after[i] = NewIncident(v, r, Paged(v, assigned)[r])
    BY <1>1, <1>5, RegroupedRows
  <2> QED
    BY <1>1, <1>2, <1>3, <1>4, <2>1 DEF NewIncident
<1>6. CASE i \in Before(v)
  <2>1. i \in DOMAIN incidents /\ ~(i > Len(incidents))
    BY <1>1, <1>6 DEF Before, Rows, Numbered
  <2>2. i \in Appended(v, assigned)
    BY <1>6 DEF Appended, Taken
  <2>3. i \in 1..(Len(v.incs) + Cardinality(Opened(v, assigned)))
    BY <1>1, <2>1 DEF Rows, Numbered, Assigns
  <2>4. after[i] = Reopen(incidents[i])
    BY <1>1, <2>1, <2>2, <2>3 DEF Regrouped
  <2>5. incidents[i] \in Incident
    BY <2>1 DEF Rows, IncidentIds
  <2> QED
    BY <1>1, <1>2, <1>3, <1>4, <2>4, <2>5, ReopenIs
<1>7. CASE i \in Mine(v)
  <2>1. i \in DOMAIN incidents /\ incidents[i].openedBy = t.run
    BY <1>1, <1>7 DEF Mine
  <2>2. incidents[i].resolvedBy # t.run
    BY <1>4, <2>1 DEF ResolvedByALaterRun, IncidentIds
  <2>3. Kept(i) \/ TakenBack(i, t) \/ ResolvedNow(i, t)
    BY <2>1, IngestStep
  <2> QED
    BY <1>1, <1>2, <1>4, <2>1, <2>2, <2>3 DEF Kept, TakenBack, ResolvedNow
<1> QED
  BY <1>1, <1>5, <1>6, <1>7 DEF Assigns

\* An ingest leaves no failure of any run in an incident that this run resolved.
LEMMA IngestUnresolved ==
    ASSUME NEW t \in Target, IInv, TypeOK, FailuresUnresolved, Ingest(t)
    PROVE  FailuresUnresolved'
<1>1. PICK v, assigned, after : IngestMakes(t, v, assigned, after)
  BY IngestSays DEF IInv
<1>2. v = ViewOf(t) /\ IsView(v) /\ assigned = Assignment(v)
  BY <1>1 DEF IngestMakes
<1>3. eventOf' = [eventOf EXCEPT ![t.run] =
         [n \in Node |-> IF n \in v.events THEN assigned[v.rootOf[Subject[n]]] ELSE 0]]
  BY <1>2 DEF Ingest
<1> SUFFICES ASSUME NEW r \in Run, NEW n \in Node, eventOf'[r][n] # 0
             PROVE  /\ eventOf'[r][n] \in DOMAIN incidents'
                    /\ incidents'[eventOf'[r][n]].resolvedBy # r
  BY DEF FailuresUnresolved, IncidentIds
<1>4. CASE r # t.run
  <2>1. eventOf'[r] = eventOf[r]
    BY <1>3, <1>4 DEF TypeOK
  <2> DEFINE i == eventOf[r][n]
  <2>2. i \in DOMAIN incidents /\ incidents[i].resolvedBy # r
    BY <2>1 DEF FailuresUnresolved, IncidentIds
  <2>3. /\ i \in DOMAIN incidents'
        /\ Kept(i) \/ TakenBack(i, t) \/ ResolvedNow(i, t)
    BY <2>2, IngestStep DEF IInv
  <2>4. incidents'[i].resolvedBy # r
    BY <1>4, <2>2, <2>3, DeskAssumption DEF Kept, TakenBack, ResolvedNow
  <2> QED
    BY <2>1, <2>3, <2>4
<1>5. CASE r = t.run
  <2>1. eventOf'[r] = [m \in Node |-> IF m \in v.events
                                      THEN assigned[v.rootOf[Subject[m]]] ELSE 0]
    BY <1>3, <1>5 DEF TypeOK
  <2>2. n \in v.events /\ eventOf'[r][n] = assigned[v.rootOf[Subject[n]]]
    BY <2>1
  <2>3. DOMAIN v.rootOf = {Subject[m] : m \in v.events}
    BY <1>2, ViewSays
  <2>4. v.rootOf[Subject[n]] \in Roots(v)
    BY <2>2, <2>3 DEF Roots
  <2> QED
    BY <1>1, <1>5, <2>2, <2>4, TakenAreUnresolved DEF IInv
<1> QED
  BY <1>4, <1>5

\* Nothing has failed yet, and a step that is no ingest changes neither table.
LEMMA StaysUnresolved ==
    /\ Init => FailuresUnresolved
    /\ IInv /\ TypeOK /\ FailuresUnresolved /\ [Next]_vars => FailuresUnresolved'
<1>1. Init => FailuresUnresolved
  BY DEF Init, FailuresUnresolved
<1>2. ASSUME IInv, TypeOK, FailuresUnresolved, [Next]_vars PROVE FailuresUnresolved'
  <2>1. CASE UNCHANGED <<incidents, eventOf>>
    BY <1>2, <2>1 DEF FailuresUnresolved, IncidentIds
  <2> QED
    BY <1>2, <2>1, OtherSteps, IngestUnresolved
<1> QED
  BY <1>1, <1>2

\* What a run has said of a root.
FoundHealthy(r, ran, root) == Healthy(View(<<>>, r, 0, ran), root)

\* It is what an ingest of the run goes by, and an ingest of another run leaves it alone.
LEMMA SameEvidence ==
    ASSUME NEW t \in Target, NEW root
    PROVE  /\ Healthy(ViewOf(t), root) = FoundHealthy(t.run, Ran(t), root)
           /\ \A r \in Run \ {t.run} : FoundHealthy(r, Ran(t), root) = FoundHealthy(r, ranBy, root)
<1>1. ASSUME NEW v, NEW w, v.status = w.status PROVE Healthy(v, root) = Healthy(w, root)
  BY <1>1 DEF Healthy
<1>2. ViewOf(t).status = [n \in Node |-> Worst(t.run, Ran(t), n)]
  BY DEF ViewOf, View
<1>3. View(<<>>, t.run, 0, Ran(t)).status = [n \in Node |-> Worst(t.run, Ran(t), n)]
  BY DEF View
<1>4. ASSUME NEW r \in Run \ {t.run}
      PROVE  View(<<>>, r, 0, Ran(t)).status = View(<<>>, r, 0, ranBy).status
  <2>1. \A n \in Node : Worst(r, Ran(t), n) = Worst(r, ranBy, n)
    BY ReportedGrows DEF Worst
  <2>2. [n \in Node |-> Worst(r, Ran(t), n)] = [n \in Node |-> Worst(r, ranBy, n)]
    BY <2>1
  <2>3. View(<<>>, r, 0, Ran(t)).status = [n \in Node |-> Worst(r, Ran(t), n)]
    BY DEF View
  <2>4. View(<<>>, r, 0, ranBy).status = [n \in Node |-> Worst(r, ranBy, n)]
    BY DEF View
  <2> QED
    BY <2>2, <2>3, <2>4
<1>5. Healthy(ViewOf(t), root) = FoundHealthy(t.run, Ran(t), root)
  <2> DEFINE v == ViewOf(t)
             w == View(<<>>, t.run, 0, Ran(t))
  <2>1. v.status = w.status
    BY <1>2, <1>3
  <2> HIDE DEF v, w
  <2>2. Healthy(v, root) = Healthy(w, root)
    BY <1>1, <2>1
  <2> QED
    BY <2>2 DEF v, w, FoundHealthy
<1>6. ASSUME NEW r \in Run \ {t.run}
      PROVE  FoundHealthy(r, Ran(t), root) = FoundHealthy(r, ranBy, root)
  <2> DEFINE v == View(<<>>, r, 0, Ran(t))
             w == View(<<>>, r, 0, ranBy)
  <2>1. v.status = w.status
    BY <1>4
  <2> HIDE DEF v, w
  <2>2. Healthy(v, root) = Healthy(w, root)
    BY <1>1, <2>1
  <2> QED
    BY <2>2 DEF v, w, FoundHealthy
<1> QED
  BY <1>5, <1>6

\* The invariant: the evidence of the run that resolved an incident, when none of it is
\* older than the incident, shows its root healthy.
NotOlder(r, i) == \A j \in Invocation : ranBy[j] = r => incidents[i].openedAt <= At[j]

HealthStands ==
    \A i \in IncidentIds :
        /\ Live(incidents[i]) /\ incidents[i].resolvedBy # NoRun
        /\ NotOlder(incidents[i].resolvedBy, i)
        => FoundHealthy(incidents[i].resolvedBy, ranBy, incidents[i].root)

\* Of the incidents of other runs an ingest leaves only those resolved whose root it finds
\* healthy.
LEMMA SettledAreHealthy ==
    ASSUME NEW t \in Target, Rows, Ingest(t),
           NEW v, NEW assigned, NEW after, IngestMakes(t, v, assigned, after),
           NEW i \in Before(v), incidents'[i].resolvedBy = t.run
    PROVE  Healthy(v, incidents[i].root)
<1>1. /\ IsView(v) /\ Assigns(v, assigned) /\ after = Regrouped(v, assigned)
      /\ v.incs = incidents /\ v.run = t.run /\ t.run # NoRun
  BY TargetRun DEF IngestMakes
<1>2. /\ i \in DOMAIN incidents /\ incidents[i] \in Incident /\ ~(i > Len(incidents))
      /\ i \in 1..(Len(v.incs) + Cardinality(Opened(v, assigned)))
  BY <1>1 DEF Before, Rows, Numbered, IncidentIds, Assigns
<1>3. i \notin Merged(v, assigned)
  BY DEF Before, Merged, Mine
<1>4. after[i] = IF i \in Appended(v, assigned) THEN Reopen(incidents[i]) ELSE Settle(v, incidents[i])
  BY <1>1, <1>2, <1>3 DEF Regrouped
<1>5. after[i].resolvedBy = t.run
  <2>1. i \in DOMAIN after
    BY <1>1, <1>2, RegroupedAreIncidents
  <2> QED
    BY <2>1, RaisedColumns
<1>6. Reopen(incidents[i]).resolvedBy = NoRun
  BY <1>2, ReopenIs
<1> QED
  BY <1>1, <1>4, <1>5, <1>6 DEF Settle

\* An ingest looks again at every incident that its run resolved and that is not younger
\* than the evidence it brings.
LEMMA IngestHealthStands ==
    ASSUME NEW t \in Target, IInv, HealthStands, Ingest(t)
    PROVE  HealthStands'
<1>1. PICK v, assigned, after : IngestMakes(t, v, assigned, after)
  BY IngestSays DEF IInv
<1>2. /\ v = ViewOf(t) /\ v.incs = incidents /\ v.run = t.run /\ v.at = Detected(t)
      /\ t.run # NoRun /\ Fresh(t) # {}
  BY <1>1, TargetRun DEF IngestMakes, Ingest
<1>3. outcome' = outcome /\ ranBy' = Ran(t)
  BY DEF Ingest
<1> SUFFICES ASSUME NEW i \in DOMAIN incidents', Live(incidents'[i]),
                    incidents'[i].resolvedBy # NoRun,
                    \A j \in Invocation :
                        Ran(t)[j] = incidents'[i].resolvedBy => incidents'[i].openedAt <= At[j]
             PROVE  FoundHealthy(incidents'[i].resolvedBy, Ran(t), incidents'[i].root)
  <2>1. \A r, root : FoundHealthy(r, ranBy, root)' = FoundHealthy(r, Ran(t), root)
    BY <1>3 DEF FoundHealthy, Healthy, View, Worst, Reported
  <2> QED
    BY <1>3, <2>1 DEF HealthStands, NotOlder, IncidentIds, Live
<1> DEFINE r == incidents'[i].resolvedBy
<1>4. /\ i \in DOMAIN incidents
      /\ Kept(i) \/ TakenBack(i, t) \/ ResolvedNow(i, t)
      /\ incidents'[i].root = incidents[i].root
      /\ incidents'[i].openedBy = incidents[i].openedBy
      /\ incidents'[i].openedAt = incidents[i].openedAt
      /\ ~Live(incidents[i]) => incidents'[i] = incidents[i]
  BY IngestStep DEF IInv
<1>5. Live(incidents[i]) /\ incidents[i] \in Incident
  BY <1>4 DEF IInv, Rows, IncidentIds
<1>6. CASE r # t.run
  <2>1. incidents[i].resolvedBy = r
    BY <1>4, <1>6 DEF Kept, TakenBack, ResolvedNow
  <2>2. r \in Run
    BY <1>5, <2>1 DEF Incident
  <2>3. \A j \in Invocation : ranBy[j] = r => Ran(t)[j] = r
    BY <2>1 DEF Ran, Fresh
  <2>4. NotOlder(r, i)
    BY <1>4, <2>3 DEF NotOlder
  <2>5. FoundHealthy(r, ranBy, incidents[i].root)
    BY <1>4, <1>5, <2>1, <2>4 DEF HealthStands, IncidentIds
  <2> QED
    BY <1>4, <1>6, <2>2, <2>5, SameEvidence
<1>7. CASE r = t.run
  <2>1. incidents[i].openedAt <= v.at
    <3>1. PICK j \in Fresh(t) : At[j] = Detected(t)
      BY <1>2, DetectedIsOfAPiece
    <3>2. j \in Invocation /\ Ran(t)[j] = t.run
      BY DeskAssumption DEF Fresh, Ran
    <3> QED
      BY <1>2, <1>4, <1>7, <3>1, <3>2
  <2>2. incidents[i].resolvedBy \in {NoRun, t.run}
    BY <1>4, <1>7 DEF Kept, TakenBack, ResolvedNow
  <2>3. incidents[i].openedBy # t.run
    BY <1>2, <1>4, <1>7 DEF Kept, TakenBack, ResolvedNow, IInv, ResolvedByALaterRun, IncidentIds
  <2>4. i \in Before(v)
    BY <1>2, <1>4, <1>5, <2>1, <2>2, <2>3 DEF Before
  <2>5. Healthy(v, incidents[i].root)
    BY <1>1, <1>7, <2>4, SettledAreHealthy DEF IInv
  <2> QED
    BY <1>2, <1>4, <1>7, <2>5, SameEvidence
<1> QED
  BY <1>6, <1>7

\* There is nothing resolved yet, and a step that is no ingest changes nothing of this.
LEMMA StaysHealthy ==
    /\ Init => HealthStands
    /\ IInv /\ HealthStands /\ [Next]_vars => HealthStands'
<1>1. Init => HealthStands
  BY DEF Init, HealthStands, IncidentIds
<1>2. ASSUME IInv, HealthStands, [Next]_vars PROVE HealthStands'
  <2>1. CASE UNCHANGED <<outcome, ranBy, incidents>>
    <3>1. \A r, root : FoundHealthy(r, ranBy, root)' = FoundHealthy(r, ranBy, root)
      BY <2>1 DEF FoundHealthy, Healthy, View, Worst, Reported
    <3> QED
      BY <1>2, <2>1, <3>1 DEF HealthStands, NotOlder, IncidentIds, Live
  <2> QED
    BY <1>2, <2>1, OtherSteps, IngestHealthStands
<1> QED
  BY <1>1, <1>2

\* In whatever order the invocations of any runs reach the desk: what a run reported,
\* unless it is older than the incident, is held against its resolutions, and no run has a
\* failing check in an incident that it resolved.
THEOREM ResolutionsAreHealthy == Spec => []ResolvedIsHealthy
<1>1. IInv /\ FailuresUnresolved /\ HealthStands => ResolvedIsHealthy
  BY DEF IInv, Rows, Numbered, IncidentIds, FailuresUnresolved, HealthStands, FoundHealthy,
         NotOlder, ResolvedIsHealthy
<1> QED
  BY <1>1, StaysUnresolved, StaysHealthy, Invariance, TypesHold, PTL DEF Spec

-----------------------------------------------------------------------------
(* The lineage: what is above a node.                                      *)

\* Reach is the relation of parents, followed step by step.
LEMMA ReachIs == Climbs(Reach, Node, [n \in Node |-> Parents(n)])
<1> DEFINE up == [n \in Node |-> Parents(n)]
           Grows(f) == f = [k \in 0..Cardinality(Node) |->
                              IF k = 0 THEN [n \in Node |-> {n}]
                              ELSE LET nearer == f[k - 1]
                                   IN  [n \in Node |-> nearer[n] \cup UNION {nearer[p] : p \in Parents(n)}]]
<1>1. IsFiniteSet(Node) /\ Cardinality(Node) \in Nat /\ up \in [Node -> SUBSET Node]
  BY GraphAssumption, FS_CardinalityType DEF Parents
<1>2. PICK f : IsClimb(f, Node, up)
  <2> HIDE DEF up
  <2> QED
    BY <1>1, Climbing
<1>3. Grows(f)
  BY <1>2 DEF IsClimb
<1>4. Reach = CHOOSE g : Grows(g)
  BY DEF Reach
<1>5. Grows(Reach)
  <2> HIDE DEF Grows
  <2> QED
    BY <1>3, <1>4
<1>6. 0 \in 0..Cardinality(Node) /\ \A k \in 1..Cardinality(Node) : k \in 0..Cardinality(Node) /\ k # 0
  BY <1>1
<1>7. Reach[0] = [n \in Node |-> {n}]
  BY <1>5, <1>6
<1>8. ASSUME NEW k \in 1..Cardinality(Node)
      PROVE  Reach[k] = [n \in Node |-> Reach[k - 1][n] \cup UNION {Reach[k - 1][p] : p \in up[n]}]
  <2>1. Reach[k] = [n \in Node |-> Reach[k - 1][n] \cup UNION {Reach[k - 1][p] : p \in Parents(n)}]
    BY <1>5, <1>6
  <2> QED
    BY <2>1
<1> QED
  BY <1>7, <1>8 DEF Climbs

\* What is above is in the project, what is above it is above too, and something is built
\* from it.
LEMMA AboveSays ==
    ASSUME NEW n \in Node, NEW m \in Above[n]
    PROVE  m \in Node /\ Above[m] \subseteq Above[n] /\ \E e \in Edge : e[1] = m
<1> DEFINE up == [l \in Node |-> Parents(l)]
           N == Cardinality(Node)
<1>1. IsFiniteSet(Node) /\ up \in [Node -> SUBSET Node] /\ N \in Nat
  BY GraphAssumption, FS_CardinalityType DEF Parents
<1>2. N \in 0..N /\ \A l \in Node : Above[l] = Reach[N][l] \ {l}
  BY <1>1 DEF Above, Within
<1>3. Climbs(Reach, Node, up)
  BY ReachIs
<1>4. m \in Reach[N][n] /\ m # n
  BY <1>2
<1>5. \A l \in Node : Reach[N][l] \subseteq Node
  <2> HIDE DEF up
  <2> QED
    BY <1>1, <1>2, <1>3, ClimbsFurther
<1>6. /\ Reach[N][m] \subseteq Reach[N][n]
      /\ m = n \/ \E l \in Node : m \in up[l]
  <2> HIDE DEF up
  <2> QED
    BY <1>1, <1>3, <1>4, ClimbIsTransitive
<1>7. m \in Node /\ n \notin Above[m]
  BY <1>4, <1>5, AcyclicAssumption
<1>8. Above[m] \subseteq Above[n]
  BY <1>2, <1>6, <1>7
<1>9. \E e \in Edge : e[1] = m
  BY <1>4, <1>6 DEF Parents
<1> QED
  BY <1>7, <1>8, <1>9

\* The root of a failed node is the node itself or above it.
LEMMA RootsAreAbove ==
    ASSUME NEW failed \in SUBSET Node, NEW n \in failed
    PROVE  RootOf(failed)[n] \in Above[n] \cup {n}
<1> DEFINE N == Cardinality(failed)
<1>1. PICK climbed :
         /\ RootOf(failed) = climbed[N]
         /\ \A k \in 0..N : climbed[k] \in [failed -> failed]
         /\ \A m \in failed : climbed[0][m] = m
         /\ \A k \in 1..N : \A m \in failed : climbed[k][m] = Up(failed)[climbed[k - 1][m]]
  BY RootOfSays
<1>2. N \in Nat
  BY RootOfSays
<1>3. ASSUME NEW m \in failed PROVE Up(failed)[m] \in Above[m] \cup {m}
  <2>1. CASE Closest(m, failed) = {}
    BY <2>1 DEF Up
  <2>2. CASE Closest(m, failed) # {}
    <3>1. Closest(m, failed) \in SUBSET Above[m] /\ Above[m] \subseteq Node
      BY AboveSays DEF Closest
    <3>2. Smallest(Closest(m, failed)) \in Closest(m, failed)
      BY <2>2, <3>1, SmallestIsOne
    <3> QED
      BY <2>2, <3>1, <3>2 DEF Up
  <2> QED
    BY <2>1, <2>2
<1> HIDE DEF N
<1> DEFINE T == {k \in Nat : k \in 0..N => climbed[k][n] \in Above[n] \cup {n}}
<1>4. 0 \in T
  BY <1>1
<1>5. ASSUME NEW k \in Nat, k \in T PROVE k + 1 \in T
  <2> SUFFICES ASSUME k + 1 \in 0..N PROVE climbed[k + 1][n] \in Above[n] \cup {n}
    OBVIOUS
  <2>1. k \in 0..N /\ k + 1 \in 1..N /\ (k + 1) - 1 = k
    BY <1>2
  <2> DEFINE m == climbed[k][n]
  <2>2. m \in failed /\ m \in Above[n] \cup {n}
    BY <1>1, <1>5, <2>1
  <2>3. climbed[k + 1][n] = Up(failed)[m]
    BY <1>1, <2>1
  <2> HIDE DEF m
  <2>4. Up(failed)[m] \in Above[m] \cup {m}
    BY <1>3, <2>2
  <2>5. m # n => Above[m] \subseteq Above[n]
    BY <2>2, AboveSays
  <2> QED
    BY <2>2, <2>3, <2>4, <2>5
<1>6. Nat \subseteq T
  <2> HIDE DEF T
  <2> QED
    BY <1>4, <1>5, EveryNumber
<1>7. N \in T /\ N \in 0..N
  BY <1>2, <1>6
<1> QED
  BY <1>1, <1>7

-----------------------------------------------------------------------------
(* Matching, once more.                                                    *)

\* The incidents that fit a root, rule by rule.
FittingBy(v, root) ==
    LET before == Before(v)
    IN  <<{i \in before : v.incs[i].root = root},
          {i \in before : v.incs[i].root \in FailedNodes(v, root)},
          {i \in before : root \in Above[v.incs[i].root]},
          {i \in before : v.incs[i].root \in Above[root] /\ ~Covered(v, v.incs[i].root)},
          {i \in Mine(v) : v.incs[i].root = root}>>

\* The first rule that fits some incident decides, and the first incident it fits is taken.
LEMMA MatchByRules ==
    ASSUME NEW v, Numbered(v.incs), NEW root,
           NEW rules, rules = FittingBy(v, root)
    PROVE  /\ (\A k \in 1..5 : rules[k] = {}) => Match(v, root) = 0
           /\ \A k \in 1..5 : rules[k] # {} /\ (\A j \in 1..5 : j < k => rules[j] = {}) =>
                 Match(v, root) = First(rules[k]) /\ First(rules[k]) \in rules[k]
           /\ (\E k \in 1..5 : rules[k] # {}) =>
                 \E k \in 1..5 : rules[k] # {} /\ \A j \in 1..5 : j < k => rules[j] = {}
<1> DEFINE fitting == {k \in 1..5 : rules[k] # {}}
<1>1. DOMAIN rules = 1..5 /\ \A k \in 1..5 : rules[k] \subseteq DOMAIN v.incs
  <2>1. DOMAIN rules = 1..5
    BY DEF FittingBy
  <2>2. Before(v) \subseteq DOMAIN v.incs /\ Mine(v) \subseteq DOMAIN v.incs
    BY DEF Before, Mine
  <2>3. /\ rules[1] \subseteq Before(v) /\ rules[2] \subseteq Before(v)
        /\ rules[3] \subseteq Before(v) /\ rules[4] \subseteq Before(v)
        /\ rules[5] \subseteq Mine(v)
    BY DEF FittingBy
  <2>4. \A k \in 1..5 : k = 1 \/ k = 2 \/ k = 3 \/ k = 4 \/ k = 5
    OBVIOUS
  <2> QED
    BY <2>1, <2>2, <2>3, <2>4
<1>2. Match(v, root) = IF fitting = {} THEN 0 ELSE First(rules[First(fitting)])
  <2>1. fitting = {k \in DOMAIN rules : rules[k] # {}}
    BY <1>1
  <2> QED
    BY <2>1 DEF Match, FittingBy
<1>3. \A k \in 1..5 : rules[k] \subseteq Nat
  BY <1>1 DEF Numbered
<1>4. (\A k \in 1..5 : rules[k] = {}) => Match(v, root) = 0
  BY <1>2
<1>5. ASSUME NEW k \in 1..5, rules[k] # {}, \A j \in 1..5 : j < k => rules[j] = {}
      PROVE  Match(v, root) = First(rules[k]) /\ First(rules[k]) \in rules[k]
  <2>1. k \in fitting /\ fitting \subseteq Nat /\ \A j \in fitting : ~(j < k) /\ j \in 1..5
    BY <1>5
  <2>2. First(fitting) \in fitting /\ First(fitting) <= k
    <3> HIDE DEF fitting
    <3> QED
      BY <2>1, FirstIsOne
  <2>3. First(fitting) = k
    BY <2>1, <2>2
  <2> HIDE DEF fitting
  <2>4. Match(v, root) = First(rules[k])
    BY <1>2, <2>1, <2>3
  <2> QED
    BY <1>3, <1>5, <2>4, FirstIsOne
<1>6. ASSUME NEW k \in 1..5, rules[k] # {}
      PROVE  \E l \in 1..5 : rules[l] # {} /\ \A j \in 1..5 : j < l => rules[j] = {}
  <2>1. fitting \subseteq Nat /\ fitting # {}
    BY <1>6
  <2>2. PICK l \in fitting : \A j \in fitting : l <= j
    <3> HIDE DEF fitting
    <3> QED
      BY <2>1, Least
  <2>3. ASSUME NEW j \in 1..5, j < l PROVE rules[j] = {}
    BY <2>2, <2>3
  <2> QED
    BY <2>2, <2>3
<1> QED
  BY <1>4, <1>5, <1>6

\* An incident of another run on the root itself is what the root fits first, and a root
\* that an incident of its own run has is never a new one.
LEMMA MatchFits ==
    ASSUME NEW v, Numbered(v.incs), NEW root
    PROVE  /\ \A i \in Before(v) : v.incs[i].root = root =>
                 Match(v, root) \in Before(v) /\ v.incs[Match(v, root)].root = root
           /\ \A i \in Mine(v) : v.incs[i].root = root => Match(v, root) # 0
<1> DEFINE m == Match(v, root)
<1>0. PICK rules : rules = FittingBy(v, root)
  OBVIOUS
<1>1. /\ rules[1] = {i \in Before(v) : v.incs[i].root = root}
      /\ rules[5] = {i \in Mine(v) : v.incs[i].root = root}
  BY <1>0 DEF FittingBy
<1>2. ASSUME NEW i \in Before(v), v.incs[i].root = root
      PROVE  m \in Before(v) /\ v.incs[m].root = root
  <2>1. 1 \in 1..5 /\ rules[1] # {} /\ \A j \in 1..5 : ~(j < 1)
    BY <1>1, <1>2
  <2>2. m \in rules[1]
    BY <1>0, <2>1, MatchByRules
  <2> QED
    BY <1>1, <2>2
<1>3. ASSUME NEW i \in Mine(v), v.incs[i].root = root PROVE m # 0
  <2>1. 5 \in 1..5 /\ rules[5] # {}
    BY <1>1, <1>3
  <2>2. PICK k \in 1..5 : rules[k] # {} /\ \A j \in 1..5 : j < k => rules[j] = {}
    BY <1>0, <2>1, MatchByRules
  <2>3. m = First(rules[k]) /\ m \in rules[k]
    BY <1>0, <2>2, MatchByRules
  <2>4. m = 0 \/ m \in Before(v) \/ m \in Mine(v)
    BY MatchIs
  <2>5. rules[k] \subseteq DOMAIN v.incs
    <3>1. k = 1 \/ k = 2 \/ k = 3 \/ k = 4 \/ k = 5
      OBVIOUS
    <3> QED
      BY <1>0, <3>1 DEF FittingBy, Before, Mine
  <2> QED
    BY <2>3, <2>5 DEF Numbered
<1> QED
  BY <1>2, <1>3

\* Two views of a run that agree on the incidents of other runs and on what failed match
\* a root to the same incident of another run.
LEMMA MatchSame ==
    ASSUME NEW v, NEW w, Numbered(v.incs), Numbered(w.incs), NEW root,
           Before(v) = Before(w), \A i \in Before(v) : v.incs[i].root = w.incs[i].root,
           v.rootOf = w.rootOf, v.status = w.status, Match(v, root) \in Before(v)
    PROVE  Match(w, root) = Match(v, root)
<1>0. PICK p, q : p = FittingBy(v, root) /\ q = FittingBy(w, root)
  OBVIOUS
<1>1. /\ \A i : Covered(v, i) = Covered(w, i)
      /\ FailedNodes(v, root) = FailedNodes(w, root)
  BY DEF Covered, FailedNodes
<1>2. p[1] = q[1] /\ p[2] = q[2] /\ p[3] = q[3] /\ p[4] = q[4]
  BY <1>0, <1>1 DEF FittingBy
<1>3. p[5] \subseteq Mine(v) /\ Mine(v) \cap Before(v) = {}
  BY <1>0 DEF FittingBy, Mine, Before
<1>4. Match(v, root) # 0
  BY DEF Before, Numbered
<1>5. PICK k \in 1..5 : p[k] # {} /\ \A j \in 1..5 : j < k => p[j] = {}
  BY <1>0, <1>4, MatchByRules
<1>6. Match(v, root) = First(p[k]) /\ First(p[k]) \in p[k]
  BY <1>0, <1>5, MatchByRules
<1>7. k # 5
  BY <1>3, <1>6
<1>8. \A j \in 1..5 : j <= k => p[j] = q[j]
  <2>1. k \in 1..4
    BY <1>7
  <2>2. \A j \in 1..5 : j <= k => j = 1 \/ j = 2 \/ j = 3 \/ j = 4
    BY <2>1
  <2> QED
    BY <1>2, <2>2
<1>9. q[k] = p[k] /\ \A j \in 1..5 : j < k => q[j] = {}
  BY <1>5, <1>8
<1>10. Match(w, root) = First(q[k])
  BY <1>0, <1>5, <1>9, MatchByRules
<1> QED
  BY <1>6, <1>9, <1>10

\* A root has a new incident when it matches none, and else the one it matches.
LEMMA AssignmentIs ==
    ASSUME NEW v, Numbered(v.incs), Roots(v) \subseteq Node, IsFiniteSet(Roots(v)),
           NEW assigned, assigned = Assignment(v), NEW x \in Roots(v)
    PROVE  /\ x \in Opened(v, assigned) <=> Match(v, x) = 0
           /\ Match(v, x) # 0 => assigned[x] = Match(v, x)
<1> DEFINE new == {r \in Roots(v) : Match(v, r) = 0}
           upTo == {n \in new : Rank[n] <= Rank[x]}
<1>1. CASE Match(v, x) # 0
  <2>1. assigned[x] = Match(v, x)
    BY <1>1 DEF Assignment
  <2>2. assigned[x] \in DOMAIN v.incs
    BY <1>1, <2>1, MatchIs DEF Before, Mine
  <2>3. ~(assigned[x] > Len(v.incs))
    BY <2>2 DEF Numbered
  <2> QED
    BY <1>1, <2>1, <2>3 DEF Opened
<1>2. CASE Match(v, x) = 0
  <2>1. assigned[x] = Len(v.incs) + Cardinality(upTo)
    BY <1>2 DEF Assignment
  <2>2. upTo \in SUBSET Roots(v) /\ x \in upTo
    BY <1>2, GraphAssumption
  <2> HIDE DEF upTo
  <2>3. Cardinality(upTo) \in Nat /\ Cardinality(upTo) # 0
    BY <2>2, FS_Subset, FS_CardinalityType, FS_EmptySet
  <2>4. assigned[x] > Len(v.incs)
    BY <2>1, <2>3 DEF Numbered
  <2> QED
    BY <1>2, <2>4 DEF Opened
<1> QED
  BY <1>1, <1>2

\* What regrouping leaves of every row: an incident is live unless it is one to merge, and
\* of those of other runs, the ones taken and the unhealthy are open.
LEMMA AfterRows ==
    ASSUME NEW v, NEW assigned, IsView(v), Assigns(v, assigned),
           NEW after, after = Regrouped(v, assigned)
    PROVE  /\ DOMAIN v.incs \subseteq DOMAIN after
           /\ \A i \in DOMAIN v.incs :
                 /\ after[i].root = v.incs[i].root
                 /\ after[i].openedBy = v.incs[i].openedBy
                 /\ after[i].openedAt = v.incs[i].openedAt
                 /\ i \notin Merged(v, assigned) => after[i].mergedInto = v.incs[i].mergedInto
                 /\ i \in Merged(v, assigned) => ~Live(after[i])
                 /\ after[i].resolvedBy =
                       IF i \notin Before(v) THEN v.incs[i].resolvedBy
                       ELSE IF i \in Taken(v, assigned) \/ ~Healthy(v, v.incs[i].root) THEN NoRun
                       ELSE v.run
           /\ \A i \in DOMAIN after \ DOMAIN v.incs : \E x \in Opened(v, assigned) : assigned[x] = i
           /\ \A x \in Opened(v, assigned) :
                 /\ assigned[x] \in DOMAIN after \ DOMAIN v.incs
                 /\ after[assigned[x]].root = x /\ after[assigned[x]].openedBy = v.run
                 /\ after[assigned[x]].openedAt = v.at
                 /\ after[assigned[x]].resolvedBy = NoRun /\ Live(after[assigned[x]])
<1>1. /\ DOMAIN v.incs \subseteq DOMAIN after
      /\ \A r \in Roots(v) : assigned[r] \in DOMAIN after /\ Live(after[assigned[r]])
      /\ \A i \in DOMAIN after \ DOMAIN v.incs : \E x \in Opened(v, assigned) : assigned[x] = i
  BY RegroupedAreIncidents
<1>2. Len(v.incs) \in Nat /\ DOMAIN v.incs = 1..Len(v.incs) /\ Cardinality(Opened(v, assigned)) \in Nat
  BY DEF IsView, Numbered, Assigns
<1>3. ASSUME NEW x \in Opened(v, assigned)
      PROVE  /\ assigned[x] \in DOMAIN after \ DOMAIN v.incs
             /\ after[assigned[x]].root = x /\ after[assigned[x]].openedBy = v.run
             /\ after[assigned[x]].openedAt = v.at
             /\ after[assigned[x]].resolvedBy = NoRun /\ Live(after[assigned[x]])
  <2>1. after[assigned[x]] = NewIncident(v, x, Paged(v, assigned)[x])
    BY RegroupedRows
  <2>2. x \in Roots(v) /\ assigned[x] > Len(v.incs)
    BY DEF Opened
  <2>3. assigned[x] \in DOMAIN after /\ assigned[x] \notin DOMAIN v.incs
    BY <1>1, <1>2, <2>2
  <2> QED
    BY <2>1, <2>3 DEF NewIncident, Live
<1>4. ASSUME NEW i \in DOMAIN v.incs
      PROVE  /\ after[i].root = v.incs[i].root
             /\ after[i].openedBy = v.incs[i].openedBy
             /\ after[i].openedAt = v.incs[i].openedAt
             /\ i \notin Merged(v, assigned) => after[i].mergedInto = v.incs[i].mergedInto
             /\ i \in Merged(v, assigned) => ~Live(after[i])
             /\ after[i].resolvedBy =
                   IF i \notin Before(v) THEN v.incs[i].resolvedBy
                   ELSE IF i \in Taken(v, assigned) \/ ~Healthy(v, v.incs[i].root) THEN NoRun
                   ELSE v.run
  <2> DEFINE inc == v.incs[i]
  <2>0. /\ inc \in Incident /\ ~(i > Len(v.incs))
        /\ i \in 1..(Len(v.incs) + Cardinality(Opened(v, assigned)))
    BY <1>2 DEF IsView
  <2>1. i \in Before(v) => i \notin Mine(v)
    BY DEF Before, Mine
  <2>2. CASE i \in Appended(v, assigned)
    <3>1. after[i] = Reopen(inc)
      BY <2>0, <2>2 DEF Regrouped
    <3>2. i \in Before(v) /\ i \in Taken(v, assigned) /\ i \notin Merged(v, assigned)
      BY <2>1, <2>2 DEF Appended, Merged
    <3> HIDE DEF inc
    <3>3. /\ after[i].root = inc.root /\ after[i].openedBy = inc.openedBy
          /\ after[i].openedAt = inc.openedAt /\ after[i].mergedInto = inc.mergedInto
          /\ after[i].resolvedBy = NoRun
      BY <2>0, <3>1, ReopenIs
    <3> QED
      BY <3>2, <3>3 DEF inc
  <2>3. CASE i \in Merged(v, assigned)
    <3>1. i \notin Before(v) /\ i \notin Appended(v, assigned)
      BY <2>1, <2>3 DEF Appended, Merged
    <3> DEFINE into == assigned[v.rootOf[inc.root]]
    <3>2. after[i] = [inc EXCEPT !.mergedInto = into]
      BY <2>0, <2>3, <3>1 DEF Regrouped
    <3>3. v.rootOf[inc.root] \in Roots(v)
      BY <2>3 DEF IsView, Merged, Roots
    <3>4. into \in DOMAIN after
      BY <1>1, <3>3
    <3>5. DOMAIN after = 1..Len(after) /\ Len(after) \in Nat
      BY RegroupedRows DEF Numbered
    <3>6. into # 0
      BY <3>4, <3>5
    <3> HIDE DEF into, inc
    <3>7. /\ after[i].root = inc.root /\ after[i].openedBy = inc.openedBy
          /\ after[i].openedAt = inc.openedAt /\ after[i].mergedInto = into
          /\ after[i].resolvedBy = inc.resolvedBy
      BY <2>0, <3>2 DEF Incident
    <3>8. ~Live(after[i])
      BY <3>6, <3>7 DEF Live
    <3> QED
      BY <2>3, <3>1, <3>7, <3>8 DEF inc
  <2>4. CASE i \notin Appended(v, assigned) /\ i \notin Merged(v, assigned) /\ i \in Before(v)
    <3>1. after[i] = Settle(v, inc) /\ i \notin Taken(v, assigned)
      BY <2>0, <2>4 DEF Regrouped, Appended
    <3> HIDE DEF inc
    <3>2. /\ after[i].root = inc.root /\ after[i].openedBy = inc.openedBy
          /\ after[i].openedAt = inc.openedAt /\ after[i].mergedInto = inc.mergedInto
          /\ after[i].resolvedBy = IF ~Healthy(v, inc.root) THEN NoRun ELSE v.run
      <4>1. CASE ~Healthy(v, inc.root)
        BY <2>0, <3>1, <4>1, ReopenIs DEF Settle
      <4>2. CASE Healthy(v, inc.root)
        BY <2>0, <3>1, <4>2 DEF Settle, Incident
      <4> QED
        BY <4>1, <4>2
    <3> QED
      BY <2>4, <3>1, <3>2 DEF inc
  <2>5. CASE i \notin Appended(v, assigned) /\ i \notin Merged(v, assigned) /\ i \notin Before(v)
    BY <2>0, <2>5 DEF Regrouped
  <2> QED
    BY <2>2, <2>3, <2>4, <2>5
<1> QED
  BY <1>1, <1>3, <1>4

-----------------------------------------------------------------------------
(* Runs that come one after the other.                                     *)

\* The files in the folders of the runs before r, the runs up to r, and the ones begun.
Earlier(r) == UNION {t.files : t \in {u \in Target : u.run \in Predecessors[r]}}
UpTo(r) == Predecessors[r] \cup {r}
Begun(r) == \E t \in attempted : t.run = r

\* Something r was called with, and that no earlier run left, was detected at that time.
DetectedIn(r, at) ==
    \E t \in attempted : t.run = r /\ \E j \in t.files \ Earlier(r) : At[j] = at

\* Every call came after the calls of the runs before its own, none was lost, and what was
\* ingested came with its run.
InTurn ==
    /\ attempted \subseteq Target /\ lost = {}
    /\ \A t \in attempted : \A u \in Target : u.run \in Predecessors[t.run] => u \in attempted
    /\ \A t \in attempted : \A j \in t.files : ranBy[j] # NoRun
    /\ \A j \in Invocation : ranBy[j] # NoRun => DetectedIn(ranBy[j], At[j])

\* An incident was opened by what its run detected, and resolved by a later run.
OpenedInTurn ==
    \A i \in IncidentIds :
        /\ DetectedIn(incidents[i].openedBy, incidents[i].openedAt)
        /\ incidents[i].resolvedBy # NoRun =>
              /\ Begun(incidents[i].resolvedBy)
              /\ incidents[i].openedBy \in Predecessors[incidents[i].resolvedBy]

\* The live incidents opened up to r that no run before r resolved, and the invariant that
\* no two of them have the same root.
Standing(r) ==
    {i \in IncidentIds : /\ Live(incidents[i]) /\ incidents[i].openedBy \in UpTo(r)
                         /\ incidents[i].resolvedBy \notin Predecessors[r]}

OnePerRoot ==
    \A r \in Run : \A i, j \in Standing(r) : incidents[i].root = incidents[j].root => i = j

\* The runs are in order, and so is what they detected.
LEMMA OrderSays ==
    ASSUME NightsInOrder, attempted \subseteq Target
    PROVE  /\ \A r \in Run : r \notin Predecessors[r] /\ Predecessors[r] \subseteq Run
           /\ \A q, r \in Run : q \in Predecessors[r] =>
                 r \notin Predecessors[q] /\ Predecessors[q] \subseteq Predecessors[r]
           /\ \A q, r \in Run : q # r => q \in Predecessors[r] \/ r \in Predecessors[q]
           /\ \A t \in Target : \A i \in Earlier(t.run) : \A j \in t.files \ Earlier(t.run) :
                 At[i] < At[j]
           /\ \A q, r \in Run : \A before, after :
                 q \in Predecessors[r] /\ DetectedIn(q, before) /\ DetectedIn(r, after) =>
                    before < after
<1>1. /\ \A r \in Run : r \notin Predecessors[r]
      /\ \A p, q, r \in Run :
            p \in Predecessors[q] /\ q \in Predecessors[r] => p \in Predecessors[r]
      /\ \A q, r \in Run : q # r => q \in Predecessors[r] \/ r \in Predecessors[q]
      /\ \A t \in Target : \A i \in Earlier(t.run) : \A j \in t.files \ Earlier(t.run) :
            At[i] < At[j]
  BY DEF NightsInOrder, Earlier
<1>2. \A r \in Run : Predecessors[r] \subseteq Run
  BY DeskAssumption
<1>3. ASSUME NEW q \in Run, NEW r \in Run, NEW before, NEW after,
             q \in Predecessors[r], DetectedIn(q, before), DetectedIn(r, after)
      PROVE  before < after
  <2>1. PICK t \in attempted : t.run = q /\ \E j \in t.files : At[j] = before
    BY <1>3 DEF DetectedIn
  <2>2. PICK u \in attempted : u.run = r /\ \E j \in u.files \ Earlier(r) : At[j] = after
    BY <1>3 DEF DetectedIn
  <2>3. t.files \subseteq Earlier(u.run)
    BY <1>3, <2>1, <2>2 DEF Earlier
  <2> QED
    BY <1>1, <2>1, <2>2, <2>3
<1> QED
  BY <1>1, <1>2, <1>3

\* When a call arrives, every run that has begun comes before its run or is its run.
LEMMA BegunIsUpTo ==
    ASSUME NightsInOrder, InTurn, NEW t \in Target, Arrives(t), NEW r \in Run, Begun(r)
    PROVE  r \in UpTo(t.run) /\ t.run \notin Predecessors[r]
<1>1. PICK u \in attempted : u.run = r
  BY DEF Begun
<1>2. t \notin attempted
  BY DEF Arrives
<1>3. t.run \notin Predecessors[r]
  BY <1>1, <1>2 DEF InTurn
<1>4. t.run \in Run /\ attempted \subseteq Target
  BY TargetRun DEF InTurn
<1> QED
  BY <1>3, <1>4, OrderSays DEF UpTo

\* What a call brings that is new is no earlier run's, so neither is the time at which it
\* detects it.
LEMMA FreshIsItsOwn ==
    ASSUME InTurn, NEW t \in Target, Arrives(t), attempted' = attempted \cup {t}
    PROVE  /\ \A j \in Fresh(t) : j \in t.files \ Earlier(t.run) /\ DetectedIn(t.run, At[j])'
           /\ \A at : Fresh(t) # {} /\ at = Detected(t) => DetectedIn(t.run, at)'
           /\ \A r, at : DetectedIn(r, at) => DetectedIn(r, at)'
           /\ \A r : Begun(r) => Begun(r)'
<1>1. ASSUME NEW j \in Fresh(t)
      PROVE  j \in t.files \ Earlier(t.run) /\ DetectedIn(t.run, At[j])'
  <2>1. j \in t.files /\ ranBy[j] = NoRun
    BY <1>1 DEF Fresh
  <2>2. j \notin Earlier(t.run)
    <3> SUFFICES ASSUME NEW u \in Target, u.run \in Predecessors[t.run], j \in u.files PROVE FALSE
      BY DEF Earlier
    <3>1. u \in attempted
      BY DEF Arrives
    <3> QED
      BY <2>1, <3>1 DEF InTurn
  <2> QED
    BY <2>1, <2>2 DEF DetectedIn
<1>2. \A r, at : DetectedIn(r, at) => DetectedIn(r, at)'
  BY DEF DetectedIn
<1>3. \A at : Fresh(t) # {} /\ at = Detected(t) => DetectedIn(t.run, at)'
  BY <1>1, DetectedIsOfAPiece
<1> QED
  BY <1>1, <1>2, <1>3 DEF Begun

\* So when a call arrives, its run may append to or resolve every standing incident of the
\* runs before it, and its own incidents are all open.
LEMMA StandingSays ==
    ASSUME NightsInOrder, IInv, TypeOK, InTurn, OpenedInTurn,
           NEW t \in Target, Arrives(t), Fresh(t) # {}, NEW v, v = ViewOf(t)
    PROVE  /\ \A i \in IncidentIds :
                 /\ incidents[i].openedBy \in UpTo(t.run)
                 /\ t.run \notin Predecessors[incidents[i].openedBy]
                 /\ incidents[i].resolvedBy \in UpTo(t.run) \cup {NoRun}
                 /\ incidents[i].openedBy # t.run => incidents[i].openedAt <= Detected(t)
                 /\ incidents[i].openedBy = t.run => incidents[i].resolvedBy = NoRun
           /\ Before(v) = {i \in IncidentIds :
                             /\ Live(incidents[i]) /\ incidents[i].openedBy # t.run
                             /\ incidents[i].resolvedBy \in {NoRun, t.run}}
           /\ Standing(t.run) = Before(v) \cup Mine(v)
<1>1. v.incs = incidents /\ v.run = t.run /\ v.at = Detected(t)
  BY ViewSays
<1>2. t.run \in Run /\ t.run # NoRun /\ NoRun \notin Run /\ attempted \subseteq Target
  BY TargetRun, DeskAssumption DEF InTurn
<1>3. t.run \notin Predecessors[t.run] /\ Predecessors[t.run] \subseteq Run
  BY <1>2, OrderSays
<1>4. ASSUME NEW i \in IncidentIds
      PROVE  /\ incidents[i].openedBy \in UpTo(t.run)
             /\ t.run \notin Predecessors[incidents[i].openedBy]
             /\ incidents[i].resolvedBy \in UpTo(t.run) \cup {NoRun}
             /\ incidents[i].openedBy # t.run => incidents[i].openedAt <= Detected(t)
             /\ incidents[i].openedBy = t.run => incidents[i].resolvedBy = NoRun
  <2> DEFINE opener == incidents[i].openedBy
             resolver == incidents[i].resolvedBy
  <2>1. opener \in Run /\ resolver \in Run \cup {NoRun} /\ incidents[i].openedAt \in Nat
    BY DEF IInv, Rows, Incident
  <2>2. /\ DetectedIn(opener, incidents[i].openedAt)
        /\ resolver # NoRun => Begun(resolver) /\ opener \in Predecessors[resolver]
    BY DEF OpenedInTurn
  <2>3. Begun(opener)
    BY <2>2 DEF DetectedIn, Begun
  <2>4. opener \in UpTo(t.run) /\ t.run \notin Predecessors[opener]
    BY <2>1, <2>3, BegunIsUpTo
  <2>5. resolver # NoRun => resolver \in UpTo(t.run) /\ t.run \notin Predecessors[resolver]
    BY <2>1, <2>2, BegunIsUpTo
  <2>6. opener # t.run => incidents[i].openedAt <= Detected(t)
    <3> SUFFICES ASSUME opener # t.run PROVE incidents[i].openedAt <= Detected(t)
      OBVIOUS
    <3>1. PICK j \in Fresh(t) : At[j] = Detected(t)
      BY DetectedIsOfAPiece
    <3>2. j \in t.files /\ ranBy[j] = NoRun /\ j \in Invocation
      BY <3>1, DeskAssumption DEF Fresh
    <3>3. j \notin Earlier(t.run)
      <4> SUFFICES ASSUME NEW u \in Target, u.run \in Predecessors[t.run], j \in u.files PROVE FALSE
        BY DEF Earlier
      <4>1. u \in attempted
        BY DEF Arrives
      <4> QED
        BY <3>2, <4>1 DEF InTurn
    <3>4. PICK u \in attempted : u.run = opener /\ \E k \in u.files : At[k] = incidents[i].openedAt
      BY <2>2 DEF DetectedIn
    <3>5. u.files \subseteq Earlier(t.run)
      BY <1>2, <2>4, <3>4 DEF UpTo, Earlier
    <3>6. \A k \in Earlier(t.run) : At[k] < At[j]
      BY <1>2, <3>2, <3>3, OrderSays
    <3>7. At[j] \in Nat
      BY <3>2, DeskAssumption
    <3> QED
      BY <2>1, <3>1, <3>4, <3>5, <3>6, <3>7
  <2> QED
    BY <2>1, <2>2, <2>4, <2>5, <2>6
<1>5. Before(v) = {i \in IncidentIds :
                     /\ Live(incidents[i]) /\ incidents[i].openedBy # t.run
                     /\ incidents[i].resolvedBy \in {NoRun, t.run}}
  BY <1>1, <1>4 DEF Before, IncidentIds
<1>6. Mine(v) = {i \in IncidentIds : Live(incidents[i]) /\ incidents[i].openedBy = t.run}
  BY <1>1 DEF Mine, IncidentIds
<1>7. \A i \in IncidentIds :
         incidents[i].resolvedBy \notin Predecessors[t.run] <=>
             incidents[i].resolvedBy \in {NoRun, t.run}
  BY <1>2, <1>3, <1>4 DEF UpTo
<1>8. Standing(t.run) = Before(v) \cup Mine(v)
  BY <1>2, <1>4, <1>5, <1>6, <1>7 DEF Standing
<1> QED
  BY <1>4, <1>5, <1>8

\* After the call the standing incidents and the new ones have roots of their own, so the
\* unique index never refuses a statement of it.
LEMMA RootsApart ==
    ASSUME NightsInOrder, IInv, TypeOK, InTurn, OpenedInTurn, OnePerRoot,
           NEW t \in Target, Arrives(t), Fresh(t) # {}, NEW v, v = ViewOf(t),
           NEW assigned, assigned = Assignment(v), NEW after, after = Regrouped(v, assigned)
    PROVE  /\ IsView(v) /\ Assigns(v, assigned)
           /\ \A i, j \in DOMAIN after :
                 /\ i \in Standing(t.run) \/ i \notin IncidentIds
                 /\ j \in Standing(t.run) \/ j \notin IncidentIds
                 /\ after[i].root = after[j].root
                 => i = j
           /\ ~BreaksUniqueIndex(v, assigned)
<1>1. /\ v.incs = incidents /\ v.run = t.run /\ Numbered(v.incs)
      /\ Roots(v) \subseteq Node /\ IsFiniteSet(Roots(v))
  BY ViewSays DEF IInv, Rows
<1>2. IsView(v) /\ Assigns(v, assigned)
  BY <1>1, ViewIsView, AssignmentSays DEF IInv
<1>3. /\ DOMAIN v.incs \subseteq DOMAIN after
      /\ \A i \in IncidentIds :
            /\ after[i].root = incidents[i].root
            /\ after[i].openedBy = incidents[i].openedBy
            /\ i \notin Merged(v, assigned) => after[i].mergedInto = incidents[i].mergedInto
            /\ i \in Merged(v, assigned) => ~Live(after[i])
            /\ i \notin Before(v) => after[i].resolvedBy = incidents[i].resolvedBy
      /\ \A i \in DOMAIN after \ IncidentIds : \E x \in Opened(v, assigned) : assigned[x] = i
      /\ \A x \in Opened(v, assigned) : after[assigned[x]].root = x
  BY <1>1, <1>2, AfterRows DEF IncidentIds
<1>4. /\ Before(v) = {i \in IncidentIds :
                        /\ Live(incidents[i]) /\ incidents[i].openedBy # t.run
                        /\ incidents[i].resolvedBy \in {NoRun, t.run}}
      /\ Standing(t.run) = Before(v) \cup Mine(v)
      /\ \A i \in IncidentIds : incidents[i].openedBy = t.run => incidents[i].resolvedBy = NoRun
  BY StandingSays
<1>5. ASSUME NEW x \in Opened(v, assigned), NEW j \in Standing(t.run)
      PROVE  incidents[j].root # x
  <2>1. x \in Roots(v) /\ Match(v, x) = 0
    BY <1>1, AssignmentIs DEF Opened
  <2>2. 0 \notin Before(v)
    BY <1>1 DEF Before, Numbered
  <2> QED
    BY <1>1, <1>4, <2>1, <2>2, MatchFits
<1>6. ASSUME NEW i \in DOMAIN after, NEW j \in DOMAIN after,
             i \in Standing(t.run) \/ i \notin IncidentIds,
             j \in Standing(t.run) \/ j \notin IncidentIds, after[i].root = after[j].root
      PROVE  i = j
  <2>1. CASE i \in Standing(t.run) /\ j \in Standing(t.run)
    <3>1. i \in IncidentIds /\ j \in IncidentIds /\ t.run \in Run
      BY <2>1, TargetRun DEF Standing
    <3> QED
      BY <1>3, <1>6, <2>1, <3>1 DEF OnePerRoot
  <2>2. CASE i \notin IncidentIds /\ j \in Standing(t.run)
    <3>1. PICK x \in Opened(v, assigned) : assigned[x] = i /\ after[i].root = x
      BY <1>3, <2>2
    <3>2. incidents[j].root = x
      BY <1>3, <1>6, <2>2, <3>1 DEF Standing
    <3> QED
      BY <1>5, <2>2, <3>2
  <2>3. CASE i \in Standing(t.run) /\ j \notin IncidentIds
    <3>1. PICK x \in Opened(v, assigned) : assigned[x] = j /\ after[j].root = x
      BY <1>3, <2>3
    <3>2. incidents[i].root = x
      BY <1>3, <1>6, <2>3, <3>1 DEF Standing
    <3> QED
      BY <1>5, <2>3, <3>2
  <2>4. CASE i \notin IncidentIds /\ j \notin IncidentIds
    BY <1>3, <1>6, <2>4
  <2> QED
    BY <1>6, <2>1, <2>2, <2>3, <2>4
<1>7. ASSUME NEW i \in IncidentIds, Open(incidents[i]) PROVE i \in Standing(t.run)
  <2>1. incidents[i].openedBy = t.run => i \in Mine(v)
    BY <1>1, <1>7 DEF Mine, Open, IncidentIds
  <2> QED
    BY <1>4, <1>7, <2>1 DEF Open
<1>8. ASSUME NEW i \in DOMAIN after, Open(after[i]) PROVE i \in Standing(t.run) \/ i \notin IncidentIds
  <2> SUFFICES ASSUME i \in IncidentIds PROVE i \in Standing(t.run)
    OBVIOUS
  <2>1. CASE i \in Before(v)
    BY <1>4, <2>1
  <2>2. CASE i \notin Before(v)
    <3>1. i \notin Merged(v, assigned)
      BY <1>3, <1>8 DEF Open
    <3>2. Open(incidents[i])
      BY <1>3, <1>8, <2>2, <3>1 DEF Open, Live
    <3> QED
      BY <1>7, <3>2
  <2> QED
    BY <2>1, <2>2
<1>9. ASSUME NEW i \in DOMAIN after, i > Len(v.incs) \/ i \in Appended(v, assigned),
             NEW j \in DOMAIN v.incs, i # j, Open(v.incs[j]), v.incs[j].root = after[i].root
      PROVE  FALSE
  <2>1. j \in Standing(t.run) /\ j \in IncidentIds /\ after[j].root = after[i].root
    BY <1>1, <1>3, <1>7, <1>9 DEF IncidentIds
  <2>2. i \in Standing(t.run) \/ i \notin IncidentIds
    <3>1. CASE i > Len(v.incs)
      BY <1>1, <3>1 DEF Numbered, IncidentIds
    <3>2. CASE i \in Appended(v, assigned)
      BY <1>4, <3>2 DEF Appended
    <3> QED
      BY <1>9, <3>1, <3>2
  <2>3. j \in DOMAIN after
    BY <1>3, <1>9
  <2> QED
    BY <1>6, <1>9, <2>1, <2>2, <2>3
<1>10. ~BreaksUniqueIndex(v, assigned)
  BY <1>6, <1>8, <1>9 DEF BreaksUniqueIndex
<1> QED
  BY <1>2, <1>6, <1>10

\* What an ingest leaves of every incident, raised or not.
LEMMA IngestLeaves ==
    ASSUME NEW t \in Target, Rows, Ingest(t),
           NEW v, NEW assigned, NEW after, IngestMakes(t, v, assigned, after)
    PROVE  /\ DOMAIN incidents \subseteq DOMAIN incidents'
           /\ \A i \in DOMAIN incidents :
                 /\ incidents'[i].root = incidents[i].root
                 /\ incidents'[i].openedBy = incidents[i].openedBy
                 /\ incidents'[i].openedAt = incidents[i].openedAt
                 /\ i \notin Merged(v, assigned) => incidents'[i].mergedInto = incidents[i].mergedInto
                 /\ i \in Merged(v, assigned) => ~Live(incidents'[i])
                 /\ incidents'[i].resolvedBy =
                       IF i \notin Before(v) THEN incidents[i].resolvedBy
                       ELSE IF i \in Taken(v, assigned) \/ ~Healthy(v, incidents[i].root) THEN NoRun
                       ELSE t.run
           /\ \A i \in DOMAIN incidents' \ DOMAIN incidents :
                 \E x \in Opened(v, assigned) : assigned[x] = i
           /\ \A x \in Opened(v, assigned) :
                 LET i == assigned[x]
                 IN  /\ i \in DOMAIN incidents' \ DOMAIN incidents
                     /\ incidents'[i].root = x /\ incidents'[i].openedBy = t.run
                     /\ incidents'[i].openedAt = Detected(t)
                     /\ incidents'[i].resolvedBy = NoRun /\ Live(incidents'[i])
<1>1. /\ IsView(v) /\ Assigns(v, assigned) /\ after = Regrouped(v, assigned)
      /\ v.incs = incidents /\ v.run = t.run /\ v.at = Detected(t)
      /\ DOMAIN incidents' = DOMAIN after
  BY DEF IngestMakes
<1>2. \A i \in DOMAIN after :
         /\ incidents'[i].root = after[i].root
         /\ incidents'[i].openedAt = after[i].openedAt
         /\ incidents'[i].openedBy = after[i].openedBy
         /\ incidents'[i].resolvedBy = after[i].resolvedBy
         /\ incidents'[i].mergedInto = after[i].mergedInto
         /\ Live(incidents'[i]) <=> Live(after[i])
  BY RaisedColumns DEF Live
<1>3. DOMAIN incidents \subseteq DOMAIN after
  BY <1>1, AfterRows
<1>4. \A i \in DOMAIN incidents :
         /\ after[i].root = incidents[i].root
         /\ after[i].openedBy = incidents[i].openedBy
         /\ after[i].openedAt = incidents[i].openedAt
         /\ i \notin Merged(v, assigned) => after[i].mergedInto = incidents[i].mergedInto
         /\ i \in Merged(v, assigned) => ~Live(after[i])
         /\ after[i].resolvedBy =
               IF i \notin Before(v) THEN incidents[i].resolvedBy
               ELSE IF i \in Taken(v, assigned) \/ ~Healthy(v, incidents[i].root) THEN NoRun
               ELSE t.run
  BY <1>1, AfterRows
<1>5. \A i \in DOMAIN after \ DOMAIN incidents : \E x \in Opened(v, assigned) : assigned[x] = i
  BY <1>1, AfterRows
<1>6. \A x \in Opened(v, assigned) :
         /\ assigned[x] \in DOMAIN after \ DOMAIN incidents
         /\ after[assigned[x]].root = x /\ after[assigned[x]].openedBy = t.run
         /\ after[assigned[x]].openedAt = Detected(t)
         /\ after[assigned[x]].resolvedBy = NoRun /\ Live(after[assigned[x]])
  BY <1>1, AfterRows
<1>7. \A i \in DOMAIN incidents :
         /\ incidents'[i].root = incidents[i].root
         /\ incidents'[i].openedBy = incidents[i].openedBy
         /\ incidents'[i].openedAt = incidents[i].openedAt
         /\ i \notin Merged(v, assigned) => incidents'[i].mergedInto = incidents[i].mergedInto
         /\ i \in Merged(v, assigned) => ~Live(incidents'[i])
         /\ incidents'[i].resolvedBy =
               IF i \notin Before(v) THEN incidents[i].resolvedBy
               ELSE IF i \in Taken(v, assigned) \/ ~Healthy(v, incidents[i].root) THEN NoRun
               ELSE t.run
  BY <1>2, <1>3, <1>4
<1>8. \A x \in Opened(v, assigned) :
         LET i == assigned[x]
         IN  /\ i \in DOMAIN incidents' \ DOMAIN incidents
             /\ incidents'[i].root = x /\ incidents'[i].openedBy = t.run
             /\ incidents'[i].openedAt = Detected(t)
             /\ incidents'[i].resolvedBy = NoRun /\ Live(incidents'[i])
  BY <1>1, <1>2, <1>6
<1> QED
  BY <1>1, <1>3, <1>5, <1>7, <1>8

\* The invariant of runs one after the other.
NightsInv == InTurn /\ OpenedInTurn /\ OnePerRoot

\* Calls that find nothing new keep what was ingested in turn, and so do ingests.
LEMMA StaysInTurn ==
    ASSUME InTurn, TypeOK, NEW t \in Target, Arrives(t),
           attempted' = attempted \cup {t}, lost' = lost, ranBy' = Ran(t)
    PROVE  InTurn'
<1>1. t.files \subseteq Invocation /\ t.run # NoRun
  BY DeskAssumption
<1>2. \A j \in Invocation : Ran(t)[j] = IF j \in Fresh(t) THEN t.run ELSE ranBy[j]
  BY DEF Ran
<1>3. \A u \in attempted : u.files \subseteq Invocation
  BY DeskAssumption DEF InTurn
<1>4. \A u \in attempted' : \A j \in u.files : Ran(t)[j] # NoRun
  <2>1. \A j \in t.files : j \notin Fresh(t) => ranBy[j] # NoRun
    BY DEF Fresh
  <2>2. \A u \in attempted : \A j \in u.files : ranBy[j] # NoRun /\ j \notin Fresh(t)
    BY DEF InTurn, Fresh
  <2> QED
    BY <1>1, <1>2, <1>3, <2>1, <2>2
<1>5. ASSUME NEW j \in Invocation, Ran(t)[j] # NoRun
      PROVE  \A r : r = Ran(t)[j] => DetectedIn(r, At[j])'
  <2>1. CASE j \in Fresh(t)
    <3>1. DetectedIn(t.run, At[j])'
      BY <2>1, FreshIsItsOwn
    <3> QED
      BY <1>2, <2>1, <3>1
  <2>2. CASE j \notin Fresh(t)
    <3>1. \A r : r = ranBy[j] => DetectedIn(r, At[j])
      BY <1>2, <1>5, <2>2 DEF InTurn
    <3>2. \A r : r = ranBy[j] => DetectedIn(r, At[j])'
      BY <3>1, FreshIsItsOwn
    <3> QED
      BY <1>2, <2>2, <3>2
  <2> QED
    BY <2>1, <2>2
<1>6. \A u \in attempted' : \A w \in Target : w.run \in Predecessors[u.run] => w \in attempted'
  BY DEF InTurn, Arrives
<1>7. \A j \in Invocation : ranBy'[j] # NoRun => DetectedIn(ranBy[j], At[j])'
  <2>1. \A j \in Invocation : ranBy'[j] # NoRun => \A r : r = ranBy'[j] => DetectedIn(r, At[j])'
    BY <1>5
  <2> QED
    BY <2>1 DEF DetectedIn
<1> QED
  BY <1>4, <1>6, <1>7 DEF InTurn

\* An ingest opens what its run detected, and resolves only incidents of earlier runs.
LEMMA IngestKeepsOpened ==
    ASSUME NightsInOrder, IInv, TypeOK, InTurn, OpenedInTurn, NEW t \in Target, Ingest(t)
    PROVE  OpenedInTurn'
<1>1. Arrives(t) /\ Fresh(t) # {} /\ attempted' = attempted \cup {t}
  BY DEF Ingest
<1>2. PICK v, assigned, after : IngestMakes(t, v, assigned, after)
  BY IngestSays DEF IInv
<1>3. v = ViewOf(t) /\ v.incs = incidents
  BY <1>2 DEF IngestMakes
<1>4. /\ \A r, at : DetectedIn(r, at) => DetectedIn(r, at)'
      /\ \A r : Begun(r) => Begun(r)'
      /\ \A at : at = Detected(t) => DetectedIn(t.run, at)'
      /\ Begun(t.run)'
  BY <1>1, FreshIsItsOwn DEF Begun
<1>5. t.run \in Run /\ t.run # NoRun
  BY TargetRun
<1>6. ASSUME NEW i \in DOMAIN incidents', NEW o, o = incidents'[i].openedBy,
             NEW at, at = incidents'[i].openedAt, NEW q, q = incidents'[i].resolvedBy
      PROVE  DetectedIn(o, at)' /\ (q # NoRun => Begun(q)' /\ o \in Predecessors[q])
  <2>1. CASE i \in DOMAIN incidents
    <3>1. o = incidents[i].openedBy /\ at = incidents[i].openedAt
      BY <1>2, <1>6, <2>1, IngestLeaves DEF IInv
    <3>2. q = incidents[i].resolvedBy \/ q = NoRun \/ (q = t.run /\ i \in Before(v))
      BY <1>2, <1>6, <2>1, IngestLeaves DEF IInv
    <3>3. DetectedIn(o, at) /\ (incidents[i].resolvedBy # NoRun =>
             /\ Begun(incidents[i].resolvedBy) /\ o \in Predecessors[incidents[i].resolvedBy])
      BY <2>1, <3>1 DEF OpenedInTurn, IncidentIds
    <3>4. i \in Before(v) => o \in Predecessors[t.run]
      <4>1. o \in UpTo(t.run)
        BY <1>1, <1>3, <2>1, <3>1, StandingSays DEF IncidentIds
      <4>2. i \in Before(v) => o # t.run
        BY <1>1, <1>3, <3>1, StandingSays
      <4> QED
        BY <4>1, <4>2 DEF UpTo
    <3> QED
      BY <1>4, <3>2, <3>3, <3>4
  <2>2. CASE i \notin DOMAIN incidents
    <3>1. o = t.run /\ at = Detected(t) /\ q = NoRun
      <4>1. PICK x \in Opened(v, assigned) : assigned[x] = i
        BY <1>2, <1>6, <2>2, IngestLeaves DEF IInv
      <4> QED
        BY <1>2, <1>6, <4>1, IngestLeaves DEF IInv
    <3> QED
      BY <1>4, <3>1
  <2> QED
    BY <2>1, <2>2
<1> QED
  BY <1>6 DEF OpenedInTurn, IncidentIds, DetectedIn, Begun

\* The incidents a run leaves standing keep roots of their own.
LEMMA IngestKeepsRootsApart ==
    ASSUME NightsInOrder, IInv, TypeOK, InTurn, OpenedInTurn, OnePerRoot,
           NEW t \in Target, Ingest(t)
    PROVE  OnePerRoot'
<1>1. Arrives(t) /\ Fresh(t) # {}
  BY DEF Ingest
<1>2. PICK v, assigned, after : IngestMakes(t, v, assigned, after)
  BY IngestSays DEF IInv
<1>3. v = ViewOf(t) /\ assigned = Assignment(v) /\ after = Regrouped(v, assigned)
  BY <1>2 DEF IngestMakes
<1>4. /\ t.run \in Run /\ t.run # NoRun /\ NoRun \notin Run /\ attempted \subseteq Target
  BY TargetRun, DeskAssumption DEF InTurn
<1>5. /\ t.run \notin Predecessors[t.run]
      /\ \A q, r \in Run : q \in Predecessors[r] =>
            r \notin Predecessors[q] /\ Predecessors[q] \subseteq Predecessors[r]
      /\ \A r \in Run : r # t.run => r \in Predecessors[t.run] \/ t.run \in Predecessors[r]
      /\ \A r \in Run : Predecessors[r] \subseteq Run
  BY <1>4, OrderSays
<1>6. /\ \A i \in IncidentIds : incidents[i].openedBy \in UpTo(t.run)
      /\ \A i \in Before(v) : incidents[i].resolvedBy \in {NoRun, t.run}
  BY <1>1, <1>3, StandingSays
<1>7. ASSUME NEW r \in Run, NEW i \in IncidentIds, i \in Standing(r)'
      PROVE  /\ Live(incidents[i]) /\ incidents'[i].root = incidents[i].root
             /\ incidents[i].openedBy \in UpTo(r)
             /\ incidents[i].resolvedBy \notin Predecessors[r] \cap Predecessors[t.run]
  <2>1. i \in DOMAIN incidents /\ Live(incidents'[i]) /\ incidents'[i].openedBy \in UpTo(r)
        /\ incidents'[i].resolvedBy \notin Predecessors[r]
    BY <1>7 DEF Standing, IncidentIds, UpTo
  <2>2. /\ incidents'[i].root = incidents[i].root /\ incidents'[i].openedBy = incidents[i].openedBy
        /\ i \notin Merged(v, assigned) => incidents'[i].mergedInto = incidents[i].mergedInto
        /\ i \in Merged(v, assigned) => ~Live(incidents'[i])
        /\ i \notin Before(v) => incidents'[i].resolvedBy = incidents[i].resolvedBy
    BY <1>2, <2>1, IngestLeaves DEF IInv
  <2>3. incidents[i].resolvedBy \in Predecessors[t.run] => i \notin Before(v)
    BY <1>4, <1>5, <1>6
  <2> QED
    BY <2>1, <2>2, <2>3 DEF Live
<1>8. ASSUME NEW r \in Run, t.run \in UpTo(r), NEW i \in Standing(r)'
      PROVE  /\ i \in DOMAIN after /\ incidents'[i].root = after[i].root
             /\ i \in Standing(t.run) \/ i \notin IncidentIds
  <2>1. i \in DOMAIN incidents'
    BY <1>8 DEF Standing, IncidentIds
  <2>2. i \in DOMAIN after
    BY <1>2, <2>1 DEF IngestMakes
  <2>3. incidents'[i].root = after[i].root
    BY <1>2, <2>2, RaisedColumns
  <2>4. Predecessors[t.run] \subseteq Predecessors[r]
    BY <1>4, <1>5, <1>8 DEF UpTo
  <2>5. i \in IncidentIds => i \in Standing(t.run)
    BY <1>6, <1>7, <1>8, <2>4 DEF Standing
  <2> QED
    BY <2>2, <2>3, <2>5
<1>9. ASSUME NEW r \in Predecessors[t.run], NEW i \in Standing(r)'
      PROVE  i \in Standing(r) /\ incidents'[i].root = incidents[i].root
  <2>1. r \in Run /\ t.run \notin UpTo(r) /\ Predecessors[r] \subseteq Predecessors[t.run]
    BY <1>4, <1>5 DEF UpTo
  <2>2. i \in DOMAIN incidents' /\ incidents'[i].openedBy \in UpTo(r)
    BY <1>9 DEF Standing, IncidentIds, UpTo
  <2>3. i \in IncidentIds
    <3> SUFFICES ASSUME i \notin DOMAIN incidents PROVE FALSE
      BY DEF IncidentIds
    <3>1. incidents'[i].openedBy = t.run
      <4>1. PICK x \in Opened(v, assigned) : assigned[x] = i
        BY <1>2, <2>2, IngestLeaves DEF IInv
      <4> QED
        BY <1>2, <4>1, IngestLeaves DEF IInv
    <3> QED
      BY <2>1, <2>2, <3>1
  <2> QED
    BY <1>7, <1>9, <2>1, <2>3 DEF Standing
<1>10. ASSUME NEW r \in Run, NEW i \in Standing(r)', NEW j \in Standing(r)',
              incidents'[i].root = incidents'[j].root
       PROVE  i = j
  <2>1. CASE t.run \in UpTo(r)
    <3>1. /\ i \in DOMAIN after /\ j \in DOMAIN after /\ after[i].root = after[j].root
          /\ i \in Standing(t.run) \/ i \notin IncidentIds
          /\ j \in Standing(t.run) \/ j \notin IncidentIds
      BY <1>8, <1>10, <2>1
    <3> QED
      BY <1>1, <1>3, <3>1, RootsApart
  <2>2. CASE r \in Predecessors[t.run]
    <3>1. i \in Standing(r) /\ j \in Standing(r) /\ incidents[i].root = incidents[j].root
      BY <1>9, <1>10, <2>2
    <3> QED
      BY <3>1 DEF OnePerRoot
  <2> QED
    BY <1>4, <1>5, <2>1, <2>2 DEF UpTo
<1> QED
  BY <1>10 DEF OnePerRoot

\* No step of the desk disturbs the order of the runs, and none is lost.
LEMMA NextNightsInv ==
    ASSUME NightsInOrder, IInv, TypeOK, NightsInv, [Next]_vars
    PROVE  NightsInv'
<1> USE DEF NightsInv
<1>1. ASSUME NEW t \in Target, Ingest(t) PROVE NightsInv'
  <2>1. Arrives(t) /\ attempted' = attempted \cup {t} /\ lost' = lost /\ ranBy' = Ran(t)
    BY <1>1 DEF Ingest
  <2> QED
    BY <1>1, <2>1, StaysInTurn, IngestKeepsOpened, IngestKeepsRootsApart
<1>2. ASSUME NEW t \in Target, IngestNothingNew(t) PROVE NightsInv'
  <2>1. /\ Arrives(t) /\ Fresh(t) = {} /\ attempted' = attempted \cup {t} /\ lost' = lost
        /\ ranBy' = ranBy /\ incidents' = incidents
    BY <1>2 DEF IngestNothingNew
  <2>2. Ran(t) = ranBy
    BY <2>1 DEF Ran, TypeOK
  <2>3. InTurn'
    BY <2>1, <2>2, StaysInTurn
  <2>4. OpenedInTurn'
    BY <2>1 DEF OpenedInTurn, IncidentIds, DetectedIn, Begun
  <2>5. OnePerRoot'
    BY <2>1 DEF OnePerRoot, Standing, IncidentIds, UpTo
  <2> QED
    BY <2>3, <2>4, <2>5
<1>3. ASSUME NEW t \in Target, IngestRollsBack(t) PROVE FALSE
  <2>1. /\ Arrives(t) /\ Fresh(t) # {}
        /\ BreaksUniqueIndex(ViewOf(t), Assignment(ViewOf(t)))
    BY <1>3 DEF IngestRollsBack
  <2> QED
    BY <2>1, RootsApart
<1>4. ASSUME UNCHANGED vars PROVE NightsInv'
  <2>1. InTurn'
    BY <1>4 DEF vars, InTurn, DetectedIn
  <2>2. OpenedInTurn'
    BY <1>4 DEF vars, OpenedInTurn, IncidentIds, DetectedIn, Begun
  <2>3. OnePerRoot'
    BY <1>4 DEF vars, OnePerRoot, Standing, IncidentIds, UpTo
  <2> QED
    BY <2>1, <2>2, <2>3
<1> QED
  BY <1>1, <1>2, <1>3, <1>4 DEF Next

\* An empty store stands as runs in turn leave it.
LEMMA InitNightsInv == Init => NightsInv
<1> SUFFICES ASSUME Init PROVE NightsInv
  OBVIOUS
<1>1. /\ attempted = {} /\ lost = {} /\ IncidentIds = {}
      /\ \A j \in Invocation : ranBy[j] = NoRun
  BY DEF Init, IncidentIds
<1> QED
  BY <1>1 DEF NightsInv, InTurn, OpenedInTurn, OnePerRoot, Standing

\* Where the runs come one after the other, every ingest finds them in order.
LEMMA NightsFollow == ASSUME NightsInOrder PROVE Spec => []NightsInv
<1>1. IInv /\ TypeOK /\ NightsInv /\ [Next]_vars => NightsInv'
  BY NextNightsInv
<1> QED
  BY <1>1, InitNightsInv, Invariance, TypesHold, PTL DEF Spec

-----------------------------------------------------------------------------
(* The links of the incidents to the runs.                                 *)

\* A live incident has a failing check of the run that opened it.
LiveAreLinked ==
    \A i \in IncidentIds : Live(incidents[i]) =>
        \E n \in Node : eventOf[incidents[i].openedBy][n] = i

\* A failing check of a run is in a live incident that no later run opened; of the run's
\* own incidents, in one whose root is the check's subject or above it.
LinkSays(r, n, i) ==
    /\ i \in IncidentIds /\ Live(incidents[i]) /\ incidents[i].openedBy \in UpTo(r)
    /\ DetectedIn(r, linkedAt[r])
    /\ incidents[i].openedBy = r => incidents[i].root \in Above[Subject[n]] \cup {Subject[n]}

LinkedInTurn == \A r \in Run, n \in Node : eventOf[r][n] # 0 => LinkSays(r, n, eventOf[r][n])

\* What an ingest gives a failing check: the incident of its root.
LEMMA TakenSays ==
    ASSUME NightsInOrder, IInv, TypeOK, NightsInv, NEW t \in Target, Ingest(t),
           NEW v, NEW assigned, NEW after, IngestMakes(t, v, assigned, after),
           NEW x \in Roots(v), NEW i, i = assigned[x]
    PROVE  /\ i \in DOMAIN incidents' /\ Live(incidents'[i])
           /\ incidents'[i].openedBy \in UpTo(t.run)
           /\ incidents'[i].openedBy = t.run => incidents'[i].root = x
           /\ i \notin DOMAIN incidents \/ i \in Before(v) \/ i \in Mine(v)
<1>1. /\ IsView(v) /\ Assigns(v, assigned) /\ after = Regrouped(v, assigned)
      /\ v = ViewOf(t) /\ v.incs = incidents /\ v.run = t.run /\ DOMAIN incidents' = DOMAIN after
  BY DEF IngestMakes
<1>2. i \in DOMAIN after /\ Live(after[i])
  BY <1>1, RegroupedAreIncidents
<1>3. i \in DOMAIN incidents' /\ Live(incidents'[i])
  BY <1>1, <1>2, RaisedColumns DEF Live
<1>4. CASE x \in Opened(v, assigned)
  <2>1. i \notin DOMAIN incidents /\ incidents'[i].root = x /\ incidents'[i].openedBy = t.run
    BY <1>4, IngestLeaves DEF IInv
  <2> QED
    BY <1>3, <2>1 DEF UpTo
<1>5. CASE x \notin Opened(v, assigned)
  <2>1. i \in Before(v) \/ (i \in Mine(v) /\ incidents[i].root = x)
    BY <1>1, <1>5 DEF Assigns
  <2>2. i \in DOMAIN incidents
    BY <1>1, <2>1 DEF Before, Mine
  <2>3. incidents'[i].root = incidents[i].root /\ incidents'[i].openedBy = incidents[i].openedBy
    BY <2>2, IngestLeaves DEF IInv
  <2>4. incidents[i].openedBy \in UpTo(t.run)
    BY <1>1, <2>2, StandingSays DEF Ingest, NightsInv, IncidentIds
  <2>5. i \in Before(v) => incidents[i].openedBy # t.run
    BY <1>1 DEF Before
  <2> QED
    BY <1>3, <2>1, <2>3, <2>4, <2>5
<1> QED
  BY <1>4, <1>5

\* What an ingest writes of its run's failing checks, and when.
LEMMA EventsAre ==
    ASSUME TypeOK, NEW t \in Target, Ingest(t), NEW v, NEW assigned, NEW after,
           IngestMakes(t, v, assigned, after)
    PROVE  /\ \A n \in Node : eventOf'[t.run][n] =
                 IF n \in v.events THEN assigned[v.rootOf[Subject[n]]] ELSE 0
           /\ linkedAt'[t.run] = Detected(t)
           /\ \A r \in Run \ {t.run} : eventOf'[r] = eventOf[r] /\ linkedAt'[r] = linkedAt[r]
           /\ \A n \in v.events : n \in Node /\ v.rootOf[Subject[n]] \in Roots(v)
           /\ \A x \in Roots(v) : \E n \in v.events : v.rootOf[Subject[n]] = x
<1>1. /\ v = ViewOf(t) /\ assigned = Assignment(v) /\ v.run = t.run /\ v.at = Detected(t)
  BY DEF IngestMakes
<1>2. /\ eventOf' = [eventOf EXCEPT ![t.run] =
                        [n \in Node |-> IF n \in v.events
                                        THEN assigned[v.rootOf[Subject[n]]] ELSE 0]]
      /\ linkedAt' = [linkedAt EXCEPT ![t.run] = v.at]
  BY <1>1 DEF Ingest
<1>3. eventOf \in [Run -> [Node -> Nat]] /\ linkedAt \in [Run -> Nat] /\ t.run \in Run
  BY TargetRun DEF TypeOK
<1>4. /\ v.events \subseteq Node /\ DOMAIN v.rootOf = {Subject[n] : n \in v.events}
      /\ Roots(v) = {v.rootOf[m] : m \in DOMAIN v.rootOf}
  BY <1>1, ViewSays DEF Roots
<1>5. \A n \in Node : eventOf'[t.run][n] =
          IF n \in v.events THEN assigned[v.rootOf[Subject[n]]] ELSE 0
  BY <1>2, <1>3
<1>6. linkedAt'[t.run] = Detected(t)
  BY <1>1, <1>2, <1>3
<1>7. \A r \in Run \ {t.run} : eventOf'[r] = eventOf[r] /\ linkedAt'[r] = linkedAt[r]
  BY <1>2, <1>3
<1>8. /\ \A n \in v.events : n \in Node /\ v.rootOf[Subject[n]] \in Roots(v)
      /\ \A x \in Roots(v) : \E n \in v.events : v.rootOf[Subject[n]] = x
  BY <1>4
<1> QED
  BY <1>5, <1>6, <1>7, <1>8

\* An ingest keeps the links.
LEMMA IngestKeepsLinks ==
    ASSUME NightsInOrder, IInv, TypeOK, NightsInv, LiveAreLinked, LinkedInTurn,
           NEW t \in Target, Ingest(t)
    PROVE  LiveAreLinked' /\ LinkedInTurn'
<1>1. Arrives(t) /\ Fresh(t) # {} /\ attempted' = attempted \cup {t}
  BY DEF Ingest
<1>2. PICK v, assigned, after : IngestMakes(t, v, assigned, after)
  BY IngestSays DEF IInv
<1>3. v = ViewOf(t) /\ v.incs = incidents /\ v.run = t.run
  BY <1>2 DEF IngestMakes
<1>4. t.run \in Run
  BY TargetRun
<1>5. /\ \A n \in Node : eventOf'[t.run][n] =
            IF n \in v.events THEN assigned[v.rootOf[Subject[n]]] ELSE 0
      /\ linkedAt'[t.run] = Detected(t)
      /\ \A r \in Run \ {t.run} : eventOf'[r] = eventOf[r] /\ linkedAt'[r] = linkedAt[r]
      /\ \A n \in v.events : n \in Node /\ v.rootOf[Subject[n]] \in Roots(v)
      /\ \A x \in Roots(v) : \E n \in v.events : v.rootOf[Subject[n]] = x
  BY <1>2, EventsAre
<1>6. /\ \A r, at : DetectedIn(r, at) => DetectedIn(r, at)'
      /\ \A at : at = Detected(t) => DetectedIn(t.run, at)'
  BY <1>1, FreshIsItsOwn DEF NightsInv
<1>7. \A n \in v.events : v.rootOf[Subject[n]] \in Above[Subject[n]] \cup {Subject[n]}
  <2> DEFINE failed == {Subject[n] : n \in v.events}
  <2>1. v.rootOf = RootOf(failed)
    BY <1>3 DEF ViewOf, View
  <2>2. failed \in SUBSET Node /\ \A n \in v.events : Subject[n] \in failed
    BY <1>5, DeskAssumption
  <2> HIDE DEF failed
  <2> QED
    BY <2>1, <2>2, RootsAreAbove
<1>8. ASSUME NEW i \in DOMAIN incidents', Live(incidents'[i]), NEW o, o = incidents'[i].openedBy
      PROVE  \E n \in Node : eventOf'[o][n] = i
  <2>1. CASE \E x \in Roots(v) : assigned[x] = i /\ o = t.run
    BY <1>5, <2>1
  <2>2. CASE i \notin DOMAIN incidents
    <3>1. PICK x \in Opened(v, assigned) : assigned[x] = i
      BY <1>2, <1>8, <2>2, IngestLeaves DEF IInv
    <3>2. o = t.run
      BY <1>2, <1>8, <3>1, IngestLeaves DEF IInv
    <3> QED
      BY <2>1, <3>1, <3>2 DEF Opened
  <2>3. CASE i \in DOMAIN incidents
    <3>1. /\ i \notin Merged(v, assigned) /\ o = incidents[i].openedBy
          /\ incidents'[i].mergedInto = incidents[i].mergedInto
      BY <1>2, <1>8, <2>3, IngestLeaves DEF IInv
    <3>2. Live(incidents[i])
      BY <1>8, <3>1 DEF Live
    <3>3. CASE o = t.run
      <4>1. i \in Mine(v)
        BY <1>3, <2>3, <3>1, <3>2, <3>3 DEF Mine
      <4>2. i \in Taken(v, assigned)
        BY <3>1, <4>1 DEF Merged
      <4> QED
        BY <2>1, <3>3, <4>2 DEF Taken
    <3>4. CASE o # t.run
      <4>1. o \in Run
        BY <2>3, <3>1 DEF IInv, Rows, Incident, IncidentIds
      <4> QED
        BY <1>5, <2>3, <3>1, <3>2, <3>4, <4>1 DEF LiveAreLinked, IncidentIds
    <3> QED
      BY <3>3, <3>4
  <2> QED
    BY <2>2, <2>3
<1>9. ASSUME NEW r \in Run, NEW n \in Node, NEW i, i = eventOf'[r][n], i # 0
      PROVE  LinkSays(r, n, i)'
  <2>1. CASE r = t.run
    <3>1. n \in v.events /\ i = assigned[v.rootOf[Subject[n]]]
      BY <1>5, <1>9, <2>1
    <3> DEFINE x == v.rootOf[Subject[n]]
    <3>2. x \in Roots(v) /\ x \in Above[Subject[n]] \cup {Subject[n]}
      BY <1>5, <1>7, <3>1
    <3>3. /\ i \in DOMAIN incidents' /\ Live(incidents'[i])
          /\ incidents'[i].openedBy \in UpTo(t.run)
          /\ incidents'[i].openedBy = t.run => incidents'[i].root = x
      <4> HIDE DEF x
      <4> QED
        BY <1>2, <3>1, <3>2, TakenSays DEF x
    <3>4. \A at : at = linkedAt'[r] => DetectedIn(r, at)'
      BY <1>5, <1>6, <2>1
    <3> QED
      BY <2>1, <3>2, <3>3, <3>4 DEF LinkSays, IncidentIds, UpTo, DetectedIn
  <2>2. CASE r # t.run
    <3>1. i = eventOf[r][n] /\ linkedAt'[r] = linkedAt[r]
      BY <1>5, <1>9, <2>2
    <3>2. /\ i \in DOMAIN incidents /\ Live(incidents[i]) /\ incidents[i].openedBy \in UpTo(r)
          /\ DetectedIn(r, linkedAt[r])
          /\ incidents[i].openedBy = r => incidents[i].root \in Above[Subject[n]] \cup {Subject[n]}
      BY <1>9, <3>1 DEF LinkedInTurn, LinkSays, IncidentIds
    <3>3. t.run \notin UpTo(r)
      <4>1. Begun(r)
        BY <3>2 DEF Begun, DetectedIn
      <4>2. t.run \notin Predecessors[r]
        BY <1>1, <4>1, BegunIsUpTo DEF NightsInv
      <4> QED
        BY <2>2, <4>2 DEF UpTo
    <3>4. i \notin Merged(v, assigned)
      BY <1>3, <3>2, <3>3 DEF Merged, Mine
    <3>5. /\ i \in DOMAIN incidents' /\ incidents'[i].root = incidents[i].root
          /\ incidents'[i].openedBy = incidents[i].openedBy
          /\ incidents'[i].mergedInto = incidents[i].mergedInto
      BY <1>2, <3>2, <3>4, IngestLeaves DEF IInv
    <3>6. DetectedIn(r, linkedAt[r])'
      <4>1. \A at : at = linkedAt[r] => DetectedIn(r, at)'
        BY <1>6, <3>2
      <4> QED
        BY <3>1, <4>1 DEF DetectedIn
    <3> QED
      BY <3>2, <3>5, <3>6 DEF LinkSays, IncidentIds, UpTo, Live
  <2> QED
    BY <2>1, <2>2
<1>10. LiveAreLinked'
  BY <1>8 DEF LiveAreLinked, IncidentIds
<1>11. LinkedInTurn'
  BY <1>9 DEF LinkedInTurn, LinkSays, DetectedIn, UpTo
<1> QED
  BY <1>10, <1>11

\* Every ingest keeps the links as the record reads them.
LEMMA NextLinks ==
    ASSUME NightsInOrder, IInv, TypeOK, NightsInv, LiveAreLinked, LinkedInTurn, [Next]_vars
    PROVE  LiveAreLinked' /\ LinkedInTurn'
<1>1. CASE UNCHANGED <<incidents, eventOf, linkedAt>> /\ attempted \subseteq attempted'
  <2>1. LiveAreLinked'
    BY <1>1 DEF LiveAreLinked, IncidentIds
  <2>2. LinkedInTurn'
    <3> SUFFICES ASSUME NEW r \in Run, NEW n \in Node, eventOf[r][n] # 0,
                        NEW i, i = eventOf[r][n]
                 PROVE  LinkSays(r, n, i)'
      BY <1>1 DEF LinkedInTurn, LinkSays, DetectedIn, UpTo
    <3>1. LinkSays(r, n, i)
      BY DEF LinkedInTurn
    <3> QED
      BY <1>1, <3>1 DEF LinkSays, IncidentIds, DetectedIn, UpTo
  <2> QED
    BY <2>1, <2>2
<1>2. \/ UNCHANGED <<incidents, eventOf, linkedAt>> /\ attempted \subseteq attempted'
      \/ \E t \in Target : Ingest(t)
  BY DEF Next, IngestNothingNew, IngestRollsBack, vars
<1> QED
  BY <1>1, <1>2, IngestKeepsLinks

\* An empty store has no links.
LEMMA InitLinks == Init => LiveAreLinked /\ LinkedInTurn
BY DEF Init, LiveAreLinked, LinkedInTurn, IncidentIds

\* The record of a store whose runs came in order: a live incident counts as opened in the
\* run that opened it, and a failing check of a run is in an incident of its record.
LEMMA RecordSays ==
    ASSUME NightsInOrder, IInv, TypeOK, NightsInv, LiveAreLinked, LinkedInTurn,
           FailuresAnnounced, NEW r \in Run
    PROVE  /\ \A i \in LiveIncidents : i \in OpenedIn(r) <=> incidents[i].openedBy = r
           /\ \A n \in Node : "bad" \in Reported(r, ranBy, n) =>
                 /\ LinkSays(r, n, eventOf[r][n])
                 /\ eventOf[r][n] \in LiveIncidents /\ r \in LinkedRuns(eventOf[r][n])
<1>1. \A i \in IncidentIds : i \in Nat \ {0} /\ incidents[i].openedBy \in Run
  BY DEF IInv, Rows, Numbered, Incident, IncidentIds
<1>2. attempted \subseteq Target
  BY DEF TypeOK
<1>3. ASSUME NEW i \in LiveIncidents
      PROVE  i \in OpenedIn(r) <=> incidents[i].openedBy = r
  <2> DEFINE o == incidents[i].openedBy
  <2>1. i \in IncidentIds /\ Live(incidents[i]) /\ o \in Run /\ i # 0
    BY <1>1 DEF LiveIncidents
  <2>2. o \in LinkedRuns(i)
    BY <2>1 DEF LiveAreLinked, LinkedRuns
  <2>3. \A q \in LinkedRuns(i) : q \in Run /\ o \in UpTo(q) /\ DetectedIn(q, linkedAt[q])
    BY <2>1 DEF LinkedRuns, LinkedInTurn, LinkSays
  <2> HIDE DEF o
  <2>4. \A q \in LinkedRuns(i) : q = o \/ linkedAt[o] < linkedAt[q]
    BY <1>2, <2>1, <2>2, <2>3, OrderSays DEF UpTo
  <2>5. \A q \in Run : linkedAt[q] \in Nat
    BY DEF TypeOK
  <2>6. MayComeFirst(i, o)
    BY <2>1, <2>2, <2>3, <2>4, <2>5 DEF MayComeFirst
  <2>7. MayComeFirst(i, r) => r = o
    BY <2>1, <2>2, <2>4, <2>5 DEF MayComeFirst
  <2> QED
    BY <2>6, <2>7 DEF OpenedIn, o
<1>4. ASSUME NEW n \in Node, "bad" \in Reported(r, ranBy, n)
      PROVE  /\ LinkSays(r, n, eventOf[r][n])
             /\ eventOf[r][n] \in LiveIncidents /\ r \in LinkedRuns(eventOf[r][n])
  <2>1. eventOf[r][n] \in IncidentIds
    BY <1>4 DEF FailuresAnnounced
  <2>2. LinkSays(r, n, eventOf[r][n])
    BY <1>1, <2>1 DEF LinkedInTurn
  <2> QED
    BY <2>1, <2>2 DEF LinkSays, LiveIncidents, LinkedRuns
<1> QED
  BY <1>3, <1>4

\* Of a node skipped below a failure, the incident of the failure has its root above it.
LEMMA SkippedAreShown ==
    ASSUME NightsInOrder, TestsAreLeaves, IInv, TypeOK, NightsInv, LiveAreLinked,
           LinkedInTurn, FailuresAnnounced,
           NEW r \in Run, AppendedIn(r) = {}, NEW n \in Node, "skipped" \in Reported(r, ranBy, n),
           NEW m \in Above[n], "bad" \in Reported(r, ranBy, m)
    PROVE  \E i \in OpenedIn(r) : n \in Skipped(i)
<1>1. m \in Node /\ Above[n] \subseteq Node
  BY AboveSays
<1>2. \A l \in Above[n] : Subject[l] = l /\ Dataset[l] = l
  <2> SUFFICES ASSUME NEW l \in Above[n] PROVE Subject[l] = l /\ Dataset[l] = l
    OBVIOUS
  <2>1. l \notin Test
    BY AboveSays DEF TestsAreLeaves
  <2> QED
    BY <1>1, <2>1, DeskAssumption
<1> DEFINE i == eventOf[r][m]
<1>3. LinkSays(r, m, i) /\ i \in LiveIncidents /\ r \in LinkedRuns(i)
  BY <1>1, RecordSays
<1>4. i \in OpenedIn(r)
  BY <1>3 DEF AppendedIn
<1>5. incidents[i].openedBy = r
  BY <1>3, <1>4, RecordSays
<1> DEFINE root == incidents[i].root
<1>6. root \in Above[m] \cup {m}
  BY <1>2, <1>3, <1>5 DEF LinkSays
<1>7. root \in Above[n]
  BY <1>6, AboveSays
<1>8. n \in Below(Dataset[root])
  BY <1>2, <1>7 DEF Below
<1>9. n \in Skipped(i)
  <2>1. n \in {k \in Node : "skipped" \in Reported(r, ranBy, k)}
    OBVIOUS
  <2>2. n \in UNION {{k \in Node : "skipped" \in Reported(q, ranBy, k)} : q \in LinkedRuns(i)}
    BY <1>3, <2>1
  <2> QED
    BY <1>8, <2>2 DEF Skipped
<1> QED
  BY <1>4, <1>9

\* The record of the nights adds up, in whatever order the pieces of each run come in:
\* nothing is lost, an incident counts as opened in its own run and in no other, a run that
\* failed is in some incident, and what failures skipped is shown (history.py,
\* load_history). The runs must be called one after the other, in time too (NightsInOrder).
THEOREM RecordAddsUp ==
    ASSUME NightsInOrder, TestsAreLeaves PROVE Spec => []TheRecordAddsUp
<1>1. ASSUME IInv, TypeOK, NightsInv, LiveAreLinked, LinkedInTurn, Announced
      PROVE  TheRecordAddsUp
  <2>1. FailuresAnnounced /\ lost = {}
    BY <1>1 DEF Announced, NightsInv, InTurn
  <2>2. \A i \in LiveIncidents, r \in Run : i \in OpenedIn(r) <=> incidents[i].openedBy = r
    BY <1>1, <2>1, RecordSays
  <2>3. ASSUME NEW r \in Run, NEW n \in Node, "bad" \in Reported(r, ranBy, n)
        PROVE  OpenedIn(r) \cup AppendedIn(r) # {}
    <3>1. eventOf[r][n] \in LiveIncidents /\ r \in LinkedRuns(eventOf[r][n])
      BY <1>1, <2>1, <2>3, RecordSays
    <3> QED
      BY <3>1 DEF AppendedIn
  <2>4. ASSUME NEW r \in Run, AppendedIn(r) = {}, NEW n \in Node,
               "skipped" \in Reported(r, ranBy, n),
               NEW m \in Above[n], "bad" \in Reported(r, ranBy, m)
        PROVE  \E i \in OpenedIn(r) : n \in Skipped(i)
    BY <1>1, <2>1, <2>4, SkippedAreShown
  <2>5. Recorded \subseteq Run
    BY DEF Recorded
  <2>6. ASSUME NEW r \in Recorded
        PROVE  LET failed == {n \in Node : "bad" \in Reported(r, ranBy, n)}
                   skipped == {n \in Node : "skipped" \in Reported(r, ranBy, n)}
               IN  /\ failed # {} => OpenedIn(r) \cup AppendedIn(r) # {}
                   /\ AppendedIn(r) = {} =>
                         \A n \in skipped : Above[n] \cap failed # {} =>
                             \E i \in OpenedIn(r) : n \in Skipped(i)
    <3>1. r \in Run
      BY <2>5
    <3> QED
      BY <2>3, <2>4, <3>1
  <2> QED
    BY <2>1, <2>2, <2>6 DEF TheRecordAddsUp
<1>2. IInv /\ TypeOK /\ NightsInv /\ LiveAreLinked /\ LinkedInTurn /\ [Next]_vars
         => LiveAreLinked' /\ LinkedInTurn'
  BY NextLinks
<1>3. IInv /\ TypeOK /\ Announced /\ [Next]_vars => Announced'
  BY NextAnnounced DEF IInv
<1>4. Spec => []NightsInv
  BY NightsFollow
<1> QED
  BY <1>1, <1>2, <1>3, <1>4, InitLinks, InitAnnounced, Invariance, TypesHold, PTL DEF Spec

-----------------------------------------------------------------------------
(* One build.                                                              *)

\* The incidents a run started from are those of runs before it, and are all still there.
FromStart(r, s) ==
    \A k \in DOMAIN s :
        /\ k \in IncidentIds /\ s[k].openedBy \in Predecessors[r]
        /\ incidents[k].root = s[k].root /\ incidents[k].openedBy = s[k].openedBy
        /\ incidents[k].openedAt = s[k].openedAt /\ incidents[k].mergedInto = s[k].mergedInto

\* Since then the run has opened the other incidents, and, of the live ones no run had
\* resolved, resolved some.
SinceStart(r, s) ==
    /\ \A i \in IncidentIds \ DOMAIN s : incidents[i].openedBy = r
    /\ \A k \in DOMAIN s :
          \/ incidents[k].resolvedBy = s[k].resolvedBy
          \/ /\ Live(incidents[k])
             /\ incidents[k].resolvedBy \in {NoRun, r} /\ s[k].resolvedBy \in {NoRun, r}

StartStands ==
    \A r \in Run : (\E j \in Invocation : ranBy[j] = r) =>
        /\ FromStart(r, atStart[r])
        /\ Current(r) => SinceStart(r, atStart[r])

\* An incident was opened by a run that reported something.
LEMMA OpenersReported ==
    ASSUME Rows, NEW i \in IncidentIds
    PROVE  \E j \in Invocation : ranBy[j] = incidents[i].openedBy
BY DEF Rows, FailedIn, Reported

\* When a run arrives, no run after it has reported anything.
LEMMA ArrivesIsCurrent ==
    ASSUME NightsInOrder, NightsInv, NEW t \in Target, Arrives(t),
           NEW q \in Run, NEW j \in Invocation, ranBy[j] = q
    PROVE  t.run \notin Predecessors[q] /\ q \in UpTo(t.run)
<1>1. q # NoRun
  BY DeskAssumption
<1>2. \A r : r = ranBy[j] => DetectedIn(r, At[j])
  BY <1>1 DEF NightsInv, InTurn
<1>3. Begun(q)
  BY <1>2 DEF DetectedIn, Begun
<1> QED
  BY <1>3, BegunIsUpTo DEF NightsInv

\* What a run starts from, its first ingest included.
LEMMA StartIs ==
    ASSUME NightsInOrder, IInv, TypeOK, NightsInv, StartStands, NEW t \in Target, Ingest(t),
           NEW s, s = atStart'[t.run]
    PROVE  s \in Seq(Incident) /\ FromStart(t.run, s) /\ SinceStart(t.run, s)
<1>1. Arrives(t) /\ Fresh(t) # {} /\ t.run \in Run
  BY TargetRun DEF Ingest
<1>2. atStart \in [Run -> Seq(Incident)] /\ incidents \in Seq(Incident)
  BY DEF TypeOK
<1>3. CASE \E j \in Invocation : ranBy[j] = t.run
  <2>1. s = atStart[t.run]
    BY <1>3 DEF Ingest
  <2>2. Current(t.run)
    BY <1>1, <1>3, ArrivesIsCurrent DEF Current
  <2> QED
    BY <1>1, <1>2, <1>3, <2>1, <2>2 DEF StartStands
<1>4. CASE ~\E j \in Invocation : ranBy[j] = t.run
  <2>1. s = incidents
    BY <1>1, <1>2, <1>4 DEF Ingest
  <2>2. \A i \in IncidentIds : incidents[i].openedBy \in UpTo(t.run) /\ incidents[i].openedBy # t.run
    BY <1>1, <1>4, StandingSays, OpenersReported DEF IInv, NightsInv
  <2> QED
    BY <1>2, <2>1, <2>2 DEF FromStart, SinceStart, UpTo, IncidentIds
<1> QED
  BY <1>3, <1>4

\* An ingest keeps what every run started from.
LEMMA IngestKeepsStart ==
    ASSUME NightsInOrder, IInv, TypeOK, NightsInv, StartStands, NEW t \in Target, Ingest(t)
    PROVE  StartStands'
<1>1. Arrives(t) /\ Fresh(t) # {} /\ t.run \in Run /\ ranBy' = Ran(t)
  BY TargetRun DEF Ingest
<1>2. PICK v, assigned, after : IngestMakes(t, v, assigned, after)
  BY IngestSays DEF IInv
<1>3. v = ViewOf(t) /\ v.incs = incidents /\ v.run = t.run
  BY <1>2 DEF IngestMakes
<1>4. \A j \in Invocation : ranBy'[j] = IF j \in Fresh(t) THEN t.run ELSE ranBy[j]
  BY <1>1 DEF Ran
<1>5. Fresh(t) \subseteq Invocation
  BY DeskAssumption DEF Fresh
<1>6. attempted \subseteq Target
  BY DEF TypeOK
<1>7. /\ t.run \notin Predecessors[t.run]
      /\ \A r \in Run : r \in Predecessors[t.run] => t.run \notin Predecessors[r]
  BY <1>1, <1>6, OrderSays
<1>8. ASSUME NEW r \in UpTo(t.run), r \in Run, NEW s, FromStart(r, s) PROVE FromStart(r, s)'
  <2> SUFFICES ASSUME NEW k \in DOMAIN s
               PROVE  /\ k \in DOMAIN incidents' /\ s[k].openedBy \in Predecessors[r]
                      /\ incidents'[k].root = s[k].root /\ incidents'[k].openedBy = s[k].openedBy
                      /\ incidents'[k].openedAt = s[k].openedAt
                      /\ incidents'[k].mergedInto = s[k].mergedInto
    BY DEF FromStart, IncidentIds
  <2>1. /\ k \in DOMAIN incidents /\ s[k].openedBy \in Predecessors[r]
        /\ incidents[k].root = s[k].root /\ incidents[k].openedBy = s[k].openedBy
        /\ incidents[k].openedAt = s[k].openedAt /\ incidents[k].mergedInto = s[k].mergedInto
    BY <1>8 DEF FromStart, IncidentIds
  <2>2. t.run \notin Predecessors[r]
    BY <1>7, <1>8 DEF UpTo
  <2>3. k \notin Merged(v, assigned)
    BY <1>3, <2>1, <2>2 DEF Merged, Mine
  <2> QED
    BY <1>2, <2>1, <2>3, IngestLeaves DEF IInv
<1>9. ASSUME NEW s, s = atStart'[t.run]
      PROVE  FromStart(t.run, s)' /\ SinceStart(t.run, s)'
  <2>1. FromStart(t.run, s) /\ SinceStart(t.run, s)
    BY <1>9, StartIs
  <2>2. FromStart(t.run, s)'
    BY <1>1, <1>8, <2>1 DEF UpTo
  <2>3. ASSUME NEW i \in DOMAIN incidents' \ DOMAIN s PROVE incidents'[i].openedBy = t.run
    <3>1. CASE i \in DOMAIN incidents
      <4>1. incidents[i].openedBy = t.run
        BY <2>1, <2>3, <3>1 DEF SinceStart, IncidentIds
      <4> QED
        BY <1>2, <3>1, <4>1, IngestLeaves DEF IInv
    <3>2. CASE i \notin DOMAIN incidents
      <4>1. PICK x \in Opened(v, assigned) : assigned[x] = i
        BY <1>2, <2>3, <3>2, IngestLeaves DEF IInv
      <4> QED
        BY <1>2, <4>1, IngestLeaves DEF IInv
    <3> QED
      BY <3>1, <3>2
  <2>4. ASSUME NEW k \in DOMAIN s
        PROVE  \/ incidents'[k].resolvedBy = s[k].resolvedBy
               \/ /\ Live(incidents'[k])
                  /\ incidents'[k].resolvedBy \in {NoRun, t.run} /\ s[k].resolvedBy \in {NoRun, t.run}
    <3>1. /\ k \in DOMAIN incidents /\ incidents[k].mergedInto = s[k].mergedInto
          /\ \/ incidents[k].resolvedBy = s[k].resolvedBy
             \/ /\ Live(incidents[k])
                /\ incidents[k].resolvedBy \in {NoRun, t.run} /\ s[k].resolvedBy \in {NoRun, t.run}
      BY <2>1 DEF FromStart, SinceStart, IncidentIds
    <3>2. incidents'[k].mergedInto = s[k].mergedInto
      BY <2>2 DEF FromStart
    <3>3. Live(incidents'[k]) <=> Live(incidents[k])
      BY <3>1, <3>2 DEF Live
    <3>4. CASE k \notin Before(v)
      <4>1. incidents'[k].resolvedBy = incidents[k].resolvedBy
        BY <1>2, <3>1, <3>4, IngestLeaves DEF IInv
      <4> QED
        BY <3>1, <3>3, <4>1
    <3>5. CASE k \in Before(v)
      <4>1. incidents'[k].resolvedBy \in {NoRun, t.run}
        BY <1>2, <3>1, <3>5, IngestLeaves DEF IInv
      <4>2. Live(incidents[k]) /\ incidents[k].resolvedBy \in {NoRun, t.run}
        BY <1>3, <3>5 DEF Before
      <4> QED
        BY <3>1, <3>3, <4>1, <4>2
    <3> QED
      BY <3>4, <3>5
  <2> QED
    BY <2>2, <2>3, <2>4 DEF SinceStart, IncidentIds
<1>10. ASSUME NEW r \in Run, r # t.run, NEW j \in Invocation, ranBy'[j] = r
       PROVE  /\ FromStart(r, atStart[r])'
              /\ atStart'[r] = atStart[r] /\ ~Current(r)'
  <2>1. ranBy[j] = r
    BY <1>4, <1>10
  <2>2. r \in Predecessors[t.run]
    BY <1>1, <1>10, <2>1, ArrivesIsCurrent DEF UpTo
  <2>3. atStart'[r] = atStart[r]
    BY <1>10 DEF Ingest, TypeOK
  <2>4. ~Current(r)'
    <3>1. PICK f \in Fresh(t) : TRUE
      BY <1>1
    <3>2. f \in Invocation /\ ranBy'[f] = t.run
      BY <1>4, <1>5
    <3> QED
      BY <1>1, <2>2, <3>2 DEF Current
  <2>5. FromStart(r, atStart[r])
    BY <2>1 DEF StartStands
  <2>6. \A s : s = atStart[r] => FromStart(r, s)'
    BY <1>8, <2>2, <2>5 DEF UpTo
  <2>7. FromStart(r, atStart[r])'
    BY <2>3, <2>6 DEF FromStart
  <2> QED
    BY <2>3, <2>4, <2>7
<1> SUFFICES ASSUME NEW r \in Run, NEW j \in Invocation, ranBy'[j] = r
             PROVE  FromStart(r, atStart[r])' /\ (Current(r)' => SinceStart(r, atStart[r])')
  BY DEF StartStands
<1>11. CASE r = t.run
  BY <1>9, <1>11 DEF FromStart, SinceStart
<1>12. CASE r # t.run
  BY <1>10, <1>12
<1> QED
  BY <1>11, <1>12

\* Every ingest keeps what a run found when it started.
LEMMA NextStart ==
    ASSUME NightsInOrder, IInv, TypeOK, NightsInv, StartStands, [Next]_vars
    PROVE  StartStands'
<1>1. CASE UNCHANGED <<ranBy, incidents, atStart>>
  BY <1>1 DEF StartStands, FromStart, SinceStart, Current, IncidentIds
<1> QED
  BY <1>1, OtherSteps, IngestKeepsStart

\* No run has started.
LEMMA InitStart == Init => StartStands
BY DeskAssumption DEF Init, StartStands

\* The latest of what some invocations detected.
LEMMA LatestOfPieces ==
    ASSUME NEW S \in SUBSET Invocation, S # {}, NEW at, at = Latest({At[i] : i \in S})
    PROVE  at \in Times /\ at \in Nat /\ \A j \in S : At[j] <= at
<1> DEFINE T == {At[i] : i \in S}
<1>1. T \subseteq Nat /\ T # {}
  BY DeskAssumption
<1>2. IsFiniteSet(T)
  <2>1. IsFiniteSet(S)
    BY FS_Subset, PolicyAssumption
  <2>2. [i \in S |-> At[i]] \in Surjection(S, T)
    BY DEF Surjection
  <2> QED
    BY <2>1, <2>2, FS_Surjection
<1>3. Latest(T) \in T /\ \A u \in T : u <= Latest(T)
  <2> HIDE DEF T
  <2> QED
    BY <1>1, <1>2, LatestIsLatest
<1>4. at \in T /\ \A u \in T : u <= at
  BY <1>3
<1> QED
  BY <1>1, <1>4 DEF Times

\* The view of a run ingested at once on the incidents it started from.
BuildView(t, s) ==
    View(s, t.run, Latest({At[i] : i \in {j \in Invocation : Ran(t)[j] = t.run}}), Ran(t))

\* The view of the one build: what it sees of its run is what the ingest sees, and the
\* incidents it may append to or resolve are the same; it has none of its own.
LEMMA OneBuildView ==
    ASSUME NightsInOrder, IInv, TypeOK, NightsInv, StartStands, NEW t \in Target, Ingest(t),
           NEW v, v = ViewOf(t), NEW s, s = atStart'[t.run], NEW w, w = BuildView(t, s)
    PROVE  /\ w.incs = s /\ w.run = t.run /\ w.events = v.events
           /\ w.status = v.status /\ w.rootOf = v.rootOf
           /\ Roots(w) = Roots(v) /\ Roots(w) \subseteq Node /\ IsFiniteSet(Roots(w))
           /\ IsView(w) /\ Before(w) = Before(v) /\ Mine(w) = {}
           /\ \A k \in Before(v) : v.incs[k].root = w.incs[k].root
<1>1. Arrives(t) /\ Fresh(t) # {} /\ t.run \in Run /\ t.run # NoRun
  BY TargetRun DEF Ingest
<1>2. s \in Seq(Incident) /\ FromStart(t.run, s) /\ SinceStart(t.run, s)
  BY StartIs
<1>3. /\ v.incs = incidents /\ v.run = t.run /\ v.at = Detected(t)
      /\ DOMAIN v.rootOf = {Subject[n] : n \in v.events}
      /\ v.rootOf \in [DOMAIN v.rootOf -> DOMAIN v.rootOf]
      /\ Roots(v) \subseteq DOMAIN v.rootOf
      /\ DOMAIN v.rootOf \subseteq Node /\ IsFiniteSet(Roots(v))
  BY ViewSays
<1>4. /\ w.incs = s /\ w.run = t.run /\ w.events = v.events
      /\ w.status = v.status /\ w.rootOf = v.rootOf
      /\ w.at = Latest({At[i] : i \in {j \in Invocation : Ran(t)[j] = t.run}})
  BY DEF ViewOf, View, BuildView
<1>5. Roots(w) = Roots(v)
  BY <1>4 DEF Roots
<1>6. w.at \in Times /\ w.at \in Nat /\ Detected(t) <= w.at
  <2> DEFINE S == {j \in Invocation : Ran(t)[j] = t.run}
  <2>1. PICK f \in Fresh(t) : At[f] = Detected(t)
    BY <1>1, DetectedIsOfAPiece
  <2>2. f \in S
    BY <2>1, DeskAssumption DEF Ran, Fresh
  <2>3. S \in SUBSET Invocation
    OBVIOUS
  <2>4. w.at = Latest({At[i] : i \in S})
    BY <1>4
  <2> HIDE DEF S
  <2> QED
    BY <2>1, <2>2, <2>3, <2>4, LatestOfPieces
<1>7. t.run \notin Predecessors[t.run]
  BY <1>1, OrderSays DEF TypeOK
<1>8. /\ \A k \in DOMAIN s :
            /\ k \in DOMAIN incidents /\ s[k].openedBy \in Predecessors[t.run]
            /\ incidents[k].root = s[k].root /\ incidents[k].openedBy = s[k].openedBy
            /\ incidents[k].openedAt = s[k].openedAt /\ incidents[k].mergedInto = s[k].mergedInto
            /\ \/ incidents[k].resolvedBy = s[k].resolvedBy
               \/ incidents[k].resolvedBy \in {NoRun, t.run} /\ s[k].resolvedBy \in {NoRun, t.run}
      /\ \A i \in DOMAIN incidents \ DOMAIN s : incidents[i].openedBy = t.run
  BY <1>2 DEF FromStart, SinceStart, IncidentIds
<1>9. Mine(w) = {}
  <2>1. \A k \in DOMAIN s : s[k].openedBy # t.run
    BY <1>7, <1>8
  <2> QED
    BY <1>4, <2>1 DEF Mine
<1>10. Numbered(s) /\ \A k \in DOMAIN s : s[k] \in Incident
  BY <1>2 DEF Numbered
<1>11. IsView(w)
  BY <1>1, <1>3, <1>4, <1>5, <1>6, <1>9, <1>10 DEF IsView
<1>12. Before(v) = {i \in DOMAIN incidents :
                     /\ Live(incidents[i]) /\ incidents[i].openedBy # t.run
                     /\ incidents[i].resolvedBy \in {NoRun, t.run}}
  BY <1>1, StandingSays DEF NightsInv, IncidentIds
<1>13. ASSUME NEW k \in DOMAIN s
       PROVE  Live(s[k]) = Live(incidents[k]) /\ s[k].openedBy # t.run /\ s[k].openedAt <= w.at
  <2>1. incidents[k].openedAt <= Detected(t)
    BY <1>1, <1>7, <1>8, StandingSays DEF NightsInv, IncidentIds
  <2>2. s[k].openedAt \in Nat /\ Detected(t) \in Nat
    <3>1. PICK f \in Fresh(t) : At[f] = Detected(t)
      BY <1>1, DetectedIsOfAPiece
    <3>2. f \in Invocation
      BY <3>1, DeskAssumption DEF Fresh
    <3> QED
      BY <1>10, <3>1, <3>2, DeskAssumption DEF Incident
  <2> QED
    BY <1>6, <1>7, <1>8, <2>1, <2>2 DEF Live
<1>14. ASSUME NEW k \in Before(w) PROVE k \in Before(v)
  <2>1. k \in DOMAIN s /\ Live(s[k]) /\ s[k].resolvedBy \in {NoRun, t.run}
    BY <1>4 DEF Before
  <2> QED
    BY <1>8, <1>12, <1>13, <2>1
<1>15. ASSUME NEW k \in Before(v) PROVE k \in Before(w)
  <2>1. k \in DOMAIN incidents /\ Live(incidents[k]) /\ incidents[k].openedBy # t.run
        /\ incidents[k].resolvedBy \in {NoRun, t.run}
    BY <1>12
  <2>2. k \in DOMAIN s
    BY <1>8, <2>1
  <2>3. s[k].resolvedBy \in {NoRun, t.run}
    BY <1>8, <2>1, <2>2
  <2> QED
    BY <1>4, <1>13, <2>1, <2>2, <2>3 DEF Before
<1>16. Before(w) = Before(v)
  BY <1>14, <1>15
<1>17. \A k \in Before(v) : v.incs[k].root = w.incs[k].root
  <2>1. Before(w) \subseteq DOMAIN s
    BY <1>4 DEF Before
  <2> QED
    BY <1>3, <1>4, <1>8, <1>16, <2>1
<1> QED
  BY <1>3, <1>4, <1>5, <1>9, <1>11, <1>16, <1>17

\* The one build opens an incident for a root that is not appended to an older one, and
\* appends the others as the ingest did; and it settles the older incidents alike.
LEMMA OneBuildRows ==
    ASSUME NightsInOrder, IInv, TypeOK, NightsInv, StartStands, NEW t \in Target, Ingest(t),
           NEW v, NEW assigned, NEW after, IngestMakes(t, v, assigned, after),
           NEW s, s = atStart'[t.run], NEW w, w = BuildView(t, s),
           NEW given, given = Assignment(w), NEW built, built = Regrouped(w, given)
    PROVE  /\ \A x \in Roots(v) :
                 /\ x \in Opened(w, given) <=> assigned[x] \notin DOMAIN s
                 /\ IF x \in Opened(w, given)
                    THEN /\ given[x] \notin DOMAIN s /\ built[given[x]].root = x
                         /\ incidents'[assigned[x]].root = x
                    ELSE given[x] \in DOMAIN s /\ assigned[x] = given[x]
           /\ \A k \in DOMAIN s : /\ incidents'[k].resolvedBy = built[k].resolvedBy
                                  /\ incidents'[k].mergedInto = built[k].mergedInto
<1>1. /\ v = ViewOf(t) /\ IsView(v) /\ Assigns(v, assigned) /\ assigned = Assignment(v)
      /\ v.incs = incidents /\ v.run = t.run
  BY DEF IngestMakes
<1>2. /\ w.incs = s /\ w.run = t.run /\ w.events = v.events
      /\ w.status = v.status /\ w.rootOf = v.rootOf
      /\ Roots(w) = Roots(v) /\ Roots(w) \subseteq Node /\ IsFiniteSet(Roots(w))
      /\ IsView(w) /\ Before(w) = Before(v) /\ Mine(w) = {}
      /\ \A k \in Before(v) : v.incs[k].root = w.incs[k].root
  BY <1>1, OneBuildView
<1>3. Numbered(v.incs) /\ Numbered(w.incs)
  BY <1>1, <1>2 DEF IsView
<1>4. Assigns(w, given)
  BY <1>2, <1>3, AssignmentSays
<1>5. FromStart(t.run, s) /\ SinceStart(t.run, s)
  BY StartIs
<1>6. Before(v) \subseteq DOMAIN s /\ 0 \notin Before(v)
  <2>1. Before(w) \subseteq DOMAIN s
    BY <1>2 DEF Before
  <2> QED
    BY <1>2, <1>3, <2>1 DEF Numbered
<1>7. \A i \in Mine(v) : i \in DOMAIN incidents /\ i \notin DOMAIN s /\ i # 0
  <2>1. \A i \in Mine(v) : i \in DOMAIN incidents /\ incidents[i].openedBy = t.run
    BY <1>1 DEF Mine
  <2>2. t.run \notin Predecessors[t.run]
    BY TargetRun, OrderSays DEF TypeOK
  <2> QED
    BY <1>1, <1>3, <1>5, <2>1, <2>2 DEF FromStart, Numbered
<1>8. ASSUME NEW x \in Roots(v)
      PROVE  /\ Match(v, x) \in Before(v) <=> Match(w, x) # 0
             /\ Match(w, x) # 0 => Match(w, x) = Match(v, x)
  <2>1. Match(v, x) \in Before(v) => Match(w, x) = Match(v, x)
    BY <1>2, <1>3, MatchSame
  <2>2. Match(w, x) = 0 \/ Match(w, x) \in Before(w)
    BY <1>2, <1>3, MatchIs
  <2>3. Match(w, x) \in Before(w) => Match(v, x) = Match(w, x)
    BY <1>2, <1>3, MatchSame
  <2> QED
    BY <1>2, <1>6, <2>1, <2>2, <2>3
<1>9. /\ DOMAIN s \subseteq DOMAIN built
      /\ \A k \in DOMAIN s :
            /\ k \notin Merged(w, given) => built[k].mergedInto = s[k].mergedInto
            /\ built[k].resolvedBy =
                  IF k \notin Before(w) THEN s[k].resolvedBy
                  ELSE IF k \in Taken(w, given) \/ ~Healthy(w, s[k].root) THEN NoRun
                  ELSE t.run
      /\ \A x \in Opened(w, given) :
            given[x] \in DOMAIN built \ DOMAIN s /\ built[given[x]].root = x
  <2>1. IsView(w) /\ w.incs = s /\ w.run = t.run
    BY <1>2
  <2>2. DOMAIN w.incs \subseteq DOMAIN built
    BY <1>4, <2>1, AfterRows
  <2>3. \A k \in DOMAIN w.incs :
           /\ k \notin Merged(w, given) => built[k].mergedInto = w.incs[k].mergedInto
           /\ built[k].resolvedBy =
                 IF k \notin Before(w) THEN w.incs[k].resolvedBy
                 ELSE IF k \in Taken(w, given) \/ ~Healthy(w, w.incs[k].root) THEN NoRun
                 ELSE w.run
    BY <1>4, <2>1, AfterRows
  <2>4. \A x \in Opened(w, given) :
           given[x] \in DOMAIN built \ DOMAIN w.incs /\ built[given[x]].root = x
    BY <1>4, <2>1, AfterRows
  <2> QED
    BY <2>1, <2>2, <2>3, <2>4
<1>10. ASSUME NEW x \in Roots(v)
       PROVE  /\ x \in Opened(w, given) <=> Match(w, x) = 0
              /\ Match(w, x) # 0 => given[x] = Match(w, x)
              /\ x \in Opened(v, assigned) <=> Match(v, x) = 0
              /\ Match(v, x) # 0 => assigned[x] = Match(v, x)
  <2>1. /\ x \in Opened(w, given) <=> Match(w, x) = 0
        /\ Match(w, x) # 0 => given[x] = Match(w, x)
    BY <1>2, <1>3, AssignmentIs
  <2>2. /\ x \in Opened(v, assigned) <=> Match(v, x) = 0
        /\ Match(v, x) # 0 => assigned[x] = Match(v, x)
    BY <1>1, <1>2, <1>3, AssignmentIs
  <2> QED
    BY <2>1, <2>2
<1>11. ASSUME NEW x \in Roots(v), x \notin Opened(w, given)
       PROVE  given[x] \in DOMAIN s /\ assigned[x] = given[x] /\ given[x] \in Before(v)
  BY <1>6, <1>8, <1>10, <1>11
<1>12. ASSUME NEW x \in Roots(v), x \in Opened(w, given)
       PROVE  assigned[x] \notin DOMAIN s /\ incidents'[assigned[x]].root = x
  <2>1. Match(v, x) \notin Before(v)
    BY <1>8, <1>10, <1>12
  <2>2. CASE Match(v, x) = 0
    <3>1. assigned[x] \notin DOMAIN incidents /\ incidents'[assigned[x]].root = x
      BY <1>10, <2>2, IngestLeaves DEF IInv
    <3> QED
      BY <1>5, <3>1 DEF FromStart, IncidentIds
  <2>3. CASE Match(v, x) # 0
    <3>0. \/ Match(v, x) = 0 \/ Match(v, x) \in Before(v)
          \/ Match(v, x) \in Mine(v) /\ v.incs[Match(v, x)].root = x
      BY <1>3, MatchIs
    <3>1. assigned[x] = Match(v, x) /\ assigned[x] \in Mine(v) /\ v.incs[assigned[x]].root = x
      BY <1>10, <2>1, <2>3, <3>0
    <3>2. incidents'[assigned[x]].root = incidents[assigned[x]].root
      BY <1>7, <3>1, IngestLeaves DEF IInv
    <3> QED
      BY <1>1, <1>7, <3>1, <3>2
  <2> QED
    BY <2>2, <2>3
<1>13. \A k \in Before(v) : k \in Taken(v, assigned) <=> k \in Taken(w, given)
  <2>1. ASSUME NEW k \in Before(v), NEW x \in Roots(v), assigned[x] = k PROVE given[x] = k
    <3>1. x \notin Opened(w, given)
      BY <1>6, <1>12, <2>1
    <3> QED
      BY <1>11, <2>1, <3>1
  <2>2. ASSUME NEW k \in Before(v), NEW x \in Roots(v), given[x] = k PROVE assigned[x] = k
    <3>1. x \notin Opened(w, given)
      BY <1>6, <1>9, <2>2
    <3> QED
      BY <1>11, <2>2, <3>1
  <2> QED
    BY <1>2, <2>1, <2>2 DEF Taken
<1>14. ASSUME NEW k \in DOMAIN s
       PROVE  /\ incidents'[k].resolvedBy = built[k].resolvedBy
              /\ incidents'[k].mergedInto = built[k].mergedInto
  <2>1. /\ k \in DOMAIN incidents /\ incidents[k].root = s[k].root
        /\ incidents[k].mergedInto = s[k].mergedInto /\ incidents[k].openedBy = s[k].openedBy
    BY <1>5 DEF FromStart, IncidentIds
  <2>2. k \notin Merged(v, assigned) /\ k \notin Merged(w, given)
    BY <1>2, <1>7 DEF Merged
  <2>3. incidents'[k].mergedInto = built[k].mergedInto
    BY <1>9, <2>1, <2>2, IngestLeaves DEF IInv
  <2>4. \A root : Healthy(v, root) = Healthy(w, root)
    <3>1. ASSUME NEW a, NEW b, a.status = b.status, NEW root PROVE Healthy(a, root) = Healthy(b, root)
      BY <3>1 DEF Healthy
    <3> QED
      BY <1>2, <3>1
  <2>5. incidents'[k].resolvedBy =
           IF k \notin Before(v) THEN incidents[k].resolvedBy
           ELSE IF k \in Taken(v, assigned) \/ ~Healthy(v, incidents[k].root) THEN NoRun
           ELSE t.run
    BY <2>1, IngestLeaves DEF IInv
  <2>6. k \notin Before(v) => incidents[k].resolvedBy = s[k].resolvedBy
    <3> SUFFICES ASSUME incidents[k].resolvedBy # s[k].resolvedBy PROVE k \in Before(v)
      OBVIOUS
    <3>1. Live(incidents[k]) /\ incidents[k].resolvedBy \in {NoRun, t.run}
      BY <1>5 DEF SinceStart
    <3>2. incidents[k].openedBy # t.run
      <4>1. t.run \notin Predecessors[t.run]
        BY TargetRun, OrderSays DEF TypeOK
      <4> QED
        BY <1>5, <2>1, <4>1 DEF FromStart
    <3> QED
      BY <1>1, <2>1, <3>1, <3>2, StandingSays DEF Ingest, NightsInv, IncidentIds
  <2>7. incidents'[k].resolvedBy = built[k].resolvedBy
    BY <1>2, <1>9, <1>13, <2>1, <2>4, <2>5, <2>6
  <2> QED
    BY <2>3, <2>7
<1> QED
  BY <1>9, <1>11, <1>12, <1>14

\* What a run has left, against what it would have left as one build w.
BuiltAlike(r, w, given, built) ==
    /\ \A n \in w.events :
          LET a == given[w.rootOf[Subject[n]]]
              i == eventOf[r][n]
          IN  /\ Open(incidents[i])
              /\ IF a \in DOMAIN atStart[r] THEN i = a
                 ELSE i \notin DOMAIN atStart[r] /\ incidents[i].root = built[a].root
    /\ \A k \in DOMAIN atStart[r] : /\ incidents[k].resolvedBy = built[k].resolvedBy
                                    /\ incidents[k].mergedInto = built[k].mergedInto
    /\ {incidents[i].root : i \in {k \in IncidentIds \ DOMAIN atStart[r] : Live(incidents[k])}}
          = Opened(w, given)

\* Whatever pieces of the run came before, after an ingest it has left what one build would.
LEMMA IngestBuildsAlike ==
    ASSUME NightsInOrder, IInv, TypeOK, NightsInv, StartStands, NEW t \in Target, Ingest(t),
           NEW w, w = BuildView(t, atStart'[t.run]),
           NEW given, given = Assignment(w), NEW built, built = Regrouped(w, given)
    PROVE  BuiltAlike(t.run, w, given, built)'
<1>1. PICK v, assigned, after : IngestMakes(t, v, assigned, after)
  BY IngestSays DEF IInv
<1>2. v = ViewOf(t) /\ v.incs = incidents /\ v.run = t.run
  BY <1>1 DEF IngestMakes
<1>3. PICK s : s = atStart'[t.run]
  OBVIOUS
<1>4. w.events = v.events /\ w.rootOf = v.rootOf /\ Roots(w) = Roots(v)
  BY <1>2, OneBuildView
<1>5. /\ \A x \in Roots(v) :
            /\ x \in Opened(w, given) <=> assigned[x] \notin DOMAIN s
            /\ IF x \in Opened(w, given)
               THEN /\ given[x] \notin DOMAIN s /\ built[given[x]].root = x
                    /\ incidents'[assigned[x]].root = x
               ELSE given[x] \in DOMAIN s /\ assigned[x] = given[x]
      /\ \A k \in DOMAIN s : /\ incidents'[k].resolvedBy = built[k].resolvedBy
                             /\ incidents'[k].mergedInto = built[k].mergedInto
  BY <1>1, <1>3, OneBuildRows
<1>6. /\ \A n \in v.events : n \in Node /\ v.rootOf[Subject[n]] \in Roots(v)
      /\ \A n \in v.events : eventOf'[t.run][n] = assigned[v.rootOf[Subject[n]]]
  BY <1>1, EventsAre
<1>7. ASSUME NEW x \in Roots(v)
      PROVE  /\ assigned[x] \in DOMAIN incidents' /\ Open(incidents'[assigned[x]])
  <2> DEFINE i == assigned[x]
  <2>1. /\ i \in DOMAIN incidents' /\ Live(incidents'[i])
        /\ i \notin DOMAIN incidents \/ i \in Before(v) \/ i \in Mine(v)
    BY <1>1, TakenSays
  <2>2. CASE i \notin DOMAIN incidents
    <3>1. PICK y \in Opened(v, assigned) : assigned[y] = i
      BY <1>1, <2>1, <2>2, IngestLeaves DEF IInv
    <3> QED
      BY <1>1, <2>1, <3>1, IngestLeaves DEF IInv, Open
  <2>3. CASE i \in Before(v)
    <3>1. i \in DOMAIN incidents /\ i \in Taken(v, assigned)
      BY <1>2, <2>3 DEF Before, Taken
    <3>2. incidents'[i].resolvedBy = NoRun
      BY <1>1, <2>3, <3>1, IngestLeaves DEF IInv
    <3> QED
      BY <2>1, <3>2 DEF Open
  <2>4. CASE i \in Mine(v)
    <3>1. i \in DOMAIN incidents /\ incidents[i].openedBy = t.run /\ i \notin Before(v)
      BY <1>2, <2>4 DEF Mine, Before
    <3>2. incidents[i].resolvedBy = NoRun
      BY <1>2, <3>1, StandingSays DEF Ingest, NightsInv, IncidentIds
    <3>3. incidents'[i].resolvedBy = NoRun
      BY <1>1, <3>1, <3>2, IngestLeaves DEF IInv
    <3> QED
      BY <2>1, <3>3 DEF Open
  <2> QED
    BY <2>1, <2>2, <2>3, <2>4
<1>8. ASSUME NEW i \in DOMAIN incidents' \ DOMAIN s, Live(incidents'[i])
      PROVE  incidents'[i].root \in Opened(w, given)
  <2>1. \E x \in Roots(v) : assigned[x] = i
    <3>1. CASE i \notin DOMAIN incidents
      <4>1. PICK x \in Opened(v, assigned) : assigned[x] = i
        BY <1>1, <1>8, <3>1, IngestLeaves DEF IInv
      <4> QED
        BY <4>1 DEF Opened
    <3>2. CASE i \in DOMAIN incidents
      <4>1. SinceStart(t.run, s)
        BY <1>3, StartIs
      <4>2. incidents[i].openedBy = t.run
        BY <1>8, <3>2, <4>1 DEF SinceStart, IncidentIds
      <4>3. i \notin Merged(v, assigned) /\ incidents'[i].mergedInto = incidents[i].mergedInto
        BY <1>1, <1>8, <3>2, IngestLeaves DEF IInv
      <4>4. i \in Mine(v)
        BY <1>2, <1>8, <3>2, <4>2, <4>3 DEF Mine, Live
      <4> QED
        BY <4>3, <4>4 DEF Merged, Taken
    <3> QED
      BY <3>1, <3>2
  <2> QED
    BY <1>5, <1>8, <2>1
<1>9. ASSUME NEW x \in Opened(w, given)
      PROVE  \E i \in DOMAIN incidents' \ DOMAIN s : Live(incidents'[i]) /\ incidents'[i].root = x
  <2>1. x \in Roots(v)
    BY <1>4 DEF Opened
  <2> QED
    BY <1>5, <1>7, <2>1 DEF Open
<1>10. {incidents'[i].root : i \in {k \in DOMAIN incidents' \ DOMAIN s : Live(incidents'[k])}}
          = Opened(w, given)
  BY <1>8, <1>9
<1>11. ASSUME NEW n \in w.events, NEW a, a = given[w.rootOf[Subject[n]]],
              NEW i, i = eventOf'[t.run][n]
       PROVE  /\ Open(incidents'[i])
              /\ IF a \in DOMAIN s THEN i = a
                 ELSE i \notin DOMAIN s /\ incidents'[i].root = built[a].root
  <2>1. PICK x \in Roots(v) : x = w.rootOf[Subject[n]] /\ i = assigned[x] /\ a = given[x]
    BY <1>4, <1>6, <1>11
  <2> QED
    BY <1>5, <1>7, <2>1
<1> QED
  BY <1>3, <1>5, <1>10, <1>11 DEF BuiltAlike, Open, Live, IncidentIds

\* The invariant: a current run has left what its one build would.
AsOneBuild ==
    \A r \in Run : Current(r) =>
        \A w, given, built :
            w = OneBuild(r) /\ given = Assignment(w) /\ built = Regrouped(w, given) =>
                BuiltAlike(r, w, given, built)

\* The invariant says what the property says.
LEMMA AsOneBuildIsSame == AsOneBuild => SameIncidentsAsOneBuild
<1> SUFFICES ASSUME AsOneBuild PROVE SameIncidentsAsOneBuild
  OBVIOUS
<1> QED
  BY DEF AsOneBuild, SameIncidentsAsOneBuild, BuiltAlike

\* After an ingest only its own run is current, and its one build is what was ingested.
LEMMA IngestAsOneBuild ==
    ASSUME NightsInOrder, IInv, TypeOK, NightsInv, StartStands, NEW t \in Target, Ingest(t)
    PROVE  AsOneBuild'
<1>1. Arrives(t) /\ Fresh(t) # {} /\ t.run \in Run /\ ranBy' = Ran(t) /\ outcome' = outcome
  BY TargetRun DEF Ingest
<1>2. \A j \in Invocation : ranBy'[j] = IF j \in Fresh(t) THEN t.run ELSE ranBy[j]
  BY <1>1 DEF Ran
<1>3. ASSUME NEW r \in Run, Current(r)' PROVE r = t.run
  <2> SUFFICES ASSUME r # t.run PROVE FALSE
    OBVIOUS
  <2>1. PICK j \in Invocation : ranBy'[j] = r
    BY <1>3 DEF Current
  <2>2. r \in Predecessors[t.run]
    BY <1>1, <1>2, <2>1, ArrivesIsCurrent DEF UpTo
  <2>3. PICK f \in Fresh(t) : f \in Invocation
    BY <1>1, DeskAssumption DEF Fresh
  <2>4. ranBy'[f] = t.run
    BY <1>2, <2>3
  <2> QED
    BY <1>1, <1>3, <2>2, <2>3, <2>4 DEF Current
<1>4. OneBuild(t.run)' = BuildView(t, atStart'[t.run])
  BY <1>1 DEF OneBuild, BuildView, View, Worst, Reported
<1>5. ASSUME NEW w, w = OneBuild(t.run)', NEW given, given = Assignment(w),
             NEW built, built = Regrouped(w, given)
      PROVE  BuiltAlike(t.run, w, given, built)'
  BY <1>4, <1>5, IngestBuildsAlike
<1> SUFFICES ASSUME NEW r \in Run, Current(r)', NEW w, w = OneBuild(r)',
                    NEW given, given = Assignment(w), NEW built, built = Regrouped(w, given)
             PROVE  BuiltAlike(r, w, given, built)'
  BY DEF AsOneBuild
<1>6. r = t.run
  BY <1>3
<1>7. w = OneBuild(t.run)'
  BY <1>6 DEF OneBuild, View, Worst, Reported
<1>8. BuiltAlike(t.run, w, given, built)'
  BY <1>5, <1>7
<1> QED
  BY <1>6, <1>8 DEF BuiltAlike

\* Every ingest leaves what one build of the run would have left.
LEMMA NextAsOneBuild ==
    ASSUME NightsInOrder, IInv, TypeOK, NightsInv, StartStands, AsOneBuild, [Next]_vars
    PROVE  AsOneBuild'
<1>1. CASE UNCHANGED <<outcome, ranBy, incidents, eventOf, atStart>>
  <2>1. \A r \in Run : OneBuild(r)' = OneBuild(r)
    BY <1>1 DEF OneBuild, View, Worst, Reported
  <2>2. \A r \in Run : Current(r)' => Current(r)
    BY <1>1 DEF Current
  <2>3. \A r, w, given, built : BuiltAlike(r, w, given, built) => BuiltAlike(r, w, given, built)'
    BY <1>1 DEF BuiltAlike, Open, Live, IncidentIds
  <2> QED
    BY <2>1, <2>2, <2>3 DEF AsOneBuild
<1> QED
  BY <1>1, OtherSteps, IngestAsOneBuild

\* No run has reported anything.
LEMMA InitAsOneBuild == Init => AsOneBuild
BY DeskAssumption DEF Init, AsOneBuild, Current

\* However a run is split into invocations and in whatever order they are ingested, it
\* leaves the incidents that one build would: the same older incidents appended to,
\* resolved and left alone, new ones for the same roots, every failure in an open one
\* (desk.py, _regroup; incidents/README.md). The runs must be called one after the other,
\* in time too (NightsInOrder).
THEOREM SplitRunsAreOneBuild ==
    ASSUME NightsInOrder PROVE Spec => []SameIncidentsAsOneBuild
<1>1. IInv /\ TypeOK /\ NightsInv /\ StartStands /\ [Next]_vars => StartStands'
  BY NextStart
<1>2. IInv /\ TypeOK /\ NightsInv /\ StartStands /\ AsOneBuild /\ [Next]_vars => AsOneBuild'
  BY NextAsOneBuild
<1>3. Spec => []NightsInv
  BY NightsFollow
<1> QED
  BY <1>1, <1>2, <1>3, InitStart, InitAsOneBuild, AsOneBuildIsSame, Invariance, TypesHold, PTL
     DEF Spec
=============================================================================
