------------------------ MODULE SegmentDiffProofs --------------------------
(***************************************************************************)
(* What the segmented diff guarantees whatever is written while it runs,   *)
(* for any rows, any hash of the keys, any depth and any leaf width: a key *)
(* that nobody writes is reported exactly as one comparison of the two     *)
(* sides would, and a row known to be in flight is never called extra.     *)
(*                                                                         *)
(* What makes it inductive: for the keys left alone, the hashes and the    *)
(* fetched rows still are the rows of the table (Snapshot, Fetched); a row *)
(* after the watermark was there at the first question, and is counted     *)
(* (Known); and every difference lies below an open segment.               *)
(*                                                                         *)
(* That the row counts of a still table add up is counted key by key: the  *)
(* rows grow from none by one key at a time (GrowingSets), and each key    *)
(* adds to both sides of the balance what the report says of it.           *)
(***************************************************************************)
EXTENDS SegmentDiff, NumberLemmas

\* The descent keeps to its last level, and reports nothing before it ends.
Deep ==
    /\ depth > 1 => depth <= last
    /\ pc \in {"count", "hash"} => depth = 1
Silent == pc # "done" => found = [k \in Key |-> "none"]

\* For a key left alone, the hashes are those of the rows compared tonight.
Snapshot ==
    pc \notin {"count", "hash"} =>
        \A k \in Key \ touched : Of(hashes, k) = Of(AsOf(legacy), k)

\* For a key left alone, the rows fetched are those of the leaves.
Fetched ==
    pc = "keys" => \A k \in Key \ touched : Of(left, k) = Of(In(AsOf(legacy), parents), k)

\* Rows known to be after the watermark stay there, were counted, and are all
\* there are but for the keys written since.
Known ==
    /\ newer \subseteq Keys(After(legacy))
    /\ pc # "count" => \A k \in Key \ touched : k \in Keys(After(legacy)) => k \in newer
    /\ newer # {} => counted > 0

Covered == EveryDifferenceIsBelowAParent

IInv == TypeOK /\ Deep /\ Silent /\ Snapshot /\ Fetched /\ Known /\ Covered

Reports ==
    EveryStandingDifferenceIsFound /\ NothingEqualIsReported /\ KnownInFlightIsNotExtra

-----------------------------------------------------------------------------
(* The engines' answers.                                                   *)

\* A set of rows is finite, and so is any part of it.
LEMMA RowsAreFinite ==
    ASSUME NEW rows \in SUBSET Row
    PROVE  IsFiniteSet(rows) /\ Cardinality(rows) \in Nat
BY FS_Subset, FS_CardinalityType, DiffAssumption

\* The depth of the leaves lies between 1 and MAX_DEPTH.
LEMMA LeafDepthType ==
    ASSUME NEW n
    PROVE  LeafDepth(n) \in 1..MAX_DEPTH
<1> DEFINE all == 1..(MAX_DEPTH - 1)
           wide == {d \in all : n > LeafWidth * FANOUT^d}
<1>1. MAX_DEPTH \in Nat \ {0}
  BY DiffAssumption
<1>2. IsFiniteSet(all) /\ Cardinality(all) = MAX_DEPTH - 1
  BY <1>1, FS_Interval
<1>3. wide \subseteq all
  OBVIOUS
<1>4. Cardinality(wide) \in Nat /\ Cardinality(wide) <= MAX_DEPTH - 1
  <2> HIDE DEF all, wide
  <2> QED
    BY <1>2, <1>3, FS_Subset, FS_CardinalityType
<1>5. LeafDepth(n) = 1 + Cardinality(wide)
  BY DEF LeafDepth
<1> QED
  <2> HIDE DEF all, wide
  <2> QED
    BY <1>1, <1>4, <1>5

\* A segment that holds a key with different rows on the two sides differs.
LEMMA DifferenceShows ==
    ASSUME TypeOK, NEW k \in Key, Differs(hashes, k), Segment(k, depth) \in Level
    PROVE  Segment(k, depth) \in Differing
<1> DEFINE s == Segment(k, depth)
<1>1. PICK v \in Value : Copies(hashes, k, v) # Copies(copy, k, v)
  BY DEF Differs
<1>2. ASSUME NEW rows PROVE Copies(In(rows, {s}), k, v) = Copies(rows, k, v)
  <2>1. {r \in In(rows, {s}) : r.key = k /\ r.value = v} = {r \in rows : r.key = k /\ r.value = v}
    BY DEF In
  <2> QED
    BY <2>1 DEF Copies
<1>3. ASSUME NEW rows PROVE Summary(rows)[k][v] = Copies(rows, k, v)
  BY DEF Summary
<1>4. Summary(In(hashes, {s})) # Summary(In(copy, {s}))
  BY <1>1, <1>2, <1>3
<1> QED
  BY <1>4 DEF Differing

\* A key whose parent is open lies in a segment of the level.
LEMMA OpenIsInLevel ==
    ASSUME NEW k \in Key, depth = 1 \/ Segment(k, depth - 1) \in parents
    PROVE  Segment(k, depth) \in Level
BY DEF Level

\* A key's rows among those of some segments are all its rows or none.
LEMMA RowsOfAKey ==
    ASSUME NEW rows, NEW k, NEW segments
    PROVE  Of(In(rows, segments), k) =
           IF Segment(k, depth) \in segments THEN Of(rows, k) ELSE {}
BY DEF Of, In

-----------------------------------------------------------------------------
(* Types.                                                                  *)

\* The comparison starts with its types, above the leaves.
LEMMA InitTypes == Init => TypeOK /\ Deep
<1> SUFFICES ASSUME Init PROVE TypeOK /\ Deep
  OBVIOUS
<1>1. asOf \in BOOLEAN /\ legacy \subseteq Row /\ copy \subseteq Row
  <2>1. PICK n \in Night : asOf = n.asOf /\ legacy = n.legacy /\ copy = n.copy
    BY DEF Init
  <2>2. n \in [legacy : SUBSET Row, copy : SUBSET Row, asOf : BOOLEAN]
    BY DiffAssumption
  <2> QED
    BY <2>1, <2>2
<1>2. 1 \in 1..MAX_DEPTH
  BY DiffAssumption
<1>3. found \in [Key -> Kind]
  <2>1. "none" \in Kind
    BY DEF Kind
  <2> QED
    BY <2>1 DEF Init
<1>4. /\ pc = "count" /\ counted = 0 /\ hashes = {} /\ left = {} /\ parents = {}
      /\ depth = 1 /\ last = 1 /\ writes = 0 /\ touched = {} /\ newer = {}
  BY DEF Init
<1>5. moved \in BOOLEAN
  BY DEF Init
<1> QED
  BY <1>1, <1>2, <1>3, <1>4, <1>5 DEF TypeOK, Deep

\* The deepest level is a level.
LEMMA DeepestType == TypeOK => Deepest \in 1..MAX_DEPTH
BY LeafDepthType DEF Deepest, TypeOK

\* What is reported of a key is one of the kinds.
LEMMA ComparedType ==
    ASSUME NEW rows, NEW changed
    PROVE  Compared(rows, changed) \in [Key -> Kind]
BY DEF Compared, KindOf, Kind

\* The descent opens segments of the level it compared.
LEMMA DescendTypes ==
    ASSUME TypeOK, Deep, Descend
    PROVE  TypeOK' /\ Deep'
<1>1. Deepest \in 1..MAX_DEPTH /\ MAX_DEPTH \in Nat
  BY DeepestType, DiffAssumption
<1>2. depth > 1 => Deepest = last
  BY DEF Deepest
<1>3. Differing \subseteq {Segment(k, d) : k \in Key, d \in 1..MAX_DEPTH}
  BY DEF Differing, Level, TypeOK
<1>4. depth' \in 1..MAX_DEPTH /\ (depth' > 1 => depth' <= last')
  BY <1>1, <1>2 DEF Descend, AtLeaf, TypeOK, Deep
<1>5. parents' \subseteq {Segment(k, d) : k \in Key, d \in 1..MAX_DEPTH}
  BY <1>3 DEF Descend
<1> QED
  BY <1>1, <1>4, <1>5 DEF Descend, TypeOK, Deep, history

\* The keys of some rows are keys.
LEMMA KeysType ==
    ASSUME NEW rows \in SUBSET Row
    PROVE  Keys(rows) \subseteq Key
BY DEF Keys, Row

\* A write keeps the legacy side a set of rows.
LEMMA WriteTypes ==
    ASSUME TypeOK, Deep, Application
    PROVE  TypeOK' /\ Deep'
<1>1. ASSUME NEW k \in Key, Wrote(k), legacy' \subseteq Row
      PROVE  TypeOK' /\ Deep'
  BY <1>1 DEF Wrote, TypeOK, Deep
<1>2. ASSUME NEW k \in Key, NEW i \in Id, NEW v \in Value, NEW after \in BOOLEAN,
             Insert(k, i, v, after)
      PROVE  Wrote(k) /\ legacy' \subseteq Row
  <2>1. [key |-> k, id |-> i, value |-> v, after |-> after] \in Row
    BY DEF Row
  <2> QED
    BY <1>2, <2>1 DEF Insert, TypeOK
<1>3. ASSUME NEW r \in legacy, NEW v \in Value, NEW after \in BOOLEAN, Change(r, v, after)
      PROVE  r.key \in Key /\ Wrote(r.key) /\ legacy' \subseteq Row
  <2>1. r \in Row
    BY DEF TypeOK
  <2>2. [r EXCEPT !.value = v, !.after = after] \in Row /\ r.key \in Key
    BY <2>1 DEF Row
  <2> QED
    BY <1>3, <2>2 DEF Change, TypeOK
<1> QED
  BY <1>1, <1>2, <1>3 DEF Application

\* Every step keeps the types, and the descent above the leaves.
LEMMA NextTypes == TypeOK /\ Deep /\ [Next]_vars => TypeOK' /\ Deep'
<1> SUFFICES ASSUME TypeOK, Deep, [Next]_vars PROVE TypeOK' /\ Deep'
  OBVIOUS
<1>1. CASE CountAfter
  <2>1. After(legacy) \in SUBSET Row
    BY DEF After, TypeOK
  <2> QED
    BY <1>1, <2>1, RowsAreFinite, KeysType DEF CountAfter, TypeOK, Deep, history
<1>2. CASE HashSource
  BY <1>2 DEF HashSource, TypeOK, Deep, AsOf, history
<1>3. CASE Agree
  <2>1. depth > 1 => Deepest = last
    BY DEF Deepest
  <2> QED
    BY <1>3, <2>1, DeepestType DEF Agree, TypeOK, Deep, history
<1>4. CASE Descend
  BY <1>4, DescendTypes
<1>5. CASE FetchRows
  BY <1>5, ComparedType DEF FetchRows, TypeOK, Deep, In, AsOf, history
<1>6. CASE AskKeysAfter
  BY <1>6, ComparedType DEF AskKeysAfter, TypeOK, Deep, history
<1>7. CASE Application
  BY <1>7, WriteTypes
<1>8. CASE UNCHANGED vars
  BY <1>8 DEF vars, TypeOK, Deep, history
<1> QED
  BY <1>1, <1>2, <1>3, <1>4, <1>5, <1>6, <1>7, <1>8 DEF Next, Diff

\* The type invariant, for every instance.
THEOREM TypesHold == Spec => []TypeOK
<1>1. Init => TypeOK /\ Deep
  BY InitTypes
<1>2. TypeOK /\ Deep /\ [Next]_vars => (TypeOK /\ Deep)'
  BY NextTypes
<1> QED
  BY <1>1, <1>2, PTL DEF Spec
-----------------------------------------------------------------------------
(* What a write can disturb.                                               *)

\* A write to k leaves the rows of every other key, as of the watermark and after
\* it, and takes no key from those after the watermark.
Spares(k) ==
    /\ \A j \in Key \ {k} : Of(AsOf(legacy), j)' = Of(AsOf(legacy), j)
    /\ \A j \in Key \ {k} : j \in Keys(After(legacy))' => j \in Keys(After(legacy))
    /\ Keys(After(legacy)) \subseteq Keys(After(legacy))'

\* A write touches one key.
LEMMA WriteEffect ==
    ASSUME TypeOK, Application
    PROVE  \E k \in Key : Wrote(k) /\ Spares(k)
<1>1. ASSUME NEW k \in Key, NEW i \in Id, NEW v \in Value, NEW after \in BOOLEAN,
             Insert(k, i, v, after)
      PROVE  Wrote(k) /\ Spares(k)
  <2> DEFINE new == [key |-> k, id |-> i, value |-> v, after |-> after]
  <2>1. new.key = k
    OBVIOUS
  <2>2. legacy' = legacy \cup {new} /\ asOf' = asOf /\ Wrote(k)
    BY <1>1 DEF Insert, Wrote
  <2> HIDE DEF new
  <2> QED
    BY <2>1, <2>2 DEF Of, AsOf, After, Keys, Spares
<1>2. ASSUME NEW r \in legacy, NEW v \in Value, NEW after \in BOOLEAN, Change(r, v, after)
      PROVE  r.key \in Key /\ Wrote(r.key) /\ Spares(r.key)
  <2> DEFINE new == [r EXCEPT !.value = v, !.after = after]
  <2>1. r \in Row
    BY DEF TypeOK
  <2>2. r.key \in Key /\ new.key = r.key /\ new.after = after
    BY <2>1 DEF Row
  <2>3. /\ legacy' = (legacy \ {r}) \cup {new} /\ asOf' = asOf /\ Wrote(r.key)
        /\ r.after => after
    BY <1>2 DEF Change, Wrote
  <2> HIDE DEF new
  <2>4. \A j \in Key : j # r.key => Of(AsOf(legacy), j)' = Of(AsOf(legacy), j)
    BY <2>2, <2>3 DEF Of, AsOf
  <2>5. \A j \in Key : j # r.key => (j \in Keys(After(legacy))' => j \in Keys(After(legacy)))
    BY <2>2, <2>3 DEF After, Keys
  <2>6. ASSUME NEW x \in After(legacy) PROVE x.key \in Keys(After(legacy))'
    <3>1. CASE x = r
      <4>1. new \in After(legacy)'
        BY <2>2, <2>3, <3>1 DEF After
      <4> QED
        BY <2>2, <4>1, <3>1 DEF Keys
    <3>2. CASE x # r
      <4>1. x \in After(legacy)'
        BY <2>3, <3>2 DEF After
      <4> QED
        BY <4>1 DEF Keys
    <3> QED
      BY <3>1, <3>2
  <2> QED
    BY <2>2, <2>3, <2>4, <2>5, <2>6 DEF Keys, Spares
<1> QED
  BY <1>1, <1>2 DEF Application

\* While nobody but the diff acts, both sides stay as they are.
LEMMA DiffReads == Diff => UNCHANGED <<asOf, legacy, copy, touched, moved>>
BY DEF Diff, CountAfter, HashSource, Agree, Descend, FetchRows, AskKeysAfter, history

-----------------------------------------------------------------------------
(* The invariant is kept.                                                  *)

\* The invariant holds when the comparison starts.
LEMMA InitIInv == Init => IInv
<1> SUFFICES ASSUME Init PROVE IInv
  OBVIOUS
<1>1. TypeOK /\ Deep
  BY InitTypes
<1>2. Silent /\ Snapshot /\ Fetched /\ Known /\ Covered
  BY DEF Init, Silent, Snapshot, Fetched, Known, Covered, EveryDifferenceIsBelowAParent
<1> QED
  BY <1>1, <1>2 DEF IInv

\* Nothing is reported before the last question is answered.
LEMMA SilentKept == Silent /\ [Next]_vars => Silent'
<1> SUFFICES ASSUME Silent, [Next]_vars PROVE Silent'
  OBVIOUS
<1>1. CASE Diff
  BY <1>1 DEF Diff, CountAfter, HashSource, Agree, Descend, FetchRows, AskKeysAfter, Silent,
              history
<1>2. CASE Application
  BY <1>2 DEF Application, Insert, Change, Wrote, Silent
<1>3. CASE UNCHANGED vars
  BY <1>3 DEF vars, Silent
<1> QED
  BY <1>1, <1>2, <1>3 DEF Next

\* The hashes keep agreeing with the rows of every key left alone.
LEMMA SnapshotKept == TypeOK /\ Snapshot /\ [Next]_vars => Snapshot'
<1> SUFFICES ASSUME TypeOK, Snapshot, [Next]_vars PROVE Snapshot'
  OBVIOUS
<1>1. CASE HashSource
  BY <1>1 DEF HashSource, Snapshot, AsOf, history
<1>2. CASE Diff /\ ~HashSource
  <2>1. UNCHANGED <<asOf, legacy, touched, hashes>>
    BY <1>2, DiffReads DEF Diff, CountAfter, HashSource, Agree, Descend, FetchRows, AskKeysAfter
  <2>2. pc' \notin {"count", "hash"} => pc \notin {"count", "hash"}
    BY <1>2 DEF Diff, CountAfter, HashSource, Agree, Descend, FetchRows, AskKeysAfter
  <2> QED
    BY <2>1, <2>2 DEF Snapshot, AsOf
<1>3. CASE Application
  <2>1. PICK k \in Key : Wrote(k) /\ Spares(k)
    BY <1>3, WriteEffect
  <2>2. touched' = touched \cup {k} /\ hashes' = hashes /\ pc' = pc
    BY <2>1 DEF Wrote
  <2> SUFFICES ASSUME pc \notin {"count", "hash"}, NEW j \in Key \ touched'
               PROVE  Of(hashes, j)' = Of(AsOf(legacy), j)'
    BY <2>2 DEF Snapshot
  <2>3. j # k /\ j \in Key \ touched
    BY <2>2
  <2>4. Of(hashes, j)' = Of(hashes, j)
    BY <2>2 DEF Of
  <2> QED
    BY <2>1, <2>3, <2>4 DEF Snapshot, Spares
<1>4. CASE UNCHANGED vars
  BY <1>4 DEF vars, Snapshot, AsOf, Of
<1> QED
  BY <1>1, <1>2, <1>3, <1>4 DEF Next

\* The fetched rows keep agreeing with the rows of every key left alone.
LEMMA FetchedKept == TypeOK /\ Fetched /\ [Next]_vars => Fetched'
<1> SUFFICES ASSUME TypeOK, Fetched, [Next]_vars PROVE Fetched'
  OBVIOUS
<1>1. CASE FetchRows
  <2>1. left' = In(AsOf(legacy), parents)'
    BY <1>1 DEF FetchRows, In, AsOf, Segment, history
  <2> QED
    BY <2>1 DEF Fetched, Of
<1>2. CASE Diff /\ ~FetchRows
  <2>1. pc' # "keys"
    BY <1>2 DEF Diff, CountAfter, HashSource, Agree, Descend, AskKeysAfter
  <2> QED
    BY <2>1 DEF Fetched
<1>3. CASE Application
  <2>1. PICK k \in Key : Wrote(k) /\ Spares(k)
    BY <1>3, WriteEffect
  <2>2. /\ touched' = touched \cup {k} /\ left' = left /\ pc' = pc
        /\ parents' = parents /\ depth' = depth
    BY <2>1 DEF Wrote
  <2> SUFFICES ASSUME pc = "keys", NEW j \in Key \ touched'
               PROVE  Of(left, j)' = Of(In(AsOf(legacy), parents), j)'
    BY <2>2 DEF Fetched
  <2>3. j # k /\ j \in Key \ touched
    BY <2>2
  <2>4. Of(left, j)' = Of(In(AsOf(legacy), parents), j)
    BY <2>2, <2>3 DEF Of, Fetched
  <2>5. /\ Of(In(AsOf(legacy), parents), j) =
              IF Segment(j, depth) \in parents THEN Of(AsOf(legacy), j) ELSE {}
        /\ Of(In(AsOf(legacy), parents), j)' =
              IF Segment(j, depth) \in parents THEN Of(AsOf(legacy), j)' ELSE {}
    BY <2>2 DEF Of, In, Segment
  <2> QED
    BY <2>1, <2>3, <2>4, <2>5 DEF Spares
<1>4. CASE UNCHANGED vars
  BY <1>4 DEF vars, Fetched, AsOf, Of, In, Segment
<1> QED
  BY <1>1, <1>2, <1>3, <1>4 DEF Next

\* A key known to have changed is never again compared as unchanged.
LEMMA KnownKept == TypeOK /\ Known /\ [Next]_vars => Known'
<1> SUFFICES ASSUME TypeOK, Known, [Next]_vars PROVE Known'
  OBVIOUS
<1>1. CASE CountAfter
  <2>1. /\ newer' = Keys(After(legacy)) /\ After(legacy)' = After(legacy)
        /\ counted' = Cardinality(After(legacy))
    BY <1>1 DEF CountAfter, After
  <2>2. IsFiniteSet(After(legacy)) /\ Cardinality(After(legacy)) \in Nat
    BY RowsAreFinite DEF After, TypeOK
  <2>3. newer' # {} => After(legacy) # {}
    BY <2>1 DEF Keys
  <2>4. newer' # {} => counted' > 0
    BY <2>1, <2>2, <2>3, FS_EmptySet
  <2> QED
    BY <2>1, <2>4 DEF Known, Keys
<1>2. CASE Diff /\ ~CountAfter
  <2>1. UNCHANGED <<asOf, legacy, touched, newer, counted>> /\ pc # "count"
    BY <1>2, DiffReads DEF Diff, HashSource, Agree, Descend, FetchRows, AskKeysAfter
  <2> QED
    BY <2>1 DEF Known, Keys, After
<1>3. CASE Application
  <2>1. PICK k \in Key : Wrote(k) /\ Spares(k)
    BY <1>3, WriteEffect
  <2>2. touched' = touched \cup {k} /\ newer' = newer /\ counted' = counted /\ pc' = pc
    BY <2>1 DEF Wrote
  <2> QED
    BY <2>1, <2>2 DEF Known, Spares
<1>4. CASE UNCHANGED vars
  BY <1>4 DEF vars, Known, Keys, After
<1> QED
  BY <1>1, <1>2, <1>3, <1>4 DEF Next

\* No level of the descent closes a segment with a difference.
LEMMA CoveredKept == TypeOK /\ Deep /\ Covered /\ [Next]_vars => Covered'
<1> SUFFICES ASSUME TypeOK, Deep, Covered, [Next]_vars PROVE Covered'
  OBVIOUS
<1>1. CASE Descend
  <2> SUFFICES ASSUME NEW k \in Key, Differs(hashes, k)' PROVE
               /\ pc' = "level" /\ depth' > 1 => Segment(k, depth' - 1) \in parents'
               /\ pc' \in {"fetch", "keys"} => Segment(k, depth') \in parents'
    BY DEF Covered, EveryDifferenceIsBelowAParent, Segment
  <2>1. Differs(hashes, k)
    BY <1>1 DEF Descend, Differs, Copies
  <2>2. depth = 1 \/ Segment(k, depth - 1) \in parents
    BY <1>1, <2>1 DEF Descend, Covered, EveryDifferenceIsBelowAParent, TypeOK
  <2>3. Segment(k, depth) \in Differing
    BY <2>1, <2>2, OpenIsInLevel, DifferenceShows
  <2>4. Segment(k, depth) \in parents'
    BY <1>1, <2>3 DEF Descend
  <2>5. \/ pc' = "fetch" /\ depth' = depth
        \/ pc' = "level" /\ depth' = depth + 1 /\ depth' - 1 = depth
    BY <1>1, DiffAssumption DEF Descend, TypeOK
  <2> QED
    BY <2>4, <2>5
<1>2. CASE Diff /\ ~Descend
  <2>1. pc' = "level" => depth' = 1
    BY <1>2 DEF Diff, CountAfter, HashSource, Agree, FetchRows, AskKeysAfter, Deep
  <2>2. pc' \in {"fetch", "keys"} =>
            pc = "fetch" /\ UNCHANGED <<hashes, copy, parents, depth>>
    BY <1>2 DEF Diff, CountAfter, HashSource, Agree, FetchRows, AskKeysAfter
  <2>3. ASSUME NEW k \in Key, Differs(hashes, k)', pc' \in {"fetch", "keys"}
        PROVE  Segment(k, depth)' \in parents'
    <3>1. Differs(hashes, k) /\ Segment(k, depth)' = Segment(k, depth)
      BY <2>2, <2>3 DEF Differs, Copies, Segment
    <3> QED
      BY <2>2, <2>3, <3>1 DEF Covered, EveryDifferenceIsBelowAParent
  <2> QED
    BY <2>1, <2>3 DEF Covered, EveryDifferenceIsBelowAParent
<1>3. CASE UNCHANGED <<pc, hashes, copy, parents, depth>>
  BY <1>3 DEF Covered, EveryDifferenceIsBelowAParent, Differs, Copies, Segment
<1>4. Application \/ UNCHANGED vars => UNCHANGED <<pc, hashes, copy, parents, depth>>
  BY DEF Application, Insert, Change, Wrote, vars
<1> QED
  BY <1>1, <1>2, <1>3, <1>4 DEF Next

\* Every step keeps the invariant.
LEMMA NextIInv == IInv /\ [Next]_vars => IInv'
BY NextTypes, SilentKept, SnapshotKept, FetchedKept, KnownKept, CoveredKept DEF IInv

\* The invariant holds in every reachable state.
LEMMA Invariance == Spec => []IInv
<1> QED
  BY InitIInv, NextIInv, PTL DEF Spec

\* What differs when the rows are hashed is below an open segment at every
\* level of the descent, for every instance: no difference is lost on the way.
THEOREM DifferencesStayBelowAParent == Spec => []EveryDifferenceIsBelowAParent
<1>1. IInv => EveryDifferenceIsBelowAParent
  BY DEF IInv, Covered
<1> QED
  BY <1>1, Invariance, PTL
-----------------------------------------------------------------------------
(* Counting the rows of a key.                                             *)

\* A finite set with two elements has more than one, and conversely.
LEMMA TwoElements ==
    ASSUME NEW S, IsFiniteSet(S)
    PROVE  Cardinality(S) > 1 <=> \E x, y \in S : x # y
<1>1. Cardinality(S) \in Nat
  BY FS_CardinalityType
<1>2. ASSUME NEW x \in S, NEW y \in S, x # y PROVE Cardinality(S) > 1
  <2>1. IsFiniteSet({x}) /\ Cardinality({x}) = 1
    BY FS_Singleton
  <2>2. {x} \subseteq S /\ {x} # S
    BY <1>2
  <2> QED
    BY <1>1, <2>1, <2>2, FS_Subset
<1>3. ASSUME Cardinality(S) > 1 PROVE \E x, y \in S : x # y
  <2>1. S # {}
    BY <1>3, FS_EmptySet
  <2>2. PICK x \in S : TRUE
    BY <2>1
  <2>3. S # {x}
    BY <1>3, FS_Singleton
  <2> QED
    BY <2>2, <2>3
<1> QED
  BY <1>2, <1>3

WithValue(rows, v) == {r \in rows : r.value = v}

\* The copies of a key with a value are counted among the key's own rows.
LEMMA CopiesOfAKey ==
    ASSUME NEW rows, NEW k, NEW v
    PROVE  Copies(rows, k, v) = Cardinality(WithValue(Of(rows, k), v))
<1>1. {r \in rows : r.key = k /\ r.value = v} = WithValue(Of(rows, k), v)
  BY DEF WithValue, Of
<1> QED
  BY <1>1 DEF Copies

\* Two keys' rows that agree value by value: none on one side only, more than
\* one on both or on neither, and the same value if one each.
LEMMA AgreeingRows ==
    ASSUME NEW a \in SUBSET Row, NEW b \in SUBSET Row,
           \A v \in Value : Cardinality(WithValue(a, v)) = Cardinality(WithValue(b, v))
    PROVE  /\ a # {} => b # {}
           /\ \A r \in a : \E s \in b : s.value = r.value
           /\ Cardinality(a) > 1 => Cardinality(b) > 1
<1>1. ASSUME NEW v PROVE /\ IsFiniteSet(WithValue(a, v)) /\ IsFiniteSet(WithValue(b, v))
                         /\ Cardinality(WithValue(b, v)) \in Nat
  <2>1. WithValue(a, v) \in SUBSET Row /\ WithValue(b, v) \in SUBSET Row
    BY DEF WithValue
  <2> QED
    BY <2>1, RowsAreFinite
<1>2. IsFiniteSet(a) /\ IsFiniteSet(b)
  BY RowsAreFinite
<1>3. ASSUME NEW r \in a PROVE \E s \in b : s.value = r.value
  <2>1. r.value \in Value /\ r \in WithValue(a, r.value)
    BY DEF Row, WithValue
  <2>2. Cardinality(WithValue(a, r.value)) # 0
    BY <1>1, <2>1, FS_EmptySet
  <2>3. WithValue(b, r.value) # {}
    BY <2>1, <2>2, FS_EmptySet
  <2> QED
    BY <2>3 DEF WithValue
<1>4. ASSUME Cardinality(a) > 1 PROVE Cardinality(b) > 1
  <2>1. PICK x \in a, y \in a : x # y
    BY <1>2, <1>4, TwoElements
  <2>2. CASE x.value = y.value
    <3> DEFINE v == x.value
    <3>1. v \in Value /\ x \in WithValue(a, v) /\ y \in WithValue(a, v)
      BY <2>2 DEF Row, WithValue
    <3>2. Cardinality(WithValue(a, v)) > 1
      BY <1>1, <2>1, <3>1, TwoElements
    <3>3. Cardinality(WithValue(b, v)) > 1
      BY <3>1, <3>2
    <3>4. PICK s \in WithValue(b, v), t \in WithValue(b, v) : s # t
      BY <1>1, <3>3, TwoElements
    <3>5. s \in b /\ t \in b
      BY <3>4 DEF WithValue
    <3> QED
      BY <1>2, <3>4, <3>5, TwoElements
  <2>3. CASE x.value # y.value
    <3>1. PICK s \in b : s.value = x.value
      BY <1>3
    <3>2. PICK t \in b : t.value = y.value
      BY <1>3
    <3> QED
      BY <1>2, <2>3, <3>1, <3>2, TwoElements
  <2> QED
    BY <2>2, <2>3
<1> QED
  BY <1>3, <1>4

\* What the comparison says of rows that agree: nothing, or a duplicate.
LEMMA AgreeingKind ==
    ASSUME NEW a \in SUBSET Row, NEW b \in SUBSET Row, NEW late \in BOOLEAN,
           \A v \in Value : Cardinality(WithValue(a, v)) = Cardinality(WithValue(b, v)),
           KindOf(a, b, late) # "none"
    PROVE  KindOf(a, b, late) = "duplicate" /\ Cardinality(b) > 1
<1>1. IsFiniteSet(a) /\ IsFiniteSet(b) /\ Cardinality(a) \in Nat /\ Cardinality(b) \in Nat
  BY RowsAreFinite
<1>2. (a # {} => b # {}) /\ (b # {} => a # {})
  BY AgreeingRows
<1>3. Cardinality(a) > 1 => Cardinality(b) > 1
  BY AgreeingRows
<1>4. \A r \in a : \E s \in b : s.value = r.value
  BY AgreeingRows
<1>5. ASSUME Cardinality(a) = 1, Cardinality(b) = 1, NEW r \in a, NEW s \in b
      PROVE  r.value = s.value
  <2>1. PICK t \in b : t.value = r.value
    BY <1>4
  <2>2. t = s
    <3>1. ~(Cardinality(b) > 1)
      BY <1>5
    <3> QED
      BY <1>1, <3>1, TwoElements
  <2> QED
    BY <2>1, <2>2
<1>6. (a = {} => Cardinality(a) = 0) /\ (b = {} => Cardinality(b) = 0)
  BY FS_EmptySet
<1>7. CASE Cardinality(a) > 1 \/ Cardinality(b) > 1
  <2>1. KindOf(a, b, late) = "duplicate"
    BY <1>6, <1>7 DEF KindOf
  <2> QED
    BY <1>3, <1>7, <2>1
<1>8. CASE ~(Cardinality(a) > 1 \/ Cardinality(b) > 1)
  <2>1. KindOf(a, b, late) = "none"
    BY <1>2, <1>5, <1>6, <1>8 DEF KindOf
  <2> QED
    BY <2>1
<1> QED
  BY <1>7, <1>8
-----------------------------------------------------------------------------
(* What is reported.                                                       *)

\* Only for a row the copy alone has does it matter whether it changed since.
LEMMA LateMatters ==
    ASSUME NEW a, NEW b, NEW c \in BOOLEAN, NEW d \in BOOLEAN,
           a = {} /\ b # {} => c = d
    PROVE  KindOf(a, b, c) = KindOf(a, b, d)
<1>1. Cardinality({}) = 0
  BY FS_EmptySet
<1>2. CASE a = {} /\ b # {}
  BY <1>2
<1>3. CASE a # {} \/ b = {}
  BY <1>1, <1>3 DEF KindOf
<1> QED
  BY <1>2, <1>3

\* What the diff reports of a key left alone, from rows that are those of the
\* leaves, is what one comparison of the two sides as they are would.
LEMMA Judged ==
    ASSUME TypeOK, Snapshot, Covered, pc \in {"fetch", "keys"},
           NEW k \in Key \ touched, NEW rows, NEW changed,
           Of(rows, k) = Of(In(AsOf(legacy), parents), k),
           /\ Of(AsOf(legacy), k) = {}
           /\ Of(copy, k) # {}
           /\ Segment(k, depth) \in parents
           => (k \in changed <=> k \in Keys(After(legacy)))
    PROVE  /\ Differs(AsOf(legacy), k) =>
                  Compared(rows, changed)[k] =
                      KindOf(Of(AsOf(legacy), k), Of(copy, k), k \in Keys(After(legacy)))
           /\ ~Differs(AsOf(legacy), k) /\ Compared(rows, changed)[k] # "none" =>
                  Compared(rows, changed)[k] = "duplicate" /\ Cardinality(Of(copy, k)) > 1
<1> DEFINE a == Of(AsOf(legacy), k)
           b == Of(copy, k)
           late == k \in Keys(After(legacy))
           kind == Compared(rows, changed)[k]
<1>1. a \in SUBSET Row /\ b \in SUBSET Row
  BY DEF Of, AsOf, TypeOK
<1>2. kind = KindOf(Of(rows, k), Of(In(copy, parents), k), k \in changed)
  BY DEF Compared
<1>3. /\ Of(rows, k) = IF Segment(k, depth) \in parents THEN a ELSE {}
      /\ Of(In(copy, parents), k) = IF Segment(k, depth) \in parents THEN b ELSE {}
  BY RowsOfAKey
<1>4. Segment(k, depth) \in parents => kind = KindOf(a, b, late)
  <2> SUFFICES ASSUME Segment(k, depth) \in parents PROVE kind = KindOf(a, b, late)
    OBVIOUS
  <2>1. kind = KindOf(a, b, k \in changed)
    BY <1>2, <1>3
  <2>2. a = {} /\ b # {} => ((k \in changed) = late)
    OBVIOUS
  <2>3. (k \in changed) \in BOOLEAN /\ late \in BOOLEAN
    OBVIOUS
  <2> HIDE DEF a, b, late, kind
  <2> QED
    BY <2>1, <2>2, <2>3, LateMatters
<1>5. Segment(k, depth) \notin parents => kind = "none"
  <2>1. Cardinality({}) = 0
    BY FS_EmptySet
  <2> QED
    BY <1>2, <1>3, <2>1 DEF KindOf
<1>6. Differs(AsOf(legacy), k) => Segment(k, depth) \in parents
  <2>1. Of(hashes, k) = a
    BY DEF Snapshot
  <2>2. \A v \in Value : Copies(hashes, k, v) = Copies(AsOf(legacy), k, v)
    BY <2>1, CopiesOfAKey
  <2>3. Differs(AsOf(legacy), k) => Differs(hashes, k)
    BY <2>2 DEF Differs
  <2> QED
    BY <2>3 DEF Covered, EveryDifferenceIsBelowAParent
<1>7. ~Differs(AsOf(legacy), k) =>
          \A v \in Value : Cardinality(WithValue(a, v)) = Cardinality(WithValue(b, v))
  BY CopiesOfAKey DEF Differs
<1>8. ASSUME ~Differs(AsOf(legacy), k), kind # "none"
      PROVE  kind = "duplicate" /\ Cardinality(b) > 1
  <2>1. kind = KindOf(a, b, late) /\ late \in BOOLEAN
    BY <1>4, <1>5, <1>8
  <2> HIDE DEF a, b, late, kind
  <2> QED
    BY <1>1, <1>7, <1>8, <2>1, AgreeingKind
<1> QED
  BY <1>4, <1>6, <1>8

\* No key left alone differs when a level of the descent shows no difference.
LEMMA AgreementIsReal ==
    ASSUME TypeOK, Snapshot, Covered, pc = "level", Differing = {}, NEW k \in Key \ touched
    PROVE  ~Differs(AsOf(legacy), k)
<1>1. ~Differs(hashes, k)
  BY OpenIsInLevel, DifferenceShows, DiffAssumption
     DEF Covered, EveryDifferenceIsBelowAParent, TypeOK
<1>2. Of(hashes, k) = Of(AsOf(legacy), k)
  BY DEF Snapshot
<1>3. \A v \in Value : Copies(hashes, k, v) = Copies(AsOf(legacy), k, v)
  BY <1>2, CopiesOfAKey
<1> QED
  BY <1>1, <1>3 DEF Differs
\* A question that writes nothing leaves every key's rows and difference alone.
LEMMA Unmoved ==
    ASSUME UNCHANGED <<asOf, legacy, copy>>, NEW k
    PROVE  /\ Differs(AsOf(legacy), k)' <=> Differs(AsOf(legacy), k)
           /\ Of(AsOf(legacy), k)' = Of(AsOf(legacy), k)
           /\ Of(copy, k)' = Of(copy, k)
           /\ (k \in Keys(After(legacy)))' <=> k \in Keys(After(legacy))
BY DEF Differs, Copies, AsOf, After, Of, Keys

\* What a report says of a key left alone, as one comparison would.
Right(k, kind) ==
    /\ Differs(AsOf(legacy), k) =>
           kind = KindOf(Of(AsOf(legacy), k), Of(copy, k), k \in Keys(After(legacy)))
    /\ ~Differs(AsOf(legacy), k) /\ kind # "none" =>
           kind = "duplicate" /\ Cardinality(Of(copy, k)) > 1

\* A report that is right of every key left alone has the two properties.
LEMMA RightIsEnough ==
    ASSUME UNCHANGED <<asOf, legacy, copy, touched>>,
           \A k \in Key \ touched : Right(k, found'[k])
    PROVE  EveryStandingDifferenceIsFound' /\ NothingEqualIsReported'
<1>1. ASSUME NEW k \in Key \ touched'
      PROVE  /\ Differs(AsOf(legacy), k)' =>
                    found'[k] = KindOf(Of(AsOf(legacy), k)', Of(copy, k)',
                                       (k \in Keys(After(legacy)))')
             /\ ~Differs(AsOf(legacy), k)' /\ found'[k] # "none" =>
                    found'[k] = "duplicate" /\ Cardinality(Of(copy, k)') > 1
  <2>1. Right(k, found'[k])
    OBVIOUS
  <2> QED
    BY <2>1, Unmoved DEF Right
<1>2. EveryStandingDifferenceIsFound'
  BY <1>1 DEF EveryStandingDifferenceIsFound
<1>3. NothingEqualIsReported'
  BY <1>1 DEF NothingEqualIsReported
<1> QED
  BY <1>2, <1>3

\* The fetched rows settle what the copy alone has, unless the keys are asked.
LEMMA FetchReports ==
    ASSUME IInv, FetchRows, pc' = "done"
    PROVE  Reports'
<1> USE DEF IInv
<1> DEFINE fetched == In(AsOf(legacy), parents)
<1>1. /\ left' = fetched /\ found' = Compared(fetched, {}) /\ pc = "fetch"
      /\ UNCHANGED <<asOf, legacy, copy, parents, depth, touched, newer>>
      /\ counted > 0 => Keys(In(copy, parents)) \subseteq Keys(fetched)
  BY DEF FetchRows, history, Compared, In, Segment
<1>2. ASSUME NEW k \in Key, Of(AsOf(legacy), k) = {}, Of(copy, k) # {},
             Segment(k, depth) \in parents
      PROVE  ~(counted > 0)
  <2>1. k \in Keys(In(copy, parents)) /\ k \notin Keys(fetched)
    BY <1>2 DEF Keys, In, Of
  <2> QED
    BY <1>1, <2>1
<1>3. ASSUME NEW k \in Key \ touched
      PROVE  Right(k, found'[k])
  <2>1. ~(counted > 0) => k \notin Keys(After(legacy))
    BY <1>1, <1>3 DEF Known
  <2>2. Of(fetched, k) = Of(In(AsOf(legacy), parents), k)
    OBVIOUS
  <2>3. /\ Of(AsOf(legacy), k) = {}
        /\ Of(copy, k) # {}
        /\ Segment(k, depth) \in parents
        => (k \in {} <=> k \in Keys(After(legacy)))
    BY <1>2, <2>1
  <2> QED
    BY <1>1, <2>2, <2>3, Judged DEF Right
<1>4. ASSUME NEW k \in newer PROVE found'[k] # "extra"
  <2>1. counted > 0 /\ k \in Key
    BY <1>4 DEF Known, TypeOK
  <2>2. Of(fetched, k) = {} => Of(In(copy, parents), k) = {}
    BY <1>1, <2>1 DEF Keys, Of
  <2>3. found'[k] = KindOf(Of(fetched, k), Of(In(copy, parents), k), k \in {})
    BY <1>1, <2>1 DEF Compared
  <2>4. Cardinality({}) = 0
    BY FS_EmptySet
  <2> QED
    BY <2>2, <2>3, <2>4 DEF KindOf
<1>5. EveryStandingDifferenceIsFound' /\ NothingEqualIsReported'
  BY <1>1, <1>3, RightIsEnough
<1>6. KnownInFlightIsNotExtra'
  BY <1>1, <1>4 DEF KnownInFlightIsNotExtra
<1> QED
  BY <1>5, <1>6 DEF Reports

\* The keys that changed since settle it.
LEMMA AskReports ==
    ASSUME IInv, AskKeysAfter
    PROVE  Reports'
<1> USE DEF IInv
<1> DEFINE changed == Keys(In(After(legacy), parents))
<1>1. /\ found' = Compared(left, changed) /\ pc = "keys"
      /\ UNCHANGED <<asOf, legacy, copy, parents, depth, touched, newer>>
  BY DEF AskKeysAfter, history
<1>2. ASSUME NEW k \in Key, Segment(k, depth) \in parents
      PROVE  k \in changed <=> k \in Keys(After(legacy))
  BY <1>2 DEF Keys, In
<1>3. ASSUME NEW k \in Key \ touched
      PROVE  Right(k, found'[k])
  <2>1. Of(left, k) = Of(In(AsOf(legacy), parents), k)
    BY <1>1, <1>3 DEF Fetched
  <2>2. /\ Of(AsOf(legacy), k) = {}
        /\ Of(copy, k) # {}
        /\ Segment(k, depth) \in parents
        => (k \in changed <=> k \in Keys(After(legacy)))
    BY <1>2
  <2> HIDE DEF changed
  <2> QED
    BY <1>1, <2>1, <2>2, Judged DEF Right
<1>4. ASSUME NEW k \in newer PROVE found'[k] # "extra"
  <2>1. k \in Keys(After(legacy)) /\ k \in Key
    BY <1>4 DEF Known, TypeOK
  <2>2. Of(In(copy, parents), k) # {} => k \in changed
    <3>1. Of(In(copy, parents), k) # {} => Segment(k, depth) \in parents
      BY RowsOfAKey
    <3> QED
      BY <1>2, <2>1, <3>1
  <2>3. found'[k] = KindOf(Of(left, k), Of(In(copy, parents), k), k \in changed)
    BY <1>1, <2>1 DEF Compared
  <2>4. Cardinality({}) = 0
    BY FS_EmptySet
  <2> HIDE DEF changed
  <2> QED
    BY <2>2, <2>3, <2>4 DEF KindOf
<1>5. EveryStandingDifferenceIsFound' /\ NothingEqualIsReported'
  BY <1>1, <1>3, RightIsEnough
<1>6. KnownInFlightIsNotExtra'
  BY <1>1, <1>4 DEF KnownInFlightIsNotExtra
<1> QED
  BY <1>5, <1>6 DEF Reports

\* A level without a difference ends the diff, which then reports nothing.
LEMMA AgreeReports ==
    ASSUME IInv, Agree
    PROVE  Reports'
<1> USE DEF IInv
<1>1. /\ \A k \in Key : found'[k] = "none"
      /\ UNCHANGED <<asOf, legacy, copy, touched, newer>>
      /\ pc = "level" /\ Differing = {}
  BY DEF Agree, Silent, history
<1>2. \A k \in Key \ touched : ~Differs(AsOf(legacy), k)
  BY <1>1, AgreementIsReal
<1>3. EveryStandingDifferenceIsFound' /\ NothingEqualIsReported'
  BY <1>1, <1>2, RightIsEnough DEF Right
<1>4. KnownInFlightIsNotExtra'
  BY <1>1 DEF KnownInFlightIsNotExtra, TypeOK
<1> QED
  BY <1>3, <1>4 DEF Reports

\* Every step keeps what the report promises.
LEMMA NextReports == IInv /\ Reports /\ [Next]_vars => Reports'
<1> SUFFICES ASSUME IInv, Reports, [Next]_vars PROVE Reports'
  OBVIOUS
<1>1. CASE pc' # "done"
  BY <1>1 DEF Reports, EveryStandingDifferenceIsFound, NothingEqualIsReported,
              KnownInFlightIsNotExtra
<1>2. CASE pc' = "done" /\ pc = "done"
  <2>1. UNCHANGED vars
    BY <1>2 DEF Next, Diff, CountAfter, HashSource, Agree, Descend, FetchRows, AskKeysAfter,
                Application, Insert, Change, Wrote
  <2>2. \A k \in Key \ touched : Right(k, found[k])
    BY <1>2 DEF Reports, EveryStandingDifferenceIsFound, NothingEqualIsReported, Right
  <2>3. EveryStandingDifferenceIsFound' /\ NothingEqualIsReported'
    BY <2>1, <2>2, RightIsEnough DEF vars
  <2> QED
    BY <2>1, <2>3 DEF vars, Reports, KnownInFlightIsNotExtra
<1>3. CASE pc' = "done" /\ pc # "done"
  <2>1. Agree \/ FetchRows \/ AskKeysAfter
    BY <1>3 DEF Next, Diff, CountAfter, HashSource, Descend, Application, Insert, Change,
                Wrote, vars
  <2> QED
    BY <1>3, <2>1, AgreeReports, FetchReports, AskReports
<1> QED
  BY <1>1, <1>2, <1>3

\* The report is right in every reachable state.
LEMMA ReportsHold == Spec => []Reports
<1>1. Init => Reports
  BY DEF Init, Reports, EveryStandingDifferenceIsFound, NothingEqualIsReported,
         KnownInFlightIsNotExtra
<1>2. IInv /\ Reports /\ [Next]_vars => Reports'
  BY NextReports
<1> QED
  BY <1>1, <1>2, Invariance, PTL DEF Spec

\* A key nobody writes while the diff runs is reported when its rows differ, and
\* as one comparison of the two sides would, whatever is written beside it.
THEOREM StandingDifferencesAreFound == Spec => []EveryStandingDifferenceIsFound
<1>1. Reports => EveryStandingDifferenceIsFound
  BY DEF Reports
<1> QED
  BY <1>1, ReportsHold, PTL

\* A key nobody writes, and whose rows are the same on both sides, is reported
\* at most as a duplicate: whatever else is written, it raises no false alarm.
THEOREM NothingEqualIsBlamed == Spec => []NothingEqualIsReported
<1>1. Reports => NothingEqualIsReported
  BY DEF Reports
<1> QED
  BY <1>1, ReportsHold, PTL

\* A row known to have changed since the copy is never called extra.
THEOREM KnownInFlightIsSpared == Spec => []KnownInFlightIsNotExtra
<1>1. Reports => KnownInFlightIsNotExtra
  BY DEF Reports
<1> QED
  BY <1>1, ReportsHold, PTL

\* The diff's word on a key can be taken, whatever is written while it runs: a
\* standing difference is found, nothing equal is blamed, no write is called extra.
THEOREM VerdictsStand == Spec => []EveryVerdictStands
<1>1. EveryStandingDifferenceIsFound /\ NothingEqualIsReported /\ KnownInFlightIsNotExtra
      => EveryVerdictStands
  BY DEF EveryVerdictStands
<1> QED
  BY <1>1, StandingDifferencesAreFound, NothingEqualIsBlamed, KnownInFlightIsSpared, PTL

-----------------------------------------------------------------------------
(* The row counts.                                                         *)

RowsAt(rows, K) == {r \in rows : r.key \in K}
One(fact) == IF fact THEN 1 ELSE 0

\* Rows of one more key are counted by themselves.
LEMMA RowsOfOneMore ==
    ASSUME NEW rows \in SUBSET Row, NEW K, NEW k, k \notin K
    PROVE  /\ Cardinality(RowsAt(rows, K)) \in Nat /\ Cardinality(Of(rows, k)) \in Nat
           /\ Cardinality(RowsAt(rows, K \cup {k})) =
                 Cardinality(RowsAt(rows, K)) + Cardinality(Of(rows, k))
<1> DEFINE all == RowsAt(rows, K \cup {k})
           old == RowsAt(rows, K)
           new == Of(rows, k)
<1>1. old \in SUBSET Row /\ new \in SUBSET Row /\ all = old \cup new /\ old \cap new = {}
  BY DEF RowsAt, Of
<1>2. IsFiniteSet(old) /\ IsFiniteSet(new)
  BY <1>1, RowsAreFinite
<1> HIDE DEF all, old, new
<1>3. /\ Cardinality(old) \in Nat /\ Cardinality(new) \in Nat
      /\ Cardinality(all) = Cardinality(old) + Cardinality(new)
  BY <1>1, <1>2, TwoParts
<1> QED
  BY <1>3 DEF all, old, new

\* And so is one more key.
LEMMA KeysOfOneMore ==
    ASSUME NEW Q, NEW K, IsFiniteSet(K), NEW k, k \notin K
    PROVE  /\ Cardinality(Q \cap K) \in Nat
           /\ Cardinality(Q \cap (K \cup {k})) = Cardinality(Q \cap K) + One(k \in Q)
<1>1. IsFiniteSet(Q \cap K) /\ Cardinality(Q \cap K) \in Nat
  BY FS_Subset, FS_CardinalityType
<1>2. CASE k \in Q
  <2>1. Q \cap (K \cup {k}) = (Q \cap K) \cup {k} /\ k \notin Q \cap K
    BY <1>2
  <2> QED
    BY <1>1, <1>2, <2>1, FS_AddElement DEF One
<1>3. CASE k \notin Q
  <2>1. Q \cap (K \cup {k}) = Q \cap K
    BY <1>3
  <2> DEFINE n == Cardinality(Q \cap K)
  <2>2. n \in Nat /\ Cardinality(Q \cap (K \cup {k})) = n /\ One(k \in Q) = 0
    BY <1>1, <1>3, <2>1 DEF One
  <2> HIDE DEF n
  <2>3. n = n + 0
    BY <2>2
  <2> QED
    BY <2>2, <2>3 DEF n
<1> QED
  BY <1>2, <1>3

\* Rows that agree value by value are as many.
LEMMA AgreeingCounts ==
    ASSUME NEW a \in SUBSET Row, NEW b \in SUBSET Row,
           \A v \in Value : Cardinality(WithValue(a, v)) = Cardinality(WithValue(b, v))
    PROVE  Cardinality(a) = Cardinality(b)
<1> DEFINE values == {r.value : r \in Row}
           of(rows, V) == {r \in rows : r.value \in V}
           T == {V \in SUBSET values : Cardinality(of(a, V)) = Cardinality(of(b, V))}
<1>1. IsFiniteSet(values)
  <2>1. [r \in Row |-> r.value] \in Surjection(Row, values)
    BY DEF Surjection
  <2> QED
    BY <2>1, DiffAssumption, FS_Surjection
<1>2. {} \in T
  <2>1. of(a, {}) = of(b, {})
    OBVIOUS
  <2> QED
    BY <2>1
<1>3. ASSUME NEW V \in SUBSET values, NEW v \in values \ V, V \in T PROVE V \cup {v} \in T
  <2>1. ASSUME NEW rows \in SUBSET Row
        PROVE  Cardinality(of(rows, V \cup {v})) =
                  Cardinality(of(rows, V)) + Cardinality(WithValue(rows, v))
    <3>1. of(rows, V) \in SUBSET Row /\ WithValue(rows, v) \in SUBSET Row
      BY DEF WithValue
    <3>2. /\ of(rows, V \cup {v}) = of(rows, V) \cup WithValue(rows, v)
          /\ of(rows, V) \cap WithValue(rows, v) = {}
      BY DEF WithValue
    <3> HIDE DEF of
    <3>3. IsFiniteSet(of(rows, V)) /\ IsFiniteSet(WithValue(rows, v))
      BY <3>1, RowsAreFinite
    <3> QED
      BY <3>2, <3>3, TwoParts
  <2>2. v \in Value
    BY DEF Row
  <2> HIDE DEF of
  <2>3. Cardinality(of(a, V \cup {v})) = Cardinality(of(b, V \cup {v}))
    BY <1>3, <2>1, <2>2
  <2> QED
    BY <1>3, <2>3
<1>4. values \in T
  <2> HIDE DEF T, values
  <2> QED
    BY <1>1, <1>2, <1>3, GrowingSets
<1>5. of(a, values) = a /\ of(b, values) = b
  OBVIOUS
<1> QED
  BY <1>4, <1>5


\* The rows counted as duplicates, of those that were compared.
Duplicates(rows, f) == {r \in rows : f[r.key] = "duplicate"}

\* For each key, what the report says of it makes up for the rows that one side has and
\* the other has not.
LEMMA KeyAddsUp ==
    ASSUME TypeOK, NEW k \in Key, Differs(hashes, k) => Segment(k, depth) \in parents,
           NEW changed, NEW f, f = Compared(In(hashes, parents), changed)
    PROVE  Cardinality(Of(copy, k)) - Cardinality(Of(hashes, k)) =
              One(f[k] = "extra") + One(f[k] = "in_flight") - One(f[k] = "missing")
              + Cardinality(Of(Duplicates(In(copy, parents), f), k))
              - Cardinality(Of(Duplicates(In(hashes, parents), f), k))
<1> DEFINE a == Of(hashes, k)
           b == Of(copy, k)
           open == Segment(k, depth) \in parents
           late == k \in changed
<1>1. a \in SUBSET Row /\ b \in SUBSET Row
  BY DEF Of, TypeOK
<1>2. /\ IsFiniteSet(a) /\ IsFiniteSet(b) /\ Cardinality(a) \in Nat /\ Cardinality(b) \in Nat
      /\ Cardinality({}) = 0
  BY <1>1, RowsAreFinite, FS_EmptySet
<1>3. f[k] = IF open THEN KindOf(a, b, late) ELSE KindOf({}, {}, late)
  BY RowsOfAKey DEF Compared
<1>4. /\ Of(Duplicates(In(copy, parents), f), k) =
            IF open /\ f[k] = "duplicate" THEN b ELSE {}
      /\ Of(Duplicates(In(hashes, parents), f), k) =
            IF open /\ f[k] = "duplicate" THEN a ELSE {}
  BY DEF Of, Duplicates, In
<1>5. CASE ~open
  <2>1. f[k] = "none"
    BY <1>2, <1>3, <1>5 DEF KindOf
  <2>2. \A v \in Value : Cardinality(WithValue(a, v)) = Cardinality(WithValue(b, v))
    BY <1>5, CopiesOfAKey DEF Differs
  <2> HIDE DEF a, b, open, late
  <2>3. Cardinality(a) = Cardinality(b)
    BY <1>1, <2>2, AgreeingCounts
  <2>4. /\ Cardinality(Of(Duplicates(In(copy, parents), f), k)) = 0
        /\ Cardinality(Of(Duplicates(In(hashes, parents), f), k)) = 0
    BY <1>2, <1>4, <2>1
  <2>5. Cardinality(b) - Cardinality(a) = 0 + 0 - 0 + 0 - 0
    BY <1>2, <2>3
  <2>6. /\ One(f[k] = "extra") = 0 /\ One(f[k] = "in_flight") = 0
        /\ One(f[k] = "missing") = 0
    BY <2>1 DEF One
  <2> QED
    BY <2>4, <2>5, <2>6 DEF a, b
<1>6. CASE open
  <2> DEFINE kind == f[k]
             m == Cardinality(a)
             n == Cardinality(b)
             e == One(kind = "extra")
             i == One(kind = "in_flight")
             x == One(kind = "missing")
             p == IF kind = "duplicate" THEN m ELSE 0
             q == IF kind = "duplicate" THEN n ELSE 0
  <2>1. (a = {} <=> m = 0) /\ (b = {} <=> n = 0) /\ m \in Nat /\ n \in Nat
    BY <1>2, FS_EmptySet
  <2>2. /\ Cardinality(Of(Duplicates(In(copy, parents), f), k)) = q
        /\ Cardinality(Of(Duplicates(In(hashes, parents), f), k)) = p
    BY <1>2, <1>4, <1>6
  <2>3. kind = KindOf(a, b, late)
    BY <1>3, <1>6
  <2> HIDE DEF a, b, open, late, kind
  <2>4. \/ kind = "duplicate"
        \/ kind = "missing" /\ m = 1 /\ n = 0
        \/ kind \in {"extra", "in_flight"} /\ m = 0 /\ n = 1
        \/ kind \in {"cells", "none"} /\ m = n
    BY <2>1, <2>3 DEF KindOf
  <2>5. n - m = e + i - x + q - p
    <3> HIDE DEF m, n
    <3> QED
      BY <2>1, <2>4 DEF One
  <2> HIDE DEF p, q, e, i, x
  <2>6. n - m = e + i - x + Cardinality(Of(Duplicates(In(copy, parents), f), k))
                - Cardinality(Of(Duplicates(In(hashes, parents), f), k))
    BY <2>2, <2>5
  <2> QED
    BY <2>6 DEF a, b, kind, e, i, x
<1> QED
  BY <1>5, <1>6

Named(f, kind) == {k \in Key : f[k] = kind}

\* The report makes up for the rows of these keys that one side has and the other has not.
Balanced(f, K) ==
    Cardinality(RowsAt(copy, K)) - Cardinality(RowsAt(hashes, K)) =
        Cardinality(Named(f, "extra") \cap K) + Cardinality(Named(f, "in_flight") \cap K)
        - Cardinality(Named(f, "missing") \cap K)
        + Cardinality(RowsAt(Duplicates(In(copy, parents), f), K))
        - Cardinality(RowsAt(Duplicates(In(hashes, parents), f), K))

\* It does so key by key.
LEMMA OneMoreBalanced ==
    ASSUME TypeOK, NEW K, IsFiniteSet(K), NEW k \in Key \ K,
           Differs(hashes, k) => Segment(k, depth) \in parents,
           NEW changed, NEW f, f = Compared(In(hashes, parents), changed), Balanced(f, K)
    PROVE  Balanced(f, K \cup {k})
<1> DEFINE b == copy
           a == hashes
           db == Duplicates(In(copy, parents), f)
           da == Duplicates(In(hashes, parents), f)
<1>1. a \in SUBSET Row /\ b \in SUBSET Row /\ da \in SUBSET Row /\ db \in SUBSET Row
  BY DEF TypeOK, Duplicates, In
<1>2. Cardinality(Of(b, k)) - Cardinality(Of(a, k)) =
         One(f[k] = "extra") + One(f[k] = "in_flight") - One(f[k] = "missing")
         + Cardinality(Of(db, k)) - Cardinality(Of(da, k))
  BY KeyAddsUp
<1>3. ASSUME NEW rows \in SUBSET Row
      PROVE  /\ Cardinality(RowsAt(rows, K)) \in Nat /\ Cardinality(Of(rows, k)) \in Nat
             /\ Cardinality(RowsAt(rows, K \cup {k})) =
                   Cardinality(RowsAt(rows, K)) + Cardinality(Of(rows, k))
  BY RowsOfOneMore
<1>4. ASSUME NEW kind
      PROVE  /\ Cardinality(Named(f, kind) \cap K) \in Nat /\ One(f[k] = kind) \in Nat
             /\ Cardinality(Named(f, kind) \cap (K \cup {k})) =
                   Cardinality(Named(f, kind) \cap K) + One(f[k] = kind)
  <2>1. (k \in Named(f, kind)) <=> (f[k] = kind)
    BY DEF Named
  <2>2. One(k \in Named(f, kind)) = One(f[k] = kind) /\ One(f[k] = kind) \in Nat
    BY <2>1 DEF One
  <2>3. /\ Cardinality(Named(f, kind) \cap K) \in Nat
        /\ Cardinality(Named(f, kind) \cap (K \cup {k})) =
              Cardinality(Named(f, kind) \cap K) + One(k \in Named(f, kind))
    <3> DEFINE Q == Named(f, kind)
    <3> HIDE DEF Q
    <3>1. /\ Cardinality(Q \cap K) \in Nat
          /\ Cardinality(Q \cap (K \cup {k})) = Cardinality(Q \cap K) + One(k \in Q)
      BY KeysOfOneMore
    <3> QED
      BY <3>1 DEF Q
  <2> QED
    BY <2>2, <2>3
<1>5. /\ Cardinality(RowsAt(b, K)) \in Nat /\ Cardinality(Of(b, k)) \in Nat
      /\ Cardinality(RowsAt(a, K)) \in Nat /\ Cardinality(Of(a, k)) \in Nat
      /\ Cardinality(RowsAt(db, K)) \in Nat /\ Cardinality(Of(db, k)) \in Nat
      /\ Cardinality(RowsAt(da, K)) \in Nat /\ Cardinality(Of(da, k)) \in Nat
      /\ Cardinality(RowsAt(b, K \cup {k})) = Cardinality(RowsAt(b, K)) + Cardinality(Of(b, k))
      /\ Cardinality(RowsAt(a, K \cup {k})) = Cardinality(RowsAt(a, K)) + Cardinality(Of(a, k))
      /\ Cardinality(RowsAt(db, K \cup {k})) = Cardinality(RowsAt(db, K)) + Cardinality(Of(db, k))
      /\ Cardinality(RowsAt(da, K \cup {k})) = Cardinality(RowsAt(da, K)) + Cardinality(Of(da, k))
  <2> HIDE DEF a, b, da, db
  <2> QED
    BY <1>1, <1>3
<1>6. Cardinality(RowsAt(b, K)) - Cardinality(RowsAt(a, K)) =
         Cardinality(Named(f, "extra") \cap K) + Cardinality(Named(f, "in_flight") \cap K)
         - Cardinality(Named(f, "missing") \cap K)
         + Cardinality(RowsAt(db, K)) - Cardinality(RowsAt(da, K))
  BY DEF Balanced
<1> HIDE DEF a, b, da, db
<1>7. Cardinality(RowsAt(b, K \cup {k})) - Cardinality(RowsAt(a, K \cup {k})) =
         Cardinality(Named(f, "extra") \cap (K \cup {k}))
         + Cardinality(Named(f, "in_flight") \cap (K \cup {k}))
         - Cardinality(Named(f, "missing") \cap (K \cup {k}))
         + Cardinality(RowsAt(db, K \cup {k})) - Cardinality(RowsAt(da, K \cup {k}))
  <2> DEFINE e == Cardinality(Named(f, "extra") \cap K)
             i == Cardinality(Named(f, "in_flight") \cap K)
             x == Cardinality(Named(f, "missing") \cap K)
             oe == One(f[k] = "extra")
             oi == One(f[k] = "in_flight")
             ox == One(f[k] = "missing")
             n == Cardinality(RowsAt(b, K))
             m == Cardinality(RowsAt(a, K))
             dn == Cardinality(RowsAt(db, K))
             dm == Cardinality(RowsAt(da, K))
             on == Cardinality(Of(b, k))
             om == Cardinality(Of(a, k))
             odn == Cardinality(Of(db, k))
             odm == Cardinality(Of(da, k))
  <2>1. /\ e \in Nat /\ i \in Nat /\ x \in Nat /\ oe \in Nat /\ oi \in Nat /\ ox \in Nat
        /\ Cardinality(Named(f, "extra") \cap (K \cup {k})) = e + oe
        /\ Cardinality(Named(f, "in_flight") \cap (K \cup {k})) = i + oi
        /\ Cardinality(Named(f, "missing") \cap (K \cup {k})) = x + ox
    BY <1>4
  <2>2. n - m = e + i - x + dn - dm /\ on - om = oe + oi - ox + odn - odm
    BY <1>2, <1>6
  <2>3. /\ n \in Nat /\ m \in Nat /\ dn \in Nat /\ dm \in Nat
        /\ on \in Nat /\ om \in Nat /\ odn \in Nat /\ odm \in Nat
    BY <1>5
  <2>4. /\ Cardinality(RowsAt(b, K \cup {k})) = n + on
        /\ Cardinality(RowsAt(a, K \cup {k})) = m + om
        /\ Cardinality(RowsAt(db, K \cup {k})) = dn + odn
        /\ Cardinality(RowsAt(da, K \cup {k})) = dm + odm
    BY <1>5
  <2> HIDE DEF e, i, x, oe, oi, ox, n, m, dn, dm, on, om, odn, odm
  <2>5. (n + on) - (m + om) = (e + oe) + (i + oi) - (x + ox) + (dn + odn) - (dm + odm)
    BY <2>1, <2>2, <2>3
  <2> QED
    BY <2>1, <2>4, <2>5
<1> QED
  BY <1>7 DEF Balanced, a, b, da, db

\* And so for all of them, when every difference lies below an open parent.
LEMMA ReportAddsUp ==
    ASSUME TypeOK, \A k \in Key : Differs(hashes, k) => Segment(k, depth) \in parents,
           NEW changed, NEW f, f = Compared(In(hashes, parents), changed)
    PROVE  Cardinality(copy) - Cardinality(hashes) =
              Cardinality(Named(f, "extra")) + Cardinality(Named(f, "in_flight"))
              - Cardinality(Named(f, "missing"))
              + Cardinality(Duplicates(In(copy, parents), f))
              - Cardinality(Duplicates(In(hashes, parents), f))
<1> DEFINE S == {r.key : r \in Row}
           T == {K \in SUBSET S : Balanced(f, K)}
<1>1. IsFiniteSet(S)
  <2>1. [r \in Row |-> r.key] \in Surjection(Row, S)
    BY DEF Surjection
  <2> QED
    BY <2>1, DiffAssumption, FS_Surjection
<1>2. S \subseteq Key
  BY DEF Row
<1>3. {} \in T
  <2>1. ASSUME NEW rows PROVE Cardinality(RowsAt(rows, {})) = 0
    <3>1. RowsAt(rows, {}) = {}
      BY DEF RowsAt
    <3> QED
      BY <3>1, FS_EmptySet
  <2>2. ASSUME NEW Q PROVE Cardinality(Q \cap {}) = 0
    <3>1. Q \cap {} = {}
      OBVIOUS
    <3> QED
      BY <3>1, FS_EmptySet
  <2>3. 0 - 0 = 0 + 0 - 0 + 0 - 0
    OBVIOUS
  <2>4. /\ Cardinality(RowsAt(copy, {})) = 0 /\ Cardinality(RowsAt(hashes, {})) = 0
        /\ Cardinality(RowsAt(Duplicates(In(copy, parents), f), {})) = 0
        /\ Cardinality(RowsAt(Duplicates(In(hashes, parents), f), {})) = 0
    BY <2>1
  <2>5. /\ Cardinality(Named(f, "extra") \cap {}) = 0
        /\ Cardinality(Named(f, "in_flight") \cap {}) = 0
        /\ Cardinality(Named(f, "missing") \cap {}) = 0
    BY <2>2
  <2>6. Balanced(f, {})
    BY <2>3, <2>4, <2>5, Zenon DEF Balanced
  <2> QED
    BY <2>6
<1>4. ASSUME NEW K \in SUBSET S, NEW k \in S \ K, K \in T PROVE K \cup {k} \in T
  <2>1. IsFiniteSet(K) /\ k \in Key \ K /\ Balanced(f, K)
    BY <1>1, <1>2, <1>4, FS_Subset
  <2>2. Balanced(f, K \cup {k})
    BY <2>1, OneMoreBalanced
  <2> QED
    BY <2>2
<1>5. S \in T
  <2> HIDE DEF S, T
  <2> QED
    BY <1>1, <1>3, <1>4, GrowingSets
<1>6. \A rows \in SUBSET Row : RowsAt(rows, S) = rows
  BY DEF RowsAt
<1>7. ASSUME NEW kind \in {"extra", "in_flight", "missing"}
      PROVE  Named(f, kind) \cap S = Named(f, kind)
  <2> SUFFICES ASSUME NEW k \in Key, f[k] = kind PROVE k \in S
    BY DEF Named
  <2> DEFINE a == Of(In(hashes, parents), k)
             b == Of(In(copy, parents), k)
  <2>1. f[k] = KindOf(a, b, k \in changed)
    BY DEF Compared
  <2>2. Cardinality({}) = 0
    BY FS_EmptySet
  <2>3. \A late : KindOf({}, {}, late) = "none"
    BY <2>2 DEF KindOf
  <2>4. a # {} \/ b # {}
    BY <1>7, <2>1, <2>3
  <2>5. PICK r \in a \cup b : TRUE
    BY <2>4
  <2>6. r \in Row /\ r.key = k
    BY <2>5 DEF Of, In, TypeOK
  <2> QED
    BY <2>6
<1>8. /\ copy \in SUBSET Row /\ hashes \in SUBSET Row
      /\ Duplicates(In(copy, parents), f) \in SUBSET Row
      /\ Duplicates(In(hashes, parents), f) \in SUBSET Row
  BY DEF TypeOK, Duplicates, In
<1>9. Balanced(f, S)
  BY <1>5
<1> HIDE DEF S, T
<1> QED
  BY <1>6, <1>7, <1>8, <1>9 DEF Balanced

\* Nothing was written since the hashes were made: they are the rows of the table, and the
\* rows fetched are those of the leaves.
Steady ==
    ~moved => /\ pc \in {"level", "fetch"} => hashes = AsOf(legacy)
              /\ pc = "keys" => left = In(hashes, parents)

\* Only a write between the hashes and the fetch disturbs this, and it is noted.
LEMMA SteadyKept == Steady /\ [Next]_vars => Steady'
<1> SUFFICES ASSUME Steady, [Next]_vars PROVE Steady'
  OBVIOUS
<1>1. CASE CountAfter
  BY <1>1 DEF CountAfter, Steady, history
<1>2. CASE HashSource
  BY <1>2 DEF HashSource, Steady, history, AsOf
<1>3. CASE Agree
  BY <1>3 DEF Agree, Steady, history
<1>4. CASE Descend
  BY <1>4 DEF Descend, Steady, history, AsOf
<1>5. CASE FetchRows
  BY <1>5 DEF FetchRows, Steady, history, In, Segment
<1>6. CASE AskKeysAfter
  BY <1>6 DEF AskKeysAfter, Steady, history
<1>7. CASE Application
  <2>1. PICK k : Wrote(k)
    BY <1>7 DEF Application, Insert, Change
  <2> QED
    BY <2>1 DEF Wrote, Steady, In, Segment
<1>8. CASE UNCHANGED vars
  BY <1>8 DEF vars, Steady, AsOf, In, Segment
<1> QED
  BY <1>1, <1>2, <1>3, <1>4, <1>5, <1>6, <1>7, <1>8 DEF Next, Diff

\* A report of the fetched rows adds up.
LEMMA ComparedAddsUp ==
    ASSUME IInv, pc \in {"fetch", "keys"}, NEW changed, left' = In(hashes, parents),
           found' = Compared(In(hashes, parents), changed),
           UNCHANGED <<copy, hashes, parents, depth>>
    PROVE  RowCountsAddUp'
<1> DEFINE f == Compared(In(hashes, parents), changed)
<1>1. Cardinality(copy) - Cardinality(hashes) =
         Cardinality(Named(f, "extra")) + Cardinality(Named(f, "in_flight"))
         - Cardinality(Named(f, "missing"))
         + Cardinality(Duplicates(In(copy, parents), f))
         - Cardinality(Duplicates(In(hashes, parents), f))
  BY ReportAddsUp DEF IInv, Covered, EveryDifferenceIsBelowAParent
<1>2. f = found'
  OBVIOUS
<1> HIDE DEF f
<1>3. \A kind : Reported(kind)' = Named(f, kind)
  BY <1>2 DEF Reported, Named
<1>4. /\ RowsOf(In(copy, parents), "duplicate")' = Cardinality(Duplicates(In(copy, parents), f))
      /\ RowsOf(left, "duplicate")' = Cardinality(Duplicates(In(hashes, parents), f))
  BY <1>2 DEF RowsOf, Duplicates, In, Segment
<1> QED
  BY <1>1, <1>3, <1>4 DEF RowCountsAddUp, Accounted

\* Two sides on which no key differs have as many rows.
LEMMA SameCounts ==
    ASSUME TypeOK, \A k \in Key : ~Differs(hashes, k)
    PROVE  Cardinality(hashes) = Cardinality(copy)
<1> DEFINE S == {r.key : r \in Row}
           T == {K \in SUBSET S : Cardinality(RowsAt(hashes, K)) = Cardinality(RowsAt(copy, K))}
<1>1. IsFiniteSet(S)
  <2>1. [r \in Row |-> r.key] \in Surjection(Row, S)
    BY DEF Surjection
  <2> QED
    BY <2>1, DiffAssumption, FS_Surjection
<1>2. {} \in T
  <2>1. RowsAt(hashes, {}) = RowsAt(copy, {})
    BY DEF RowsAt
  <2> QED
    BY <2>1
<1>3. ASSUME NEW K \in SUBSET S, NEW k \in S \ K, K \in T PROVE K \cup {k} \in T
  <2>1. hashes \in SUBSET Row /\ copy \in SUBSET Row /\ k \in Key
    BY DEF TypeOK, Row
  <2>2. Of(hashes, k) \in SUBSET Row /\ Of(copy, k) \in SUBSET Row
    BY <2>1 DEF Of
  <2>3. \A v \in Value :
           Cardinality(WithValue(Of(hashes, k), v)) = Cardinality(WithValue(Of(copy, k), v))
    BY <2>1, CopiesOfAKey DEF Differs
  <2>4. Cardinality(Of(hashes, k)) = Cardinality(Of(copy, k))
    BY <2>2, <2>3, AgreeingCounts
  <2>5. Cardinality(RowsAt(hashes, K \cup {k})) = Cardinality(RowsAt(copy, K \cup {k}))
    <3>1. k \notin K /\ Cardinality(RowsAt(hashes, K)) = Cardinality(RowsAt(copy, K))
      BY <1>3
    <3> HIDE DEF S, T
    <3>2. /\ Cardinality(RowsAt(hashes, K \cup {k})) =
                Cardinality(RowsAt(hashes, K)) + Cardinality(Of(hashes, k))
          /\ Cardinality(RowsAt(copy, K \cup {k})) =
                Cardinality(RowsAt(copy, K)) + Cardinality(Of(copy, k))
      BY <2>1, <3>1, RowsOfOneMore
    <3> QED
      BY <2>4, <3>1, <3>2
  <2> QED
    BY <1>3, <2>5
<1>4. S \in T
  <2> HIDE DEF S, T
  <2> QED
    BY <1>1, <1>2, <1>3, GrowingSets
<1>5. RowsAt(hashes, S) = hashes /\ RowsAt(copy, S) = copy
  BY DEF RowsAt, TypeOK
<1> QED
  BY <1>4, <1>5

\* When a level shows no difference the two sides have as many rows, and nothing is reported.
LEMMA AgreedAddsUp ==
    ASSUME IInv, Agree
    PROVE  RowCountsAddUp'
<1>1. /\ pc = "level" /\ Differing = {} /\ found' = [k \in Key |-> "none"]
      /\ UNCHANGED <<copy, hashes, left, parents, depth>> /\ TypeOK
  BY DEF Agree, Silent, IInv
<1>2. \A k \in Key : ~Differs(hashes, k)
  BY <1>1, OpenIsInLevel, DifferenceShows, DiffAssumption
     DEF IInv, Covered, EveryDifferenceIsBelowAParent, TypeOK
<1>3. Cardinality(hashes) = Cardinality(copy) /\ Cardinality(copy) \in Nat
  BY <1>1, <1>2, SameCounts, RowsAreFinite DEF TypeOK
<1>4. ASSUME NEW kind, kind # "none"
      PROVE  /\ Reported(kind)' = {}
             /\ \A rows \in SUBSET Row : Cardinality({r \in rows : found'[r.key] = kind}) = 0
  <2>1. Reported(kind)' = {}
    BY <1>1, <1>4 DEF Reported
  <2>2. ASSUME NEW rows \in SUBSET Row
        PROVE  Cardinality({r \in rows : found'[r.key] = kind}) = 0
    <3>1. {r \in rows : found'[r.key] = kind} = {}
      BY <1>1, <1>4 DEF Row
    <3> QED
      BY <3>1, FS_EmptySet
  <2> QED
    BY <2>1, <2>2
<1>5. In(copy, parents)' = In(copy, parents)
  BY <1>1 DEF In, Segment
<1>6. RowsOf(In(copy, parents), "duplicate")' = 0 /\ RowsOf(left, "duplicate")' = 0
  <2>1. In(copy, parents) \in SUBSET Row /\ left \in SUBSET Row
    BY <1>1 DEF In, TypeOK
  <2>2. \A rows \in SUBSET Row : Cardinality({r \in rows : found'[r.key] = "duplicate"}) = 0
    BY <1>4
  <2> QED
    BY <1>1, <1>5, <2>1, <2>2 DEF RowsOf
<1>7. Accounted' = 0
  <2>1. /\ Cardinality(Reported("extra")') = 0 /\ Cardinality(Reported("in_flight")') = 0
        /\ Cardinality(Reported("missing")') = 0
    BY <1>4, FS_EmptySet
  <2>2. 0 + 0 - 0 + 0 - 0 = 0
    OBVIOUS
  <2> QED
    BY <1>6, <2>1, <2>2 DEF Accounted
<1> QED
  BY <1>1, <1>3, <1>7 DEF RowCountsAddUp

\* Every step keeps the row counts in balance.
LEMMA NextAddsUp ==
    IInv /\ Steady /\ RowCountsAddUp /\ [Next]_vars => RowCountsAddUp'
<1> SUFFICES ASSUME IInv, Steady, RowCountsAddUp, [Next]_vars, pc' = "done", ~moved'
             PROVE  RowCountsAddUp'
  BY DEF RowCountsAddUp
<1>1. CASE UNCHANGED vars
  BY <1>1 DEF vars, RowCountsAddUp, Accounted, Reported, RowsOf, In, Segment
<1>2. CASE Agree
  BY <1>2, AgreedAddsUp
<1>3. CASE FetchRows
  <2>1. hashes = AsOf(legacy)
    BY <1>3 DEF Steady, FetchRows, history
  <2>2. left' = In(hashes, parents) /\ found' = Compared(left', {}) /\ pc = "fetch"
    BY <1>3, <2>1 DEF FetchRows
  <2>3. UNCHANGED <<copy, hashes, parents, depth>>
    BY <1>3 DEF FetchRows
  <2>4. found' = Compared(In(hashes, parents), {})
    BY <2>2 DEF Compared
  <2> QED
    BY <2>2, <2>3, <2>4, ComparedAddsUp
<1>4. CASE AskKeysAfter
  <2> DEFINE changed == Keys(In(After(legacy), parents))
  <2>1. left = In(hashes, parents) /\ pc = "keys"
    BY <1>4 DEF Steady, AskKeysAfter, history
  <2>2. left' = left /\ found' = Compared(left, changed)
    BY <1>4 DEF AskKeysAfter
  <2>3. UNCHANGED <<copy, hashes, parents, depth>>
    BY <1>4 DEF AskKeysAfter
  <2> HIDE DEF changed
  <2> QED
    BY <2>1, <2>2, <2>3, ComparedAddsUp
<1>5. ~(CountAfter \/ HashSource \/ Descend \/ Application)
  BY DEF CountAfter, HashSource, Descend, Application, Insert, Change, Wrote
<1> QED
  BY <1>1, <1>2, <1>3, <1>4, <1>5 DEF Next, Diff

\* The last net of the verdict holds by itself: the two row counts differ by exactly the rows
\* the diff reports, whatever the rows, the hash and the depth, unless one was written
\* between the hashes and the fetch.
THEOREM RowCountsBalance == Spec => []RowCountsAddUp
<1>1. Init => Steady /\ RowCountsAddUp
  BY DEF Init, Steady, RowCountsAddUp
<1>2. IInv /\ Steady /\ RowCountsAddUp /\ [Next]_vars => Steady' /\ RowCountsAddUp'
  BY SteadyKept, NextAddsUp
<1> QED
  BY <1>1, <1>2, Invariance, PTL DEF Spec
=============================================================================
