---------------------------- MODULE SegmentDiff ----------------------------
(***************************************************************************)
(* The nightly comparison of one pair (src/platform_ops/reconcile/diff.py, *)
(* connectors.py): summaries of segments of the key's hash, level by       *)
(* level, then the rows of the leaves that differ. The legacy side is read *)
(* as of the copy's watermark, by separate statements in autocommit, while *)
(* the application goes on writing; the copy does not change, since the    *)
(* night's load has ended.                                                 *)
(*                                                                         *)
(* A segment at depth d is the first d hex digits of the key's hash. Two   *)
(* segments with the same count and the same two hash sums hold the same   *)
(* rows: a collision of the sums is left out.                              *)
(***************************************************************************)
EXTENDS Integers, FiniteSets

CONSTANTS
    Key, Value,
    Id,         \* tells two rows with the same key apart
    Digit,      \* the digits of the key's hash: FANOUT of them
    Hash,       \* the key's digits, MAX_DEPTH of them
    MAX_DEPTH, LeafWidth,
    Night,      \* what the two sides hold when the comparison starts
    MaxWrites   \* bound: the application's writes during the comparison

FANOUT == Cardinality(Digit)

\* A row, and whether changed_at puts it after the copy's watermark.
Row == [key : Key, id : Id, value : Value, after : BOOLEAN]

ASSUME DiffAssumption ==
    /\ IsFiniteSet(Row)
    /\ MAX_DEPTH \in Nat \ {0} /\ LeafWidth \in Nat \ {0} /\ MaxWrites \in Nat
    /\ Hash \in [Key -> [1..MAX_DEPTH -> Digit]]
    /\ Night \subseteq [legacy : SUBSET Row, copy : SUBSET Row, asOf : BOOLEAN]

VARIABLES
    asOf,     \* the pair has a watermark and a changed_at column: reports, being
              \* frozen, have none, and a table may be configured without
    legacy,   \* the rows committed in Postgres
    copy,     \* the rows in ClickHouse
    pc,       \* the next question the diff asks
    counted,  \* after_watermark: the rows count_after found
    hashes,   \* the temporary table of row hashes, kept for every level
    depth, last, parents,
    left,     \* the legacy rows fetched from the leaves
    found,    \* what the diff reports of each key
    writes,
    touched,  \* history: keys written since the first question
    newer,    \* history: keys with a row after the watermark at the first question
    moved     \* history: a row written between the hashes and the fetch

vars == <<asOf, legacy, copy, pc, counted, hashes, depth, last, parents, left,
          found, writes, touched, newer, moved>>
history == <<writes, touched, moved>>

Kind == {"none", "duplicate", "missing", "extra", "in_flight", "cells"}

Of(rows, k) == {r \in rows : r.key = k}
Keys(rows) == {r.key : r \in rows}

-----------------------------------------------------------------------------
(* What the two engines answer.                                            *)

\* The rows compared tonight; a row that never recorded a change always is.
AsOf(rows) == {r \in rows : ~(asOf /\ r.after)}

After(rows) == {r \in rows : asOf /\ r.after}

Segment(k, d) == [i \in 1..d |-> Hash[k][i]]

In(rows, segments) == {r \in rows : Segment(r.key, depth) \in segments}

Copies(rows, k, v) == Cardinality({r \in rows : r.key = k /\ r.value = v})
Summary(rows) == [k \in Key |-> [v \in Value |-> Copies(rows, k, v)]]

\* The segments of this level: those below a parent that differed.
Level == {Segment(k, depth) : k \in
            {k \in Key : depth = 1 \/ Segment(k, depth - 1) \in parents}}

\* Mutant of Differing: only where the legacy side has rows.
DifferingOfSource ==
    {s \in Level : In(hashes, {s}) # {} /\ Summary(In(hashes, {s})) # Summary(In(copy, {s}))}
Differing == {s \in Level : Summary(In(hashes, {s})) # Summary(In(copy, {s}))}

\* The first depth whose segments hold about LeafWidth rows.
LeafDepth(rows) ==
    1 + Cardinality({d \in 1..(MAX_DEPTH - 1) : rows > LeafWidth * FANOUT^d})

AtLeaf(d, deepest) == d >= deepest

-----------------------------------------------------------------------------
(* The comparison of the fetched rows.                                     *)

\* Mutant of KindOf: one row per key, the other copies lost.
KindOfOneRow(a, b, late) ==
    CASE b = {} /\ a # {} -> "missing"
      [] a = {} /\ b # {} /\ late -> "in_flight"
      [] a = {} /\ b # {} /\ ~late -> "extra"
      [] a # {} /\ b # {} /\ (\A r \in a, s \in b : r.value # s.value) -> "cells"
      [] OTHER -> "none"
\* What a key is, from its rows on each side and whether it changed since.
KindOf(a, b, late) ==
    CASE Cardinality(a) > 1 \/ Cardinality(b) > 1 -> "duplicate"
      [] b = {} /\ Cardinality(a) = 1 -> "missing"
      [] a = {} /\ Cardinality(b) = 1 /\ late -> "in_flight"
      [] a = {} /\ Cardinality(b) = 1 /\ ~late -> "extra"
      [] Cardinality(a) = 1 /\ Cardinality(b) = 1 /\ (\E r \in a, s \in b : r.value # s.value)
            -> "cells"
      [] OTHER -> "none"

Compared(rows, changed) ==
    [k \in Key |-> KindOf(Of(rows, k), Of(In(copy, parents), k), k \in changed)]

-----------------------------------------------------------------------------
(* The diff, one action per question that a write can come before.         *)

Init ==
    /\ \E n \in Night : asOf = n.asOf /\ legacy = n.legacy /\ copy = n.copy
    /\ pc = "count" /\ counted = 0 /\ hashes = {}
    /\ depth = 1 /\ last = 1 /\ parents = {} /\ left = {}
    /\ found = [k \in Key |-> "none"]
    /\ writes = 0 /\ touched = {} /\ newer = {} /\ moved = FALSE

CountAfter ==
    /\ pc = "count"
    /\ pc' = "hash"
    /\ counted' = Cardinality(After(legacy))
    /\ newer' = Keys(After(legacy))
    /\ UNCHANGED <<asOf, legacy, copy, hashes, depth, last, parents, left, found, history>>

\* The legacy side's first summary renders and hashes every row once.
HashSource ==
    /\ pc = "hash"
    /\ pc' = "level"
    /\ hashes' = AsOf(legacy)
    /\ UNCHANGED <<asOf, legacy, copy, counted, depth, last, parents, left, found, newer,
                   history>>

Deepest == IF depth > 1 THEN last
           ELSE LET n == Cardinality(hashes)  m == Cardinality(copy)
                IN  LeafDepth(IF n > m THEN n ELSE m)

\* Both sides summarize a level and nothing differs.
Agree ==
    /\ pc = "level"
    /\ Differing = {}
    /\ pc' = "done"
    /\ last' = Deepest
    /\ UNCHANGED <<asOf, legacy, copy, counted, hashes, depth, parents, left, found, newer,
                   history>>

Descend ==
    /\ pc = "level"
    /\ Differing # {}
    /\ last' = Deepest
    /\ parents' = Differing
    /\ IF AtLeaf(depth, Deepest)
       THEN pc' = "fetch" /\ depth' = depth
       ELSE pc' = "level" /\ depth' = depth + 1
    /\ UNCHANGED <<asOf, legacy, copy, counted, hashes, left, found, newer, history>>

\* Keys only the copy has are looked up among the rows changed since, if any had.
FetchRows ==
    /\ pc = "fetch"
    /\ left' = In(AsOf(legacy), parents)
    /\ IF counted > 0 /\ ~(Keys(In(copy, parents)) \subseteq Keys(left'))
       THEN pc' = "keys" /\ UNCHANGED found
       ELSE pc' = "done" /\ found' = Compared(left', {})
    /\ UNCHANGED <<asOf, legacy, copy, counted, hashes, depth, last, parents, newer, history>>

AskKeysAfter ==
    /\ pc = "keys"
    /\ pc' = "done"
    /\ found' = Compared(left, Keys(In(After(legacy), parents)))
    /\ UNCHANGED <<asOf, legacy, copy, counted, hashes, depth, last, parents, left, newer,
                   history>>

-----------------------------------------------------------------------------
(* The application, while the diff runs.                                   *)

Wrote(k) ==
    /\ pc \notin {"count", "done"}
    /\ writes < MaxWrites
    /\ writes' = writes + 1
    /\ touched' = touched \cup {k}
    /\ moved' = (moved \/ pc \in {"level", "fetch"})
    /\ UNCHANGED <<asOf, copy, pc, counted, hashes, depth, last, parents, left, found, newer>>

\* A new row: after the watermark, or stamped before it and committed late.
Insert(k, i, v, after) ==
    /\ Of(legacy, k) = {}
    /\ legacy' = legacy \cup {[key |-> k, id |-> i, value |-> v, after |-> after]}
    /\ Wrote(k)

\* A row changed in place; its changed_at does not go back behind the watermark.
Change(r, v, after) ==
    /\ v # r.value
    /\ r.after => after
    /\ legacy' = (legacy \ {r}) \cup {[r EXCEPT !.value = v, !.after = after]}
    /\ Wrote(r.key)

Diff == CountAfter \/ HashSource \/ Agree \/ Descend \/ FetchRows \/ AskKeysAfter
Application ==
    \/ \E k \in Key, i \in Id, v \in Value, after \in BOOLEAN : Insert(k, i, v, after)
    \/ \E r \in legacy, v \in Value, after \in BOOLEAN : Change(r, v, after)

Next == Diff \/ Application

Spec == Init /\ [][Next]_vars

-----------------------------------------------------------------------------
(* Properties.                                                             *)

\* The diff asks its questions in order and never descends below MAX_DEPTH.
TypeOK ==
    /\ asOf \in BOOLEAN /\ legacy \subseteq Row /\ copy \subseteq Row
    /\ pc \in {"count", "hash", "level", "fetch", "keys", "done"}
    /\ counted \in Nat /\ hashes \subseteq Row /\ left \subseteq Row
    /\ depth \in 1..MAX_DEPTH /\ last \in 1..MAX_DEPTH
    /\ parents \subseteq {Segment(k, d) : k \in Key, d \in 1..MAX_DEPTH}
    /\ found \in [Key -> Kind]
    /\ writes \in Nat /\ touched \subseteq Key /\ newer \subseteq Key /\ moved \in BOOLEAN

\* Do the two sides hold different rows for the key?
Differs(rows, k) == \E v \in Value : Copies(rows, k, v) # Copies(copy, k, v)

\* Whatever differs when the rows are hashed stays below an open segment at
\* every level of the descent, down to the leaf that is fetched.
EveryDifferenceIsBelowAParent ==
    \A k \in Key : Differs(hashes, k) =>
        /\ pc = "level" /\ depth > 1 => Segment(k, depth - 1) \in parents
        /\ pc \in {"fetch", "keys"} => Segment(k, depth) \in parents

\* A key the application leaves alone is reported when its rows differ, and
\* for what it is, whatever is written beside it meanwhile.
EveryStandingDifferenceIsFound ==
    pc = "done" => \A k \in Key \ touched :
        LET a == Of(AsOf(legacy), k)
            b == Of(copy, k)
            late == k \in Keys(After(legacy))
        IN  Differs(AsOf(legacy), k) => found[k] = KindOf(a, b, late)

\* A key the application leaves alone and whose rows are the same on both
\* sides is not reported, unless it is there more than once.
NothingEqualIsReported ==
    pc = "done" => \A k \in Key \ touched :
        /\ ~Differs(AsOf(legacy), k)
        /\ found[k] # "none"
        => found[k] = "duplicate" /\ Cardinality(Of(copy, k)) > 1

\* A row that had changed since the copy when the comparison began is never
\* taken for one the copy invented.
KnownInFlightIsNotExtra ==
    pc = "done" => \A k \in newer : found[k] # "extra"

\* The diff's word on a key can be taken: one that nobody writes is reported for
\* what it is, and a write is never taken for a row the copy invented.
EveryVerdictStands ==
    EveryStandingDifferenceIsFound /\ NothingEqualIsReported /\ KnownInFlightIsNotExtra

Reported(kind) == {k \in Key : found[k] = kind}
RowsOf(rows, kind) == Cardinality({r \in rows : found[r.key] = kind})
Accounted ==
    Cardinality(Reported("extra")) + Cardinality(Reported("in_flight"))
    - Cardinality(Reported("missing"))
    + RowsOf(In(copy, parents), "duplicate") - RowsOf(left, "duplicate")

\* The last net of the verdict: the two row counts differ by exactly the rows
\* the diff reports, so a pair never fails for rows that nobody can name,
\* when nothing was written between the hashes and the fetch.
RowCountsAddUp ==
    pc = "done" /\ ~moved => Cardinality(copy) - Cardinality(hashes) = Accounted

=============================================================================
