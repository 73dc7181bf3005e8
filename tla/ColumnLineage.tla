---------------------------- MODULE ColumnLineage ----------------------------
(***************************************************************************)
(* Which raw columns a column of a dbt model is computed from              *)
(* (src/platform_ops/metadata/column_lineage.py), and what it is for: what *)
(* the warehouse makes of the same queries.                                *)
(*                                                                         *)
(* A query is [from, join, where, group, distinct, select]. Column names   *)
(* are unique in the project, so a qualified column is a name; a condition *)
(* keeps the rows whose columns are all 1; an expression is a column, the  *)
(* sum of one, or the number of rows.                                      *)
(***************************************************************************)
EXTENDS Integers, SequencesExt

CONSTANTS RawColumns    \* the columns of every raw table

SqlNull == -1
NoJoin == "none"

Columns(models) == [m \in DOMAIN models |-> DOMAIN models[m].select] @@ RawColumns

-----------------------------------------------------------------------------
\* column_lineage.py

On(q) == IF q.join.side = NoJoin THEN {} ELSE ToSet(q.join.on)

Reads(e) == IF e.agg = "count" THEN {} ELSE {e.column}

\* Plausible bug: the ON of a join is left out whatever its side.
RowShapingNoJoin(q) ==
    q.where \cup q.group
        \cup (IF q.distinct THEN UNION {Reads(q.select[n]) : n \in DOMAIN q.select} ELSE {})

\* The columns folded into every select expression: they decide the query's rows.
RowShaping(q) ==
    q.where \cup q.group
        \cup (IF q.join.side = "LEFT" THEN {} ELSE On(q))
        \cup (IF q.distinct THEN UNION {Reads(q.select[n]) : n \in DOMAIN q.select} ELSE {})

Folded(q, name, columns) ==
    LET read == Reads(q.select[name])
    IN  read \cup RowShaping(q)
             \cup (IF q.join.side = "LEFT" /\ read \cap columns[q.join.table] # {} THEN On(q) ELSE {})

\* The raw columns every column of a project depends on; order lists its models, each
\* after the models it reads.
Traced(models, order) ==
    LET columns == Columns(models)
        raw == [c \in UNION Range(RawColumns) |-> {c}]
        trace(done, m) ==
            [n \in columns[m] |-> UNION {done[c] : c \in Folded(models[m], n, columns)}] @@ done
    IN  FoldLeft(trace, raw, order)

-----------------------------------------------------------------------------
\* What ClickHouse returns (join_use_nulls set, as dbt-clickhouse does).

Joined(q, db, columns) ==
    LET left == db[q.from]
        padding == [c \in columns[q.join.table] |-> SqlNull]
        matches(row) == SelectSeq(db[q.join.table], LAMBDA r :
                            r[q.join.on[2]] = row[q.join.on[1]] /\ row[q.join.on[1]] # SqlNull)
        beside(row) == IF matches(row) = <<>>
                       THEN IF q.join.side = "LEFT" THEN <<row @@ padding>> ELSE <<>>
                       ELSE [i \in DOMAIN matches(row) |-> row @@ matches(row)[i]]
    IN  IF q.join.side = NoJoin THEN left
        ELSE FlattenSeq([i \in DOMAIN left |-> beside(left[i])])

Grouped(q) == q.group # {} \/ \E n \in DOMAIN q.select : q.select[n].agg # "no"

SumOf(rows, c) == FoldLeft(LAMBDA s, r : IF r[c] = SqlNull THEN s ELSE s + r[c], 0, rows)

Value(e, rows) ==
    CASE e.agg = "no"    -> rows[1][e.column]
      [] e.agg = "sum"   -> SumOf(rows, e.column)
      [] e.agg = "count" -> Len(rows)

Answer(q, db, columns) ==
    LET kept == SelectSeq(Joined(q, db, columns), LAMBDA r : \A c \in q.where : r[c] = 1)
        key(r) == [c \in q.group |-> r[c]]
        keys == IF q.group = {} THEN {key(<<>>)} ELSE {key(kept[i]) : i \in DOMAIN kept}
        pieces == IF Grouped(q)
                  THEN LET order == SetToSeq(keys)
                       IN  [i \in DOMAIN order |-> SelectSeq(kept, LAMBDA r : key(r) = order[i])]
                  ELSE [i \in DOMAIN kept |-> <<kept[i]>>]
        out == [i \in DOMAIN pieces |-> [n \in DOMAIN q.select |-> Value(q.select[n], pieces[i])]]
    IN  IF q.distinct THEN SetToSeq(ToSet(out)) ELSE out

BuiltModels(models, order, db) ==
    LET columns == Columns(models)
        build(done, m) == (m :> Answer(models[m], done, columns)) @@ done
    IN  FoldLeft(build, db, order)

\* What a reader sees of a column: its values, with how often each is there.
Seen(rows, c) == ToBag([i \in DOMAIN rows |-> rows[i][c]])
=============================================================================
