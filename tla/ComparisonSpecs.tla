--------------------------- MODULE ComparisonSpecs ---------------------------
(***************************************************************************)
(* The pairs a night of the parallel run compares, and the ones that       *)
(* drifted (src/platform_ops/reconcile/specs.py, schema.py).               *)
(*                                                                         *)
(* A pair is [name, source, target, key, skip, rename, scale, changed]. A  *)
(* catalogue gives the columns of every relation there is: of a legacy     *)
(* column its [type, scale], of a ClickHouse column its decimals, 0 where  *)
(* it has none.                                                            *)
(***************************************************************************)
EXTENDS Integers, FiniteSets

DefaultDecimalScale == 2

KindFromPostgres(type) ==
    CASE type \in {"bigint", "integer", "smallint"} -> "int"
      [] type \in {"numeric", "double precision", "real"} -> "decimal"
      [] type = "boolean" -> "bool"
      [] type \in {"timestamp with time zone", "timestamp without time zone"} -> "ts"
      [] type = "date" -> "date"
      [] OTHER -> "text"

TargetName(pair, column) ==
    IF column \in DOMAIN pair.rename THEN pair.rename[column] ELSE column

\* The first of the scales that is there and not zero.
ScaleOf(pair, column, legacy, decimals) ==
    CASE column \in DOMAIN pair.scale -> pair.scale[column]
      [] column \notin DOMAIN pair.scale /\ legacy.scale # 0 -> legacy.scale
      [] column \notin DOMAIN pair.scale /\ legacy.scale = 0 /\ decimals # 0 -> decimals
      [] OTHER -> DefaultDecimalScale

\* A pair's columns, each with its kind, its scale and its counterpart.
SpecOf(pair, legacy, new) ==
    [c \in DOMAIN legacy[pair.source] \ pair.skip |->
        LET kind   == KindFromPostgres(legacy[pair.source][c].type)
            target == TargetName(pair, c)
        IN  [kind |-> kind, target |-> target,
             scale |-> IF kind = "decimal"
                       THEN ScaleOf(pair, c, legacy[pair.source][c], new[pair.target][target])
                       ELSE 0]]

\* Why a pair's two sides do not line up, the first reason _spec meets; "none" when they do.
DriftOf(pair, legacy, new) ==
    LET compared == DOMAIN legacy[pair.source] \ pair.skip
        stamps   == {c \in compared : KindFromPostgres(legacy[pair.source][c].type) = "ts"}
    IN  IF pair.source \notin DOMAIN legacy THEN "no legacy relation"
        ELSE IF pair.target \notin DOMAIN new THEN "no ClickHouse relation"
        ELSE IF \E c \in compared : TargetName(pair, c) \notin DOMAIN new[pair.target]
        THEN "a column has no counterpart"
        ELSE IF ~(pair.key \subseteq compared) THEN "a key column is not compared"
        ELSE IF pair.changed \notin stamps \cup {""} THEN "changed_at is not a compared timestamp"
        ELSE "none"

\* Plausible bug: the first pair that drifted ends the night, as load_specs does.
LoadPairsUntilDrift(pairs, legacy, new) ==
    LET drifted == {p \in pairs : DriftOf(p, legacy, new) # "none"}
    IN  [specs |-> [p \in (IF drifted = {} THEN pairs ELSE {}) |-> SpecOf(p, legacy, new)],
         drifted |-> [p \in drifted |-> DriftOf(p, legacy, new)]]

\* Every pair to reconcile tonight, and the ones that drifted with the reason.
LoadPairs(pairs, legacy, new) ==
    LET compared == {p \in pairs : DriftOf(p, legacy, new) = "none"}
    IN  [specs |-> [p \in compared |-> SpecOf(p, legacy, new)],
         drifted |-> [p \in pairs \ compared |-> DriftOf(p, legacy, new)]]
=============================================================================
