------------------------------ MODULE Lineage ------------------------------
(***************************************************************************)
(* The lineage graph of a dbt project and the two questions the incident   *)
(* desk asks of it: the nearest failed ancestor of a node, and the root    *)
(* every failed node belongs to (src/platform_ops/metadata/lineage.py and  *)
(* src/platform_ops/incidents/grouping.py).                                *)
(*                                                                         *)
(* Nodes are sources, models and tests; an edge goes from parent to child. *)
(* Rank is the order of the unique ids, which breaks every tie.            *)
(***************************************************************************)
EXTENDS Naturals, FiniteSets

CONSTANTS Node, Edge, Rank

ASSUME GraphAssumption ==
    /\ IsFiniteSet(Node)
    /\ Edge \subseteq Node \X Node
    /\ Rank \in [Node -> Nat]
    /\ \A m, n \in Node : Rank[m] = Rank[n] => m = n

Parents(n) == {e[1] : e \in {x \in Edge : x[2] = n}}

\* Within[k][n]: the nodes at most k edges upstream of n, n itself included.
Reach[k \in 0..Cardinality(Node)] ==
    IF k = 0 THEN [n \in Node |-> {n}]
    ELSE LET nearer == Reach[k - 1]
         IN  [n \in Node |-> nearer[n] \cup UNION {nearer[p] : p \in Parents(n)}]

Within == [k \in 0..Cardinality(Node) |-> Reach[k]]

\* Every ancestor of a node (networkx.ancestors: the node itself excluded).
Above == [n \in Node |-> Within[Cardinality(Node)][n] \ {n}]

\* dbt refuses a project whose graph has a cycle.
ASSUME AcyclicAssumption ==
    \A m, n \in Node : m \in Above[n] => n \notin Above[m]

Smallest(S) == CHOOSE n \in S : \A m \in S : Rank[n] <= Rank[m]

\* The failed ancestors of n that are the fewest edges away.
Closest(n, failed) ==
    LET hit == failed \cap Above[n]
        near == {k \in 0..Cardinality(Node) : Within[k][n] \cap hit # {}}
    IN  IF hit = {} THEN {}
        ELSE Within[CHOOSE k \in near : \A j \in near : k <= j][n] \cap hit

\* Follow nearest failed ancestors up to a node none of whose ancestors failed: a way up
\* passes no failed node twice.
RootOf(failed) ==
    LET up == [n \in failed |-> IF Closest(n, failed) = {} THEN n ELSE Smallest(Closest(n, failed))]
        climbed[k \in 0..Cardinality(failed)] ==
            IF k = 0 THEN [n \in failed |-> n]
            ELSE LET nearer == climbed[k - 1] IN [n \in failed |-> up[nearer[n]]]
    IN  climbed[Cardinality(failed)]

\* The failed nodes below more than one root, each with every root above it.
SharedBy(rootOf) ==
    LET roots == {rootOf[n] : n \in DOMAIN rootOf}
    IN  [n \in {m \in DOMAIN rootOf \ roots :
                    Cardinality(roots \cap Above[m]) > 1} |-> roots \cap Above[n]]
=============================================================================
