---------------------------- MODULE NumberLemmas ----------------------------
(***************************************************************************)
(* Facts about numbers that the proofs about the model's recursive         *)
(* functions and counts rest on. An induction is taken as the least        *)
(* element of a set of natural numbers.                                    *)
(***************************************************************************)
EXTENDS Integers, FiniteSets, FiniteSetTheorems, WellFoundedInduction, TLAPS

\* A set of natural numbers has a least one.
LEMMA Least ==
    ASSUME NEW T, T \subseteq Nat, T # {}
    PROVE  \E x \in T : \A y \in T : x <= y
<1> DEFINE R == OpToRel(<, Nat)
<1>1. IsWellFoundedOn(R, Nat)
  BY NatLessThanWellFounded
<1>2. \A x, y \in Nat : y < x => <<y, x>> \in R
  BY DEF OpToRel
<1> HIDE DEF R
<1>3. PICK x \in T : \A y \in T : ~(<<y, x>> \in R)
  BY <1>1, WFMin
<1>4. ASSUME NEW y \in T PROVE x <= y
  <2>1. x \in Nat /\ y \in Nat
    OBVIOUS
  <2>2. ~(y < x)
    BY <1>2, <1>3, <2>1
  <2> QED
    BY <2>1, <2>2
<1> QED
  BY <1>4

\* What holds of 0 and of the next of each number holds of every number.
LEMMA EveryNumber ==
    ASSUME NEW T, 0 \in T, \A n \in Nat : n \in T => n + 1 \in T
    PROVE  Nat \subseteq T
<1> DEFINE U == Nat \ T
<1>1. SUFFICES ASSUME U # {} PROVE FALSE
  OBVIOUS
<1>2. PICK x \in U : \A y \in U : x <= y
  BY <1>1, Least
<1>3. x # 0 /\ x - 1 \in Nat /\ x - 1 \notin U
  BY <1>2
<1> QED
  BY <1>2, <1>3

\* What holds of the empty set, and of a set with one more element, holds of a finite set.
LEMMA GrowingSets ==
    ASSUME NEW S, IsFiniteSet(S), NEW T, {} \in T,
           \A K \in SUBSET S : \A x \in S \ K : K \in T => K \cup {x} \in T
    PROVE  S \in T
<1> DEFINE reached == {n \in Nat : \A K \in SUBSET S : Cardinality(K) = n => K \in T}
<1>1. 0 \in reached
  <2>1. \A K \in SUBSET S : Cardinality(K) = 0 => K = {}
    BY FS_Subset, FS_EmptySet
  <2> QED
    BY <2>1
<1>2. ASSUME NEW n \in Nat, n \in reached PROVE n + 1 \in reached
  <2> SUFFICES ASSUME NEW K \in SUBSET S, Cardinality(K) = n + 1 PROVE K \in T
    OBVIOUS
  <2>1. IsFiniteSet(K)
    BY FS_Subset
  <2>2. K # {}
    BY FS_EmptySet
  <2>3. PICK x \in K : TRUE
    BY <2>2
  <2> DEFINE J == K \ {x}
  <2>4. Cardinality(J) = (n + 1) - 1
    BY <2>1, <2>3, FS_RemoveElement
  <2>5. J \in SUBSET S /\ x \in S \ J /\ J \cup {x} = K
    BY <2>3
  <2> HIDE DEF J
  <2>6. J \in T
    BY <1>2, <2>4, <2>5
  <2> QED
    BY <2>5, <2>6
<1>3. Nat \subseteq reached
  <2> HIDE DEF reached
  <2> QED
    BY <1>1, <1>2, EveryNumber
<1>4. Cardinality(S) \in reached
  BY <1>3, FS_CardinalityType
<1> QED
  BY <1>4

\* A finite set in two parts has as many elements as the parts together.
LEMMA TwoParts ==
    ASSUME NEW S, NEW A, NEW B, S = A \cup B, A \cap B = {}, IsFiniteSet(A), IsFiniteSet(B)
    PROVE  /\ Cardinality(A) \in Nat /\ Cardinality(B) \in Nat
           /\ Cardinality(S) = Cardinality(A) + Cardinality(B)
<1> DEFINE m == Cardinality(A)
           n == Cardinality(B)
<1>1. m \in Nat /\ n \in Nat
  BY FS_CardinalityType
<1>2. Cardinality(A \cap B) = 0
  BY FS_EmptySet
<1>3. Cardinality(A \cup B) = m + n - Cardinality(A \cap B)
  BY FS_Union
<1>4. Cardinality(S) = m + n - 0
  BY <1>2, <1>3
<1> HIDE DEF m, n
<1>5. Cardinality(S) = m + n
  BY <1>1, <1>4
<1> QED
  BY <1>1, <1>5 DEF m, n

\* A finite set of natural numbers has a greatest one.
LEMMA Greatest ==
    ASSUME NEW T, T \subseteq Nat, T # {}, IsFiniteSet(T)
    PROVE  \E x \in T : \A y \in T : y <= x
<1> DEFINE bounded == {n \in Nat : \A S \in SUBSET T :
                          S # {} /\ Cardinality(S) = n => \E x \in S : \A y \in S : y <= x}
<1>1. 0 \in bounded
  BY FS_Subset, FS_EmptySet
<1>2. ASSUME NEW n \in Nat, n \in bounded PROVE n + 1 \in bounded
  <2> SUFFICES ASSUME NEW S \in SUBSET T, S # {}, Cardinality(S) = n + 1
               PROVE  \E x \in S : \A y \in S : y <= x
    OBVIOUS
  <2>1. PICK a \in S : TRUE
    OBVIOUS
  <2>2. IsFiniteSet(S)
    BY FS_Subset
  <2>3. Cardinality(S \ {a}) = n /\ S \ {a} \in SUBSET T
    <3>1. Cardinality(S \ {a}) = Cardinality(S) - 1
      BY <2>1, <2>2, FS_RemoveElement
    <3>2. Cardinality(S \ {a}) = (n + 1) - 1
      BY <3>1
    <3> QED
      BY <3>2
  <2>4. CASE S \ {a} = {}
    BY <2>1, <2>4
  <2>5. CASE S \ {a} # {}
    <3>1. PICK x \in S \ {a} : \A y \in S \ {a} : y <= x
      BY <1>2, <2>3, <2>5
    <3>2. x \in Nat /\ a \in Nat
      OBVIOUS
    <3>3. CASE a <= x
      BY <3>1, <3>3
    <3>4. CASE x < a
      <4>1. \A y \in S : y <= a
        BY <3>1, <3>2, <3>4
      <4> QED
        BY <4>1
    <3> QED
      BY <3>2, <3>3, <3>4
  <2> QED
    BY <2>4, <2>5
<1>3. Nat \subseteq bounded
  <2> HIDE DEF bounded
  <2> QED
    BY <1>1, <1>2, EveryNumber
<1>4. Cardinality(T) \in bounded
  BY <1>3, FS_CardinalityType
<1> QED
  BY <1>4

\* f holds what a step gives of a, n times over.
Repeats(f, S, a, step, n) ==
    f \in [0..n -> S] /\ f[0] = a /\ \A k \in 1..n : f[k] = step[f[k - 1]]

\* A step can be repeated as often as one likes.
LEMMA Iterates ==
    ASSUME NEW S, NEW a \in S, NEW step \in [S -> S], NEW n \in Nat
    PROVE  \E f : Repeats(f, S, a, step, n)
<1> DEFINE T == {m \in Nat : \E f : Repeats(f, S, a, step, m)}
<1>1. 0 \in T
  <2> DEFINE f == [k \in 0..0 |-> a]
  <2>1. Repeats(f, S, a, step, 0)
    BY DEF Repeats
  <2> QED
    BY <2>1
<1>2. ASSUME NEW m \in Nat, m \in T PROVE m + 1 \in T
  <2>1. PICK f : Repeats(f, S, a, step, m)
    BY <1>2
  <2> DEFINE g == [k \in 0..(m + 1) |-> IF k = m + 1 THEN step[f[m]] ELSE f[k]]
  <2>2. f[m] \in S /\ step[f[m]] \in S
    BY <2>1 DEF Repeats
  <2>3. g \in [0..(m + 1) -> S]
    BY <2>1, <2>2 DEF Repeats
  <2>4. g[0] = a /\ \A k \in 1..m : g[k] = step[g[k - 1]]
    BY <2>1 DEF Repeats
  <2>5. g[m + 1] = step[g[m]]
    OBVIOUS
  <2> HIDE DEF g
  <2>6. Repeats(g, S, a, step, m + 1)
    BY <2>3, <2>4, <2>5 DEF Repeats
  <2> QED
    BY <2>6
<1>3. Nat \subseteq T
  <2> HIDE DEF T
  <2> QED
    BY <1>1, <1>2, EveryNumber
<1> QED
  BY <1>3

\* Ranks put a finite set in order: each element has a place of its own, from 1 to the
\* number of elements, and no place is empty.
LEMMA Places ==
    ASSUME NEW S, IsFiniteSet(S), NEW rank, \A r \in S : rank[r] \in Nat,
           \A q, r \in S : rank[q] = rank[r] => q = r,
           NEW place, place = [r \in S |-> Cardinality({q \in S : rank[q] <= rank[r]})]
    PROVE  /\ place \in [S -> 1..Cardinality(S)]
           /\ \A q, r \in S : rank[q] < rank[r] => place[q] < place[r]
           /\ \A q, r \in S : place[q] = place[r] => q = r
           /\ \A i \in 1..Cardinality(S) : \E r \in S : place[r] = i
<1> DEFINE upTo(r) == {q \in S : rank[q] <= rank[r]}
<1>1. Cardinality(S) \in Nat
  BY FS_CardinalityType
<1>2. ASSUME NEW r \in S
      PROVE  /\ IsFiniteSet(upTo(r)) /\ place[r] = Cardinality(upTo(r))
             /\ place[r] \in 1..Cardinality(S)
  <2>1. upTo(r) \in SUBSET S /\ r \in upTo(r) /\ place[r] = Cardinality(upTo(r))
    OBVIOUS
  <2>2. IsFiniteSet(upTo(r)) /\ Cardinality(upTo(r)) <= Cardinality(S)
    BY <2>1, FS_Subset
  <2>3. Cardinality(upTo(r)) \in Nat /\ Cardinality(upTo(r)) # 0
    BY <2>1, <2>2, FS_CardinalityType, FS_EmptySet
  <2> QED
    BY <1>1, <2>1, <2>2, <2>3
<1>3. ASSUME NEW q \in S, NEW r \in S, rank[q] < rank[r] PROVE place[q] < place[r]
  <2>1. upTo(q) \in SUBSET upTo(r) /\ r \in upTo(r) /\ r \notin upTo(q)
    BY <1>3
  <2>2. /\ Cardinality(upTo(q)) <= Cardinality(upTo(r))
        /\ Cardinality(upTo(r)) = Cardinality(upTo(q)) => upTo(r) = upTo(q)
    BY <1>2, <2>1, FS_Subset
  <2>3. /\ place[q] = Cardinality(upTo(q)) /\ place[r] = Cardinality(upTo(r))
        /\ place[q] \in 1..Cardinality(S) /\ place[r] \in 1..Cardinality(S)
    BY <1>2
  <2> HIDE DEF upTo
  <2>4. Cardinality(upTo(q)) # Cardinality(upTo(r))
    BY <2>1, <2>2
  <2> QED
    BY <1>1, <2>2, <2>3, <2>4
<1>4. ASSUME NEW q \in S, NEW r \in S, place[q] = place[r] PROVE q = r
  <2>1. rank[q] \in Nat /\ rank[r] \in Nat
    OBVIOUS
  <2>2. place[q] \in Nat /\ place[r] \in Nat
    BY <1>1, <1>2
  <2>3. rank[q] < rank[r] => place[q] < place[r]
    BY <1>3
  <2>4. rank[r] < rank[q] => place[r] < place[q]
    BY <1>3
  <2>5. ~(rank[q] < rank[r]) /\ ~(rank[r] < rank[q])
    BY <1>4, <2>2, <2>3, <2>4
  <2> QED
    BY <2>1, <2>5
<1>5. place \in [S -> 1..Cardinality(S)]
  BY <1>2
<1>6. \A i \in 1..Cardinality(S) : \E r \in S : place[r] = i
  <2>1. IsFiniteSet(1..Cardinality(S)) /\ Cardinality(1..Cardinality(S)) = Cardinality(S)
    BY <1>1, FS_Interval
  <2>2. place \in Injection(S, 1..Cardinality(S))
    BY <1>4, <1>5 DEF Injection, IsInjective
  <2>3. place \in Surjection(S, 1..Cardinality(S))
    BY <2>1, <2>2, FS_Injection
  <2> QED
    BY <2>3 DEF Surjection
<1> QED
  BY <1>3, <1>4, <1>5, <1>6

\* Numbers that rise from each place to the next rise from any place to a later one.
LEMMA Rising ==
    ASSUME NEW n \in Nat, NEW g \in [0..n -> Nat], \A k \in 1..n : g[k - 1] < g[k]
    PROVE  \A j, k \in 0..n : j < k => g[j] < g[k]
<1> DEFINE T == {m \in Nat : \A j, k \in 0..n : k = j + 1 + m => g[j] < g[k]}
<1>1. 0 \in T
  OBVIOUS
<1>2. ASSUME NEW m \in Nat, m \in T PROVE m + 1 \in T
  <2> SUFFICES ASSUME NEW j \in 0..n, NEW k \in 0..n, k = j + 1 + (m + 1)
               PROVE  g[j] < g[k]
    OBVIOUS
  <2>1. k - 1 \in 0..n /\ k \in 1..n /\ k - 1 = j + 1 + m
    OBVIOUS
  <2>2. g[j] < g[k - 1] /\ g[k - 1] < g[k]
    BY <1>2, <2>1
  <2>3. g[j] \in Nat /\ g[k - 1] \in Nat /\ g[k] \in Nat
    BY <2>1
  <2> QED
    BY <2>2, <2>3
<1>3. Nat \subseteq T
  <2> HIDE DEF T
  <2> QED
    BY <1>1, <1>2, EveryNumber
<1> QED
  <2> TAKE j, k \in 0..n
  <2> HAVE j < k
  <2>1. k - j - 1 \in Nat /\ k = j + 1 + (k - j - 1)
    OBVIOUS
  <2>2. k - j - 1 \in T
    BY <1>3, <2>1
  <2> QED
    BY <2>1, <2>2

-----------------------------------------------------------------------------
(* Following a relation: up gives the elements one step from each.         *)

\* R holds what is at most k steps from each element, for as many steps as there are elements.
Climbs(R, S, up) ==
    /\ R[0] = [n \in S |-> {n}]
    /\ \A k \in 1..Cardinality(S) :
          R[k] = [n \in S |-> R[k - 1][n] \cup UNION {R[k - 1][p] : p \in up[n]}]

\* The same as a function defined by recursion.
IsClimb(f, S, up) ==
    f = [k \in 0..Cardinality(S) |->
            IF k = 0 THEN [n \in S |-> {n}]
            ELSE [n \in S |-> f[k - 1][n] \cup UNION {f[k - 1][p] : p \in up[n]}]]

\* There is one.
LEMMA Climbing ==
    ASSUME NEW S, IsFiniteSet(S), NEW up \in [S -> SUBSET S]
    PROVE  \E f : IsClimb(f, S, up)
<1> DEFINE N == Cardinality(S)
           G == [S -> SUBSET S]
           start == [n \in S |-> {n}]
           step == [g \in G |-> [n \in S |-> g[n] \cup UNION {g[p] : p \in up[n]}]]
<1>1. N \in Nat
  BY FS_CardinalityType
<1>2. start \in G /\ step \in [G -> G]
  OBVIOUS
<1>3. PICK f : Repeats(f, G, start, step, N)
  <2> HIDE DEF G, start, step, N
  <2> QED
    BY <1>1, <1>2, Iterates
<1>4. ASSUME NEW k \in 0..N, k # 0
      PROVE  f[k] = [n \in S |-> f[k - 1][n] \cup UNION {f[k - 1][p] : p \in up[n]}]
  <2>1. k \in 1..N /\ k - 1 \in 0..N
    BY <1>1, <1>4
  <2>2. f[k] = step[f[k - 1]] /\ f[k - 1] \in G
    BY <1>3, <2>1 DEF Repeats
  <2> QED
    BY <2>2
<1>5. f = [k \in 0..N |-> f[k]] /\ f[0] = start
  BY <1>3 DEF Repeats
<1> DEFINE next(k) == [n \in S |-> f[k - 1][n] \cup UNION {f[k - 1][p] : p \in up[n]}]
<1> HIDE DEF N, G, start, next
<1>6. \A k \in 0..N : f[k] = IF k = 0 THEN start ELSE next(k)
  BY <1>4, <1>5 DEF next
<1>7. f = [k \in 0..N |-> IF k = 0 THEN start ELSE next(k)]
  <2> DEFINE h == [k \in 0..N |-> IF k = 0 THEN start ELSE next(k)]
  <2>1. h = [k \in 0..N |-> h[k]] /\ \A k \in 0..N : h[k] = f[k]
    BY <1>6
  <2> HIDE DEF h
  <2>2. f = h
    BY <1>5, <2>1
  <2> QED
    BY <2>2 DEF h
<1>8. IsClimb(f, S, up)
  BY <1>7 DEF N, start, next, IsClimb
<1> QED
  BY <1>8

\* It holds elements only, and one step more reaches what is a step from what was reached.
LEMMA ClimbsFurther ==
    ASSUME NEW S, IsFiniteSet(S), NEW up \in [S -> SUBSET S], NEW R, Climbs(R, S, up)
    PROVE  /\ \A k \in 0..Cardinality(S) : \A n \in S : R[k][n] \subseteq S
           /\ \A n \in S : R[0][n] = {n}
           /\ \A k \in Nat : k + 1 \in 1..Cardinality(S) => \A n \in S :
                 R[k + 1][n] = R[k][n] \cup UNION {up[m] : m \in R[k][n]}
<1> DEFINE N == Cardinality(S)
           Inside == {k \in Nat : k \in 0..N => \A n \in S : R[k][n] \subseteq S}
           T == {k \in Nat : k + 1 \in 1..N => \A n \in S :
                    R[k + 1][n] = R[k][n] \cup UNION {up[m] : m \in R[k][n]}}
<1>1. N \in Nat /\ \A n \in S : up[n] \subseteq S /\ R[0][n] = {n}
  BY FS_CardinalityType DEF Climbs
<1>2. \A k \in Nat : k + 1 \in 1..N => \A n \in S :
         R[k + 1][n] = R[k][n] \cup UNION {R[k][p] : p \in up[n]}
  <2> SUFFICES ASSUME NEW k \in Nat, k + 1 \in 1..N, NEW n \in S
               PROVE  R[k + 1][n] = R[k][n] \cup UNION {R[k][p] : p \in up[n]}
    OBVIOUS
  <2>1. (k + 1) - 1 = k
    OBVIOUS
  <2>2. R[k + 1] = [m \in S |-> R[k][m] \cup UNION {R[k][p] : p \in up[m]}]
    BY <2>1 DEF Climbs
  <2> QED
    BY <2>2
<1> HIDE DEF N
<1>3. 0 \in Inside
  BY <1>1
<1>4. ASSUME NEW k \in Nat, k \in Inside PROVE k + 1 \in Inside
  <2> SUFFICES ASSUME k + 1 \in 0..N, NEW n \in S PROVE R[k + 1][n] \subseteq S
    OBVIOUS
  <2>1. k \in 0..N /\ k + 1 \in 1..N
    BY <1>1
  <2>2. \A m \in S : R[k][m] \subseteq S
    BY <1>4, <2>1
  <2>3. R[k + 1][n] = R[k][n] \cup UNION {R[k][p] : p \in up[n]}
    BY <1>2, <2>1
  <2> QED
    BY <1>1, <2>2, <2>3
<1>5. Nat \subseteq Inside
  <2> HIDE DEF Inside
  <2> QED
    BY <1>3, <1>4, EveryNumber
<1>6. \A k \in 0..N : \A n \in S : R[k][n] \subseteq S
  BY <1>1, <1>5
<1>7. 0 \in T
  <2> SUFFICES ASSUME 0 + 1 \in 1..N, NEW n \in S
               PROVE  R[0 + 1][n] = R[0][n] \cup UNION {up[m] : m \in R[0][n]}
    OBVIOUS
  <2>1. R[0 + 1][n] = {n} \cup UNION {R[0][p] : p \in up[n]}
    BY <1>1, <1>2
  <2>2. UNION {R[0][p] : p \in up[n]} = up[n]
    BY <1>1
  <2> QED
    BY <1>1, <2>1, <2>2
<1>8. ASSUME NEW k \in Nat, k \in T PROVE k + 1 \in T
  <2> SUFFICES ASSUME (k + 1) + 1 \in 1..N, NEW n \in S
               PROVE  R[(k + 1) + 1][n] = R[k + 1][n] \cup UNION {up[m] : m \in R[k + 1][n]}
    OBVIOUS
  <2>1. k + 1 \in 1..N /\ k \in 0..N
    BY <1>1
  <2>2. \A m \in S : /\ R[k + 1][m] = R[k][m] \cup UNION {R[k][p] : p \in up[m]}
                     /\ R[k + 1][m] = R[k][m] \cup UNION {up[l] : l \in R[k][m]}
    BY <1>2, <1>8, <2>1
  <2>3. R[(k + 1) + 1][n] = R[k + 1][n] \cup UNION {R[k + 1][p] : p \in up[n]}
    BY <1>2
  <2>4. ASSUME NEW p \in up[n], NEW x \in R[k + 1][p]
        PROVE  x \in R[k + 1][n] \/ \E m \in R[k + 1][n] : x \in up[m]
    BY <1>1, <2>2
  <2>5. ASSUME NEW m \in R[k + 1][n], NEW x \in up[m]
        PROVE  x \in R[k + 1][n] \/ \E p \in up[n] : x \in R[k + 1][p]
    BY <1>1, <1>6, <2>1, <2>2
  <2> QED
    BY <2>3, <2>4, <2>5
<1>9. Nat \subseteq T
  <2> HIDE DEF T
  <2> QED
    BY <1>7, <1>8, EveryNumber
<1> QED
  BY <1>1, <1>6, <1>9 DEF N

\* As many steps as there are elements reach everything: with each step the elements reached
\* grow by one, until they hold all that is a step from them.
LEMMA ClimbIsClosed ==
    ASSUME NEW S, IsFiniteSet(S), NEW up \in [S -> SUBSET S], NEW R, Climbs(R, S, up), NEW n \in S
    PROVE  \A m \in R[Cardinality(S)][n] : up[m] \subseteq R[Cardinality(S)][n]
<1> DEFINE N == Cardinality(S)
           closed(k) == \A m \in R[k][n] : up[m] \subseteq R[k][n]
           T == {k \in Nat : k \in 0..N => closed(k) \/ Cardinality(R[k][n]) >= k + 1}
<1>1. /\ N \in Nat /\ R[0][n] = {n}
      /\ \A k \in 0..N : R[k][n] \in SUBSET S
  BY FS_CardinalityType, ClimbsFurther
<1>2. \A k \in 0..N : IsFiniteSet(R[k][n]) /\ Cardinality(R[k][n]) \in Nat
  BY <1>1, FS_Subset, FS_CardinalityType
<1>3. 0 \in T
  <2>1. Cardinality({n}) = 1
    BY FS_Singleton
  <2>2. Cardinality(R[0][n]) >= 0 + 1
    BY <1>1, <2>1
  <2> HIDE DEF closed
  <2> QED
    BY <2>2
<1>4. ASSUME NEW k \in Nat, k \in T PROVE k + 1 \in T
  <2> SUFFICES ASSUME k + 1 \in 0..N PROVE closed(k + 1) \/ Cardinality(R[k + 1][n]) >= k + 2
    <3>1. (k + 1) + 1 = k + 2
      OBVIOUS
    <3> QED
      BY <3>1
  <2> DEFINE K == R[k][n]
             U == R[k + 1][n]
  <2>1. k \in 0..N /\ k + 1 \in 1..N
    BY <1>1
  <2>2. U = K \cup UNION {up[m] : m \in K}
    BY <2>1, ClimbsFurther
  <2>3. CASE closed(k)
    BY <2>2, <2>3
  <2>4. CASE ~closed(k)
    <3>1. Cardinality(K) >= k + 1
      BY <1>4, <2>1, <2>4
    <3>2. K \in SUBSET U /\ K # U
      BY <2>2, <2>4
    <3>3. IsFiniteSet(U) /\ Cardinality(K) \in Nat /\ Cardinality(U) \in Nat
      BY <1>2, <2>1
    <3> HIDE DEF K, U
    <3>4. Cardinality(K) <= Cardinality(U) /\ Cardinality(K) # Cardinality(U)
      BY <3>2, <3>3, FS_Subset
    <3>5. Cardinality(U) >= k + 2
      BY <3>1, <3>3, <3>4
    <3> QED
      BY <3>5 DEF U
  <2> QED
    BY <2>3, <2>4
<1>5. Nat \subseteq T
  <2> HIDE DEF T
  <2> QED
    BY <1>3, <1>4, EveryNumber
<1>6. Cardinality(R[N][n]) <= N
  BY <1>1, FS_Subset
<1>7. N \in 0..N /\ Cardinality(R[N][n]) \in Nat
  BY <1>1, <1>2
<1> HIDE DEF closed
<1>8. closed(N)
  <2> HIDE DEF N
  <2> QED
    BY <1>5, <1>6, <1>7
<1> QED
  BY <1>8 DEF closed

\* What is reached from what is reached is reached, and it is the element itself or a step
\* from another.
LEMMA ClimbIsTransitive ==
    ASSUME NEW S, IsFiniteSet(S), NEW up \in [S -> SUBSET S], NEW R, Climbs(R, S, up),
           NEW n \in S, NEW m \in R[Cardinality(S)][n]
    PROVE  /\ R[Cardinality(S)][m] \subseteq R[Cardinality(S)][n]
           /\ m = n \/ \E l \in S : m \in up[l]
<1> DEFINE N == Cardinality(S)
           C == R[N][n]
           D == {n} \cup UNION {up[l] : l \in S}
           T == {k \in Nat : k \in 0..N => R[k][m] \subseteq C /\ R[k][n] \subseteq D}
<1>1. N \in Nat /\ N \in 0..N
  BY FS_CardinalityType
<1>2. /\ m \in S /\ R[0][m] = {m} /\ R[0][n] = {n}
      /\ \A k \in 0..N : \A l \in S : R[k][l] \subseteq S
      /\ \A k \in Nat : k + 1 \in 1..N => \A l \in S :
            R[k + 1][l] = R[k][l] \cup UNION {up[x] : x \in R[k][l]}
  BY <1>1, ClimbsFurther
<1>3. m \in C /\ \A x \in C : up[x] \subseteq C
  BY ClimbIsClosed
<1> HIDE DEF N, C
<1>4. 0 \in T
  BY <1>2, <1>3
<1>5. ASSUME NEW k \in Nat, k \in T PROVE k + 1 \in T
  <2> SUFFICES ASSUME k + 1 \in 0..N PROVE R[k + 1][m] \subseteq C /\ R[k + 1][n] \subseteq D
    OBVIOUS
  <2>1. k \in 0..N /\ k + 1 \in 1..N
    BY <1>1
  <2>2. /\ R[k + 1][m] = R[k][m] \cup UNION {up[x] : x \in R[k][m]}
        /\ R[k + 1][n] = R[k][n] \cup UNION {up[x] : x \in R[k][n]}
        /\ R[k][m] \subseteq C /\ R[k][n] \subseteq D /\ R[k][n] \subseteq S
    BY <1>2, <1>5, <2>1
  <2> QED
    BY <1>3, <2>2
<1>6. Nat \subseteq T
  <2> HIDE DEF T
  <2> QED
    BY <1>4, <1>5, EveryNumber
<1>7. R[N][m] \subseteq C /\ C \subseteq D
  BY <1>1, <1>6 DEF C
<1> QED
  BY <1>3, <1>7 DEF N, C

-----------------------------------------------------------------------------
(* Adding the values of w over a set, an element at a time.                *)

AddsUp(f, S, w) ==
    f = [s \in SUBSET S |-> IF s = {} THEN 0
                            ELSE w[CHOOSE x \in s : TRUE] + f[s \ {CHOOSE x \in s : TRUE}]]

\* A set without one of its elements is smaller by one.
LEMMA OneLess ==
    ASSUME NEW S, IsFiniteSet(S), NEW s \in SUBSET S
    PROVE  /\ Cardinality(s) \in Nat /\ (Cardinality(s) = 0 <=> s = {})
           /\ \A x \in s : Cardinality(s \ {x}) = Cardinality(s) - 1
<1>1. IsFiniteSet(s)
  BY FS_Subset
<1> QED
  BY <1>1, FS_CardinalityType, FS_EmptySet, FS_RemoveElement

\* A set can be added up: what n rounds give is settled for sets of at most n elements.
LEMMA Adding ==
    ASSUME NEW S, IsFiniteSet(S), NEW w \in [S -> Nat]
    PROVE  \E f \in [SUBSET S -> Nat] : AddsUp(f, S, w)
<1> DEFINE N == Cardinality(S)
           G == [SUBSET S -> Nat]
           one(s) == CHOOSE x \in s : TRUE
           start == [s \in SUBSET S |-> 0]
           step == [g \in G |-> [s \in SUBSET S |-> IF s = {} THEN 0 ELSE w[one(s)] + g[s \ {one(s)}]]]
<1>1. N \in Nat /\ \A s \in SUBSET S : s # {} => one(s) \in s
  BY FS_CardinalityType
<1>2. start \in G /\ step \in [G -> G]
  <2>1. start \in G
    OBVIOUS
  <2>2. ASSUME NEW g \in G PROVE step[g] \in G
    <3>1. \A s \in SUBSET S : s # {} => w[one(s)] \in Nat /\ g[s \ {one(s)}] \in Nat
      BY <1>1
    <3> HIDE DEF one
    <3> QED
      BY <3>1
  <2> QED
    BY <2>1, <2>2
<1>3. PICK f : Repeats(f, G, start, step, N)
  <2> HIDE DEF G, start, step, N
  <2> QED
    BY <1>1, <1>2, Iterates
<1> DEFINE settled == {k \in Nat : k \in 0..N => \A s \in SUBSET S : Cardinality(s) <= k => step[f[k]][s] = f[k][s]}
<1>4. /\ \A k \in 0..N : f[k] \in G
      /\ \A k \in Nat : k + 1 \in 0..N => f[k + 1] = step[f[k]]
  <2>1. \A k \in Nat : k + 1 \in 0..N => k + 1 \in 1..N /\ (k + 1) - 1 = k
    BY <1>1
  <2> HIDE DEF G, N, start, step
  <2> QED
    BY <1>3, <2>1 DEF Repeats
<1>5. \A g \in G : \A s \in SUBSET S : step[g][s] = IF s = {} THEN 0 ELSE w[one(s)] + g[s \ {one(s)}]
  OBVIOUS
<1>6. f[0] = start
  BY <1>3 DEF Repeats
<1> HIDE DEF N, step, one
<1>7. 0 \in settled
  <2> SUFFICES ASSUME 0 \in 0..N, NEW s \in SUBSET S, Cardinality(s) <= 0 PROVE step[f[0]][s] = f[0][s]
    OBVIOUS
  <2>1. s = {}
    BY OneLess
  <2> QED
    BY <1>4, <1>5, <1>6, <2>1
<1>8. ASSUME NEW k \in Nat, k \in settled PROVE k + 1 \in settled
  <2> SUFFICES ASSUME k + 1 \in 0..N, NEW s \in SUBSET S, Cardinality(s) <= k + 1
               PROVE  step[f[k + 1]][s] = f[k + 1][s]
    OBVIOUS
  <2>1. k \in 0..N /\ f[k] \in G /\ f[k + 1] \in G /\ f[k + 1] = step[f[k]]
    <3>1. k \in 0..N
      BY <1>1
    <3> HIDE DEF G, settled
    <3> QED
      BY <1>4, <3>1
  <2>2. CASE s = {}
    BY <1>5, <2>1, <2>2
  <2>3. CASE s # {}
    <3> DEFINE t == s \ {one(s)}
    <3>1. t \in SUBSET S /\ Cardinality(t) <= k
      BY <1>1, <2>3, OneLess
    <3>2. step[f[k]][t] = f[k][t]
      BY <1>8, <2>1, <3>1
    <3>3. step[f[k + 1]][s] = w[one(s)] + f[k + 1][t] /\ step[f[k]][s] = w[one(s)] + f[k][t]
      BY <1>5, <2>1, <2>3
    <3> QED
      BY <2>1, <3>2, <3>3
  <2> QED
    BY <2>2, <2>3
<1>9. N \in settled /\ N \in 0..N
  <2>1. Nat \subseteq settled
    <3> HIDE DEF settled
    <3> QED
      BY <1>7, <1>8, EveryNumber
  <2> QED
    BY <1>1, <2>1
<1>10. \A s \in SUBSET S : step[f[N]][s] = f[N][s]
  <2>1. \A s \in SUBSET S : Cardinality(s) <= N
    <3> SUFFICES ASSUME NEW s \in SUBSET S PROVE Cardinality(s) <= Cardinality(S)
      BY DEF N
    <3> QED
      BY FS_Subset
  <2> QED
    BY <1>9, <2>1
<1>11. AddsUp(f[N], S, w)
  <2>1. f[N] \in G
    BY <1>4, <1>9
  <2>2. \A s \in SUBSET S : f[N][s] = IF s = {} THEN 0 ELSE w[one(s)] + f[N][s \ {one(s)}]
    BY <1>5, <1>10, <2>1
  <2> DEFINE h == [s \in SUBSET S |-> IF s = {} THEN 0 ELSE w[one(s)] + f[N][s \ {one(s)}]]
  <2>3. h = [s \in SUBSET S |-> h[s]] /\ \A s \in SUBSET S : h[s] = f[N][s]
    BY <2>2
  <2> HIDE DEF h
  <2>4. f[N] = h
    BY <2>1, <2>3
  <2> QED
    BY <2>4 DEF h, one, AddsUp
<1> QED
  BY <1>4, <1>9, <1>11

\* Whichever element is taken away, the sum falls by its value.
LEMMA AnyElementFirst ==
    ASSUME NEW S, IsFiniteSet(S), NEW w \in [S -> Nat], NEW f, AddsUp(f, S, w)
    PROVE  /\ f[{}] = 0
           /\ \A s \in SUBSET S : f[s] \in Nat /\ \A x \in s : f[s] = w[x] + f[s \ {x}]
<1> DEFINE one(s) == CHOOSE x \in s : TRUE
           fair(s) == f[s] \in Nat /\ \A x \in s : f[s] = w[x] + f[s \ {x}]
           T == {k \in Nat : \A s \in SUBSET S : Cardinality(s) <= k => fair(s)}
<1>1. /\ f[{}] = 0
      /\ \A s \in SUBSET S : s # {} => f[s] = w[one(s)] + f[s \ {one(s)}] /\ one(s) \in s
  BY DEF AddsUp
<1> HIDE DEF one
<1>2. 0 \in T
  <2> SUFFICES ASSUME NEW s \in SUBSET S, Cardinality(s) <= 0 PROVE fair(s)
    OBVIOUS
  <2>1. s = {}
    BY OneLess
  <2> QED
    BY <1>1, <2>1
<1>3. ASSUME NEW k \in Nat, k \in T PROVE k + 1 \in T
  <2> SUFFICES ASSUME NEW s \in SUBSET S, Cardinality(s) <= k + 1 PROVE fair(s)
    OBVIOUS
  <2>1. CASE s = {}
    BY <1>1, <2>1
  <2>2. CASE s # {}
    <3> DEFINE c == one(s)
    <3>1. c \in s /\ f[s] = w[c] + f[s \ {c}]
      BY <1>1, <2>2
    <3> HIDE DEF c
    <3>2. \A x \in s : s \ {x} \in SUBSET S /\ Cardinality(s \ {x}) <= k
      BY OneLess
    <3>3. \A x \in s : fair(s \ {x})
      BY <1>3, <3>2
    <3>4. w[c] \in Nat /\ f[s \ {c}] \in Nat
      BY <3>1, <3>3
    <3>5. ASSUME NEW x \in s, x # c PROVE f[s] = w[x] + f[s \ {x}]
      <4> DEFINE t == (s \ {c}) \ {x}
      <4>1. (s \ {x}) \ {c} = t
        OBVIOUS
      <4>2. f[s \ {c}] = w[x] + f[t]
        BY <3>1, <3>3, <3>5
      <4>3. f[s \ {x}] = w[c] + f[t]
        BY <3>1, <3>3, <3>5, <4>1
      <4>4. t \in SUBSET S /\ Cardinality(t) <= k
        <5>1. s \ {c} \in SUBSET S /\ x \in s \ {c} /\ Cardinality(s \ {c}) <= k
          BY <3>1, <3>2, <3>5
        <5> QED
          BY <5>1, OneLess
      <4>5. f[t] \in Nat
        BY <1>3, <4>4
      <4>6. w[x] \in Nat
        OBVIOUS
      <4> HIDE DEF t
      <4> QED
        BY <3>1, <3>4, <4>2, <4>3, <4>5, <4>6
    <3>6. f[s] \in Nat
      BY <3>1, <3>4
    <3>7. \A x \in s : f[s] = w[x] + f[s \ {x}]
      BY <3>1, <3>5
    <3> QED
      BY <3>6, <3>7
  <2> QED
    BY <2>1, <2>2
<1>4. Nat \subseteq T
  <2> HIDE DEF T
  <2> QED
    BY <1>2, <1>3, EveryNumber
<1>5. ASSUME NEW s \in SUBSET S PROVE fair(s)
  <2>1. Cardinality(s) \in T /\ Cardinality(s) <= Cardinality(s)
    BY <1>4, OneLess
  <2> QED
    BY <2>1
<1> QED
  BY <1>1, <1>5

\* The sum over a part is no greater, and it does not matter of what the part is a part.
LEMMA PartsAddUpToLess ==
    ASSUME NEW S, IsFiniteSet(S), NEW w \in [S -> Nat], NEW f, AddsUp(f, S, w),
           NEW T \in SUBSET S, NEW v \in [T -> Nat], \A x \in T : v[x] = w[x], NEW g, AddsUp(g, T, v)
    PROVE  g[T] \in Nat /\ f[S] \in Nat /\ g[T] <= f[S]
<1>1. /\ f[{}] = 0
      /\ \A s \in SUBSET S : f[s] \in Nat /\ \A x \in s : f[s] = w[x] + f[s \ {x}]
  BY AnyElementFirst
<1>2. IsFiniteSet(T) /\ IsFiniteSet(S \ T)
  BY FS_Subset
<1>3. /\ g[{}] = 0
      /\ \A s \in SUBSET T : g[s] \in Nat /\ \A x \in s : g[s] = v[x] + g[s \ {x}]
  <2>1. IsFiniteSet(T) /\ v \in [T -> Nat] /\ AddsUp(g, T, v)
    BY <1>2
  <2>2. g[{}] = 0
    BY ONLY <2>1, AnyElementFirst
  <2>3. \A s \in SUBSET T : g[s] \in Nat
    BY ONLY <2>1, AnyElementFirst
  <2>4. ASSUME NEW s \in SUBSET T, NEW x \in s PROVE g[s] = v[x] + g[s \ {x}]
    BY ONLY <2>1, <2>4, AnyElementFirst
  <2> QED
    BY <2>2, <2>3, <2>4
<1>4. g[T] = f[T]
  <2> DEFINE U == {K \in SUBSET T : g[K] = f[K]}
  <2>1. {} \in U
    BY <1>1, <1>3
  <2>2. ASSUME NEW K \in SUBSET T, NEW x \in T \ K, K \in U PROVE K \cup {x} \in U
    <3> DEFINE L == K \cup {x}
    <3>2. x \in L /\ L \in SUBSET T /\ L \in SUBSET S /\ L \ {x} = K /\ x \in T
      OBVIOUS
    <3> HIDE DEF L
    <3>3. f[L] = w[x] + f[K] /\ g[L] = v[x] + g[K]
      BY <1>1, <1>3, <3>2
    <3>4. g[L] = f[L]
      BY <2>2, <3>2, <3>3
    <3> QED
      BY <3>2, <3>4 DEF L
  <2> HIDE DEF U
  <2>3. T \in U
    BY <1>2, <2>1, <2>2, GrowingSets
  <2> QED
    BY <2>3 DEF U
<1>5. f[T] <= f[T \cup (S \ T)]
  <2> DEFINE U == {K \in SUBSET (S \ T) : f[T] <= f[T \cup K]}
  <2>1. {} \in U
    <3>1. T \cup {} = T /\ f[T] \in Nat
      BY <1>1
    <3> QED
      BY <3>1
  <2>2. ASSUME NEW K \in SUBSET (S \ T), NEW x \in (S \ T) \ K, K \in U PROVE K \cup {x} \in U
    <3> DEFINE L == T \cup (K \cup {x})
    <3>1. L \ {x} = T \cup K /\ x \in L /\ L \in SUBSET S /\ T \cup K \in SUBSET S
      OBVIOUS
    <3> HIDE DEF L
    <3>2. f[L] = w[x] + f[T \cup K]
      BY <1>1, <3>1
    <3>3. f[T] \in Nat /\ f[T \cup K] \in Nat /\ w[x] \in Nat /\ f[T] <= f[T \cup K]
      BY <1>1, <2>2, <3>1
    <3>4. f[T] <= f[L]
      BY <3>2, <3>3
    <3> QED
      BY <3>4 DEF L
  <2> HIDE DEF U
  <2>3. S \ T \in U
    BY <1>2, <2>1, <2>2, GrowingSets
  <2> QED
    BY <2>3 DEF U
<1>6. T \cup (S \ T) = S
  OBVIOUS
<1> QED
  BY <1>1, <1>4, <1>5, <1>6
=============================================================================
