--------------------------- MODULE BullsharkProofs ---------------------------
(***************************************************************************)
(* Theorems about Bullshark, for every validator set, every certified DAG  *)
(* and every schedule of the anchors: a wave is decided once, what the     *)
(* shortcut commits stays in everybody's history, and a micro checkpoint   *)
(* is the anchor's whole history.                                          *)
(*                                                                         *)
(* Paths and the breadth-first queue are recursive functions.  That they   *)
(* exist follows from RecursionExists, and what they compute is shown by   *)
(* looking at the first number for which it would be wrong (LeastNumber).  *)
(***************************************************************************)
EXTENDS Bullshark, FiniteSetTheorems, WellFoundedInduction, TLAPS

-----------------------------------------------------------------------------
(***************************************************************************)
(* Numbers and recursive functions.                                        *)
(***************************************************************************)

\* A non-empty set of naturals has a smallest element.
LEMMA LeastNumber ==
    ASSUME NEW T \in SUBSET Nat, T # {}
    PROVE  \E x \in T : \A y \in T : x <= y
  <1> DEFINE R == OpToRel(<, Nat)
  <1>1. IsWellFoundedOn(R, Nat)
    BY NatLessThanWellFounded
  <1> HIDE DEF R
  <1>2. PICK x \in T : \A y \in T : ~ (<<y, x>> \in R)
    BY <1>1, WFMin
  <1>3. \A y \in T : ~(y < x)
    BY <1>2 DEF R, OpToRel
  <1> QED BY <1>2, <1>3

\* What is true of 0, and of k + 1 if it is true of k, is true of every natural
\* number: the set T holds those of which it is true.
LEMMA AllNumbers ==
    ASSUME NEW T, 0 \in T, \A k \in Nat : k \in T => k + 1 \in T
    PROVE  \A k \in Nat : k \in T
  <1> SUFFICES ASSUME NEW m \in Nat, m \notin T PROVE FALSE
    OBVIOUS
  <1> DEFINE U == {k \in Nat : k \notin T}
  <1>1. PICK x \in U : \A y \in U : x <= y
    <2>1. U \in SUBSET Nat /\ U # {}
      OBVIOUS
    <2> HIDE DEF U
    <2> QED BY <2>1, LeastNumber
  <1>2. x # 0 /\ x - 1 \in Nat /\ x - 1 \notin U
    BY <1>1
  <1> QED BY <1>1, <1>2

\* The values of the recursion that starts with x and goes on with G.
Recursion(f, x, G) == f = [k \in Nat |-> IF k = 0 THEN x ELSE G[<<k, f[k - 1]>>]]

\* Such a function exists: it is put together from its restrictions to 0 .. n.
LEMMA RecursionExists ==
    ASSUME NEW X, NEW x \in X, NEW G \in [Nat \X X -> X]
    PROVE  \E f \in [Nat -> X] : Recursion(f, x, G)
  <1> DEFINE Upto(n, f) == /\ f \in [0 .. n -> X]
                           /\ f[0] = x
                           /\ \A k \in 1 .. n : f[k] = G[<<k, f[k - 1]>>]
             T == {n \in Nat : \E f : Upto(n, f)}
  <1>1. \A n \in Nat : n \in T
    <2>1. 0 \in T
      <3>1. Upto(0, [k \in 0 .. 0 |-> x])
        OBVIOUS
      <3> QED BY <3>1
    <2>2. ASSUME NEW n \in Nat, n \in T PROVE n + 1 \in T
      <3>1. PICK f : Upto(n, f)
        BY <2>2
      <3> DEFINE g == [k \in 0 .. n + 1 |-> IF k = n + 1 THEN G[<<n + 1, f[n]>>] ELSE f[k]]
      <3>2. f[n] \in X /\ G[<<n + 1, f[n]>>] \in X
        BY <3>1
      <3>3. g \in [0 .. n + 1 -> X] /\ g[0] = x
        BY <3>1, <3>2
      <3>4. ASSUME NEW k \in 1 .. n + 1 PROVE g[k] = G[<<k, g[k - 1]>>]
        <4>1. g[k - 1] = f[k - 1]
          OBVIOUS
        <4>2. CASE k = n + 1
          <5>1. g[k] = G[<<k, f[n]>>] /\ k - 1 = n
            BY <4>2
          <5> QED BY <4>1, <5>1
        <4>3. CASE k \in 1 .. n
          BY <3>1, <4>1, <4>3
        <4> QED BY <4>2, <4>3
      <3>5. Upto(n + 1, g)
        BY <3>3, <3>4
      <3> HIDE DEF g, Upto
      <3> QED BY <3>5
    <2> HIDE DEF T
    <2> QED BY <2>1, <2>2, AllNumbers
  <1>2. ASSUME NEW n \in Nat, NEW f, Upto(n, f), NEW g, Upto(n + 1, g)
        PROVE  f[n] = g[n]
    <2> DEFINE S == {k \in Nat : k <= n => f[k] = g[k]}
    <2>1. 0 \in S
      BY <1>2
    <2>2. ASSUME NEW k \in Nat, k \in S PROVE k + 1 \in S
      <3> SUFFICES ASSUME k + 1 <= n PROVE f[k + 1] = g[k + 1]
        OBVIOUS
      <3>1. k + 1 \in 1 .. n /\ k + 1 \in 1 .. n + 1 /\ (k + 1) - 1 = k /\ f[k] = g[k]
        BY <2>2
      <3>2. f[k + 1] = G[<<k + 1, f[(k + 1) - 1]>>] /\ g[k + 1] = G[<<k + 1, g[(k + 1) - 1]>>]
        BY <1>2, <3>1
      <3> HIDE DEF S
      <3> QED BY <3>1, <3>2
    <2>3. \A k \in Nat : k \in S
      <3> HIDE DEF S
      <3> QED BY <2>1, <2>2, AllNumbers
    <2> QED BY <2>3
  <1> DEFINE F(n) == CHOOSE f : Upto(n, f)
             h == [n \in Nat |-> F(n)[n]]
  <1>3. \A n \in Nat : Upto(n, F(n))
    <2> HIDE DEF Upto
    <2> QED BY <1>1, Zenon
  <1> HIDE DEF F
  <1>4. h \in [Nat -> X] /\ h[0] = x
    BY <1>3
  <1>5. ASSUME NEW k \in Nat, k # 0 PROVE h[k] = G[<<k, h[k - 1]>>]
    <2>1. Upto(k - 1, F(k - 1)) /\ Upto(k, F(k)) /\ k - 1 \in Nat /\ (k - 1) + 1 = k
      BY <1>3, <1>5
    <2>2. F(k - 1)[k - 1] = F(k)[k - 1]
      <3> HIDE DEF Upto
      <3> QED BY <1>2, <2>1
    <2>3. F(k)[k] = G[<<k, F(k)[k - 1]>>]
      BY <2>1, <1>5
    <2> QED BY <2>1, <2>2, <2>3
  <1>6. Recursion(h, x, G)
    <2> HIDE DEF h
    <2>1. h = [k \in Nat |-> h[k]]
      BY <1>4
    <2> QED BY <1>4, <1>5, <2>1 DEF Recursion
  <1> HIDE DEF h
  <1> QED BY <1>4, <1>6

-----------------------------------------------------------------------------
(***************************************************************************)
(* Sorting.                                                                *)
(***************************************************************************)

\* R orders S strictly and totally.
Orders(R, S) == /\ \A u \in S : <<u, u>> \notin R
                /\ \A u, v, w \in S : <<u, v>> \in R /\ <<v, w>> \in R => <<u, w>> \in R
                /\ \A u, v \in S : u = v \/ <<u, v>> \in R \/ <<v, u>> \in R

Sorted(s, R, S) == /\ s \in [1 .. Cardinality(S) -> S]
                   /\ \A i, j \in 1 .. Cardinality(S) : i < j => <<s[i], s[j]>> \in R

\* A finite set can be sorted: every element has its rank, and each rank its element.
LEMMA SortExists ==
    ASSUME NEW S, IsFiniteSet(S), NEW R, Orders(R, S)
    PROVE  \E s : Sorted(s, R, S)
  <1> DEFINE n == Cardinality(S)
             below(x) == {y \in S : <<y, x>> \in R}
             rank == [x \in S |-> Cardinality(below(x)) + 1]
  <1>1. n \in Nat
    BY FS_CardinalityType
  <1>2. ASSUME NEW x \in S
        PROVE  IsFiniteSet(below(x)) /\ Cardinality(below(x)) \in Nat /\ Cardinality(below(x)) <= n - 1
    <2>1. IsFiniteSet(S \ {x}) /\ Cardinality(S \ {x}) = n - 1
      BY FS_RemoveElement
    <2>2. below(x) \subseteq S \ {x}
      BY DEF Orders
    <2> HIDE DEF below, n
    <2> QED BY <2>1, <2>2, FS_Subset, FS_CardinalityType
  <1>3. \A x \in S : rank[x] \in 1 .. n
    <2> HIDE DEF below, n
    <2> QED BY <1>1, <1>2
  <1>4. ASSUME NEW x \in S, NEW y \in S, <<x, y>> \in R PROVE rank[x] < rank[y]
    <2>1. below(x) \cup {x} \subseteq below(y) /\ x \notin below(x)
      BY <1>4 DEF Orders
    <2> HIDE DEF below
    <2>2. Cardinality(below(x) \cup {x}) = Cardinality(below(x)) + 1
      BY <1>2, <2>1, FS_AddElement
    <2>3. Cardinality(below(x) \cup {x}) <= Cardinality(below(y))
      BY <1>2, <2>1, FS_Subset
    <2> QED BY <1>2, <2>2, <2>3
  <1>5. \A x, y \in S : rank[x] = rank[y] => x = y
    <2> SUFFICES ASSUME NEW x \in S, NEW y \in S, rank[x] = rank[y], x # y PROVE FALSE
      OBVIOUS
    <2>1. <<x, y>> \in R \/ <<y, x>> \in R
      BY DEF Orders
    <2> HIDE DEF rank, n
    <2>2. rank[x] \in Int /\ rank[y] \in Int
      BY <1>1, <1>3
    <2> QED BY <1>4, <2>1, <2>2
  <1>6. rank \in [S -> 1 .. n]
    BY <1>3
  <1> HIDE DEF rank
  <1>7. rank \in Injection(S, 1 .. n)
    BY <1>5, <1>6 DEF Injection, IsInjective
  <1>8. IsFiniteSet(1 .. n) /\ Cardinality(1 .. n) = n
    BY <1>1, FS_Interval
  <1>9. rank \in Surjection(S, 1 .. n)
    BY <1>7, <1>8, FS_Injection
  <1>10. \A i \in 1 .. n : \E x \in S : rank[x] = i
    BY <1>9 DEF Surjection
  <1> DEFINE s == [i \in 1 .. n |-> CHOOSE x \in S : rank[x] = i]
  <1>11. \A i \in 1 .. n : s[i] \in S /\ rank[s[i]] = i
    BY <1>10
  <1>12. s \in [1 .. n -> S]
    BY <1>11
  <1> HIDE DEF s
  <1>13. ASSUME NEW i \in 1 .. n, NEW j \in 1 .. n, i < j PROVE <<s[i], s[j]>> \in R
    <2>1. s[i] \in S /\ s[j] \in S /\ rank[s[i]] = i /\ rank[s[j]] = j
      BY <1>11
    <2>2. s[i] # s[j]
      BY <1>1, <1>13, <2>1
    <2>3. <<s[j], s[i]>> \notin R
      <3> SUFFICES ASSUME <<s[j], s[i]>> \in R PROVE FALSE
        OBVIOUS
      <3>1. j < i
        BY <1>4, <2>1
      <3> QED BY <1>1, <1>13, <3>1
    <2> QED BY <2>1, <2>2, <2>3 DEF Orders
  <1>14. Sorted(s, R, S)
    BY <1>12, <1>13 DEF Sorted
  <1> QED BY <1>14

\* A sorted enumeration has every element, and each of them once.
LEMMA SortedAll ==
    ASSUME NEW S, IsFiniteSet(S), NEW R, Orders(R, S), NEW s, Sorted(s, R, S)
    PROVE  /\ s \in Seq(S) /\ Len(s) = Cardinality(S)
           /\ \A x \in S : \E i \in 1 .. Len(s) : s[i] = x
           /\ \A i, j \in 1 .. Len(s) : s[i] = s[j] => i = j
  <1> DEFINE n == Cardinality(S)
  <1>1. n \in Nat
    BY FS_CardinalityType
  <1>2. s \in [1 .. n -> S]
    BY DEF Sorted
  <1>3. \A i, j \in 1 .. n : i < j => <<s[i], s[j]>> \in R
    BY DEF Sorted
  <1> HIDE DEF n
  <1>4. s \in Seq(S) /\ Len(s) = n
    BY <1>1, <1>2
  <1>5. \A i, j \in 1 .. n : s[i] = s[j] => i = j
    <2> SUFFICES ASSUME NEW i \in 1 .. n, NEW j \in 1 .. n, s[i] = s[j], i # j PROVE FALSE
      OBVIOUS
    <2>1. i < j \/ j < i
      BY <1>1
    <2>2. s[i] \in S /\ <<s[i], s[i]>> \notin R
      BY <1>2 DEF Orders
    <2> QED BY <1>3, <2>1, <2>2
  <1>6. s \in Injection(1 .. n, S)
    BY <1>2, <1>5 DEF Injection, IsInjective
  <1>7. Cardinality(1 .. n) = Cardinality(S) /\ IsFiniteSet(1 .. n)
    BY <1>1, FS_Interval DEF n
  <1>8. s \in Surjection(1 .. n, S)
    BY <1>6, <1>7, FS_Injection
  <1>9. \A x \in S : \E i \in 1 .. n : s[i] = x
    BY <1>8 DEF Surjection
  <1> QED BY <1>4, <1>5, <1>9 DEF n

\* InHashOrder lists the vertices of a round, each once.
LEMMA HashOrder ==
    ASSUME NEW S \in SUBSET Vertex, \A u, v \in S : u.round = v.round
    PROVE  /\ InHashOrder(S) \in Seq(S)
           /\ \A x \in S : \E i \in 1 .. Len(InHashOrder(S)) : InHashOrder(S)[i] = x
           /\ \A i, j \in 1 .. Len(InHashOrder(S)) : InHashOrder(S)[i] = InHashOrder(S)[j] => i = j
  <1> DEFINE R == {p \in S \X S : HashBefore(p[1], p[2])}
             s == InHashOrder(S)
  <1>1. IsFiniteSet(S)
    BY DagAssumption, FS_Subset
  <1>2. \A u, v \in S : <<u, v>> \in R <=> HashBefore(u, v)
    OBVIOUS
  <1>3. Orders(R, S)
    <2> HIDE DEF R
    <2> QED BY <1>2, HashAssumption DEF Orders
  <1> HIDE DEF R
  <1>4. \A f \in [1 .. Cardinality(S) -> S] :
           Sorted(f, R, S) <=> \A i, j \in 1 .. Cardinality(S) : i < j => HashBefore(f[i], f[j])
    BY <1>2 DEF Sorted
  <1>5. \E f \in [1 .. Cardinality(S) -> S] :
           \A i, j \in 1 .. Cardinality(S) : i < j => HashBefore(f[i], f[j])
    <2>1. PICK f : Sorted(f, R, S)
      BY <1>1, <1>3, SortExists
    <2>2. f \in [1 .. Cardinality(S) -> S]
      BY <2>1 DEF Sorted
    <2> QED BY <1>4, <2>1, <2>2
  <1>6. /\ s \in [1 .. Cardinality(S) -> S]
        /\ \A i, j \in 1 .. Cardinality(S) : i < j => HashBefore(s[i], s[j])
    BY <1>5, Zenon DEF InHashOrder
  <1> HIDE DEF s
  <1>7. Sorted(s, R, S)
    BY <1>4, <1>6
  <1>8. /\ s \in Seq(S) /\ Len(s) = Cardinality(S)
        /\ \A x \in S : \E i \in 1 .. Len(s) : s[i] = x
        /\ \A i, j \in 1 .. Len(s) : s[i] = s[j] => i = j
    BY <1>1, <1>3, <1>7, SortedAll
  <1> QED BY <1>8 DEF s

\* InWaveOrder lists checkpoints whose anchors are of different rounds, upwards.
LEMMA WaveOrder ==
    ASSUME NEW S, IsFiniteSet(S), \A c \in S : c[1].round \in Nat,
           \A c, d \in S : c[1].round = d[1].round => c = d
    PROVE  /\ InWaveOrder(S) \in Seq(S)
           /\ \A i, j \in 1 .. Len(InWaveOrder(S)) :
                 i < j => InWaveOrder(S)[i][1].round < InWaveOrder(S)[j][1].round
  <1> DEFINE R == {p \in S \X S : p[1][1].round < p[2][1].round}
             s == InWaveOrder(S)
  <1>1. \A u, v \in S : <<u, v>> \in R <=> u[1].round < v[1].round
    OBVIOUS
  <1>2. Orders(R, S)
    <2> HIDE DEF R
    <2>1. \A u \in S : <<u, u>> \notin R
      BY <1>1
    <2>2. ASSUME NEW u \in S, NEW v \in S, NEW w \in S, <<u, v>> \in R, <<v, w>> \in R
          PROVE  <<u, w>> \in R
      BY <1>1, <2>2
    <2>3. ASSUME NEW u \in S, NEW v \in S PROVE u = v \/ <<u, v>> \in R \/ <<v, u>> \in R
      BY <1>1
    <2> QED BY <2>1, <2>2, <2>3 DEF Orders
  <1> HIDE DEF R
  <1>3. \A f \in [1 .. Cardinality(S) -> S] :
           Sorted(f, R, S) <=> \A i, j \in 1 .. Cardinality(S) : i < j => f[i][1].round < f[j][1].round
    BY <1>1 DEF Sorted
  <1>4. \E f \in [1 .. Cardinality(S) -> S] :
           \A i, j \in 1 .. Cardinality(S) : i < j => f[i][1].round < f[j][1].round
    <2>1. PICK f : Sorted(f, R, S)
      BY <1>2, SortExists
    <2>2. f \in [1 .. Cardinality(S) -> S]
      BY <2>1 DEF Sorted
    <2> QED BY <1>3, <2>1, <2>2
  <1>5. /\ s \in [1 .. Cardinality(S) -> S]
        /\ \A i, j \in 1 .. Cardinality(S) : i < j => s[i][1].round < s[j][1].round
    BY <1>4, Zenon DEF InWaveOrder
  <1> HIDE DEF s
  <1>6. s \in Seq(S) /\ Len(s) = Cardinality(S)
    BY <1>5, FS_CardinalityType
  <1>7. \A i, j \in 1 .. Len(s) : i < j => s[i][1].round < s[j][1].round
    BY <1>5, <1>6
  <1> QED BY <1>6, <1>7 DEF s

-----------------------------------------------------------------------------
(***************************************************************************)
(* Paths.  The operators of Bullshark that read the DAG, as operators of   *)
(* the DAG ps: it never changes.                                           *)
(***************************************************************************)

LayersIn(ps, v, D) ==
    LET layer[k \in Nat] == IF k = 0 THEN ps[v] ELSE UNION {ps[u] : u \in layer[k - 1] \cap D}
    IN  layer
PastIn(ps, v, D) == UNION {LayersIn(ps, v, D)[k] : k \in 0 .. v.round}

LEMMA LayersSame == ASSUME NEW v, NEW D PROVE Layers(v, D) = LayersIn(parents, v, D)
  BY Zenon DEF Layers, LayersIn

LEMMA PastSame == ASSUME NEW v, NEW D PROVE Past(v, D) = PastIn(parents, v, D)
  BY LayersSame DEF Past, PastIn

LEMMA DagFacts ==
    ASSUME NEW ps \in Dags, NEW v \in Vertex
    PROVE  /\ ps[v] \subseteq Vertex
           /\ v.round \in Nat /\ v.author \in Validator
           /\ \A p \in ps[v] : p.round = v.round - 1
           /\ v.round > 0 => ps[v] # {}
           /\ v.round > 0 /\ v.author \in Correct =>
                 Cardinality(ps[v]) >= 2 * ((Cardinality(Validator) - 1) \div 3) + 1
  BY DagAssumption

\* The recursive function of Layers exists.
LEMMA LayersAre ==
    ASSUME NEW ps \in Dags, NEW v \in Vertex, NEW D
    PROVE  /\ LayersIn(ps, v, D) \in [Nat -> SUBSET Vertex]
           /\ LayersIn(ps, v, D)[0] = ps[v]
           /\ \A k \in Nat : LayersIn(ps, v, D)[k + 1] =
                                UNION {ps[u] : u \in LayersIn(ps, v, D)[k] \cap D}
  <1> DEFINE X == SUBSET Vertex
             G == [p \in Nat \X X |-> UNION {ps[u] : u \in p[2] \cap D}]
             g == LayersIn(ps, v, D)
  <1>1. ps[v] \in X
    BY DagFacts
  <1>2. G \in [Nat \X X -> X]
    <2>1. \A u \in Vertex : ps[u] \subseteq Vertex
      BY DagFacts
    <2>2. \A p \in Nat \X X : UNION {ps[u] : u \in p[2] \cap D} \in X
      BY <2>1
    <2> QED BY <2>2
  <1>3. PICK f \in [Nat -> X] : Recursion(f, ps[v], G)
    <2> HIDE DEF X, G
    <2> QED BY <1>1, <1>2, RecursionExists
  <1>4. f = [k \in Nat |-> IF k = 0 THEN ps[v] ELSE UNION {ps[u] : u \in f[k - 1] \cap D}]
    <2>1. \A k \in Nat : k # 0 => <<k, f[k - 1]>> \in Nat \X X
      BY <1>3
    <2>2. \A k \in Nat : k # 0 => G[<<k, f[k - 1]>>] = UNION {ps[u] : u \in f[k - 1] \cap D}
      BY <2>1
    <2> HIDE DEF G
    <2>3. f = [k \in Nat |-> IF k = 0 THEN ps[v] ELSE G[<<k, f[k - 1]>>]]
      BY <1>3 DEF Recursion
    <2>4. \A k \in Nat : f[k] = IF k = 0 THEN ps[v] ELSE G[<<k, f[k - 1]>>]
      BY <2>3
    <2>5. \A k \in Nat : f[k] = IF k = 0 THEN ps[v] ELSE UNION {ps[u] : u \in f[k - 1] \cap D}
      BY <2>2, <2>4
    <2>6. f = [k \in Nat |-> f[k]]
      BY <1>3
    <2> QED BY <2>5, <2>6
  <1>5. g = [k \in Nat |-> IF k = 0 THEN ps[v] ELSE UNION {ps[u] : u \in g[k - 1] \cap D}]
    BY <1>4, Zenon DEF LayersIn
  <1> HIDE DEF g
  <1>6. g[0] = ps[v]
    BY <1>5
  <1>7. ASSUME NEW k \in Nat PROVE g[k + 1] = UNION {ps[u] : u \in g[k] \cap D}
    <2>1. k + 1 \in Nat /\ k + 1 # 0 /\ (k + 1) - 1 = k
      OBVIOUS
    <2> QED BY <1>5, <2>1
  <1>8. \A k \in Nat : k \in {i \in Nat : g[i] \subseteq Vertex}
    <2> DEFINE T == {i \in Nat : g[i] \subseteq Vertex}
    <2>1. 0 \in T
      BY <1>1, <1>6
    <2>2. ASSUME NEW k \in Nat, k \in T PROVE k + 1 \in T
      <3>1. \A u \in g[k] : ps[u] \subseteq Vertex
        BY <2>2, DagFacts
      <3> QED BY <1>7, <3>1
    <2> HIDE DEF T
    <2>3. \A k \in Nat : k \in T
      BY <2>1, <2>2, AllNumbers
    <2> QED BY <2>3 DEF T
  <1>9. DOMAIN g = Nat /\ g = [k \in Nat |-> g[k]]
    BY <1>5
  <1>10. g \in [Nat -> SUBSET Vertex]
    BY <1>8, <1>9
  <1> QED BY <1>6, <1>7, <1>10 DEF g

\* The k-th layer is k + 1 rounds below v.
LEMMA LayerRounds ==
    ASSUME NEW ps \in Dags, NEW v \in Vertex, NEW D
    PROVE  \A k \in Nat : \A u \in LayersIn(ps, v, D)[k] : u \in Vertex /\ u.round = v.round - 1 - k
  <1> DEFINE L == LayersIn(ps, v, D)
             T == {k \in Nat : \A u \in L[k] : u.round = v.round - 1 - k}
  <1>1. /\ L \in [Nat -> SUBSET Vertex] /\ L[0] = ps[v]
        /\ \A k \in Nat : L[k + 1] = UNION {ps[u] : u \in L[k] \cap D}
    BY LayersAre
  <1> HIDE DEF L
  <1>2. 0 \in T
    BY <1>1, DagFacts
  <1>3. ASSUME NEW k \in Nat, k \in T PROVE k + 1 \in T
    <2> SUFFICES ASSUME NEW u \in L[k + 1] PROVE u.round = v.round - 1 - (k + 1)
      OBVIOUS
    <2>1. PICK w \in L[k] : u \in ps[w]
      BY <1>1
    <2>2. w \in Vertex /\ w.round = v.round - 1 - k
      BY <1>1, <1>3
    <2>3. u.round = w.round - 1 /\ w.round \in Nat /\ v.round \in Nat
      BY <2>1, <2>2, DagFacts
    <2> QED BY <2>2, <2>3
  <1>4. \A k \in Nat : k \in T
    <2> HIDE DEF T
    <2> QED BY <1>2, <1>3, AllNumbers
  <1>5. \A k \in Nat : L[k] \subseteq Vertex
    BY <1>1
  <1> QED BY <1>4, <1>5 DEF L

\* The rounds are natural numbers, so all paths have been followed after v.round steps.
LEMMA PastIs ==
    ASSUME NEW ps \in Dags, NEW v \in Vertex, NEW D, NEW u
    PROVE  u \in PastIn(ps, v, D) <=> \E k \in Nat : u \in LayersIn(ps, v, D)[k]
  <1> DEFINE L == LayersIn(ps, v, D)
  <1>1. v.round \in Nat
    BY DagFacts
  <1>2. PastIn(ps, v, D) = UNION {L[k] : k \in 0 .. v.round}
    BY DEF PastIn
  <1>3. \A k \in Nat : \A w \in L[k] : w \in Vertex /\ w.round = v.round - 1 - k
    BY LayerRounds
  <1> HIDE DEF L
  <1>4. ASSUME NEW k \in Nat, u \in L[k] PROVE u \in PastIn(ps, v, D)
    <2>1. u.round \in Nat /\ u.round = v.round - 1 - k
      BY <1>3, <1>4, DagFacts
    <2>2. k \in 0 .. v.round
      BY <1>1, <2>1
    <2> QED BY <1>2, <1>4, <2>2
  <1>5. ASSUME u \in PastIn(ps, v, D) PROVE \E k \in Nat : u \in L[k]
    BY <1>1, <1>2, <1>5
  <1> QED BY <1>4, <1>5 DEF L

\* More vertices to follow, more paths.
LEMMA PastGrows ==
    ASSUME NEW ps \in Dags, NEW v \in Vertex, NEW D, NEW E, D \subseteq E
    PROVE  PastIn(ps, v, D) \subseteq PastIn(ps, v, E)
  <1> DEFINE L == LayersIn(ps, v, D)
             M == LayersIn(ps, v, E)
             T == {k \in Nat : L[k] \subseteq M[k]}
  <1>1. L[0] = ps[v] /\ \A k \in Nat : L[k + 1] = UNION {ps[u] : u \in L[k] \cap D}
    BY LayersAre
  <1>2. M[0] = ps[v] /\ \A k \in Nat : M[k + 1] = UNION {ps[u] : u \in M[k] \cap E}
    BY LayersAre
  <1>3. \A u : u \in PastIn(ps, v, D) <=> \E k \in Nat : u \in L[k]
    BY PastIs
  <1>4. \A u : u \in PastIn(ps, v, E) <=> \E k \in Nat : u \in M[k]
    BY PastIs
  <1> HIDE DEF L, M
  <1>5. 0 \in T
    BY <1>1, <1>2
  <1>6. ASSUME NEW k \in Nat, k \in T PROVE k + 1 \in T
    <2>1. L[k] \cap D \subseteq M[k] \cap E
      BY <1>6
    <2>2. L[k + 1] \subseteq M[k + 1]
      BY <1>1, <1>2, <2>1
    <2> QED BY <2>2
  <1>7. \A k \in Nat : k \in T
    <2> HIDE DEF T
    <2> QED BY <1>5, <1>6, AllNumbers
  <1> QED BY <1>3, <1>4, <1>7

\* A path from a parent is a path.
LEMMA PastThrough ==
    ASSUME NEW ps \in Dags, NEW v \in Vertex, NEW p \in ps[v], NEW u, u = p \/ u \in PastIn(ps, p, Vertex)
    PROVE  u \in PastIn(ps, v, Vertex)
  <1> DEFINE L == LayersIn(ps, v, Vertex)
             M == LayersIn(ps, p, Vertex)
             T == {k \in Nat : M[k] \subseteq L[k + 1]}
  <1>0. p \in Vertex
    BY DagFacts
  <1>1. /\ L \in [Nat -> SUBSET Vertex] /\ L[0] = ps[v]
        /\ \A k \in Nat : L[k + 1] = UNION {ps[w] : w \in L[k] \cap Vertex}
    BY LayersAre
  <1>2. /\ M \in [Nat -> SUBSET Vertex] /\ M[0] = ps[p]
        /\ \A k \in Nat : M[k + 1] = UNION {ps[w] : w \in M[k] \cap Vertex}
    BY <1>0, LayersAre
  <1>3. \A w : w \in PastIn(ps, v, Vertex) <=> \E k \in Nat : w \in L[k]
    BY PastIs
  <1>4. \A w : w \in PastIn(ps, p, Vertex) <=> \E k \in Nat : w \in M[k]
    BY <1>0, PastIs
  <1> HIDE DEF L, M
  <1>5. 0 \in T
    <2>1. M[0] \subseteq L[0 + 1]
      BY <1>0, <1>1, <1>2
    <2> QED BY <2>1
  <1>6. ASSUME NEW k \in Nat, k \in T PROVE k + 1 \in T
    <2>1. M[k] \subseteq L[k + 1] /\ k + 1 \in Nat
      BY <1>6
    <2>2. M[k + 1] \subseteq L[(k + 1) + 1]
      BY <1>1, <1>2, <2>1
    <2> QED BY <2>2
  <1>7. \A k \in Nat : k \in T
    <2> HIDE DEF T
    <2> QED BY <1>5, <1>6, AllNumbers
  <1>8. CASE u = p
    BY <1>1, <1>3, <1>8
  <1>9. CASE u \in PastIn(ps, p, Vertex)
    <2>1. PICK k \in Nat : u \in M[k]
      BY <1>4, <1>9
    <2>2. u \in L[k + 1] /\ k + 1 \in Nat
      BY <1>7, <2>1
    <2> QED BY <1>3, <2>2
  <1> QED BY <1>8, <1>9

-----------------------------------------------------------------------------
(***************************************************************************)
(* What the shortcut commits.                                              *)
(***************************************************************************)

SupportersIn(ps, a, window, D) ==
    {v.author : v \in {u \in D : /\ u.round \in a.round + 1 .. a.round + window
                                 /\ u = a \/ a \in PastIn(ps, u, D)}}

LEMMA SupportersSame ==
    ASSUME NEW a, NEW window, NEW D
    PROVE  count_supporters(a, window, D) = SupportersIn(parents, a, window, D)
  BY PastSame DEF count_supporters, SupportersIn, vertex_reaches

\* A vertex is its round and its author.
LEMMA OneVertex ==
    ASSUME NEW u \in Vertex, NEW v \in Vertex, u.round = v.round, u.author = v.author
    PROVE  u = v
  BY DagAssumption

\* As many authors as vertices in a round.
LEMMA AuthorsOfRound ==
    ASSUME NEW S \in SUBSET Vertex, \A u, v \in S : u.round = v.round
    PROVE  /\ {v.author : v \in S} \subseteq Validator
           /\ Cardinality({v.author : v \in S}) = Cardinality(S)
  <1> DEFINE B == {v.author : v \in S}
             h == [v \in S |-> v.author]
  <1>1. IsFiniteSet(S)
    BY DagAssumption, FS_Subset
  <1>2. B \subseteq Validator
    BY DagAssumption
  <1>3. h \in [S -> B] /\ \A b \in B : \E v \in S : h[v] = b
    OBVIOUS
  <1>4. \A u, v \in S : h[u] = h[v] => u = v
    BY OneVertex
  <1> HIDE DEF h, B
  <1>5. h \in Surjection(S, B) /\ h \in Injection(S, B)
    BY <1>3, <1>4 DEF Surjection, Injection, IsInjective
  <1>6. Cardinality(B) = Cardinality(S)
    BY <1>1, <1>5, FS_Surjection
  <1> QED BY <1>2, <1>6 DEF B

\* At most f of the validators may list one parent for many.
FewOthers(f) == Cardinality(Validator) = 3 * f + 1 /\ Cardinality(Validator \ Correct) <= f

\* 2f + 1 parents of an author that runs this code, one of them of such an author.
LEMMA CorrectParents ==
    ASSUME NEW ps \in Dags, NEW f \in Nat, FewOthers(f),
           NEW v \in Vertex, v.author \in Correct, v.round > 0
    PROVE  /\ Cardinality({p.author : p \in ps[v]}) >= 2 * f + 1
           /\ {p.author : p \in ps[v]} \subseteq Validator
           /\ \E p \in ps[v] : p.author \in Correct
  <1> DEFINE B == {p.author : p \in ps[v]}
  <1>1. /\ IsFiniteSet(Validator) /\ (Cardinality(Validator) - 1) \div 3 = f
        /\ Cardinality(Validator \ Correct) <= f
    BY ParameterAssumption DEF FewOthers
  <1>2. ps[v] \subseteq Vertex /\ (\A p \in ps[v] : p.round = v.round - 1) /\ Cardinality(ps[v]) >= 2 * f + 1
    BY <1>1, DagFacts
  <1>3. B \subseteq Validator /\ Cardinality(B) = Cardinality(ps[v])
    BY <1>2, AuthorsOfRound
  <1>4. \A b \in B : \E p \in ps[v] : p.author = b
    OBVIOUS
  <1>5. ~(B \subseteq Validator \ Correct)
    <2> HIDE DEF B
    <2> SUFFICES ASSUME B \subseteq Validator \ Correct PROVE FALSE
      OBVIOUS
    <2>1. IsFiniteSet(Validator \ Correct)
      BY <1>1, FS_Subset
    <2>2. Cardinality(B) <= Cardinality(Validator \ Correct) /\ Cardinality(Validator \ Correct) \in Nat
      BY <2>1, FS_Subset, FS_CardinalityType
    <2>3. Cardinality(B) \in Nat
      BY <2>1, FS_Subset, FS_CardinalityType
    <2> QED BY <1>1, <1>2, <1>3, <2>2, <2>3
  <1> QED BY <1>2, <1>3, <1>4, <1>5

\* A vertex with paths from f + 1 authors of one round is in the past of every
\* vertex above that round whose author runs this code: the 2f + 1 parents of the
\* next round meet the f + 1, and further up one of 2f + 1 parents is of such an
\* author again.
LEMMA ManyPathsStay ==
    ASSUME NEW ps \in Dags, NEW a \in Vertex, NEW f \in Nat, FewOthers(f), NEW r \in Nat,
           Cardinality({u.author : u \in {x \in Vertex : x.round = r /\ a \in PastIn(ps, x, Vertex)}}) >= f + 1
    PROVE  \A v \in Vertex : v.author \in Correct /\ v.round > r => a \in PastIn(ps, v, Vertex)
  <1> DEFINE U == {x \in Vertex : x.round = r /\ a \in PastIn(ps, x, Vertex)}
             A == {u.author : u \in U}
             T == {k \in Nat : \A v \in Vertex : v.author \in Correct /\ v.round = r + 1 + k
                                                 => a \in PastIn(ps, v, Vertex)}
  <1>1. U \subseteq Vertex /\ (\A u \in U : u.round = r /\ a \in PastIn(ps, u, Vertex))
    OBVIOUS
  <1>2. A \subseteq Validator /\ Cardinality(A) >= f + 1
    BY DagAssumption
  <1>3. \A b \in A : \E u \in U : u.author = b
    OBVIOUS
  <1>4. IsFiniteSet(Validator) /\ Cardinality(Validator) = 3 * f + 1
    BY ParameterAssumption DEF FewOthers
  <1> HIDE DEF U, A
  <1>5. 0 \in T
    <2> SUFFICES ASSUME NEW v \in Vertex, v.author \in Correct, v.round = r + 1 + 0
                 PROVE  a \in PastIn(ps, v, Vertex)
      OBVIOUS
    <2> DEFINE B == {p.author : p \in ps[v]}
    <2>1. ps[v] \subseteq Vertex /\ (\A p \in ps[v] : p.round = r)
      BY DagFacts
    <2>r. v.round > 0
      OBVIOUS
    <2>2. B \subseteq Validator /\ Cardinality(B) >= 2 * f + 1
      BY <2>r, CorrectParents
    <2>3. \A b \in B : \E p \in ps[v] : p.author = b
      OBVIOUS
    <2>4. IsFiniteSet(A) /\ IsFiniteSet(B) /\ Cardinality(A) \in Nat /\ Cardinality(B) \in Nat
      <3> HIDE DEF B
      <3> QED BY <1>2, <1>4, <2>2, FS_Subset, FS_CardinalityType
    <2> HIDE DEF B
    <2>5. A \cap B # {}
      <3>1. Cardinality(A) + Cardinality(B) > Cardinality(Validator)
        BY <1>2, <1>4, <2>2, <2>4
      <3> QED BY <1>2, <1>4, <2>2, <3>1, FS_MajoritiesIntersect
    <2>6. PICK u \in U, p \in ps[v] : u.author = p.author
      BY <1>3, <2>3, <2>5
    <2>7. u = p
      BY <1>1, <2>1, <2>6, OneVertex
    <2>8. a \in PastIn(ps, p, Vertex)
      BY <1>1, <2>7
    <2> QED BY <2>6, <2>8, PastThrough
  <1>6. ASSUME NEW k \in Nat, k \in T PROVE k + 1 \in T
    <2> SUFFICES ASSUME NEW v \in Vertex, v.author \in Correct, v.round = r + 1 + (k + 1)
                 PROVE  a \in PastIn(ps, v, Vertex)
      OBVIOUS
    <2>1. ps[v] \subseteq Vertex /\ (\A p \in ps[v] : p.round = r + 1 + k)
      BY DagFacts
    <2>r. v.round > 0
      OBVIOUS
    <2>3. PICK p \in ps[v] : p.author \in Correct
      BY <2>r, CorrectParents
    <2>4. a \in PastIn(ps, p, Vertex)
      BY <1>6, <2>1, <2>3
    <2> QED BY <2>4, PastThrough
  <1>7. \A k \in Nat : k \in T
    <2> HIDE DEF T
    <2> QED BY <1>5, <1>6, AllNumbers
  <1> SUFFICES ASSUME NEW v \in Vertex, v.author \in Correct, v.round > r
               PROVE  a \in PastIn(ps, v, Vertex)
    OBVIOUS
  <1>8. v.round - r - 1 \in Nat /\ v.round = r + 1 + (v.round - r - 1)
    BY DagFacts
  <1> QED BY <1>7, <1>8

\* 2f + 1 authors in at most two rounds are f + 1 in one of them.
LEMMA SupportStays ==
    ASSUME NEW ps \in Dags, NEW a \in Vertex, NEW f \in Nat, FewOthers(f),
           Shortcut <= 2, Cardinality(SupportersIn(ps, a, Shortcut, Vertex)) >= 2 * f + 1
    PROVE  \A v \in Vertex : v.author \in Correct /\ v.round > a.round + Shortcut
                             => a \in PastIn(ps, v, Vertex)
  <1> DEFINE U(r) == {x \in Vertex : x.round = r /\ a \in PastIn(ps, x, Vertex)}
             A(r) == {u.author : u \in U(r)}
             S == SupportersIn(ps, a, Shortcut, Vertex)
             r1 == a.round + 1
             r2 == a.round + 2
  <1>1. a.round \in Nat /\ Shortcut \in {1, 2}
    BY DagFacts, ParameterAssumption
  <1>2. \A s \in S : \E u \in Vertex : /\ u.author = s /\ u.round \in a.round + 1 .. a.round + Shortcut
                                       /\ a \in PastIn(ps, u, Vertex)
    <2> SUFFICES ASSUME NEW s \in S
                 PROVE  \E u \in Vertex : /\ u.author = s /\ u.round \in a.round + 1 .. a.round + Shortcut
                                          /\ a \in PastIn(ps, u, Vertex)
      OBVIOUS
    <2>1. PICK u \in Vertex : /\ u.author = s /\ u.round \in a.round + 1 .. a.round + Shortcut
                              /\ u = a \/ a \in PastIn(ps, u, Vertex)
      BY DEF SupportersIn
    <2>2. u # a
      BY <1>1, <2>1
    <2> QED BY <2>1, <2>2
  <1>3. A(r1) \subseteq Validator /\ A(r2) \subseteq Validator
    BY DagAssumption
  <1>4. /\ S \subseteq A(r1) \cup A(r2)
        /\ Shortcut = 1 => S \subseteq A(r1)
    <2> SUFFICES ASSUME NEW s \in S
                 PROVE  s \in A(r1) \/ (Shortcut = 2 /\ s \in A(r2))
      BY <1>1
    <2>1. PICK u \in Vertex : /\ u.author = s /\ u.round \in a.round + 1 .. a.round + Shortcut
                              /\ a \in PastIn(ps, u, Vertex)
      BY <1>2
    <2>2. u.round = r1 \/ (Shortcut = 2 /\ u.round = r2)
      BY <1>1, <2>1
    <2>3. CASE u.round = r1
      BY <2>1, <2>3
    <2>4. CASE Shortcut = 2 /\ u.round = r2
      BY <2>1, <2>4
    <2> QED BY <2>2, <2>3, <2>4
  <1>5. \E r \in {r1, r2} : /\ Cardinality(A(r)) >= f + 1 /\ r <= a.round + Shortcut
    <2> HIDE DEF A, S
    <2>1. /\ IsFiniteSet(A(r1)) /\ IsFiniteSet(A(r2))
          /\ Cardinality(A(r1)) \in Nat /\ Cardinality(A(r2)) \in Nat
      BY <1>3, ParameterAssumption, FS_Subset, FS_CardinalityType
    <2>2. CASE Shortcut = 1
      <3>1. IsFiniteSet(S) /\ Cardinality(S) \in Nat /\ Cardinality(S) <= Cardinality(A(r1))
        BY <1>4, <2>1, <2>2, FS_Subset, FS_CardinalityType
      <3>2. Cardinality(A(r1)) >= f + 1
        BY <2>1, <3>1 DEF S
      <3> QED BY <1>1, <2>2, <3>2
    <2>3. CASE Shortcut = 2
      <3>1. /\ IsFiniteSet(A(r1) \cup A(r2)) /\ Cardinality(A(r1) \cup A(r2)) \in Nat
            /\ Cardinality(A(r1) \cap A(r2)) \in Nat
        BY <2>1, FS_Union, FS_Intersection, FS_CardinalityType
      <3>2. Cardinality(A(r1) \cup A(r2)) <= Cardinality(A(r1)) + Cardinality(A(r2))
        <4>1. Cardinality(A(r1) \cup A(r2)) =
                  Cardinality(A(r1)) + Cardinality(A(r2)) - Cardinality(A(r1) \cap A(r2))
          BY <2>1, FS_Union
        <4> QED BY <2>1, <3>1, <4>1
      <3>3. Cardinality(S) \in Nat /\ Cardinality(S) <= Cardinality(A(r1) \cup A(r2))
        BY <1>4, <3>1, FS_Subset, FS_CardinalityType
      <3>4. Cardinality(A(r1)) >= f + 1 \/ Cardinality(A(r2)) >= f + 1
        BY <2>1, <3>1, <3>2, <3>3 DEF S
      <3> QED BY <1>1, <2>3, <3>4
    <2> QED BY <1>1, <2>2, <2>3
  <1>6. PICK r \in {r1, r2} : Cardinality(A(r)) >= f + 1 /\ r <= a.round + Shortcut
    BY <1>5
  <1>7. r \in Nat
    BY <1>1
  <1>8. \A v \in Vertex : v.author \in Correct /\ v.round > r => a \in PastIn(ps, v, Vertex)
    BY <1>6, <1>7, ManyPathsStay
  <1>9. \A v \in Vertex : v.round > a.round + Shortcut => v.round > r
    BY <1>1, <1>6, <1>7, DagFacts
  <1> QED BY <1>8, <1>9

-----------------------------------------------------------------------------
(***************************************************************************)
(* Linearization.                                                          *)
(***************************************************************************)

ExpandIn(ps, queue, k, D) ==
    IF k > Len(queue) \/ queue[k] \notin D THEN queue
    ELSE queue \o InHashOrder(ps[queue[k]] \ ToSet(queue))
QueuesIn(ps, a, D) ==
    LET queues[k \in Nat] == IF k = 0 THEN {<<a>>}
                             ELSE {ExpandIn(ps, queue, k, D) : queue \in queues[k - 1]}
    IN  queues
ClosureIn(ps, a, D) == CHOOSE queue \in QueuesIn(ps, a, D)[Cardinality(Vertex)] : TRUE

LEMMA ClosureSame == ASSUME NEW a, NEW D PROVE closure_of_anchor(a, D) = ClosureIn(parents, a, D)
  <1>1. Queues(a, D) = QueuesIn(parents, a, D)
    BY Zenon DEF Queues, QueuesIn, Expand, ExpandIn
  <1> QED BY <1>1 DEF closure_of_anchor, ClosureIn

\* No vertex twice.
Once(s) == \A i, j \in 1 .. Len(s) : s[i] = s[j] => i = j

\* What Expand makes of a queue: it adds the parents of its k-th vertex that were not
\* in it.
Expands(ps, q, k, D, e) ==
    /\ e \in Seq(Vertex) /\ Len(q) <= Len(e)
    /\ \A i \in 1 .. Len(q) : e[i] = q[i]
    /\ Once(q) => Once(e)
    /\ \A i \in 1 .. Len(e) : i > Len(q) => k <= Len(q) /\ q[k] \in D /\ e[i] \in ps[q[k]]
    /\ k <= Len(q) /\ q[k] \in D => \A x \in ps[q[k]] : \E i \in 1 .. Len(e) : e[i] = x

LEMMA ExpandFacts ==
    ASSUME NEW ps \in Dags, NEW q \in Seq(Vertex), NEW k \in Nat \ {0}, NEW D
    PROVE  Expands(ps, q, k, D, ExpandIn(ps, q, k, D))
  <1> DEFINE e == ExpandIn(ps, q, k, D)
  <1>0. Len(q) \in Nat
    OBVIOUS
  <1>1. CASE k > Len(q) \/ q[k] \notin D
    <2>1. e = q
      BY <1>1 DEF ExpandIn
    <2> HIDE DEF e
    <2>2. Expands(ps, q, k, D, e)
      BY <1>0, <1>1, <2>1 DEF Expands
    <2> QED BY <2>2 DEF e
  <1>2. CASE k <= Len(q) /\ q[k] \in D
    <2> DEFINE v == q[k]
               S == ps[v] \ ToSet(q)
               s == InHashOrder(S)
    <2>1. v \in Vertex
      BY <1>2
    <2>2. ps[v] \subseteq Vertex /\ \A u, w \in ps[v] : u.round = w.round
      BY <2>1, DagFacts
    <2>3. S \in SUBSET Vertex /\ \A u, w \in S : u.round = w.round
      BY <2>2
    <2>4. e = q \o s
      BY <1>0, <1>2 DEF ExpandIn
    <2> HIDE DEF e
    <2>5. ToSet(q) = {q[i] : i \in 1 .. Len(q)}
      BY DEF ToSet
    <2>6. /\ \A x \in S : x \in ps[v] /\ \A i \in 1 .. Len(q) : q[i] # x
          /\ \A x \in ps[v] : x \in S \/ \E i \in 1 .. Len(q) : q[i] = x
      BY <2>5
    <2> HIDE DEF v, S
    <2>7. s \in Seq(S) /\ (\A x \in S : \E i \in 1 .. Len(s) : s[i] = x) /\ Once(s)
      BY <2>3, HashOrder DEF Once
    <2> HIDE DEF s
    <2>8. s \in Seq(Vertex) /\ Len(s) \in Nat /\ \A i \in 1 .. Len(s) : s[i] \in S
      BY <2>3, <2>7
    <2>9. e \in Seq(Vertex) /\ Len(e) = Len(q) + Len(s)
      BY <2>4, <2>8
    <2>10. \A i \in 1 .. Len(q) : e[i] = q[i]
      BY <2>4, <2>8
    <2>11. \A i \in 1 .. Len(s) : e[Len(q) + i] = s[i]
      BY <2>4, <2>8
    <2>12. \A i \in 1 .. Len(e) : i > Len(q) => i - Len(q) \in 1 .. Len(s) /\ e[i] = s[i - Len(q)]
      <3> SUFFICES ASSUME NEW i \in 1 .. Len(e), i > Len(q)
                   PROVE  i - Len(q) \in 1 .. Len(s) /\ e[i] = s[i - Len(q)]
        OBVIOUS
      <3>1. i - Len(q) \in 1 .. Len(s) /\ Len(q) + (i - Len(q)) = i
        BY <1>0, <2>8, <2>9
      <3> QED BY <2>11, <3>1
    <2>13. \A i \in 1 .. Len(e) : i > Len(q) => e[i] \in S
      BY <2>8, <2>12
    <2>14. ASSUME Once(q) PROVE Once(e)
      <3> SUFFICES ASSUME NEW i \in 1 .. Len(e), NEW j \in 1 .. Len(e), e[i] = e[j] PROVE i = j
        BY DEF Once
      <3>0. i \in Nat /\ j \in Nat /\ Len(e) \in Nat
        BY <2>9
      <3>1. CASE i <= Len(q) /\ j <= Len(q)
        BY <1>0, <2>10, <2>14, <3>1, <3>0 DEF Once
      <3>2. CASE i > Len(q) /\ j > Len(q)
        <4> DEFINE x == i - Len(q)
                   y == j - Len(q)
        <4>0. x \in 1 .. Len(s) /\ y \in 1 .. Len(s) /\ s[x] = e[i] /\ s[y] = e[j]
          BY <2>12, <3>2
        <4>1. x = y
          <5> HIDE DEF x, y
          <5> QED BY <2>7, <4>0 DEF Once
        <4> QED BY <1>0, <3>0, <4>1
      <3>3. CASE i <= Len(q) /\ j > Len(q)
        <4>1. i \in 1 .. Len(q) /\ e[i] = q[i] /\ e[j] \in S
          BY <1>0, <2>10, <2>13, <3>0, <3>3
        <4> QED BY <2>6, <4>1
      <3>4. CASE i > Len(q) /\ j <= Len(q)
        <4>1. j \in 1 .. Len(q) /\ e[j] = q[j] /\ e[i] \in S
          BY <1>0, <2>10, <2>13, <3>0, <3>4
        <4> QED BY <2>6, <4>1
      <3> QED BY <1>0, <3>0, <3>1, <3>2, <3>3, <3>4
    <2>15. ASSUME NEW x \in ps[v] PROVE \E i \in 1 .. Len(e) : e[i] = x
      <3>1. CASE x \in S
        <4>1. PICK j \in 1 .. Len(s) : s[j] = x
          BY <2>7, <3>1
        <4>2. Len(q) + j \in 1 .. Len(e) /\ e[Len(q) + j] = x
          BY <1>0, <2>8, <2>9, <2>11, <4>1
        <4> QED BY <4>2
      <3>2. CASE \E i \in 1 .. Len(q) : q[i] = x
        BY <1>0, <2>8, <2>9, <2>10, <3>2
      <3> QED BY <2>6, <3>1, <3>2
    <2>16. Len(q) <= Len(e)
      BY <1>0, <2>8, <2>9
    <2>17. Expands(ps, q, k, D, e)
      BY <1>2, <2>6, <2>9, <2>10, <2>13, <2>14, <2>15, <2>16 DEF v, Expands
    <2> QED BY <2>17 DEF e
  <1> QED BY <1>0, <1>1, <1>2

\* The recursive function of Queues exists.
LEMMA QueuesAre ==
    ASSUME NEW ps \in Dags, NEW a \in Vertex, NEW D
    PROVE  /\ QueuesIn(ps, a, D)[0] = {<<a>>}
           /\ \A k \in Nat : QueuesIn(ps, a, D)[k + 1] =
                                {ExpandIn(ps, q, k + 1, D) : q \in QueuesIn(ps, a, D)[k]}
  <1> DEFINE X == SUBSET Seq(Vertex)
             G == [p \in Nat \X X |-> IF p[1] = 0 THEN {} ELSE {ExpandIn(ps, q, p[1], D) : q \in p[2]}]
             g == QueuesIn(ps, a, D)
  <1>1. {<<a>>} \in X
    OBVIOUS
  <1>2. G \in [Nat \X X -> X]
    <2>1. \A q \in Seq(Vertex), k \in Nat \ {0} : ExpandIn(ps, q, k, D) \in Seq(Vertex)
      BY ExpandFacts DEF Expands
    <2>2. ASSUME NEW p \in Nat \X X
          PROVE  (IF p[1] = 0 THEN {} ELSE {ExpandIn(ps, q, p[1], D) : q \in p[2]}) \in X
      <3>1. p[1] \in Nat /\ \A q \in p[2] : q \in Seq(Vertex)
        OBVIOUS
      <3>2. p[1] # 0 => \A q \in p[2] : ExpandIn(ps, q, p[1], D) \in Seq(Vertex)
        BY <2>1, <3>1
      <3> QED BY <3>2
    <2> QED BY <2>2
  <1>3. PICK f \in [Nat -> X] : Recursion(f, {<<a>>}, G)
    <2> HIDE DEF X, G
    <2> QED BY <1>1, <1>2, RecursionExists
  <1>4. f = [k \in Nat |-> IF k = 0 THEN {<<a>>} ELSE {ExpandIn(ps, q, k, D) : q \in f[k - 1]}]
    <2>1. \A k \in Nat : k # 0 => <<k, f[k - 1]>> \in Nat \X X
      BY <1>3
    <2>2. \A k \in Nat : k # 0 => G[<<k, f[k - 1]>>] = {ExpandIn(ps, q, k, D) : q \in f[k - 1]}
      BY <2>1
    <2> HIDE DEF G
    <2>3. f = [k \in Nat |-> IF k = 0 THEN {<<a>>} ELSE G[<<k, f[k - 1]>>]]
      BY <1>3 DEF Recursion
    <2>4. \A k \in Nat : f[k] = IF k = 0 THEN {<<a>>} ELSE G[<<k, f[k - 1]>>]
      BY <2>3
    <2>5. \A k \in Nat : f[k] = IF k = 0 THEN {<<a>>} ELSE {ExpandIn(ps, q, k, D) : q \in f[k - 1]}
      BY <2>2, <2>4
    <2>6. f = [k \in Nat |-> f[k]]
      BY <1>3
    <2> QED BY <2>5, <2>6
  <1>5. g = [k \in Nat |-> IF k = 0 THEN {<<a>>} ELSE {ExpandIn(ps, q, k, D) : q \in g[k - 1]}]
    BY <1>4, Zenon DEF QueuesIn
  <1> HIDE DEF g
  <1>6. g[0] = {<<a>>}
    BY <1>5
  <1>7. ASSUME NEW k \in Nat PROVE g[k + 1] = {ExpandIn(ps, q, k + 1, D) : q \in g[k]}
    <2>1. k + 1 \in Nat /\ k + 1 # 0 /\ (k + 1) - 1 = k
      OBVIOUS
    <2> QED BY <1>5, <2>1
  <1> QED BY <1>6, <1>7 DEF g

\* A queue of vertices that starts with the anchor and has no vertex twice.
Shape(a, q) == q \in Seq(Vertex) /\ Len(q) >= 1 /\ q[1] = a /\ Once(q)

\* All in the history of the anchor, and the first k with their parents.
Inside(ps, a, q) == \A i \in 1 .. Len(q) : q[i] = a \/ q[i] \in PastIn(ps, a, Vertex)
Expanded(ps, q, k) ==
    \A i \in 1 .. Len(q) : i <= k => \A x \in ps[q[i]] : \E j \in 1 .. Len(q) : q[j] = x

\* Whatever vertices can be followed, there is one queue and it has its shape.
LEMMA QueueShape ==
    ASSUME NEW ps \in Dags, NEW a \in Vertex, NEW D
    PROVE  \A k \in Nat : \E q : QueuesIn(ps, a, D)[k] = {q} /\ Shape(a, q)
  <1> DEFINE Q == QueuesIn(ps, a, D)
             T == {k \in Nat : \E q : Q[k] = {q} /\ Shape(a, q)}
  <1>1. Q[0] = {<<a>>} /\ \A k \in Nat : Q[k + 1] = {ExpandIn(ps, q, k + 1, D) : q \in Q[k]}
    BY QueuesAre
  <1> HIDE DEF Q
  <1>2. 0 \in T
    <2>1. Shape(a, <<a>>)
      BY DEF Shape, Once
    <2> QED BY <1>1, <2>1
  <1>3. ASSUME NEW k \in Nat, k \in T PROVE k + 1 \in T
    <2>1. PICK q : Q[k] = {q} /\ Shape(a, q)
      BY <1>3
    <2> DEFINE e == ExpandIn(ps, q, k + 1, D)
    <2>2. Q[k + 1] = {e}
      BY <1>1, <2>1
    <2>3. q \in Seq(Vertex) /\ k + 1 \in Nat \ {0}
      BY <2>1 DEF Shape
    <2>4. /\ e \in Seq(Vertex) /\ Len(q) <= Len(e)
          /\ \A i \in 1 .. Len(q) : e[i] = q[i]
          /\ Once(q) => Once(e)
      <3>1. Expands(ps, q, k + 1, D, e)
        BY <2>3, ExpandFacts
      <3> QED BY <3>1 DEF Expands
    <2> HIDE DEF e
    <2>5. Shape(a, e)
      <3>1. Len(q) \in Nat /\ Len(e) \in Nat /\ 1 \in 1 .. Len(q)
        BY <2>1, <2>3, <2>4 DEF Shape
      <3> QED BY <2>1, <2>4, <3>1 DEF Shape
    <2> QED BY <2>2, <2>5
  <1>4. \A k \in Nat : k \in T
    <2> HIDE DEF T
    <2> QED BY <1>2, <1>3, AllNumbers
  <1> QED BY <1>4 DEF Q

LEMMA ClosureShape ==
    ASSUME NEW ps \in Dags, NEW a \in Vertex, NEW D
    PROVE  Shape(a, ClosureIn(ps, a, D))
  <1>1. Cardinality(Vertex) \in Nat
    BY DagAssumption, FS_CardinalityType
  <1>2. PICK q : QueuesIn(ps, a, D)[Cardinality(Vertex)] = {q} /\ Shape(a, q)
    BY <1>1, QueueShape
  <1>3. ClosureIn(ps, a, D) = q
    BY <1>2 DEF ClosureIn
  <1> QED BY <1>2, <1>3

\* When every vertex can be followed, the queue stays in the history of the anchor,
\* and its first k vertices have their parents in it.
LEMMA QueueWhole ==
    ASSUME NEW ps \in Dags, NEW a \in Vertex
    PROVE  \A k \in Nat : \E q : /\ QueuesIn(ps, a, Vertex)[k] = {q} /\ Shape(a, q)
                                 /\ Inside(ps, a, q) /\ Expanded(ps, q, k)
  <1> DEFINE Q == QueuesIn(ps, a, Vertex)
             T == {k \in Nat : \E q : Q[k] = {q} /\ Inside(ps, a, q) /\ Expanded(ps, q, k)}
  <1>1. Q[0] = {<<a>>} /\ \A k \in Nat : Q[k + 1] = {ExpandIn(ps, q, k + 1, Vertex) : q \in Q[k]}
    BY QueuesAre
  <1>2. \A k \in Nat : \E q : Q[k] = {q} /\ Shape(a, q)
    BY QueueShape
  <1> HIDE DEF Q
  <1>3. 0 \in T
    <2>1. Inside(ps, a, <<a>>) /\ Expanded(ps, <<a>>, 0)
      BY DEF Inside, Expanded
    <2> QED BY <1>1, <2>1
  <1>4. ASSUME NEW k \in Nat, k \in T PROVE k + 1 \in T
    <2>1. PICK q : Q[k] = {q} /\ Inside(ps, a, q) /\ Expanded(ps, q, k)
      BY <1>4
    <2>2. Shape(a, q)
      BY <1>2, <2>1
    <2> DEFINE e == ExpandIn(ps, q, k + 1, Vertex)
               m == k + 1
    <2>3. Q[k + 1] = {e}
      BY <1>1, <2>1
    <2>4. m \in Nat \ {0} /\ q \in Seq(Vertex)
      BY <2>2 DEF Shape
    <2>5. /\ e \in Seq(Vertex) /\ Len(q) <= Len(e)
          /\ \A i \in 1 .. Len(q) : e[i] = q[i]
          /\ \A i \in 1 .. Len(e) : i > Len(q) => m <= Len(q) /\ q[m] \in Vertex /\ e[i] \in ps[q[m]]
          /\ m <= Len(q) /\ q[m] \in Vertex => \A x \in ps[q[m]] : \E i \in 1 .. Len(e) : e[i] = x
      <3>1. Expands(ps, q, m, Vertex, e)
        BY <2>4, ExpandFacts
      <3> HIDE DEF m, e
      <3> QED BY <3>1 DEF Expands
    <2> HIDE DEF e
    <2>6. Len(q) \in Nat /\ Len(e) \in Nat
      BY <2>4, <2>5
    <2>7. Inside(ps, a, e)
      <3> SUFFICES ASSUME NEW i \in 1 .. Len(e) PROVE e[i] = a \/ e[i] \in PastIn(ps, a, Vertex)
        BY DEF Inside
      <3>1. CASE i <= Len(q)
        BY <2>1, <2>5, <2>6, <3>1 DEF Inside
      <3>2. CASE i > Len(q)
        <4>1. m \in 1 .. Len(q) /\ q[m] \in Vertex /\ e[i] \in ps[q[m]]
          BY <2>4, <2>5, <2>6, <3>2
        <4>2. q[m] = a \/ q[m] \in PastIn(ps, a, Vertex)
          <5> HIDE DEF m
          <5> QED BY <2>1, <4>1 DEF Inside
        <4>3. \E l \in Nat : e[i] \in LayersIn(ps, a, Vertex)[l]
          <5> DEFINE L == LayersIn(ps, a, Vertex)
          <5>1. /\ L \in [Nat -> SUBSET Vertex] /\ L[0] = ps[a]
                /\ \A l \in Nat : L[l + 1] = UNION {ps[u] : u \in L[l] \cap Vertex}
            BY LayersAre
          <5>2. q[m] \in PastIn(ps, a, Vertex) => \E l \in Nat : q[m] \in L[l]
            BY PastIs
          <5> SUFFICES \E l \in Nat : e[i] \in L[l]
            OBVIOUS
          <5> HIDE DEF L, m
          <5>3. CASE q[m] = a
            BY <4>1, <5>1, <5>3
          <5>4. CASE q[m] \in PastIn(ps, a, Vertex)
            <6>1. PICK l \in Nat : q[m] \in L[l]
              BY <5>2, <5>4
            <6>2. e[i] \in L[l + 1] /\ l + 1 \in Nat
              BY <4>1, <5>1, <6>1
            <6> QED BY <6>2
          <5> QED BY <4>2, <5>3, <5>4
        <4> QED BY <4>3, PastIs
      <3> QED BY <2>6, <3>1, <3>2
    <2>8. Expanded(ps, e, m)
      <3> SUFFICES ASSUME NEW i \in 1 .. Len(e), i <= m, NEW x \in ps[e[i]]
                   PROVE  \E j \in 1 .. Len(e) : e[j] = x
        BY DEF Expanded
      <3>1. i <= Len(q)
        <4> SUFFICES ASSUME i > Len(q) PROVE FALSE
          BY <2>6
        <4>1. m <= Len(q)
          BY <2>5
        <4> QED BY <2>4, <2>6, <4>1
      <3>2. i \in 1 .. Len(q) /\ e[i] = q[i]
        BY <2>5, <2>6, <3>1
      <3>3. CASE i <= k
        <4>1. PICK j \in 1 .. Len(q) : q[j] = x
          BY <2>1, <3>2, <3>3 DEF Expanded
        <4>2. j \in 1 .. Len(e) /\ e[j] = x
          BY <2>5, <2>6, <4>1
        <4> QED BY <4>2
      <3>4. CASE i = m
        <4>1. q[m] \in Vertex /\ m <= Len(q)
          BY <2>4, <3>2, <3>4
        <4> QED BY <2>5, <3>2, <3>4, <4>1
      <3> QED BY <3>3, <3>4
    <2> QED BY <2>3, <2>7, <2>8
  <1>5. \A k \in Nat : k \in T
    <2> HIDE DEF T
    <2> QED BY <1>3, <1>4, AllNumbers
  <1>6. ASSUME NEW k \in Nat
        PROVE  \E q : Q[k] = {q} /\ Shape(a, q) /\ Inside(ps, a, q) /\ Expanded(ps, q, k)
    <2>1. PICK q : Q[k] = {q} /\ Inside(ps, a, q) /\ Expanded(ps, q, k)
      BY <1>5
    <2>2. PICK p : Q[k] = {p} /\ Shape(a, p)
      BY <1>2
    <2>3. p = q
      BY <2>1, <2>2
    <2> QED BY <2>1, <2>2, <2>3
  <1> QED BY <1>6 DEF Q

\* The linearization of the whole DAG from a has a and all it has a path to: after
\* as many vertices as there are, all of the queue have been taken.
LEMMA ClosureWhole ==
    ASSUME NEW ps \in Dags, NEW a \in Vertex
    PROVE  ToSet(ClosureIn(ps, a, Vertex)) = {a} \cup PastIn(ps, a, Vertex)
  <1> DEFINE n == Cardinality(Vertex)
             L == LayersIn(ps, a, Vertex)
  <1>1. n \in Nat
    BY DagAssumption, FS_CardinalityType
  <1>2. PICK q : /\ QueuesIn(ps, a, Vertex)[n] = {q} /\ Shape(a, q)
                 /\ Inside(ps, a, q) /\ Expanded(ps, q, n)
    BY <1>1, QueueWhole
  <1>3. ClosureIn(ps, a, Vertex) = q
    BY <1>2 DEF ClosureIn
  <1>4. q \in Seq(Vertex) /\ Len(q) \in Nat /\ Len(q) >= 1 /\ q[1] = a
    BY <1>2 DEF Shape
  <1>5. Len(q) <= n
    <2>1. q \in [1 .. Len(q) -> Vertex] /\ \A i, j \in 1 .. Len(q) : q[i] = q[j] => i = j
      BY <1>2, <1>4 DEF Shape, Once
    <2>2. q \in Injection(1 .. Len(q), Vertex)
      BY <2>1 DEF Injection, IsInjective
    <2>3. Cardinality(1 .. Len(q)) = Len(q)
      BY <1>4, FS_Interval
    <2>4. Cardinality(1 .. Len(q)) <= Cardinality(Vertex)
      BY <2>2, DagAssumption, FS_Injection
    <2> QED BY <2>3, <2>4
  <1>6. ToSet(q) = {q[i] : i \in 1 .. Len(q)}
    BY <1>4 DEF ToSet
  <1>7. \A v \in ToSet(q) : \A x \in ps[v] : x \in ToSet(q)
    <2> HIDE DEF n
    <2>1. \A i \in 1 .. Len(q) : i <= n
      BY <1>1, <1>4, <1>5
    <2> QED BY <1>2, <1>6, <2>1 DEF Expanded
  <1>8. a \in ToSet(q)
    BY <1>4, <1>6
  <1>9. ToSet(q) \subseteq {a} \cup PastIn(ps, a, Vertex)
    BY <1>2, <1>6 DEF Inside
  <1>10. L[0] = ps[a] /\ \A k \in Nat : L[k + 1] = UNION {ps[u] : u \in L[k] \cap Vertex}
    BY LayersAre
  <1>11. \A u : u \in PastIn(ps, a, Vertex) => \E k \in Nat : u \in L[k]
    BY PastIs
  <1> HIDE DEF L, n
  <1>12. \A k \in Nat : L[k] \subseteq ToSet(q)
    <2> DEFINE T == {k \in Nat : L[k] \subseteq ToSet(q)}
    <2>1. 0 \in T
      BY <1>7, <1>8, <1>10
    <2>2. ASSUME NEW k \in Nat, k \in T PROVE k + 1 \in T
      <3>1. \A u \in L[k] : ps[u] \subseteq ToSet(q)
        BY <1>7, <2>2
      <3>2. L[k + 1] \subseteq ToSet(q)
        BY <1>10, <3>1
      <3> QED BY <3>2
    <2>3. \A k \in Nat : k \in T
      <3> HIDE DEF T
      <3> QED BY <2>1, <2>2, AllNumbers
    <2> QED BY <2>3
  <1>13. PastIn(ps, a, Vertex) \subseteq ToSet(q)
    BY <1>11, <1>12
  <1> QED BY <1>3, <1>8, <1>9, <1>13

\* No vertex of D has a parent that is not in D.
Causal(ps, D) == D \subseteq Vertex /\ \A v \in D : ps[v] \subseteq D

\* A causally closed part of the DAG gives the linearization of the whole.
LEMMA ClosureCausal ==
    ASSUME NEW ps \in Dags, NEW D, Causal(ps, D), NEW a \in D
    PROVE  ClosureIn(ps, a, D) = ClosureIn(ps, a, Vertex)
  <1> DEFINE P == QueuesIn(ps, a, D)
             Q == QueuesIn(ps, a, Vertex)
             T == {k \in Nat : P[k] = Q[k] /\ \A q \in P[k] : \A i \in 1 .. Len(q) : q[i] \in D}
  <1>0. a \in Vertex
    BY DEF Causal
  <1>1. P[0] = {<<a>>} /\ \A k \in Nat : P[k + 1] = {ExpandIn(ps, q, k + 1, D) : q \in P[k]}
    BY <1>0, QueuesAre
  <1>2. Q[0] = {<<a>>} /\ \A k \in Nat : Q[k + 1] = {ExpandIn(ps, q, k + 1, Vertex) : q \in Q[k]}
    BY <1>0, QueuesAre
  <1>3. \A k \in Nat : \E q : P[k] = {q} /\ Shape(a, q)
    BY <1>0, QueueShape
  <1> HIDE DEF P, Q
  <1>4. 0 \in T
    <2>1. \A i \in 1 .. Len(<<a>>) : <<a>>[i] \in D
      OBVIOUS
    <2> QED BY <1>1, <1>2, <2>1
  <1>5. ASSUME NEW k \in Nat, k \in T PROVE k + 1 \in T
    <2> DEFINE m == k + 1
    <2>1. PICK q : P[k] = {q} /\ Shape(a, q)
      BY <1>3
    <2>2. Q[k] = {q} /\ \A i \in 1 .. Len(q) : q[i] \in D
      BY <1>5, <2>1
    <2>3. q \in Seq(Vertex) /\ Len(q) \in Nat /\ m \in Nat \ {0}
      BY <2>1 DEF Shape
    <2>4. P[m] = {ExpandIn(ps, q, m, D)} /\ Q[m] = {ExpandIn(ps, q, m, Vertex)}
      BY <1>1, <1>2, <2>1, <2>2
    <2> HIDE DEF m
    <2>5. m > Len(q) \/ (q[m] \in D /\ q[m] \in Vertex)
      BY <2>2, <2>3 DEF Causal
    <2>6. ExpandIn(ps, q, m, D) = ExpandIn(ps, q, m, Vertex)
      BY <2>5 DEF ExpandIn
    <2> DEFINE e == ExpandIn(ps, q, m, D)
    <2>7. Expands(ps, q, m, D, e)
      BY <2>3, ExpandFacts
    <2> HIDE DEF e
    <2>8. ASSUME NEW i \in 1 .. Len(e) PROVE e[i] \in D
      <3>1. CASE i <= Len(q)
        BY <2>2, <2>3, <2>7, <3>1 DEF Expands
      <3>2. CASE i > Len(q)
        <4>1. q[m] \in D /\ e[i] \in ps[q[m]]
          BY <2>7, <3>2 DEF Expands
        <4> QED BY <4>1 DEF Causal
      <3>3. Len(e) \in Nat
        BY <2>7 DEF Expands
      <3> QED BY <2>3, <3>1, <3>2, <3>3
    <2>9. P[m] = Q[m] /\ \A p \in P[m] : \A i \in 1 .. Len(p) : p[i] \in D
      BY <2>4, <2>6, <2>8 DEF e
    <2> QED BY <2>3, <2>9 DEF m
  <1>6. \A k \in Nat : k \in T
    <2> HIDE DEF T
    <2> QED BY <1>4, <1>5, AllNumbers
  <1>7. Cardinality(Vertex) \in Nat
    BY DagAssumption, FS_CardinalityType
  <1>8. P[Cardinality(Vertex)] = Q[Cardinality(Vertex)]
    BY <1>6, <1>7
  <1> QED BY <1>8 DEF ClosureIn, P, Q

-----------------------------------------------------------------------------
(***************************************************************************)
(* The inductive invariant.                                                *)
(***************************************************************************)

\* What the shortcut has committed has its supporters in the DAG.
ShortcutsBacked ==
    \A n \in Honest : \A d \in decisions[n] :
        d.path = "Shortcut" => Cardinality(SupportersIn(parents, d.anchor, Shortcut, Vertex)) >= need

\* When nothing is overtaken, a validator has the parents of the vertices it has, and
\* has emitted linearizations of the whole DAG.
EmittedWhole(n) ==
    /\ Causal(parents, dag[n])
    /\ \A c \in ToSet(emitted[n]) : c[1] \in Vertex /\ c = ClosureIn(parents, c[1], Vertex)

\* A decision is on an anchor of its wave, and the checkpoints have been emitted for
\* decisions, each for another one.
EmittedByWave(n) ==
    /\ \A d \in decisions[n] : d.anchor.round = first_round(d.wave)
    /\ \A i \in 1 .. Len(emitted[n]) : \E d \in decisions[n] : emitted[n][i][1] = d.anchor
    /\ \A i, j \in 1 .. Len(emitted[n]) :
          emitted[n][i][1].round = emitted[n][j][1].round => i = j

OrderInv == /\ TypeOK
            /\ OneDecisionPerWave
            /\ ShortcutsBacked
            /\ \A n \in Honest : EmittedByWave(n)
            /\ Late = {} => \A n \in Honest : EmittedWhole(n)

LEMMA OrderInit == Init => OrderInv
  <1> SUFFICES ASSUME Init PROVE OrderInv
    OBVIOUS
  <1>1. \A n \in Honest : /\ dag[n] = {} /\ decisions[n] = {} /\ slow_timer[n] = {}
                          /\ emitted[n] = << >> /\ committed_waves(n) = {}
    BY DEF Init, committed_waves
  <1>2. TypeOK
    BY <1>1, ParameterAssumption DEF Init, TypeOK
  <1>3. ToSet(<< >>) = {}
    BY DEF ToSet
  <1>4. \A n \in Honest : EmittedWhole(n)
    BY <1>1, <1>3 DEF EmittedWhole, Causal
  <1>5. \A n \in Honest : EmittedByWave(n)
    BY <1>1 DEF EmittedByWave
  <1> QED BY <1>1, <1>2, <1>4, <1>5 DEF OrderInv, OneDecisionPerWave, ShortcutsBacked

\* A wave is a natural number, and its first round tells which.
LEMMA WaveFacts ==
    ASSUME NEW w \in Nat
    PROVE  /\ of_round(first_round(w)) = w
           /\ \A x \in Nat : first_round(w) = first_round(x) => w = x
  BY DEF of_round, first_round

LEMMA WavesNat == Wave \subseteq Nat
  <1>1. \A v \in Vertex : v.round \in Nat
    BY DagAssumption
  <1>2. \A r \in Nat : of_round(r) \in Nat
    BY DEF of_round
  <1> QED BY <1>1, <1>2 DEF Wave

\* The anchor of a wave is one vertex, and its wave is one of those there are.
LEMMA AnchorFacts ==
    ASSUME NEW n, NEW D \in SUBSET Vertex, NEW w \in Nat, NEW a \in Anchor(n, D, w)
    PROVE  /\ a \in D /\ a \in Vertex /\ a.round = first_round(w) /\ w \in Wave
           /\ \A b \in Anchor(n, D, w) : b = a
  <1>1. a \in D /\ a \in Vertex /\ a.round = first_round(w)
    BY DEF Anchor
  <1>2. w \in Wave
    BY <1>1, WaveFacts DEF Wave
  <1>3. \A b \in Anchor(n, D, w) : b = a
    BY OneVertex DEF Anchor
  <1> QED BY <1>1, <1>2, <1>3

\* What is known of the decisions ds that are taken on the vertices D.
Decides(ds, D) ==
    /\ ds \subseteq CommitDecision
    /\ \A d \in ds : /\ d.anchor \in D /\ d.anchor.round = first_round(d.wave)
                     /\ d.path = "Shortcut" => Supported(d.anchor, Shortcut, D)
    /\ \A d, e \in ds : d.wave = e.wave => d = e

TryAll(n, D, U, t) == UNION {try_commit_wave(n, D, w, t) : w \in U}

\* An evaluation of some waves decides on each of them at most once: a wave has one
\* anchor, which commits on one of the two paths.
LEMMA TryFacts ==
    ASSUME NEW n, NEW D \in SUBSET Vertex, NEW U \in SUBSET Nat, NEW t
    PROVE  Decides(TryAll(n, D, U, t), D) /\ \A d \in TryAll(n, D, U, t) : d.wave \in U
  <1> DEFINE ds == TryAll(n, D, U, t)
  <1>1. ASSUME NEW w \in U, NEW d \in try_commit_wave(n, D, w, t)
        PROVE  /\ d = [wave |-> w, path |-> d.path, anchor |-> d.anchor]
               /\ d.anchor \in Anchor(n, D, w) /\ d.wave = w
               /\ \/ d.path = "Shortcut" /\ Supported(d.anchor, Shortcut, D)
                  \/ d.path = "SlowPath" /\ ~Supported(d.anchor, Shortcut, D)
    BY DEF try_commit_wave
  <1>2. \A d \in ds : \E w \in U : d \in try_commit_wave(n, D, w, t)
    BY DEF TryAll
  <1> HIDE DEF ds
  <1>3. ASSUME NEW d \in ds
        PROVE  /\ d \in CommitDecision /\ d.wave \in U
               /\ d.anchor \in D /\ d.anchor.round = first_round(d.wave)
               /\ d.path = "Shortcut" => Supported(d.anchor, Shortcut, D)
    <2>1. PICK w \in U : d \in try_commit_wave(n, D, w, t)
      BY <1>2
    <2>2. d = [wave |-> w, path |-> d.path, anchor |-> d.anchor] /\ d.wave = w
      BY <1>1, <2>1
    <2>3. /\ d.anchor \in D /\ d.anchor \in Vertex /\ d.anchor.round = first_round(w) /\ w \in Wave
      BY <1>1, <2>1, AnchorFacts
    <2>4. d.path \in {"Shortcut", "SlowPath"} /\ (d.path = "Shortcut" => Supported(d.anchor, Shortcut, D))
      BY <1>1, <2>1
    <2>5. d \in CommitDecision
      BY <2>2, <2>3, <2>4 DEF CommitDecision
    <2> QED BY <2>2, <2>3, <2>4, <2>5
  <1>4. ASSUME NEW d \in ds, NEW e \in ds, d.wave = e.wave PROVE d = e
    <2>1. PICK w \in U : d \in try_commit_wave(n, D, w, t)
      BY <1>2
    <2>2. PICK x \in U : e \in try_commit_wave(n, D, x, t)
      BY <1>2
    <2>3. w = x
      BY <1>1, <1>4, <2>1, <2>2
    <2>4. d.anchor = e.anchor
      <3>1. d.anchor \in Anchor(n, D, w) /\ e.anchor \in Anchor(n, D, w)
        BY <1>1, <2>1, <2>2, <2>3
      <3> QED BY <3>1, AnchorFacts
    <2>5. d.path = e.path
      BY <1>1, <2>1, <2>2, <2>3, <2>4
    <2>6. /\ d = [wave |-> w, path |-> d.path, anchor |-> d.anchor]
          /\ e = [wave |-> w, path |-> e.path, anchor |-> e.anchor]
      BY <1>1, <2>1, <2>2, <2>3
    <2> QED BY <2>4, <2>5, <2>6
  <1>5. Decides(ds, D) /\ \A d \in ds : d.wave \in U
    BY <1>3, <1>4 DEF Decides
  <1> QED BY <1>5 DEF ds

\* Checkpoints of decisions ds, each of another wave.
FollowsDecisions(s, ds) ==
    /\ \A i \in 1 .. Len(s) : \E d \in ds : s[i][1] = d.anchor
    /\ \A i, j \in 1 .. Len(s) : s[i][1].round = s[j][1].round => i = j

\* What is emitted are linearizations of D from anchors in D: the decisions are of
\* different waves, so that they can be put in the order of the waves.
LEMMA NewFacts ==
    ASSUME parents \in Dags, NEW n, NEW D \in SUBSET Vertex, NEW ds, Decides(ds, D)
    PROVE  /\ NewMicroQcs(n, ds, D) \in Seq(Seq(Vertex))
           /\ \A c \in ToSet(NewMicroQcs(n, ds, D)) : \E a \in D : c = ClosureIn(parents, a, D)
           /\ FollowsDecisions(NewMicroQcs(n, ds, D), ds)
  <1> DEFINE cl(d) == closure_of_anchor(d.anchor, D)
             S == {c \in {cl(d) : d \in ds} : ~contains(n, c) /\ try_finalize(c, D)}
             s == InWaveOrder(S)
             h == [a \in D |-> ClosureIn(parents, a, D)]
             H == {h[a] : a \in D}
  <1>1. NewMicroQcs(n, ds, D) = s
    BY DEF NewMicroQcs
  <1>2. \A d \in ds : /\ cl(d) = ClosureIn(parents, d.anchor, D)
                      /\ d.anchor \in D /\ d.anchor \in Vertex
                      /\ d.wave \in Nat /\ d.anchor.round = first_round(d.wave)
    BY ClosureSame, WavesNat DEF Decides, CommitDecision
  <1>3. \A c \in S : \E d \in ds : c = cl(d)
    OBVIOUS
  <1> HIDE DEF cl, S
  <1>4. ASSUME NEW c \in S
        PROVE  \E d \in ds : /\ c = cl(d) /\ Shape(d.anchor, c) /\ c[1] = d.anchor
                             /\ c = ClosureIn(parents, d.anchor, D)
    <2>1. PICK d \in ds : c = cl(d)
      BY <1>3
    <2>2. Shape(d.anchor, c)
      BY <1>2, <2>1, ClosureShape
    <2> QED BY <1>2, <2>1, <2>2 DEF Shape
  <1>5. IsFiniteSet(S)
    <2>1. h \in Surjection(D, H)
      BY DEF Surjection
    <2>2. IsFiniteSet(D)
      BY DagAssumption, FS_Subset
    <2>3. S \subseteq H
      <3> SUFFICES ASSUME NEW c \in S PROVE c \in H
        OBVIOUS
      <3>1. PICK d \in ds : c = ClosureIn(parents, d.anchor, D)
        BY <1>4
      <3>2. d.anchor \in D /\ h[d.anchor] = c
        BY <1>2, <3>1
      <3> QED BY <3>2
    <2> HIDE DEF h, H
    <2>4. IsFiniteSet(H)
      BY <2>1, <2>2, FS_Surjection
    <2> QED BY <2>3, <2>4, FS_Subset
  <1>6. \A c \in S : c[1].round \in Nat
    BY <1>2, <1>4, DagFacts
  <1>7. ASSUME NEW c \in S, NEW e \in S, c[1].round = e[1].round PROVE c = e
    <2>1. PICK d \in ds : c = cl(d) /\ c[1] = d.anchor
      BY <1>4
    <2>2. PICK x \in ds : e = cl(x) /\ e[1] = x.anchor
      BY <1>4
    <2>3. d.wave = x.wave
      BY <1>2, <1>7, <2>1, <2>2, WaveFacts
    <2>4. d = x
      BY <2>3 DEF Decides
    <2> QED BY <2>1, <2>2, <2>4
  <1>8. s \in Seq(S) /\ \A i, j \in 1 .. Len(s) : i < j => s[i][1].round < s[j][1].round
    BY <1>5, <1>6, <1>7, WaveOrder
  <1> HIDE DEF s
  <1>9. \A c \in S : c \in Seq(Vertex)
    BY <1>4 DEF Shape
  <1>10. s \in Seq(Seq(Vertex))
    BY <1>8, <1>9
  <1>11. ASSUME NEW c \in ToSet(s) PROVE \E a \in D : c = ClosureIn(parents, a, D)
    <2>1. c \in S
      BY <1>8 DEF ToSet
    <2> QED BY <1>2, <1>4, <2>1
  <1>12. FollowsDecisions(s, ds)
    <2>1. \A i \in 1 .. Len(s) : s[i] \in S
      BY <1>8
    <2>2. \A i \in 1 .. Len(s) : \E d \in ds : s[i][1] = d.anchor
      BY <1>4, <2>1
    <2>3. ASSUME NEW i \in 1 .. Len(s), NEW j \in 1 .. Len(s), s[i][1].round = s[j][1].round
          PROVE  i = j
      <3>1. s[i][1].round \in Nat /\ i \in Int /\ j \in Int
        BY <1>6, <2>1
      <3> QED BY <1>8, <2>3, <3>1
    <2> QED BY <2>2, <2>3 DEF FollowsDecisions
  <1> QED BY <1>1, <1>10, <1>11, <1>12

\* Supporters among D support in the whole DAG.
LEMMA SupportGrows ==
    ASSUME parents \in Dags, NEW D \in SUBSET Vertex, NEW a, Supported(a, Shortcut, D)
    PROVE  Cardinality(SupportersIn(parents, a, Shortcut, Vertex)) >= need
  <1> DEFINE S == SupportersIn(parents, a, Shortcut, D)
             W == SupportersIn(parents, a, Shortcut, Vertex)
  <1>1. Cardinality(S) >= need
    BY SupportersSame DEF Supported
  <1>2. \A u \in D : a \in PastIn(parents, u, D) => a \in PastIn(parents, u, Vertex)
    BY PastGrows
  <1>3. S \subseteq W
    BY <1>2 DEF SupportersIn
  <1>4. W \subseteq Validator
    BY DagAssumption DEF SupportersIn
  <1> HIDE DEF S, W
  <1>5. /\ IsFiniteSet(W) /\ Cardinality(W) \in Nat /\ Cardinality(S) \in Nat
        /\ Cardinality(S) <= Cardinality(W)
    BY <1>3, <1>4, ParameterAssumption, FS_Subset, FS_CardinalityType
  <1>6. need \in Int
    BY ParameterAssumption, FS_CardinalityType DEF need
  <1> QED BY <1>1, <1>5, <1>6 DEF W

LEMMA ToSetConcat ==
    ASSUME NEW X, NEW s \in Seq(X), NEW t \in Seq(X), NEW c \in ToSet(s \o t)
    PROVE  c \in ToSet(s) \/ c \in ToSet(t)
  <1>1. PICK i \in 1 .. Len(s \o t) : (s \o t)[i] = c
    BY DEF ToSet
  <1>2. CASE i <= Len(s)
    BY <1>1, <1>2 DEF ToSet
  <1>3. CASE i > Len(s)
    <2>1. i - Len(s) \in 1 .. Len(t) /\ t[i - Len(s)] = c
      BY <1>1, <1>3
    <2> QED BY <2>1 DEF ToSet
  <1> QED BY <1>1, <1>2, <1>3

\* Both handlers: they decide on waves U without a decision, emit what follows, and
\* leave timers Z for other waves.
LEMMA CommitStep ==
    ASSUME OrderInv, NEW n \in Honest, NEW D \in SUBSET Vertex, Late = {} => Causal(parents, D),
           NEW U \in SUBSET Nat, U \cap committed_waves(n) = {},
           NEW ds, Decides(ds, D), \A d \in ds : d.wave \in U,
           NEW Z \in SUBSET Wave, Z \cap (committed_waves(n) \cup {d.wave : d \in ds}) = {},
           dag' = [dag EXCEPT ![n] = D],
           decisions' = [decisions EXCEPT ![n] = @ \cup ds],
           slow_timer' = [slow_timer EXCEPT ![n] = Z],
           emitted' = [emitted EXCEPT ![n] = @ \o NewMicroQcs(n, ds, D)],
           UNCHANGED <<parents, beacon>>
    PROVE  OrderInv'
  <1> DEFINE new == NewMicroQcs(n, ds, D)
  <1>1. /\ parents \in Dags /\ dag \in [Honest -> SUBSET Vertex]
        /\ decisions \in [Honest -> SUBSET CommitDecision] /\ slow_timer \in [Honest -> SUBSET Wave]
        /\ emitted \in [Honest -> Seq(Seq(Vertex))]
        /\ \A m \in Honest : slow_timer[m] \cap committed_waves(m) = {}
    BY DEF OrderInv, TypeOK
  <1>2. /\ new \in Seq(Seq(Vertex))
        /\ \A c \in ToSet(new) : \E a \in D : c = ClosureIn(parents, a, D)
        /\ FollowsDecisions(new, ds)
    BY <1>1, NewFacts
  <1> HIDE DEF new
  <1>3. emitted' = [emitted EXCEPT ![n] = @ \o new]
    BY DEF new
  <1>4. /\ dag'[n] = D /\ decisions'[n] = decisions[n] \cup ds /\ slow_timer'[n] = Z
        /\ emitted'[n] = emitted[n] \o new
        /\ \A m \in Honest : m # n => /\ dag'[m] = dag[m] /\ decisions'[m] = decisions[m]
                                      /\ slow_timer'[m] = slow_timer[m] /\ emitted'[m] = emitted[m]
    BY <1>1, <1>3
  <1>5. ds \subseteq CommitDecision
    BY DEF Decides
  <1>6. TypeOK'
    <2>1. dag' \in [Honest -> SUBSET Vertex] /\ decisions' \in [Honest -> SUBSET CommitDecision]
      BY <1>1, <1>5
    <2>2. slow_timer' \in [Honest -> SUBSET Wave]
      BY <1>1
    <2>3. emitted[n] \o new \in Seq(Seq(Vertex))
      BY <1>1, <1>2
    <2>4. emitted' \in [Honest -> Seq(Seq(Vertex))]
      BY <1>1, <1>3, <2>3
    <2>5. ASSUME NEW m \in Honest PROVE slow_timer'[m] \cap committed_waves(m)' = {}
      <3>1. CASE m = n
        BY <1>4, <3>1 DEF committed_waves
      <3>2. CASE m # n
        BY <1>1, <1>4, <3>2 DEF committed_waves
      <3> QED BY <3>1, <3>2
    <2> QED BY <1>1, <2>1, <2>2, <2>4, <2>5 DEF OrderInv, TypeOK
  <1>7. OneDecisionPerWave'
    <2> SUFFICES ASSUME NEW m \in Honest, NEW d \in decisions'[m], NEW e \in decisions'[m], d.wave = e.wave
                 PROVE  d = e
      BY DEF OneDecisionPerWave
    <2>1. ASSUME NEW x \in decisions[n], NEW y \in ds PROVE x.wave # y.wave
      <3>1. x.wave \in committed_waves(n)
        BY DEF committed_waves
      <3> QED BY <3>1
    <2>2. CASE m = n
      BY <1>4, <2>1, <2>2 DEF OrderInv, OneDecisionPerWave, Decides
    <2>3. CASE m # n
      BY <1>4, <2>3 DEF OrderInv, OneDecisionPerWave
    <2> QED BY <2>2, <2>3
  <1>8. ShortcutsBacked'
    <2> SUFFICES ASSUME NEW m \in Honest, NEW d \in decisions'[m], d.path = "Shortcut"
                 PROVE  Cardinality(SupportersIn(parents, d.anchor, Shortcut, Vertex)) >= need
      BY DEF ShortcutsBacked
    <2>1. CASE d \in decisions[m]
      BY <2>1 DEF OrderInv, ShortcutsBacked
    <2>2. CASE d \notin decisions[m]
      <3>1. d \in ds
        BY <1>4, <2>2
      <3>2. Supported(d.anchor, Shortcut, D)
        BY <3>1 DEF Decides
      <3> QED BY <1>1, <3>2, SupportGrows
    <2> QED BY <2>1, <2>2
  <1>9. ASSUME Late = {}, NEW m \in Honest PROVE EmittedWhole(m)'
    <2>1. EmittedWhole(m)
      BY <1>9 DEF OrderInv
    <2>2. Causal(parents, dag'[m])
      BY <1>4, <1>9, <2>1 DEF EmittedWhole
    <2>3. ASSUME NEW c \in ToSet(emitted'[m])
          PROVE  c[1] \in Vertex /\ c = ClosureIn(parents, c[1], Vertex)
      <3>1. CASE c \in ToSet(emitted[m])
        BY <2>1, <3>1 DEF EmittedWhole
      <3>2. CASE m = n /\ c \in ToSet(new)
        <4>1. PICK a \in D : c = ClosureIn(parents, a, D)
          BY <1>2, <3>2
        <4>2. c = ClosureIn(parents, a, Vertex)
          BY <1>1, <1>9, <4>1, ClosureCausal
        <4>3. Shape(a, c)
          BY <1>1, <4>2, ClosureShape
        <4>4. c[1] = a
          BY <4>3 DEF Shape
        <4> QED BY <4>2, <4>4
      <3>3. emitted[n] \in Seq(Seq(Vertex)) /\ emitted'[n] = emitted[n] \o new
        BY <1>1, <1>4
      <3>4. m = n => c \in ToSet(emitted[n]) \/ c \in ToSet(new)
        BY <1>2, <3>3, ToSetConcat
      <3>5. m # n => c \in ToSet(emitted[m])
        BY <1>4
      <3> QED BY <3>1, <3>2, <3>4, <3>5
    <2> QED BY <2>2, <2>3 DEF EmittedWhole
  <1>10. ASSUME NEW m \in Honest PROVE EmittedByWave(m)'
    <2>1. EmittedByWave(m)
      BY DEF OrderInv
    <2>2. CASE m # n
      BY <1>4, <2>1, <2>2 DEF EmittedByWave
    <2>3. CASE m = n
      <3> DEFINE old == emitted[n]
                 now == emitted'[n]
      <3>1. /\ old \in Seq(Seq(Vertex)) /\ new \in Seq(Seq(Vertex)) /\ now = old \o new
            /\ decisions'[n] = decisions[n] \cup ds
        BY <1>1, <1>2, <1>4
      <3>2. /\ \A i \in 1 .. Len(old) : \E d \in decisions[n] : old[i][1] = d.anchor
            /\ \A i, j \in 1 .. Len(old) : old[i][1].round = old[j][1].round => i = j
        BY <2>1, <2>3 DEF EmittedByWave
      <3>3. /\ \A i \in 1 .. Len(new) : \E d \in ds : new[i][1] = d.anchor
            /\ \A i, j \in 1 .. Len(new) : new[i][1].round = new[j][1].round => i = j
        BY <1>2 DEF FollowsDecisions
      <3>4. /\ \A d \in decisions[n] : d.anchor.round = first_round(d.wave) /\ d.wave \in Nat
            /\ \A d \in ds : d.anchor.round = first_round(d.wave) /\ d.wave \in Nat
        <4>1. \A d \in CommitDecision : d.wave \in Nat
          BY WavesNat DEF CommitDecision
        <4>2. decisions[n] \subseteq CommitDecision
          BY <1>1
        <4>3. \A d \in ds : d.anchor.round = first_round(d.wave)
          BY DEF Decides
        <4>4. \A d \in decisions[n] : d.anchor.round = first_round(d.wave)
          BY <2>1, <2>3 DEF EmittedByWave
        <4> QED BY <1>5, <4>1, <4>2, <4>3, <4>4
      <3>5. ASSUME NEW d \in decisions[n], NEW e \in ds PROVE d.anchor.round # e.anchor.round
        <4>1. d.wave \in committed_waves(n) /\ e.wave \in U
          BY DEF committed_waves
        <4>2. d.wave # e.wave
          BY <4>1
        <4> QED BY <3>4, <4>2, WaveFacts
      <3> HIDE DEF old, now
      <3>6. Len(now) = Len(old) + Len(new) /\ Len(old) \in Nat /\ Len(new) \in Nat
        BY <3>1
      <3>7. ASSUME NEW i \in 1 .. Len(now)
            PROVE  \/ i \in 1 .. Len(old) /\ now[i] = old[i]
                   \/ i - Len(old) \in 1 .. Len(new) /\ now[i] = new[i - Len(old)]
        BY <3>1, <3>6
      <3>8. \A i \in 1 .. Len(now) : \E d \in decisions'[n] : now[i][1] = d.anchor
        <4> SUFFICES ASSUME NEW i \in 1 .. Len(now) PROVE \E d \in decisions[n] \cup ds : now[i][1] = d.anchor
          BY <3>1
        <4>1. CASE i \in 1 .. Len(old) /\ now[i] = old[i]
          BY <3>2, <4>1
        <4>2. CASE i - Len(old) \in 1 .. Len(new) /\ now[i] = new[i - Len(old)]
          BY <3>3, <4>2
        <4> QED BY <3>7, <4>1, <4>2
      <3>9. ASSUME NEW i \in 1 .. Len(now), NEW j \in 1 .. Len(now), now[i][1].round = now[j][1].round
            PROVE  i = j
        <4>1. ASSUME NEW k \in 1 .. Len(old), NEW l \in 1 .. Len(new) PROVE old[k][1].round # new[l][1].round
          <5>1. PICK d \in decisions[n] : old[k][1] = d.anchor
            BY <3>2
          <5>2. PICK e \in ds : new[l][1] = e.anchor
            BY <3>3
          <5> QED BY <3>5, <5>1, <5>2
        <4>2. CASE i \in 1 .. Len(old) /\ now[i] = old[i]
          BY <3>2, <3>7, <3>9, <4>1, <4>2
        <4>3. CASE i - Len(old) \in 1 .. Len(new) /\ now[i] = new[i - Len(old)]
          <5>1. ~(j \in 1 .. Len(old) /\ now[j] = old[j])
            BY <3>9, <4>1, <4>3
          <5>2. j - Len(old) \in 1 .. Len(new) /\ now[j] = new[j - Len(old)]
            BY <3>7, <5>1
          <5>3. i - Len(old) = j - Len(old)
            BY <3>3, <3>9, <4>3, <5>2
          <5> QED BY <3>6, <5>3
        <4> QED BY <3>7, <4>2, <4>3
      <3>10. \A d \in decisions'[n] : d.anchor.round = first_round(d.wave)
        BY <3>1, <3>4
      <3> QED BY <2>3, <3>8, <3>9, <3>10 DEF EmittedByWave, now, first_round
    <2> QED BY <2>2, <2>3
  <1> QED BY <1>6, <1>7, <1>8, <1>9, <1>10 DEF OrderInv

LEMMA OrderNext == OrderInv /\ [Next]_vars => OrderInv'
  <1> SUFFICES ASSUME OrderInv, [Next]_vars PROVE OrderInv'
    OBVIOUS
  <1>1. /\ parents \in Dags /\ dag \in [Honest -> SUBSET Vertex]
        /\ decisions \in [Honest -> SUBSET CommitDecision] /\ slow_timer \in [Honest -> SUBSET Wave]
        /\ \A m \in Honest : slow_timer[m] \cap committed_waves(m) = {}
    BY DEF OrderInv, TypeOK
  <1>2. ASSUME NEW n \in Honest, NEW v \in Vertex, Deliver(n, v) PROVE OrderInv'
    <2> DEFINE D  == dag[n] \cup {v}
               ws == 0 .. of_round(v.round)
               U  == Undecided(n, ws)
               ds == UNION {try_commit_wave(n, D, w, FALSE) : w \in U}
               Z  == Timers(n, ws, ds, D)
    <2>1. D \in SUBSET Vertex
      BY <1>1
    <2>2. Late = {} => Causal(parents, D)
      <3> SUFFICES ASSUME Late = {} PROVE Causal(parents, D)
        OBVIOUS
      <3>1. Causal(parents, dag[n])
        BY DEF OrderInv, EmittedWhole
      <3>2. parents[v] \subseteq dag[n]
        BY <1>2 DEF Deliver
      <3> QED BY <2>1, <3>1, <3>2 DEF Causal
    <2>3. U \in SUBSET Nat /\ U \cap committed_waves(n) = {}
      BY DEF Undecided
    <2>4. /\ dag' = [dag EXCEPT ![n] = D]
          /\ decisions' = [decisions EXCEPT ![n] = @ \cup ds]
          /\ slow_timer' = [slow_timer EXCEPT ![n] = Z]
          /\ emitted' = [emitted EXCEPT ![n] = @ \o NewMicroQcs(n, ds, D)]
          /\ UNCHANGED <<parents, beacon>>
      BY <1>2 DEF Deliver, on_certified_vertex
    <2> HIDE DEF D, U
    <2>5. Decides(ds, D) /\ \A d \in ds : d.wave \in U
      <3>1. ds = TryAll(n, D, U, FALSE)
        BY DEF TryAll
      <3> HIDE DEF ds
      <3> QED BY <2>1, <2>3, <3>1, TryFacts
    <2> HIDE DEF ds
    <2>6. ASSUME NEW w \in Waiting(n, ws, ds, D) PROVE w \in Wave /\ w \notin committed_waves(n)
      <3>1. w \in U /\ Anchor(n, D, w) # {}
        BY <2>6 DEF Waiting, U
      <3> QED BY <2>1, <2>3, <3>1, AnchorFacts
    <2>7. Z \in SUBSET Wave /\ Z \cap (committed_waves(n) \cup {d.wave : d \in ds}) = {}
      BY <1>1, <2>6 DEF Timers
    <2> HIDE DEF Z
    <2> QED BY <2>1, <2>2, <2>3, <2>4, <2>5, <2>7, CommitStep
  <1>3. ASSUME NEW n \in Honest, NEW w \in slow_timer[n], on_timer_fired(n, w) PROVE OrderInv'
    <2> DEFINE D  == dag[n]
               U  == Undecided(n, {w})
               ds == UNION {try_commit_wave(n, D, x, TRUE) : x \in U}
               Z  == slow_timer[n] \ {w}
    <2>1. D \in SUBSET Vertex /\ w \in Wave /\ w \in Nat
      BY <1>1, WavesNat
    <2>2. Late = {} => Causal(parents, D)
      BY DEF OrderInv, EmittedWhole
    <2>3. U \in SUBSET Nat /\ U \subseteq {w} /\ U \cap committed_waves(n) = {}
      BY <2>1 DEF Undecided
    <2>4. /\ dag' = [dag EXCEPT ![n] = D]
          /\ decisions' = [decisions EXCEPT ![n] = @ \cup ds]
          /\ slow_timer' = [slow_timer EXCEPT ![n] = Z]
          /\ emitted' = [emitted EXCEPT ![n] = @ \o NewMicroQcs(n, ds, D)]
          /\ UNCHANGED <<parents, beacon>>
      <3>1. dag = [dag EXCEPT ![n] = dag[n]]
        BY <1>1
      <3> QED BY <1>3, <3>1 DEF on_timer_fired
    <2> HIDE DEF D, U
    <2>5. Decides(ds, D) /\ \A d \in ds : d.wave \in U
      <3>1. ds = TryAll(n, D, U, TRUE)
        BY DEF TryAll
      <3> HIDE DEF ds
      <3> QED BY <2>1, <2>3, <3>1, TryFacts
    <2> HIDE DEF ds
    <2>6. Z \in SUBSET Wave /\ Z \cap (committed_waves(n) \cup {d.wave : d \in ds}) = {}
      BY <1>1, <2>3, <2>5
    <2> HIDE DEF Z
    <2> QED BY <2>1, <2>2, <2>3, <2>4, <2>5, <2>6, CommitStep
  <1>4. ASSUME NEW n \in Honest, adopt_macro_qc(n) PROVE OrderInv'
    <2>1. beacon' \in [Honest -> 0 .. MaxBeacon]
      BY <1>4, ParameterAssumption DEF adopt_macro_qc, OrderInv, TypeOK
    <2>2. UNCHANGED <<parents, dag, decisions, slow_timer, emitted>>
      BY <1>4 DEF adopt_macro_qc
    <2> QED BY <2>1, <2>2 DEF OrderInv, TypeOK, committed_waves, OneDecisionPerWave, ShortcutsBacked,
                              EmittedWhole, EmittedByWave
  <1>5. CASE UNCHANGED vars
    BY <1>5 DEF vars, OrderInv, TypeOK, committed_waves, OneDecisionPerWave, ShortcutsBacked,
                EmittedWhole, EmittedByWave
  <1> QED BY <1>2, <1>3, <1>4, <1>5 DEF Next

LEMMA OrderInvariant == Spec => []OrderInv
  BY OrderInit, OrderNext, PTL DEF Spec

-----------------------------------------------------------------------------
\* The WaveBook of bullshark stays in its domain: decisions and timers are of waves
\* that have an anchor, no timer is left for a wave that has committed, and every
\* checkpoint is a sequence of vertices.
THEOREM TypeCorrect == Spec => []TypeOK
  <1>1. OrderInv => TypeOK
    BY DEF OrderInv
  <1> QED BY <1>1, OrderInvariant, PTL

\* A validator decides on a wave once, whatever order the certificates come in,
\* whenever the timers fire and however the beacon moves the anchor in between.
THEOREM OneDecision == Spec => []OneDecisionPerWave
  <1>1. OrderInv => OneDecisionPerWave
    BY DEF OrderInv
  <1> QED BY <1>1, OrderInvariant, PTL

\* With 3f + 1 validators and a shortcut window of at most two rounds, which is the
\* configured one, an anchor that try_commit_wave commits by the shortcut is in the
\* history of every vertex above the window whose author runs this code, in every DAG
\* that L1 can certify, as long as at most f authors do not: those may get vertices
\* certified that have a single parent.
THEOREM ShortcutFinal ==
    ASSUME NEW f \in Nat, Cardinality(Validator) = 3 * f + 1,
           Cardinality(Validator \ Correct) <= f, Shortcut <= 2
    PROVE  Spec => []ShortcutStaysInHistory
  <1>1. OrderInv => ShortcutStaysInHistory
    <2> SUFFICES ASSUME OrderInv, NEW n \in Honest, NEW d \in decisions[n], NEW v \in Vertex,
                        d.path = "Shortcut", v.author \in Correct,
                        v.round > d.anchor.round + Shortcut
                 PROVE  vertex_reaches(v, d.anchor, Vertex)
      BY DEF ShortcutStaysInHistory
    <2>1. parents \in Dags /\ d \in CommitDecision
      BY DEF OrderInv, TypeOK
    <2>2. d.anchor \in Vertex
      BY <2>1 DEF CommitDecision
    <2>3. need = 2 * f + 1
      BY DEF need
    <2>4. Cardinality(SupportersIn(parents, d.anchor, Shortcut, Vertex)) >= 2 * f + 1
      BY <2>3 DEF OrderInv, ShortcutsBacked
    <2>5. d.anchor \in PastIn(parents, v, Vertex)
      BY <2>1, <2>2, <2>4, SupportStays DEF FewOthers
    <2> QED BY <2>5, PastSame DEF vertex_reaches
  <1> QED BY <1>1, OrderInvariant, PTL

\* When certificates arrive in causal order, every micro checkpoint is what
\* closure_of_anchor makes of the whole DAG: the anchor's complete history, every
\* vertex once.  Two validators that commit an anchor emit the same checkpoint.
THEOREM WholeHistory ==
    ASSUME Late = {}
    PROVE  Spec => []EmitsWholeHistory
  <1>1. OrderInv => EmitsWholeHistory
    <2> SUFFICES ASSUME OrderInv, NEW n \in Honest, NEW c \in ToSet(emitted[n])
                 PROVE  /\ ToSet(c) = {c[1]} \cup Past(c[1], Vertex)
                        /\ IsInjective(c)
                        /\ c = closure_of_anchor(c[1], Vertex)
      BY DEF EmitsWholeHistory
    <2>1. parents \in Dags
      BY DEF OrderInv, TypeOK
    <2>2. c[1] \in Vertex /\ c = ClosureIn(parents, c[1], Vertex)
      BY DEF OrderInv, EmittedWhole
    <2>3. ToSet(c) = {c[1]} \cup PastIn(parents, c[1], Vertex)
      BY <2>1, <2>2, ClosureWhole
    <2>4. Shape(c[1], c)
      BY <2>1, <2>2, ClosureShape
    <2>5. IsInjective(c)
      BY <2>4 DEF Shape, Once, IsInjective
    <2> QED BY <2>2, <2>3, <2>5, PastSame, ClosureSame
  <1> QED BY <1>1, OrderInvariant, PTL

-----------------------------------------------------------------------------
\* A path from a vertex in the history is a path.
LEMMA PastTransitive ==
    ASSUME NEW ps \in Dags, NEW v \in Vertex, NEW a \in Vertex, a \in PastIn(ps, v, Vertex)
    PROVE  PastIn(ps, a, Vertex) \subseteq PastIn(ps, v, Vertex)
  <1> DEFINE L == LayersIn(ps, v, Vertex)
             M == LayersIn(ps, a, Vertex)
  <1>1. \A k \in Nat : L[k + 1] = UNION {ps[w] : w \in L[k] \cap Vertex}
    BY LayersAre
  <1>2. M[0] = ps[a] /\ \A k \in Nat : M[k + 1] = UNION {ps[w] : w \in M[k] \cap Vertex}
    BY LayersAre
  <1>3. \A w : w \in PastIn(ps, v, Vertex) <=> \E k \in Nat : w \in L[k]
    BY PastIs
  <1>4. \A w : w \in PastIn(ps, a, Vertex) <=> \E k \in Nat : w \in M[k]
    BY PastIs
  <1> HIDE DEF L, M
  <1>5. PICK j \in Nat : a \in L[j]
    BY <1>3
  <1> DEFINE T == {k \in Nat : M[k] \subseteq L[j + 1 + k]}
  <1>6. 0 \in T
    <2>1. M[0] \subseteq L[j + 1]
      BY <1>1, <1>2, <1>5
    <2>2. j + 1 + 0 = j + 1
      OBVIOUS
    <2> QED BY <2>1, <2>2
  <1>7. ASSUME NEW k \in Nat, k \in T PROVE k + 1 \in T
    <2>1. M[k] \subseteq L[j + 1 + k] /\ j + 1 + k \in Nat /\ j + 1 + (k + 1) = (j + 1 + k) + 1
      BY <1>7
    <2>2. M[k + 1] \subseteq L[(j + 1 + k) + 1]
      BY <1>1, <1>2, <2>1
    <2> QED BY <2>1, <2>2
  <1>8. \A k \in Nat : k \in T
    <2> HIDE DEF T
    <2> QED BY <1>6, <1>7, AllNumbers
  <1>9. \A k \in Nat : j + 1 + k \in Nat
    OBVIOUS
  <1> QED BY <1>3, <1>4, <1>8, <1>9

\* The checkpoints of any two validators fit together: those of one anchor are the
\* same sequence, and one with a vertex of an author that runs this code above the
\* window of an anchor that some validator committed by the shortcut holds all the
\* vertices of that one's checkpoint.
CheckpointsNest ==
    \A m, n \in Honest : \A c \in ToSet(emitted[m]), e \in ToSet(emitted[n]) :
        /\ c[1] = e[1] => c = e
        /\ \A k \in Honest : \A d \in decisions[k], v \in ToSet(c) :
               (/\ d.path = "Shortcut" /\ d.anchor = e[1]
                /\ v.author \in Correct /\ v.round > d.anchor.round + Shortcut)
                   => ToSet(e) \subseteq ToSet(c)

\* What validators hand to L3 agrees, in causal order of arrival and with 3f + 1
\* validators, at most f of which do not run this code: one checkpoint per anchor,
\* and a shortcut commit of anybody is contained in every checkpoint of everybody
\* that reaches above its window by a vertex of an author that runs this code,
\* although each validator has its own LiveDag and evaluates the waves at its own
\* moments.
THEOREM CheckpointsAgree ==
    ASSUME NEW f \in Nat, Cardinality(Validator) = 3 * f + 1,
           Cardinality(Validator \ Correct) <= f, Shortcut <= 2, Late = {}
    PROVE  Spec => []CheckpointsNest
  <1>1. OrderInv => CheckpointsNest
    <2> SUFFICES ASSUME OrderInv, NEW m \in Honest, NEW n \in Honest,
                        NEW c \in ToSet(emitted[m]), NEW e \in ToSet(emitted[n])
                 PROVE  /\ c[1] = e[1] => c = e
                        /\ \A k \in Honest : \A d \in decisions[k], v \in ToSet(c) :
                               (/\ d.path = "Shortcut" /\ d.anchor = e[1]
                                /\ v.author \in Correct /\ v.round > d.anchor.round + Shortcut)
                                   => ToSet(e) \subseteq ToSet(c)
      BY DEF CheckpointsNest
    <2>1. parents \in Dags
      BY DEF OrderInv, TypeOK
    <2>2. c[1] \in Vertex /\ c = ClosureIn(parents, c[1], Vertex)
      BY DEF OrderInv, EmittedWhole
    <2>3. e[1] \in Vertex /\ e = ClosureIn(parents, e[1], Vertex)
      BY DEF OrderInv, EmittedWhole
    <2>4. ToSet(c) = {c[1]} \cup PastIn(parents, c[1], Vertex)
      BY <2>1, <2>2, ClosureWhole
    <2>5. ToSet(e) = {e[1]} \cup PastIn(parents, e[1], Vertex)
      BY <2>1, <2>3, ClosureWhole
    <2>6. c[1] = e[1] => c = e
      BY <2>2, <2>3
    <2>7. ASSUME NEW k \in Honest, NEW d \in decisions[k], NEW v \in ToSet(c),
                 d.path = "Shortcut", d.anchor = e[1],
                 v.author \in Correct, v.round > d.anchor.round + Shortcut
          PROVE  ToSet(e) \subseteq ToSet(c)
      <3>1. need = 2 * f + 1
        BY DEF need
      <3>2. Cardinality(SupportersIn(parents, d.anchor, Shortcut, Vertex)) >= 2 * f + 1
        BY <2>7, <3>1 DEF OrderInv, ShortcutsBacked
      <3> DEFINE a == e[1]
                 u == c[1]
      <3>3. /\ a \in Vertex /\ u \in Vertex /\ v.round > a.round + Shortcut
            /\ Cardinality(SupportersIn(parents, a, Shortcut, Vertex)) >= 2 * f + 1
        BY <2>2, <2>3, <2>7, <3>2
      <3>4. ToSet(e) = {a} \cup PastIn(parents, a, Vertex) /\ ToSet(c) = {u} \cup PastIn(parents, u, Vertex)
        BY <2>4, <2>5
      <3> HIDE DEF a, u
      <3>5. PastIn(parents, u, Vertex) \subseteq Vertex
        <4>1. \A w \in PastIn(parents, u, Vertex) : \E k_1 \in Nat : w \in LayersIn(parents, u, Vertex)[k_1]
          BY <2>1, <3>3, PastIs
        <4> QED BY <2>1, <3>3, <4>1, LayersAre
      <3>6. v \in Vertex
        BY <3>3, <3>4, <3>5
      <3>7. a \in PastIn(parents, v, Vertex)
        BY <2>1, <2>7, <3>3, <3>6, SupportStays DEF FewOthers
      <3>8. PastIn(parents, a, Vertex) \subseteq PastIn(parents, v, Vertex)
        BY <2>1, <3>3, <3>6, <3>7, PastTransitive
      <3>9. v = u \/ PastIn(parents, v, Vertex) \subseteq PastIn(parents, u, Vertex)
        BY <2>1, <3>3, <3>4, <3>6, PastTransitive
      <3> QED BY <3>4, <3>7, <3>8, <3>9
    <2> QED BY <2>6, <2>7, Zenon
  <1> QED BY <1>1, OrderInvariant, PTL

\* A validator emits one micro checkpoint at most for a wave: two places in what it
\* has emitted belong to different waves.
OneCheckpointPerWave ==
    \A n \in Honest : \A i, j \in 1 .. Len(emitted[n]) :
        of_round(emitted[n][i][1].round) = of_round(emitted[n][j][1].round) => i = j

\* L3 gets a wave from L2 once: whatever order the certificates come in, overtaken
\* vertices included, and however the slow-path timer, the beacon and late evaluations
\* of a wave interleave, try_emit_for_wave never emits two checkpoints for it.  The
\* emitted set alone only tells equal checkpoints; two different ones of a wave are
\* excluded because committed_waves takes a wave out of every later evaluation.
THEOREM OneMicroQcPerWave == Spec => []OneCheckpointPerWave
  <1>1. OrderInv => OneCheckpointPerWave
    <2> SUFFICES ASSUME OrderInv, NEW n \in Honest,
                        NEW i \in 1 .. Len(emitted[n]), NEW j \in 1 .. Len(emitted[n]),
                        of_round(emitted[n][i][1].round) = of_round(emitted[n][j][1].round)
                 PROVE  i = j
      BY DEF OneCheckpointPerWave
    <2>1. EmittedByWave(n) /\ decisions[n] \subseteq CommitDecision
      BY DEF OrderInv, TypeOK
    <2>2. PICK d \in decisions[n] : emitted[n][i][1] = d.anchor
      BY <2>1 DEF EmittedByWave
    <2>3. PICK e \in decisions[n] : emitted[n][j][1] = e.anchor
      BY <2>1 DEF EmittedByWave
    <2>4. /\ d.wave \in Nat /\ d.anchor.round = first_round(d.wave)
          /\ e.wave \in Nat /\ e.anchor.round = first_round(e.wave)
      BY <2>1, WavesNat DEF EmittedByWave, CommitDecision
    <2>5. d.wave = e.wave
      BY <2>2, <2>3, <2>4, WaveFacts
    <2>6. emitted[n][i][1].round = emitted[n][j][1].round
      BY <2>2, <2>3, <2>4, <2>5
    <2> QED BY <2>1, <2>6 DEF EmittedByWave
  <1> QED BY <1>1, OrderInvariant, PTL

=============================================================================
