----------------------------- MODULE AlgorithmProofs -----------------------------
(***************************************************************************)
(* Proofs about two of the algorithms, for any number of vertices and any  *)
(* symmetric graph, and about the tables that algorithms fill.             *)
(*                                                                         *)
(* LowDiameter, for any permutation and shifts: a depth, which no variable *)
(* of the code holds, makes the invariant inductive; it counts the edges   *)
(* from a vertex to its center and is at most the rounds that have passed. *)
(*                                                                         *)
(* RootSets, for any permutation and each of the three orders: the         *)
(* invariant says what a priority still counts while the workers relax the *)
(* edges of a round in any order, and that every set or colour chosen so   *)
(* far follows the greedy rule; as the order has no cycle, one function    *)
(* alone follows it everywhere.                                            *)
(*                                                                         *)
(* HashTables, for any threads, hash function, sizes and pairs: whatever   *)
(* lies in a table or travels has passed every slot on its way, where only *)
(* slots with other elements (in a pbbs table: of higher keys) let it      *)
(* pass, and no element is dropped that the table does not hold.           *)
(***************************************************************************)
EXTENDS LowDiameter, RootSets, HashTables, FunctionTheorems, FiniteSetTheorems,
        SequenceTheorems, WellFoundedInduction, TLAPS

-----------------------------------------------------------------------------
(* Naturals and finite sets.                                               *)

\* A set of naturals that is not empty has a least element.
LEMMA LeastElement ==
  ASSUME NEW S, S \subseteq Nat, S # {}
  PROVE  \E m \in S : \A k \in S : m <= k
<1> DEFINE R == OpToRel(<, Nat)
<1>1. IsWellFoundedOn(R, Nat)
  BY NatLessThanWellFounded
<1>2. \A x, y \in Nat : y < x => <<y, x>> \in R
  BY DEF OpToRel
<1> HIDE DEF R
<1>3. PICK m \in S : \A k \in S : ~(<<k, m>> \in R)
  BY <1>1, WFMin
<1>4. ASSUME NEW k \in S PROVE m <= k
  <2>1. k \in Nat /\ m \in Nat
    OBVIOUS
  <2>2. ~(<<k, m>> \in R)
    BY <1>3
  <2>3. ~(k < m)
    BY <1>2, <2>1, <2>2, Zenon
  <2> QED
    BY <2>1, <2>3
<1> QED
  BY <1>4

\* A set with 0 and the successor of each member holds every natural.
LEMMA SetInduction ==
  ASSUME NEW S, 0 \in S, \A n \in Nat : n \in S => n + 1 \in S
  PROVE  \A n \in Nat : n \in S
<1> SUFFICES ASSUME NEW n \in Nat, n \notin S PROVE FALSE
  OBVIOUS
<1> DEFINE T == {k \in Nat : k \notin S}
<1>1. PICK m \in T : \A k \in T : m <= k
  <2>1. T \subseteq Nat /\ T # {}
    OBVIOUS
  <2> HIDE DEF T
  <2> QED
    BY <2>1, LeastElement
<1>2. m # 0 /\ m - 1 \in Nat
  BY <1>1
<1>3. m - 1 \in S
  BY <1>1, <1>2
<1> QED
  BY <1>1, <1>2, <1>3

\* The lesser of two numbers.
LEMMA LeastOfTwo ==
  ASSUME NEW a \in Nat, NEW b \in Nat
  PROVE  Least({a, b}) = IF a <= b THEN a ELSE b
<1> DEFINE l == IF a <= b THEN a ELSE b
<1>1. l \in {a, b} /\ \A y \in {a, b} : l <= y
  OBVIOUS
<1>2. \A x \in {a, b} : (\A y \in {a, b} : x <= y) => x = l
  OBVIOUS
<1> QED
  BY <1>1, <1>2 DEF Least

\* The vertices, and the sets of some of them, are finite.
LEMMA VerticesFinite ==
  /\ IsFiniteSet(V) /\ Cardinality(V) = N
  /\ \A S \in SUBSET V : /\ IsFiniteSet(S) /\ Cardinality(S) \in 0..N
                         /\ Cardinality(S) = N => S = V
<1>1. IsFiniteSet(V) /\ Cardinality(V) = N
  BY LDDAssumption, FS_Interval, 0 \in Int, N - 1 \in Int DEF V
<1>2. ASSUME NEW S \in SUBSET V
      PROVE  /\ IsFiniteSet(S) /\ Cardinality(S) \in 0..N
             /\ Cardinality(S) = N => S = V
  <2>1. IsFiniteSet(S) /\ Cardinality(S) <= N
    BY <1>1, FS_Subset
  <2>2. Cardinality(S) \in Nat
    BY <2>1, FS_CardinalityType
  <2>3. Cardinality(S) = N => S = V
    BY <1>1, FS_Subset
  <2> QED
    BY <2>1, <2>2, <2>3, LDDAssumption
<1> QED
  BY <1>1, <1>2

\* The sizes of two sets of vertices that share none add up.
LEMMA SizesAdd ==
  ASSUME NEW S \in SUBSET V, NEW T \in SUBSET V, S \cap T = {}
  PROVE  Cardinality(S \cup T) = Cardinality(S) + Cardinality(T)
<1>1. IsFiniteSet(S) /\ IsFiniteSet(T)
  BY VerticesFinite
<1>2. Cardinality(S \cup T) = Cardinality(S) + Cardinality(T) - Cardinality(S \cap T)
  BY <1>1, FS_Union
<1>3. Cardinality(S \cap T) = 0
  BY FS_EmptySet
<1>4. Cardinality(S) \in Nat /\ Cardinality(T) \in Nat
  BY <1>1, FS_CardinalityType
<1> QED
  BY <1>2, <1>3, <1>4

-----------------------------------------------------------------------------
(* Graphs.                                                                 *)

\* A symmetric graph on some numbers holds both pairs of an edge and no loop.
LEMMA SymmetricPairs ==
  ASSUME NEW W \in SUBSET Nat, NEW g \in SymGraphs(W)
  PROVE  /\ g \subseteq W \X W
         /\ \A a, b \in W : <<a, b>> \in g => <<b, a>> \in g /\ a # b
<1>1. PICK E \in SUBSET {e \in W \X W : e[1] < e[2]} : g = Sym(E)
  BY DEF SymGraphs
<1>2. \A e \in g : \E f \in E : e = f \/ e = <<f[2], f[1]>>
  BY <1>1 DEF Sym
<1>3. \A f \in E : f \in W \X W /\ f[1] < f[2] /\ f \in g /\ <<f[2], f[1]>> \in g
  BY <1>1 DEF Sym
<1>4. g \subseteq W \X W
  BY <1>2, <1>3
<1>5. ASSUME NEW a \in W, NEW b \in W, <<a, b>> \in g
      PROVE  <<b, a>> \in g /\ a # b
  <2>1. PICK f \in E : <<a, b>> = f \/ <<a, b>> = <<f[2], f[1]>>
    BY <1>2, <1>5
  <2>2. f \in W \X W /\ f[1] < f[2] /\ f \in g /\ <<f[2], f[1]>> \in g
    BY <1>3
  <2>3. f = <<f[1], f[2]>> /\ f[1] \in W /\ f[2] \in W
    BY <2>2
  <2>4. f[1] \in Nat /\ f[2] \in Nat
    BY <2>3
  <2> QED
    BY <2>1, <2>2, <2>3, <2>4
<1> QED
  BY <1>4, <1>5

\* What a vertex points to.
LEMMA NeighboursAre ==
  ASSUME NEW W, NEW g \in SUBSET (W \X W), NEW a, NEW b
  PROVE  b \in Ngh(g, a) <=> <<a, b>> \in g
<1>1. \A e \in g : e = <<e[1], e[2]>>
  OBVIOUS
<1>2. b \in Ngh(g, a) <=> \E e \in g : e[1] = a /\ e[2] = b
  BY DEF Ngh
<1> QED
  BY <1>1, <1>2

\* The graphs of the decomposition are symmetric.
LEMMA SymmetricGraph ==
  ASSUME NEW g \in SymGraphs(V)
  PROVE  /\ g \subseteq V \X V
         /\ \A a, b \in V : <<a, b>> \in g => <<b, a>> \in g /\ a # b
<1>1. V \in SUBSET Nat
  BY DEF V
<1> QED
  BY <1>1, SymmetricPairs

-----------------------------------------------------------------------------
(* The recursive functions of SmallGraphs.                                 *)

\* f starts at a and applies g from one number to the next.
Iterates(f, A, a, g, n) ==
  f \in [0..n -> A] /\ f[0] = a /\ \A i \in 1..n : f[i] = g[f[i - 1]]

\* There is such a function.
LEMMA IterationExists ==
  ASSUME NEW A, NEW a \in A, NEW g \in [A -> A], NEW n \in Nat
  PROVE  \E f : Iterates(f, A, a, g, n)
<1> DEFINE Ok(m, f) == f \in [0..m -> A] /\ f[0] = a /\ \A i \in 1..m : f[i] = g[f[i - 1]]
           S == {m \in Nat : \E f : Ok(m, f)}
<1>1. 0 \in S
  <2>1. Ok(0, [i \in 0..0 |-> a])
    OBVIOUS
  <2> QED
    BY <2>1
<1>2. ASSUME NEW m \in Nat, m \in S PROVE m + 1 \in S
  <2>1. PICK f : Ok(m, f)
    BY <1>2
  <2>2. f[m] \in A
    BY <2>1
  <2> DEFINE h == [i \in 0..(m + 1) |-> IF i <= m THEN f[i] ELSE g[f[m]]]
  <2>3. h \in [0..(m + 1) -> A]
    BY <2>1, <2>2
  <2>4. h[0] = a
    BY <2>1
  <2>5. ASSUME NEW i \in 1..(m + 1) PROVE h[i] = g[h[i - 1]]
    <3>1. CASE i <= m
      BY <2>1, <3>1
    <3>2. CASE i = m + 1
      BY <2>1, <3>2
    <3> QED
      BY <3>1, <3>2
  <2> HIDE DEF h
  <2>6. Ok(m + 1, h)
    BY <2>3, <2>4, <2>5
  <2> QED
    BY <2>6
<1> HIDE DEF S
<1>3. n \in S
  BY <1>1, <1>2, SetInduction
<1> QED
  BY <1>3 DEF S, Iterates

\* The balls around S, each with what is one edge away from the one before.
Balls(ball, g, S, k) ==
  /\ ball \in [0..k -> SUBSET V] /\ ball[0] = S
  /\ \A i \in 1..k : ball[i] = UNION {{v} \cup Ngh(g, v) : v \in ball[i - 1]}

\* Within is the last of the balls.
LEMMA WithinGrows ==
  ASSUME NEW g \in SUBSET (V \X V), NEW S \in SUBSET V, NEW k \in Nat
  PROVE  \E ball : Balls(ball, g, S, k) /\ Within(g, S, k) = ball[k]
<1> DEFINE Grow(b) == UNION {{v} \cup Ngh(g, v) : v \in b}
           step == [b \in SUBSET V |-> Grow(b)]
           Ball(f) == f = [i \in 0..k |-> IF i = 0 THEN S ELSE Grow(f[i - 1])]
<1>1. ASSUME NEW v \in V, NEW b \in Ngh(g, v) PROVE b \in V
  <2>1. <<v, b>> \in g
    BY NeighboursAre
  <2> QED
    BY <2>1
<1>2. step \in [SUBSET V -> SUBSET V]
  BY <1>1
<1> HIDE DEF Grow, step
<1>3. PICK f \in [0..k -> SUBSET V] : f[0] = S /\ \A i \in 1..k : f[i] = step[f[i - 1]]
  <2>1. \E f : Iterates(f, SUBSET V, S, step, k)
    BY <1>2, IterationExists
  <2> QED
    BY <2>1 DEF Iterates
<1>4. Ball(f)
  <2>1. ASSUME NEW i \in 1..k PROVE f[i] = Grow(f[i - 1])
    <3>1. i - 1 \in 0..k
      OBVIOUS
    <3> QED
      BY <1>3, <3>1 DEF step
  <2>2. ASSUME NEW i \in 0..k PROVE f[i] = IF i = 0 THEN S ELSE Grow(f[i - 1])
    BY <1>3, <2>1
  <2> QED
    BY <2>2
<1>5. Ball(CHOOSE ball : Ball(ball))
  BY <1>4, Zenon
<1>6. ASSUME NEW ball, Ball(ball) PROVE ball = f
  <2> DEFINE T == {i \in Nat : i <= k => ball[i] = f[i]}
  <2>1. DOMAIN ball = 0..k /\ \A i \in 0..k : ball[i] = IF i = 0 THEN S ELSE Grow(ball[i - 1])
    BY <1>6
  <2>2. \A i \in 0..k : f[i] = IF i = 0 THEN S ELSE Grow(f[i - 1])
    BY <1>4
  <2>3. 0 \in T
    <3>1. 0 \in 0..k
      OBVIOUS
    <3>2. ball[0] = S /\ f[0] = S
      BY <2>1, <2>2, <3>1
    <3> QED
      BY <3>2
  <2>4. ASSUME NEW i \in Nat, i \in T PROVE i + 1 \in T
    <3>1. SUFFICES ASSUME i + 1 <= k PROVE ball[i + 1] = f[i + 1]
      OBVIOUS
    <3>2. i + 1 \in 0..k /\ i + 1 # 0 /\ (i + 1) - 1 = i
      BY <3>1
    <3>3. ball[i] = f[i]
      BY <2>4, <3>1
    <3> QED
      BY <2>1, <2>2, <3>2, <3>3
  <2> HIDE DEF T
  <2>5. \A i \in Nat : i \in T
    BY <2>3, <2>4, SetInduction
  <2>6. \A i \in 0..k : ball[i] = f[i]
    BY <2>5 DEF T
  <2>7. ball = [i \in 0..k |-> ball[i]] /\ f = [i \in 0..k |-> f[i]]
    BY <1>6
  <2> QED
    BY <2>6, <2>7
<1>7. Within(g, S, k) = (CHOOSE ball : Ball(ball))[k]
  BY DEF Within, Grow
<1>8. Within(g, S, k) = f[k]
  BY <1>5, <1>6, <1>7
<1>9. \A i \in 1..k : f[i] = Grow(f[i - 1])
  BY <1>4
<1> QED
  BY <1>3, <1>8, <1>9 DEF Grow, Balls

\* Root climbs N times.
LEMMA RootClimbs ==
  ASSUME NEW p \in [V -> V], NEW x \in V
  PROVE  \E climb \in [0..N -> V] :
           climb[0] = x /\ Root(p, x) = climb[N] /\ \A i \in 1..N : climb[i] = p[climb[i - 1]]
<1> DEFINE Climb(f) == f = [k \in 0..N |-> IF k = 0 THEN x ELSE p[f[k - 1]]]
<1>0. N \in Nat
  BY LDDAssumption
<1>1. PICK f \in [0..N -> V] : f[0] = x /\ \A i \in 1..N : f[i] = p[f[i - 1]]
  <2>1. \E f : Iterates(f, V, x, p, N)
    BY <1>0, IterationExists
  <2> QED
    BY <2>1 DEF Iterates
<1>2. Climb(f)
  <2>1. ASSUME NEW i \in 0..N PROVE f[i] = IF i = 0 THEN x ELSE p[f[i - 1]]
    BY <1>0, <1>1
  <2> QED
    BY <2>1
<1>3. Climb(CHOOSE climb : Climb(climb))
  BY <1>2, Zenon
<1>4. ASSUME NEW climb, Climb(climb)
      PROVE  /\ climb \in [0..N -> V] /\ climb[0] = x
             /\ \A i \in 1..N : climb[i] = p[climb[i - 1]]
  <2> DEFINE T == {i \in Nat : i <= N => climb[i] \in V}
  <2>1. \A i \in 0..N : climb[i] = IF i = 0 THEN x ELSE p[climb[i - 1]]
    BY <1>4
  <2>2. 0 \in T
    BY <1>0, <2>1
  <2>3. ASSUME NEW i \in Nat, i \in T PROVE i + 1 \in T
    <3>1. SUFFICES ASSUME i + 1 <= N PROVE climb[i + 1] \in V
      OBVIOUS
    <3>2. i + 1 \in 0..N /\ i + 1 # 0 /\ (i + 1) - 1 = i
      BY <1>0, <3>1
    <3>3. climb[i] \in V
      BY <1>0, <2>3, <3>1
    <3> QED
      BY <2>1, <3>2, <3>3
  <2> HIDE DEF T
  <2>4. \A i \in Nat : i \in T
    BY <2>2, <2>3, SetInduction
  <2>5. \A i \in 0..N : climb[i] \in V
    BY <1>0, <2>4 DEF T
  <2>6. climb = [i \in 0..N |-> climb[i]]
    BY <1>4
  <2>7. climb \in [0..N -> V]
    BY <2>5, <2>6
  <2>8. \A i \in 1..N : i \in 0..N /\ i # 0
    BY <1>0
  <2> QED
    BY <1>0, <2>1, <2>7, <2>8
<1>5. Root(p, x) = (CHOOSE climb : Climb(climb))[N]
  <2>1. Cardinality(DOMAIN p) = N
    BY VerticesFinite
  <2> QED
    BY <2>1 DEF Root
<1> QED
  BY <1>3, <1>4, <1>5

-----------------------------------------------------------------------------
(* Clusters as trees.                                                      *)

\* d is the depth of the vertices W in trees of edges of g that the parents p make,
\* each with the identifier its root has in c.
Depths(g, W, p, c, d) ==
  /\ d \in [V -> Nat]
  /\ \A v \in W : \/ p[v] = v /\ c[v] = v /\ d[v] = 0
                  \/ /\ p[v] \in W /\ <<v, p[v]>> \in g
                     /\ c[v] = c[p[v]] /\ d[v] = d[p[v]] + 1

\* Climbing as far as the depth leads to the identifier.
LEMMA RootIsCenter ==
  ASSUME NEW g, NEW W \in SUBSET V, NEW p, NEW q \in [V -> V], NEW c, NEW d,
         Depths(g, W, p, c, d), \A v \in W : q[v] = p[v],
         NEW x \in W, d[x] <= N
  PROVE  Root(q, x) = c[x]
<1>0. N \in Nat
  BY LDDAssumption
<1>1. PICK climb \in [0..N -> V] :
        climb[0] = x /\ Root(q, x) = climb[N] /\ \A i \in 1..N : climb[i] = q[climb[i - 1]]
  BY RootClimbs
<1> DEFINE T == {i \in Nat : i <= N =>
                   /\ climb[i] \in W /\ c[climb[i]] = c[x]
                   /\ d[climb[i]] = IF i <= d[x] THEN d[x] - i ELSE 0}
<1>2. d \in [V -> Nat]
  BY DEF Depths
<1>3. 0 \in T
  BY <1>1, <1>2
<1>4. ASSUME NEW i \in Nat, i \in T PROVE i + 1 \in T
  <2>1. SUFFICES ASSUME i + 1 <= N
                 PROVE  /\ climb[i + 1] \in W /\ c[climb[i + 1]] = c[x]
                        /\ d[climb[i + 1]] = IF i + 1 <= d[x] THEN d[x] - (i + 1) ELSE 0
    OBVIOUS
  <2>2. i + 1 \in 1..N /\ (i + 1) - 1 = i
    BY <1>0, <2>1
  <2>3. climb[i + 1] = q[climb[i]]
    BY <1>1, <2>2
  <2> DEFINE y == climb[i]
  <2>4. y \in W /\ c[y] = c[x] /\ d[y] = IF i <= d[x] THEN d[x] - i ELSE 0
    BY <1>0, <1>4, <2>1
  <2>5. climb[i + 1] = p[y]
    BY <2>3, <2>4
  <2> HIDE DEF y
  <2>6. d[x] \in Nat /\ d[y] \in Nat
    BY <1>2, <2>4
  <2>7. CASE p[y] = y /\ c[y] = y /\ d[y] = 0
    BY <2>4, <2>5, <2>6, <2>7
  <2>8. CASE p[y] \in W /\ c[y] = c[p[y]] /\ d[y] = d[p[y]] + 1
    <3>1. d[p[y]] \in Nat
      BY <1>2, <2>8
    <3> QED
      BY <2>4, <2>5, <2>6, <2>8, <3>1
  <2> QED
    BY <2>4, <2>7, <2>8 DEF Depths
<1> HIDE DEF T
<1>5. N \in T
  BY <1>0, <1>3, <1>4, SetInduction
<1>6. climb[N] \in W /\ c[climb[N]] = c[x] /\ d[climb[N]] = 0
  <2>1. d[x] \in Nat
    BY <1>2
  <2> QED
    BY <1>0, <1>5, <2>1 DEF T
<1>7. c[climb[N]] = climb[N]
  <2>1. \A n \in Nat : n + 1 # 0
    OBVIOUS
  <2> QED
    BY <1>2, <1>6, <2>1 DEF Depths
<1> QED
  BY <1>1, <1>6, <1>7

\* A vertex is as many steps from its center as its depth says.
LEMMA DepthIsDistance ==
  ASSUME NEW g \in SymGraphs(V), NEW W \in SUBSET V, NEW p, NEW c, NEW d,
         Depths(g, W, p, c, d), NEW k \in Nat, NEW x \in W, d[x] <= k, c[x] \in V
  PROVE  x \in Within(g, {c[x]}, k)
<1>1. g \in SUBSET (V \X V) /\ \A a, b \in V : <<a, b>> \in g => <<b, a>> \in g
  BY SymmetricGraph
<1>2. PICK ball \in [0..k -> SUBSET V] :
        /\ ball[0] = {c[x]}
        /\ \A i \in 1..k : ball[i] = UNION {{v} \cup Ngh(g, v) : v \in ball[i - 1]}
        /\ Within(g, {c[x]}, k) = ball[k]
  <2>1. {c[x]} \in SUBSET V
    OBVIOUS
  <2>2. \E ball : Balls(ball, g, {c[x]}, k) /\ Within(g, {c[x]}, k) = ball[k]
    BY <1>1, <2>1, WithinGrows
  <2> QED
    BY <2>2 DEF Balls
<1>3. d \in [V -> Nat]
  BY DEF Depths
<1> DEFINE T == {i \in Nat : i <= k => \A v \in W : d[v] <= i /\ c[v] = c[x] => v \in ball[i]}
<1>4. 0 \in T
  <2>1. SUFFICES ASSUME NEW v \in W, d[v] <= 0, c[v] = c[x] PROVE v \in ball[0]
    OBVIOUS
  <2>2. d[v] = 0 /\ \A n \in Nat : n + 1 # 0
    BY <1>3, <2>1
  <2>3. c[v] = v
    BY <1>3, <2>2 DEF Depths
  <2> QED
    BY <1>2, <2>1, <2>3
<1>5. ASSUME NEW i \in Nat, i \in T PROVE i + 1 \in T
  <2>1. SUFFICES ASSUME i + 1 <= k, NEW v \in W, d[v] <= i + 1, c[v] = c[x]
                 PROVE  v \in ball[i + 1]
    OBVIOUS
  <2>2. i + 1 \in 1..k /\ (i + 1) - 1 = i /\ i <= k
    BY <2>1
  <2>3. ball[i + 1] = UNION {{u} \cup Ngh(g, u) : u \in ball[i]}
    BY <1>2, <2>2
  <2>4. \A u \in W : d[u] <= i /\ c[u] = c[x] => u \in ball[i]
    BY <1>5, <2>2
  <2>5. CASE d[v] = 0
    <3>1. v \in ball[i]
      BY <2>1, <2>4, <2>5
    <3> QED
      BY <2>3, <3>1
  <2>6. CASE /\ p[v] \in W /\ <<v, p[v]>> \in g
             /\ c[v] = c[p[v]] /\ d[v] = d[p[v]] + 1
    <3>1. d[p[v]] \in Nat /\ d[v] \in Nat
      BY <1>3, <2>6
    <3>2. d[p[v]] <= i
      BY <2>1, <2>6, <3>1
    <3>3. p[v] \in ball[i]
      BY <2>1, <2>4, <2>6, <3>2
    <3>4. <<p[v], v>> \in g
      BY <1>1, <2>6
    <3>5. v \in Ngh(g, p[v])
      BY <1>1, <3>4, NeighboursAre
    <3> QED
      BY <2>3, <3>3, <3>5
  <2> QED
    BY <2>5, <2>6 DEF Depths
<1> HIDE DEF T
<1>6. k \in T
  BY <1>4, <1>5, SetInduction
<1> QED
  BY <1>2, <1>6 DEF T

-----------------------------------------------------------------------------
(* The invariant.                                                          *)

LDDTypes ==
  /\ graph \in Graphs /\ vertex_perm \in Perms /\ shifts \in AllShifts
  /\ cluster_ids \in [V -> V \cup {UNSET}] /\ parents \in [V -> V \cup {UNSET}]
  /\ frontier \subseteq Visited
  /\ num_visited \in Nat /\ num_added \in 0..N /\ round \in Nat
  /\ phase \in {"add", "map", "done"}

\* The shifts say how far the permutation has been used.
LDDRounds ==
  /\ round + 1 < Len(shifts) /\ round < N
  /\ phase = "add" =>
       num_visited < N /\ num_added = shifts[round + 1] /\ round <= num_added /\ num_added < N
  /\ phase = "map" =>
       num_visited < N /\ num_added = shifts[round + 2] /\ round < num_added /\ num_added < N

LDDCounts ==
  /\ phase # "add" => num_visited = Cardinality(Visited)
  /\ phase = "add" => num_visited + Cardinality(frontier) = Cardinality(Visited)
  /\ phase = "done" => Visited = V
  /\ \A i \in 1..num_added : vertex_perm[i] \in Visited

LDDTrees ==
  \E d : Depths(graph, Visited, parents, cluster_ids, d) /\ \A v \in Visited : d[v] <= round

LDDFirst ==
  LET f == vertex_perm[1] IN
  /\ round = 0 /\ phase = "add" => Visited = {}
  /\ round = 0 /\ phase # "add" => Visited = {f} /\ frontier = {f}
  /\ round # 0 => \A u \in Ngh(graph, f) : u \in Visited /\ parents[u] = f

LDDInv == LDDTypes /\ LDDRounds /\ LDDCounts /\ LDDTrees /\ LDDFirst

\* Init => LDDInv
LEMMA LDDInitInv == LDDInit => LDDInv
<1> SUFFICES ASSUME LDDInit PROVE LDDInv
  OBVIOUS
<1> USE DEF LDDInit
<1>1. UNSET \notin V /\ Visited = {}
  BY LDDAssumption DEF Visited, V, UNSET
<1>2. N \in Nat /\ N > 0
  BY LDDAssumption
<1>3. shifts \in Seq(Nat) /\ Len(shifts) > 1 /\ shifts[1] = 0
  BY LDDAssumption
<1>4. LDDTypes
  BY <1>1, <1>2 DEF LDDTypes
<1>5. LDDRounds
  BY <1>2, <1>3 DEF LDDRounds
<1>6. LDDCounts
  BY <1>1, FS_EmptySet DEF LDDCounts
<1>7. LDDTrees
  <2>1. [v \in V |-> 0] \in [V -> Nat]
    OBVIOUS
  <2> QED
    BY <1>1, <2>1 DEF LDDTrees, Depths
<1>8. LDDFirst
  BY <1>1 DEF LDDFirst
<1> QED
  BY <1>4, <1>5, <1>6, <1>7, <1>8 DEF LDDInv

\* What LDDInv says of the constants that it names.
LEMMA LDDInputs ==
  ASSUME LDDInv
  PROVE  /\ N \in Nat /\ N > 0 /\ UNSET \notin V /\ UNSET = N
         /\ graph \in SymGraphs(V) /\ graph \in SUBSET (V \X V)
         /\ \A a, b \in V : <<a, b>> \in graph => <<b, a>> \in graph /\ a # b
         /\ vertex_perm \in [1..N -> V] /\ \A v \in V : \E i \in 1..N : vertex_perm[i] = v
         /\ shifts \in Seq(Nat) /\ shifts[1] = 0 /\ shifts[2] = 1 /\ shifts[Len(shifts)] >= N
         /\ \A i \in 1..(Len(shifts) - 1) : shifts[i] < shifts[i + 1]
         /\ Visited \in SUBSET V /\ frontier \in SUBSET Visited
<1>1. graph \in SymGraphs(V)
  BY LDDAssumption DEF LDDInv, LDDTypes
<1>2. graph \in SUBSET (V \X V) /\ \A a, b \in V : <<a, b>> \in graph => <<b, a>> \in graph /\ a # b
  BY <1>1, SymmetricGraph
<1>3. vertex_perm \in Perms /\ shifts \in AllShifts /\ frontier \subseteq Visited
  BY DEF LDDInv, LDDTypes
<1>4. UNSET \notin V /\ UNSET = N /\ N \in Nat /\ N > 0
  BY LDDAssumption DEF V, UNSET
<1> QED
  BY <1>1, <1>2, <1>3, <1>4, LDDAssumption DEF Visited

-----------------------------------------------------------------------------
(* A round begins: centers are added.                                      *)

\* The stretch of the permutation that the round may take.
LEMMA StretchIs ==
  ASSUME LDDInv, phase = "add"
  PROVE  /\ End \in Nat /\ num_added < End /\ End <= N /\ num_added = shifts[round + 1]
         /\ End < N => End = shifts[round + 2]
         /\ round = 0 => num_added = 0 /\ End = 1
<1>1. /\ N \in Nat /\ N > 0 /\ shifts \in Seq(Nat) /\ shifts[1] = 0 /\ shifts[2] = 1
      /\ \A i \in 1..(Len(shifts) - 1) : shifts[i] < shifts[i + 1]
  BY LDDInputs
<1>2. /\ round \in Nat /\ round + 1 < Len(shifts)
      /\ num_added = shifts[round + 1] /\ num_added < N
  BY DEF LDDInv, LDDTypes, LDDRounds
<1>3. Len(shifts) \in Nat
  BY <1>1
<1>4. round + 1 \in 1..(Len(shifts) - 1) /\ round + 2 \in 1..Len(shifts) /\ (round + 1) + 1 = round + 2
  BY <1>2, <1>3
<1>5. shifts[round + 1] < shifts[round + 2] /\ shifts[round + 2] \in Nat /\ shifts[round + 1] \in Nat
  <2>1. PICK i, j : i = round + 1 /\ j = round + 2
    OBVIOUS
  <2>2. i \in 1..(Len(shifts) - 1) /\ i \in 1..Len(shifts) /\ j \in 1..Len(shifts) /\ i + 1 = j
    BY <1>2, <1>3, <1>4, <2>1
  <2>3. shifts[i] < shifts[i + 1]
    BY <1>1, <2>2
  <2>4. shifts[i] \in Nat /\ shifts[j] \in Nat
    BY <1>1, <2>2
  <2> QED
    BY <2>1, <2>2, <2>3, <2>4
<1>6. End = IF shifts[round + 2] <= N THEN shifts[round + 2] ELSE N
  BY <1>1, <1>5, LeastOfTwo DEF End
<1>7. round = 0 => shifts[round + 1] = 0 /\ shifts[round + 2] = 1
  BY <1>1
<1> QED
  BY <1>1, <1>2, <1>5, <1>6, <1>7

\* The candidates are the vertices of that stretch.
LEMMA CandidatesAre ==
  ASSUME LDDInv, phase = "add"
  PROVE  /\ Candidates \subseteq V
         /\ \A i \in 1..End : i > num_added => vertex_perm[i] \in Candidates
         /\ round = 0 => Candidates = {vertex_perm[1]}
<1>1. /\ End \in Nat /\ num_added < End /\ End <= N /\ num_added = shifts[round + 1]
      /\ round = 0 => num_added = 0 /\ End = 1
  BY StretchIs
<1>2. vertex_perm \in [1..N -> V] /\ N \in Nat
  BY LDDInputs
<1>3. num_added \in Nat
  BY DEF LDDInv, LDDTypes
<1>4. Candidates = {vertex_perm[num_added + i] : i \in 1..(End - num_added)}
  BY <1>1 DEF Candidates
<1>5. \A i \in 1..(End - num_added) : num_added + i \in 1..N
  BY <1>1, <1>2, <1>3
<1>6. Candidates \subseteq V
  BY <1>2, <1>4, <1>5
<1>7. ASSUME NEW i \in 1..End, i > num_added PROVE vertex_perm[i] \in Candidates
  <2>1. i - num_added \in 1..(End - num_added) /\ num_added + (i - num_added) = i
    BY <1>1, <1>3, <1>7
  <2> QED
    BY <1>4, <2>1
<1>8. round = 0 => Candidates = {vertex_perm[1]}
  <2>1. SUFFICES ASSUME round = 0 PROVE Candidates = {vertex_perm[1]}
    OBVIOUS
  <2>2. Candidates = {vertex_perm[0 + i] : i \in 1..(1 - 0)}
    BY <1>1, <1>4, <2>1
  <2>3. 1..(1 - 0) = {1} /\ 0 + 1 = 1
    OBVIOUS
  <2> QED
    BY <2>2, <2>3
<1> QED
  BY <1>6, <1>7, <1>8

\* The new centers are visited, and were not.
LEMMA CentersVisited ==
  ASSUME LDDInv, AddCenters
  PROVE  /\ NewCenters \in SUBSET V /\ NewCenters \cap Visited = {}
         /\ Visited' = Visited \cup NewCenters /\ Candidates \subseteq Visited'
         /\ frontier' = frontier \cup NewCenters
         /\ cluster_ids' \in [V -> V \cup {UNSET}] /\ parents' \in [V -> V \cup {UNSET}]
         /\ \A v \in V \ NewCenters : cluster_ids'[v] = cluster_ids[v] /\ parents'[v] = parents[v]
         /\ \A v \in NewCenters : cluster_ids'[v] = v /\ parents'[v] = v
<1>1. Candidates \subseteq V
  BY CandidatesAre DEF AddCenters
<1>2. NewCenters \in SUBSET V /\ NewCenters \cap Visited = {} /\ Candidates \subseteq Visited \cup NewCenters
  BY <1>1 DEF NewCenters, Visited
<1>3. cluster_ids \in [V -> V \cup {UNSET}] /\ parents \in [V -> V \cup {UNSET}]
  BY DEF LDDInv, LDDTypes
<1>4. UNSET \notin V
  BY LDDInputs
<1>5. /\ cluster_ids' = [v \in V |-> IF v \in NewCenters THEN v ELSE cluster_ids[v]]
      /\ parents' = [v \in V |-> IF v \in NewCenters THEN v ELSE parents[v]]
      /\ frontier' = frontier \cup NewCenters
  BY DEF AddCenters
<1>6. Visited' = {v \in V : cluster_ids'[v] # UNSET}
  BY DEF Visited, V, UNSET
<1> HIDE DEF NewCenters
<1>7. Visited' = Visited \cup NewCenters
  BY <1>2, <1>4, <1>5, <1>6 DEF Visited
<1> QED
  BY <1>2, <1>3, <1>5, <1>7

\* AddCenters keeps the invariant.
LEMMA AddKeeps ==
  ASSUME LDDInv, AddCenters
  PROVE  LDDInv'
<1>1. /\ NewCenters \in SUBSET V /\ NewCenters \cap Visited = {}
      /\ Visited' = Visited \cup NewCenters /\ Candidates \subseteq Visited'
      /\ frontier' = frontier \cup NewCenters
      /\ cluster_ids' \in [V -> V \cup {UNSET}] /\ parents' \in [V -> V \cup {UNSET}]
      /\ \A v \in V \ NewCenters : cluster_ids'[v] = cluster_ids[v] /\ parents'[v] = parents[v]
      /\ \A v \in NewCenters : cluster_ids'[v] = v /\ parents'[v] = v
  BY CentersVisited
<1>2. /\ phase = "add" /\ num_visited < N
      /\ num_added' = num_added + (End - shifts[round + 1])
      /\ num_visited' = num_visited + Cardinality(frontier')
      /\ phase' = IF num_visited' >= N THEN "done" ELSE "map"
      /\ UNCHANGED <<graph, vertex_perm, shifts, round>>
  BY DEF AddCenters
<1>3. /\ N \in Nat /\ N > 0 /\ Visited \in SUBSET V /\ frontier \in SUBSET Visited
      /\ vertex_perm \in [1..N -> V] /\ \A v \in V : \E i \in 1..N : vertex_perm[i] = v
      /\ shifts \in Seq(Nat)
  BY LDDInputs
<1>4. /\ num_visited \in Nat /\ num_added \in 0..N /\ round \in Nat /\ round < N /\ round + 1 < Len(shifts)
      /\ round <= num_added
      /\ graph \in Graphs /\ vertex_perm \in Perms /\ shifts \in AllShifts
  BY <1>2 DEF LDDInv, LDDTypes, LDDRounds
<1>5. /\ End \in Nat /\ num_added < End /\ End <= N /\ num_added = shifts[round + 1]
      /\ End < N => End = shifts[round + 2]
      /\ round = 0 => num_added = 0 /\ End = 1
  BY <1>2, StretchIs
<1>6. num_added' = End
  BY <1>2, <1>4, <1>5
<1>7. Visited' \in SUBSET V /\ frontier' \in SUBSET Visited'
  BY <1>1, <1>3
<1>8. num_visited' = Cardinality(Visited')
  <2>1. num_visited + Cardinality(frontier) = Cardinality(Visited)
    BY <1>2 DEF LDDInv, LDDCounts
  <2>2. Cardinality(Visited') = Cardinality(Visited) + Cardinality(NewCenters)
    <3>1. Visited \cap NewCenters = {}
      BY <1>1
    <3> QED
      BY <1>1, <1>3, <3>1, SizesAdd
  <2>3. Cardinality(frontier') = Cardinality(frontier) + Cardinality(NewCenters)
    <3>1. frontier \cap NewCenters = {} /\ frontier \in SUBSET V
      BY <1>1, <1>3
    <3> QED
      BY <1>1, <3>1, SizesAdd
  <2>4. Cardinality(frontier) \in Nat /\ Cardinality(NewCenters) \in Nat
    <3>1. frontier \in SUBSET V
      BY <1>3
    <3> QED
      BY <1>1, <1>3, <3>1, VerticesFinite
  <2> QED
    BY <1>2, <1>4, <2>1, <2>2, <2>3, <2>4
<1>9. num_visited' \in 0..N /\ (num_visited' = N => Visited' = V)
  BY <1>7, <1>8, VerticesFinite
<1>10. phase' \in {"map", "done"} /\ (phase' = "map" <=> num_visited' < N)
  BY <1>2, <1>3, <1>9
<1>11. phase' = "done" => Visited' = V
  BY <1>3, <1>9, <1>10
<1>12. \A i \in 1..num_added' : vertex_perm'[i] \in Visited'
  <2>1. SUFFICES ASSUME NEW i \in 1..End PROVE vertex_perm[i] \in Visited'
    BY <1>2, <1>6
  <2>2. CASE i <= num_added
    <3>1. i \in 1..num_added
      BY <1>4, <2>2
    <3>2. vertex_perm[i] \in Visited
      BY <3>1 DEF LDDInv, LDDCounts
    <3> QED
      BY <1>1, <3>2
  <2>3. CASE i > num_added
    BY <1>1, <1>2, <2>3, CandidatesAre
  <2> QED
    BY <1>4, <2>2, <2>3
<1>13. phase' = "map" => num_added' < N
  <2>1. SUFFICES ASSUME End = N PROVE Visited' = V
    <3>1. num_visited' < N => Visited' # V
      BY <1>3, <1>8, VerticesFinite
    <3> QED
      BY <1>3, <1>5, <1>6, <1>10, <2>1, <3>1
  <2>2. \A v \in V : \E i \in 1..End : vertex_perm[i] = v
    BY <1>3, <2>1
  <2>3. \A v \in V : v \in Visited'
    BY <1>2, <1>6, <1>12, <2>2
  <2> QED
    BY <1>7, <2>3
<1>14. LDDTypes'
  <2>1. num_added' \in 0..N /\ round' \in Nat /\ num_visited' \in Nat
    <3>1. num_added' \in 0..N
      BY <1>3, <1>5, <1>6
    <3>2. round' \in Nat
      BY <1>2, <1>4
    <3>3. num_visited' \in Nat
      BY <1>9
    <3> QED
      BY <3>1, <3>2, <3>3
  <2>2. phase' \in {"add", "map", "done"}
    BY <1>10
  <2>3. graph' \in Graphs /\ vertex_perm' \in Perms /\ shifts' \in AllShifts
    BY <1>2, <1>4
  <2> QED
    BY <1>1, <1>7, <2>1, <2>2, <2>3 DEF LDDTypes
<1>15. LDDRounds'
  BY <1>2, <1>4, <1>5, <1>6, <1>10, <1>13 DEF LDDRounds
<1>16. LDDCounts'
  BY <1>8, <1>10, <1>11, <1>12 DEF LDDCounts, V
<1>17. LDDTrees'
  <2>1. PICK d : Depths(graph, Visited, parents, cluster_ids, d) /\ \A v \in Visited : d[v] <= round
    BY DEF LDDInv, LDDTrees
  <2> PICK e : e = [v \in V |-> IF v \in NewCenters THEN 0 ELSE d[v]]
    OBVIOUS
  <2>2. d \in [V -> Nat]
    BY <2>1 DEF Depths
  <2>3. e \in [V -> Nat]
    BY <2>2
  <2>4. \A v \in NewCenters : v \in V /\ v \notin Visited /\ e[v] = 0
    BY <1>1
  <2>5. \A v \in Visited : v \in V /\ v \notin NewCenters /\ e[v] = d[v]
    BY <1>1, <1>3
  <2>6. ASSUME NEW v \in Visited'
        PROVE  /\ e[v] <= round
               /\ \/ parents'[v] = v /\ cluster_ids'[v] = v /\ e[v] = 0
                  \/ /\ parents'[v] \in Visited' /\ <<v, parents'[v]>> \in graph
                     /\ cluster_ids'[v] = cluster_ids'[parents'[v]] /\ e[v] = e[parents'[v]] + 1
    <3>1. CASE v \in NewCenters
      BY <1>1, <1>4, <2>4, <3>1
    <3>2. CASE v \in Visited
      <4>1. cluster_ids'[v] = cluster_ids[v] /\ parents'[v] = parents[v] /\ e[v] = d[v] /\ d[v] <= round
        BY <1>1, <2>1, <2>5, <3>2
      <4>2. CASE parents[v] = v /\ cluster_ids[v] = v /\ d[v] = 0
        BY <4>1, <4>2
      <4>3. CASE /\ parents[v] \in Visited /\ <<v, parents[v]>> \in graph
                 /\ cluster_ids[v] = cluster_ids[parents[v]] /\ d[v] = d[parents[v]] + 1
        <5>1. cluster_ids'[parents[v]] = cluster_ids[parents[v]] /\ e[parents[v]] = d[parents[v]]
          BY <1>1, <2>5, <4>3
        <5> QED
          BY <1>1, <4>1, <4>3, <5>1
      <4> QED
        BY <2>1, <3>2, <4>2, <4>3 DEF Depths
    <3> QED
      BY <1>1, <3>1, <3>2
  <2>7. Depths(graph, Visited', parents', cluster_ids', e)
    BY <2>3, <2>6 DEF Depths
  <2>8. \A v \in Visited' : e[v] <= round'
    BY <1>2, <2>6
  <2>9. \E t : Depths(graph', Visited', parents', cluster_ids', t) /\ \A v \in Visited' : t[v] <= round'
    BY <1>2, <2>7, <2>8
  <2> QED
    BY <2>9 DEF LDDTrees
<1>18. LDDFirst'
  <2> DEFINE f == vertex_perm[1]
  <2>1. CASE round = 0
    <3>1. Visited = {}
      BY <1>2, <2>1 DEF LDDInv, LDDFirst
    <3>2. Candidates = {f}
      BY <1>2, <2>1, CandidatesAre
    <3>3. NewCenters = {f}
      <4>1. f \in V
        BY <1>3
      <4> QED
        BY <3>1, <3>2, <4>1 DEF NewCenters, Visited
    <3>4. Visited' = {f} /\ frontier' = {f}
      BY <1>1, <1>3, <3>1, <3>3
    <3> QED
      BY <1>2, <1>10, <2>1, <3>4 DEF LDDFirst
  <2>2. CASE round # 0
    <3>1. \A u \in Ngh(graph, f) : u \in Visited /\ parents[u] = f
      BY <2>2 DEF LDDInv, LDDFirst
    <3>2. \A u \in Visited : u \in V \ NewCenters
      BY <1>1, <1>3
    <3>3. \A u \in Ngh(graph, f) : u \in Visited' /\ parents'[u] = f
      BY <1>1, <3>1, <3>2
    <3> QED
      BY <1>2, <2>2, <3>3 DEF LDDFirst
  <2> QED
    BY <2>1, <2>2
<1> QED
  BY <1>14, <1>15, <1>16, <1>17, <1>18 DEF LDDInv

-----------------------------------------------------------------------------
(* The clusters grow by an edge.                                           *)

\* Who takes a vertex, and what becomes of the vertices nobody takes.
LEMMA TakenOrNot ==
  ASSUME LDDInv, GrowClusters
  PROVE  /\ frontier' \in SUBSET V /\ frontier' \cap Visited = {}
         /\ Visited' = Visited \cup frontier'
         /\ cluster_ids' \in [V -> V \cup {UNSET}] /\ parents' \in [V -> V \cup {UNSET}]
         /\ \A v \in frontier' :
              /\ parents'[v] \in frontier /\ <<v, parents'[v]>> \in graph
              /\ cluster_ids'[v] = cluster_ids[parents'[v]]
         /\ \A v \in V \ frontier' : cluster_ids'[v] = cluster_ids[v] /\ parents'[v] = parents[v]
         /\ \A v \in V, u \in frontier : v \notin Visited /\ <<v, u>> \in graph => v \in frontier'
<1>1. PICK by \in [V -> V \cup {UNSET}] :
        /\ \A d \in V : IF Takers(d) = {} THEN by[d] = UNSET ELSE by[d] \in Takers(d)
        /\ cluster_ids' = [d \in V |-> IF by[d] = UNSET THEN cluster_ids[d] ELSE cluster_ids[by[d]]]
        /\ parents' = [d \in V |-> IF by[d] = UNSET THEN parents[d] ELSE by[d]]
        /\ frontier' = {d \in V : by[d] # UNSET}
  BY DEF GrowClusters
<1>2. /\ UNSET \notin V /\ graph \in SUBSET (V \X V)
      /\ Visited \in SUBSET V /\ frontier \in SUBSET Visited
  BY LDDInputs
<1>3. cluster_ids \in [V -> V \cup {UNSET}] /\ parents \in [V -> V \cup {UNSET}]
  BY DEF LDDInv, LDDTypes
<1>4. \A d \in V : \A u : u \in Takers(d) <=> d \notin Visited /\ <<d, u>> \in graph /\ u \in frontier
  BY <1>2, NeighboursAre DEF Takers, Visited
<1>5. \A d \in V : by[d] # UNSET <=> Takers(d) # {}
  <2>1. ASSUME NEW d \in V PROVE UNSET \notin Takers(d)
    BY <1>2, <1>4
  <2> QED
    BY <1>1, <2>1
<1>6. ASSUME NEW v \in frontier'
      PROVE  /\ v \in V /\ v \notin Visited /\ parents'[v] \in frontier /\ <<v, parents'[v]>> \in graph
             /\ cluster_ids'[v] = cluster_ids[parents'[v]] /\ cluster_ids'[v] # UNSET
  <2>1. v \in V /\ by[v] # UNSET
    BY <1>1
  <2>2. by[v] \in Takers(v)
    BY <1>1, <1>5, <2>1
  <2>3. v \notin Visited /\ <<v, by[v]>> \in graph /\ by[v] \in frontier
    BY <1>4, <2>1, <2>2
  <2>4. parents'[v] = by[v] /\ cluster_ids'[v] = cluster_ids[by[v]]
    BY <1>1, <2>1
  <2>5. cluster_ids[by[v]] # UNSET
    BY <1>2, <2>3 DEF Visited
  <2> QED
    BY <2>1, <2>3, <2>4, <2>5
<1>7. \A v \in V \ frontier' : cluster_ids'[v] = cluster_ids[v] /\ parents'[v] = parents[v]
  BY <1>1
<1>8. Visited' = {v \in V : cluster_ids'[v] # UNSET}
  BY DEF Visited, V, UNSET
<1>9. Visited' = Visited \cup frontier'
  BY <1>6, <1>7, <1>8 DEF Visited
<1>10. ASSUME NEW v \in V, NEW u \in frontier, v \notin Visited, <<v, u>> \in graph
       PROVE  v \in frontier'
  <2>1. u \in Takers(v)
    BY <1>4, <1>10
  <2>2. by[v] # UNSET
    BY <1>5, <2>1
  <2> QED
    BY <1>1, <2>2
<1>11. cluster_ids' \in [V -> V \cup {UNSET}] /\ parents' \in [V -> V \cup {UNSET}]
  <2>1. ASSUME NEW v \in V
        PROVE  /\ (IF by[v] = UNSET THEN parents[v] ELSE by[v]) \in V \cup {UNSET}
               /\ (IF by[v] = UNSET THEN cluster_ids[v] ELSE cluster_ids[by[v]]) \in V \cup {UNSET}
    BY <1>3
  <2> QED
    BY <1>1, <2>1
<1> QED
  BY <1>6, <1>7, <1>9, <1>10, <1>11

\* GrowClusters keeps the invariant.
LEMMA GrowKeeps ==
  ASSUME LDDInv, GrowClusters
  PROVE  LDDInv'
<1>1. /\ frontier' \in SUBSET V /\ frontier' \cap Visited = {}
      /\ Visited' = Visited \cup frontier'
      /\ cluster_ids' \in [V -> V \cup {UNSET}] /\ parents' \in [V -> V \cup {UNSET}]
      /\ \A v \in frontier' :
           /\ parents'[v] \in frontier /\ <<v, parents'[v]>> \in graph
           /\ cluster_ids'[v] = cluster_ids[parents'[v]]
      /\ \A v \in V \ frontier' : cluster_ids'[v] = cluster_ids[v] /\ parents'[v] = parents[v]
      /\ \A v \in V, u \in frontier : v \notin Visited /\ <<v, u>> \in graph => v \in frontier'
  BY TakenOrNot
<1>2. /\ phase = "map" /\ round' = round + 1 /\ phase' = "add"
      /\ UNCHANGED <<graph, vertex_perm, shifts, num_visited, num_added>>
  BY DEF GrowClusters
<1>3. /\ N \in Nat /\ N > 0 /\ Visited \in SUBSET V /\ frontier \in SUBSET Visited
      /\ graph \in SUBSET (V \X V)
      /\ \A a, b \in V : <<a, b>> \in graph => <<b, a>> \in graph /\ a # b
      /\ vertex_perm \in [1..N -> V]
  BY LDDInputs
<1>4. shifts \in Seq(Nat) /\ shifts[Len(shifts)] >= N
  BY LDDInputs
<1>5. /\ num_visited \in Nat /\ num_added \in 0..N /\ round \in Nat
      /\ graph \in Graphs /\ vertex_perm \in Perms /\ shifts \in AllShifts
  BY DEF LDDInv, LDDTypes
<1>6. /\ round < N /\ round + 1 < Len(shifts) /\ num_visited < N
      /\ num_added = shifts[round + 2] /\ round < num_added /\ num_added < N
  BY <1>2 DEF LDDInv, LDDRounds
<1>7. LDDTypes'
  <2>1. frontier' \subseteq Visited' /\ round' \in Nat
    BY <1>1, <1>2, <1>5
  <2>2. num_visited' \in Nat /\ num_added' \in 0..N /\ phase' \in {"add", "map", "done"}
    BY <1>2, <1>5
  <2>3. graph' \in Graphs /\ vertex_perm' \in Perms /\ shifts' \in AllShifts
    BY <1>2, <1>5
  <2> QED
    BY <1>1, <2>1, <2>2, <2>3 DEF LDDTypes
<1>8. LDDRounds'
  <2>1. Len(shifts) \in Nat /\ Len(shifts) # round + 2
    <3>1. Len(shifts) \in Nat
      BY <1>4
    <3>2. SUFFICES ASSUME Len(shifts) = round + 2 PROVE FALSE
      BY <3>1
    <3>3. shifts[round + 2] >= N
      BY <1>4, <3>2
    <3>4. num_added >= N /\ num_added \in Nat
      BY <1>5, <1>6, <3>3
    <3> QED
      BY <1>3, <1>6, <3>4
  <2>2. round + 2 < Len(shifts)
    BY <1>5, <1>6, <2>1
  <2>3. (round + 1) + 1 = round + 2
    BY <1>5
  <2>4. /\ round' + 1 < Len(shifts') /\ round' < N /\ num_visited' < N
        /\ num_added' = shifts'[round' + 1] /\ round' <= num_added' /\ num_added' < N
    BY <1>2, <1>3, <1>5, <1>6, <2>2, <2>3
  <2> QED
    BY <1>2, <2>4 DEF LDDRounds
<1>9. LDDCounts'
  <2>1. num_visited = Cardinality(Visited)
    BY <1>2 DEF LDDInv, LDDCounts
  <2>2. Visited \cap frontier' = {}
    BY <1>1
  <2>3. Cardinality(Visited') = Cardinality(Visited) + Cardinality(frontier')
    BY <1>1, <1>3, <2>2, SizesAdd
  <2>4. num_visited' + Cardinality(frontier') = Cardinality(Visited')
    BY <1>2, <2>1, <2>3
  <2>5. \A i \in 1..num_added' : vertex_perm'[i] \in Visited'
    BY <1>1, <1>2 DEF LDDInv, LDDCounts
  <2> QED
    BY <1>2, <2>4, <2>5 DEF LDDCounts
<1>10. LDDTrees'
  <2>1. PICK d : Depths(graph, Visited, parents, cluster_ids, d) /\ \A v \in Visited : d[v] <= round
    BY DEF LDDInv, LDDTrees
  <2> PICK e : e = [v \in V |-> IF v \in frontier' THEN d[parents'[v]] + 1 ELSE d[v]]
    OBVIOUS
  <2>2. d \in [V -> Nat]
    BY <2>1 DEF Depths
  <2>3. \A v \in frontier' : /\ v \in V /\ v \notin Visited /\ parents'[v] \in Visited
                             /\ d[parents'[v]] \in Nat /\ e[v] = d[parents'[v]] + 1
    BY <1>1, <1>3, <2>2
  <2>4. \A v \in Visited : v \in V /\ v \notin frontier' /\ e[v] = d[v]
    BY <1>1, <1>3
  <2>5. e \in [V -> Nat]
    BY <2>2, <2>3
  <2>6. ASSUME NEW v \in Visited'
        PROVE  /\ e[v] <= round + 1
               /\ \/ parents'[v] = v /\ cluster_ids'[v] = v /\ e[v] = 0
                  \/ /\ parents'[v] \in Visited' /\ <<v, parents'[v]>> \in graph
                     /\ cluster_ids'[v] = cluster_ids'[parents'[v]] /\ e[v] = e[parents'[v]] + 1
    <3>1. CASE v \in frontier'
      <4> DEFINE u == parents'[v]
      <4>1. u \in Visited /\ <<v, u>> \in graph /\ cluster_ids'[v] = cluster_ids[u] /\ e[v] = d[u] + 1
        BY <1>1, <2>3, <3>1
      <4> HIDE DEF u
      <4>2. u \in V \ frontier' /\ e[u] = d[u] /\ d[u] <= round /\ d[u] \in Nat
        BY <2>1, <2>2, <2>4, <4>1
      <4>3. cluster_ids'[u] = cluster_ids[u]
        BY <1>1, <4>2
      <4>4. e[v] <= round + 1
        BY <1>5, <4>1, <4>2
      <4> QED
        BY <1>1, <4>1, <4>2, <4>3, <4>4 DEF u
    <3>2. CASE v \in Visited
      <4>1. /\ cluster_ids'[v] = cluster_ids[v] /\ parents'[v] = parents[v] /\ e[v] = d[v]
            /\ d[v] <= round /\ d[v] \in Nat
        BY <1>1, <2>1, <2>2, <2>4, <3>2
      <4>2. e[v] <= round + 1
        BY <1>5, <4>1
      <4>3. CASE parents[v] = v /\ cluster_ids[v] = v /\ d[v] = 0
        BY <4>1, <4>2, <4>3
      <4>4. CASE /\ parents[v] \in Visited /\ <<v, parents[v]>> \in graph
                 /\ cluster_ids[v] = cluster_ids[parents[v]] /\ d[v] = d[parents[v]] + 1
        <5>1. cluster_ids'[parents[v]] = cluster_ids[parents[v]] /\ e[parents[v]] = d[parents[v]]
          BY <1>1, <2>4, <4>4
        <5> QED
          BY <1>1, <4>1, <4>2, <4>4, <5>1
      <4> QED
        BY <2>1, <3>2, <4>3, <4>4 DEF Depths
    <3> QED
      BY <1>1, <3>1, <3>2
  <2>7. Depths(graph, Visited', parents', cluster_ids', e)
    BY <2>5, <2>6 DEF Depths
  <2>8. \A v \in Visited' : e[v] <= round'
    BY <1>2, <2>6
  <2>9. \E t : Depths(graph', Visited', parents', cluster_ids', t) /\ \A v \in Visited' : t[v] <= round'
    BY <1>2, <2>7, <2>8
  <2> QED
    BY <2>9 DEF LDDTrees
<1>11. LDDFirst'
  <2> DEFINE f == vertex_perm[1]
  <2>1. f \in V
    BY <1>3
  <2>2. round' # 0
    BY <1>2, <1>5
  <2>3. ASSUME NEW u \in Ngh(graph, f) PROVE u \in Visited' /\ parents'[u] = f
    <3>1. <<f, u>> \in graph
      BY <1>3, NeighboursAre
    <3>2. u \in V /\ <<u, f>> \in graph /\ u # f
      BY <1>3, <2>1, <3>1
    <3>3. CASE round = 0
      <4>1. Visited = {f} /\ frontier = {f}
        BY <1>2, <3>3 DEF LDDInv, LDDFirst
      <4>2. u \in frontier'
        BY <1>1, <3>2, <4>1
      <4> QED
        BY <1>1, <4>1, <4>2
    <3>4. CASE round # 0
      <4>1. u \in Visited /\ parents[u] = f
        BY <2>3, <3>4 DEF LDDInv, LDDFirst
      <4>2. u \in V \ frontier'
        BY <1>1, <3>2, <4>1
      <4> QED
        BY <1>1, <4>1, <4>2
    <3> QED
      BY <3>3, <3>4
  <2> QED
    BY <1>2, <2>2, <2>3 DEF LDDFirst
<1> QED
  BY <1>7, <1>8, <1>9, <1>10, <1>11 DEF LDDInv

-----------------------------------------------------------------------------
(* What the invariant shows.                                               *)

\* In every state the counts, the trees, the radius and the first cluster are right.
LEMMA LDDInvShows == LDDInv => ClustersRight
<1> SUFFICES ASSUME LDDInv PROVE ClustersRight
  OBVIOUS
<1>1. /\ N \in Nat /\ N > 0 /\ UNSET \notin V /\ Visited \in SUBSET V
      /\ graph \in SymGraphs(V) /\ vertex_perm \in [1..N -> V]
  BY LDDInputs
<1>2. /\ cluster_ids \in [V -> V \cup {UNSET}] /\ parents \in [V -> V \cup {UNSET}]
      /\ num_added \in 0..N /\ round \in Nat /\ round < N /\ round + 1 < Len(shifts)
  BY DEF LDDInv, LDDTypes, LDDRounds
<1>3. PICK d : Depths(graph, Visited, parents, cluster_ids, d) /\ \A v \in Visited : d[v] <= round
  BY DEF LDDInv, LDDTrees
<1>4. d \in [V -> Nat]
  BY <1>3 DEF Depths
<1>5. CountsAgree
  BY <1>2 DEF LDDInv, LDDCounts, CountsAgree
<1>6. ClustersAreTrees
  <2>1. ASSUME NEW v \in Visited
        PROVE  \/ parents[v] = v /\ cluster_ids[v] = v
               \/ <<v, parents[v]>> \in graph /\ cluster_ids[v] = cluster_ids[parents[v]]
    BY <1>3 DEF Depths
  <2> DEFINE q == [w \in V |-> IF w \in Visited THEN parents[w] ELSE w]
  <2>2. \A v \in Visited : v \in V /\ parents[v] \in V
    BY <1>1, <1>3 DEF Depths
  <2>3. q \in [V -> V] /\ \A v \in Visited : q[v] = parents[v]
    BY <2>2
  <2>4. ASSUME NEW v \in Visited PROVE Root(q, v) = cluster_ids[v]
    <3>1. d[v] <= N
      BY <1>1, <1>2, <1>3, <1>4
    <3> HIDE DEF q
    <3> QED
      BY <1>1, <1>3, <2>3, <3>1, RootIsCenter
  <2> QED
    BY <2>1, <2>4 DEF ClustersAreTrees
<1>7. RadiusBounded
  <2>1. SUFFICES ASSUME phase = "done", NEW v \in V
                 PROVE  v \in Within(graph, {cluster_ids[v]}, round)
    BY DEF RadiusBounded
  <2>2. v \in Visited
    BY <2>1 DEF LDDInv, LDDCounts
  <2>3. cluster_ids[v] \in V
    BY <1>2, <2>2 DEF Visited
  <2>4. d[v] <= round
    BY <1>3, <2>2
  <2> QED
    BY <1>1, <1>2, <1>3, <2>2, <2>3, <2>4, DepthIsDistance
<1>8. FirstTakesAll
  <2>1. SUFFICES ASSUME phase = "done", N # 1
                 PROVE  \A u \in Ngh(graph, vertex_perm[1]) : parents[u] = vertex_perm[1]
    BY DEF FirstTakesAll
  <2>2. round # 0
    <3>1. SUFFICES ASSUME round = 0 PROVE FALSE
      OBVIOUS
    <3>2. Visited = {vertex_perm[1]} /\ Visited = V
      BY <2>1, <3>1 DEF LDDInv, LDDFirst, LDDCounts
    <3>3. 0 \in V /\ 1 \in V
      BY <1>1, <2>1 DEF V
    <3> QED
      BY <3>2, <3>3
  <2> QED
    BY <2>2 DEF LDDInv, LDDFirst
<1> QED
  BY <1>5, <1>6, <1>7, <1>8 DEF ClustersRight

\* LDDInv is an invariant.
THEOREM LDDInvariance == LDDSpec => []LDDInv
<1>1. LDDInit => LDDInv
  BY LDDInitInv
<1>2. LDDInv /\ [LDDNext]_lddVars => LDDInv'
  <2>1. SUFFICES ASSUME LDDInv, [LDDNext]_lddVars PROVE LDDInv'
    OBVIOUS
  <2>2. CASE AddCenters
    BY <2>1, <2>2, AddKeeps
  <2>3. CASE GrowClusters
    BY <2>1, <2>3, GrowKeeps
  <2>4. CASE UNCHANGED lddVars
    BY <2>1, <2>4 DEF lddVars, LDDInv, LDDTypes, LDDRounds, LDDCounts, LDDTrees, LDDFirst, Visited
  <2> QED
    BY <2>1, <2>2, <2>3, <2>4 DEF LDDNext
<1> QED
  BY <1>1, <1>2, PTL DEF LDDSpec

\* In every schedule the decomposition is one into trees of graph edges within the
\* clusters, whose radius is at most the rounds that have passed; the loop stays
\* within the shifts and the permutation; and the first center takes its neighbours.
THEOREM ClustersStayRight == LDDSpec => []ClustersRight
<1>1. LDDInv => ClustersRight
  BY LDDInvShows
<1> QED
  BY <1>1, LDDInvariance, PTL

-----------------------------------------------------------------------------
(* RootSets: the invariant.                                                *)

Mis == in.alg = "mis"
Nbrs(S) == UNION {Ngh(in.edges, u) : u \in S}
Between == stage \in {"round", "done"}

\* The vertices a rule has chosen so far, those of earlier rounds, the vertices whose
\* successors no longer wait for them, and all those that are settled.
Chosen == IF Mis THEN in_mis ELSE {v \in Vertices : colors[v] # NoColor}
Earlier == IF Between THEN Chosen ELSE Chosen \ roots
Gone == IF Mis THEN Nbrs(Earlier) ELSE Earlier
Settled == Earlier \cup Gone
\* The vertices of this round that go, and those of them v has counted.
Leaving == IF Mis THEN removed ELSE roots
Counted(v) == IF stage = "edges" THEN {x \in Leaving : <<x, v>> \notin todo} ELSE {}
Waiting(v) == Before(v) \ (Gone \cup Counted(v))

\* The rule by which v gets its colour.
Expr(v) ==
  LET got == {colors[u] : u \in Before(v)}
      free == (0..(Deg(v) - 1)) \ got
  IN IF Deg(v) = 0 THEN 0 ELSE IF free = {} THEN Deg(v) + 1 ELSE Least(free)

RootTypes ==
  /\ in \in Inputs
  /\ stage \in {"round", "color", "nghs", "edges", "done"}
  /\ Mis => stage # "color"
  /\ ~Mis => stage # "nghs" /\ removed = {} /\ in_mis = {}
  /\ in_mis \subseteq Vertices /\ removed \subseteq Vertices \ (Settled \cup roots)
  /\ nremoved = Cardinality(removed)
  /\ Between => removed = {} /\ newRoots = {}
  /\ stage # "edges" => newRoots = {}
  /\ Between => todo = {}
  /\ stage \notin {"color", "nghs"} => DOMAIN held = {}
  /\ colors \in [Vertices -> Nat] /\ priorities \in [Vertices -> Nat]
  /\ held = [x \in DOMAIN held |-> held[x]]

\* Who is a root, and how many vertices each still waits for.
Priorities ==
  /\ roots = {v \in Vertices \ Settled : Before(v) \subseteq Gone}
  /\ \A v \in Vertices :
       priorities[v] = IF v \in Settled \cup removed THEN 0 ELSE Cardinality(Waiting(v))

Finishes ==
  /\ finished = Cardinality(Settled)
                  + (IF stage \in {"color", "edges"} /\ ~Mis THEN Cardinality(roots) ELSE 0)
  /\ stage = "done" => Settled = Vertices

\* The set is independent, and whoever left it out has a neighbour before it there.
MisRight ==
  Mis => /\ Earlier \cap Gone = {}
         /\ ~Between => roots \subseteq Chosen
         /\ \A v \in Gone : Before(v) \cap Earlier # {}

ColorsRight ==
  ~Mis => /\ \A v \in Earlier : Before(v) \subseteq Earlier
          /\ \A v \in Chosen : colors[v] = Expr(v)
          /\ stage = "edges" => roots \subseteq Chosen

\* The tasks of a phase.
ColorTasks ==
  stage = "color" =>
    /\ todo \subseteq roots /\ DOMAIN held \subseteq roots
    /\ todo \cap DOMAIN held = {}
    /\ \A v \in roots : v \in todo \/ v \in DOMAIN held \/ v \in Chosen
    /\ \A v \in DOMAIN held : held[v] = Expr(v)
NghTasks ==
  stage = "nghs" =>
    /\ todo \subseteq EdgesFrom(roots) /\ DOMAIN held \subseteq EdgesFrom(roots)
    /\ \A e \in DOMAIN held : held[e] # 0 /\ e[2] \notin Settled /\ held[e] = Cardinality(Before(e[2]) \ Gone)
    /\ \A e \in EdgesFrom(roots) :
         e \in todo \/ e \in DOMAIN held \/ e[2] \in removed \cup Settled
    /\ removed \subseteq Nbrs(roots)
EdgeTasks ==
  stage = "edges" =>
    /\ todo \subseteq EdgesFrom(Leaving)
    /\ Mis => removed = Nbrs(roots) \ Settled
    /\ {r[1] : r \in newRoots} = {v \in Vertices \ (Settled \cup roots \cup removed) : Waiting(v) = {}}

RootsInv ==
  /\ RootTypes /\ Priorities /\ Finishes /\ MisRight /\ ColorsRight
  /\ ColorTasks /\ NghTasks /\ EdgeTasks

(* Graphs and the order.                                                   *)

\* The vertices, and the sets of some of them, are finite.
LEMMA RootVerticesFinite ==
  /\ NumVertices \in Nat /\ NumVertices > 0
  /\ IsFiniteSet(Vertices) /\ Cardinality(Vertices) = NumVertices
  /\ \A S \in SUBSET Vertices :
       /\ IsFiniteSet(S) /\ Cardinality(S) \in Nat /\ Cardinality(S) <= NumVertices
       /\ Cardinality(S) = NumVertices => S = Vertices
       /\ Cardinality(S) = 0 <=> S = {}
<1>0. NumVertices \in Nat /\ NumVertices > 0
  BY RootSetsAssumption
<1>1. IsFiniteSet(Vertices) /\ Cardinality(Vertices) = NumVertices
  BY <1>0, FS_Interval, 0 \in Int, NumVertices - 1 \in Int DEF Vertices
<1>2. ASSUME NEW S \in SUBSET Vertices
      PROVE  /\ IsFiniteSet(S) /\ Cardinality(S) \in Nat /\ Cardinality(S) <= NumVertices
             /\ Cardinality(S) = NumVertices => S = Vertices
             /\ Cardinality(S) = 0 <=> S = {}
  <2>1. IsFiniteSet(S) /\ Cardinality(S) <= NumVertices
    BY <1>1, FS_Subset
  <2>2. Cardinality(S) \in Nat
    BY <2>1, FS_CardinalityType
  <2>3. Cardinality(S) = NumVertices => S = Vertices
    BY <1>1, FS_Subset
  <2>4. Cardinality(S) = 0 <=> S = {}
    BY <2>1, FS_EmptySet
  <2> QED
    BY <2>1, <2>2, <2>3, <2>4
<1> QED
  BY <1>0, <1>1, <1>2

\* Numbers below a bound have a greatest.
LEMMA GreatestOf ==
  ASSUME NEW S, S # {}, NEW d \in [S -> Nat], NEW b \in Nat, \A v \in S : d[v] <= b
  PROVE  \E v \in S : \A u \in S : d[u] <= d[v]
<1> DEFINE T == {b - d[v] : v \in S}
<1>1. T \subseteq Nat /\ T # {}
  OBVIOUS
<1> HIDE DEF T
<1>2. PICK m \in T : \A k \in T : m <= k
  BY <1>1, LeastElement
<1>3. PICK v \in S : m = b - d[v]
  BY DEF T
<1>4. ASSUME NEW u \in S PROVE d[u] <= d[v]
  <2>1. m <= b - d[u]
    BY <1>2 DEF T
  <2>2. d[u] \in Nat /\ d[v] \in Nat
    OBVIOUS
  <2> QED
    BY <1>3, <2>1, <2>2
<1> QED
  BY <1>4

\* What the order of the degrees is made of: the degree, or a number that its
\* logarithm has.
Weight(v) == IF in.alg = "lf" THEN Deg(v) ELSE log2_up(Deg(v))

\* Of any vertices some come before no other: the order has no cycle.
LEMMA SomeComeFirst ==
  ASSUME in \in Inputs, NEW S \in SUBSET Vertices, S # {}
  PROVE  \E v \in S : Before(v) \cap S = {}
<1>1. /\ in.alg \in {"mis", "lf", "llf"} /\ in.perm \in [Vertices -> Nat]
      /\ in.edges \in SymGraphs(Vertices) /\ Vertices \in SUBSET Nat
  BY RootSetsAssumption DEF Vertices
<1>2. \A v \in Vertices : Deg(v) \in Nat /\ Deg(v) <= NumVertices
  <2>1. SUFFICES ASSUME NEW v \in Vertices PROVE Deg(v) \in Nat /\ Deg(v) <= NumVertices
    OBVIOUS
  <2>2. in.edges \subseteq Vertices \X Vertices
    BY <1>1, SymmetricPairs
  <2>3. ASSUME NEW u \in Ngh(in.edges, v) PROVE u \in Vertices
    <3>1. <<v, u>> \in in.edges
      BY <2>2, NeighboursAre
    <3> QED
      BY <2>2, <3>1
  <2>4. Ngh(in.edges, v) \in SUBSET Vertices
    BY <2>3
  <2> QED
    BY <2>4, RootVerticesFinite DEF Deg
<1>3. \A v \in Vertices : Weight(v) \in Nat /\ Weight(v) <= NumVertices + 1
  <2>1. SUFFICES ASSUME NEW v \in Vertices
                 PROVE  log2_up(Deg(v)) \in Nat /\ log2_up(Deg(v)) <= NumVertices + 1
    <3>1. NumVertices \in Nat
      BY RootVerticesFinite
    <3> QED
      BY <1>2, <3>1 DEF Weight
  <2> DEFINE D == Deg(v)
             K == {k \in 0..D : 2^k < D}
  <2>2. D \in Nat /\ D <= NumVertices /\ NumVertices \in Nat
    BY <1>2, RootVerticesFinite
  <2> HIDE DEF D
  <2>3. IsFiniteSet(0..D) /\ Cardinality(0..D) = D + 1
    BY <2>2, FS_Interval, 0 \in Int, D \in Int
  <2>4. IsFiniteSet(K) /\ Cardinality(K) <= D + 1
    BY <2>3, FS_Subset, K \subseteq 0..D
  <2>5. Cardinality(K) \in Nat
    BY <2>4, FS_CardinalityType
  <2>6. log2_up(D) = Cardinality(K)
    BY DEF log2_up
  <2> HIDE DEF K
  <2>7. log2_up(D) \in Nat /\ log2_up(D) <= NumVertices + 1
    BY <2>2, <2>4, <2>5, <2>6
  <2> QED
    BY <2>7 DEF D
<1>4. CASE in.alg = "mis"
  <2> DEFINE T == {in.perm[v] : v \in S}
  <2>1. T \subseteq Nat /\ T # {}
    BY <1>1
  <2> HIDE DEF T
  <2>2. PICK m \in T : \A k \in T : m <= k
    BY <2>1, LeastElement
  <2>3. PICK v \in S : m = in.perm[v]
    BY DEF T
  <2>4. \A u \in S : in.perm[v] <= in.perm[u] /\ in.perm[u] \in Nat /\ in.perm[v] \in Nat
    BY <1>1, <2>2, <2>3 DEF T
  <2>5. \A u \in S : ~Precedes(u, v)
    BY <1>4, <2>4 DEF Precedes
  <2> QED
    BY <2>5 DEF Before
<1>5. CASE in.alg # "mis"
  <2> DEFINE w == [v \in S |-> Weight(v)]
  <2>1. w \in [S -> Nat] /\ \A v \in S : w[v] <= NumVertices + 1
    BY <1>3
  <2>2. NumVertices + 1 \in Nat
    BY RootVerticesFinite
  <2>3. PICK x \in S : \A u \in S : w[u] <= w[x]
    <3> HIDE DEF w
    <3> QED
      BY <2>1, <2>2, GreatestOf
  <2> DEFINE T == {in.perm[v] : v \in {v \in S : w[v] = w[x]}}
  <2>4. T \subseteq Nat /\ T # {}
    BY <1>1
  <2> HIDE DEF T, w
  <2>5. PICK m \in T : \A k \in T : m <= k
    BY <2>4, LeastElement
  <2>6. PICK v \in S : w[v] = w[x] /\ m = in.perm[v]
    BY DEF T
  <2>7. ASSUME NEW u \in S PROVE ~Precedes(u, v)
    <3>1. w[u] <= w[v] /\ w[u] \in Nat /\ w[v] \in Nat
      BY <2>1, <2>3, <2>6
    <3>2. w[u] = w[v] => in.perm[v] <= in.perm[u]
      BY <2>5, <2>6 DEF T
    <3>3. in.perm[u] \in Nat /\ in.perm[v] \in Nat
      BY <1>1
    <3>4. w[u] = Weight(u) /\ w[v] = Weight(v)
      BY DEF w
    <3>5. Precedes(u, v) => Weight(u) > Weight(v) \/ (Weight(u) = Weight(v) /\ in.perm[u] < in.perm[v])
      BY <1>5 DEF Precedes, Weight
    <3> QED
      BY <3>1, <3>2, <3>3, <3>4, <3>5
  <2> QED
    BY <2>7 DEF Before
<1> QED
  BY <1>4, <1>5

\* Of two neighbours one comes before the other.
LEMMA OrderOfNeighbours ==
  ASSUME in \in Inputs
  PROVE  /\ in.edges \subseteq Vertices \X Vertices
         /\ \A v \in Vertices : /\ Before(v) \in SUBSET Ngh(in.edges, v)
                                /\ Ngh(in.edges, v) \in SUBSET Vertices
                                /\ Deg(v) \in Nat /\ Deg(v) = Cardinality(Ngh(in.edges, v))
                                /\ Deg(v) < NumVertices
         /\ \A u, v \in Vertices :
              /\ u \in Ngh(in.edges, v) <=> <<v, u>> \in in.edges
              /\ u \in Ngh(in.edges, v) <=> v \in Ngh(in.edges, u)
              /\ u \in Ngh(in.edges, v) => u # v
              /\ u \in Ngh(in.edges, v) => (u \in Before(v) <=> v \notin Before(u))
              /\ u \in Ngh(in.edges, v) /\ Mis => (u \in Before(v) <=> in.perm[u] < in.perm[v])
<1>1. /\ in.alg \in {"mis", "lf", "llf"} /\ in.perm \in [Vertices -> Nat]
      /\ \A u, v \in Vertices : in.perm[u] = in.perm[v] => u = v
      /\ in.edges \in SymGraphs(Vertices) /\ Vertices \in SUBSET Nat
  BY RootSetsAssumption DEF Vertices
<1>2. /\ in.edges \subseteq Vertices \X Vertices
      /\ \A a, b \in Vertices : <<a, b>> \in in.edges => <<b, a>> \in in.edges /\ a # b
  BY <1>1, SymmetricPairs
<1>3. \A a, b : b \in Ngh(in.edges, a) <=> <<a, b>> \in in.edges
  BY <1>2, NeighboursAre
<1>4. ASSUME NEW v \in Vertices
      PROVE  /\ Before(v) \in SUBSET Ngh(in.edges, v)
             /\ Ngh(in.edges, v) \in SUBSET Vertices
             /\ Deg(v) \in Nat /\ Deg(v) = Cardinality(Ngh(in.edges, v))
             /\ Deg(v) < NumVertices
  <2>1. Ngh(in.edges, v) \in SUBSET Vertices /\ v \notin Ngh(in.edges, v)
    <3>1. ASSUME NEW u \in Ngh(in.edges, v) PROVE u \in Vertices /\ u # v
      <4>1. <<v, u>> \in in.edges
        BY <1>3
      <4> QED
        BY <1>2, <4>1
    <3> QED
      BY <3>1
  <2>2. /\ Cardinality(Ngh(in.edges, v)) \in Nat /\ Cardinality(Ngh(in.edges, v)) <= NumVertices
        /\ Cardinality(Ngh(in.edges, v)) # NumVertices /\ NumVertices \in Nat
    BY <2>1, RootVerticesFinite
  <2> QED
    BY <2>1, <2>2 DEF Before, Deg
<1>5. ASSUME NEW u \in Vertices, NEW v \in Vertices, u \in Ngh(in.edges, v)
      PROVE  /\ v \in Ngh(in.edges, u) /\ u # v
             /\ u \in Before(v) <=> v \notin Before(u)
             /\ Mis => (u \in Before(v) <=> in.perm[u] < in.perm[v])
  <2>1. v \in Ngh(in.edges, u) /\ u # v
    BY <1>2, <1>3, <1>5
  <2>2. in.perm[u] \in Nat /\ in.perm[v] \in Nat /\ in.perm[u] # in.perm[v]
    BY <1>1, <2>1
  <2>3. u \in Before(v) <=> Precedes(u, v)
    BY <1>5 DEF Before
  <2>4. v \in Before(u) <=> Precedes(v, u)
    BY <2>1 DEF Before
  <2>5. CASE in.alg = "mis"
    BY <2>1, <2>2, <2>3, <2>4, <2>5 DEF Precedes
  <2>6. CASE in.alg # "mis"
    <3>1. \A x, y : Precedes(x, y) <=> Weight(x) > Weight(y) \/ (Weight(x) = Weight(y) /\ in.perm[x] < in.perm[y])
      BY <2>6 DEF Precedes, Weight
    <3>2. Weight(u) \in Nat /\ Weight(v) \in Nat
      <4>1. \A k \in Nat : log2_up(k) \in Nat
        <5>1. SUFFICES ASSUME NEW k \in Nat PROVE log2_up(k) \in Nat
          OBVIOUS
        <5>2. IsFiniteSet({i \in 0..k : 2^i < k})
          BY FS_Interval, FS_Subset, 0 \in Int, k \in Int
        <5> QED
          BY <5>2, FS_CardinalityType DEF log2_up
      <4> QED
        BY <1>4, <4>1 DEF Weight
    <3> QED
      BY <2>1, <2>2, <2>3, <2>4, <2>6, <3>1, <3>2 DEF Mis
  <2> QED
    BY <2>5, <2>6
<1>6. \A u, v \in Vertices : u \in Ngh(in.edges, v) <=> v \in Ngh(in.edges, u)
  BY <1>5
<1> QED
  BY <1>2, <1>3, <1>4, <1>5, <1>6

-----------------------------------------------------------------------------
(* What the invariant says of a state, and what a step leaves as it is.    *)

\* The sets, as sets of vertices.
LEMMA Shapes ==
  ASSUME RootsInv
  PROVE  /\ in \in Inputs
         /\ Earlier \in SUBSET Vertices /\ Gone \in SUBSET Vertices /\ Settled \in SUBSET Vertices
         /\ Chosen \in SUBSET Vertices /\ Settled = Earlier \cup Gone
         /\ roots \in SUBSET Vertices /\ roots \cap Settled = {}
         /\ removed \in SUBSET Vertices /\ removed \cap Settled = {} /\ removed \cap roots = {}
         /\ \A v \in roots : Before(v) \subseteq Gone
         /\ \A v \in Vertices \ Settled : Before(v) \subseteq Gone => v \in roots
         /\ \A v \in Vertices : Waiting(v) \in SUBSET Vertices
<1>1. in \in Inputs /\ in_mis \subseteq Vertices /\ removed \subseteq Vertices \ (Settled \cup roots)
  BY DEF RootsInv, RootTypes
<1>2. roots = {v \in Vertices \ Settled : Before(v) \subseteq Gone}
  BY DEF RootsInv, Priorities
<1>3. \A v \in Vertices : Before(v) \in SUBSET Vertices /\ Ngh(in.edges, v) \in SUBSET Vertices
  BY <1>1, OrderOfNeighbours
<1>4. Chosen \in SUBSET Vertices
  BY <1>1 DEF Chosen
<1>5. Earlier \in SUBSET Vertices
  BY <1>4 DEF Earlier
<1>6. Gone \in SUBSET Vertices
  <2>1. \A u \in Earlier : Ngh(in.edges, u) \in SUBSET Vertices
    BY <1>3, <1>5
  <2>2. Nbrs(Earlier) \in SUBSET Vertices
    BY <2>1 DEF Nbrs
  <2> QED
    BY <1>5, <2>2 DEF Gone
<1>7. \A v \in Vertices : Waiting(v) \in SUBSET Vertices
  BY <1>3 DEF Waiting
<1> QED
  BY <1>1, <1>2, <1>4, <1>5, <1>6, <1>7 DEF Settled

\* A neighbour of a root that is not settled waits for it, and is no root.
LEMMA RootComesFirst ==
  ASSUME RootsInv, NEW u \in roots, NEW v \in Vertices, <<u, v>> \in in.edges, v \notin Settled
  PROVE  u \in Before(v) /\ v \notin roots /\ v \in Ngh(in.edges, u)
<1>1. /\ in \in Inputs /\ u \in Vertices /\ u \notin Settled
      /\ Before(u) \subseteq Gone /\ Gone \subseteq Settled
      /\ v \in roots => Before(v) \subseteq Gone
  BY Shapes
<1>2. v \in Ngh(in.edges, u) /\ u \in Ngh(in.edges, v) /\ (u \in Before(v) <=> v \notin Before(u))
  BY <1>1, OrderOfNeighbours
<1> QED
  BY <1>1, <1>2

\* As long as the input and the chosen vertices stay, so does what follows from them.
LEMMA Same ==
  ASSUME in' = in, Earlier' = Earlier
  PROVE  /\ Mis' = Mis /\ Gone' = Gone /\ Settled' = Settled
         /\ \A v : Before(v)' = Before(v) /\ Deg(v)' = Deg(v)
<1>1. Mis' = Mis
  BY DEF Mis
<1>2. Gone' = Gone
  <2>1. Gone' = IF Mis' THEN UNION {Ngh(in.edges', u) : u \in Earlier'} ELSE Earlier'
    BY DEF Gone, Nbrs
  <2> QED
    BY <1>1, <2>1 DEF Gone, Nbrs
<1>3. Settled' = Settled
  BY <1>2 DEF Settled
<1>4. \A v : Before(v)' = Before(v) /\ Deg(v)' = Deg(v)
  BY DEF Before, Precedes, Deg, log2_up
<1> QED
  BY <1>1, <1>2, <1>3, <1>4

\* A colour follows from the colours of the vertices before.
LEMMA ExprSame ==
  ASSUME in' = in, NEW v, \A u \in Before(v) : colors'[u] = colors[u]
  PROVE  Expr(v)' = Expr(v)
<1>1. Before(v)' = Before(v) /\ Deg(v)' = Deg(v)
  BY DEF Before, Precedes, Deg, log2_up
<1> DEFINE G == {colors[u] : u \in Before(v)}
           R(got, d) == LET free == (0..(d - 1)) \ got
                        IN IF d = 0 THEN 0 ELSE IF free = {} THEN d + 1 ELSE Least(free)
<1>2. Expr(v) = R(G, Deg(v))
  BY DEF Expr
<1>3. Expr(v)' = R({colors'[u] : u \in Before(v)'}, Deg(v)')
  BY DEF Expr
<1>4. {colors'[u] : u \in Before(v)'} = G
  BY <1>1
<1> HIDE DEF G, R
<1> QED
  BY <1>1, <1>2, <1>3, <1>4

-----------------------------------------------------------------------------
(* The first state, and the steps that open and close the phases.          *)

\* Init => RootsInv
LEMMA RootsInitInv == RootsInit => RootsInv
<1> SUFFICES ASSUME RootsInit PROVE RootsInv
  OBVIOUS
<1>1. /\ in \in Inputs /\ priorities = [v \in Vertices |-> Cardinality(Before(v))]
      /\ roots = {v \in Vertices : priorities[v] = 0}
      /\ removed = {} /\ nremoved = 0 /\ newRoots = {} /\ todo = {} /\ held = << >>
      /\ in_mis = {} /\ colors = [v \in Vertices |-> NoColor]
      /\ finished = 0 /\ stage = "round"
  BY DEF RootsInit
<1>2. NumVertices \in Nat /\ NoColor \in Nat
  BY RootVerticesFinite DEF NoColor
<1>3. Chosen = {} /\ Earlier = {} /\ Gone = {} /\ Settled = {} /\ Between
  <2>1. Chosen = {} /\ Between
    BY <1>1 DEF Chosen, Between
  <2>2. Earlier = {}
    BY <2>1 DEF Earlier
  <2> QED
    BY <2>1, <2>2 DEF Gone, Nbrs, Settled
<1>4. \A v \in Vertices : Before(v) \in SUBSET Vertices
  BY <1>1, OrderOfNeighbours
<1>5. \A v \in Vertices : Cardinality(Before(v)) \in Nat /\ (Cardinality(Before(v)) = 0 <=> Before(v) = {})
  BY <1>4, RootVerticesFinite
<1>6. \A v \in Vertices : Waiting(v) = Before(v)
  BY <1>1, <1>3 DEF Waiting, Counted
<1>7. RootTypes
  <2>1. DOMAIN held = {} /\ held = [x \in DOMAIN held |-> held[x]]
    BY <1>1
  <2>2. Cardinality({}) = 0
    BY FS_EmptySet
  <2>3. priorities \in [Vertices -> Nat] /\ colors \in [Vertices -> Nat]
    BY <1>1, <1>2, <1>5
  <2> QED
    BY <1>1, <1>3, <2>1, <2>2, <2>3 DEF RootTypes
<1>8. Priorities
  <2>1. roots = {v \in Vertices \ Settled : Before(v) \subseteq Gone}
    BY <1>1, <1>3, <1>5
  <2> QED
    BY <1>1, <1>3, <1>6, <2>1 DEF Priorities
<1>9. Finishes
  BY <1>1, <1>3, FS_EmptySet DEF Finishes
<1>10. MisRight /\ ColorsRight
  BY <1>1, <1>3 DEF MisRight, ColorsRight
<1>11. ColorTasks /\ NghTasks /\ EdgeTasks
  BY <1>1 DEF ColorTasks, NghTasks, EdgeTasks
<1> QED
  BY <1>7, <1>8, <1>9, <1>10, <1>11 DEF RootsInv

\* The head of the loop.
LEMMA RoundKeeps ==
  ASSUME RootsInv, Round
  PROVE  RootsInv'
<1>1. /\ stage = "round" /\ in' = in
      /\ Mis => in_mis' = in_mis \cup roots /\ todo' = EdgesFrom(roots) /\ stage' = "nghs" /\ finished' = finished
      /\ ~Mis => finished' = finished + Cardinality(roots) /\ todo' = roots /\ stage' = "color" /\ in_mis' = in_mis
      /\ UNCHANGED <<in, priorities, roots, removed, nremoved, newRoots, held, colors>>
  BY DEF Round, Mis
<1>2. /\ in \in Inputs /\ Earlier \in SUBSET Vertices /\ Settled = Earlier \cup Gone
      /\ roots \in SUBSET Vertices /\ roots \cap Settled = {}
  BY Shapes
<1>3. /\ in_mis \subseteq Vertices /\ removed = {} /\ newRoots = {} /\ todo = {} /\ DOMAIN held = {}
      /\ nremoved = Cardinality(removed) /\ (~Mis => in_mis = {})
      /\ colors \in [Vertices -> Nat] /\ priorities \in [Vertices -> Nat]
      /\ held = [x \in DOMAIN held |-> held[x]]
  BY <1>1 DEF RootsInv, RootTypes, Between
<1>4. Between /\ ~Between' /\ stage' # "edges" /\ stage' \in {"nghs", "color"} /\ (Mis <=> stage' = "nghs")
  BY <1>1 DEF Between
<1>5. Mis' = Mis
  BY <1>1 DEF Mis
<1>6. Earlier' = Earlier
  <2>1. Earlier = Chosen /\ Earlier' = Chosen' \ roots
    BY <1>1, <1>4 DEF Earlier
  <2>2. CASE Mis
    BY <1>1, <1>2, <1>5, <2>1, <2>2 DEF Chosen
  <2>3. CASE ~Mis
    <3>1. Chosen' = {v \in Vertices : colors[v] # NoColor}
      BY <1>1, <1>5, <2>3 DEF Chosen, Vertices, NoColor
    <3>2. Chosen' = Chosen
      BY <2>3, <3>1 DEF Chosen
    <3> QED
      BY <1>2, <2>1, <3>2
  <2> QED
    BY <2>2, <2>3
<1>7. /\ Gone' = Gone /\ Settled' = Settled
      /\ \A v : Before(v)' = Before(v) /\ Deg(v)' = Deg(v)
  BY <1>1, <1>6, Same
<1>8. \A v : Counted(v) = {} /\ Counted(v)' = {}
  BY <1>1, <1>4 DEF Counted
<1>9. \A v : Waiting(v)' = Waiting(v)
  BY <1>7, <1>8 DEF Waiting
<1>10. RootTypes'
  <2>1. in' \in Inputs /\ stage' \in {"round", "color", "nghs", "edges", "done"}
    BY <1>1, <1>2, <1>4
  <2>2. /\ in_mis' \subseteq Vertices /\ (~Mis => in_mis' = {})
    BY <1>1, <1>2, <1>3
  <2> QED
    BY <1>1, <1>3, <1>4, <1>5, <2>1, <2>2 DEF RootTypes
<1>11. Priorities'
  <2>1. /\ roots = {v \in Vertices \ Settled : Before(v) \subseteq Gone}
        /\ \A v \in Vertices :
             priorities[v] = IF v \in Settled \cup removed THEN 0 ELSE Cardinality(Waiting(v))
    BY DEF RootsInv, Priorities
  <2> QED
    BY <1>1, <1>7, <1>9, <2>1 DEF Priorities
<1>12. Finishes'
  <2>1. finished = Cardinality(Settled) + 0
    BY <1>1 DEF RootsInv, Finishes
  <2>2. Cardinality(Settled) \in Nat /\ Cardinality(roots) \in Nat
    BY Shapes, RootVerticesFinite
  <2>3. finished' = Cardinality(Settled) + IF ~Mis THEN Cardinality(roots) ELSE 0
    BY <1>1, <2>1, <2>2
  <2> QED
    BY <1>1, <1>4, <1>5, <1>7, <2>3 DEF Finishes
<1>13. MisRight'
  <2>1. Mis => Earlier \cap Gone = {} /\ \A v \in Gone : Before(v) \cap Earlier # {}
    BY DEF RootsInv, MisRight
  <2>2. Mis => roots \subseteq Chosen'
    BY <1>1, <1>5 DEF Chosen
  <2> QED
    BY <1>1, <1>5, <1>6, <1>7, <2>1, <2>2 DEF MisRight
<1>14. ColorsRight'
  <2>1. SUFFICES ASSUME ~Mis PROVE ColorsRight'
    BY <1>5 DEF ColorsRight
  <2>2. /\ \A v \in Earlier : Before(v) \subseteq Earlier
        /\ \A v \in Chosen : colors[v] = Expr(v)
    BY <2>1 DEF RootsInv, ColorsRight
  <2>3. Chosen' = Chosen
    <3>1. Chosen' = {v \in Vertices : colors[v] # NoColor}
      BY <1>1, <1>5, <2>1 DEF Chosen, Vertices, NoColor
    <3> QED
      BY <2>1, <3>1 DEF Chosen
  <2>4. \A v : Expr(v)' = Expr(v)
    BY <1>1, ExprSame
  <2> QED
    BY <1>1, <1>4, <1>6, <1>7, <2>2, <2>3, <2>4 DEF ColorsRight
<1>15. ColorTasks'
  BY <1>1, <1>3, <1>4 DEF ColorTasks
<1>16. NghTasks'
  <2>1. SUFFICES ASSUME stage' = "nghs" PROVE NghTasks'
    BY DEF NghTasks
  <2>2. EdgesFrom(roots)' = EdgesFrom(roots) /\ Mis
    BY <1>1, <1>4, <2>1 DEF EdgesFrom
  <2>3. todo' = EdgesFrom(roots)' /\ DOMAIN held' = {} /\ removed' = {}
    BY <1>1, <1>3, <2>2
  <2> QED
    BY <2>3 DEF NghTasks
<1>17. EdgeTasks'
  BY <1>4 DEF EdgeTasks
<1> QED
  BY <1>10, <1>11, <1>12, <1>13, <1>14, <1>15, <1>16, <1>17 DEF RootsInv

\* The loop ends when every vertex is finished.
LEMMA FinishKeeps ==
  ASSUME RootsInv, Finish
  PROVE  RootsInv'
<1>1. /\ stage = "round" /\ finished = NumVertices /\ stage' = "done"
      /\ UNCHANGED <<in, priorities, roots, removed, nremoved, newRoots, todo, held, in_mis, colors, finished>>
  BY DEF Finish
<1>2. Mis' = Mis /\ Chosen' = Chosen
  BY <1>1 DEF Mis, Chosen, Vertices, NoColor
<1>3. Between /\ Between' /\ Earlier' = Earlier
  BY <1>1, <1>2 DEF Between, Earlier
<1>4. /\ Gone' = Gone /\ Settled' = Settled
      /\ \A v : Before(v)' = Before(v) /\ Deg(v)' = Deg(v)
  BY <1>1, <1>3, Same
<1>5. \A v : Waiting(v)' = Waiting(v)
  <2>1. \A v : Counted(v) = {} /\ Counted(v)' = {}
    BY <1>1 DEF Counted
  <2> QED
    BY <1>4, <2>1 DEF Waiting
<1>6. \A v : Expr(v)' = Expr(v)
  BY <1>1, ExprSame
<1>7. RootTypes'
  BY <1>1, <1>2, <1>3, <1>4 DEF RootsInv, RootTypes
<1>8. Priorities'
  <2>1. /\ roots = {v \in Vertices \ Settled : Before(v) \subseteq Gone}
        /\ \A v \in Vertices :
             priorities[v] = IF v \in Settled \cup removed THEN 0 ELSE Cardinality(Waiting(v))
    BY DEF RootsInv, Priorities
  <2> QED
    BY <1>1, <1>4, <1>5, <2>1 DEF Priorities
<1>9. Finishes'
  <2>1. finished = Cardinality(Settled) + 0
    BY <1>1 DEF RootsInv, Finishes
  <2>2. Settled \in SUBSET Vertices
    BY Shapes
  <2>3. Cardinality(Settled) = NumVertices
    BY <1>1, <2>1, <2>2, RootVerticesFinite
  <2>4. Settled = Vertices
    BY <2>2, <2>3, RootVerticesFinite
  <2> QED
    BY <1>1, <1>4, <2>1, <2>4 DEF Finishes, Vertices
<1>10. MisRight'
  BY <1>2, <1>3, <1>4 DEF RootsInv, MisRight
<1>11. ColorsRight'
  BY <1>1, <1>2, <1>3, <1>4, <1>6 DEF RootsInv, ColorsRight
<1>12. ColorTasks' /\ NghTasks' /\ EdgeTasks'
  BY <1>1 DEF ColorTasks, NghTasks, EdgeTasks
<1> QED
  BY <1>7, <1>8, <1>9, <1>10, <1>11, <1>12 DEF RootsInv

\* What has just been listed for the edges has been counted nowhere.
LEMMA NothingCounted ==
  ASSUME in \in Inputs, NEW S \in SUBSET Vertices, NEW v \in Vertices
  PROVE  Before(v) \cap {x \in S : <<x, v>> \notin EdgesFrom(S)} = {}
<1>1. SUFFICES ASSUME NEW x \in Before(v), x \in S PROVE <<x, v>> \in EdgesFrom(S)
  OBVIOUS
<1>2. x \in Vertices /\ x \in Ngh(in.edges, v)
  BY OrderOfNeighbours
<1>3. v \in Ngh(in.edges, x)
  BY <1>2, OrderOfNeighbours
<1>4. <<x, v>> \in in.edges
  BY <1>2, <1>3, OrderOfNeighbours
<1> QED
  BY <1>1, <1>4 DEF EdgesFrom

\* All roots have their colour: their edges are next.
LEMMA AllColoredKeeps ==
  ASSUME RootsInv, AllColored
  PROVE  RootsInv'
<1>1. /\ stage = "color" /\ todo = {} /\ DOMAIN held = {} /\ todo' = EdgesFrom(roots) /\ stage' = "edges"
      /\ UNCHANGED <<in, priorities, roots, removed, nremoved, newRoots, held, in_mis, colors, finished>>
  BY DEF AllColored
<1>2. /\ in \in Inputs /\ Earlier \in SUBSET Vertices /\ Settled = Earlier \cup Gone
      /\ roots \in SUBSET Vertices /\ roots \cap Settled = {}
      /\ \A v \in Vertices \ Settled : Before(v) \subseteq Gone => v \in roots
      /\ \A v \in Vertices : Waiting(v) \in SUBSET Vertices
  BY Shapes
<1>3. ~Mis /\ ~Mis' /\ Chosen' = Chosen
  <2>1. ~Mis
    BY <1>1 DEF RootsInv, RootTypes
  <2> QED
    BY <1>1, <2>1 DEF Mis, Chosen, Vertices, NoColor
<1>4. ~Between /\ ~Between' /\ Earlier' = Earlier
  BY <1>1, <1>3 DEF Between, Earlier
<1>5. /\ Gone' = Gone /\ Settled' = Settled
      /\ \A v : Before(v)' = Before(v) /\ Deg(v)' = Deg(v)
  BY <1>1, <1>4, Same
<1>6. ASSUME NEW v \in Vertices PROVE Waiting(v)' = Waiting(v) /\ Waiting(v) = Before(v) \ Gone
  <2>1. Counted(v) = {}
    BY <1>1 DEF Counted
  <2>2. Counted(v)' = {x \in roots : <<x, v>> \notin EdgesFrom(roots)}
    BY <1>1, <1>3 DEF Counted, Leaving
  <2>3. Before(v) \cap {x \in roots : <<x, v>> \notin EdgesFrom(roots)} = {}
    BY <1>2, NothingCounted
  <2> QED
    BY <1>5, <2>1, <2>2, <2>3 DEF Waiting
<1>7. \A v : Expr(v)' = Expr(v)
  BY <1>1, ExprSame
<1>8. RootTypes'
  BY <1>1, <1>3, <1>4, <1>5 DEF RootsInv, RootTypes
<1>9. Priorities'
  <2>1. /\ roots = {v \in Vertices \ Settled : Before(v) \subseteq Gone}
        /\ \A v \in Vertices :
             priorities[v] = IF v \in Settled \cup removed THEN 0 ELSE Cardinality(Waiting(v))
    BY DEF RootsInv, Priorities
  <2>2. \A v \in Vertices : Waiting(v)' = Waiting(v)
    BY <1>6
  <2> QED
    BY <1>1, <1>5, <2>1, <2>2 DEF Priorities, Vertices
<1>10. Finishes'
  BY <1>1, <1>3, <1>5 DEF RootsInv, Finishes
<1>11. MisRight' /\ NghTasks' /\ ColorTasks'
  BY <1>1, <1>3 DEF MisRight, NghTasks, ColorTasks
<1>12. ColorsRight'
  <2>1. \A v \in Earlier : Before(v) \subseteq Earlier
    BY <1>3 DEF RootsInv, ColorsRight
  <2>2. \A v \in Chosen : colors[v] = Expr(v)
    BY <1>3 DEF RootsInv, ColorsRight
  <2>3. roots \subseteq Chosen
    BY <1>1 DEF RootsInv, ColorTasks
  <2> QED
    BY <1>1, <1>3, <1>4, <1>5, <1>7, <2>1, <2>2, <2>3 DEF ColorsRight
<1>13. EdgeTasks'
  <2>1. EdgesFrom(Leaving)' = EdgesFrom(roots)
    BY <1>1, <1>3 DEF EdgesFrom, Leaving
  <2>2. newRoots' = {} /\ removed' = {}
    BY <1>1, <1>3 DEF RootsInv, RootTypes
  <2>3. \A v \in Vertices \ (Settled \cup roots) : Waiting(v)' # {}
    BY <1>2, <1>6
  <2>4. {r[1] : r \in newRoots'}
          = {v \in Vertices \ (Settled' \cup roots' \cup removed') : Waiting(v)' = {}}
    BY <1>1, <1>5, <2>2, <2>3
  <2> QED
    BY <1>1, <1>3, <2>1, <2>4 DEF EdgeTasks, Vertices
<1> QED
  BY <1>8, <1>9, <1>10, <1>11, <1>12, <1>13 DEF RootsInv

\* Every neighbour of a root is removed: its edges are next.
LEMMA AllRemovedKeeps ==
  ASSUME RootsInv, AllRemoved
  PROVE  RootsInv'
<1>1. /\ stage = "nghs" /\ todo = {} /\ DOMAIN held = {} /\ todo' = EdgesFrom(removed) /\ stage' = "edges"
      /\ priorities' = [v \in Vertices |-> IF v \in removed THEN 0 ELSE priorities[v]]
      /\ UNCHANGED <<in, roots, removed, nremoved, newRoots, held, in_mis, colors, finished>>
  BY DEF AllRemoved
<1>2. /\ in \in Inputs /\ Earlier \in SUBSET Vertices /\ Settled = Earlier \cup Gone
      /\ roots \in SUBSET Vertices /\ roots \cap Settled = {}
      /\ removed \in SUBSET Vertices /\ removed \cap Settled = {} /\ removed \cap roots = {}
      /\ \A v \in Vertices \ Settled : Before(v) \subseteq Gone => v \in roots
      /\ \A v \in Vertices : Waiting(v) \in SUBSET Vertices
  BY Shapes
<1>3. Mis /\ Mis' /\ Chosen' = Chosen
  <2>1. Mis
    BY <1>1 DEF RootsInv, RootTypes
  <2> QED
    BY <1>1, <2>1 DEF Mis, Chosen
<1>4. ~Between /\ ~Between' /\ Earlier' = Earlier
  BY <1>1, <1>3 DEF Between, Earlier
<1>5. /\ Gone' = Gone /\ Settled' = Settled
      /\ \A v : Before(v)' = Before(v) /\ Deg(v)' = Deg(v)
  BY <1>1, <1>4, Same
<1>6. ASSUME NEW v \in Vertices PROVE Waiting(v)' = Waiting(v) /\ Waiting(v) = Before(v) \ Gone
  <2>1. Counted(v) = {}
    BY <1>1 DEF Counted
  <2>2. Counted(v)' = {x \in removed : <<x, v>> \notin EdgesFrom(removed)}
    BY <1>1, <1>3 DEF Counted, Leaving
  <2>3. Before(v) \cap {x \in removed : <<x, v>> \notin EdgesFrom(removed)} = {}
    BY <1>2, NothingCounted
  <2> QED
    BY <1>5, <2>1, <2>2, <2>3 DEF Waiting
<1>7. \A v \in Vertices :
        priorities[v] = IF v \in Settled \cup removed THEN 0 ELSE Cardinality(Waiting(v))
  BY DEF RootsInv, Priorities
<1>8. priorities \in [Vertices -> Nat] /\ priorities' \in [Vertices -> Nat]
  <2>1. priorities \in [Vertices -> Nat]
    BY DEF RootsInv, RootTypes
  <2> QED
    BY <1>1, <2>1
<1>9. RootTypes'
  BY <1>1, <1>3, <1>4, <1>5, <1>8 DEF RootsInv, RootTypes
<1>10. Priorities'
  <2>1. roots = {v \in Vertices \ Settled : Before(v) \subseteq Gone}
    BY DEF RootsInv, Priorities
  <2>2. \A v \in Vertices :
          priorities'[v] = IF v \in Settled \cup removed THEN 0 ELSE Cardinality(Waiting(v)')
    BY <1>1, <1>6, <1>7
  <2> QED
    BY <1>1, <1>5, <2>1, <2>2 DEF Priorities, Vertices
<1>11. Finishes'
  BY <1>1, <1>3, <1>5 DEF RootsInv, Finishes
<1>12. MisRight'
  BY <1>1, <1>3, <1>4, <1>5 DEF RootsInv, MisRight
<1>13. ColorsRight' /\ NghTasks' /\ ColorTasks'
  BY <1>1, <1>3 DEF ColorsRight, NghTasks, ColorTasks
<1>14. removed = Nbrs(roots) \ Settled
  <2>1. /\ \A e \in EdgesFrom(roots) : e[2] \in removed \cup Settled
        /\ removed \subseteq Nbrs(roots)
    BY <1>1 DEF RootsInv, NghTasks
  <2>2. ASSUME NEW w \in Nbrs(roots) PROVE w \in removed \cup Settled
    <3>1. PICK u \in roots : w \in Ngh(in.edges, u)
      BY DEF Nbrs
    <3>2. w \in Vertices /\ u \in Vertices
      BY <1>2, <3>1, OrderOfNeighbours
    <3>3. <<u, w>> \in in.edges
      BY <1>2, <3>1, <3>2, OrderOfNeighbours
    <3>4. <<u, w>> \in EdgesFrom(roots)
      BY <3>3 DEF EdgesFrom
    <3> QED
      BY <2>1, <3>4
  <2> QED
    BY <1>2, <2>1, <2>2
<1>15. EdgeTasks'
  <2>1. EdgesFrom(Leaving)' = EdgesFrom(removed)
    BY <1>1, <1>3 DEF EdgesFrom, Leaving
  <2>2. newRoots' = {}
    BY <1>1 DEF RootsInv, RootTypes
  <2>3. \A v \in Vertices \ (Settled \cup roots) : Waiting(v)' # {}
    BY <1>2, <1>6
  <2>4. {r[1] : r \in newRoots'}
          = {v \in Vertices \ (Settled' \cup roots' \cup removed') : Waiting(v)' = {}}
    BY <1>1, <1>5, <2>2, <2>3
  <2>5. Nbrs(roots)' = Nbrs(roots)
    BY <1>1 DEF Nbrs
  <2> QED
    BY <1>1, <1>5, <1>14, <2>1, <2>4, <2>5 DEF EdgeTasks, Vertices
<1> QED
  BY <1>9, <1>10, <1>11, <1>12, <1>13, <1>15 DEF RootsInv

\* The end of a round: the roots and what they removed are settled.
LEMMA EndRoundKeeps ==
  ASSUME RootsInv, EndRound
  PROVE  RootsInv'
<1>1. /\ stage = "edges" /\ todo = {} /\ stage' = "round"
      /\ finished' = IF Mis THEN finished + Cardinality(roots) + nremoved ELSE finished
      /\ roots' = {r[1] : r \in newRoots}
      /\ removed' = {} /\ nremoved' = 0 /\ newRoots' = {}
      /\ UNCHANGED <<in, priorities, todo, held, in_mis, colors>>
  BY DEF EndRound, Mis
<1>2. /\ in \in Inputs /\ Earlier \in SUBSET Vertices /\ Gone \in SUBSET Vertices
      /\ Settled = Earlier \cup Gone /\ Settled \in SUBSET Vertices /\ Chosen \in SUBSET Vertices
      /\ roots \in SUBSET Vertices /\ roots \cap Settled = {}
      /\ removed \in SUBSET Vertices /\ removed \cap Settled = {} /\ removed \cap roots = {}
      /\ \A v \in roots : Before(v) \subseteq Gone
  BY Shapes
<1>3. Mis' = Mis /\ Chosen' = Chosen
  BY <1>1 DEF Mis, Chosen, Vertices, NoColor
<1>4. roots \subseteq Chosen /\ Earlier = Chosen \ roots /\ ~Between /\ Between'
  BY <1>1 DEF RootsInv, MisRight, ColorsRight, Earlier, Between
<1>5. Earlier' = Earlier \cup roots
  BY <1>3, <1>4 DEF Earlier
<1>6. \A v : Before(v)' = Before(v) /\ Deg(v)' = Deg(v)
  BY <1>1 DEF Before, Precedes, Deg, log2_up
<1>7. Mis => removed = Nbrs(roots) \ Settled
  BY <1>1 DEF RootsInv, EdgeTasks
<1>8. Gone' = Gone \cup Leaving
  <2>1. CASE Mis
    <3>1. Gone' = Nbrs(Earlier \cup roots)
      BY <1>1, <1>3, <1>5, <2>1 DEF Gone, Nbrs
    <3>2. Nbrs(Earlier \cup roots) = Nbrs(Earlier) \cup Nbrs(roots)
      BY DEF Nbrs
    <3>3. Gone = Nbrs(Earlier)
      BY <2>1 DEF Gone
    <3>4. ASSUME NEW w \in Nbrs(roots), w \in Earlier PROVE w \in Gone
      <4>1. PICK u \in roots : w \in Ngh(in.edges, u)
        BY DEF Nbrs
      <4>2. u \in Vertices /\ w \in Vertices
        BY <1>2, <3>4
      <4>3. u \in Ngh(in.edges, w)
        BY <1>2, <4>1, <4>2, OrderOfNeighbours
      <4>4. u \in Gone
        BY <3>3, <3>4, <4>3 DEF Nbrs
      <4> QED
        BY <1>2, <4>4
    <3> QED
      BY <1>2, <1>7, <2>1, <3>1, <3>2, <3>3, <3>4 DEF Leaving
  <2>2. CASE ~Mis
    BY <1>3, <1>5, <2>2 DEF Gone, Leaving
  <2> QED
    BY <2>1, <2>2
<1>9. Settled' = Settled \cup roots \cup removed
  <2>1. ~Mis => removed = {}
    BY DEF RootsInv, RootTypes
  <2> QED
    BY <1>2, <1>5, <1>8, <2>1 DEF Settled, Leaving
<1>10. ASSUME NEW v \in Vertices PROVE Waiting(v)' = Waiting(v) /\ Waiting(v)' = Before(v) \ Gone'
  <2>1. Counted(v) = Leaving
    BY <1>1 DEF Counted
  <2>2. Counted(v)' = {}
    BY <1>1 DEF Counted
  <2> QED
    BY <1>6, <1>8, <2>1, <2>2 DEF Waiting
<1>11. roots' = {v \in Vertices \ Settled' : Before(v) \subseteq Gone'}
  <2>1. roots' = {v \in Vertices \ Settled' : Waiting(v) = {}}
    BY <1>1, <1>9 DEF RootsInv, EdgeTasks
  <2>2. \A v \in Vertices : Waiting(v) = {} <=> Before(v) \subseteq Gone'
    BY <1>10
  <2> QED
    BY <2>1, <2>2
<1>12. RootTypes'
  <2>1. Cardinality({}) = 0
    BY FS_EmptySet
  <2> QED
    BY <1>1, <1>3, <1>4, <2>1 DEF RootsInv, RootTypes
<1>13. Priorities'
  <2>1. \A v \in Vertices :
          priorities[v] = IF v \in Settled \cup removed THEN 0 ELSE Cardinality(Waiting(v))
    BY DEF RootsInv, Priorities
  <2>2. ASSUME NEW v \in roots PROVE Cardinality(Waiting(v)) = 0
    <3>1. Waiting(v) = {}
      BY <1>2 DEF Waiting
    <3> QED
      BY <3>1, FS_EmptySet
  <2>3. \A v \in Vertices :
          priorities'[v] = IF v \in Settled' \cup removed' THEN 0 ELSE Cardinality(Waiting(v)')
    BY <1>1, <1>2, <1>9, <1>10, <2>1, <2>2
  <2>4. \A v : Before(v)' = Before(v)
    BY <1>6
  <2>5. roots' = {v \in Vertices \ Settled' : Before(v)' \subseteq Gone'}
    BY <1>11, <2>4
  <2> QED
    BY <2>3, <2>5 DEF Priorities, Vertices
<1>14. Finishes'
  <2>1. Cardinality(Settled \cup roots \cup removed)
          = Cardinality(Settled) + Cardinality(roots) + Cardinality(removed)
    <3>1. /\ IsFiniteSet(Settled) /\ IsFiniteSet(roots) /\ IsFiniteSet(removed)
          /\ Cardinality(Settled) \in Nat /\ Cardinality(roots) \in Nat /\ Cardinality(removed) \in Nat
      BY <1>2, RootVerticesFinite
    <3>2. Settled \cap roots = {} /\ (Settled \cup roots) \cap removed = {}
      BY <1>2
    <3>3. IsFiniteSet(Settled \cup roots)
          /\ Cardinality(Settled \cup roots) = Cardinality(Settled) + Cardinality(roots) - Cardinality(Settled \cap roots)
      BY <3>1, FS_Union
    <3>4. Cardinality((Settled \cup roots) \cup removed)
            = Cardinality(Settled \cup roots) + Cardinality(removed) - Cardinality((Settled \cup roots) \cap removed)
      BY <3>1, <3>3, FS_Union
    <3>5. Cardinality({}) = 0
      BY FS_EmptySet
    <3>6. Cardinality(Settled \cap roots) = 0 /\ Cardinality((Settled \cup roots) \cap removed) = 0
      BY <3>2, <3>5
    <3>7. Cardinality(Settled \cup roots) = Cardinality(Settled) + Cardinality(roots)
      BY <3>1, <3>3, <3>6
    <3> QED
      BY <3>1, <3>4, <3>6, <3>7
  <2>2. /\ finished = Cardinality(Settled) + (IF ~Mis THEN Cardinality(roots) ELSE 0)
        /\ nremoved = Cardinality(removed) /\ (~Mis => removed = {})
    BY <1>1 DEF RootsInv, Finishes, RootTypes
  <2>3. Cardinality(Settled) \in Nat /\ Cardinality(roots) \in Nat /\ Cardinality(removed) \in Nat
    BY <1>2, RootVerticesFinite
  <2>4. Cardinality({}) = 0
    BY FS_EmptySet
  <2>5. finished' = Cardinality(Settled')
    <3>1. Cardinality(Settled') = Cardinality(Settled) + Cardinality(roots) + Cardinality(removed)
      BY <1>9, <2>1
    <3>2. Mis => finished' = finished + Cardinality(roots) + nremoved
      BY <1>1
    <3>3. ~Mis => finished' = finished /\ Cardinality(removed) = 0
      BY <1>1, <2>2, <2>4
    <3> QED
      BY <2>2, <2>3, <3>1, <3>2, <3>3
  <2>6. Cardinality(Settled') \in Nat
    BY <1>9, <2>1, <2>3
  <2> QED
    BY <1>1, <2>5, <2>6 DEF Finishes
<1>15. MisRight'
  <2>1. SUFFICES ASSUME Mis
                 PROVE  /\ Earlier' \cap Gone' = {}
                        /\ \A v \in Gone' : Before(v) \cap Earlier' # {}
    BY <1>3, <1>4, <1>6 DEF MisRight
  <2>2. Earlier \cap Gone = {} /\ \A v \in Gone : Before(v) \cap Earlier # {}
    BY <2>1 DEF RootsInv, MisRight
  <2>3. Leaving = removed
    BY <2>1 DEF Leaving
  <2>4. Earlier' \cap Gone' = {}
    BY <1>2, <1>5, <1>8, <2>2, <2>3
  <2>5. ASSUME NEW v \in removed PROVE Before(v) \cap roots # {}
    <3>1. PICK u \in roots : v \in Ngh(in.edges, u)
      BY <1>7, <2>1 DEF Nbrs
    <3>2. u \in Vertices /\ v \in Vertices /\ v \notin Settled
      BY <1>2
    <3>3. <<u, v>> \in in.edges
      BY <1>2, <3>1, <3>2, OrderOfNeighbours
    <3>4. u \in Before(v)
      BY <3>2, <3>3, RootComesFirst
    <3> QED
      BY <3>4
  <2> QED
    BY <1>5, <1>8, <2>2, <2>3, <2>4, <2>5
<1>16. ColorsRight'
  <2>1. SUFFICES ASSUME ~Mis PROVE ColorsRight'
    BY <1>3 DEF ColorsRight
  <2>2. /\ \A v \in Earlier : Before(v) \subseteq Earlier
        /\ \A v \in Chosen : colors[v] = Expr(v)
    BY <2>1 DEF RootsInv, ColorsRight
  <2>3. \A v : Expr(v)' = Expr(v)
    BY <1>1, ExprSame
  <2>4. Gone = Earlier
    BY <2>1 DEF Gone
  <2>5. \A v \in Earlier' : Before(v) \subseteq Earlier'
    BY <1>2, <1>5, <2>2, <2>4
  <2> QED
    BY <1>1, <1>3, <1>6, <2>2, <2>3, <2>5 DEF ColorsRight
<1>17. ColorTasks' /\ NghTasks' /\ EdgeTasks'
  BY <1>1 DEF ColorTasks, NghTasks, EdgeTasks
<1> QED
  BY <1>12, <1>13, <1>14, <1>15, <1>16, <1>17 DEF RootsInv

-----------------------------------------------------------------------------
(* Coloring the roots.                                                     *)

\* While the inputs, the chosen vertices and the phase stay, so do the sets.
LEMMA Quiet ==
  ASSUME in' = in, roots' = roots, colors' = colors, in_mis' = in_mis, stage' = stage
  PROVE  /\ Mis' = Mis /\ Between' = Between /\ Chosen' = Chosen /\ Earlier' = Earlier
         /\ Gone' = Gone /\ Settled' = Settled
         /\ EdgesFrom(roots)' = EdgesFrom(roots) /\ Nbrs(roots)' = Nbrs(roots)
         /\ \A v : Before(v)' = Before(v) /\ Deg(v)' = Deg(v) /\ Expr(v)' = Expr(v)
<1>1. Mis' = Mis /\ Between' = Between
  BY DEF Mis, Between
<1>2. Chosen' = Chosen
  BY <1>1 DEF Chosen, Vertices, NoColor
<1>3. Earlier' = Earlier
  BY <1>1, <1>2 DEF Earlier
<1>4. /\ Gone' = Gone /\ Settled' = Settled
      /\ \A v : Before(v)' = Before(v) /\ Deg(v)' = Deg(v)
  BY <1>3, Same
<1>5. \A v : Expr(v)' = Expr(v)
  BY ExprSame
<1>6. EdgesFrom(roots)' = EdgesFrom(roots) /\ Nbrs(roots)' = Nbrs(roots)
  BY DEF EdgesFrom, Nbrs
<1> QED
  BY <1>1, <1>2, <1>3, <1>4, <1>5, <1>6

\* The colour a rule gives is one: its result is a number below NoColor.
LEMMA ColorIsOne ==
  ASSUME in \in Inputs, NEW v \in Vertices
  PROVE  Expr(v) \in Nat /\ Expr(v) # NoColor
<1> DEFINE got == {colors[u] : u \in Before(v)}
           free == (0..(Deg(v) - 1)) \ got
<1>1. Expr(v) = IF Deg(v) = 0 THEN 0 ELSE IF free = {} THEN Deg(v) + 1 ELSE Least(free)
  BY DEF Expr
<1>2. Deg(v) \in Nat /\ Deg(v) < NumVertices /\ NumVertices \in Nat /\ NumVertices > 0
  BY OrderOfNeighbours, RootVerticesFinite
<1>3. ASSUME free # {} PROVE Least(free) \in 0..(Deg(v) - 1)
  <2>1. free \subseteq Nat /\ free \subseteq 0..(Deg(v) - 1)
    OBVIOUS
  <2> HIDE DEF free
  <2>2. \E m \in free : \A k \in free : m <= k
    BY <1>3, <2>1, LeastElement
  <2>3. Least(free) \in free
    BY <2>2 DEF Least
  <2> QED
    BY <2>1, <2>3
<1> HIDE DEF free
<1> QED
  BY <1>1, <1>2, <1>3 DEF NoColor

\* No neighbour after a root has a colour: the least colour free of all
\* neighbours is the one the rule gives.
LEMMA FreeIsExpr ==
  ASSUME RootsInv, ~Mis, NEW v \in roots
  PROVE  Free(v) = Expr(v)
<1>1. /\ in \in Inputs /\ v \in Vertices /\ v \notin Settled /\ Settled = Earlier \cup Gone
      /\ \A u \in roots : Before(u) \subseteq Gone
  BY Shapes
<1>2. /\ Before(v) \in SUBSET Ngh(in.edges, v) /\ Ngh(in.edges, v) \in SUBSET Vertices
      /\ Deg(v) \in Nat /\ Deg(v) < NumVertices /\ NumVertices \in Nat
  BY <1>1, OrderOfNeighbours, RootVerticesFinite
<1>3. ASSUME NEW u \in Ngh(in.edges, v), u \notin Before(v) PROVE colors[u] = NoColor
  <2>1. u \in Vertices /\ v \in Before(u)
    BY <1>1, <1>2, <1>3, OrderOfNeighbours
  <2>2. \A w \in Earlier : Before(w) \subseteq Earlier
    BY DEF RootsInv, ColorsRight
  <2>3. u \notin Earlier /\ u \notin roots
    BY <1>1, <2>1, <2>2
  <2>4. u \notin Chosen
    BY <2>3 DEF Earlier
  <2> QED
    BY <2>1, <2>4 DEF Chosen
<1> DEFINE got == {colors[u] : u \in Before(v)}
           taken == {colors[u] : u \in Ngh(in.edges, v)}
<1>4. NoColor \notin 0..(Deg(v) - 1)
  BY <1>2 DEF NoColor
<1>5. (0..(Deg(v) - 1)) \ taken = (0..(Deg(v) - 1)) \ got
  <2>1. got \subseteq taken /\ taken \subseteq got \cup {NoColor}
    BY <1>2, <1>3
  <2> HIDE DEF got, taken
  <2> QED
    BY <1>4, <2>1
<1>6. Free(v) = IF Deg(v) = 0 THEN 0 ELSE IF (0..(Deg(v) - 1)) \ taken = {} THEN Deg(v) + 1
                ELSE Least((0..(Deg(v) - 1)) \ taken)
  BY DEF Free
<1>7. Expr(v) = IF Deg(v) = 0 THEN 0 ELSE IF (0..(Deg(v) - 1)) \ got = {} THEN Deg(v) + 1
                ELSE Least((0..(Deg(v) - 1)) \ got)
  BY DEF Expr
<1> HIDE DEF got, taken
<1> QED
  BY <1>5, <1>6, <1>7

\* A worker finds the colour of a root.
LEMMA PickKeeps ==
  ASSUME RootsInv, NEW v, Pick(v)
  PROVE  RootsInv'
<1>1. /\ stage = "color" /\ v \in todo /\ todo' = todo \ {v}
      /\ held' = [x \in DOMAIN held \cup {v} |-> IF x = v THEN Free(v) ELSE held[x]]
      /\ UNCHANGED <<in, priorities, roots, removed, nremoved, newRoots, in_mis, colors, finished, stage>>
  BY DEF Pick
<1>2. /\ Mis' = Mis /\ Between' = Between /\ Chosen' = Chosen /\ Earlier' = Earlier
      /\ Gone' = Gone /\ Settled' = Settled
      /\ \A x : Before(x)' = Before(x) /\ Deg(x)' = Deg(x) /\ Expr(x)' = Expr(x)
  BY <1>1, Quiet
<1>3. ~Mis /\ ~Between
  BY <1>1 DEF RootsInv, RootTypes, Between
<1>4. \A x : Waiting(x)' = Waiting(x)
  <2>1. \A x : Counted(x)' = {} /\ Counted(x) = {}
    BY <1>1 DEF Counted
  <2> QED
    BY <1>2, <2>1 DEF Waiting
<1>5. /\ DOMAIN held' = DOMAIN held \cup {v} /\ held'[v] = Free(v)
      /\ \A x \in DOMAIN held : x # v => held'[x] = held[x]
      /\ held' = [x \in DOMAIN held' |-> held'[x]]
  BY <1>1
<1>6. ColorTasks
  BY DEF RootsInv
<1>7. v \in roots /\ Free(v) = Expr(v)
  <2>1. v \in roots
    BY <1>1, <1>6 DEF ColorTasks
  <2> QED
    BY <1>3, <2>1, FreeIsExpr
<1>8. ColorTasks'
  BY <1>1, <1>2, <1>5, <1>6, <1>7 DEF ColorTasks
<1>9. RootTypes'
  <2>1. RootTypes
    BY DEF RootsInv
  <2> QED
    BY <1>1, <1>2, <1>3, <1>5, <2>1 DEF RootTypes, Vertices
<1>10. Priorities'
  BY <1>1, <1>2, <1>4 DEF RootsInv, Priorities, Vertices
<1>11. Finishes'
  BY <1>1, <1>2 DEF RootsInv, Finishes, Vertices
<1>12. MisRight' /\ NghTasks' /\ EdgeTasks'
  BY <1>1, <1>2, <1>3 DEF MisRight, NghTasks, EdgeTasks
<1>13. ColorsRight'
  BY <1>1, <1>2 DEF RootsInv, ColorsRight
<1> QED
  BY <1>8, <1>9, <1>10, <1>11, <1>12, <1>13 DEF RootsInv

\* A worker stores the colour it found.
LEMMA ColorKeeps ==
  ASSUME RootsInv, NEW v, Color(v)
  PROVE  RootsInv'
<1>1. /\ stage = "color" /\ v \in DOMAIN held /\ colors' = [colors EXCEPT ![v] = held[v]]
      /\ held' = [u \in DOMAIN held \ {v} |-> held[u]]
      /\ UNCHANGED <<in, priorities, roots, removed, nremoved, newRoots, todo, in_mis, finished, stage>>
  BY DEF Color
<1>2. ColorTasks /\ RootTypes /\ ColorsRight
  BY DEF RootsInv
<1>3. ~Mis /\ ~Mis' /\ Mis' = Mis /\ ~Between /\ ~Between' /\ Between' = Between
  BY <1>1, <1>2 DEF RootTypes, Between, Mis
<1>4. /\ in \in Inputs /\ Settled = Earlier \cup Gone /\ Gone = Earlier
      /\ roots \in SUBSET Vertices /\ roots \cap Settled = {}
      /\ \A u \in roots : Before(u) \subseteq Gone
  BY <1>3, Shapes DEF Gone
<1>5. v \in roots /\ v \in Vertices /\ held[v] = Expr(v)
  BY <1>1, <1>2, <1>4 DEF ColorTasks
<1>6. Expr(v) \in Nat /\ Expr(v) # NoColor
  BY <1>4, <1>5, ColorIsOne
<1>7. /\ colors' \in [Vertices -> Nat] /\ colors'[v] = Expr(v)
      /\ \A u \in Vertices : u # v => colors'[u] = colors[u]
  <2>1. colors \in [Vertices -> Nat]
    BY <1>2 DEF RootTypes
  <2> QED
    BY <1>1, <1>5, <1>6, <2>1
<1>8. Chosen' = Chosen \cup {v}
  <2>1. Chosen' = {u \in Vertices : colors'[u] # NoColor}
    BY <1>3 DEF Chosen, Vertices, NoColor
  <2>2. Chosen = {u \in Vertices : colors[u] # NoColor}
    BY <1>3 DEF Chosen
  <2> QED
    BY <1>5, <1>6, <1>7, <2>1, <2>2
<1>9. Earlier' = Earlier
  BY <1>1, <1>3, <1>5, <1>8 DEF Earlier
<1>10. /\ Gone' = Gone /\ Settled' = Settled
       /\ \A x : Before(x)' = Before(x) /\ Deg(x)' = Deg(x)
  BY <1>1, <1>9, Same
<1>11. \A x : Waiting(x)' = Waiting(x)
  <2>1. \A x : Counted(x)' = {} /\ Counted(x) = {}
    BY <1>1 DEF Counted
  <2> QED
    BY <1>10, <2>1 DEF Waiting
<1>12. ASSUME NEW x \in Earlier \cup roots PROVE Expr(x)' = Expr(x) /\ x \in Vertices
  <2>1. Before(x) \subseteq Earlier /\ x \in Vertices
    BY <1>2, <1>3, <1>4, Shapes DEF ColorsRight
  <2>2. \A u \in Before(x) : u # v /\ u \in Vertices
    BY <1>4, <1>5, <2>1, Shapes
  <2>3. \A u \in Before(x) : colors'[u] = colors[u]
    BY <1>7, <2>2
  <2> QED
    BY <1>1, <2>1, <2>3, ExprSame
<1>13. Chosen \subseteq Earlier \cup roots
  BY DEF Earlier
<1>14. /\ DOMAIN held' = DOMAIN held \ {v} /\ held' = [x \in DOMAIN held' |-> held'[x]]
       /\ \A x \in DOMAIN held' : held'[x] = held[x]
  BY <1>1
<1>15. ColorTasks'
  <2>1. \A x \in DOMAIN held' : held'[x] = Expr(x)'
    BY <1>1, <1>2, <1>12, <1>14 DEF ColorTasks
  <2> QED
    BY <1>1, <1>2, <1>8, <1>14, <2>1 DEF ColorTasks
<1>16. RootTypes'
  BY <1>1, <1>2, <1>3, <1>7, <1>10, <1>14 DEF RootTypes, Vertices
<1>17. Priorities'
  BY <1>1, <1>10, <1>11 DEF RootsInv, Priorities, Vertices
<1>18. Finishes'
  BY <1>1, <1>3, <1>10 DEF RootsInv, Finishes, Vertices
<1>19. MisRight' /\ NghTasks' /\ EdgeTasks'
  BY <1>1, <1>3 DEF MisRight, NghTasks, EdgeTasks
<1>20. ColorsRight'
  <2>1. \A x \in Earlier' : Before(x)' \subseteq Earlier'
    BY <1>2, <1>3, <1>9, <1>10 DEF ColorsRight
  <2>2. ASSUME NEW x \in Chosen' PROVE colors'[x] = Expr(x)'
    <3>1. x \in Earlier \cup roots
      BY <1>5, <1>8, <1>13
    <3>2. Expr(x)' = Expr(x) /\ x \in Vertices
      BY <1>12, <3>1
    <3>3. x # v => x \in Chosen /\ colors'[x] = colors[x]
      BY <1>7, <1>8, <3>2
    <3>4. \A y \in Chosen : colors[y] = Expr(y)
      BY <1>2, <1>3 DEF ColorsRight
    <3> QED
      BY <1>7, <3>2, <3>3, <3>4
  <2> QED
    BY <1>1, <2>1, <2>2 DEF ColorsRight
<1> QED
  BY <1>15, <1>16, <1>17, <1>18, <1>19, <1>20 DEF RootsInv

-----------------------------------------------------------------------------
(* The neighbours of the roots of an independent set.                      *)

\* An edge of a root, and what its end waits for when it is not settled.
LEMMA EdgeOfRoot ==
  ASSUME RootsInv, stage = "nghs", NEW e \in EdgesFrom(roots)
  PROVE  /\ e = <<e[1], e[2]>> /\ e[1] \in roots /\ e[2] \in Vertices /\ e \in in.edges
         /\ Mis /\ ~Between
         /\ Waiting(e[2]) = Before(e[2]) \ Gone
         /\ e[2] \notin Settled => /\ e[2] \notin roots /\ e[2] \in Nbrs(roots)
                                   /\ Cardinality(Waiting(e[2])) # 0
         /\ e[2] \in Settled \cup removed <=> priorities[e[2]] = 0
         /\ e[2] \notin Settled \cup removed => priorities[e[2]] = Cardinality(Waiting(e[2]))
<1>1. /\ in \in Inputs /\ Gone \in SUBSET Vertices /\ Settled = Earlier \cup Gone
      /\ roots \in SUBSET Vertices /\ roots \cap Settled = {}
      /\ \A v \in Vertices : Waiting(v) \in SUBSET Vertices
  BY Shapes
<1>2. e \in in.edges /\ e[1] \in roots
  BY DEF EdgesFrom
<1>3. e = <<e[1], e[2]>> /\ e[2] \in Vertices /\ e[1] \in Vertices
  <2>1. in.edges \subseteq Vertices \X Vertices
    BY <1>1, OrderOfNeighbours
  <2> QED
    BY <1>2, <2>1
<1>4. Mis /\ ~Between
  BY DEF RootsInv, RootTypes, Between
<1>5. Waiting(e[2]) = Before(e[2]) \ Gone
  <2>1. Counted(e[2]) = {}
    BY DEF Counted
  <2> QED
    BY <2>1 DEF Waiting
<1>6. ASSUME e[2] \notin Settled
      PROVE  e[2] \notin roots /\ e[2] \in Nbrs(roots) /\ Cardinality(Waiting(e[2])) # 0
  <2>1. <<e[1], e[2]>> \in in.edges
    BY <1>2, <1>3
  <2>2. e[1] \in Before(e[2]) /\ e[2] \notin roots /\ e[2] \in Ngh(in.edges, e[1])
    BY <1>2, <1>3, <1>6, <2>1, RootComesFirst
  <2>3. e[1] \in Waiting(e[2])
    BY <1>1, <1>2, <1>5, <2>2
  <2> QED
    BY <1>1, <1>2, <1>3, <2>2, <2>3, RootVerticesFinite DEF Nbrs
<1>7. priorities[e[2]] = IF e[2] \in Settled \cup removed THEN 0 ELSE Cardinality(Waiting(e[2]))
  BY <1>3 DEF RootsInv, Priorities
<1> QED
  BY <1>2, <1>3, <1>4, <1>5, <1>6, <1>7

\* A worker reads the priority of a neighbour.
LEMMA ReadNghKeeps ==
  ASSUME RootsInv, NEW e, ReadNgh(e)
  PROVE  RootsInv'
<1>1. /\ stage = "nghs" /\ e \in todo /\ todo' = todo \ {e}
      /\ held' = IF priorities[e[2]] > 0
                 THEN [x \in DOMAIN held \cup {e} |-> IF x = e THEN priorities[e[2]] ELSE held[x]]
                 ELSE held
      /\ UNCHANGED <<in, priorities, roots, removed, nremoved, newRoots, in_mis, colors, finished, stage>>
  BY DEF ReadNgh
<1>2. /\ Mis' = Mis /\ Between' = Between /\ Chosen' = Chosen /\ Earlier' = Earlier
      /\ Gone' = Gone /\ Settled' = Settled
      /\ EdgesFrom(roots)' = EdgesFrom(roots) /\ Nbrs(roots)' = Nbrs(roots)
      /\ \A x : Before(x)' = Before(x) /\ Deg(x)' = Deg(x) /\ Expr(x)' = Expr(x)
  BY <1>1, Quiet
<1>3. NghTasks /\ RootTypes
  BY DEF RootsInv
<1>4. e \in EdgesFrom(roots)
  BY <1>1, <1>3 DEF NghTasks
<1>5. /\ e[2] \in Vertices /\ Mis /\ ~Between /\ Waiting(e[2]) = Before(e[2]) \ Gone
      /\ e[2] \in Settled \cup removed <=> priorities[e[2]] = 0
      /\ e[2] \notin Settled \cup removed => priorities[e[2]] = Cardinality(Waiting(e[2]))
  BY <1>1, <1>4, EdgeOfRoot
<1>6. \A x : Waiting(x)' = Waiting(x)
  <2>1. \A x : Counted(x)' = {} /\ Counted(x) = {}
    BY <1>1 DEF Counted
  <2> QED
    BY <1>2, <2>1 DEF Waiting
<1>7. priorities[e[2]] \in Nat
  BY <1>3, <1>5 DEF RootTypes
<1>8. /\ held' = [x \in DOMAIN held' |-> held'[x]]
      /\ \A x \in DOMAIN held : x \in DOMAIN held' /\ (x # e => held'[x] = held[x])
      /\ \A x \in DOMAIN held' : x \in DOMAIN held \/ x = e
  BY <1>1, <1>3 DEF RootTypes
<1>9. NghTasks'
  <2>1. CASE priorities[e[2]] > 0
    <3>1. e \in DOMAIN held' /\ held'[e] = priorities[e[2]]
      BY <1>1, <2>1
    <3>2. priorities[e[2]] # 0 /\ e[2] \notin Settled /\ priorities[e[2]] = Cardinality(Before(e[2]) \ Gone)
      BY <1>5, <1>7, <2>1
    <3>3. \A x \in DOMAIN held' :
            held'[x] # 0 /\ x[2] \notin Settled /\ held'[x] = Cardinality(Before(x[2]) \ Gone)
      BY <1>1, <1>3, <1>8, <3>1, <3>2 DEF NghTasks
    <3>4. DOMAIN held' \subseteq EdgesFrom(roots)
      BY <1>1, <1>3, <1>4, <1>8 DEF NghTasks
    <3> QED
      BY <1>1, <1>2, <1>3, <1>8, <3>1, <3>3, <3>4 DEF NghTasks
  <2>2. CASE ~(priorities[e[2]] > 0)
    <3>1. e[2] \in removed \cup Settled
      BY <1>5, <1>7, <2>2
    <3>2. held' = held
      BY <1>1, <2>2
    <3> QED
      BY <1>1, <1>2, <1>3, <3>1, <3>2 DEF NghTasks
  <2> QED
    BY <2>1, <2>2
<1>10. RootTypes'
  BY <1>1, <1>2, <1>3, <1>5, <1>8 DEF RootTypes, Vertices
<1>11. Priorities'
  BY <1>1, <1>2, <1>6 DEF RootsInv, Priorities, Vertices
<1>12. Finishes'
  BY <1>1, <1>2 DEF RootsInv, Finishes, Vertices
<1>13. MisRight'
  BY <1>1, <1>2 DEF RootsInv, MisRight
<1>14. ColorsRight' /\ ColorTasks' /\ EdgeTasks'
  BY <1>1, <1>2, <1>5 DEF ColorsRight, ColorTasks, EdgeTasks
<1> QED
  BY <1>9, <1>10, <1>11, <1>12, <1>13, <1>14 DEF RootsInv

\* A worker takes a neighbour out, unless another one has.
LEMMA SwapNghKeeps ==
  ASSUME RootsInv, NEW e, SwapNgh(e)
  PROVE  RootsInv'
<1>1. /\ stage = "nghs" /\ e \in DOMAIN held
      /\ held' = [f \in DOMAIN held \ {e} |-> held[f]]
      /\ UNCHANGED <<in, roots, newRoots, todo, in_mis, colors, finished, stage>>
  BY DEF SwapNgh
<1>2. /\ Mis' = Mis /\ Between' = Between /\ Chosen' = Chosen /\ Earlier' = Earlier
      /\ Gone' = Gone /\ Settled' = Settled
      /\ EdgesFrom(roots)' = EdgesFrom(roots) /\ Nbrs(roots)' = Nbrs(roots)
      /\ \A x : Before(x)' = Before(x) /\ Deg(x)' = Deg(x) /\ Expr(x)' = Expr(x)
  BY <1>1, Quiet
<1>3. NghTasks /\ RootTypes
  BY DEF RootsInv
<1>4. e \in EdgesFrom(roots)
  BY <1>1, <1>3 DEF NghTasks
<1> DEFINE w == e[2]
<1>5. /\ w \in Vertices /\ Mis /\ ~Between /\ Waiting(w) = Before(w) \ Gone
      /\ w \notin Settled => w \notin roots /\ w \in Nbrs(roots)
      /\ w \in Settled \cup removed <=> priorities[w] = 0
      /\ w \notin Settled \cup removed => priorities[w] = Cardinality(Waiting(w))
  BY <1>1, <1>4, EdgeOfRoot
<1>6. held[e] # 0 /\ w \notin Settled /\ held[e] = Cardinality(Waiting(w))
  BY <1>1, <1>3, <1>5 DEF NghTasks
<1>7. \A x : Waiting(x)' = Waiting(x)
  <2>1. \A x : Counted(x)' = {} /\ Counted(x) = {}
    BY <1>1 DEF Counted
  <2> QED
    BY <1>2, <2>1 DEF Waiting
<1>8. /\ DOMAIN held' = DOMAIN held \ {e} /\ held' = [x \in DOMAIN held' |-> held'[x]]
      /\ \A x \in DOMAIN held' : held'[x] = held[x]
  BY <1>1
<1>9. /\ priorities \in [Vertices -> Nat]
      /\ removed \subseteq Vertices \ (Settled \cup roots) /\ nremoved = Cardinality(removed)
  BY <1>3 DEF RootTypes
<1>10. /\ removed' = removed \cup {w} /\ nremoved' = Cardinality(removed')
       /\ removed' \subseteq Vertices \ (Settled \cup roots)
       /\ priorities' \in [Vertices -> Nat]
       /\ \A v \in Vertices :
            priorities'[v] = IF v \in Settled \cup removed' THEN 0 ELSE Cardinality(Waiting(v))
  <2>1. \A v \in Vertices :
          priorities[v] = IF v \in Settled \cup removed THEN 0 ELSE Cardinality(Waiting(v))
    BY DEF RootsInv, Priorities
  <2>2. CASE Swaps(e)
    <3>1. /\ priorities' = [priorities EXCEPT ![w] = 0]
          /\ removed' = removed \cup {w} /\ nremoved' = nremoved + 1
      BY <2>2 DEF SwapNgh
    <3>2. w \notin removed
      BY <1>5, <1>6, <2>2 DEF Swaps
    <3>3. removed \in SUBSET Vertices
      BY <1>9
    <3>4. IsFiniteSet(removed)
      BY <3>3, RootVerticesFinite
    <3>5. Cardinality(removed \cup {w}) = Cardinality(removed) + 1
      BY <3>2, <3>4, FS_AddElement
    <3>6. /\ priorities' \in [Vertices -> Nat] /\ priorities'[w] = 0
          /\ \A v \in Vertices : v # w => priorities'[v] = priorities[v]
      BY <1>5, <1>9, <3>1
    <3> QED
      BY <1>5, <1>6, <1>9, <2>1, <3>1, <3>5, <3>6
  <2>3. CASE ~Swaps(e)
    <3>1. UNCHANGED <<priorities, removed, nremoved>>
      BY <2>3 DEF SwapNgh
    <3>2. w \in removed
      BY <1>5, <1>6, <2>3 DEF Swaps
    <3> QED
      BY <1>9, <2>1, <3>1, <3>2
  <2> QED
    BY <2>2, <2>3
<1>11. NghTasks'
  <2>1. \A x \in DOMAIN held' :
          held'[x] # 0 /\ x[2] \notin Settled /\ held'[x] = Cardinality(Before(x[2]) \ Gone)
    BY <1>1, <1>3, <1>8 DEF NghTasks
  <2>2. \A x \in EdgesFrom(roots) : x \in todo \/ x \in DOMAIN held' \/ x[2] \in removed' \cup Settled
    BY <1>1, <1>3, <1>8, <1>10 DEF NghTasks
  <2>3. removed' \subseteq Nbrs(roots)
    BY <1>1, <1>3, <1>5, <1>6, <1>10 DEF NghTasks
  <2>4. todo \subseteq EdgesFrom(roots) /\ DOMAIN held' \subseteq EdgesFrom(roots)
    BY <1>1, <1>3, <1>8 DEF NghTasks
  <2> QED
    BY <1>1, <1>2, <2>1, <2>2, <2>3, <2>4 DEF NghTasks
<1>12. RootTypes'
  BY <1>1, <1>2, <1>3, <1>5, <1>8, <1>10 DEF RootTypes, Vertices
<1>13. Priorities'
  <2>1. roots = {v \in Vertices \ Settled : Before(v) \subseteq Gone}
    BY DEF RootsInv, Priorities
  <2> QED
    BY <1>1, <1>2, <1>7, <1>10, <2>1 DEF Priorities, Vertices
<1>14. Finishes'
  BY <1>1, <1>2 DEF RootsInv, Finishes, Vertices
<1>15. MisRight'
  BY <1>1, <1>2 DEF RootsInv, MisRight
<1>16. ColorsRight' /\ ColorTasks' /\ EdgeTasks'
  BY <1>1, <1>2, <1>5 DEF ColorsRight, ColorTasks, EdgeTasks
<1> QED
  BY <1>11, <1>12, <1>13, <1>14, <1>15, <1>16 DEF RootsInv

-----------------------------------------------------------------------------
(* The edges of the vertices that leave.                                   *)

\* A worker relaxes an edge: who takes the last one a vertex waits for makes
\* it a root of the next round.
LEMMA DecrementKeeps ==
  ASSUME RootsInv, NEW e, Decrement(e)
  PROVE  RootsInv'
<1>1. /\ stage = "edges" /\ e \in todo /\ todo' = todo \ {e}
      /\ UNCHANGED <<in, roots, removed, nremoved, held, in_mis, colors, finished, stage>>
  BY DEF Decrement
<1>2. /\ Mis' = Mis /\ Between' = Between /\ Chosen' = Chosen /\ Earlier' = Earlier
      /\ Gone' = Gone /\ Settled' = Settled
      /\ Nbrs(roots)' = Nbrs(roots)
      /\ \A x : Before(x)' = Before(x) /\ Deg(x)' = Deg(x) /\ Expr(x)' = Expr(x)
  BY <1>1, Quiet
<1>3. EdgeTasks /\ RootTypes /\ Priorities
  BY DEF RootsInv
<1>4. /\ in \in Inputs /\ Settled = Earlier \cup Gone
      /\ roots \in SUBSET Vertices /\ roots \cap Settled = {}
      /\ removed \in SUBSET Vertices /\ removed \cap Settled = {}
      /\ \A v \in roots : Before(v) \subseteq Gone
      /\ \A v \in Vertices : Waiting(v) \in SUBSET Vertices
  BY Shapes
<1>5. Leaving' = Leaving /\ Leaving \in SUBSET Vertices /\ Leaving \cap Gone = {} /\ EdgesFrom(Leaving)' = EdgesFrom(Leaving)
  BY <1>1, <1>2, <1>4 DEF Leaving, EdgesFrom
<1>6. e \in EdgesFrom(Leaving) /\ e \in in.edges /\ e[1] \in Leaving
  BY <1>1, <1>3 DEF EdgeTasks, EdgesFrom
<1>7. e = <<e[1], e[2]>> /\ e[1] \in Vertices /\ e[2] \in Vertices
  <2>1. in.edges \subseteq Vertices \X Vertices
    BY <1>4, OrderOfNeighbours
  <2> QED
    BY <1>6, <2>1
<1>8. PICK x \in Leaving, w \in Vertices : e = <<x, w>> /\ e[1] = x /\ e[2] = w /\ x \in Vertices /\ x \notin Gone
  BY <1>5, <1>6, <1>7
<1>9. \A v \in Vertices : Counted(v)' = IF v = w THEN Counted(v) \cup {x} ELSE Counted(v)
  <2>1. SUFFICES ASSUME NEW v \in Vertices
                 PROVE  Counted(v)' = IF v = w THEN Counted(v) \cup {x} ELSE Counted(v)
    OBVIOUS
  <2>2. Counted(v) = {y \in Leaving : <<y, v>> \notin todo}
    BY <1>1 DEF Counted
  <2>3. Counted(v)' = {y \in Leaving : <<y, v>> \notin todo'}
    BY <1>1, <1>5 DEF Counted
  <2>4. \A y : <<y, v>> \notin todo' <=> <<y, v>> \notin todo \/ (y = x /\ v = w)
    BY <1>1, <1>8
  <2> QED
    BY <2>2, <2>3, <2>4
<1>10. \A v \in Vertices : Waiting(v)' = IF v = w THEN Waiting(v) \ {x} ELSE Waiting(v)
  BY <1>2, <1>9 DEF Waiting
<1>11. priorities \in [Vertices -> Nat]
  BY <1>3 DEF RootTypes
<1>12. \A v \in Vertices :
         priorities[v] = IF v \in Settled \cup removed THEN 0 ELSE Cardinality(Waiting(v))
  BY <1>3 DEF Priorities
<1>13. \A v \in Vertices : /\ IsFiniteSet(Waiting(v)) /\ Cardinality(Waiting(v)) \in Nat
                           /\ Cardinality(Waiting(v)) = 0 <=> Waiting(v) = {}
  BY <1>4, RootVerticesFinite
<1>14. x \in Ngh(in.edges, w) /\ (Mis => (x \in Before(w) <=> in.perm[x] < in.perm[w]))
  <2>1. w \in Ngh(in.edges, x)
    BY <1>4, <1>6, <1>8, OrderOfNeighbours
  <2> QED
    BY <1>4, <1>8, <2>1, OrderOfNeighbours
<1>15. priorities[w] > 0 => (Counts(e) <=> x \in Waiting(w))
  <2>1. SUFFICES ASSUME priorities[w] > 0 PROVE Counts(e) <=> x \in Waiting(w)
    OBVIOUS
  <2>2. w \notin Settled
    BY <1>12, <2>1
  <2>3. Counts(e) <=> (Mis => in.perm[x] < in.perm[w])
    BY <1>8, <2>1 DEF Counts, Mis
  <2>4. ~Mis => x \in Before(w)
    BY <1>6, <1>8, <2>2, RootComesFirst DEF Leaving
  <2>5. x \notin Counted(w)
    BY <1>1, <1>8 DEF Counted
  <2>6. x \in Waiting(w) <=> x \in Before(w)
    BY <1>8, <2>5 DEF Waiting
  <2> QED
    BY <1>14, <2>3, <2>4, <2>6
<1>16. \A v \in Vertices : v \in roots => Waiting(v) = {}
  BY <1>4 DEF Waiting
<1> DEFINE Next == {v \in Vertices \ (Settled \cup roots \cup removed) : Waiting(v) = {}}
<1>17. {r[1] : r \in newRoots} = Next
  BY <1>1, <1>3 DEF EdgeTasks
<1>18. /\ priorities' \in [Vertices -> Nat]
       /\ \A v \in Vertices :
            priorities'[v] = IF v \in Settled \cup removed THEN 0 ELSE Cardinality(Waiting(v)')
       /\ {r[1] : r \in newRoots'} = {v \in Vertices \ (Settled \cup roots \cup removed) : Waiting(v)' = {}}
  <2>1. CASE Counts(e)
    <3>1. /\ priorities' = [priorities EXCEPT ![w] = @ - 1]
          /\ newRoots' = IF priorities[w] = 1 THEN newRoots \cup {<<w, e>>} ELSE newRoots
          /\ priorities[w] > 0
      BY <1>8, <2>1 DEF Decrement, Counts
    <3>2. /\ w \notin Settled \cup removed /\ priorities[w] = Cardinality(Waiting(w))
      BY <1>12, <3>1
    <3>3. x \in Waiting(w)
      BY <1>15, <2>1, <3>1
    <3>4. Cardinality(Waiting(w)') = Cardinality(Waiting(w)) - 1
      <4>1. Cardinality(Waiting(w) \ {x}) = Cardinality(Waiting(w)) - 1
        BY <1>13, <3>3, FS_RemoveElement
      <4> QED
        BY <1>10, <4>1
    <3>5. w \notin roots
      BY <1>16, <3>3
    <3>6. /\ priorities' \in [Vertices -> Nat] /\ priorities'[w] = Cardinality(Waiting(w)')
          /\ \A v \in Vertices : v # w => priorities'[v] = priorities[v]
      BY <1>11, <3>1, <3>2, <3>4
    <3>7. Waiting(w)' = {} <=> priorities[w] = 1
      <4>1. Waiting(w)' \in SUBSET Vertices
        BY <1>4, <1>10
      <4>2. Cardinality(Waiting(w)') = 0 <=> Waiting(w)' = {}
        BY <4>1, RootVerticesFinite
      <4>3. priorities[w] \in Nat
        BY <1>11
      <4> QED
        BY <3>2, <3>4, <4>2, <4>3
    <3>8. {r[1] : r \in newRoots'} = IF priorities[w] = 1 THEN Next \cup {w} ELSE Next
      <4> DEFINE r0 == <<w, e>>
      <4>2. r0[1] = w
        OBVIOUS
      <4> HIDE DEF r0
      <4>1. {r[1] : r \in newRoots \cup {r0}} = {r[1] : r \in newRoots} \cup {w}
        BY <4>2
      <4> QED
        BY <1>17, <3>1, <4>1 DEF r0
    <3>9. w \notin Next
      BY <3>3
    <3>10. \A v \in Vertices :
             priorities'[v] = IF v \in Settled \cup removed THEN 0 ELSE Cardinality(Waiting(v)')
      BY <1>10, <1>12, <3>2, <3>6
    <3>11. {v \in Vertices \ (Settled \cup roots \cup removed) : Waiting(v)' = {}}
             = IF priorities[w] = 1 THEN Next \cup {w} ELSE Next
      BY <1>10, <3>2, <3>5, <3>7, <3>9
    <3> QED
      BY <3>6, <3>8, <3>10, <3>11
  <2>2. CASE ~Counts(e)
    <3>1. priorities' = priorities /\ newRoots' = newRoots
      BY <2>2 DEF Decrement
    <3>2. w \notin Settled \cup removed => Waiting(w)' = Waiting(w)
      <4>1. CASE priorities[w] > 0
        BY <1>10, <1>15, <2>2, <4>1
      <4>2. CASE ~(priorities[w] > 0)
        <5>1. priorities[w] = 0
          BY <1>11, <4>2
        <5>2. w \notin Settled \cup removed => Waiting(w) = {}
          BY <1>12, <1>13, <5>1
        <5> QED
          BY <1>10, <5>2
      <4> QED
        BY <4>1, <4>2
    <3>3. \A v \in Vertices \ (Settled \cup removed) : Waiting(v)' = Waiting(v)
      BY <1>10, <3>2
    <3>4. \A v \in Vertices :
            priorities'[v] = IF v \in Settled \cup removed THEN 0 ELSE Cardinality(Waiting(v)')
      BY <1>12, <3>1, <3>3
    <3>5. {v \in Vertices \ (Settled \cup roots \cup removed) : Waiting(v)' = {}} = Next
      BY <3>3
    <3> QED
      BY <1>11, <1>17, <3>1, <3>4, <3>5
  <2> QED
    BY <2>1, <2>2
<1> HIDE DEF Next
<1>19. EdgeTasks'
  <2>1. todo' \subseteq EdgesFrom(Leaving)
    BY <1>1, <1>3 DEF EdgeTasks
  <2>2. {r[1] : r \in newRoots'}
          = {v \in Vertices \ (Settled' \cup roots' \cup removed') : Waiting(v)' = {}}
    BY <1>1, <1>2, <1>18
  <2> QED
    BY <1>1, <1>2, <1>3, <1>5, <2>1, <2>2 DEF EdgeTasks, Vertices
<1>20. RootTypes'
  <2>1. ~Between
    BY <1>1 DEF Between
  <2> QED
    BY <1>1, <1>2, <1>3, <1>18, <2>1 DEF RootTypes, Vertices
<1>21. Priorities'
  <2>1. roots = {v \in Vertices \ Settled : Before(v) \subseteq Gone}
    BY <1>3 DEF Priorities
  <2> QED
    BY <1>1, <1>2, <1>18, <2>1 DEF Priorities, Vertices
<1>22. Finishes'
  BY <1>1, <1>2 DEF RootsInv, Finishes, Vertices
<1>23. MisRight' /\ ColorsRight'
  BY <1>1, <1>2 DEF RootsInv, MisRight, ColorsRight
<1>24. ColorTasks' /\ NghTasks'
  BY <1>1 DEF ColorTasks, NghTasks
<1> QED
  BY <1>19, <1>20, <1>21, <1>22, <1>23, <1>24 DEF RootsInv

\* A step that changes nothing.
LEMMA RootsStutterKeeps ==
  ASSUME RootsInv, UNCHANGED rootVars
  PROVE  RootsInv'
<1>1. UNCHANGED <<in, priorities, roots, removed, nremoved, newRoots, todo, held, in_mis,
                  colors, finished, stage>>
  BY DEF rootVars
<1>2. /\ Mis' = Mis /\ Between' = Between /\ Chosen' = Chosen /\ Earlier' = Earlier
      /\ Gone' = Gone /\ Settled' = Settled
      /\ EdgesFrom(roots)' = EdgesFrom(roots) /\ Nbrs(roots)' = Nbrs(roots)
      /\ \A x : Before(x)' = Before(x) /\ Deg(x)' = Deg(x) /\ Expr(x)' = Expr(x)
  BY <1>1, Quiet
<1>3. Leaving' = Leaving /\ EdgesFrom(Leaving)' = EdgesFrom(Leaving)
  BY <1>1, <1>2 DEF Leaving, EdgesFrom
<1>4. \A v : Waiting(v)' = Waiting(v)
  <2>1. \A v : Counted(v)' = Counted(v)
    BY <1>1, <1>3 DEF Counted
  <2> QED
    BY <1>2, <2>1 DEF Waiting
<1>5. RootTypes'
  BY <1>1, <1>2 DEF RootsInv, RootTypes, Vertices
<1>6. Priorities'
  BY <1>1, <1>2, <1>4 DEF RootsInv, Priorities, Vertices
<1>7. Finishes' /\ MisRight' /\ ColorsRight'
  BY <1>1, <1>2 DEF RootsInv, Finishes, MisRight, ColorsRight, Vertices
<1>8. ColorTasks' /\ NghTasks'
  BY <1>1, <1>2 DEF RootsInv, ColorTasks, NghTasks
<1>9. EdgeTasks'
  BY <1>1, <1>2, <1>3, <1>4 DEF RootsInv, EdgeTasks, Vertices
<1> QED
  BY <1>5, <1>6, <1>7, <1>8, <1>9 DEF RootsInv

\* Every step keeps the invariant.
LEMMA RootsStepKeeps ==
  ASSUME RootsInv, [RootsNext]_rootVars
  PROVE  RootsInv'
<1>1. CASE Round
  BY <1>1, RoundKeeps
<1>2. CASE AllColored
  BY <1>2, AllColoredKeeps
<1>3. CASE AllRemoved
  BY <1>3, AllRemovedKeeps
<1>4. CASE EndRound
  BY <1>4, EndRoundKeeps
<1>5. CASE Finish
  BY <1>5, FinishKeeps
<1>6. ASSUME NEW v \in todo, Pick(v) \/ ReadNgh(v) \/ Decrement(v) PROVE RootsInv'
  BY <1>6, PickKeeps, ReadNghKeeps, DecrementKeeps
<1>7. ASSUME NEW x \in DOMAIN held, Color(x) \/ SwapNgh(x) PROVE RootsInv'
  BY <1>7, ColorKeeps, SwapNghKeeps
<1>8. CASE UNCHANGED rootVars
  BY <1>8, RootsStutterKeeps
<1> QED
  BY <1>1, <1>2, <1>3, <1>4, <1>5, <1>6, <1>7, <1>8 DEF RootsNext

\* RootSets: the invariant holds in every state.
THEOREM RootsInvariance == RootsSpec => []RootsInv
<1>1. RootsInit => RootsInv
  BY RootsInitInv
<1>2. RootsInv /\ [RootsNext]_rootVars => RootsInv'
  BY RootsStepKeeps
<1> QED
  BY <1>1, <1>2, PTL DEF RootsSpec

-----------------------------------------------------------------------------
(* What the invariant shows.                                               *)

\* The assertion at the head of the loop.
LEMMA RootsAreThere ==
  ASSUME RootsInv
  PROVE  RootsNeverEmpty
<1> SUFFICES ASSUME stage = "round", finished # NumVertices
             PROVE  roots # {} /\ finished < NumVertices
  BY DEF RootsNeverEmpty
<1>1. /\ in \in Inputs /\ Settled \in SUBSET Vertices /\ Settled = Earlier \cup Gone
      /\ \A v \in Vertices \ Settled : Before(v) \subseteq Gone => v \in roots
      /\ Earlier \in SUBSET Vertices
  BY Shapes
<1>2. finished = Cardinality(Settled) /\ Cardinality(Settled) <= NumVertices
      /\ Cardinality(Settled) \in Nat /\ NumVertices \in Nat
  <2>1. finished = Cardinality(Settled) + 0
    BY DEF RootsInv, Finishes
  <2> QED
    BY <1>1, <2>1, RootVerticesFinite
<1>3. Vertices \ Settled # {}
  BY <1>1, <1>2, RootVerticesFinite
<1>4. PICK v \in Vertices \ Settled : Before(v) \cap (Vertices \ Settled) = {}
  BY <1>1, <1>3, SomeComeFirst
<1>5. ASSUME NEW u \in Before(v) PROVE u \in Gone
  <2>1. u \in Vertices /\ u \in Ngh(in.edges, v) /\ u \in Settled
    BY <1>1, <1>4, OrderOfNeighbours
  <2>2. CASE Mis
    <3>1. v \in Ngh(in.edges, u)
      BY <1>1, <2>1, OrderOfNeighbours
    <3>2. u \notin Earlier
      BY <1>1, <1>4, <2>2, <3>1 DEF Gone, Nbrs
    <3> QED
      BY <1>1, <2>1, <3>2
  <2>3. CASE ~Mis
    BY <1>1, <2>1, <2>3 DEF Gone
  <2> QED
    BY <2>2, <2>3
<1> QED
  BY <1>1, <1>2, <1>4, <1>5

\* The greedy rule for v when the others are as in g, and the functions that
\* follow it everywhere.
GreedyRule(g, v) ==
  LET got == {g[u] : u \in Before(v)}
      deg == Deg(v)
      free == (0..(deg - 1)) \ got
  IN IF in.alg = "mis" THEN IF 1 \in got THEN 0 ELSE 1
     ELSE IF deg = 0 THEN 0 ELSE IF free = {} THEN deg + 1 ELSE Least(free)
FollowsGreedy(g) == g = [v \in Vertices |-> GreedyRule(g, v)]

\* The rule looks only at the vertices before.
LEMMA RuleLooksBack ==
  ASSUME NEW g, NEW h, NEW v, \A u \in Before(v) : g[u] = h[u]
  PROVE  GreedyRule(g, v) = GreedyRule(h, v)
<1> DEFINE R(got, deg) == LET free == (0..(deg - 1)) \ got
                          IN IF in.alg = "mis" THEN IF 1 \in got THEN 0 ELSE 1
                             ELSE IF deg = 0 THEN 0
                             ELSE IF free = {} THEN deg + 1 ELSE Least(free)
           G == {g[u] : u \in Before(v)}
           H == {h[u] : u \in Before(v)}
<1>1. GreedyRule(g, v) = R(G, Deg(v)) /\ GreedyRule(h, v) = R(H, Deg(v))
  BY DEF GreedyRule
<1>2. G = H
  OBVIOUS
<1> HIDE DEF R, G, H
<1> QED
  BY <1>1, <1>2

\* At most one function follows the rule, as the order has no cycle: what
\* follows it is the greedy result.
LEMMA GreedyIs ==
  ASSUME in \in Inputs, NEW g, FollowsGreedy(g)
  PROVE  Greedy = g
<1>1. Greedy = CHOOSE h : FollowsGreedy(h)
  BY DEF Greedy, FollowsGreedy, GreedyRule
<1>2. PICK h : h = Greedy /\ FollowsGreedy(h)
  <2>1. FollowsGreedy(CHOOSE h : FollowsGreedy(h))
    BY Zenon
  <2> QED
    BY <1>1, <2>1
<1>3. /\ DOMAIN g = Vertices /\ DOMAIN h = Vertices
      /\ \A v \in Vertices : g[v] = GreedyRule(g, v)
      /\ \A v \in Vertices : h[v] = GreedyRule(h, v)
      /\ g = [v \in Vertices |-> g[v]] /\ h = [v \in Vertices |-> h[v]]
  BY <1>2 DEF FollowsGreedy
<1> DEFINE D == {v \in Vertices : g[v] # h[v]}
<1>4. D = {}
  <2>1. SUFFICES ASSUME D # {} PROVE FALSE
    OBVIOUS
  <2>2. PICK v \in D : Before(v) \cap D = {}
    <3>1. D \in SUBSET Vertices
      OBVIOUS
    <3> HIDE DEF D
    <3> QED
      BY <2>1, <3>1, SomeComeFirst
  <2>3. \A u \in Before(v) : g[u] = h[u]
    <3>1. \A u \in Before(v) : u \in Vertices
      BY OrderOfNeighbours
    <3> QED
      BY <2>2, <3>1
  <2>4. GreedyRule(g, v) = GreedyRule(h, v)
    BY <2>3, RuleLooksBack
  <2> QED
    BY <1>3, <2>4
<1> QED
  BY <1>2, <1>3, <1>4

\* A set of d numbers below d holds all of them.
LEMMA AllOfThem ==
  ASSUME NEW d \in Nat, NEW S, IsFiniteSet(S), Cardinality(S) <= d, 0..(d - 1) \subseteq S
  PROVE  S = 0..(d - 1)
<1>1. IsFiniteSet(0..(d - 1)) /\ Cardinality(0..(d - 1)) = d
  BY FS_Interval, 0 \in Int, d - 1 \in Int
<1>2. Cardinality(0..(d - 1)) <= Cardinality(S)
        /\ (Cardinality(0..(d - 1)) = Cardinality(S) => 0..(d - 1) = S)
  BY FS_Subset
<1>3. Cardinality(S) \in Nat
  BY FS_CardinalityType
<1> QED
  BY <1>1, <1>2, <1>3

\* The colour the rule gives is none of the colours before.
LEMMA ColorIsFree ==
  ASSUME in \in Inputs, NEW v \in Vertices, NEW u \in Before(v)
  PROVE  Expr(v) # colors[u]
<1> DEFINE got == {colors[x] : x \in Before(v)}
           all == 0..(Deg(v) - 1)
           free == all \ got
<1>1. Expr(v) = IF Deg(v) = 0 THEN 0 ELSE IF free = {} THEN Deg(v) + 1 ELSE Least(free)
  BY DEF Expr
<1>2. /\ Before(v) \in SUBSET Ngh(in.edges, v) /\ Ngh(in.edges, v) \in SUBSET Vertices
      /\ Deg(v) \in Nat /\ Deg(v) = Cardinality(Ngh(in.edges, v))
  BY OrderOfNeighbours
<1>3. IsFiniteSet(Ngh(in.edges, v)) /\ (Cardinality(Ngh(in.edges, v)) = 0 <=> Ngh(in.edges, v) = {})
  BY <1>2, RootVerticesFinite
<1>4. Deg(v) # 0
  BY <1>2, <1>3
<1>5. IsFiniteSet(Before(v)) /\ Cardinality(Before(v)) <= Deg(v) /\ Cardinality(Before(v)) \in Nat
  <2>1. IsFiniteSet(Before(v)) /\ Cardinality(Before(v)) <= Cardinality(Ngh(in.edges, v))
    BY <1>2, <1>3, FS_Subset
  <2> QED
    BY <1>2, <2>1, FS_CardinalityType
<1>6. IsFiniteSet(got) /\ Cardinality(got) <= Deg(v)
  <2> DEFINE f == [x \in Before(v) |-> colors[x]]
  <2>1. f \in Surjection(Before(v), got)
    BY DEF Surjection
  <2> HIDE DEF f, got
  <2>2. IsFiniteSet(got) /\ Cardinality(got) <= Cardinality(Before(v))
    BY <1>5, <2>1, FS_Surjection
  <2>3. Cardinality(got) \in Nat
    BY <2>2, FS_CardinalityType
  <2> QED
    BY <1>2, <1>5, <2>2, <2>3
<1>7. colors[u] \in got
  OBVIOUS
<1>8. CASE free = {}
  <2>1. all \subseteq got
    BY <1>8
  <2>2. got = all
    <3> HIDE DEF got
    <3> QED
      BY <1>2, <1>6, <2>1, AllOfThem
  <2>3. Deg(v) + 1 \notin all
    BY <1>2
  <2>4. Expr(v) = Deg(v) + 1
    BY <1>1, <1>4, <1>8
  <2> HIDE DEF all, got
  <2> QED
    BY <1>7, <2>2, <2>3, <2>4
<1>9. CASE free # {}
  <2>1. free \subseteq Nat
    BY <1>2
  <2>2. free \cap got = {}
    OBVIOUS
  <2> HIDE DEF free, all, got
  <2>3. \E m \in free : \A k \in free : m <= k
    BY <1>9, <2>1, LeastElement
  <2>4. Least(free) \in free
    BY <2>3 DEF Least
  <2>5. Expr(v) = Least(free)
    BY <1>1, <1>4, <1>9
  <2> QED
    BY <1>7, <2>2, <2>4, <2>5
<1> QED
  BY <1>8, <1>9

\* At the end the set and the colours are the greedy ones, and neighbours
\* have different colours.
LEMMA EndIsGreedy ==
  ASSUME RootsInv
  PROVE  ResultGreedy
<1> SUFFICES ASSUME stage = "done"
             PROVE  IF in.alg = "mis" THEN in_mis = {v \in Vertices : Greedy[v] = 1}
                    ELSE /\ \A v \in Vertices : colors[v] = Greedy[v]
                         /\ \A e \in in.edges : colors[e[1]] # colors[e[2]]
  BY DEF ResultGreedy
<1>1. in \in Inputs /\ Settled = Earlier \cup Gone /\ Settled = Vertices /\ Earlier = Chosen
  <2>1. Settled = Vertices
    BY DEF RootsInv, Finishes
  <2> QED
    BY <2>1, Shapes DEF Earlier, Between
<1>2. CASE Mis
  <2> DEFINE g == [v \in Vertices |-> IF v \in in_mis THEN 1 ELSE 0]
  <2>1. /\ in_mis \subseteq Vertices /\ in_mis \cap Gone = {}
        /\ \A v \in Gone : Before(v) \cap in_mis # {}
        /\ Gone = Nbrs(in_mis) /\ Vertices = in_mis \cup Gone
    BY <1>1, <1>2 DEF RootsInv, RootTypes, MisRight, Chosen, Gone
  <2>2. ASSUME NEW v \in Vertices PROVE g[v] = GreedyRule(g, v)
    <3>1. \A u \in Before(v) : u \in Vertices /\ v \in Ngh(in.edges, u)
      BY <1>1, OrderOfNeighbours
    <3>2. 1 \in {g[u] : u \in Before(v)} <=> Before(v) \cap in_mis # {}
      <4>1. \A u \in Before(v) : 1 = g[u] <=> u \in in_mis
        BY <3>1
      <4> HIDE DEF g
      <4>2. 1 \in {g[u] : u \in Before(v)} <=> \E u \in Before(v) : 1 = g[u]
        BY Zenon
      <4> QED
        BY <4>1, <4>2
    <3>3. v \in in_mis => Before(v) \cap in_mis = {}
      BY <2>1, <3>1 DEF Nbrs
    <3>4. v \notin in_mis => Before(v) \cap in_mis # {}
      BY <2>1
    <3>5. GreedyRule(g, v) = IF 1 \in {g[u] : u \in Before(v)} THEN 0 ELSE 1
      BY <1>2 DEF GreedyRule, Mis
    <3> QED
      BY <3>2, <3>3, <3>4, <3>5
  <2>3. FollowsGreedy(g)
    <3>1. g = [v \in Vertices |-> g[v]]
      OBVIOUS
    <3> HIDE DEF g
    <3> QED
      BY <2>2, <3>1 DEF FollowsGreedy
  <2>4. Greedy = g
    <3> HIDE DEF g
    <3> QED
      BY <1>1, <2>3, GreedyIs
  <2> QED
    BY <1>2, <2>1, <2>4 DEF Mis
<1>3. CASE ~Mis
  <2>1. \A v \in Vertices : colors[v] = Expr(v)
    <3>1. Chosen = Vertices
      BY <1>1, <1>3 DEF Gone
    <3> QED
      BY <1>3, <3>1 DEF RootsInv, ColorsRight
  <2>2. \A v : GreedyRule(colors, v) = Expr(v)
    BY <1>3 DEF GreedyRule, Expr, Mis
  <2>3. FollowsGreedy(colors)
    <3>1. colors = [v \in Vertices |-> colors[v]]
      BY DEF RootsInv, RootTypes
    <3> QED
      BY <2>1, <2>2, <3>1 DEF FollowsGreedy
  <2>4. Greedy = colors
    BY <1>1, <2>3, GreedyIs
  <2>5. ASSUME NEW e \in in.edges PROVE colors[e[1]] # colors[e[2]]
    <3>1. e = <<e[1], e[2]>> /\ e[1] \in Vertices /\ e[2] \in Vertices
      <4>1. in.edges \subseteq Vertices \X Vertices
        BY <1>1, OrderOfNeighbours
      <4> QED
        BY <4>1
    <3>2. e[2] \in Ngh(in.edges, e[1]) /\ e[1] \in Ngh(in.edges, e[2])
      BY <1>1, <3>1, OrderOfNeighbours
    <3>3. e[1] \in Before(e[2]) \/ e[2] \in Before(e[1])
      BY <1>1, <3>1, <3>2, OrderOfNeighbours
    <3> QED
      BY <1>1, <2>1, <3>1, <3>3, ColorIsFree
  <2> QED
    BY <1>3, <2>4, <2>5 DEF Mis
<1> QED
  BY <1>2, <1>3

\* RootSets: whatever the schedule, a loop that has work has roots, and what
\* it ends with is the result of the sequential greedy algorithm.
THEOREM RootSetsStayRight == RootsSpec => []RootSetsRight
<1>1. RootsInv => RootSetsRight
  BY RootsAreThere, EndIsGreedy DEF RootSetsRight
<1> QED
  BY <1>1, RootsInvariance, PTL

-----------------------------------------------------------------------------
(* Sums over the threads.                                                  *)

\* The sum of f over all threads.
Summed(f, W) == MapThenSumSet(LAMBDA w : f[w], W)

\* A set of sets of threads with {} and, with each, those of one more holds all of them.
LEMMA SubsetInduction ==
  ASSUME NEW W, IsFiniteSet(W), NEW S, {} \in S,
         \A s \in SUBSET W : \A w \in W : s \in S => s \cup {w} \in S
  PROVE  \A s \in SUBSET W : s \in S
<1> DEFINE T == {n \in Nat : \A s \in SUBSET W : Cardinality(s) = n => s \in S}
<1>1. \A s \in SUBSET W : IsFiniteSet(s) /\ Cardinality(s) \in Nat
  BY FS_Subset, FS_CardinalityType
<1>2. 0 \in T
  BY <1>1, FS_EmptySet
<1>3. ASSUME NEW n \in Nat, n \in T PROVE n + 1 \in T
  <2> SUFFICES ASSUME NEW s \in SUBSET W, Cardinality(s) = n + 1 PROVE s \in S
    OBVIOUS
  <2>1. s # {}
    BY FS_EmptySet
  <2>2. PICK w \in s : TRUE
    BY <2>1
  <2>3. Cardinality(s \ {w}) = n
    <3>1. Cardinality(s \ {w}) = Cardinality(s) - 1
      BY <1>1, <2>2, FS_RemoveElement
    <3> QED
      BY <3>1
  <2>4. s \ {w} \in S
    BY <1>3, <2>3
  <2>5. (s \ {w}) \cup {w} = s /\ w \in W /\ s \ {w} \in SUBSET W
    BY <2>2
  <2> QED
    BY <2>4, <2>5
<1>4. \A n \in Nat : n \in T
  <2> HIDE DEF T
  <2> QED
    BY <1>2, <1>3, SetInduction
<1> QED
  BY <1>1, <1>4

\* it sums f over the sets of up to n threads, as the library's fold does.
Sums(f, W, n, it) ==
  it = [s \in {t \in SUBSET W : Cardinality(t) <= n} |->
          IF s = {} THEN 0 ELSE f[CHOOSE x \in s : TRUE] + it[s \ {CHOOSE x \in s : TRUE}]]

\* It exists.
LEMMA SumsExist == ASSUME NEW W, IsFiniteSet(W), NEW f, NEW n \in Nat PROVE \E it : Sums(f, W, n, it)
<1> DEFINE Up(k) == {t \in SUBSET W : Cardinality(t) <= k}
           first(s) == CHOOSE x \in s : TRUE
           S == {k \in Nat : \E it : Sums(f, W, k, it)}
<1>1. \A s \in SUBSET W : IsFiniteSet(s) /\ Cardinality(s) \in Nat
  BY FS_Subset, FS_CardinalityType
<1>2. \A k \in Nat : \A s \in Up(k + 1) : s # {} => s \ {first(s)} \in Up(k)
  <2> SUFFICES ASSUME NEW k \in Nat, NEW s \in Up(k + 1), s # {} PROVE s \ {first(s)} \in Up(k)
    OBVIOUS
  <2>1. first(s) \in s
    OBVIOUS
  <2> HIDE DEF first
  <2>2. Cardinality(s \ {first(s)}) = Cardinality(s) - 1
    BY <1>1, <2>1, FS_RemoveElement
  <2> QED
    BY <1>1, <2>2
<1>3. 0 \in S
  <2> DEFINE it == [s \in Up(0) |-> 0]
  <2>1. \A s \in Up(0) : s = {}
    BY <1>1, FS_EmptySet
  <2>2. Sums(f, W, 0, it)
    BY <2>1 DEF Sums
  <2> QED
    BY <2>2
<1>4. ASSUME NEW k \in Nat, k \in S PROVE k + 1 \in S
  <2>1. PICK it : Sums(f, W, k, it)
    BY <1>4
  <2> DEFINE new == [s \in Up(k + 1) |-> IF s = {} THEN 0 ELSE f[first(s)] + it[s \ {first(s)}]]
  <2>2. \A s \in Up(k) : new[s] = it[s]
    <3> SUFFICES ASSUME NEW s \in Up(k) PROVE new[s] = it[s]
      OBVIOUS
    <3>1. it[s] = IF s = {} THEN 0 ELSE f[first(s)] + it[s \ {first(s)}]
      BY <2>1 DEF Sums
    <3>2. s \in Up(k + 1)
      BY <1>1
    <3> QED
      BY <3>1, <3>2
  <2>3. \A s \in Up(k + 1) : new[s] = IF s = {} THEN 0 ELSE f[first(s)] + new[s \ {first(s)}]
    <3> SUFFICES ASSUME NEW s \in Up(k + 1)
                 PROVE  new[s] = IF s = {} THEN 0 ELSE f[first(s)] + new[s \ {first(s)}]
      OBVIOUS
    <3>1. new[s] = IF s = {} THEN 0 ELSE f[first(s)] + it[s \ {first(s)}]
      OBVIOUS
    <3>2. s # {} => s \ {first(s)} \in Up(k)
      BY <1>2
    <3> HIDE DEF new, first, Up
    <3> QED
      BY <2>2, <3>1, <3>2
  <2>4. new = [s \in Up(k + 1) |-> IF s = {} THEN 0 ELSE f[first(s)] + new[s \ {first(s)}]]
    <3>1. new = [s \in Up(k + 1) |-> new[s]]
      OBVIOUS
    <3> HIDE DEF new, first, Up
    <3> QED
      BY <2>3, <3>1
  <2>5. Sums(f, W, k + 1, new)
    <3> HIDE DEF new
    <3> QED
      BY <2>4 DEF Sums
  <2> QED
    BY <2>5
<1> HIDE DEF S
<1>5. n \in S
  BY <1>3, <1>4, SetInduction
<1> QED
  BY <1>5 DEF S

Partial(f, W) == CHOOSE it : Sums(f, W, Cardinality(W), it)

\* What the sums over sets of threads are: nothing over none, and each thread's share
\* is added once.
LEMMA PartialSums ==
  ASSUME NEW W, IsFiniteSet(W), NEW f \in [W -> Nat]
  PROVE  /\ Summed(f, W) = Partial(f, W)[W]
         /\ Partial(f, W)[{}] = 0
         /\ \A s \in SUBSET W : Partial(f, W)[s] \in Nat
         /\ \A s \in SUBSET W : \A w \in W :
              w \notin s => Partial(f, W)[s \cup {w}] = Partial(f, W)[s] + f[w]
<1> DEFINE it == Partial(f, W)
           first(s) == CHOOSE x \in s : TRUE
<1>1. \A s \in SUBSET W : /\ IsFiniteSet(s) /\ Cardinality(s) \in Nat
                                /\ Cardinality(s) <= Cardinality(W)
  BY FS_Subset, FS_CardinalityType
<1>2. {t \in SUBSET W : Cardinality(t) <= Cardinality(W)} = SUBSET W
  BY <1>1
<1>3. Summed(f, W) = it[W]
  BY <1>2 DEF Summed, MapThenSumSet, MapThenFoldSet, Partial, Sums
<1>4. Sums(f, W, Cardinality(W), it)
  <2>1. Cardinality(W) \in Nat
    BY <1>1
  <2> QED
    BY <2>1, SumsExist DEF Partial
<1> HIDE DEF it
<1>5. \A s \in SUBSET W : it[s] = IF s = {} THEN 0 ELSE f[first(s)] + it[s \ {first(s)}]
  <2>1. it = [s \in SUBSET W |-> IF s = {} THEN 0 ELSE f[first(s)] + it[s \ {first(s)}]]
    BY <1>2, <1>4 DEF Sums
  <2> HIDE DEF first
  <2> QED
    BY <2>1, Zenon
<1>6. it[{}] = 0
  BY <1>5
<1>7. \A s \in SUBSET W : s # {} => first(s) \in s
  OBVIOUS
<1> HIDE DEF first
<1>8. \A s \in SUBSET W : s # {} => /\ s \ {first(s)} \in SUBSET W
                                          /\ Cardinality(s \ {first(s)}) = Cardinality(s) - 1
  BY <1>1, <1>7, FS_RemoveElement
<1>9. \A s \in SUBSET W : it[s] \in Nat
  <2> DEFINE S == {n \in Nat : \A s \in SUBSET W : Cardinality(s) = n => it[s] \in Nat}
  <2>1. 0 \in S
    <3>1. \A s \in SUBSET W : Cardinality(s) = 0 => s = {}
      BY <1>1, FS_EmptySet
    <3> QED
      BY <1>6, <3>1
  <2>2. ASSUME NEW n \in Nat, n \in S PROVE n + 1 \in S
    <3> SUFFICES ASSUME NEW s \in SUBSET W, Cardinality(s) = n + 1 PROVE it[s] \in Nat
      OBVIOUS
    <3>1. s # {}
      BY n + 1 # 0, FS_EmptySet
    <3>2. first(s) \in W /\ it[s] = f[first(s)] + it[s \ {first(s)}]
      BY <1>5, <1>7, <3>1
    <3>3. it[s \ {first(s)}] \in Nat
      BY <1>8, <2>2, <3>1
    <3> QED
      BY <3>2, <3>3
  <2>3. \A n \in Nat : n \in S
    <3> HIDE DEF S
    <3> QED
      BY <2>1, <2>2, SetInduction
  <2> QED
    BY <1>1, <2>3
<1>10. \A s \in SUBSET W : \A w \in s : it[s] = it[s \ {w}] + f[w]
  <2> DEFINE S == {n \in Nat : \A s \in SUBSET W : \A w \in s :
                     Cardinality(s) = n => it[s] = it[s \ {w}] + f[w]}
  <2>1. 0 \in S
    <3>1. \A s \in SUBSET W : Cardinality(s) = 0 => s = {}
      BY <1>1, FS_EmptySet
    <3> QED
      BY <3>1
  <2>2. ASSUME NEW n \in Nat, n \in S PROVE n + 1 \in S
    <3> SUFFICES ASSUME NEW s \in SUBSET W, NEW w \in s, Cardinality(s) = n + 1
                 PROVE  it[s] = it[s \ {w}] + f[w]
      OBVIOUS
    <3> DEFINE x == first(s)
    <3>1. x \in s /\ it[s] = f[x] + it[s \ {x}]
      BY <1>5, <1>7
    <3> HIDE DEF x
    <3>2. CASE w = x
      BY <1>9, <3>1, <3>2
    <3>3. CASE w # x
      <4>1. \A y \in s : Cardinality(s \ {y}) = n /\ s \ {y} \in SUBSET W
        BY <1>1, FS_RemoveElement
      <4>2. it[s \ {x}] = it[(s \ {x}) \ {w}] + f[w]
        BY <2>2, <3>1, <3>3, <4>1
      <4>3. it[s \ {w}] = it[(s \ {w}) \ {x}] + f[x]
        BY <2>2, <3>1, <3>3, <4>1
      <4>4. (s \ {x}) \ {w} = (s \ {w}) \ {x} /\ (s \ {x}) \ {w} \in SUBSET W
        OBVIOUS
      <4>5. it[(s \ {x}) \ {w}] \in Nat /\ f[w] \in Nat /\ f[x] \in Nat
        BY <1>9, <3>1, <4>4
      <4>6. it[s \ {w}] = it[(s \ {x}) \ {w}] + f[x]
        BY <4>3, <4>4
      <4> QED
        BY <3>1, <4>2, <4>5, <4>6
    <3> QED
      BY <3>2, <3>3
  <2>3. \A n \in Nat : n \in S
    <3> HIDE DEF S
    <3> QED
      BY <2>1, <2>2, SetInduction
  <2> QED
    BY <1>1, <2>3
<1>11. ASSUME NEW s \in SUBSET W, NEW w \in W, w \notin s
       PROVE  it[s \cup {w}] = it[s] + f[w]
  <2>1. (s \cup {w}) \ {w} = s /\ s \cup {w} \in SUBSET W /\ w \in s \cup {w}
    BY <1>11
  <2> QED
    BY <1>10, <2>1
<1> QED
  BY <1>3, <1>6, <1>9, <1>11 DEF it

\* A sum is a natural number.
LEMMA SumIsNatural ==
  ASSUME NEW W, IsFiniteSet(W), NEW f \in [W -> Nat] PROVE Summed(f, W) \in Nat
  BY PartialSums

\* Where two functions differ at one thread only, so do their sums.
LEMMA SumChange ==
  ASSUME NEW W, IsFiniteSet(W), NEW f \in [W -> Nat], NEW g \in [W -> Nat], NEW w \in W,
         \A v \in W : v # w => g[v] = f[v]
  PROVE  Summed(g, W) + f[w] = Summed(f, W) + g[w]
<1> DEFINE F == Partial(f, W)
           H == Partial(g, W)
           S == {s \in SUBSET W : w \notin s => F[s] = H[s]}
<1>1. /\ Summed(f, W) = F[W] /\ F[{}] = 0
      /\ \A s \in SUBSET W : F[s] \in Nat
      /\ \A s \in SUBSET W : \A v \in W : v \notin s => F[s \cup {v}] = F[s] + f[v]
  BY PartialSums
<1>2. /\ Summed(g, W) = H[W] /\ H[{}] = 0
      /\ \A s \in SUBSET W : H[s] \in Nat
      /\ \A s \in SUBSET W : \A v \in W : v \notin s => H[s \cup {v}] = H[s] + g[v]
  BY PartialSums
<1> HIDE DEF F, H
<1>3. \A s \in SUBSET W : s \in S
  <2>1. {} \in S
    BY <1>1, <1>2
  <2>2. ASSUME NEW s \in SUBSET W, NEW v \in W, s \in S PROVE s \cup {v} \in S
    <3>1. CASE v \in s
      <4>1. s \cup {v} = s
        BY <3>1
      <4> QED
        BY <2>2, <4>1
    <3>2. CASE v = w
      BY <3>2
    <3>3. CASE v \notin s /\ v # w
      <4>1. F[s \cup {v}] = F[s] + f[v] /\ H[s \cup {v}] = H[s] + g[v] /\ g[v] = f[v]
        BY <1>1, <1>2, <3>3
      <4>2. w \notin s \cup {v} => F[s] = H[s]
        BY <2>2
      <4> QED
        BY <4>1, <4>2
    <3> QED
      BY <3>1, <3>2, <3>3
  <2> HIDE DEF S
  <2> QED
    BY <2>1, <2>2, SubsetInduction
<1>4. F[W \ {w}] = H[W \ {w}] /\ F[W \ {w}] \in Nat
  BY <1>1, <1>3
<1>5. (W \ {w}) \cup {w} = W
  OBVIOUS
<1>6. F[W] = F[W \ {w}] + f[w] /\ H[W] = H[W \ {w}] + g[w]
  <2>1. PICK s : s = W \ {w}
    OBVIOUS
  <2>2. s \in SUBSET W /\ w \notin s /\ s \cup {w} = W
    BY <1>5, <2>1
  <2>3. F[s \cup {w}] = F[s] + f[w] /\ H[s \cup {w}] = H[s] + g[w]
    BY <1>1, <1>2, <2>2
  <2> QED
    BY <2>1, <2>2, <2>3
<1>7. f[w] \in Nat /\ g[w] \in Nat
  OBVIOUS
<1> QED
  BY <1>1, <1>2, <1>4, <1>6, <1>7
-----------------------------------------------------------------------------
(* HashTables: ways around the table.                                      *)

\* From index a up to index b, around the end of the table if need be.
Steps(a, b) == IF a <= b THEN b - a ELSE b - a + TableSize
Way(k, h) == Steps(firstIndex(k), h)
Indices == 0..(TableSize - 1)
Shaped == TableSize \in Nat \ {0} /\ DOMAIN slots = Indices

\* Steps count what the modulus walks, and tell the indices apart.
LEMMA StepsAre ==
  ASSUME Shaped, NEW a \in Indices
  PROVE  /\ \A b \in Indices : Steps(a, b) \in Indices /\ (a + Steps(a, b)) % TableSize = b
         /\ \A b, c \in Indices : Steps(a, b) = Steps(a, c) => b = c
         /\ \A x \in Indices : (a + x) % TableSize \in Indices /\ Steps(a, (a + x) % TableSize) = x
         /\ (a + TableSize) % TableSize = a
<1> DEFINE n == TableSize
<1>1. n \in Nat \ {0} /\ Indices = 0..(n - 1) /\ a \in 0..(n - 1)
  BY DEF Shaped, Indices
<1>2. \A b : Steps(a, b) = IF a <= b THEN b - a ELSE b - a + n
  BY DEF Steps
<1> HIDE DEF n
<1>3. ASSUME NEW x \in Nat, x <= n PROVE (a + x) % n = IF a + x < n THEN a + x ELSE a + x - n
  BY <1>1, <1>3
<1>4. ASSUME NEW b \in Indices PROVE Steps(a, b) \in Indices /\ (a + Steps(a, b)) % n = b
  <2>1. b \in 0..(n - 1)
    BY <1>1
  <2>2. Steps(a, b) \in 0..(n - 1) /\ Steps(a, b) \in Nat
    BY <1>1, <1>2, <2>1
  <2>3. a + Steps(a, b) = IF a <= b THEN b ELSE b + n
    BY <1>1, <1>2, <2>1
  <2>4. Steps(a, b) <= n
    BY <1>1, <2>2
  <2>5. (a + Steps(a, b)) % n = IF a + Steps(a, b) < n THEN a + Steps(a, b) ELSE a + Steps(a, b) - n
    BY <1>3, <2>2, <2>4
  <2> QED
    BY <1>1, <2>1, <2>2, <2>3, <2>5
<1>5. \A b, c \in Indices : Steps(a, b) = Steps(a, c) => b = c
  BY <1>1, <1>2
<1>6. ASSUME NEW x \in Indices
      PROVE  (a + x) % n \in Indices /\ Steps(a, (a + x) % n) = x
  <2>1. x \in 0..(n - 1) /\ x \in Nat /\ x <= n
    BY <1>1
  <2>2. (a + x) % n = IF a + x < n THEN a + x ELSE a + x - n
    BY <1>3, <2>1
  <2> QED
    BY <1>1, <1>2, <2>1, <2>2
<1>7. (a + n) % n = a
  BY <1>1, <1>3
<1> QED
  BY <1>4, <1>5, <1>6, <1>7 DEF n

\* The next index is one step further, or the first one again.
LEMMA NextStep ==
  ASSUME Shaped, NEW a \in Indices, NEW h \in Indices
  PROVE  /\ incrementIndex(h) \in Indices
         /\ \/ Steps(a, incrementIndex(h)) = Steps(a, h) + 1
            \/ \A g \in Indices : Steps(a, g) <= Steps(a, h)
<1> DEFINE n == TableSize
<1>1. n \in Nat \ {0} /\ Indices = 0..(n - 1) /\ a \in 0..(n - 1) /\ h \in 0..(n - 1)
  BY DEF Shaped, Indices
<1>2. \A b : Steps(a, b) = IF a <= b THEN b - a ELSE b - a + n
  BY DEF Steps
<1>3. incrementIndex(h) = (h + 1) % n
  BY DEF incrementIndex
<1> HIDE DEF n
<1>4. (h + 1) % n = IF h + 1 < n THEN h + 1 ELSE 0
  BY <1>1
<1>5. CASE h + 1 < n
  BY <1>1, <1>2, <1>3, <1>4, <1>5
<1>6. CASE h + 1 = n
  BY <1>1, <1>2, <1>3, <1>4, <1>6
<1> QED
  BY <1>1, <1>5, <1>6

\* A first index is an index.
LEMMA FirstIndices ==
  ASSUME Shaped, NEW k, hash(k) \in Nat PROVE firstIndex(k) \in Indices
<1>1. TableSize \in Nat \ {0} /\ Indices = 0..(TableSize - 1)
  BY DEF Shaped, Indices
<1>2. hash(k) % TableSize \in 0..(TableSize - 1)
  BY <1>1
<1> QED
  BY <1>1, <1>2 DEF firstIndex

\* A table that grows has a size.
LEMMA SizeGrows ==
  ASSUME NEW x \in Nat PROVE log2_size(x) \in Nat \ {0}
<1> DEFINE Ok(n, f) == /\ f \in [0..n -> Nat \ {0}] /\ f[0] = 1
                       /\ \A e \in 1..n : f[e] = IF f[e - 1] >= x THEN f[e - 1] ELSE 2 * f[e - 1]
           S == {n \in Nat : \E f : Ok(n, f)}
<1>1. 0 \in S
  <2>1. Ok(0, [e \in 0..0 |-> 1])
    OBVIOUS
  <2> QED
    BY <2>1
<1>2. ASSUME NEW n \in Nat, n \in S PROVE n + 1 \in S
  <2>1. PICK f : Ok(n, f)
    BY <1>2
  <2> DEFINE last == IF f[n] >= x THEN f[n] ELSE 2 * f[n]
             g == [e \in 0..(n + 1) |-> IF e <= n THEN f[e] ELSE last]
  <2>2. f[n] \in Nat \ {0} /\ last \in Nat \ {0}
    BY <2>1
  <2> HIDE DEF last
  <2>3. g \in [0..(n + 1) -> Nat \ {0}] /\ g[0] = 1
    BY <2>1, <2>2
  <2>4. ASSUME NEW e \in 1..(n + 1)
        PROVE  g[e] = IF g[e - 1] >= x THEN g[e - 1] ELSE 2 * g[e - 1]
    <3>1. CASE e <= n
      BY <2>1, <3>1
    <3>2. CASE e = n + 1
      BY <2>1, <3>2 DEF last
    <3> QED
      BY <3>1, <3>2
  <2> HIDE DEF g
  <2>5. Ok(n + 1, g)
    BY <2>3, <2>4
  <2>6. \E h : Ok(n + 1, h)
    <3> HIDE DEF Ok
    <3> QED
      BY <2>5
  <2> HIDE DEF Ok
  <2> QED
    BY <2>6
<1> HIDE DEF S
<1>a. x \in S
  BY <1>1, <1>2, SetInduction
<1>3. PICK f : Ok(x, f)
  BY <1>a DEF S
<1> DEFINE Is(z) == z = [e \in 0..x |-> IF e = 0 THEN 1 ELSE IF z[e - 1] >= x THEN z[e - 1]
                                                             ELSE 2 * z[e - 1]]
<1>4. Is(f)
  BY <1>3
<1>5. PICK z : z = (CHOOSE y : Is(y)) /\ Is(z)
  <2>1. Is(CHOOSE y : Is(y))
    BY <1>4, Zenon
  <2> QED
    BY <2>1
<1>6. log2_size(x) = z[x]
  BY <1>5 DEF log2_size
<1> DEFINE T == {n \in Nat : n <= x => z[n] \in Nat \ {0}}
<1>7. \A e \in 0..x : z[e] = IF e = 0 THEN 1 ELSE IF z[e - 1] >= x THEN z[e - 1] ELSE 2 * z[e - 1]
  <2> DEFINE R(y, e) == IF e = 0 THEN 1 ELSE IF y[e - 1] >= x THEN y[e - 1] ELSE 2 * y[e - 1]
  <2>1. z = [e \in 0..x |-> R(z, e)]
    BY <1>5
  <2>2. \A e \in 0..x : z[e] = R(z, e)
    <3> HIDE DEF R
    <3> QED
      BY <2>1, Zenon
  <2> QED
    BY <2>2
<1>8. 0 \in T
  BY <1>7
<1>9. ASSUME NEW n \in Nat, n \in T PROVE n + 1 \in T
  <2> SUFFICES ASSUME n + 1 <= x PROVE z[n + 1] \in Nat \ {0}
    OBVIOUS
  <2>1. z[n] \in Nat \ {0}
    BY <1>9
  <2>2. n + 1 \in 0..x /\ (n + 1) - 1 = n /\ n + 1 # 0
    OBVIOUS
  <2>3. z[n + 1] = IF z[n] >= x THEN z[n] ELSE 2 * z[n]
    BY <1>7, <2>2
  <2> QED
    BY <2>1, <2>3
<1> HIDE DEF T
<1>10. x \in T
  BY <1>8, <1>9, SetInduction
<1> QED
  BY <1>6, <1>10 DEF T

-----------------------------------------------------------------------------
(* HashTables: the invariant.                                              *)

Probing(w) == job[w].pc \in {"load", "act"}
Unwritten == {<<p[1], NoValue>> : p \in TablePairs}
Cells == TablePairs \cup {EmptySlot} \cup (IF hin.kind = "sparse" THEN Unwritten ELSE {})
Jobs == [kv : TablePairs \cup {EmptySlot}, h : Nat, c : Cells,
         pc : {"idle", "load", "act", "value"}, own : TablePairs \cup {EmptySlot}]

TableTypes ==
  /\ hin \in TableInputs
  /\ TableSize \in Nat \ {0} /\ slots \in [Indices -> Cells]
  /\ hin.kind # "resizable" => TableSize = hin.m
  /\ mode \in {"insert", "resize", "quiet", "fill"}
  /\ waiting \subseteq DOMAIN hin.pairs /\ old_t \subseteq TablePairs
  /\ job \in [Threads -> Jobs]
  /\ \A w \in Threads : job[w].pc # "idle" =>
       /\ job[w].h \in Indices /\ job[w].kv \in TablePairs /\ job[w].own \in TablePairs
       /\ hin.kind # "pbbs" => job[w].own = job[w].kv
  /\ ne \in Nat /\ cts \in [Threads -> Nat] /\ won \in Seq(TablePairs)

\* What each mode says: who still inserts, and which keys are deleted.
Modes ==
  /\ mode \in {"quiet", "fill"} =>
       waiting = {} /\ AllIdle /\ old_t = {} /\ cts = [w \in Threads |-> 0]
  /\ mode = "resize" => waiting = {} /\ hin.kind = "resizable"
  /\ mode = "insert" => old_t = {}
  /\ mode = "fill" => hole \in Indices /\ slots[hole] # EmptySlot
  /\ \E n \in 0..Len(hin.deletes) :
       /\ deletes = SubSeq(hin.deletes, n + 1, Len(hin.deletes))
       /\ mode \notin {"quiet", "fill"} => n = 0
       /\ mode = "fill" => n # 0

\* The insertion of e goes on where the slot g holds this.
Passes(e, g) ==
  /\ slots[g] # EmptySlot
  /\ CASE hin.kind = "sparse" -> slots[g][1] # e[1]
       [] hin.kind = "resizable" -> slots[g] # e
       [] OTHER -> slots[g][1] > e[1]
PassesTo(e, h) == \A g \in Indices : Way(e[1], g) < Way(e[1], h) => Passes(e, g)
PassesAll(e) == \A g \in Indices : Passes(e, g)

\* What is in the table or on its way has passed all the slots before.
Placed == mode # "fill" => \A h \in Indices : slots[h] # EmptySlot => PassesTo(slots[h], h)
Travels ==
  \A w \in Threads : Probing(w) => PassesTo(job[w].kv, job[w].h) \/ PassesAll(job[w].kv)

\* In a pbbs table the keys of a slot only grow: what a thread has read is no higher.
Loads ==
  \A w \in Threads : job[w].pc = "act" /\ job[w].c # EmptySlot =>
    /\ slots[job[w].h] # EmptySlot
    /\ hin.kind = "pbbs" => slots[job[w].h][1] >= job[w].c[1]

\* Slots without their value: each has one thread that writes it.
Claims ==
  /\ \A w \in Threads : job[w].pc = "value" =>
       hin.kind = "sparse" /\ slots[job[w].h] = <<job[w].kv[1], NoValue>>
  /\ \A v, w \in Threads : job[v].pc = "value" /\ job[w].pc = "value" /\ job[v].h = job[w].h => v = w
  /\ \A h \in Indices : slots[h][2] = NoValue => \E w \in Threads : job[w].pc = "value" /\ job[w].h = h

\* What was taken stays: it is in the table, still to be moved, or with a thread
\* that is not about to drop it.
Alike(e, f) == IF hin.kind = "resizable" THEN e = f ELSE e[1] = f[1]
Dropping(w) == job[w].pc = "act" /\ hin.kind = "pbbs" /\ job[w].c[1] = job[w].kv[1]
Present(p) ==
  \/ \E h \in Indices : Alike(slots[h], p)
  \/ p \in old_t
  \/ \E w \in Threads : Probing(w) /\ ~Dropping(w) /\ Alike(job[w].kv, p)
Kept ==
  mode \in {"insert", "resize"} => \A i \in (DOMAIN hin.pairs) \ waiting : Present(hin.pairs[i])
Drops == \A w \in Threads : Dropping(w) => Present(job[w].kv)

\* The counts count the slots that are full, and hold the pairs that won.
Full == {h \in Indices : slots[h] # EmptySlot /\ slots[h][2] # NoValue}
AllCounted == deletes = hin.deletes => ne + Summed(cts, Threads) = Cardinality(Full)
WinsAre == hin.kind = "sparse" => {won[i] : i \in DOMAIN won} = {slots[h] : h \in Full}

\* A deletion has a hole: an entry has passed all the slots before it but the hole,
\* what lies in the hole is there once more or deleted, and the slots from the first
\* index of a key that is gone to the hole are full.
Others == Indices \ {hole}
Holed ==
  mode = "fill" => \A h \in Others : slots[h] # EmptySlot =>
    \A g \in Others : Way(slots[h][1], g) < Way(slots[h][1], h) => Passes(slots[h], g)
FullUpTo(k) == \A g \in Others : Way(k, g) < Way(k, hole) => slots[g] # EmptySlot
KeysIn(S) == {slots[h][1] : h \in {g \in S : slots[g] # EmptySlot}}
Left ==
  /\ mode = "quiet" => KeysIn(Indices) = TableKeys \ Deleted
  /\ mode = "quiet" /\ hin.kind = "resizable" => TablePairs \subseteq Entries(slots)
  /\ mode = "fill" => KeysIn(Others) = TableKeys \ Deleted /\ \E k \in TableKeys \cap Deleted : FullUpTo(k)

TableInv ==
  /\ TableTypes /\ Modes /\ Placed /\ Travels /\ Loads /\ Claims /\ Kept /\ Drops
  /\ AllCounted /\ WinsAre /\ Holed /\ Left

-----------------------------------------------------------------------------
(* HashTables: what the types say.                                         *)

\* The pairs are of naturals, and only an empty slot has the key of an empty slot.
LEMMA CellsAre ==
  ASSUME TableTypes
  PROVE  /\ Shaped /\ TableSize \in Nat \ {0} /\ Indices = DOMAIN slots
         /\ \A p \in TablePairs : /\ p[1] \in Nat /\ p[2] \in Nat /\ p = <<p[1], p[2]>>
                                  /\ p # EmptySlot /\ p[1] \in TableKeys
                                  /\ p[1] # EmptySlot[1] /\ p[2] # NoValue
         /\ \A c \in Cells : /\ c = EmptySlot <=> c[1] = EmptySlot[1]
                             /\ c # EmptySlot => c[1] \in Nat /\ c[1] \in TableKeys
                             /\ c \in TablePairs <=> c # EmptySlot /\ c[2] # NoValue
                             /\ hin.kind # "sparse" => c \in TablePairs \cup {EmptySlot}
         /\ EmptySlot \in Cells /\ TablePairs \subseteq Cells /\ EmptySlot[2] # NoValue
         /\ EmptySlot[1] = -1
<1>1. hin.pairs \in Seq(Nat \X Nat)
  BY HashTablesAssumption DEF TableTypes
<1>2. \A i \in DOMAIN hin.pairs : hin.pairs[i] \in Nat \X Nat
  BY <1>1
<1>3. \A p \in TablePairs : p \in Nat \X Nat
  BY <1>2 DEF TablePairs
<1>4. \A p \in TablePairs : p[1] \in Nat /\ p[2] \in Nat /\ p = <<p[1], p[2]>>
  BY <1>3
<1>5. EmptySlot[1] = -1 /\ EmptySlot[2] = -1 /\ NoValue = -2
  BY DEF EmptySlot, NoValue
<1>6. ASSUME NEW p \in TablePairs
      PROVE  /\ p # EmptySlot /\ p[1] \in TableKeys
             /\ p[1] # EmptySlot[1] /\ p[2] # NoValue
  BY <1>4, <1>5 DEF TableKeys
<1>7. ASSUME NEW c \in Cells
      PROVE  /\ c = EmptySlot <=> c[1] = EmptySlot[1]
             /\ c # EmptySlot => c[1] \in Nat /\ c[1] \in TableKeys
             /\ c \in TablePairs <=> c # EmptySlot /\ c[2] # NoValue
             /\ hin.kind # "sparse" => c \in TablePairs \cup {EmptySlot}
  <2>1. CASE c \in TablePairs
    BY <1>4, <1>6, <2>1
  <2>2. CASE c = EmptySlot
    BY <1>6, <2>2
  <2>3. CASE hin.kind = "sparse" /\ c \in Unwritten
    <3>1. PICK p \in TablePairs : c = <<p[1], NoValue>>
      BY <2>3 DEF Unwritten
    <3>2. c[1] = p[1] /\ c[2] = NoValue
      BY <3>1
    <3> QED
      BY <1>4, <1>5, <1>6, <2>3, <3>2
  <2> QED
    BY <2>1, <2>2, <2>3 DEF Cells
<1>8. EmptySlot \in Cells /\ TablePairs \subseteq Cells /\ EmptySlot[2] # NoValue
  BY <1>5 DEF Cells
<1>9. TableSize \in Nat \ {0} /\ Indices = DOMAIN slots
  BY DEF TableTypes
<1> QED
  BY <1>4, <1>5, <1>6, <1>7, <1>8, <1>9 DEF Shaped

\* The first index of each key that is inserted.
LEMMA KeyIndices ==
  ASSUME TableTypes
  PROVE  \A k \in TableKeys : firstIndex(k) \in Indices
<1> SUFFICES ASSUME NEW k \in TableKeys PROVE firstIndex(k) \in Indices
  OBVIOUS
<1>1. PICK i \in DOMAIN hin.pairs : k = hin.pairs[i][1]
  BY DEF TableKeys, TablePairs
<1>2. hash(k) \in Nat
  BY <1>1, HashTablesAssumption DEF TableTypes
<1>3. Shaped
  BY CellsAre
<1> QED
  BY <1>2, <1>3, FirstIndices

\* Where the table keeps its size nothing moves.
LEMMA SameShape ==
  ASSUME DOMAIN slots' = DOMAIN slots
  PROVE  /\ TableSize' = TableSize /\ Indices' = Indices
         /\ \A k : firstIndex(k)' = firstIndex(k)
         /\ \A a, b : Steps(a, b)' = Steps(a, b)
         /\ \A k, h : Way(k, h)' = Way(k, h)
<1>1. TableSize' = TableSize
  BY DEF TableSize
<1>2. \A k : firstIndex(k)' = firstIndex(k)
  BY <1>1 DEF firstIndex
<1>3. \A a, b : Steps(a, b)' = Steps(a, b)
  BY <1>1 DEF Steps
<1>4. \A k, h : Way(k, h)' = Way(k, h)
  BY <1>1, <1>2 DEF Way, Steps
<1> QED
  BY <1>1, <1>2, <1>3, <1>4 DEF Indices

\* After a slot comes the next one, or all of them have been visited.
LEMMA Onward ==
  ASSUME TableTypes, NEW k \in TableKeys, NEW h \in Indices
  PROVE  /\ incrementIndex(h) \in Indices
         /\ \/ \A g \in Indices : Way(k, g) < Way(k, incrementIndex(h)) =>
                                 g = h \/ Way(k, g) < Way(k, h)
            \/ \A g \in Indices : g = h \/ Way(k, g) < Way(k, h)
<1> DEFINE a == firstIndex(k)
           n == incrementIndex(h)
<1>1. Shaped /\ a \in Indices
  BY CellsAre, KeyIndices
<1>2. /\ n \in Indices
      /\ \/ Steps(a, n) = Steps(a, h) + 1
         \/ \A g \in Indices : Steps(a, g) <= Steps(a, h)
  BY <1>1, NextStep
<1>3. /\ \A g \in Indices : Steps(a, g) \in Nat
      /\ \A g \in Indices : Steps(a, g) = Steps(a, h) => g = h
  <2>1. /\ \A g \in Indices : Steps(a, g) \in Indices
        /\ \A g \in Indices : Steps(a, g) = Steps(a, h) => g = h
    BY <1>1, StepsAre
  <2>2. \A x \in Indices : x \in Nat
    BY DEF Indices
  <2> QED
    BY <2>1, <2>2
<1>4. \A g : Way(k, g) = Steps(a, g)
  BY DEF Way
<1> HIDE DEF a, n
<1>5. ASSUME Steps(a, n) = Steps(a, h) + 1, NEW g \in Indices, Steps(a, g) < Steps(a, n)
      PROVE  g = h \/ Steps(a, g) < Steps(a, h)
  BY <1>3, <1>5
<1>6. ASSUME NEW g \in Indices, Steps(a, g) <= Steps(a, h)
      PROVE  g = h \/ Steps(a, g) < Steps(a, h)
  BY <1>3, <1>6
<1> QED
  BY <1>2, <1>4, <1>5, <1>6 DEF n

\* Nobody is before the first index.
LEMMA StartsThere ==
  ASSUME TableTypes, NEW e, e[1] \in TableKeys
  PROVE  firstIndex(e[1]) \in Indices /\ PassesTo(e, firstIndex(e[1]))
<1> DEFINE a == firstIndex(e[1])
<1>1. Shaped /\ a \in Indices /\ TableSize \in Nat \ {0}
  BY CellsAre, KeyIndices
<1>2. Way(e[1], a) = 0
  BY <1>1 DEF Way, Steps, Indices
<1>3. \A g \in Indices : Way(e[1], g) \in Nat
  <2>1. \A g \in Indices : Steps(a, g) \in Indices
    BY <1>1, StepsAre
  <2>2. \A x \in Indices : x \in Nat
    BY DEF Indices
  <2> QED
    BY <2>1, <2>2 DEF Way
<1> HIDE DEF a
<1> QED
  BY <1>1, <1>2, <1>3 DEF PassesTo, a

-----------------------------------------------------------------------------
(* HashTables: a thread's step.                                            *)

\* A slot that is taken stays taken, and who passed it passes it still.
Rises(g) ==
  \/ slots'[g] = slots[g]
  \/ slots[g] = EmptySlot /\ slots'[g] # EmptySlot
  \/ hin.kind = "sparse" /\ slots[g] # EmptySlot /\ slots'[g][1] = slots[g][1]
  \/ hin.kind = "pbbs" /\ slots[g] # EmptySlot /\ slots'[g][1] > slots[g][1]

Moves(w) ==
  /\ hin' = hin /\ DOMAIN slots' = DOMAIN slots /\ deletes' = deletes
  /\ mode \in {"insert", "resize"} /\ mode' = mode
  /\ waiting' \subseteq waiting /\ old_t' \subseteq old_t
  /\ \A v \in Threads : v # w => job'[v] = job[v]
  /\ \A g \in Indices : Rises(g)

\* What depends on the input and on the size only.
LEMMA Frame ==
  ASSUME hin' = hin, DOMAIN slots' = DOMAIN slots
  PROVE  /\ TablePairs' = TablePairs /\ TableKeys' = TableKeys /\ Cells' = Cells
         /\ Jobs' = Jobs /\ Indices' = Indices /\ TableSize' = TableSize
<1>1. TablePairs' = TablePairs
  BY DEF TablePairs
<1>2. TableKeys' = TableKeys /\ Cells' = Cells
  BY <1>1 DEF TableKeys, Cells, Unwritten
<1>3. Jobs' = Jobs
  BY <1>1, <1>2 DEF Jobs
<1> QED
  BY <1>1, <1>2, <1>3, SameShape

\* A thread's step keeps the kinds of values when what it assigns is of its kind.
LEMMA TypesKeep ==
  ASSUME TableTypes, NEW w \in Threads, Moves(w),
         slots' \in [Indices -> Cells], job' \in [Threads -> Jobs],
         job'[w].pc # "idle" =>
           /\ job'[w].h \in Indices /\ job'[w].kv \in TablePairs /\ job'[w].own \in TablePairs
           /\ hin.kind # "pbbs" => job'[w].own = job'[w].kv,
         ne' \in Nat, cts' \in [Threads -> Nat], won' \in Seq(TablePairs)
  PROVE  TableTypes'
<1>1. /\ TablePairs' = TablePairs /\ Cells' = Cells /\ Jobs' = Jobs
      /\ Indices' = Indices /\ TableSize' = TableSize /\ hin' = hin
  BY Frame DEF Moves
<1>2. hin' \in TableInputs /\ TableSize' \in Nat \ {0} /\ slots' \in [Indices' -> Cells']
  BY <1>1 DEF TableTypes
<1>3. mode' \in {"insert", "resize", "quiet", "fill"}
  BY DEF Moves
<1>4. waiting' \subseteq DOMAIN hin'.pairs /\ old_t' \subseteq TablePairs'
  BY <1>1 DEF Moves, TableTypes
<1>5. ASSUME NEW v \in Threads, job'[v].pc # "idle"
      PROVE  /\ job'[v].h \in Indices' /\ job'[v].kv \in TablePairs' /\ job'[v].own \in TablePairs'
             /\ hin'.kind # "pbbs" => job'[v].own = job'[v].kv
  <2>1. CASE v = w
    BY <1>1, <1>5, <2>1
  <2>2. CASE v # w
    BY <1>1, <1>5, <2>2 DEF Moves, TableTypes
  <2> QED
    BY <2>1, <2>2
<1> QED
  BY <1>1, <1>2, <1>3, <1>4, <1>5 DEF TableTypes

\* Where keys only rise a slot that was passed would be passed again.
LEMMA PassesStay ==
  ASSUME TableTypes, TableTypes', hin' = hin, DOMAIN slots' = DOMAIN slots,
         NEW g \in Indices, Rises(g), NEW e, e[1] \in Int, Passes(e, g)
  PROVE  Passes(e, g)'
<1>1. slots[g] \in Cells /\ slots'[g] \in Cells
  BY Frame DEF TableTypes
<1>2. \A c \in Cells : (c = EmptySlot <=> c[1] = EmptySlot[1]) /\ c[1] \in Int
  BY CellsAre
<1>3. EmptySlot[1] = -1
  BY CellsAre
<1>4. slots[g] # EmptySlot
  BY DEF Passes
<1>5. CASE hin.kind = "sparse"
  <2>1. slots'[g][1] = slots[g][1]
    BY <1>4, <1>5 DEF Rises
  <2>2. slots[g][1] # e[1]
    BY <1>5 DEF Passes
  <2> QED
    BY <1>1, <1>2, <1>4, <1>5, <2>1, <2>2 DEF Passes
<1>6. CASE hin.kind = "resizable"
  <2>1. slots'[g] = slots[g]
    BY <1>4, <1>6 DEF Rises
  <2> QED
    BY <1>6, <2>1 DEF Passes
<1>7. CASE hin.kind = "pbbs"
  <2>1. slots'[g][1] >= slots[g][1]
    BY <1>1, <1>2, <1>4, <1>7 DEF Rises
  <2>2. slots[g][1] > e[1]
    BY <1>7 DEF Passes
  <2>3. slots[g][1] \in Nat
    BY <1>1, <1>4, CellsAre
  <2>4. slots'[g] # EmptySlot /\ slots'[g][1] > e[1]
    BY <1>1, <1>2, <1>3, <2>1, <2>2, <2>3
  <2> QED
    BY <1>7, <2>4 DEF Passes
<1> QED
  BY <1>5, <1>6, <1>7, HashTablesAssumption DEF TableTypes

\* So what was passed up to a slot still is.
LEMMA PathsStay ==
  ASSUME TableTypes, TableTypes', hin' = hin, DOMAIN slots' = DOMAIN slots,
         \A g \in Indices : Rises(g), NEW e, e[1] \in Int
  PROVE  /\ \A h : PassesTo(e, h) => PassesTo(e, h)'
         /\ PassesAll(e) => PassesAll(e)'
<1>1. \A g \in Indices : Passes(e, g) => Passes(e, g)'
  BY PassesStay
<1>2. Indices' = Indices /\ \A h : Way(e[1], h)' = Way(e[1], h)
  BY SameShape
<1>3. ASSUME NEW h, PassesTo(e, h) PROVE PassesTo(e, h)'
  BY <1>1, <1>2, <1>3 DEF PassesTo
<1>4. ASSUME PassesAll(e) PROVE PassesAll(e)'
  BY <1>1, <1>2, <1>4 DEF PassesAll
<1> QED
  BY <1>3, <1>4

\* What a step stores has passed the slots before, and the thread goes on right.
GoesOn(e, h) ==
  \/ PassesTo(e, h) \/ PassesAll(e)
  \/ \E g \in Indices : /\ h = incrementIndex(g) /\ Passes(e, g)'
                        /\ PassesTo(e, g) \/ PassesAll(e)

\* So whatever was placed or travels has still passed the slots before it.
LEMMA PathsKeep ==
  ASSUME TableInv, TableTypes', NEW w \in Threads, Moves(w),
         \A h \in Indices : slots'[h] # EmptySlot => PassesTo(slots'[h], h),
         Probing(w)' => \E e, h : e = job'[w].kv /\ h = job'[w].h /\ GoesOn(e, h),
         job'[w].pc = "act" /\ job'[w].c # EmptySlot =>
           /\ slots'[job'[w].h] # EmptySlot
           /\ hin.kind = "pbbs" => slots'[job'[w].h][1] >= job'[w].c[1]
  PROVE  Modes' /\ Placed' /\ Travels' /\ Loads' /\ Holed' /\ Left'
<1> USE DEF TableInv
<1>1. /\ Indices' = Indices /\ hin' = hin /\ TableKeys' = TableKeys /\ TablePairs' = TablePairs
      /\ \A k, h : Way(k, h)' = Way(k, h)
      /\ DOMAIN slots' = DOMAIN slots /\ \A g \in Indices : Rises(g)
      /\ \A v \in Threads : v # w => job'[v] = job[v]
  BY Frame, SameShape DEF Moves
<1>2. Modes'
  BY DEF Modes, Moves
<1>3. Placed'
  <2> SUFFICES ASSUME NEW h \in Indices, slots'[h] # EmptySlot PROVE PassesTo(slots[h], h)'
    BY <1>1 DEF Placed
  <2>1. PICK e : e = slots'[h]
    OBVIOUS
  <2>2. e \in Cells /\ e # EmptySlot
    BY <2>1, Frame DEF TableTypes, Moves
  <2>3. e[1] \in Int
    BY <2>2, CellsAre
  <2>4. PassesTo(e, h)
    BY <2>1
  <2>5. PassesTo(e, h)'
    BY <1>1, <2>3, <2>4, PathsStay
  <2> QED
    BY <2>1, <2>5 DEF PassesTo, Passes
<1>4. ASSUME NEW v \in Threads, Probing(v)'
      PROVE  PassesTo(job[v].kv, job[v].h)' \/ PassesAll(job[v].kv)'
  <2>1. PICK e, h : e = job'[v].kv /\ h = job'[v].h
    OBVIOUS
  <2>2. e \in TablePairs /\ h \in Indices
    BY <1>1, <1>4, <2>1 DEF TableTypes, Probing
  <2>3. e[1] \in Int /\ e[1] \in TableKeys
    BY <2>2, CellsAre
  <2>4. /\ \A g : PassesTo(e, g) => PassesTo(e, g)'
        /\ PassesAll(e) => PassesAll(e)'
    BY <1>1, <2>3, PathsStay
  <2>5. CASE PassesTo(e, h) \/ PassesAll(e)
    BY <2>1, <2>4, <2>5 DEF PassesTo, PassesAll, Passes
  <2>6. CASE v # w
    <3>1. PassesTo(e, h) \/ PassesAll(e)
      BY <1>1, <1>4, <2>1, <2>6 DEF Travels, Probing
    <3> QED
      BY <2>5, <3>1
  <2>7. ASSUME NEW g \in Indices, h = incrementIndex(g), Passes(e, g)', PassesTo(e, g) \/ PassesAll(e)
        PROVE  PassesTo(e, h)' \/ PassesAll(e)'
    <3>1. \/ \A x \in Indices : Way(e[1], x) < Way(e[1], h) => x = g \/ Way(e[1], x) < Way(e[1], g)
          \/ \A x \in Indices : x = g \/ Way(e[1], x) < Way(e[1], g)
      BY <2>3, <2>7, Onward
    <3>2. ASSUME PassesTo(e, g)', NEW x \in Indices, x = g \/ Way(e[1], x) < Way(e[1], g)
          PROVE  Passes(e, x)'
      BY <1>1, <2>7, <3>2 DEF PassesTo
    <3>3. CASE PassesTo(e, g)'
      BY <1>1, <3>1, <3>2, <3>3 DEF PassesTo, PassesAll
    <3> QED
      BY <2>4, <2>7, <3>3
  <2>8. CASE v = w
    <3>1. GoesOn(e, h)
      BY <1>4, <2>1, <2>8
    <3>2. PassesTo(e, h)' \/ PassesAll(e)'
      BY <2>4, <2>7, <3>1 DEF GoesOn
    <3> QED
      BY <2>1, <3>2 DEF PassesTo, PassesAll, Passes
  <2> QED
    BY <2>6, <2>8
<1>5. Travels'
  BY <1>4 DEF Travels
<1>6. ASSUME NEW v \in Threads, job'[v].pc = "act", job'[v].c # EmptySlot
      PROVE  /\ slots'[job'[v].h] # EmptySlot
             /\ hin'.kind = "pbbs" => slots'[job'[v].h][1] >= job'[v].c[1]
  <2>1. CASE v = w
    BY <1>1, <1>6, <2>1
  <2>2. CASE v # w
    <3>1. PICK h : h = job[v].h
      OBVIOUS
    <3>2. /\ job'[v] = job[v] /\ h \in Indices /\ Rises(h)
          /\ slots[h] # EmptySlot
          /\ hin.kind = "pbbs" => slots[h][1] >= job[v].c[1]
      BY <1>1, <1>6, <2>2, <3>1 DEF Loads, TableTypes
    <3>3. slots[h] \in Cells /\ slots'[h] \in Cells /\ job[v].c \in Cells
      BY <3>2, Frame DEF TableTypes, Moves, Jobs
    <3>4. \A c \in Cells : (c = EmptySlot <=> c[1] = EmptySlot[1]) /\ (c # EmptySlot => c[1] \in Nat)
      BY CellsAre
    <3>5. EmptySlot[1] = -1
      BY CellsAre
    <3>6. slots[h][1] \in Nat /\ slots'[h][1] \in Int /\ job[v].c[1] \in Int
      BY <3>2, <3>3, <3>4, <3>5
    <3>7. slots'[h] # EmptySlot /\ (hin.kind = "pbbs" => slots'[h][1] >= slots[h][1])
      BY <3>2, <3>3, <3>4, <3>5, <3>6 DEF Rises
    <3> QED
      BY <1>1, <3>1, <3>2, <3>6, <3>7
  <2> QED
    BY <2>1, <2>2
<1>7. Loads'
  BY <1>6 DEF Loads
<1>8. Holed' /\ Left'
  BY DEF Holed, Left, Moves
<1> QED
  BY <1>2, <1>3, <1>5, <1>7, <1>8

Carries(w, p) == Probing(w) /\ ~Dropping(w) /\ Alike(job[w].kv, p)

\* What is present stays present: an entry whose slot is taken over goes on with the
\* thread, and what the thread carried goes on or lies in a slot.
LEMMA PresentKeeps ==
  ASSUME NEW w \in Threads, hin' = hin, DOMAIN slots' = DOMAIN slots,
         \A v \in Threads : v # w => job'[v] = job[v],
         NEW p,
         \A h \in Indices : Alike(slots[h], p) => Alike(slots'[h], p) \/ Carries(w, p)',
         p \in old_t => p \in old_t' \/ Carries(w, p)',
         Carries(w, p) => Carries(w, p)' \/ \E h \in Indices : Alike(slots'[h], p),
         Present(p)
  PROVE  Present(p)'
<1>1. Indices' = Indices /\ \A e, f : Alike(e, f)' = Alike(e, f)
  BY SameShape DEF Alike
<1>2. CASE \E h \in Indices : Alike(slots'[h], p)
  <2>1. (\E h \in Indices : Alike(slots[h], p))'
    BY <1>1, <1>2 DEF Alike
  <2> QED
    BY <2>1 DEF Present
<1>3. CASE Carries(w, p)'
  BY <1>3 DEF Present, Carries
<1>4. CASE p \in old_t
  BY <1>3, <1>4 DEF Present
<1>5. CASE \E h \in Indices : Alike(slots[h], p)
  BY <1>2, <1>3, <1>5
<1>6. CASE \E v \in Threads : Carries(v, p)
  <2>1. PICK v \in Threads : Carries(v, p)
    BY <1>6
  <2>2. CASE v = w
    BY <1>2, <1>3, <2>1, <2>2
  <2>3. CASE v # w
    <3>1. Carries(v, p)'
      BY <1>1, <2>1, <2>3 DEF Carries, Probing, Dropping, Alike
    <3> QED
      BY <3>1 DEF Present, Carries
  <2> QED
    BY <2>2, <2>3
<1> QED
  BY <1>4, <1>5, <1>6 DEF Present, Carries

\* So what was taken is kept.
LEMMA KeptStays ==
  ASSUME TableInv, NEW w \in Threads, Moves(w), TableTypes',
         \A p \in TablePairs : Present(p) => Present(p)',
         \A i \in waiting \ waiting' : Present(hin.pairs[i])',
         Dropping(w)' => Present(job[w].kv)'
  PROVE  Kept' /\ Drops'
<1> USE DEF TableInv
<1>1. hin' = hin /\ \A v \in Threads : v # w => job'[v] = job[v]
  BY DEF Moves
<1>2. ASSUME NEW i \in (DOMAIN hin.pairs) \ waiting' PROVE Present(hin.pairs[i])'
  <2>1. CASE i \in waiting
    BY <1>2, <2>1
  <2>2. CASE i \notin waiting
    <3>1. Present(hin.pairs[i]) /\ hin.pairs[i] \in TablePairs
      BY <2>2 DEF Kept, Moves, TablePairs
    <3>2. PICK p : p = hin.pairs[i]
      OBVIOUS
    <3>3. Present(p)'
      BY <3>1, <3>2
    <3>4. p = hin'.pairs[i]
      BY <1>1, <3>2
    <3> QED
      BY <3>3, <3>4 DEF Present, Alike
  <2> QED
    BY <2>1, <2>2
<1>3. Kept'
  BY <1>1, <1>2 DEF Kept
<1>4. ASSUME NEW v \in Threads, Dropping(v)' PROVE Present(job[v].kv)'
  <2>1. CASE v = w
    BY <1>4, <2>1
  <2>2. CASE v # w
    <3>1. PICK p : p = job[v].kv
      OBVIOUS
    <3>2. job'[v] = job[v] /\ Dropping(v)
      BY <1>1, <1>4, <2>2 DEF Dropping
    <3>3. p \in TablePairs
      BY <3>1, <3>2 DEF Dropping, TableTypes
    <3>4. Present(p)
      BY <3>1, <3>2 DEF Drops
    <3>5. Present(p)'
      BY <3>3, <3>4
    <3> QED
      BY <3>1, <3>2, <3>5 DEF Present, Alike
  <2> QED
    BY <2>1, <2>2
<1> QED
  BY <1>3, <1>4 DEF Drops

\* A step that fills a slot, or counts nothing.
LEMMA FullIsFinite == ASSUME TableTypes PROVE IsFiniteSet(Indices) /\ IsFiniteSet(Full)
<1>1. TableSize \in Nat
  BY DEF TableTypes
<1>2. IsFiniteSet(Indices)
  BY <1>1, FS_Interval DEF Indices
<1> QED
  BY <1>2, FS_Subset DEF Full

\* A step that counts nothing and fills no slot.
LEMMA CountStays ==
  ASSUME TableInv, hin' = hin, deletes' = deletes, ne' = ne, cts' = cts, Full' = Full
  PROVE  AllCounted'
  BY DEF TableInv, AllCounted

\* A step that counts one and fills one slot.
LEMMA CountGrows ==
  ASSUME TableInv, TableTypes', NEW w \in Threads, hin' = hin, deletes' = deletes, ne' = ne,
         cts' = [cts EXCEPT ![w] = @ + 1], NEW h, h \notin Full, Full' = Full \cup {h}
  PROVE  AllCounted'
<1>1. cts \in [Threads -> Nat] /\ cts' \in [Threads -> Nat] /\ IsFiniteSet(Threads) /\ ne \in Nat
  BY HashTablesAssumption DEF TableInv, TableTypes
<1>2. \A v \in Threads : v # w => cts'[v] = cts[v]
  BY <1>1
<1>3. Summed(cts', Threads) + cts[w] = Summed(cts, Threads) + cts'[w]
  <2>1. PICK f, g : f = cts /\ g = cts'
    OBVIOUS
  <2>2. f \in [Threads -> Nat] /\ g \in [Threads -> Nat] /\ \A v \in Threads : v # w => g[v] = f[v]
    BY <1>1, <1>2, <2>1
  <2>3. Summed(g, Threads) + f[w] = Summed(f, Threads) + g[w]
    BY <1>1, <2>2, SumChange
  <2> QED
    BY <2>1, <2>3
<1>4. Summed(cts', Threads) \in Nat /\ Summed(cts, Threads) \in Nat
  BY <1>1, SumIsNatural
<1>5. cts'[w] = cts[w] + 1 /\ cts[w] \in Nat
  BY <1>1
<1>6. IsFiniteSet(Full)
  BY FullIsFinite DEF TableInv
<1>7. Cardinality(Full') = Cardinality(Full) + 1 /\ Cardinality(Full) \in Nat
  BY <1>6, FS_AddElement, FS_CardinalityType
<1>8. (deletes = hin.deletes) => ne + Summed(cts, Threads) = Cardinality(Full)
  BY DEF TableInv, AllCounted
<1>9. (deletes' = hin'.deletes) => ne' + Summed(cts', Threads) = Cardinality(Full')
  BY <1>1, <1>4, <1>5, <1>7, <1>8, <1>3
<1> QED
  BY <1>9 DEF AllCounted

\* Where no slot waits for its value nobody writes one.
LEMMA NoClaims ==
  ASSUME TableTypes, TableTypes', hin' = hin, DOMAIN slots' = DOMAIN slots,
         hin.kind # "sparse", \A v \in Threads : job'[v].pc # "value"
  PROVE  Claims'
<1>1. \A h \in Indices' : slots'[h] \in Cells
  BY Frame DEF TableTypes
<1>2. \A c \in Cells : c[2] # NoValue
  BY CellsAre
<1> QED
  BY <1>1, <1>2 DEF Claims

\* Nor does a step that neither claims nor writes.
LEMMA ClaimsStay ==
  ASSUME TableInv, NEW w \in Threads, hin' = hin, slots' = slots,
         \A v \in Threads : v # w => job'[v] = job[v], job[w].pc # "value", job'[w].pc # "value"
  PROVE  Claims'
<1>1. Indices' = Indices
  BY SameShape
<1>2. Claims
  BY DEF TableInv
<1>3. \A v \in Threads : job'[v].pc = "value" => job'[v] = job[v] /\ job[v].pc = "value"
  OBVIOUS
<1>4. \A v \in Threads : job[v].pc = "value" => job'[v] = job[v]
  OBVIOUS
<1> QED
  BY <1>1, <1>2, <1>3, <1>4 DEF Claims

\* A step that stores nothing.
LEMMA ReadKeeps ==
  ASSUME TableInv, NEW w \in Threads, Moves(w), slots' = slots, ne' = ne, cts' = cts, won' = won,
         job' \in [Threads -> Jobs], job[w].pc # "value", job'[w].pc # "value",
         job'[w].pc # "idle" =>
           /\ job'[w].h \in Indices /\ job'[w].kv \in TablePairs /\ job'[w].own \in TablePairs
           /\ hin.kind # "pbbs" => job'[w].own = job'[w].kv,
         Probing(w)' => \E e, h : e = job'[w].kv /\ h = job'[w].h /\ GoesOn(e, h),
         job'[w].pc = "act" /\ job'[w].c # EmptySlot =>
           /\ slots[job'[w].h] # EmptySlot
           /\ hin.kind = "pbbs" => slots[job'[w].h][1] >= job'[w].c[1],
         \A p \in TablePairs : p \in old_t => p \in old_t' \/ Carries(w, p)',
         \A p \in TablePairs :
           Carries(w, p) => Carries(w, p)' \/ \E h \in Indices : Alike(slots[h], p),
         \A i \in waiting \ waiting' : Carries(w, hin.pairs[i])',
         Dropping(w)' => \E h \in Indices : Alike(slots[h], job'[w].kv)
  PROVE  TableInv'
<1> USE DEF TableInv
<1>1. hin' = hin /\ DOMAIN slots' = DOMAIN slots /\ \A v \in Threads : v # w => job'[v] = job[v]
  BY DEF Moves
<1>2. /\ Indices' = Indices /\ TablePairs' = TablePairs /\ Cells' = Cells
      /\ \A e, f : Alike(e, f)' = Alike(e, f)
  BY <1>1, Frame DEF Alike
<1>3. TableTypes'
  BY <1>1, TypesKeep DEF TableTypes
<1>4. Modes' /\ Placed' /\ Travels' /\ Loads' /\ Holed' /\ Left'
  <2>1. ASSUME NEW h \in Indices, slots[h] # EmptySlot PROVE PassesTo(slots[h], h)
    BY <2>1 DEF Placed, Moves
  <2>2. \A h \in Indices : slots'[h] # EmptySlot => PassesTo(slots'[h], h)
    BY <2>1
  <2> QED
    BY <1>3, <2>2, PathsKeep
<1>5. Claims'
  BY <1>1, ClaimsStay
<1>6. ASSUME NEW p \in TablePairs, Present(p) PROVE Present(p)'
  BY <1>1, <1>6, PresentKeeps
<1>7. ASSUME NEW i \in waiting \ waiting' PROVE Present(hin.pairs[i])'
  BY <1>7 DEF Present, Carries
<1>8. ASSUME Dropping(w)' PROVE Present(job[w].kv)'
  <2>1. PICK h \in Indices : Alike(slots[h], job'[w].kv)
    BY <1>8
  <2>2. Alike(slots[h], job[w].kv)'
    BY <1>1, <2>1 DEF Alike
  <2> QED
    BY <1>2, <2>2 DEF Present
<1>9. Kept' /\ Drops'
  BY <1>3, <1>6, <1>7, <1>8, KeptStays
<1>10. Full' = Full
  BY <1>2 DEF Full
<1>11. AllCounted'
  BY <1>1, <1>10, CountStays DEF Moves
<1>12. WinsAre'
  <2>1. {slots'[h] : h \in Full'} = {slots[h] : h \in Full}
    BY <1>10
  <2>2. {won'[i] : i \in DOMAIN won'} = {won[i] : i \in DOMAIN won}
    OBVIOUS
  <2>3. hin.kind = "sparse" => {won[i] : i \in DOMAIN won} = {slots[h] : h \in Full}
    BY DEF WinsAre
  <2> QED
    BY <1>1, <2>1, <2>2, <2>3 DEF WinsAre
<1> QED
  BY <1>3, <1>4, <1>5, <1>9, <1>11, <1>12

\* What a thread that probes holds.
LEMMA Working ==
  ASSUME TableInv, NEW w \in Threads, job[w].pc # "idle"
  PROVE  /\ mode \in {"insert", "resize"} /\ job \in [Threads -> Jobs]
         /\ job[w].h \in Indices /\ job[w].kv \in TablePairs /\ job[w].kv[1] \in TableKeys
         /\ job[w].own \in TablePairs /\ (hin.kind # "pbbs" => job[w].own = job[w].kv)
         /\ slots[job[w].h] \in Cells /\ job[w].c \in Cells
<1> USE DEF TableInv
<1>1. mode \in {"insert", "resize"}
  BY DEF Modes, AllIdle, TableTypes
<1>2. /\ job[w].h \in Indices /\ job[w].kv \in TablePairs
      /\ job[w].own \in TablePairs /\ (hin.kind # "pbbs" => job[w].own = job[w].kv)
  BY DEF TableTypes
<1>3. slots[job[w].h] \in Cells /\ job[w].c \in Cells /\ job \in [Threads -> Jobs]
  BY <1>2 DEF TableTypes, Jobs
<1>4. job[w].kv[1] \in TableKeys
  BY <1>2 DEF TableKeys
<1> QED
  BY <1>1, <1>2, <1>3, <1>4

\* TakePair and Reinsert: an insertion begins.
LEMMA ProbeKeeps ==
  ASSUME TableInv, NEW w \in Threads, NEW e \in TablePairs, Probe(w, e), job[w].pc = "idle",
         Moves(w), slots' = slots, ne' = ne, cts' = cts, won' = won,
         \A i \in waiting \ waiting' : hin.pairs[i] = e, \A p \in old_t \ old_t' : p = e
  PROVE  TableInv'
<1> USE DEF TableInv
<1>1. e[1] \in TableKeys /\ EmptySlot \in Cells
  BY CellsAre
<1>2. firstIndex(e[1]) \in Indices /\ PassesTo(e, firstIndex(e[1]))
  BY <1>1, StartsThere
<1>3. firstIndex(e[1]) \in Nat
  BY <1>2 DEF Indices
<1> DEFINE new == [kv |-> e, h |-> firstIndex(e[1]), c |-> EmptySlot, pc |-> "load", own |-> e]
<1>4. job \in [Threads -> Jobs] /\ job' = [job EXCEPT ![w] = new]
  BY DEF TableTypes, Probe
<1>5. new \in Jobs
  BY <1>1, <1>3 DEF Jobs
<1>6. job' \in [Threads -> Jobs] /\ job'[w] = new
  BY <1>4, <1>5
<1>7. /\ job'[w].kv = e /\ job'[w].h = firstIndex(e[1]) /\ job'[w].c = EmptySlot
      /\ job'[w].pc = "load" /\ job'[w].own = e
  BY <1>6
<1> HIDE DEF new
<1>8. Carries(w, e)'
  BY <1>7 DEF Carries, Probing, Dropping, Alike
<1>9. GoesOn(e, firstIndex(e[1]))
  BY <1>2 DEF GoesOn
<1>10. \E x, h : x = job'[w].kv /\ h = job'[w].h /\ GoesOn(x, h)
  BY <1>7, <1>9
<1>11. \A p \in TablePairs : ~Carries(w, p)
  BY DEF Carries, Probing
<1>12. ~Dropping(w)'
  BY <1>7 DEF Dropping
<1>13. \A i \in waiting \ waiting' : Carries(w, hin.pairs[i])'
  <2> SUFFICES ASSUME NEW i \in waiting \ waiting' PROVE Carries(w, hin.pairs[i])'
    OBVIOUS
  <2>1. hin'.pairs[i] = e
    BY DEF Moves
  <2> QED
    BY <1>8, <2>1 DEF Carries, Alike
<1>14. \A p \in TablePairs : p \in old_t => p \in old_t' \/ Carries(w, p)'
  BY <1>8
<1> QED
  BY <1>2, <1>6, <1>7, <1>10, <1>11, <1>12, <1>13, <1>14, ReadKeeps

\* A thread takes a pair of the loop.
LEMMA TakePairKeeps ==
  ASSUME TableInv, NEW w \in Threads, TakePair(w) PROVE TableInv'
<1>1. PICK i \in waiting : waiting' = waiting \ {i} /\ Probe(w, hin.pairs[i])
  BY DEF TakePair
<1>2. hin.pairs[i] \in TablePairs
  BY <1>1 DEF TableInv, TableTypes, TablePairs
<1>3. \A v \in Threads : v # w => job'[v] = job[v]
  BY <1>1 DEF Probe, TableInv, TableTypes
<1>4. Moves(w)
  BY <1>1, <1>3 DEF TakePair, Moves, Rises
<1>5. /\ slots' = slots /\ ne' = ne /\ cts' = cts /\ won' = won /\ old_t' = old_t
      /\ job[w].pc = "idle"
  BY DEF TakePair
<1> QED
  BY <1>1, <1>2, <1>4, <1>5, ProbeKeeps

\* A thread takes an entry of the smaller table.
LEMMA ReinsertKeeps ==
  ASSUME TableInv, NEW w \in Threads, Reinsert(w) PROVE TableInv'
<1>1. PICK e \in old_t : old_t' = old_t \ {e} /\ Probe(w, e)
  BY DEF Reinsert
<1>2. e \in TablePairs
  BY <1>1 DEF TableInv, TableTypes
<1>3. \A v \in Threads : v # w => job'[v] = job[v]
  BY <1>1 DEF Probe, TableInv, TableTypes
<1>4. Moves(w)
  BY <1>1, <1>3 DEF Reinsert, Moves, Rises
<1>5. /\ slots' = slots /\ ne' = ne /\ cts' = cts /\ won' = won /\ waiting' = waiting
      /\ job[w].pc = "idle"
  BY DEF Reinsert
<1> QED
  BY <1>1, <1>2, <1>4, <1>5, ProbeKeeps

\* LoadSlot: who reads its own key drops what it carries, as the slot holds it.
LEMMA LoadSlotKeeps ==
  ASSUME TableInv, NEW w \in Threads, LoadSlot(w) PROVE TableInv'
<1>1. /\ job[w].pc = "load" /\ slots' = slots /\ hin' = hin /\ ne' = ne /\ cts' = cts /\ won' = won
      /\ waiting' = waiting /\ old_t' = old_t /\ deletes' = deletes /\ mode' = mode
      /\ job' = [job EXCEPT ![w].c = slots[job[w].h], ![w].pc = "act"]
  BY DEF LoadSlot
<1>2. /\ mode \in {"insert", "resize"} /\ job \in [Threads -> Jobs]
      /\ job[w].h \in Indices /\ job[w].kv \in TablePairs
      /\ job[w].own \in TablePairs /\ (hin.kind # "pbbs" => job[w].own = job[w].kv)
      /\ slots[job[w].h] \in Cells
  BY <1>1, Working
<1> DEFINE new == [job[w] EXCEPT !.c = slots[job[w].h], !.pc = "act"]
<1>3. job[w] \in Jobs /\ job' = [job EXCEPT ![w] = new]
  BY <1>1, <1>2
<1>4. /\ new \in Jobs /\ new.kv = job[w].kv /\ new.h = job[w].h /\ new.c = slots[job[w].h]
      /\ new.pc = "act" /\ new.own = job[w].own
  BY <1>2, <1>3 DEF Jobs
<1> HIDE DEF new
<1>5. job'[w] = new /\ job' \in [Threads -> Jobs] /\ \A v \in Threads : v # w => job'[v] = job[v]
  BY <1>2, <1>3, <1>4
<1>6. /\ job'[w].kv = job[w].kv /\ job'[w].h = job[w].h /\ job'[w].c = slots[job[w].h]
      /\ job'[w].pc = "act" /\ job'[w].own = job[w].own
  BY <1>4, <1>5
<1>7. Moves(w)
  BY <1>1, <1>2, <1>5 DEF Moves, Rises
<1>8. PassesTo(job[w].kv, job[w].h) \/ PassesAll(job[w].kv)
  BY <1>1 DEF TableInv, Travels, Probing
<1>9. \E e, h : e = job'[w].kv /\ h = job'[w].h /\ GoesOn(e, h)
  <2>1. GoesOn(job[w].kv, job[w].h)
    BY <1>8 DEF GoesOn
  <2> QED
    BY <1>6, <2>1
<1>10. job'[w].pc = "act" /\ job'[w].c # EmptySlot =>
         /\ slots[job'[w].h] # EmptySlot
         /\ hin.kind = "pbbs" => slots[job'[w].h][1] >= job'[w].c[1]
  <2>1. slots[job[w].h] # EmptySlot => slots[job[w].h][1] \in Int
    BY <1>2, CellsAre DEF TableInv
  <2> QED
    BY <1>6, <2>1
<1>11. Dropping(w)' => \E h \in Indices : Alike(slots[h], job'[w].kv)
  BY <1>1, <1>2, <1>6 DEF Dropping, Alike
<1>12. \A p \in TablePairs : Carries(w, p) => Carries(w, p)' \/ \E h \in Indices : Alike(slots[h], p)
  BY <1>1, <1>2, <1>6 DEF Carries, Probing, Dropping, Alike
<1> QED
  BY <1>1, <1>2, <1>5, <1>6, <1>7, <1>9, <1>10, <1>11, <1>12, ReadKeeps

\* MovedOn: what passes the slot goes on to the next.
LEMMA MovesOn ==
  ASSUME TableInv, NEW w \in Threads, NEW e \in TablePairs, job[w].pc = "act", NEW h, h = job[w].h,
         job' = [job EXCEPT ![w] = MovedOn(w, e)], hin' = hin, DOMAIN slots' = DOMAIN slots,
         hin.kind # "pbbs" => e = job[w].kv,
         PassesTo(e, h) \/ PassesAll(e), Passes(e, h)'
  PROVE  /\ job' \in [Threads -> Jobs] /\ \A v \in Threads : v # w => job'[v] = job[v]
         /\ job'[w].pc = "load" /\ job'[w].h \in Indices /\ job'[w].kv = e
         /\ job'[w].own \in TablePairs /\ (hin.kind # "pbbs" => job'[w].own = job'[w].kv)
         /\ \E x, g : x = job'[w].kv /\ g = job'[w].h /\ GoesOn(x, g)
<1>1. /\ job \in [Threads -> Jobs] /\ job[w].h \in Indices /\ job[w].own \in TablePairs
      /\ (hin.kind # "pbbs" => job[w].own = job[w].kv)
  BY Working
<1>2. e[1] \in TableKeys
  BY DEF TableKeys
<1>3. incrementIndex(job[w].h) \in Indices
  BY <1>1, <1>2, Onward DEF TableInv
<1>4. incrementIndex(job[w].h) \in Nat
  BY <1>3 DEF Indices
<1> DEFINE new == MovedOn(w, e)
<1>5. /\ new \in Jobs /\ new.kv = e /\ new.h = incrementIndex(job[w].h) /\ new.pc = "load"
      /\ new.own = job[w].own
  <2>1. job[w] \in Jobs
    BY <1>1
  <2> QED
    BY <1>4, <2>1 DEF Jobs, MovedOn
<1> HIDE DEF new
<1>6. job' \in [Threads -> Jobs] /\ job'[w] = new /\ \A v \in Threads : v # w => job'[v] = job[v]
  BY <1>1, <1>5 DEF new
<1>7. /\ job'[w].kv = e /\ job'[w].h = incrementIndex(job[w].h) /\ job'[w].pc = "load"
      /\ job'[w].own = job[w].own
  BY <1>5, <1>6
<1>8. GoesOn(e, incrementIndex(job[w].h))
  BY <1>1 DEF GoesOn
<1> QED
  BY <1>1, <1>3, <1>6, <1>7, <1>8

\* A thread that ends its insertion, or moves on, and counts nothing.
LEMMA EndsOrMoves ==
  ASSUME TableInv, NEW w \in Threads, job[w].pc = "act", slots' = slots, hin' = hin,
         ne' = ne, cts' = cts, won' = won, waiting' = waiting, old_t' = old_t,
         deletes' = deletes, mode' = mode,
         \/ /\ job' = [job EXCEPT ![w] = NoJob]
            /\ Dropping(w) \/ \E h \in Indices : Alike(slots[h], job[w].kv)
         \/ job' = [job EXCEPT ![w] = MovedOn(w, job[w].kv)] /\ Passes(job[w].kv, job[w].h)
         \/ job' = [job EXCEPT ![w].pc = "load"]
  PROVE  TableInv'
<1>1. /\ mode \in {"insert", "resize"} /\ job \in [Threads -> Jobs]
      /\ job[w].h \in Indices /\ job[w].kv \in TablePairs
      /\ job[w].own \in TablePairs /\ (hin.kind # "pbbs" => job[w].own = job[w].kv)
  BY Working
<1>2. PassesTo(job[w].kv, job[w].h) \/ PassesAll(job[w].kv)
  BY DEF TableInv, Travels, Probing
<1>3. (\A v \in Threads : v # w => job'[v] = job[v]) => Moves(w)
  BY <1>1 DEF Moves, Rises
<1>4. CASE /\ job' = [job EXCEPT ![w] = NoJob]
           /\ Dropping(w) \/ \E h \in Indices : Alike(slots[h], job[w].kv)
  <2>1. NoJob \in Jobs /\ NoJob.pc = "idle"
    <3>1. EmptySlot \in Cells
      BY CellsAre DEF TableInv
    <3> QED
      BY <3>1 DEF NoJob, Jobs
  <2>2. /\ job' \in [Threads -> Jobs] /\ job'[w].pc = "idle"
        /\ \A v \in Threads : v # w => job'[v] = job[v]
    BY <1>1, <1>4, <2>1
  <2>3. ASSUME NEW p \in TablePairs, Carries(w, p) PROVE \E h \in Indices : Alike(slots[h], p)
    <3>1. ~Dropping(w) /\ Alike(job[w].kv, p)
      BY <2>3 DEF Carries
    <3>2. PICK h \in Indices : Alike(slots[h], job[w].kv)
      BY <1>4, <3>1
    <3> QED
      BY <3>1, <3>2 DEF Alike
  <2>4. ~Probing(w)' /\ ~Dropping(w)'
    BY <2>2 DEF Probing, Dropping
  <2> QED
    BY <1>3, <2>2, <2>3, <2>4, ReadKeeps
<1>5. CASE job' = [job EXCEPT ![w] = MovedOn(w, job[w].kv)] /\ Passes(job[w].kv, job[w].h)
  <2>1. Passes(job[w].kv, job[w].h)
    BY <1>5
  <2>2. PICK e : e = job[w].kv
    OBVIOUS
  <2>3. PICK h : h = job[w].h
    OBVIOUS
  <2>4. Passes(e, h)'
    BY <2>1, <2>2, <2>3 DEF Passes
  <2>5. /\ job' \in [Threads -> Jobs] /\ \A v \in Threads : v # w => job'[v] = job[v]
        /\ job'[w].pc = "load" /\ job'[w].h \in Indices /\ job'[w].kv = e
        /\ job'[w].own \in TablePairs /\ (hin.kind # "pbbs" => job'[w].own = job'[w].kv)
        /\ \E x, g : x = job'[w].kv /\ g = job'[w].h /\ GoesOn(x, g)
    BY <1>1, <1>2, <1>5, <2>2, <2>3, <2>4, MovesOn
  <2>6. \A p \in TablePairs : Carries(w, p) => Carries(w, p)'
    BY <2>2, <2>5 DEF Carries, Probing, Dropping, Alike
  <2>7. ~Dropping(w)'
    BY <2>5 DEF Dropping
  <2> QED
    BY <1>1, <1>3, <2>2, <2>5, <2>6, <2>7, ReadKeeps
<1>6. CASE job' = [job EXCEPT ![w].pc = "load"]
  <2>1. job[w] \in Jobs
    BY <1>1
  <2>2. /\ job' \in [Threads -> Jobs] /\ job'[w] = [job[w] EXCEPT !.pc = "load"]
        /\ \A v \in Threads : v # w => job'[v] = job[v]
    BY <1>1, <1>6, <2>1 DEF Jobs
  <2>3. /\ job'[w].pc = "load" /\ job'[w].h = job[w].h /\ job'[w].kv = job[w].kv
        /\ job'[w].own = job[w].own
    BY <2>1, <2>2 DEF Jobs
  <2>4. \E x, g : x = job'[w].kv /\ g = job'[w].h /\ GoesOn(x, g)
    <3>1. GoesOn(job[w].kv, job[w].h)
      BY <1>2 DEF GoesOn
    <3> QED
      BY <2>3, <3>1
  <2>5. \A p \in TablePairs : Carries(w, p) => Carries(w, p)'
    BY <2>3 DEF Carries, Probing, Dropping, Alike
  <2>6. ~Dropping(w)'
    BY <2>3 DEF Dropping
  <2> QED
    BY <1>1, <1>3, <2>2, <2>3, <2>4, <2>5, <2>6, ReadKeeps
<1> QED
  BY <1>4, <1>5, <1>6

\* An insertion that returns false counts nothing.
LEMMA CountsNothing ==
  ASSUME TableTypes, NEW w \in Threads, Returns(w, FALSE) PROVE won' = won /\ cts' = cts
<1>1. cts \in [Threads -> Nat] /\ cts' = [cts EXCEPT ![w] = @ + 0] /\ won' = won
  BY DEF Returns, TableTypes
<1> QED
  BY <1>1

\* Compare: the element is there already, or the thread goes on to the next slot.
LEMMA CompareKeeps ==
  ASSUME TableInv, NEW w \in Threads, Compare(w) PROVE TableInv'
<1>1. /\ job[w].pc = "act" /\ hin.kind # "pbbs" /\ slots[job[w].h][1] # EmptySlot[1]
      /\ slots' = slots /\ hin' = hin /\ old_t' = old_t /\ waiting' = waiting /\ ne' = ne
      /\ deletes' = deletes /\ mode' = mode
  BY DEF Compare
<1>2. job[w].h \in Indices /\ slots[job[w].h] \in Cells /\ hin \in TableInputs
  BY <1>1, Working DEF TableInv, TableTypes
<1>3. slots[job[w].h] # EmptySlot
  BY <1>1
<1>4. CASE SameEntry(w) /\ job' = [job EXCEPT ![w] = NoJob] /\ Returns(w, FALSE)
  <2>1. won' = won /\ cts' = cts
    BY <1>4, CountsNothing DEF TableInv
  <2>2. Alike(slots[job[w].h], job[w].kv)
    BY <1>1, <1>2, <1>4, HashTablesAssumption DEF SameEntry, Alike
  <2> QED
    BY <1>1, <1>2, <1>4, <2>1, <2>2, EndsOrMoves
<1>5. CASE ~SameEntry(w) /\ job' = [job EXCEPT ![w] = MovedOn(w, job[w].kv)] /\ UNCHANGED <<won, cts>>
  <2>1. Passes(job[w].kv, job[w].h)
    BY <1>1, <1>2, <1>3, <1>5, HashTablesAssumption DEF SameEntry, Passes
  <2> QED
    BY <1>1, <1>5, <2>1, EndsOrMoves
<1> QED
  BY <1>4, <1>5 DEF Compare

\* A step that stores an entry.
LEMMA StoreKeeps ==
  ASSUME TableInv, NEW w \in Threads, Moves(w), NEW h \in Indices, NEW e \in Cells,
         slots' = [slots EXCEPT ![h] = e], ne' = ne, waiting' = waiting, old_t' = old_t,
         job' \in [Threads -> Jobs], cts' \in [Threads -> Nat], won' \in Seq(TablePairs),
         job'[w].pc # "idle" =>
           /\ job'[w].h \in Indices /\ job'[w].kv \in TablePairs /\ job'[w].own \in TablePairs
           /\ hin.kind # "pbbs" => job'[w].own = job'[w].kv,
         PassesTo(e, h), job'[w].pc # "act",
         Probing(w)' => \E x, g : x = job'[w].kv /\ g = job'[w].h /\ GoesOn(x, g),
         \A p \in TablePairs : Alike(slots[h], p) => Alike(e, p) \/ Carries(w, p)',
         \A p \in TablePairs : Carries(w, p) => Alike(e, p),
         TableTypes' => Claims' /\ AllCounted' /\ WinsAre'
  PROVE  TableInv'
<1> USE DEF TableInv
<1>1. /\ hin' = hin /\ DOMAIN slots' = DOMAIN slots /\ \A v \in Threads : v # w => job'[v] = job[v]
  BY DEF Moves
<1>2. slots \in [Indices -> Cells]
  BY DEF TableTypes
<1>3. slots' \in [Indices -> Cells] /\ slots'[h] = e /\ \A g \in Indices : g # h => slots'[g] = slots[g]
  BY <1>2
<1>4. TableTypes'
  BY <1>3, TypesKeep DEF TableTypes
<1>5. Modes' /\ Placed' /\ Travels' /\ Loads' /\ Holed' /\ Left'
  <2>1. ASSUME NEW g \in Indices, slots[g] # EmptySlot PROVE PassesTo(slots[g], g)
    BY <2>1 DEF Placed, Moves
  <2>2. ASSUME NEW g \in Indices, slots'[g] # EmptySlot PROVE PassesTo(slots'[g], g)
    BY <1>3, <2>1, <2>2
  <2> QED
    BY <1>4, <2>2, PathsKeep
<1>6. ASSUME NEW p \in TablePairs, Present(p) PROVE Present(p)'
  <2>1. \A g \in Indices : Alike(slots[g], p) => Alike(slots'[g], p) \/ Carries(w, p)'
    BY <1>3
  <2>2. Carries(w, p) => \E g \in Indices : Alike(slots'[g], p)
    BY <1>3
  <2> QED
    BY <1>1, <1>6, <2>1, <2>2, PresentKeeps
<1>7. ~Dropping(w)' /\ waiting \ waiting' = {}
  BY DEF Dropping
<1>8. Kept' /\ Drops'
  BY <1>4, <1>6, <1>7, KeptStays
<1> QED
  BY <1>4, <1>5, <1>8

\* Prioritize: of equal keys one is dropped, and the entry of a lower key goes on.
LEMMA PrioritizeKeeps ==
  ASSUME TableInv, NEW w \in Threads, Prioritize(w) PROVE TableInv'
<1> USE DEF TableInv
<1>0. PICK c, k, h : c = job[w].c /\ k = job[w].kv[1] /\ h = job[w].h
  OBVIOUS
<1>1. /\ job[w].pc = "act" /\ hin.kind = "pbbs"
      /\ hin' = hin /\ old_t' = old_t /\ waiting' = waiting /\ ne' = ne
      /\ deletes' = deletes /\ mode' = mode
  BY DEF Prioritize
<1>2. /\ mode \in {"insert", "resize"} /\ job \in [Threads -> Jobs]
      /\ h \in Indices /\ job[w].kv \in TablePairs /\ slots[h] \in Cells /\ c \in Cells
      /\ job[w].own \in TablePairs
  BY <1>0, <1>1, Working
<1>3. /\ k \in Nat /\ c[1] \in Int /\ slots[h][1] \in Int /\ (c # EmptySlot => c \in TablePairs)
      /\ (c = EmptySlot <=> c[1] = EmptySlot[1]) /\ EmptySlot[1] = -1
      /\ slots[h] # EmptySlot => slots[h][1] \in Nat
  <2>1. \A x \in Cells : /\ x = EmptySlot <=> x[1] = EmptySlot[1]
                         /\ x # EmptySlot => x[1] \in Nat
                         /\ x # EmptySlot => x \in TablePairs
    BY <1>1, CellsAre
  <2>2. EmptySlot[1] = -1 /\ k \in Nat
    BY <1>0, <1>2, CellsAre
  <2> QED
    BY <1>2, <2>1, <2>2
<1>4. CASE k = c[1] /\ job' = [job EXCEPT ![w] = NoJob] /\ Returns(w, FALSE) /\ UNCHANGED slots
  <2>1. won' = won /\ cts' = cts
    BY <1>4, CountsNothing
  <2>2. Dropping(w)
    BY <1>0, <1>1, <1>4 DEF Dropping
  <2> QED
    BY <1>1, <1>4, <2>1, <2>2, EndsOrMoves
<1>5. CASE /\ c # EmptySlot /\ k # c[1] /\ ~Higher(k, c)
           /\ job' = [job EXCEPT ![w] = MovedOn(w, job[w].kv)] /\ UNCHANGED <<slots, won, cts>>
  <2>1. slots[h] # EmptySlot /\ slots[h][1] >= c[1]
    BY <1>0, <1>1, <1>5 DEF Loads
  <2>2. c[1] > k
    BY <1>3, <1>5 DEF Higher
  <2>3. slots[h][1] > k
    BY <1>3, <2>1, <2>2
  <2>4. Passes(job[w].kv, job[w].h)
    BY <1>0, <1>1, <2>1, <2>3 DEF Passes
  <2> QED
    BY <1>1, <1>5, <2>4, EndsOrMoves
<1>6. CASE job' = [job EXCEPT ![w].pc = "load"] /\ UNCHANGED <<slots, won, cts>>
  BY <1>1, <1>6, EndsOrMoves
<1>7. CASE /\ Higher(k, c) /\ slots[h] = c
           /\ Store(w, job[w].kv, Bumped(w)) /\ UNCHANGED <<won, cts>>
  <2>1. /\ slots' = [slots EXCEPT ![h] = job[w].kv] /\ job' = [job EXCEPT ![w] = MovedOn(w, c)]
        /\ c # EmptySlot /\ k > c[1]
    BY <1>0, <1>7 DEF Store, Bumped, Higher
  <2>2. slots \in [Indices -> Cells] /\ DOMAIN slots' = DOMAIN slots
    BY <2>1 DEF TableTypes
  <2>3. slots'[h] = job[w].kv /\ \A g \in Indices : g # h => slots'[g] = slots[g]
    BY <1>2, <2>1, <2>2
  <2>4. c \in TablePairs /\ job[w].kv \in Cells
    BY <1>2, <1>3, <2>1, CellsAre
  <2>5. PassesTo(c, h)
    BY <1>2, <1>7, <2>1 DEF Placed
  <2>6. ASSUME NEW x, x = c PROVE Passes(x, h)'
    <3>1. slots'[h][1] > x[1] /\ slots'[h] # EmptySlot
      BY <1>0, <1>2, <1>3, <2>1, <2>3, <2>6, CellsAre
    <3> QED
      BY <1>1, <3>1 DEF Passes
  <2>7. PICK x, y : x = c /\ y = h
    OBVIOUS
  <2>8. /\ job' \in [Threads -> Jobs] /\ \A v \in Threads : v # w => job'[v] = job[v]
        /\ job'[w].pc = "load" /\ job'[w].h \in Indices /\ job'[w].kv = x
        /\ job'[w].own \in TablePairs /\ (hin.kind # "pbbs" => job'[w].own = job'[w].kv)
        /\ \E z, g : z = job'[w].kv /\ g = job'[w].h /\ GoesOn(z, g)
    <3>1. Passes(x, y)'
      BY <2>6, <2>7
    <3> QED
      BY <1>0, <1>1, <2>1, <2>2, <2>4, <2>5, <2>7, <3>1, MovesOn
  <2>9. Moves(w)
    <3>1. \A g \in Indices : Rises(g)
      BY <1>0, <1>1, <1>7, <2>1, <2>3 DEF Rises
    <3> QED
      BY <1>1, <1>2, <2>2, <2>8, <3>1 DEF Moves
  <2>10. PassesTo(job[w].kv, h)
    <3>1. PassesTo(job[w].kv, h) \/ PassesAll(job[w].kv)
      BY <1>0, <1>1 DEF Travels, Probing
    <3>2. ~Passes(job[w].kv, h)
      BY <1>0, <1>1, <1>3, <1>7, <2>1 DEF Passes
    <3> QED
      BY <1>2, <3>1, <3>2 DEF PassesAll
  <2>11. \A p \in TablePairs : Alike(slots[h], p) => Carries(w, p)'
    BY <1>1, <1>7, <2>7, <2>8 DEF Carries, Probing, Dropping, Alike
  <2>12. \A p \in TablePairs : Carries(w, p) => Alike(job[w].kv, p)
    BY DEF Carries
  <2>13. Full' = Full
    <3>1. Indices' = Indices
      BY <2>2, SameShape
    <3>2. \A p \in TablePairs : p # EmptySlot /\ p[2] # NoValue
      BY CellsAre
    <3>3. ASSUME NEW g \in Indices
          PROVE  (slots'[g] # EmptySlot /\ slots'[g][2] # NoValue) <=>
                 (slots[g] # EmptySlot /\ slots[g][2] # NoValue)
      BY <1>2, <1>7, <2>3, <2>4, <3>2
    <3> QED
      BY <3>1, <3>3 DEF Full
  <2>14. AllCounted'
    BY <1>1, <1>7, <2>13, CountStays
  <2>15. WinsAre'
    BY <1>1 DEF WinsAre
  <2>16. \A v \in Threads : job'[v].pc # "value"
    BY <1>1, <2>8 DEF Claims
  <2>17. TableTypes' => Claims'
    BY <1>1, <2>2, <2>16, NoClaims
  <2>18. cts' \in [Threads -> Nat] /\ won' \in Seq(TablePairs)
    BY <1>7 DEF TableTypes
  <2>19. job'[w].kv \in TablePairs /\ job'[w].pc # "act"
    BY <2>4, <2>7, <2>8
  <2> QED
    BY <1>1, <1>2, <2>1, <2>4, <2>8, <2>9, <2>10, <2>11, <2>12, <2>14, <2>15, <2>17, <2>18, <2>19,
       StoreKeeps
<1> QED
  BY <1>0, <1>4, <1>5, <1>6, <1>7 DEF Prioritize

\* The counts keep their types.
LEMMA CountsTypes ==
  ASSUME TableTypes, NEW w \in Threads, Returns(w, TRUE), job[w].own \in TablePairs
  PROVE  cts' \in [Threads -> Nat] /\ won' \in Seq(TablePairs)
<1>1. cts \in [Threads -> Nat] /\ won \in Seq(TablePairs)
  BY DEF TableTypes
<1>2. cts' = [cts EXCEPT ![w] = @ + 1] /\ won' = Append(won, job[w].own)
  BY DEF Returns
<1> QED
  BY <1>1, <1>2

\* ClaimEmpty, non-sparse, and WriteValue end an insertion that counts.
LEMMA Wins ==
  ASSUME TableInv, TableTypes', NEW w \in Threads, Returns(w, TRUE), hin' = hin,
         deletes' = deletes, ne' = ne, NEW h \in Indices, h \notin Full, NEW e \in TablePairs,
         hin.kind = "sparse" => e = job[w].own, slots' = [slots EXCEPT ![h] = e]
  PROVE  AllCounted' /\ WinsAre'
<1> USE DEF TableInv
<1>1. slots \in [Indices -> Cells] /\ DOMAIN slots' = DOMAIN slots
  BY DEF TableTypes
<1>2. slots'[h] = e /\ \A g \in Indices : g # h => slots'[g] = slots[g]
  BY <1>1
<1>3. Full' = Full \cup {h}
  <2>1. Indices' = Indices
    BY <1>1, SameShape
  <2>2. e # EmptySlot /\ e[2] # NoValue
    BY CellsAre
  <2>3. \A g \in Indices : (slots'[g] # EmptySlot /\ slots'[g][2] # NoValue) <=> g = h \/ g \in Full
    BY <1>2, <2>2 DEF Full
  <2>4. Full' = {g \in Indices : slots'[g] # EmptySlot /\ slots'[g][2] # NoValue}
    BY <2>1 DEF Full
  <2>5. Full \subseteq Indices
    BY DEF Full
  <2> QED
    BY <2>3, <2>4, <2>5
<1>4. cts' = [cts EXCEPT ![w] = @ + 1] /\ won' = Append(won, job[w].own)
  BY DEF Returns
<1>5. AllCounted'
  BY <1>3, <1>4, CountGrows
<1>6. WinsAre'
  <2> SUFFICES ASSUME hin.kind = "sparse"
               PROVE  {won'[i] : i \in DOMAIN won'} = {slots'[g] : g \in Full'}
    BY DEF WinsAre
  <2>1. {won[i] : i \in DOMAIN won} = {slots[g] : g \in Full}
    BY DEF WinsAre
  <2>2. {slots'[g] : g \in Full'} = {slots[g] : g \in Full} \cup {e}
    <3>1. \A g \in Full : g \in Indices /\ g # h
      BY DEF Full
    <3>2. \A g \in Full : slots'[g] = slots[g]
      BY <1>2, <3>1
    <3> QED
      BY <1>2, <1>3, <3>2
  <2>3. {won'[i] : i \in DOMAIN won'} = {won[i] : i \in DOMAIN won} \cup {e}
    <3>1. won \in Seq(TablePairs) /\ Len(won) \in Nat
      BY DEF TableTypes
    <3>2. DOMAIN won = 1..Len(won) /\ DOMAIN won' = 1..(Len(won) + 1)
      BY <1>4, <3>1
    <3>3. won'[Len(won) + 1] = job[w].own /\ \A i \in 1..Len(won) : won'[i] = won[i]
      BY <1>4, <3>1
    <3>4. 1..(Len(won) + 1) = 1..Len(won) \cup {Len(won) + 1}
      BY <3>1
    <3> QED
      BY <3>2, <3>3, <3>4
  <2> QED
    BY <2>1, <2>2, <2>3
<1> QED
  BY <1>5, <1>6

\* ClaimEmpty: the pair is in the slot, and of a sparse table its value is not yet.
LEMMA ClaimEmptyKeeps ==
  ASSUME TableInv, NEW w \in Threads, ClaimEmpty(w) PROVE TableInv'
<1> USE DEF TableInv
<1>0. PICK h, kv : h = job[w].h /\ kv = job[w].kv
  OBVIOUS
<1>1. /\ job[w].pc = "act" /\ slots[h][1] = EmptySlot[1]
      /\ hin' = hin /\ old_t' = old_t /\ waiting' = waiting /\ ne' = ne
      /\ deletes' = deletes /\ mode' = mode
  BY <1>0 DEF ClaimEmpty
<1>2. /\ mode \in {"insert", "resize"} /\ job \in [Threads -> Jobs]
      /\ h \in Indices /\ kv \in TablePairs /\ slots[h] \in Cells
      /\ job[w].own \in TablePairs /\ (hin.kind # "pbbs" => job[w].own = kv)
  BY <1>0, <1>1, Working
<1>3. slots[h] = EmptySlot
  BY <1>1, <1>2, CellsAre
<1>4. slots \in [Indices -> Cells]
  BY DEF TableTypes
<1>5. PassesTo(kv, h)
  <2>1. PassesTo(kv, h) \/ PassesAll(kv)
    BY <1>0, <1>1 DEF Travels, Probing
  <2>2. ~Passes(kv, h)
    BY <1>3 DEF Passes
  <2> QED
    BY <1>2, <2>1, <2>2 DEF PassesAll
<1>6. /\ kv \in Cells /\ kv # EmptySlot /\ kv[1] \in TableKeys /\ kv[1] # EmptySlot[1]
      /\ EmptySlot[2] # NoValue
  BY <1>2, CellsAre
<1>7. \A p \in TablePairs : p # EmptySlot /\ p[1] # EmptySlot[1]
  BY CellsAre
<1>8. \A p \in TablePairs : ~Alike(slots[h], p)
  BY <1>3, <1>7 DEF Alike
<1>9. h \notin Full
  BY <1>3 DEF Full
<1>10. CASE /\ hin.kind = "sparse" /\ UNCHANGED <<won, cts>>
            /\ Store(w, <<kv[1], NoValue>>, [job[w] EXCEPT !.pc = "value"])
  <2>1. PICK e : e = <<kv[1], NoValue>>
    OBVIOUS
  <2>2. e \in Cells /\ e[1] = kv[1] /\ e[2] = NoValue
    BY <1>2, <1>10, <2>1 DEF Cells, Unwritten
  <2>3. e # EmptySlot
    BY <1>6, <2>2
  <2>4. /\ slots' = [slots EXCEPT ![h] = e]
        /\ job' = [job EXCEPT ![w] = [job[w] EXCEPT !.pc = "value"]]
    BY <1>0, <1>10, <2>1 DEF Store
  <2>5. slots'[h] = e /\ (\A g \in Indices : g # h => slots'[g] = slots[g]) /\ DOMAIN slots' = DOMAIN slots
    BY <1>2, <1>4, <2>4
  <2>6. job[w] \in Jobs
    BY <1>2
  <2>7. /\ job' \in [Threads -> Jobs] /\ job'[w] = [job[w] EXCEPT !.pc = "value"]
        /\ \A v \in Threads : v # w => job'[v] = job[v]
    BY <1>2, <2>4, <2>6 DEF Jobs
  <2>8. job'[w].pc = "value" /\ job'[w].h = h /\ job'[w].kv = kv /\ job'[w].own = job[w].own
    BY <1>0, <2>6, <2>7 DEF Jobs
  <2>9. Moves(w)
    <3>1. \A g \in Indices : Rises(g)
      BY <1>3, <2>3, <2>5 DEF Rises
    <3> QED
      BY <1>1, <1>2, <2>5, <2>7, <3>1 DEF Moves
  <2>10. PassesTo(e, h)
    BY <1>5, <1>10, <2>2 DEF PassesTo, Passes
  <2>11. \A p \in TablePairs : Carries(w, p) => Alike(e, p)
    BY <1>0, <1>10, <2>2 DEF Carries, Alike
  <2>12. Indices' = Indices
    BY <2>5, SameShape
  <2>13. Full' = Full
    <3>1. \A g \in Indices : (slots'[g] # EmptySlot /\ slots'[g][2] # NoValue) <=> g \in Full
      BY <1>9, <2>2, <2>5 DEF Full
    <3>2. Full' = {g \in Indices : slots'[g] # EmptySlot /\ slots'[g][2] # NoValue}
      BY <2>12 DEF Full
    <3>3. Full \subseteq Indices
      BY DEF Full
    <3> QED
      BY <3>1, <3>2, <3>3
  <2>14. AllCounted'
    BY <1>1, <1>10, <2>13, CountStays
  <2>15. WinsAre'
    <3>1. \A g \in Full : slots'[g] = slots[g]
      BY <1>9, <2>5 DEF Full
    <3>2. {slots'[g] : g \in Full'} = {slots[g] : g \in Full}
      BY <2>13, <3>1
    <3>3. {won'[i] : i \in DOMAIN won'} = {won[i] : i \in DOMAIN won}
      BY <1>10
    <3>4. {won[i] : i \in DOMAIN won} = {slots[g] : g \in Full}
      BY <1>10 DEF WinsAre
    <3> QED
      BY <3>2, <3>3, <3>4 DEF WinsAre
  <2>16. Claims'
    <3>1. ASSUME NEW v \in Threads, v # w, job'[v].pc = "value"
          PROVE  job[v].h \in Indices /\ job[v].h # h /\ job'[v] = job[v]
      <4>1. job'[v] = job[v] /\ job[v].pc = "value"
        BY <2>7, <3>1
      <4>2. slots[job[v].h] = <<job[v].kv[1], NoValue>> /\ job[v].h \in Indices
        BY <4>1 DEF Claims, TableTypes
      <4>3. slots[job[v].h][2] = NoValue
        BY <4>2
      <4> QED
        BY <1>3, <1>6, <4>1, <4>2, <4>3
    <3>2. ASSUME NEW v \in Threads, job'[v].pc = "value"
          PROVE  hin'.kind = "sparse" /\ slots'[job'[v].h] = <<job'[v].kv[1], NoValue>>
      <4>1. CASE v = w
        BY <1>1, <1>10, <2>1, <2>5, <2>8, <4>1
      <4>2. CASE v # w
        <5>1. slots[job[v].h] = <<job[v].kv[1], NoValue>> /\ job[v].h # h /\ job[v].h \in Indices
          BY <2>7, <3>1, <3>2, <4>2 DEF Claims
        <5> QED
          BY <1>1, <1>10, <2>5, <2>7, <4>2, <5>1
      <4> QED
        BY <4>1, <4>2
    <3>3. ASSUME NEW v \in Threads, NEW x \in Threads, job'[v].pc = "value", job'[x].pc = "value",
                 job'[v].h = job'[x].h
          PROVE  v = x
      <4>1. CASE v = w
        BY <2>8, <3>1, <3>3, <4>1
      <4>2. CASE x = w
        BY <2>8, <3>1, <3>3, <4>2
      <4>3. CASE v # w /\ x # w
        BY <2>7, <3>3, <4>3 DEF Claims
      <4> QED
        BY <4>1, <4>2, <4>3
    <3>4. ASSUME NEW g \in Indices, slots'[g][2] = NoValue
          PROVE  \E v \in Threads : job'[v].pc = "value" /\ job'[v].h = g
      <4>1. CASE g = h
        BY <2>8, <4>1
      <4>2. CASE g # h
        <5>1. PICK v \in Threads : job[v].pc = "value" /\ job[v].h = g
          BY <2>5, <3>4, <4>2 DEF Claims
        <5> QED
          BY <1>1, <2>7, <5>1
      <4> QED
        BY <4>1, <4>2
    <3> QED
      BY <2>12, <3>2, <3>3, <3>4 DEF Claims
  <2>17. ~Probing(w)' /\ job'[w].pc # "act"
    BY <2>8 DEF Probing
  <2>18. cts' \in [Threads -> Nat] /\ won' \in Seq(TablePairs)
    BY <1>10 DEF TableTypes
  <2> QED
    BY <1>1, <1>2, <1>8, <2>2, <2>4, <2>7, <2>8, <2>9, <2>10, <2>11, <2>14, <2>15, <2>16, <2>17,
       <2>18, StoreKeeps
<1>11. CASE hin.kind # "sparse" /\ Store(w, kv, NoJob) /\ Returns(w, TRUE)
  <2>1. slots' = [slots EXCEPT ![h] = kv] /\ job' = [job EXCEPT ![w] = NoJob]
    BY <1>0, <1>11 DEF Store
  <2>2. slots'[h] = kv /\ (\A g \in Indices : g # h => slots'[g] = slots[g]) /\ DOMAIN slots' = DOMAIN slots
    BY <1>2, <1>4, <2>1
  <2>3. NoJob \in Jobs /\ NoJob.pc = "idle"
    <3>1. EmptySlot \in Cells
      BY CellsAre
    <3> QED
      BY <3>1 DEF NoJob, Jobs
  <2>4. /\ job' \in [Threads -> Jobs] /\ job'[w].pc = "idle"
        /\ \A v \in Threads : v # w => job'[v] = job[v]
    BY <1>2, <2>1, <2>3
  <2>5. Moves(w)
    <3>1. \A g \in Indices : Rises(g)
      BY <1>3, <1>6, <2>2 DEF Rises
    <3> QED
      BY <1>1, <1>2, <2>2, <2>4, <3>1 DEF Moves
  <2>6. \A p \in TablePairs : Carries(w, p) => Alike(kv, p)
    BY <1>0 DEF Carries
  <2>7. TableTypes' => AllCounted' /\ WinsAre'
    BY <1>1, <1>2, <1>9, <1>11, <2>1, Wins
  <2>8. TableTypes' => Claims'
    <3>1. \A v \in Threads : job'[v].pc # "value"
      BY <1>11, <2>4 DEF Claims
    <3> QED
      BY <1>1, <1>11, <2>2, <3>1, NoClaims
  <2>9. ~Probing(w)' /\ job'[w].pc # "act"
    BY <2>4 DEF Probing
  <2>10. cts' \in [Threads -> Nat] /\ won' \in Seq(TablePairs)
    BY <1>2, <1>11, CountsTypes
  <2> QED
    BY <1>1, <1>2, <1>5, <1>6, <1>8, <2>1, <2>4, <2>5, <2>6, <2>7, <2>8, <2>9, <2>10, StoreKeeps
<1> QED
  BY <1>0, <1>10, <1>11 DEF ClaimEmpty

\* WriteValue: the slot that the thread has claimed becomes full.
LEMMA WriteValueKeeps ==
  ASSUME TableInv, NEW w \in Threads, WriteValue(w) PROVE TableInv'
<1> USE DEF TableInv
<1>0. PICK h, kv : h = job[w].h /\ kv = job[w].kv
  OBVIOUS
<1>1. /\ job[w].pc = "value" /\ slots' = [slots EXCEPT ![h] = kv]
      /\ job' = [job EXCEPT ![w] = NoJob] /\ Returns(w, TRUE)
      /\ hin' = hin /\ old_t' = old_t /\ waiting' = waiting /\ ne' = ne
      /\ deletes' = deletes /\ mode' = mode
  BY <1>0 DEF WriteValue, Store
<1>2. hin.kind = "sparse" /\ slots[h] = <<kv[1], NoValue>>
  BY <1>0, <1>1 DEF Claims
<1>3. /\ mode \in {"insert", "resize"} /\ job \in [Threads -> Jobs]
      /\ h \in Indices /\ kv \in TablePairs /\ slots[h] \in Cells
      /\ job[w].own \in TablePairs /\ job[w].own = kv
  BY <1>0, <1>1, <1>2, Working
<1>4. /\ kv \in Cells /\ kv # EmptySlot /\ kv[1] # EmptySlot[1] /\ kv[2] # NoValue
      /\ slots[h][1] = kv[1] /\ slots[h][2] = NoValue
  BY <1>2, <1>3, CellsAre
<1>5. slots[h] # EmptySlot /\ h \notin Full
  BY <1>4 DEF Full
<1>6. slots \in [Indices -> Cells]
  BY DEF TableTypes
<1>7. slots'[h] = kv /\ (\A g \in Indices : g # h => slots'[g] = slots[g]) /\ DOMAIN slots' = DOMAIN slots
  BY <1>1, <1>3, <1>6
<1>8. NoJob \in Jobs /\ NoJob.pc = "idle"
  <2>1. EmptySlot \in Cells
    BY CellsAre
  <2> QED
    BY <2>1 DEF NoJob, Jobs
<1>9. /\ job' \in [Threads -> Jobs] /\ job'[w].pc = "idle"
      /\ \A v \in Threads : v # w => job'[v] = job[v]
  BY <1>1, <1>3, <1>8
<1>10. Moves(w)
  <2>1. \A g \in Indices : Rises(g)
    BY <1>2, <1>4, <1>5, <1>7 DEF Rises
  <2> QED
    BY <1>1, <1>3, <1>7, <1>9, <2>1 DEF Moves
<1>11. PassesTo(kv, h)
  <2>1. PassesTo(slots[h], h)
    BY <1>3, <1>5 DEF Placed
  <2> QED
    BY <1>2, <1>4, <2>1 DEF PassesTo, Passes
<1>12. \A p \in TablePairs : Alike(slots[h], p) => Alike(kv, p)
  BY <1>2, <1>4 DEF Alike
<1>13. \A p \in TablePairs : ~Carries(w, p)
  BY <1>1 DEF Carries, Probing
<1>14. TableTypes' => AllCounted' /\ WinsAre'
  BY <1>1, <1>3, <1>5, Wins
<1>15. Claims'
  <2>1. Indices' = Indices
    BY <1>7, SameShape
  <2>2. ASSUME NEW v \in Threads, job'[v].pc = "value"
        PROVE  v # w /\ job'[v] = job[v] /\ job[v].h # h /\ job[v].h \in Indices
    <3>1. v # w /\ job'[v] = job[v]
      BY <1>9, <2>2
    <3>2. job[v].h # h
      BY <1>0, <1>1, <2>2, <3>1 DEF Claims
    <3> QED
      BY <2>2, <3>1, <3>2 DEF TableTypes
  <2>3. ASSUME NEW v \in Threads, job'[v].pc = "value"
        PROVE  hin'.kind = "sparse" /\ slots'[job'[v].h] = <<job'[v].kv[1], NoValue>>
    <3>1. slots[job[v].h] = <<job[v].kv[1], NoValue>>
      BY <2>2, <2>3 DEF Claims
    <3> QED
      BY <1>1, <1>2, <1>7, <2>2, <2>3, <3>1
  <2>4. \A v, x \in Threads : job'[v].pc = "value" /\ job'[x].pc = "value" /\ job'[v].h = job'[x].h => v = x
    BY <2>2 DEF Claims
  <2>5. ASSUME NEW g \in Indices, slots'[g][2] = NoValue
        PROVE  \E v \in Threads : job'[v].pc = "value" /\ job'[v].h = g
    <3>1. g # h /\ slots[g][2] = NoValue
      BY <1>4, <1>7, <2>5
    <3>2. PICK v \in Threads : job[v].pc = "value" /\ job[v].h = g
      BY <3>1 DEF Claims
    <3> QED
      BY <1>0, <1>9, <3>1, <3>2
  <2> QED
    BY <2>1, <2>3, <2>4, <2>5 DEF Claims
<1>16. ~Probing(w)' /\ job'[w].pc # "act"
  BY <1>9 DEF Probing
<1>17. cts' \in [Threads -> Nat] /\ won' \in Seq(TablePairs)
  BY <1>1, <1>3, CountsTypes
<1> QED
  BY <1>1, <1>3, <1>4, <1>9, <1>10, <1>11, <1>12, <1>13, <1>14, <1>15, <1>16, <1>17, StoreKeeps

-----------------------------------------------------------------------------
(* HashTables: between the stages.                                         *)

\* Nothing sums to nothing.
LEMMA SumOfZeros ==
  ASSUME NEW W, IsFiniteSet(W), NEW f \in [W -> Nat], \A w \in W : f[w] = 0
  PROVE  Summed(f, W) = 0
<1> DEFINE F == Partial(f, W)
           S == {s \in SUBSET W : F[s] = 0}
<1>1. /\ Summed(f, W) = F[W] /\ F[{}] = 0
      /\ \A s \in SUBSET W : \A v \in W : v \notin s => F[s \cup {v}] = F[s] + f[v]
  BY PartialSums
<1> HIDE DEF F
<1>2. {} \in S
  BY <1>1
<1>3. ASSUME NEW s \in SUBSET W, NEW v \in W, s \in S PROVE s \cup {v} \in S
  <2>1. CASE v \in s
    <3>1. s \cup {v} = s
      BY <2>1
    <3> QED
      BY <1>3, <3>1
  <2>2. CASE v \notin s
    <3>1. F[s \cup {v}] = F[s] + f[v] /\ F[s] = 0 /\ f[v] = 0
      BY <1>1, <1>3, <2>2
    <3> QED
      BY <3>1
  <2> QED
    BY <2>1, <2>2
<1> HIDE DEF S
<1>4. \A s \in SUBSET W : s \in S
  BY <1>2, <1>3, SubsetInduction
<1>5. W \in S
  BY <1>4
<1> QED
  BY <1>1, <1>5 DEF S

\* A table that was cleared.
LEMMA ClearedTable ==
  ASSUME NEW n \in Nat \ {0}
  PROVE  /\ DOMAIN Cleared(n) = 0..(n - 1) /\ Cardinality(0..(n - 1)) = n
         /\ Cleared(n) \in [0..(n - 1) -> {EmptySlot}]
<1>1. Cardinality(0..(n - 1)) = n
  BY FS_Interval
<1> QED
  BY <1>1 DEF Cleared

\* The first state of a table that holds nothing, of which nothing is known to go wrong.
LEMMA NothingThere ==
  ASSUME NEW n \in Nat \ {0}, slots = Cleared(n)
  PROVE  /\ TableSize = n /\ slots \in [Indices -> {EmptySlot}] /\ Full = {}
         /\ \A h \in Indices : slots[h] = EmptySlot /\ slots[h][2] # NoValue
<1>1. TableSize = n /\ Indices = 0..(n - 1) /\ slots \in [Indices -> {EmptySlot}]
  BY ClearedTable DEF TableSize, Indices
<1>2. \A h \in Indices : slots[h] = EmptySlot
  BY <1>1
<1>3. EmptySlot[2] # NoValue
  BY DEF EmptySlot, NoValue
<1> QED
  BY <1>1, <1>2, <1>3 DEF Full

\* The first state: nothing is in the table or travels.
LEMMA TableStarts == TableInit => TableInv
<1> SUFFICES ASSUME TableInit PROVE TableInv
  OBVIOUS
<1>1. /\ hin \in TableInputs /\ hin.m \in Nat \ {0} /\ slots = Cleared(hin.m)
      /\ IsFiniteSet(Threads) /\ hin.deletes \in Seq(Nat) /\ hin.pairs \in Seq(Nat \X Nat)
  BY HashTablesAssumption DEF TableInit
<1>2. /\ old_t = {} /\ waiting = DOMAIN hin.pairs /\ job = [w \in Threads |-> NoJob]
      /\ ne = 0 /\ cts = [w \in Threads |-> 0] /\ won = << >> /\ deletes = hin.deletes
      /\ mode = "insert"
  BY DEF TableInit
<1>3. /\ TableSize = hin.m /\ slots \in [Indices -> {EmptySlot}] /\ Full = {}
      /\ \A h \in Indices : slots[h] = EmptySlot /\ slots[h][2] # NoValue
  BY <1>1, NothingThere
<1>4. \A w \in Threads : job[w] = NoJob /\ job[w].pc = "idle"
  BY <1>2 DEF NoJob
<1>5. EmptySlot \in Cells
  BY DEF Cells
<1>6. NoJob \in Jobs
  BY <1>5 DEF NoJob, Jobs
<1>7. TableTypes
  <2>1. slots \in [Indices -> Cells] /\ TableSize \in Nat \ {0}
    BY <1>1, <1>3, <1>5
  <2>2. job \in [Threads -> Jobs]
    BY <1>2, <1>6
  <2>3. won \in Seq(TablePairs) /\ cts \in [Threads -> Nat] /\ ne \in Nat
    BY <1>2
  <2> QED
    BY <1>1, <1>2, <1>3, <1>4, <2>1, <2>2, <2>3 DEF TableTypes
<1>8. Modes
  <2>1. deletes = SubSeq(hin.deletes, 0 + 1, Len(hin.deletes))
    BY <1>1, <1>2
  <2>2. Len(hin.deletes) \in Nat
    BY <1>1
  <2> QED
    BY <1>2, <2>1, <2>2 DEF Modes
<1>9. Placed /\ Travels /\ Loads /\ Drops
  BY <1>3, <1>4 DEF Placed, Travels, Loads, Drops, Probing, Dropping
<1>10. Claims
  BY <1>3, <1>4 DEF Claims
<1>11. Kept
  BY <1>2 DEF Kept
<1>12. AllCounted
  <2>1. Summed(cts, Threads) = 0
    BY <1>1, <1>2, SumOfZeros
  <2> QED
    BY <1>2, <1>3, <2>1, FS_EmptySet DEF AllCounted
<1>13. WinsAre
  BY <1>2, <1>3 DEF WinsAre
<1>14. Holed /\ Left
  BY <1>2 DEF Holed, Left
<1> QED
  BY <1>7, <1>8, <1>9, <1>10, <1>11, <1>12, <1>13, <1>14 DEF TableInv

\* Where all is taken and nobody is under way every pair has its slot.
LEMMA AllStored ==
  ASSUME TableInv, mode \in {"insert", "resize"}, waiting = {}, AllIdle, old_t = {}
  PROVE  /\ \A h \in Indices : slots[h] # EmptySlot => slots[h] \in TablePairs
         /\ KeysIn(Indices) = TableKeys
         /\ hin.kind = "resizable" => TablePairs \subseteq Entries(slots)
<1> USE DEF TableInv
<1>1. \A h \in Indices : slots[h] \in Cells /\ slots[h][2] # NoValue
  BY DEF AllIdle, Claims, TableTypes
<1>2. \A h \in Indices : slots[h] # EmptySlot => slots[h] \in TablePairs
  BY <1>1, CellsAre
<1>3. ASSUME NEW p \in TablePairs PROVE \E h \in Indices : Alike(slots[h], p)
  <2>1. PICK i \in DOMAIN hin.pairs : p = hin.pairs[i]
    BY DEF TablePairs
  <2>2. Present(p)
    BY <2>1 DEF Kept
  <2> QED
    BY <2>2 DEF Present, AllIdle, Probing
<1>4. ASSUME NEW p \in TablePairs, NEW h \in Indices, Alike(slots[h], p)
      PROVE  slots[h] # EmptySlot /\ slots[h][1] = p[1]
  <2>1. p # EmptySlot /\ p[1] # EmptySlot[1]
    BY CellsAre
  <2> QED
    BY <1>4, <2>1 DEF Alike
<1>5. KeysIn(Indices) = TableKeys
  <2>1. ASSUME NEW k \in TableKeys PROVE k \in KeysIn(Indices)
    <3>1. PICK p \in TablePairs : k = p[1]
      BY DEF TableKeys
    <3>2. PICK h \in Indices : Alike(slots[h], p)
      BY <1>3
    <3> QED
      BY <1>4, <3>1, <3>2 DEF KeysIn
  <2>2. KeysIn(Indices) \subseteq TableKeys
    BY <1>2 DEF KeysIn, TableKeys
  <2> QED
    BY <2>1, <2>2
<1>6. ASSUME hin.kind = "resizable", NEW p \in TablePairs PROVE p \in Entries(slots)
  <2>1. PICK h \in Indices : Alike(slots[h], p)
    BY <1>3
  <2>2. slots[h] = p /\ p # EmptySlot /\ h \in DOMAIN slots
    BY <1>4, <1>6, <2>1 DEF Alike, TableTypes
  <2> QED
    BY <2>2 DEF Entries
<1> QED
  BY <1>2, <1>5, <1>6

\* update_nelms returns the sum of the counts.
LEMMA CountIsSum ==
  ASSUME TableTypes
  PROVE  update_nelms = ne + Summed(cts, Threads) /\ update_nelms \in Nat
<1>1. update_nelms = ne + Summed(cts, Threads)
  BY DEF update_nelms, Summed
<1>2. Summed(cts, Threads) \in Nat /\ ne \in Nat
  BY SumIsNatural, HashTablesAssumption DEF TableTypes
<1> QED
  BY <1>1, <1>2

\* Before a deletion none of the keys to delete is deleted.
LEMMA NoneDeleted ==
  ASSUME TableTypes, Modes, mode \in {"insert", "resize"}
  PROVE  deletes = hin.deletes /\ Deleted = {} /\ deletes = SubSeq(hin.deletes, 0 + 1, Len(hin.deletes))
<1>1. hin.deletes \in Seq(Nat)
  BY HashTablesAssumption DEF TableTypes
<1>2. deletes = SubSeq(hin.deletes, 0 + 1, Len(hin.deletes))
  BY DEF Modes
<1>3. deletes = hin.deletes
  BY <1>1, <1>2
<1>4. Len(hin.deletes) - Len(deletes) = 0
  BY <1>1, <1>3
<1> QED
  BY <1>2, <1>3, <1>4 DEF Deleted

\* Quiesce without a resize, and Resized.
LEMMA TurnsQuiet ==
  ASSUME TableInv, mode \in {"insert", "resize"}, waiting = {}, AllIdle, old_t = {},
         ne' = update_nelms, cts' = [w \in Threads |-> 0], mode' = "quiet", hin' = hin,
         slots' = slots, old_t' = old_t, waiting' = waiting, job' = job, won' = won,
         deletes' = deletes, hole' = hole
  PROVE  TableInv'
<1> USE DEF TableInv
<1>1. /\ Indices' = Indices /\ TablePairs' = TablePairs /\ Cells' = Cells /\ Jobs' = Jobs
      /\ TableSize' = TableSize /\ TableKeys' = TableKeys
  BY Frame
<1>2. \A w \in Threads : job'[w].pc = "idle"
  BY DEF AllIdle
<1>3. TableTypes'
  <2>1. ne' \in Nat /\ cts' \in [Threads -> Nat]
    BY CountIsSum
  <2> QED
    BY <1>1, <1>2, <2>1 DEF TableTypes
<1>4. /\ deletes = hin.deletes /\ Deleted = {}
      /\ deletes = SubSeq(hin.deletes, 0 + 1, Len(hin.deletes)) /\ Len(hin.deletes) \in Nat
  BY NoneDeleted, HashTablesAssumption DEF TableTypes
<1>5. Modes'
  BY <1>2, <1>4 DEF Modes, AllIdle
<1>6. Placed'
  <2>1. \A k, h : Way(k, h)' = Way(k, h)
    BY SameShape
  <2>2. \A h \in Indices : slots[h] # EmptySlot => PassesTo(slots[h], h)
    BY DEF Placed
  <2> QED
    BY <1>1, <2>1, <2>2 DEF Placed, PassesTo, Passes
<1>7. Travels' /\ Loads' /\ Drops' /\ Kept' /\ Holed'
  BY <1>2 DEF Travels, Loads, Drops, Kept, Holed, Probing, Dropping
<1>8. Claims'
  BY <1>1, <1>2 DEF Claims, AllIdle
<1>9. Full' = Full
  BY <1>1 DEF Full
<1>10. AllCounted'
  <2>1. Summed(cts', Threads) = 0
    BY SumOfZeros, HashTablesAssumption
  <2>2. ne' = Cardinality(Full) /\ ne' \in Nat
    BY <1>4, CountIsSum DEF AllCounted
  <2>3. ne' + Summed(cts', Threads) = Cardinality(Full')
    BY <1>9, <2>1, <2>2
  <2> QED
    BY <2>3 DEF AllCounted
<1>11. WinsAre'
  <2>1. {slots'[h] : h \in Full'} = {slots[h] : h \in Full}
    BY <1>9
  <2>2. {won'[i] : i \in DOMAIN won'} = {won[i] : i \in DOMAIN won}
    OBVIOUS
  <2>3. hin.kind = "sparse" => {won[i] : i \in DOMAIN won} = {slots[h] : h \in Full}
    BY DEF WinsAre
  <2> QED
    BY <2>1, <2>2, <2>3 DEF WinsAre
<1>12. Left'
  <2>1. KeysIn(Indices) = TableKeys /\ (hin.kind = "resizable" => TablePairs \subseteq Entries(slots))
    BY AllStored
  <2>2. (KeysIn(Indices))' = KeysIn(Indices) /\ Deleted' = Deleted
    BY <1>1 DEF KeysIn, Deleted
  <2> QED
    BY <1>1, <1>4, <2>1, <2>2 DEF Left
<1> QED
  BY <1>3, <1>5, <1>6, <1>7, <1>8, <1>10, <1>11, <1>12

\* Quiesce with a resize.
LEMMA TurnsBigger ==
  ASSUME TableInv, mode = "insert", waiting = {}, AllIdle, hin.kind = "resizable",
         NEW n \in Nat \ {0}, slots' = Cleared(n), old_t' = Entries(slots), ne' = 0,
         cts' = [w \in Threads |-> 0], mode' = "resize", hin' = hin,
         waiting' = waiting, job' = job, won' = won, deletes' = deletes, hole' = hole
  PROVE  TableInv'
<1> USE DEF TableInv
<1>1. /\ TablePairs' = TablePairs /\ Cells' = Cells /\ Jobs' = Jobs
  <2>1. TablePairs' = TablePairs
    BY DEF TablePairs
  <2>2. Cells' = Cells
    BY <2>1 DEF Cells, Unwritten
  <2> QED
    BY <2>1, <2>2 DEF Jobs
<1>2. TableSize' = n /\ Indices' = 0..(n - 1) /\ slots' \in [Indices' -> {EmptySlot}]
  BY ClearedTable DEF TableSize, Indices
<1>3. (\A h \in Indices' : slots'[h] = EmptySlot /\ slots'[h][2] # NoValue) /\ Full' = {}
  <2>1. EmptySlot[2] # NoValue
    BY DEF EmptySlot, NoValue
  <2> QED
    BY <1>2, <2>1 DEF Full
<1>4. /\ \A h \in Indices : slots[h] # EmptySlot => slots[h] \in TablePairs
      /\ TablePairs \subseteq Entries(slots)
  BY AllStored DEF Modes
<1>5. \A w \in Threads : job'[w].pc = "idle"
  BY DEF AllIdle
<1>6. TableTypes'
  <2>1. Entries(slots) \subseteq TablePairs
    BY <1>4 DEF Entries, TableTypes
  <2>2. slots' \in [Indices' -> Cells']
    BY <1>2 DEF Cells
  <2>3. cts' \in [Threads -> Nat]
    OBVIOUS
  <2> QED
    BY <1>1, <1>2, <1>5, <2>1, <2>2, <2>3 DEF TableTypes
<1>7. /\ deletes = SubSeq(hin.deletes, 0 + 1, Len(hin.deletes)) /\ Len(hin.deletes) \in Nat
  BY NoneDeleted, HashTablesAssumption DEF TableTypes
<1>8. Modes'
  BY <1>7 DEF Modes
<1>9. Placed' /\ Travels' /\ Loads' /\ Drops' /\ Holed' /\ Left'
  BY <1>3, <1>5 DEF Placed, Travels, Loads, Drops, Holed, Left, Probing, Dropping
<1>10. Claims'
  BY <1>3, <1>5 DEF Claims
<1>11. Kept'
  <2> SUFFICES ASSUME NEW i \in DOMAIN hin.pairs PROVE Present(hin.pairs[i])'
    BY DEF Kept
  <2>1. hin'.pairs[i] \in old_t'
    BY <1>4 DEF TablePairs
  <2> QED
    BY <2>1 DEF Present
<1>12. AllCounted'
  <2>1. Summed(cts', Threads) = 0
    BY SumOfZeros, HashTablesAssumption
  <2>2. ne' + Summed(cts', Threads) = Cardinality(Full')
    BY <1>3, <2>1, FS_EmptySet
  <2> QED
    BY <2>2 DEF AllCounted
<1>13. WinsAre'
  BY DEF WinsAre
<1> QED
  BY <1>6, <1>8, <1>9, <1>10, <1>11, <1>12, <1>13

\* Quiesce: the insertions are over, or a bigger table takes the place of this one.
LEMMA QuiesceKeeps == ASSUME TableInv, Quiesce PROVE TableInv'
<1>1. mode = "insert" /\ waiting = {} /\ AllIdle /\ old_t = {}
  BY DEF Quiesce, TableInv, Modes
<1>2. CASE hin.kind = "resizable" /\ 4 * update_nelms > TableSize
  <2>1. log2_size(10 * update_nelms) \in Nat \ {0}
    <3>1. 10 * update_nelms \in Nat
      BY CountIsSum DEF TableInv
    <3> QED
      BY <3>1, SizeGrows
  <2>2. /\ slots' = Cleared(log2_size(10 * update_nelms)) /\ old_t' = Entries(slots) /\ ne' = 0
        /\ cts' = [w \in Threads |-> 0] /\ mode' = "resize" /\ hin' = hin
        /\ waiting' = waiting /\ job' = job /\ won' = won /\ deletes' = deletes /\ hole' = hole
    BY <1>2 DEF Quiesce
  <2> QED
    BY <1>1, <1>2, <2>1, <2>2, TurnsBigger
<1>3. CASE ~(hin.kind = "resizable" /\ 4 * update_nelms > TableSize)
  <2>1. /\ ne' = update_nelms /\ cts' = [w \in Threads |-> 0] /\ mode' = "quiet" /\ hin' = hin
        /\ slots' = slots /\ old_t' = old_t /\ waiting' = waiting /\ job' = job /\ won' = won
        /\ deletes' = deletes /\ hole' = hole
    BY <1>3 DEF Quiesce
  <2> QED
    BY <1>1, <2>1, TurnsQuiet
<1> QED
  BY <1>2, <1>3

\* Resized: all entries are in the bigger table.
LEMMA ResizedKeeps == ASSUME TableInv, Resized PROVE TableInv'
<1>1. waiting = {}
  BY DEF TableInv, Modes, Resized
<1> QED
  BY <1>1, TurnsQuiet DEF Resized

-----------------------------------------------------------------------------
(* HashTables: deletions.                                                  *)

\* Least picks the least number.
LEMMA LeastIsLeast ==
  ASSUME NEW S, S \subseteq Nat, S # {}
  PROVE  Least(S) \in S /\ \A k \in S : Least(S) <= k
<1>1. \E m \in S : \A k \in S : m <= k
  BY LeastElement
<1> QED
  BY <1>1 DEF Least

\* Entries that have passed the slots before, and one another, are no two alike.
LEMMA KeysApart ==
  ASSUME TableTypes, NEW S, S \subseteq Indices,
         \A h, g \in S : slots[h] # EmptySlot /\ Way(slots[h][1], g) < Way(slots[h][1], h) =>
                         Passes(slots[h], g)
  PROVE  \A h, g \in S : slots[h] # EmptySlot /\ Alike(slots[h], slots[g]) => h = g
<1>1. ASSUME NEW h \in S, NEW g \in S, slots[h] # EmptySlot, slots[h][1] = slots[g][1],
             Way(slots[h][1], g) < Way(slots[h][1], h)
      PROVE  ~Alike(slots[h], slots[g])
  <2>1. slots[h] \in Cells /\ slots[g] \in Cells
    BY DEF TableTypes
  <2>2. slots[h][1] \in Nat
    BY <1>1, <2>1, CellsAre
  <2>3. Passes(slots[h], g)
    BY <1>1
  <2> QED
    BY <1>1, <2>2, <2>3, HashTablesAssumption DEF Passes, Alike, TableTypes
<1>2. ASSUME NEW h \in S, NEW g \in S, slots[h] # EmptySlot, Alike(slots[h], slots[g]), h # g
      PROVE  FALSE
  <2>1. slots[h][1] = slots[g][1] /\ h \in Indices /\ g \in Indices
    BY <1>2 DEF Alike
  <2>2. slots[h] \in Cells /\ slots[g] \in Cells
    BY <2>1 DEF TableTypes
  <2>3. slots[g] # EmptySlot /\ slots[h][1] \in TableKeys
    BY <1>2, <2>1, <2>2, CellsAre
  <2>4. Shaped /\ firstIndex(slots[h][1]) \in Indices
    BY <2>3, CellsAre, KeyIndices
  <2>5. /\ Way(slots[h][1], g) \in Indices /\ Way(slots[h][1], h) \in Indices
        /\ Way(slots[h][1], g) # Way(slots[h][1], h)
    BY <1>2, <2>1, <2>4, StepsAre DEF Way
  <2>6. Way(slots[h][1], g) < Way(slots[h][1], h) \/ Way(slots[h][1], h) < Way(slots[h][1], g)
    BY <2>5 DEF Indices
  <2>7. Alike(slots[g], slots[h])
    BY <1>2 DEF Alike
  <2> QED
    BY <1>1, <1>2, <2>1, <2>3, <2>6, <2>7
<1> QED
  BY <1>2

\* Walk comes to a key that is there.
LEMMA WalkStops ==
  ASSUME TableInv, mode = "quiet", hin.kind = "pbbs", NEW k \in Nat, hash(k) \in Nat
  PROVE  Walk(k) \in Indices /\ (k \in KeysIn(Indices) => slots[Walk(k)][1] = k)
<1> USE DEF TableInv
<1> DEFINE a == firstIndex(k)
           at(x) == slots[(a + x) % TableSize]
           S == {x \in 0..TableSize : x = TableSize \/ at(x)[1] <= k}
<1>1. Shaped /\ TableSize \in Nat \ {0} /\ a \in Indices
  BY CellsAre, FirstIndices
<1>2. Least(S) \in S /\ \A x \in S : Least(S) <= x
  <2>1. S \subseteq Nat /\ TableSize \in S
    BY <1>1
  <2> HIDE DEF S
  <2> QED
    BY <2>1, LeastIsLeast
<1>3. PICK n : n = Least(S)
  OBVIOUS
<1>4. Walk(k) = (a + n) % TableSize
  BY <1>3 DEF Walk
<1>5. n \in 0..TableSize /\ (n = TableSize \/ at(n)[1] <= k)
  BY <1>2, <1>3
<1>6. \A x \in 0..TableSize : at(x)[1] <= k => n <= x
  BY <1>2, <1>3
<1> HIDE DEF S
<1>7. /\ \A b \in Indices : Steps(a, b) \in Indices /\ (a + Steps(a, b)) % TableSize = b
      /\ \A x \in Indices : (a + x) % TableSize \in Indices /\ Steps(a, (a + x) % TableSize) = x
      /\ (a + TableSize) % TableSize = a
  BY <1>1, StepsAre
<1> HIDE DEF a
<1>8. n \in Indices \/ n = TableSize
  BY <1>1, <1>5 DEF Indices
<1>9. Walk(k) \in Indices
  BY <1>1, <1>4, <1>7, <1>8
<1>10. ASSUME k \in KeysIn(Indices) PROVE slots[Walk(k)][1] = k
  <2>1. PICK h \in Indices : slots[h] # EmptySlot /\ slots[h][1] = k
    BY <1>10 DEF KeysIn
  <2>2. PICK m : m = Steps(a, h)
    OBVIOUS
  <2>3. m \in Indices /\ (a + m) % TableSize = h /\ m \in 0..TableSize /\ m < TableSize
    <3>1. m \in Indices /\ (a + m) % TableSize = h
      BY <1>7, <2>1, <2>2
    <3> QED
      BY <1>1, <3>1 DEF Indices
  <2>4. n <= m
    BY <1>6, <2>1, <2>3
  <2>5. n \in Indices
    BY <1>1, <1>8, <2>3, <2>4
  <2>6. ~(n < m)
    <3> SUFFICES ASSUME n < m PROVE FALSE
      OBVIOUS
    <3>1. PICK g : g = (a + n) % TableSize
      OBVIOUS
    <3>2. g \in Indices /\ Way(k, g) = n /\ Way(k, h) = m
      BY <1>7, <2>2, <2>5, <3>1 DEF Way, a
    <3>3. Passes(slots[h], g)
      BY <2>1, <3>2 DEF Placed, PassesTo
    <3>4. slots[g][1] > k /\ slots[g] # EmptySlot
      BY <2>1, <3>3 DEF Passes
    <3>5. slots[g][1] <= k
      BY <1>1, <1>5, <2>3, <2>4, <2>5, <3>1
    <3>6. slots[g] \in Cells
      BY <3>2 DEF TableTypes
    <3>7. slots[g][1] \in Nat
      BY <3>4, <3>6, CellsAre
    <3> QED
      BY <3>4, <3>5, <3>7
  <2>7. n = m
    BY <2>3, <2>4, <2>5, <2>6 DEF Indices
  <2> QED
    BY <1>4, <2>1, <2>3, <2>7
<1> QED
  BY <1>9, <1>10

\* The next key to delete.
LEMMA DeleteNext ==
  ASSUME TableTypes, Modes, mode = "quiet", deletes # << >>, hin' = hin, deletes' = Tail(deletes)
  PROVE  /\ hin.kind = "pbbs" /\ Head(deletes) \in Nat /\ hash(Head(deletes)) \in Nat
         /\ Deleted' = Deleted \cup {Head(deletes)} /\ deletes' # hin.deletes
         /\ \E n \in 0..Len(hin.deletes) :
              n # 0 /\ deletes' = SubSeq(hin.deletes, n + 1, Len(hin.deletes))
<1>1. /\ hin.deletes \in Seq(Nat) /\ \A i \in DOMAIN hin.deletes : hash(hin.deletes[i]) \in Nat
      /\ hin.deletes # << >> => hin.kind = "pbbs"
  BY HashTablesAssumption DEF TableTypes
<1>2. PICK s, m : s = hin.deletes /\ m = Len(s)
  OBVIOUS
<1>3. s \in Seq(Nat) /\ m \in Nat /\ DOMAIN s = 1..m
  BY <1>1, <1>2
<1>4. PICK n \in 0..m : deletes = SubSeq(s, n + 1, m)
  BY <1>2 DEF Modes
<1>5. deletes \in Seq(Nat) /\ Len(deletes) = m - n
  <2>1. \A i \in (n + 1)..m : s[i] \in Nat
    BY <1>3
  <2>2. n + 1 \in Int /\ m \in Int
    BY <1>3
  <2>3. deletes \in Seq(Nat) /\ Len(deletes) = IF n + 1 <= m THEN m - (n + 1) + 1 ELSE 0
    BY <1>4, <2>1, <2>2, SubSeqProperties
  <2> QED
    BY <1>3, <2>3
<1>6. n < m
  BY <1>3, <1>5
<1>7. Head(deletes) = s[n + 1] /\ n + 1 \in DOMAIN s /\ deletes' = SubSeq(s, (n + 1) + 1, m)
  <2>1. n + 1 \in 1..Len(s) /\ m \in (n + 1)..Len(s)
    BY <1>2, <1>3, <1>6
  <2>2. Head(SubSeq(s, n + 1, m)) = s[n + 1] /\ Tail(SubSeq(s, n + 1, m)) = SubSeq(s, (n + 1) + 1, m)
    BY <1>3, <2>1, HeadTailOfSubSeq
  <2> QED
    BY <1>2, <1>3, <1>4, <2>1, <2>2
<1>8. hin.kind = "pbbs" /\ Head(deletes) \in Nat /\ hash(Head(deletes)) \in Nat
  <2>1. s # << >>
    BY <1>2, <1>3, <1>6
  <2>2. s[n + 1] \in Nat /\ hash(s[n + 1]) \in Nat
    <3>1. \A i \in DOMAIN s : s[i] \in Nat /\ hash(s[i]) \in Nat
      BY <1>1, <1>2
    <3> QED
      BY <1>7, <3>1
  <2> QED
    BY <1>1, <1>2, <1>7, <2>1, <2>2
<1>9. Len(Tail(deletes)) = m - n - 1
  BY <1>5, HeadTailProperties
<1>10. Len(deletes') = m - (n + 1)
  BY <1>3, <1>9
<1>11. deletes' # hin.deletes
  BY <1>2, <1>3, <1>10
<1>12. Deleted = {s[i] : i \in 1..n}
  <2>1. Len(s) - Len(deletes) = n
    BY <1>2, <1>3, <1>5
  <2> QED
    BY <1>2, <2>1 DEF Deleted
<1>13. Deleted' = {s[i] : i \in 1..(n + 1)}
  <2>1. Len(s) - Len(deletes') = n + 1
    BY <1>2, <1>3, <1>10
  <2> QED
    BY <1>2, <2>1 DEF Deleted
<1>14. 1..(n + 1) = 1..n \cup {n + 1}
  OBVIOUS
<1>15. Deleted' = Deleted \cup {Head(deletes)}
  BY <1>7, <1>12, <1>13, <1>14
<1>16. \E x \in 0..Len(hin.deletes) :
         x # 0 /\ deletes' = SubSeq(hin.deletes, x + 1, Len(hin.deletes))
  <2>1. n + 1 \in 0..m /\ n + 1 # 0
    BY <1>3, <1>6
  <2> QED
    BY <1>2, <1>7, <2>1
<1> QED
  BY <1>8, <1>11, <1>15, <1>16

\* deleteVal: the place of the key becomes the hole, if the key is there.
LEMMA deleteValKeeps ==
  ASSUME TableInv, deleteVal PROVE TableInv'
<1> USE DEF TableInv
<1>1. /\ mode = "quiet" /\ deletes # << >> /\ deletes' = Tail(deletes)
      /\ hin' = hin /\ slots' = slots /\ old_t' = old_t /\ waiting' = waiting /\ job' = job
      /\ ne' = ne /\ cts' = cts /\ won' = won
  BY DEF deleteVal
<1>2. PICK k : k = Head(deletes)
  OBVIOUS
<1>3. /\ hin.kind = "pbbs" /\ k \in Nat /\ hash(k) \in Nat
      /\ Deleted' = Deleted \cup {k} /\ deletes' # hin.deletes
      /\ \E n \in 0..Len(hin.deletes) :
           n # 0 /\ deletes' = SubSeq(hin.deletes, n + 1, Len(hin.deletes))
  BY <1>1, <1>2, DeleteNext
<1>4. PICK s : s = Walk(k)
  OBVIOUS
<1>5. s \in Indices /\ (k \in KeysIn(Indices) => slots[s][1] = k)
  BY <1>1, <1>3, <1>4, WalkStops
<1>6. \/ slots[s][1] = k /\ hole' = s /\ mode' = "fill"
      \/ slots[s][1] # k /\ mode' = "quiet" /\ hole' = hole
  BY <1>1, <1>2, <1>4 DEF deleteVal
<1>7. /\ Indices' = Indices /\ TablePairs' = TablePairs /\ Cells' = Cells /\ Jobs' = Jobs
      /\ TableSize' = TableSize /\ TableKeys' = TableKeys /\ \A x, h : Way(x, h)' = Way(x, h)
  BY <1>1, Frame, SameShape
<1>8. \A w \in Threads : job[w].pc = "idle"
  BY <1>1 DEF Modes, AllIdle
<1>9. TableTypes'
  BY <1>1, <1>6, <1>7 DEF TableTypes
<1>10. KeysIn(Indices) = TableKeys \ Deleted
  BY <1>1 DEF Left
<1>11. \A h \in Indices : slots[h] # EmptySlot => PassesTo(slots[h], h)
  BY <1>1 DEF Placed
<1>12. mode' = "fill" => hole' \in Indices /\ slots'[hole'] # EmptySlot
  <2>1. EmptySlot[1] = -1
    BY CellsAre
  <2> QED
    BY <1>1, <1>3, <1>5, <1>6, <2>1
<1>13. Modes'
  <2>1. waiting = {} /\ old_t = {} /\ cts = [w \in Threads |-> 0]
    BY <1>1 DEF Modes
  <2>2. AllIdle'
    BY <1>1, <1>8 DEF AllIdle
  <2> QED
    BY <1>1, <1>3, <1>6, <1>7, <1>12, <2>1, <2>2 DEF Modes
<1>14. Placed'
  BY <1>1, <1>6, <1>7, <1>11 DEF Placed, PassesTo, Passes
<1>15. Travels' /\ Loads' /\ Drops' /\ Kept'
  BY <1>1, <1>6, <1>8 DEF Travels, Loads, Drops, Kept, Probing, Dropping
<1>16. Claims' /\ WinsAre' /\ AllCounted'
  <2>1. Claims'
    BY <1>1, <1>7, <1>8 DEF Claims
  <2>2. WinsAre'
    BY <1>1, <1>3 DEF WinsAre
  <2>3. AllCounted'
    BY <1>1, <1>3 DEF AllCounted
  <2> QED
    BY <2>1, <2>2, <2>3
<1>17. Holed'
  <2>1. \A h \in Indices : slots[h] # EmptySlot =>
          \A g \in Indices : Way(slots[h][1], g) < Way(slots[h][1], h) => Passes(slots[h], g)
    BY <1>11 DEF PassesTo
  <2> QED
    BY <1>1, <1>7, <2>1 DEF Holed, Others, Passes
<1>18. Left'
  <2>1. CASE slots[s][1] # k /\ mode' = "quiet"
    <3>1. k \notin KeysIn(Indices)
      BY <1>5, <2>1
    <3>2. KeysIn(Indices) = TableKeys \ Deleted'
      BY <1>3, <1>10, <3>1
    <3>3. (KeysIn(Indices))' = KeysIn(Indices)
      BY <1>1, <1>7 DEF KeysIn
    <3> QED
      BY <1>1, <1>3, <1>7, <2>1, <3>2, <3>3 DEF Left
  <2>2. CASE slots[s][1] = k /\ hole' = s /\ mode' = "fill"
    <3>1. slots[s] # EmptySlot /\ k \in TableKeys
      <4>1. slots[s] # EmptySlot
        BY <1>1, <1>12, <2>2
      <4>2. slots[s] \in Cells
        BY <1>5 DEF TableTypes
      <4> QED
        BY <2>2, <4>1, <4>2, CellsAre
    <3>2. \A h, g \in Indices : slots[h] # EmptySlot /\ Alike(slots[h], slots[g]) => h = g
      <4>1. \A h, g \in Indices : slots[h] # EmptySlot /\ Way(slots[h][1], g) < Way(slots[h][1], h) =>
                                  Passes(slots[h], g)
        BY <1>11 DEF PassesTo
      <4> QED
        BY <4>1, KeysApart
    <3>3. \A h \in Indices : slots[h] # EmptySlot /\ h # s => slots[h][1] # k
      BY <1>3, <1>5, <2>2, <3>2 DEF Alike
    <3>4. KeysIn(Indices \ {s}) = KeysIn(Indices) \ {k}
      BY <1>5, <2>2, <3>1, <3>3 DEF KeysIn
    <3>5. (KeysIn(Others))' = KeysIn(Indices \ {s})
      BY <1>1, <1>7, <2>2 DEF KeysIn, Others
    <3>6. (KeysIn(Others))' = TableKeys \ Deleted'
      BY <1>3, <1>10, <3>4, <3>5
    <3>7. FullUpTo(k)'
      <4>1. \A g \in Indices : Way(k, g) < Way(k, s) => slots[g] # EmptySlot
        BY <1>5, <1>11, <2>2, <3>1 DEF PassesTo, Passes
      <4> QED
        BY <1>1, <1>7, <2>2, <4>1 DEF FullUpTo, Others
    <3> QED
      BY <1>3, <1>7, <2>2, <3>1, <3>6, <3>7 DEF Left
  <2> QED
    BY <1>6, <2>1, <2>2
<1> QED
  BY <1>9, <1>13, <1>14, <1>15, <1>16, <1>17, <1>18

-----------------------------------------------------------------------------
(* HashTables: filling the hole.                                           *)

Taken == {h \in Others : slots[h] # EmptySlot}

\* One key is gone for good, and the others are in one slot each.
LEMMA FewTaken ==
  ASSUME TableInv, mode = "fill"
  PROVE  /\ hin.kind = "pbbs" /\ hole \in Indices /\ deletes # hin.deletes
         /\ IsFiniteSet(TableKeys) /\ ShortStretches(TableKeys, TableSize)
         /\ \E k \in TableKeys \ KeysIn(Others) : FullUpTo(k)
         /\ \A h \in Taken : slots[h][1] \in KeysIn(Others) /\ slots[h][1] \in TableKeys
         /\ \A h, g \in Taken : slots[h][1] = slots[g][1] => h = g
<1> USE DEF TableInv
<1>1. /\ hin \in TableInputs /\ hin.pairs \in Seq(Nat \X Nat) /\ hin.deletes \in Seq(Nat)
      /\ hin.deletes # << >> =>
           hin.kind = "pbbs" /\ ShortStretches({hin.pairs[i][1] : i \in DOMAIN hin.pairs}, hin.m)
  BY HashTablesAssumption DEF TableTypes
<1>2. PICK n \in 0..Len(hin.deletes) :
        n # 0 /\ deletes = SubSeq(hin.deletes, n + 1, Len(hin.deletes))
  BY DEF Modes
<1>3. Len(hin.deletes) \in Nat /\ hin.deletes # << >>
  BY <1>1, <1>2
<1>4. deletes # hin.deletes
  <2>1. \A i \in (n + 1)..Len(hin.deletes) : hin.deletes[i] \in Nat
    BY <1>1, <1>2
  <2>2. n + 1 \in Int /\ Len(hin.deletes) \in Int
    BY <1>3
  <2>3. Len(deletes) = IF n + 1 <= Len(hin.deletes) THEN Len(hin.deletes) - (n + 1) + 1 ELSE 0
    BY <1>2, <2>1, <2>2, SubSeqProperties
  <2> QED
    BY <1>2, <1>3, <2>3
<1>5. TableKeys = {hin.pairs[i][1] : i \in DOMAIN hin.pairs}
  BY DEF TableKeys, TablePairs
<1>6. hin.kind = "pbbs" /\ ShortStretches(TableKeys, TableSize)
  BY <1>1, <1>3, <1>5 DEF TableTypes
<1>7. IsFiniteSet(TableKeys)
  <2>1. PICK m : m = Len(hin.pairs)
    OBVIOUS
  <2>2. m \in Nat /\ DOMAIN hin.pairs = 1..m
    BY <1>1, <2>1
  <2>3. IsFiniteSet(1..m)
    <3>1. 1 \in Int /\ m \in Int
      BY <2>2
    <3> QED
      BY <3>1, FS_Interval
  <2>4. [i \in 1..m |-> hin.pairs[i][1]] \in Surjection(1..m, TableKeys)
    BY <1>5, <2>2 DEF Surjection
  <2> QED
    BY <2>3, <2>4, FS_Surjection
<1>8. KeysIn(Others) = TableKeys \ Deleted /\ \E k \in TableKeys \cap Deleted : FullUpTo(k)
  BY DEF Left
<1>9. \A h, g \in Others : slots[h] # EmptySlot /\ Alike(slots[h], slots[g]) => h = g
  <2>1. Others \subseteq Indices
    BY DEF Others
  <2>2. \A h, g \in Others : slots[h] # EmptySlot /\ Way(slots[h][1], g) < Way(slots[h][1], h) =>
                              Passes(slots[h], g)
    BY DEF Holed
  <2> QED
    BY <2>1, <2>2, KeysApart
<1>10. \A h \in Taken : slots[h][1] \in KeysIn(Others)
  BY DEF Taken, KeysIn
<1>11. \A h, g \in Taken : slots[h][1] = slots[g][1] => h = g
  BY <1>6, <1>9 DEF Taken, Alike
<1>12. hole \in Indices
  BY DEF Modes
<1> QED
  BY <1>4, <1>6, <1>7, <1>8, <1>10, <1>11, <1>12

\* Where slots are taken but for the hole, each accounts for a key, the hole for the one
\* that is gone.
LEMMA KeysCounted ==
  ASSUME TableInv, mode = "fill", NEW W \in SUBSET Indices, W \ {hole} \subseteq Taken,
         NEW K \in SUBSET TableKeys, \A h \in W \ {hole} : slots[h][1] \in K,
         \A k \in TableKeys : hole \in W /\ FullUpTo(k) => k \in K
  PROVE  IsFiniteSet(W) /\ IsFiniteSet(K) /\ Cardinality(W) <= Cardinality(K)
<1>1. PICK k \in TableKeys \ KeysIn(Others) : FullUpTo(k)
  BY FewTaken
<1> DEFINE f == [h \in W |-> IF h = hole THEN k ELSE slots[h][1]]
<1>2. IsFiniteSet(K)
  BY FewTaken, FS_Subset
<1>3. \A h \in W \ {hole} : slots[h][1] \in KeysIn(Others)
  BY FewTaken
<1>4. \A h, g \in W \ {hole} : slots[h][1] = slots[g][1] => h = g
  BY FewTaken
<1>5. f \in [W -> K]
  BY <1>1
<1>6. \A h, g \in W : f[h] = f[g] => h = g
  BY <1>1, <1>3, <1>4
<1> HIDE DEF f
<1>7. f \in Injection(W, K)
  BY <1>5, <1>6 DEF Injection, IsInjective
<1>8. Cardinality(W) <= Cardinality(K)
  BY <1>2, <1>7, FS_Injection
<1>9. IsFiniteSet(W)
  BY <1>2, <1>7, FS_Injection
<1> QED
  BY <1>2, <1>8, <1>9

\* There is room: a slot besides the hole is empty.
LEMMA RoomLeft ==
  ASSUME TableInv, mode = "fill" PROVE \E e \in Others : slots[e] = EmptySlot
<1> SUFFICES ASSUME \A e \in Others : slots[e] # EmptySlot PROVE FALSE
  OBVIOUS
<1>1. Indices \ {hole} \subseteq Taken
  BY DEF Taken, Others
<1>2. \A h \in Indices \ {hole} : slots[h][1] \in TableKeys
  BY <1>1, FewTaken
<1>3. Cardinality(Indices) <= Cardinality(TableKeys)
  BY <1>1, <1>2, KeysCounted
<1>4. TableSize \in Nat \ {0} /\ Cardinality(Indices) = TableSize
  <2>1. TableSize \in Nat \ {0}
    BY DEF TableInv, TableTypes
  <2>2. Cardinality(0..(TableSize - 1)) = TableSize
    BY <2>1, FS_Interval
  <2> QED
    BY <2>1, <2>2 DEF Indices
<1>5. Cardinality(TableKeys) < TableSize /\ Cardinality(TableKeys) \in Nat
  BY FewTaken, FS_CardinalityType DEF ShortStretches
<1> QED
  BY <1>3, <1>4, <1>5

\* What steps from the empty slot e say of slots that lie on a way.
LEMMA StepsFrom ==
  ASSUME Shaped, NEW e \in Indices, NEW a \in Indices, NEW g \in Indices
  PROVE  /\ e # a => Steps(e, a) + Steps(a, e) = TableSize
         /\ Steps(e, g) >= Steps(e, a) => Steps(a, g) = Steps(e, g) - Steps(e, a)
         /\ Steps(e, g) < Steps(e, a) => Steps(g, a) = Steps(e, a) - Steps(e, g)
         /\ e # g /\ ~(Steps(a, e) < Steps(a, g)) => Steps(e, a) >= 1 /\ Steps(e, a) <= Steps(e, g)
         /\ Steps(a, a) = 0 /\ (e # g => Steps(e, g) >= 1)
         /\ Steps(e, g) \in Nat /\ Steps(e, g) < TableSize
<1>1. PICK n : n = TableSize
  OBVIOUS
<1>2. n \in Nat \ {0} /\ e \in 0..(n - 1) /\ a \in 0..(n - 1) /\ g \in 0..(n - 1)
  BY <1>1 DEF Shaped, Indices
<1>3. \A x, y : Steps(x, y) = IF x <= y THEN y - x ELSE y - x + n
  BY <1>1 DEF Steps
<1> QED
  BY <1>1, <1>2, <1>3

\* So a way that meets nothing but full slots and the hole is short: the stretch that
\* it is on begins after an empty slot, and its keys have their first indices in it.
LEMMA WaysAreShort ==
  ASSUME TableInv, mode = "fill", NEW a \in Indices, NEW n \in Nat, n <= TableSize,
         \A g \in Others : Steps(a, g) < n => slots[g] # EmptySlot
  PROVE  2 * n <= TableSize
<1>1. Shaped /\ TableSize \in Nat \ {0} /\ Others \subseteq Indices
  BY CellsAre DEF TableInv, Others
<1>2. CASE n = 0
  BY <1>1, <1>2
<1>3. CASE n # 0
  <2>1. PICK e \in Others : /\ slots[e] = EmptySlot
                            /\ \A g \in Others : slots[g] = EmptySlot => Steps(e, a) <= Steps(g, a)
    <3> DEFINE S == {Steps(g, a) : g \in {h \in Others : slots[h] = EmptySlot}}
    <3>1. S # {} /\ S \subseteq Nat
      BY <1>1, RoomLeft, StepsFrom
    <3> HIDE DEF S
    <3>2. Least(S) \in S /\ \A x \in S : Least(S) <= x
      BY <3>1, LeastIsLeast
    <3> QED
      BY <3>2 DEF S
  <2>2. PICK d : d = Steps(e, a)
    OBVIOUS
  <2>3. e \in Indices /\ e # a
    BY <1>1, <1>3, <2>1, StepsFrom
  <2>4. d \in Nat /\ d >= 1 /\ d + n - 1 < TableSize
    <3>1. Steps(a, e) >= n
      BY <1>1, <2>1, <2>3, StepsFrom
    <3> QED
      BY <1>1, <2>2, <2>3, <3>1, StepsFrom
  <2>5. PICK far : far = d + n - 1
    OBVIOUS
  <2>6. far \in 1..(TableSize - 1) /\ n <= far
    BY <1>1, <1>3, <2>4, <2>5
  <2>7. ASSUME NEW x \in 1..far
        PROVE  Cardinality({k \in TableKeys : After(TableSize, e, hash(k) % TableSize) \in 1..x}) >= x
    <3> DEFINE W == {g \in Indices : Steps(e, g) \in 1..x}
               K == {k \in TableKeys : After(TableSize, e, hash(k) % TableSize) \in 1..x}
    <3>0. x \in Nat /\ x >= 1 /\ x <= far
      BY <2>6, <2>7
    <3>1. ASSUME NEW g \in W, g # hole PROVE g \in Taken
      <4>1. g \in Others /\ g \in Indices /\ Steps(e, g) <= far /\ Steps(e, g) >= 1
        BY <2>6, <3>0, <3>1 DEF Others
      <4>2. CASE Steps(e, g) < d
        <5>1. Steps(g, a) < Steps(e, a)
          BY <1>1, <2>2, <2>3, <2>4, <4>1, <4>2, StepsFrom
        <5>2. Steps(g, a) \in Nat /\ Steps(e, a) \in Nat
          BY <1>1, <2>3, <4>1, StepsFrom
        <5>3. slots[g] # EmptySlot
          BY <2>1, <4>1, <5>1, <5>2
        <5> QED
          BY <4>1, <5>3 DEF Taken
      <4>3. CASE Steps(e, g) >= d
        <5>1. Steps(a, g) < n
          BY <1>1, <2>2, <2>3, <2>4, <2>5, <4>1, <4>3, StepsFrom
        <5> QED
          BY <4>1, <5>1 DEF Taken
      <4> QED
        BY <1>1, <2>3, <2>4, <4>1, <4>2, <4>3, StepsFrom
    <3>2. ASSUME NEW g \in W, NEW k \in TableKeys, ~(Way(k, e) < Way(k, g)) PROVE k \in K
      <4>1. PICK f : f = firstIndex(k)
        OBVIOUS
      <4>2. f \in Indices
        BY <4>1, KeyIndices DEF TableInv
      <4>3. g \in Indices /\ Steps(e, g) <= x /\ Steps(e, g) >= 1 /\ Steps(e, g) \in Nat
        BY <1>1, <2>3, StepsFrom
      <4>4. e # g
        BY <1>1, <2>3, <4>3, StepsFrom
      <4>5. Steps(e, f) >= 1 /\ Steps(e, f) <= Steps(e, g) /\ Steps(e, f) \in Nat
        BY <1>1, <2>3, <3>2, <4>1, <4>2, <4>3, <4>4, StepsFrom DEF Way
      <4>6. Steps(e, f) \in 1..x
        BY <3>0, <4>3, <4>5
      <4>7. After(TableSize, e, hash(k) % TableSize) = Steps(e, f)
        BY <4>1 DEF Steps, After, firstIndex
      <4> QED
        BY <4>6, <4>7
    <3>3. \A h \in W \ {hole} : slots[h][1] \in K
      <4> SUFFICES ASSUME NEW h \in W \ {hole} PROVE slots[h][1] \in K
        OBVIOUS
      <4>1. h \in Taken /\ slots[h][1] \in TableKeys
        BY <3>1, FewTaken
      <4>2. ~(Way(slots[h][1], e) < Way(slots[h][1], h))
        BY <2>1, <4>1 DEF TableInv, Holed, Taken, Passes
      <4> QED
        BY <3>2, <4>1, <4>2
    <3>4. \A k \in TableKeys : hole \in W /\ FullUpTo(k) => k \in K
      BY <2>1, <3>2 DEF FullUpTo
    <3>5. Cardinality(W) <= Cardinality(K) /\ IsFiniteSet(W) /\ IsFiniteSet(K)
      <4>1. W \in SUBSET Indices /\ W \ {hole} \subseteq Taken /\ K \in SUBSET TableKeys
        BY <3>1
      <4> HIDE DEF W, K
      <4> QED
        BY <3>3, <3>4, <4>1, KeysCounted
    <3>6. x <= Cardinality(W)
      <4> DEFINE f == [y \in 1..x |-> (e + y) % TableSize]
      <4>1. \A y \in 1..x : y \in Indices
        BY <1>1, <2>6, <3>0 DEF Indices
      <4>2. \A y \in 1..x : f[y] \in Indices /\ Steps(e, f[y]) = y
        BY <1>1, <2>3, <4>1, StepsAre
      <4>3. \A y \in 1..x : f[y] \in W
        BY <4>2
      <4>4. f \in Injection(1..x, W)
        BY <4>2, <4>3 DEF Injection, IsInjective
      <4> HIDE DEF f, W
      <4>5. Cardinality(1..x) <= Cardinality(W)
        BY <3>5, <4>4, FS_Injection
      <4>6. Cardinality(1..x) = x
        BY <3>0, FS_Interval
      <4> QED
        BY <4>5, <4>6
    <3> HIDE DEF W, K
    <3>7. Cardinality(W) \in Nat /\ Cardinality(K) \in Nat
      BY <3>5, FS_CardinalityType
    <3>8. Cardinality(K) >= x
      BY <3>0, <3>5, <3>6, <3>7
    <3> QED
      BY <3>8 DEF K
  <2>8. e \in 0..(TableSize - 1)
    BY <2>3 DEF Indices
  <2>9. 2 * far <= TableSize
    BY <2>6, <2>7, <2>8, FewTaken DEF ShortStretches
  <2> QED
    BY <1>1, <2>6, <2>9
<1> QED
  BY <1>2, <1>3

\* lessIndex is right about short ways: an entry whose way passes the hole may move there ...
LEMMA NotLess ==
  ASSUME Shaped, NEW f \in Indices, NEW a \in Indices, NEW h \in Indices,
         2 * (Steps(f, h) + 1) <= TableSize, Steps(f, a) < Steps(f, h)
  PROVE  ~lessIndex(a, f)
<1>1. PICK n : n = TableSize
  OBVIOUS
<1>2. n \in Nat \ {0} /\ f \in 0..(n - 1) /\ a \in 0..(n - 1) /\ h \in 0..(n - 1)
  BY <1>1 DEF Shaped, Indices
<1>3. /\ Steps(f, h) = IF f <= h THEN h - f ELSE h - f + n
      /\ Steps(f, a) = IF f <= a THEN a - f ELSE a - f + n
  BY <1>1 DEF Steps
<1>4. lessIndex(a, f) <=> IF a < f THEN 2 * (f - a) < n ELSE 2 * (a - f) > n
  BY <1>1 DEF lessIndex
<1>5. 2 * (Steps(f, h) + 1) <= n /\ Steps(f, a) < Steps(f, h)
  BY <1>1
<1> QED
  BY <1>2, <1>3, <1>4, <1>5

\* ... and one whose way begins after the hole may not.
LEMMA IsLess ==
  ASSUME Shaped, NEW f \in Indices, NEW a \in Indices, NEW h \in Indices,
         2 * (Steps(f, h) + 1) <= TableSize, 2 * (Steps(a, h) + 1) <= TableSize,
         Steps(f, h) < Steps(f, a)
  PROVE  lessIndex(a, f)
<1>1. PICK n : n = TableSize
  OBVIOUS
<1>2. n \in Nat \ {0} /\ f \in 0..(n - 1) /\ a \in 0..(n - 1) /\ h \in 0..(n - 1)
  BY <1>1 DEF Shaped, Indices
<1>3. /\ Steps(f, h) = IF f <= h THEN h - f ELSE h - f + n
      /\ Steps(f, a) = IF f <= a THEN a - f ELSE a - f + n
      /\ Steps(a, h) = IF a <= h THEN h - a ELSE h - a + n
  BY <1>1 DEF Steps
<1>4. lessIndex(a, f) <=> IF a < f THEN 2 * (f - a) < n ELSE 2 * (a - f) > n
  BY <1>1 DEF lessIndex
<1>5. 2 * (Steps(f, h) + 1) <= n /\ 2 * (Steps(a, h) + 1) <= n /\ Steps(f, h) < Steps(f, a)
  BY <1>1
<1> QED
  BY <1>2, <1>3, <1>4, <1>5

\* What lies between two slots on the way to the second is nearer to the first.
LEMMA LiesBetween ==
  ASSUME Shaped, NEW f \in Indices, NEW a \in Indices, NEW h \in Indices, NEW g \in Indices,
         Steps(f, a) < Steps(f, h), Steps(f, h) < Steps(f, g)
  PROVE  Steps(a, h) < Steps(a, g)
<1>1. PICK n : n = TableSize
  OBVIOUS
<1>2. /\ n \in Nat \ {0} /\ f \in 0..(n - 1) /\ a \in 0..(n - 1)
      /\ h \in 0..(n - 1) /\ g \in 0..(n - 1)
  BY <1>1 DEF Shaped, Indices
<1>3. \A x, y : Steps(x, y) = IF x <= y THEN y - x ELSE y - x + n
  BY <1>1 DEF Steps
<1> QED
  BY <1>2, <1>3

\* Replacement is the first slot after the hole that is empty or may stand there.
LEMMA ReplacementIs ==
  ASSUME TableInv, mode = "fill"
  PROVE  /\ Replacement \in Others
         /\ \A g \in Others : Steps(hole, g) < Steps(hole, Replacement) =>
              slots[g] # EmptySlot /\ lessIndex(hole, firstIndex(slots[g][1]))
         /\ slots[Replacement] # EmptySlot =>
              ~lessIndex(hole, firstIndex(slots[Replacement][1]))
<1> USE DEF TableInv
<1> DEFINE at(x) == (hole + x) % TableSize
           fits(x) == slots[at(x)] = EmptySlot \/ ~lessIndex(hole, firstIndex(slots[at(x)][1]))
           S == {x \in 1..TableSize : x = TableSize \/ fits(x)}
<1>1. Shaped /\ TableSize \in Nat \ {0} /\ hole \in Indices
  BY CellsAre, FewTaken
<1>2. Least(S) \in S /\ \A x \in S : Least(S) <= x
  <2>1. S \subseteq Nat /\ TableSize \in S
    BY <1>1
  <2> HIDE DEF S
  <2> QED
    BY <2>1, LeastIsLeast
<1>3. PICK n : n = Least(S)
  OBVIOUS
<1>4. Replacement = at(n)
  BY <1>3 DEF Replacement
<1>5. n \in 1..TableSize /\ (n = TableSize \/ fits(n))
  BY <1>2, <1>3
<1>6. \A x \in 1..TableSize : fits(x) => n <= x
  BY <1>2, <1>3
<1> HIDE DEF S, fits
<1>7. /\ \A b \in Indices : Steps(hole, b) \in Indices /\ at(Steps(hole, b)) = b
      /\ \A x \in Indices : at(x) \in Indices /\ Steps(hole, at(x)) = x
  BY <1>1, StepsAre
<1> HIDE DEF at
<1>8. ASSUME NEW g \in Others, Steps(hole, g) < n PROVE ~fits(Steps(hole, g)) /\ at(Steps(hole, g)) = g
  <2>1. g \in Indices /\ g # hole
    BY DEF Others
  <2>2. Steps(hole, g) \in Indices /\ at(Steps(hole, g)) = g
    BY <1>7, <2>1
  <2>3. Steps(hole, hole) = 0
    BY <1>1 DEF Steps, Indices
  <2>4. Steps(hole, g) # 0
    <3>1. \A b, c \in Indices : Steps(hole, b) = Steps(hole, c) => b = c
      BY <1>1, StepsAre
    <3> QED
      BY <1>1, <2>1, <2>3, <3>1
  <2>5. Steps(hole, g) \in 1..TableSize
    BY <1>1, <2>2, <2>4 DEF Indices
  <2>6. ~fits(Steps(hole, g))
    BY <1>1, <1>5, <1>6, <1>8, <2>5
  <2> QED
    BY <2>2, <2>6
<1>9. \A g \in Others : Steps(hole, g) < n =>
        slots[g] # EmptySlot /\ lessIndex(hole, firstIndex(slots[g][1]))
  BY <1>8 DEF fits
<1>10. n < TableSize
  <2>1. n \in Nat /\ n <= TableSize
    BY <1>1, <1>5
  <2>2. 2 * n <= TableSize
    BY <1>1, <1>9, <2>1, WaysAreShort
  <2> QED
    BY <1>1, <1>5, <2>1, <2>2
<1>11. n \in Indices /\ n # 0
  BY <1>1, <1>5, <1>10 DEF Indices
<1>12. at(n) \in Indices /\ Steps(hole, at(n)) = n
  BY <1>7, <1>11
<1>13. at(n) # hole
  BY <1>1, <1>11, <1>12 DEF Steps, Indices
<1>14. fits(n)
  BY <1>5, <1>10, <1>11 DEF Indices
<1>15. slots[at(n)] # EmptySlot => ~lessIndex(hole, firstIndex(slots[at(n)][1]))
  BY <1>14 DEF fits
<1> QED
  BY <1>4, <1>9, <1>12, <1>13, <1>15 DEF Others

\* The first index of an entry, and how far it lies from it.
LEMMA TakenSlots ==
  ASSUME TableInv, mode = "fill", NEW h \in Taken
  PROVE  /\ h \in Indices /\ h # hole /\ slots[h][1] \in Nat /\ slots[h] \in TablePairs
         /\ firstIndex(slots[h][1]) \in Indices
         /\ 2 * (Way(slots[h][1], h) + 1) <= TableSize
<1> USE DEF TableInv
<1>1. h \in Indices /\ h # hole /\ slots[h] # EmptySlot /\ slots[h] \in Cells /\ hin.kind = "pbbs"
  BY FewTaken DEF Taken, Others, TableTypes
<1>2. slots[h][1] \in Nat /\ slots[h][1] \in TableKeys /\ slots[h] \in TablePairs
  BY <1>1, CellsAre
<1>3. firstIndex(slots[h][1]) \in Indices /\ Shaped /\ TableSize \in Nat
  BY <1>2, KeyIndices, CellsAre
<1>4. PICK a, n : a = firstIndex(slots[h][1]) /\ n = Steps(a, h)
  OBVIOUS
<1>5. n \in Indices
  BY <1>1, <1>3, <1>4, StepsAre
<1>6. n \in Nat /\ n <= TableSize
  BY <1>3, <1>5 DEF Indices
<1>7. \A g \in Others : Steps(a, g) < n => slots[g] # EmptySlot
  <2>1. \A g \in Others : Way(slots[h][1], g) < Way(slots[h][1], h) => Passes(slots[h], g)
    BY <1>1 DEF Holed, Taken
  <2> QED
    BY <1>4, <2>1 DEF Way, Passes
<1>8. \A g \in Others : Steps(a, g) < n + 1 => slots[g] # EmptySlot
  <2>1. \A b \in Indices : Steps(a, b) \in Indices /\ (Steps(a, b) = n => b = h)
    BY <1>1, <1>3, <1>4, StepsAre
  <2> QED
    BY <1>1, <1>6, <1>7, <2>1 DEF Others, Indices
<1>9. n + 1 \in Nat /\ n + 1 <= TableSize
  BY <1>3, <1>5 DEF Indices
<1>10. 2 * (n + 1) <= TableSize
  BY <1>3, <1>4, <1>8, <1>9, WaysAreShort
<1> QED
  BY <1>1, <1>2, <1>3, <1>4, <1>10 DEF Way

\* An entry that has passed the hole has passed the replacement.
LEMMA HoleBehind ==
  ASSUME TableInv, mode = "fill", NEW h \in Taken, h # Replacement,
         Way(slots[h][1], hole) < Way(slots[h][1], h)
  PROVE  Way(slots[h][1], Replacement) < Way(slots[h][1], h)
<1>1. PICK r, a : r = Replacement /\ a = firstIndex(slots[h][1])
  OBVIOUS
<1>2. /\ h \in Indices /\ h # hole /\ a \in Indices /\ Shaped /\ hole \in Indices
      /\ 2 * (Steps(a, h) + 1) <= TableSize
  BY <1>1, TakenSlots, FewTaken, CellsAre DEF TableInv, Way
<1>3. /\ r \in Others
      /\ \A g \in Others : Steps(hole, g) < Steps(hole, r) =>
           slots[g] # EmptySlot /\ lessIndex(hole, firstIndex(slots[g][1]))
  BY <1>1, ReplacementIs
<1>4. Steps(a, hole) < Steps(a, h)
  BY <1>1 DEF Way
<1>5. ~lessIndex(hole, a)
  BY <1>2, <1>4, NotLess
<1>6. ~(Steps(a, h) < Steps(a, r))
  <2> SUFFICES ASSUME Steps(a, h) < Steps(a, r) PROVE FALSE
    OBVIOUS
  <2>1. Steps(hole, h) < Steps(hole, r)
    BY <1>2, <1>3, <1>4, LiesBetween DEF Others
  <2> QED
    BY <1>1, <1>2, <1>3, <1>5, <2>1 DEF Others
<1>7. Steps(a, h) # Steps(a, r) /\ Steps(a, h) \in Indices /\ Steps(a, r) \in Indices
  BY <1>1, <1>2, <1>3, StepsAre DEF Others
<1>8. Steps(a, r) < Steps(a, h)
  BY <1>6, <1>7 DEF Indices
<1> QED
  BY <1>1, <1>8 DEF Way

\* The replacement has passed the hole.
LEMMA HoleBefore ==
  ASSUME TableInv, mode = "fill", slots[Replacement] # EmptySlot
  PROVE  LET k == slots[Replacement][1] IN Way(k, hole) < Way(k, Replacement)
<1>1. PICK r, a : r = Replacement /\ a = firstIndex(slots[r][1])
  OBVIOUS
<1>2. /\ r \in Others /\ ~lessIndex(hole, a)
      /\ \A g \in Others : Steps(hole, g) < Steps(hole, r) => slots[g] # EmptySlot
  BY <1>1, ReplacementIs
<1>3. r \in Taken
  BY <1>1, <1>2 DEF Taken
<1>4. /\ r \in Indices /\ r # hole /\ a \in Indices /\ Shaped /\ hole \in Indices
      /\ 2 * (Steps(a, r) + 1) <= TableSize /\ TableSize \in Nat
  BY <1>1, <1>3, TakenSlots, FewTaken, CellsAre DEF TableInv, Way
<1>5. 2 * (Steps(hole, r) + 1) <= TableSize
  <2>1. PICK n : n = Steps(hole, r)
    OBVIOUS
  <2>2. n \in Indices
    BY <1>4, <2>1, StepsAre
  <2>3. n + 1 \in Nat /\ n + 1 <= TableSize /\ n \in Nat
    BY <1>4, <2>2 DEF Indices
  <2>4. \A b \in Indices : Steps(hole, b) \in Indices /\ (Steps(hole, b) = n => b = r)
    BY <1>4, <2>1, StepsAre
  <2>5. \A g \in Others : Steps(hole, g) < n + 1 => slots[g] # EmptySlot
    BY <1>2, <1>3, <2>1, <2>3, <2>4 DEF Others, Indices, Taken
  <2>6. 2 * (n + 1) <= TableSize
    BY <1>4, <2>3, <2>5, WaysAreShort
  <2> QED
    BY <2>1, <2>6
<1>6. ~(Steps(a, r) < Steps(a, hole))
  BY <1>2, <1>4, <1>5, IsLess
<1>7. Steps(a, r) # Steps(a, hole) /\ Steps(a, r) \in Indices /\ Steps(a, hole) \in Indices
  BY <1>4, StepsAre
<1>8. Steps(a, hole) < Steps(a, r)
  BY <1>6, <1>7 DEF Indices
<1> QED
  BY <1>1, <1>8 DEF Way

\* Fill: the replacement moves into the hole and leaves a hole, or the hole ends the run.
LEMMA FillKeeps ==
  ASSUME TableInv, Fill PROVE TableInv'
<1> USE DEF TableInv
<1>0. PICK r, o : r = Replacement /\ o = hole
  OBVIOUS
<1>1. /\ mode = "fill" /\ slots' = [slots EXCEPT ![o] = slots[r]]
      /\ hin' = hin /\ old_t' = old_t /\ waiting' = waiting /\ job' = job
      /\ ne' = ne /\ cts' = cts /\ won' = won /\ deletes' = deletes
  BY <1>0 DEF Fill
<1>2. \/ slots[r] = EmptySlot /\ hole' = -1 /\ mode' = "quiet"
      \/ slots[r] # EmptySlot /\ hole' = r /\ mode' = "fill"
  BY <1>0, <1>1 DEF Fill
<1>3. /\ hin.kind = "pbbs" /\ o \in Indices /\ deletes # hin.deletes
      /\ Others = Indices \ {o} /\ r \in Indices /\ r # o
  BY <1>0, <1>1, FewTaken, ReplacementIs DEF Others
<1>4. slots \in [Indices -> Cells] /\ DOMAIN slots' = DOMAIN slots
  BY <1>1 DEF TableTypes
<1>5. slots'[o] = slots[r] /\ slots'[r] = slots[r] /\ \A g \in Indices : g # o => slots'[g] = slots[g]
  BY <1>1, <1>3, <1>4
<1>6. /\ Indices' = Indices /\ TablePairs' = TablePairs /\ Cells' = Cells /\ Jobs' = Jobs
      /\ TableSize' = TableSize /\ TableKeys' = TableKeys /\ \A x, h : Way(x, h)' = Way(x, h)
  BY <1>1, <1>4, Frame, SameShape
<1>7. waiting = {} /\ AllIdle /\ old_t = {} /\ cts = [w \in Threads |-> 0]
  BY <1>1 DEF Modes
<1>8. \A w \in Threads : job[w].pc = "idle"
  BY <1>7 DEF AllIdle
<1>9. TableTypes'
  <2>1. slots' \in [Indices -> Cells]
    BY <1>1, <1>3, <1>4
  <2>2. mode' \in {"insert", "resize", "quiet", "fill"}
    BY <1>2
  <2> QED
    BY <1>1, <1>6, <2>1, <2>2 DEF TableTypes
<1>10. Modes'
  <2>1. AllIdle'
    BY <1>1, <1>8 DEF AllIdle
  <2>2. mode' = "fill" => hole' \in Indices' /\ slots'[hole'] # EmptySlot
    BY <1>2, <1>3, <1>5, <1>6
  <2>3. \E n \in 0..Len(hin.deletes) :
          n # 0 /\ deletes = SubSeq(hin.deletes, n + 1, Len(hin.deletes))
    BY <1>1 DEF Modes
  <2> QED
    BY <1>1, <1>2, <1>7, <2>1, <2>2, <2>3 DEF Modes
<1>11. Travels' /\ Loads' /\ Drops' /\ Kept'
  BY <1>1, <1>2, <1>8 DEF Travels, Loads, Drops, Kept, Probing, Dropping
<1>12. WinsAre' /\ AllCounted'
  <2>1. WinsAre'
    BY <1>1, <1>3 DEF WinsAre
  <2>2. AllCounted'
    BY <1>1, <1>3 DEF AllCounted
  <2> QED
    BY <2>1, <2>2
<1>13. Claims'
  <2>1. \A h \in Indices : slots[h][2] # NoValue
    BY <1>8 DEF Claims
  <2>2. \A h \in Indices : slots'[h][2] # NoValue
    BY <1>3, <1>5, <2>1
  <2> QED
    BY <1>1, <1>6, <1>8, <2>2 DEF Claims
<1>14. \A h \in Others : slots[h] # EmptySlot =>
         \A g \in Others : Way(slots[h][1], g) < Way(slots[h][1], h) => Passes(slots[h], g)
  BY <1>1 DEF Holed
<1>15. ASSUME NEW e, NEW g \in Others, Passes(e, g) PROVE Passes(e, g)'
  BY <1>1, <1>3, <1>5, <1>15 DEF Passes
<1>16. Placed'
  <2> SUFFICES ASSUME mode' = "quiet", NEW h \in Indices, slots'[h] # EmptySlot,
                      NEW g \in Indices, Way(slots'[h][1], g) < Way(slots'[h][1], h)
               PROVE  Passes(slots[h], g)'
    BY <1>2, <1>6 DEF Placed, PassesTo
  <2>1. slots[r] = EmptySlot
    BY <1>2
  <2>2. h # o /\ slots'[h] = slots[h] /\ h \in Taken
    BY <1>3, <1>5, <2>1 DEF Taken
  <2>3. h # r
    BY <2>1, <2>2
  <2>4. ~(Way(slots[h][1], r) < Way(slots[h][1], h))
    <3>1. Way(slots[h][1], r) < Way(slots[h][1], h) => Passes(slots[h], r)
      BY <1>3, <1>14, <2>2 DEF Taken
    <3> QED
      BY <2>1, <3>1 DEF Passes
  <2>5. g # o
    BY <1>0, <1>1, <2>2, <2>3, <2>4, HoleBehind
  <2>6. PICK e : e = slots[h]
    OBVIOUS
  <2>7. Passes(e, g)
    BY <1>3, <1>14, <2>2, <2>5, <2>6 DEF Taken
  <2>8. Passes(e, g)'
    BY <1>3, <1>15, <2>5, <2>7
  <2> QED
    BY <2>2, <2>6, <2>8 DEF Passes
<1>17. Holed'
  <2> SUFFICES ASSUME mode' = "fill", NEW h \in Indices, h # r, slots'[h] # EmptySlot,
                      NEW g \in Indices, g # r, Way(slots'[h][1], g) < Way(slots'[h][1], h)
               PROVE  Passes(slots[h], g)'
    BY <1>2, <1>6 DEF Holed, Others
  <2>1. slots[r] # EmptySlot /\ r \in Others /\ r \in Taken
    BY <1>2, <1>3 DEF Taken
  <2>2. CASE h = o
    <3>1. PICK e : e = slots[r]
      OBVIOUS
    <3>2. slots'[h] = e /\ g # o
      <4>1. g # h
        <5>1. Way(e[1], h) \in Indices
          BY <1>1, <2>1, <2>2, <3>1, TakenSlots, CellsAre, StepsAre DEF Way
        <5> QED
          BY <1>5, <2>2, <3>1, <5>1 DEF Indices
      <4> QED
        BY <1>5, <2>2, <3>1, <4>1
    <3>3. Way(e[1], o) < Way(e[1], r)
      BY <1>0, <1>1, <2>1, <3>1, HoleBefore
    <3>4. Way(e[1], g) < Way(e[1], r)
      <4>1. /\ Way(e[1], g) \in Indices /\ Way(e[1], o) \in Indices /\ Way(e[1], r) \in Indices
        BY <1>1, <1>3, <2>1, <3>1, TakenSlots, CellsAre, StepsAre DEF Way
      <4> QED
        BY <2>2, <3>2, <3>3, <4>1 DEF Indices
    <3>5. Passes(e, g)
      BY <1>3, <1>14, <2>1, <3>1, <3>2, <3>4
    <3>6. Passes(e, g)'
      BY <1>3, <1>15, <3>2, <3>5
    <3> QED
      BY <3>2, <3>6 DEF Passes
  <2>3. CASE h # o
    <3>1. PICK e : e = slots[h]
      OBVIOUS
    <3>2. slots'[h] = e /\ e # EmptySlot /\ h \in Others /\ h \in Taken
      BY <1>3, <1>5, <2>3, <3>1 DEF Taken
    <3>3. CASE g # o
      <4>1. Passes(e, g)
        BY <1>3, <1>14, <3>1, <3>2, <3>3
      <4>2. Passes(e, g)'
        BY <1>3, <1>15, <3>3, <4>1
      <4> QED
        BY <3>2, <4>2 DEF Passes
    <3>4. CASE g = o
      <4>1. Way(e[1], r) < Way(e[1], h)
        BY <1>0, <1>1, <3>1, <3>2, <3>4, HoleBehind
      <4>2. Passes(e, r)
        BY <1>14, <2>1, <3>1, <3>2, <4>1
      <4>3. slots'[g] = slots[r]
        BY <1>5, <3>4
      <4>4. Passes(e, g)'
        BY <1>1, <4>2, <4>3 DEF Passes
      <4> QED
        BY <3>2, <4>4 DEF Passes
    <3> QED
      BY <3>3, <3>4
  <2> QED
    BY <2>2, <2>3
<1>18. Left'
  <2>1. KeysIn(Others) = TableKeys \ Deleted /\ Deleted' = Deleted
    BY <1>1 DEF Left, Deleted
  <2>2. CASE slots[r] = EmptySlot /\ mode' = "quiet"
    <3>1. KeysIn(Indices)' = KeysIn(Others)
      <4>1. {g \in Indices : slots'[g] # EmptySlot} = {g \in Others : slots[g] # EmptySlot}
        BY <1>3, <1>5, <2>2
      <4>2. \A g \in Others : slots'[g] = slots[g]
        BY <1>3, <1>5
      <4> QED
        BY <1>6, <4>1, <4>2 DEF KeysIn
    <3> QED
      BY <1>1, <1>3, <1>6, <2>1, <2>2, <3>1 DEF Left
  <2>3. CASE slots[r] # EmptySlot /\ hole' = r /\ mode' = "fill"
    <3>1. KeysIn(Others)' = KeysIn(Others)
      <4>1. KeysIn(Others)' = {slots'[h][1] : h \in {g \in Indices \ {r} : slots'[g] # EmptySlot}}
        BY <1>6, <2>3 DEF KeysIn, Others
      <4>2. ASSUME NEW k, k \in KeysIn(Others) PROVE k \in KeysIn(Others)'
        <5>1. PICK h \in Others : slots[h] # EmptySlot /\ k = slots[h][1]
          BY <4>2 DEF KeysIn
        <5>2. CASE h = r
          BY <1>3, <1>5, <4>1, <5>1, <5>2
        <5>3. CASE h # r
          BY <1>3, <1>5, <4>1, <5>1, <5>3
        <5> QED
          BY <5>2, <5>3
      <4>3. ASSUME NEW k, k \in KeysIn(Others)' PROVE k \in KeysIn(Others)
        <5>1. PICK h \in Indices \ {r} : slots'[h] # EmptySlot /\ k = slots'[h][1]
          BY <4>1, <4>3
        <5>2. CASE h = o
          BY <1>3, <1>5, <2>3, <5>1, <5>2 DEF KeysIn
        <5>3. CASE h # o
          BY <1>3, <1>5, <5>1, <5>3 DEF KeysIn
        <5> QED
          BY <5>2, <5>3
      <4> QED
        BY <4>2, <4>3
    <3>2. PICK k \in TableKeys \cap Deleted : FullUpTo(k)
      BY <1>1 DEF Left
    <3>3. \A g \in Others : Steps(o, g) < Steps(o, r) => slots[g] # EmptySlot
      BY <1>0, <1>1, ReplacementIs
    <3>4. PICK f : f = firstIndex(k)
      OBVIOUS
    <3>5. f \in Indices /\ Shaped
      BY <3>4, KeyIndices, CellsAre
    <3>6. ASSUME NEW g \in Indices, g # r, Way(k, g) < Way(k, r) PROVE slots'[g] # EmptySlot
      <4>1. CASE g = o
        BY <1>5, <2>3, <4>1
      <4>2. CASE g # o /\ Way(k, g) < Way(k, o)
        <5>1. g \in Others
          BY <1>3, <4>2
        <5> QED
          BY <1>0, <1>5, <3>2, <4>2, <5>1 DEF FullUpTo
      <4>3. CASE g # o /\ ~(Way(k, g) < Way(k, o))
        <5>1. Steps(f, g) # Steps(f, o) /\ Steps(f, g) \in Indices /\ Steps(f, o) \in Indices
          BY <1>3, <3>5, <4>3, StepsAre
        <5>2. Steps(f, o) < Steps(f, g) /\ Steps(f, g) < Steps(f, r)
          BY <3>4, <3>6, <4>3, <5>1 DEF Way, Indices
        <5>3. Steps(o, g) < Steps(o, r)
          BY <1>3, <3>5, <5>2, LiesBetween
        <5>4. g \in Others
          BY <1>3, <4>3
        <5> QED
          BY <1>5, <3>3, <4>3, <5>3, <5>4
      <4> QED
        BY <4>1, <4>2, <4>3
    <3>7. FullUpTo(k)'
      BY <1>6, <2>3, <3>6 DEF FullUpTo, Others
    <3> QED
      BY <1>1, <1>3, <1>6, <2>1, <2>3, <3>1, <3>2, <3>7 DEF Left
  <2> QED
    BY <1>2, <2>2, <2>3
<1> QED
  BY <1>9, <1>10, <1>11, <1>12, <1>13, <1>16, <1>17, <1>18

-----------------------------------------------------------------------------
(* HashTables: the invariant holds, and says that the table is the set.    *)

\* Nothing changes where no variable does.
LEMMA NothingMoves == ASSUME TableInv, UNCHANGED tableVars PROVE TableInv'
<1> USE DEF TableInv
<1>1. /\ hin' = hin /\ slots' = slots /\ old_t' = old_t /\ waiting' = waiting /\ job' = job
      /\ ne' = ne /\ cts' = cts /\ won' = won /\ deletes' = deletes /\ hole' = hole
      /\ mode' = mode
  BY DEF tableVars
<1>2. /\ TableSize' = TableSize /\ TablePairs' = TablePairs /\ Indices' = Indices
      /\ Cells' = Cells /\ Jobs' = Jobs /\ TableKeys' = TableKeys
  BY <1>1, Frame
<1>3. TableTypes'
  BY <1>1, <1>2 DEF TableTypes
<1>4. Modes'
  BY <1>1, <1>2 DEF Modes, AllIdle
<1>5. /\ \A k, h : Way(k, h)' = Way(k, h)
      /\ \A e, g : Passes(e, g)' <=> Passes(e, g)
  BY <1>1, SameShape DEF Passes
<1>6. /\ \A e, h : PassesTo(e, h)' <=> PassesTo(e, h)
      /\ \A e : PassesAll(e)' <=> PassesAll(e)
  BY <1>2, <1>5 DEF PassesTo, PassesAll
<1>7. Placed' /\ Travels'
  BY <1>1, <1>2, <1>6 DEF Placed, Travels, Probing
<1>8. Loads'
  BY <1>1 DEF Loads
<1>9. Claims'
  BY <1>1, <1>2 DEF Claims
<1>10. \A p : Present(p)' <=> Present(p)
  BY <1>1, <1>2 DEF Present, Alike, Probing, Dropping
<1>11. Kept' /\ Drops'
  BY <1>1, <1>10 DEF Kept, Drops, Dropping
<1>12. Full' = Full
  BY <1>1, <1>2 DEF Full
<1>13. AllCounted' /\ WinsAre'
  BY <1>1, <1>12, CountStays DEF WinsAre
<1>14. Holed'
  BY <1>1, <1>2, <1>5 DEF Holed, Others
<1>15. Left'
  <2>1. Deleted' = Deleted /\ (Entries(slots))' = Entries(slots)
    BY <1>1 DEF Deleted, Entries
  <2>2. (KeysIn(Indices))' = KeysIn(Indices) /\ (KeysIn(Others))' = KeysIn(Others)
    BY <1>1, <1>2 DEF KeysIn, Others
  <2>3. \A k : FullUpTo(k)' <=> FullUpTo(k)
    BY <1>1, <1>2, <1>5 DEF FullUpTo, Others
  <2> QED
    BY <1>1, <1>2, <2>1, <2>2, <2>3 DEF Left
<1> QED
  BY <1>3, <1>4, <1>7, <1>8, <1>9, <1>11, <1>13, <1>14, <1>15

\* The tables of gbbs/pbbslib/sparse_table.h, resizable_table.h and pbbslib/hash_table.h
\* keep TableInv: what lies in a table or travels has passed every slot before it, and
\* no element is lost, by whatever interleaving of the insertions.
THEOREM TableInvariance == TableSpec => []TableInv
<1>1. TableInit => TableInv
  BY TableStarts
<1>2. TableInv /\ [TableNext]_tableVars => TableInv'
  <2> SUFFICES ASSUME TableInv, [TableNext]_tableVars PROVE TableInv'
    OBVIOUS
  <2>1. CASE Quiesce
    BY <2>1, QuiesceKeeps
  <2>2. CASE Resized
    BY <2>2, ResizedKeeps
  <2>3. CASE deleteVal
    BY <2>3, deleteValKeeps
  <2>4. CASE Fill
    BY <2>4, FillKeeps
  <2>5. ASSUME NEW w \in Threads, TakePair(w) PROVE TableInv'
    BY <2>5, TakePairKeeps
  <2>6. ASSUME NEW w \in Threads, LoadSlot(w) PROVE TableInv'
    BY <2>6, LoadSlotKeeps
  <2>7. ASSUME NEW w \in Threads, ClaimEmpty(w) PROVE TableInv'
    BY <2>7, ClaimEmptyKeeps
  <2>8. ASSUME NEW w \in Threads, WriteValue(w) PROVE TableInv'
    BY <2>8, WriteValueKeeps
  <2>9. ASSUME NEW w \in Threads, Compare(w) PROVE TableInv'
    BY <2>9, CompareKeeps
  <2>10. ASSUME NEW w \in Threads, Prioritize(w) PROVE TableInv'
    BY <2>10, PrioritizeKeeps
  <2>11. ASSUME NEW w \in Threads, Reinsert(w) PROVE TableInv'
    BY <2>11, ReinsertKeeps
  <2>12. CASE UNCHANGED tableVars
    BY <2>12, NothingMoves
  <2> QED
    BY <2>1, <2>2, <2>3, <2>4, <2>5, <2>6, <2>7, <2>8, <2>9, <2>10, <2>11, <2>12 DEF TableNext
<1> QED
  BY <1>1, <1>2, PTL DEF TableSpec

\* With no insertion running every slot that is not empty holds a pair, and no two
\* slots hold the same key (in a resizable table, the same pair).
LEMMA QuietSlots ==
  ASSUME TableInv, mode = "quiet"
  PROVE  /\ \A h \in Indices : slots[h] # EmptySlot => slots[h] \in TablePairs
         /\ Full = {h \in Indices : slots[h] # EmptySlot}
         /\ \A h, g \in Indices : slots[h] # EmptySlot /\ Alike(slots[h], slots[g]) => h = g
         /\ Entries(slots) = {slots[h] : h \in Full}
<1> USE DEF TableInv
<1>1. \A w \in Threads : job[w].pc # "value"
  BY DEF Modes, AllIdle
<1>2. \A h \in Indices : slots[h] \in Cells /\ slots[h][2] # NoValue
  BY <1>1 DEF Claims, TableTypes
<1>3. \A h \in Indices : slots[h] # EmptySlot => slots[h] \in TablePairs
  BY <1>2, CellsAre
<1>4. Full = {h \in Indices : slots[h] # EmptySlot}
  BY <1>2 DEF Full
<1>5. \A h, g \in Indices : slots[h] # EmptySlot /\ Alike(slots[h], slots[g]) => h = g
  <2>1. \A h, g \in Indices : slots[h] # EmptySlot /\ Way(slots[h][1], g) < Way(slots[h][1], h) =>
                              Passes(slots[h], g)
    BY DEF Placed, PassesTo
  <2>2. PICK S : S = Indices
    OBVIOUS
  <2>3. \A h, g \in S : slots[h] # EmptySlot /\ Alike(slots[h], slots[g]) => h = g
    BY <2>1, <2>2, KeysApart
  <2> QED
    BY <2>2, <2>3
<1>6. Entries(slots) = {slots[h] : h \in Full}
  BY <1>4, CellsAre DEF Entries
<1> QED
  BY <1>3, <1>4, <1>5, <1>6

\* A function that tells the members of a set apart gives as many values.
LEMMA AsMany ==
  ASSUME NEW S, IsFiniteSet(S), NEW f, \A x, y \in S : f[x] = f[y] => x = y
  PROVE  IsFiniteSet({f[x] : x \in S}) /\ Cardinality({f[x] : x \in S}) = Cardinality(S)
<1> DEFINE T == {f[x] : x \in S}
           g == [x \in S |-> f[x]]
<1>1. g \in [S -> T] /\ \A x \in S : g[x] = f[x]
  OBVIOUS
<1>2. \A t \in T : \E x \in S : g[x] = t
  BY <1>1
<1>3. \A x, y \in S : g[x] = g[y] => x = y
  BY <1>1
<1> HIDE DEF g, T
<1>4. g \in Bijection(S, T)
  BY <1>1, <1>2, <1>3 DEF Bijection, Injection, Surjection, IsInjective
<1>5. ExistsBijection(S, T)
  BY <1>4 DEF ExistsBijection
<1>6. IsFiniteSet(T) /\ Cardinality(T) = Cardinality(S)
  BY <1>5, FS_Bijection
<1> QED
  BY <1>6 DEF T

\* A search passes all the slots on the way of a key, and reads the one that holds it.
LEMMA SearchFinds ==
  ASSUME TableInv, mode = "quiet", NEW h \in Indices, slots[h] # EmptySlot
  PROVE  slots[h] \in Probed(slots[h][1])
<1> USE DEF TableInv
<1> DEFINE k == slots[h][1]
           a == firstIndex(k)
           empty(g) == slots[g] = EmptySlot \/ (hin.kind = "pbbs" /\ slots[g][1] < k)
           S == {x \in 0..TableSize : x = TableSize \/ empty((a + x) % TableSize)}
           n == Least(S)
<1>1. slots[h] \in TablePairs
  BY QuietSlots
<1>2. k \in Nat /\ k \in TableKeys /\ Shaped /\ TableSize \in Nat \ {0}
  BY <1>1, CellsAre
<1>3. a \in Indices
  BY <1>2, KeyIndices
<1>4. n \in S /\ \A x \in S : n <= x
  <2>1. S \subseteq Nat /\ TableSize \in S
    BY <1>2
  <2> HIDE DEF S
  <2> QED
    BY <2>1, LeastIsLeast
<1>5. Probed(k) = {slots[(a + x) % TableSize] : x \in 0..(n - 1)}
  BY DEF Probed
<1>6. n \in 0..TableSize /\ (n = TableSize \/ empty((a + n) % TableSize))
  BY <1>4
<1> HIDE DEF S, n
<1>7. PICK m : m = Steps(a, h)
  OBVIOUS
<1>8. m \in Indices /\ (a + m) % TableSize = h /\ Way(k, h) = m
  BY <1>2, <1>3, <1>7, StepsAre DEF Way
<1>9. PassesTo(slots[h], h)
  BY DEF Placed
<1>10. ASSUME n <= m PROVE FALSE
  <2>1. n \in Indices /\ n # TableSize
    BY <1>2, <1>6, <1>8, <1>10 DEF Indices
  <2>2. PICK g : g = (a + n) % TableSize
    OBVIOUS
  <2>3. g \in Indices /\ Way(k, g) = n
    BY <1>2, <1>3, <2>1, <2>2, StepsAre DEF Way
  <2>4. slots[g] = EmptySlot \/ (hin.kind = "pbbs" /\ slots[g][1] < k)
    BY <1>6, <2>1, <2>2
  <2>5. CASE n = m
    <3>1. g = h
      BY <1>8, <2>2, <2>5
    <3> QED
      BY <1>2, <2>4, <3>1
  <2>6. CASE n # m
    <3>1. Passes(slots[h], g)
      <4>1. n < m
        BY <1>8, <1>10, <2>1, <2>6 DEF Indices
      <4> QED
        BY <1>8, <1>9, <2>3, <4>1 DEF PassesTo
    <3>2. slots[g] # EmptySlot /\ (hin.kind = "pbbs" => slots[g][1] > k)
      BY <3>1 DEF Passes
    <3>3. slots[g][1] \in Nat
      BY <2>3, <3>2, CellsAre DEF TableTypes
    <3> QED
      BY <1>2, <2>4, <3>2, <3>3
  <2> QED
    BY <2>5, <2>6
<1>11. m \in 0..(n - 1)
  <2>1. n \in Nat /\ m \in Nat /\ ~(n <= m)
    BY <1>2, <1>6, <1>8, <1>10 DEF Indices
  <2> QED
    BY <2>1
<1> QED
  BY <1>5, <1>8, <1>11

\* With no insertion running the table is the set that was inserted and not deleted.
LEMMA SetHolds == ASSUME TableInv PROVE SetIsThere
<1> SUFFICES ASSUME mode = "quiet" PROVE SetIsThere
  BY DEF SetIsThere
<1> USE DEF TableInv
<1> DEFINE here == Entries(slots)
<1>1. /\ \A h \in Indices : slots[h] # EmptySlot => slots[h] \in TablePairs
      /\ Full = {h \in Indices : slots[h] # EmptySlot}
      /\ \A h, g \in Indices : slots[h] # EmptySlot /\ Alike(slots[h], slots[g]) => h = g
      /\ here = {slots[h] : h \in Full}
  BY QuietSlots
<1>2. IsFiniteSet(Full) /\ DOMAIN slots = Indices
  BY FullIsFinite, CellsAre
<1>3. Full = {h \in DOMAIN slots : slots[h] # EmptySlot} /\ Full \subseteq Indices
  BY <1>1, <1>2
<1>4. Cardinality(Full) = Cardinality(here) /\ IsFiniteSet(here)
  <2>1. \A h, g \in Full : slots[h] = slots[g] => h = g
    BY <1>1 DEF Alike
  <2>2. PICK S : S = Full
    OBVIOUS
  <2>3. IsFiniteSet(S) /\ \A h, g \in S : slots[h] = slots[g] => h = g
    BY <1>2, <2>1, <2>2
  <2>4. IsFiniteSet({slots[h] : h \in S}) /\ Cardinality({slots[h] : h \in S}) = Cardinality(S)
    BY <2>3, AsMany
  <2> QED
    BY <1>1, <2>2, <2>4
<1>5. here \subseteq TablePairs
  BY <1>1
<1>6. {p[1] : p \in here} = KeysIn(Indices)
  BY <1>1 DEF KeysIn
<1>7. {p[1] : p \in here} = TableKeys \ Deleted
  BY <1>6 DEF Left
<1>8. hin.kind = "resizable" => here = TablePairs
  BY <1>5 DEF Left
<1>9. ASSUME hin.kind # "resizable" PROVE Cardinality({p[1] : p \in here}) = Cardinality(here)
  <2>1. \A h, g \in Full : slots[h][1] = slots[g][1] => slots[h] = slots[g]
    BY <1>1, <1>9 DEF Alike
  <2>2. \A p, q \in here : p[1] = q[1] => p = q
    BY <1>1, <2>1
  <2>3. PICK f : f = [p \in here |-> p[1]]
    OBVIOUS
  <2>4. (\A p \in here : f[p] = p[1]) /\ (\A p, q \in here : f[p] = f[q] => p = q)
    BY <2>2, <2>3
  <2>5. PICK S : S = here
    OBVIOUS
  <2>6. Cardinality({f[p] : p \in S}) = Cardinality(S)
    BY <1>4, <2>4, <2>5, AsMany
  <2>7. {f[p] : p \in S} = {p[1] : p \in here}
    BY <2>4, <2>5
  <2> QED
    BY <2>5, <2>6, <2>7
<1>10. \A p \in here : p \in Probed(p[1])
  BY <1>1, SearchFinds
<1>11. hin.kind = "sparse" => here = {won[i] : i \in DOMAIN won}
  BY <1>1 DEF WinsAre
<1>12. ASSUME deletes = hin.deletes PROVE ne = Cardinality(here)
  <2>1. Summed(cts, Threads) = 0
    <3>1. cts = [w \in Threads |-> 0] /\ cts \in [Threads -> Nat]
      BY DEF Modes, TableTypes
    <3> QED
      BY <3>1, SumOfZeros, HashTablesAssumption
  <2>2. ne + Summed(cts, Threads) = Cardinality(Full) /\ ne \in Nat
    BY <1>12 DEF AllCounted, TableTypes
  <2> QED
    BY <1>4, <2>1, <2>2
<1> HIDE DEF here
<1> QED
  BY <1>3, <1>4, <1>5, <1>7, <1>8, <1>9, <1>10, <1>11, <1>12 DEF SetIsThere, here

\* A key of a pbbs table has passed the slots that a walk to it visits.
LEMMA LayoutHolds == ASSUME TableInv PROVE HistoryIndependent
<1> SUFFICES ASSUME mode = "quiet", hin.kind = "pbbs",
                    NEW h \in DOMAIN slots, slots[h] # EmptySlot,
                    NEW x \in 0..(TableSize - 1),
                    \A y \in 0..x : (firstIndex(slots[h][1]) + y) % TableSize # h
             PROVE  LET g == (firstIndex(slots[h][1]) + x) % TableSize
                    IN slots[g] # EmptySlot /\ slots[g][1] > slots[h][1]
  BY DEF HistoryIndependent
<1> USE DEF TableInv
<1>1. PICK k, a : k = slots[h][1] /\ a = firstIndex(k)
  OBVIOUS
<1>2. PICK g : g = (a + x) % TableSize
  OBVIOUS
<1>3. h \in Indices /\ Shaped /\ TableSize \in Nat \ {0}
  BY CellsAre
<1>4. k \in TableKeys
  BY <1>1, <1>3, QuietSlots, CellsAre
<1>5. a \in Indices
  BY <1>1, <1>4, KeyIndices
<1>6. PICK m : m = Steps(a, h)
  OBVIOUS
<1>7. m \in Indices /\ (a + m) % TableSize = h /\ Way(k, h) = m
  BY <1>1, <1>3, <1>5, <1>6, StepsAre DEF Way
<1>8. x < m
  <2>1. ~(m \in 0..x)
    BY <1>1, <1>7
  <2>2. m \in Nat
    BY <1>7 DEF Indices
  <2> QED
    BY <2>1, <2>2
<1>9. g \in Indices /\ Way(k, g) = x
  <2>1. x \in Indices
    BY DEF Indices
  <2> QED
    BY <1>1, <1>2, <1>3, <1>5, <2>1, StepsAre DEF Way
<1>10. Passes(slots[h], g)
  BY <1>1, <1>3, <1>7, <1>8, <1>9 DEF Placed, PassesTo
<1> QED
  BY <1>1, <1>2, <1>10 DEF Passes

\* Between insertions and deletions the tables hold what was inserted and not deleted,
\* once each, where a search finds it, for every number of threads, hash function, size
\* and sequence of keys: the insertions and find of gbbs/pbbslib/sparse_table.h,
\* resizable_table.h and pbbslib/hash_table.h.  For deleteVal of the last the keys and
\* the hash function are those that HashTablesAssumption allows: no stretch of full
\* slots is longer than half the table.
THEOREM TableStaysTheSet == TableSpec => []TableIsTheSet
<1>1. TableInv => TableIsTheSet
  BY SetHolds, LayoutHolds DEF TableIsTheSet
<1> QED
  BY <1>1, TableInvariance, PTL
=============================================================================
