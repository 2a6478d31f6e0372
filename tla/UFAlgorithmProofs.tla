-------------------------- MODULE UFAlgorithmProofs --------------------------
(***************************************************************************)
(* Proofs about UFAlgorithm for every number of vertices and threads and   *)
(* every workload: first facts about the trees of a parents array and the  *)
(* components of a set of links; then UFInv, the invariant that the loops  *)
(* and the finds keep with any unite variant whose stores only move a      *)
(* vertex up in its tree or join the trees of its call (TreeStep), which   *)
(* touches no locals but its own (UniteMoves) and returns when its         *)
(* arguments are in one tree (Merges); and what UFInv shows of the labels, *)
(* of the spanning forest and of the abstract disjoint sets.               *)
(***************************************************************************)
EXTENDS UFAlgorithm, FunctionTheorems, FiniteSetTheorems, WellFoundedInduction, TLAPS

-----------------------------------------------------------------------------
(* Induction, with the predicate as a set: the backends cannot instantiate *)
(* the library's theorems, whose predicate is an operator.                 *)

\* A set of naturals that is not empty has a least element.
LEMMA LeastElement ==
  ASSUME NEW S, S \subseteq Nat, S # {}
  PROVE  \E m \in S : \A k \in S : m <= k
<1> DEFINE R == OpToRel(<, Nat)
<1>1. IsWellFoundedOn(R, Nat)
  BY NatLessThanWellFounded
<1>2. \A x, y \in Nat : y < x => <<y, x>> \in R
  BY DEF OpToRel
<1> HIDE DEF R
<1>3. PICK m \in S : \A k \in S : ~(<<k, m>> \in R)
  BY <1>1, WFMin
<1>4. ASSUME NEW k \in S PROVE m <= k
  <2>1. k \in Nat /\ m \in Nat
    OBVIOUS
  <2>2. ~(<<k, m>> \in R)
    BY <1>3
  <2>3. ~(k < m)
    BY <1>2, <2>1, <2>2, Zenon
  <2> QED
    BY <2>1, <2>3
<1> QED
  BY <1>4

\* A set with 0 and the successor of each member holds every natural.
LEMMA SetInduction ==
  ASSUME NEW S, 0 \in S, \A n \in Nat : n \in S => n + 1 \in S
  PROVE  \A n \in Nat : n \in S
<1> SUFFICES ASSUME NEW n \in Nat, n \notin S PROVE FALSE
  OBVIOUS
<1> DEFINE T == {k \in Nat : k \notin S}
<1>1. PICK m \in T : \A k \in T : m <= k
  <2>1. T \subseteq Nat /\ T # {}
    OBVIOUS
  <2> HIDE DEF T
  <2> QED
    BY <2>1, LeastElement
<1>2. m # 0 /\ m - 1 \in Nat
  BY <1>1
<1>3. m - 1 \in S
  BY <1>1, <1>2
<1> QED
  BY <1>1, <1>2, <1>3

-----------------------------------------------------------------------------
(* The trees of a parents array p.                                         *)

PointsDown(p) == p \in [Vertices -> Vertices] /\ \A x \in Vertices : p[x] <= x

\* r gives the root of each vertex.
RootMap(r, p) ==
  /\ r \in [Vertices -> Vertices]
  /\ \A x \in Vertices :
       /\ r[x] = r[p[x]] /\ r[x] <= x
       /\ p[r[x]] = r[x]
       /\ p[x] = x => r[x] = x

\* f gives the k-th ancestor of each vertex for k up to n, as Ancestor does for N.
Climbs(p, n, f) ==
  f = [k \in 0..n |-> IF k = 0 THEN [x \in Vertices |-> x]
                      ELSE LET below == f[k - 1] IN [x \in Vertices |-> p[below[x]]]]

\* It exists: CHOOSE takes it, and no recursive definition is expanded.
LEMMA ClimbsExist == ASSUME NEW p, NEW n \in Nat PROVE \E f : Climbs(p, n, f)
<1> DEFINE S == {k \in Nat : \E f : Climbs(p, k, f)}
<1>1. 0 \in S
  <2> DEFINE f == [k \in 0..0 |-> [x \in Vertices |-> x]]
  <2>1. Climbs(p, 0, f)
    BY DEF Climbs
  <2> QED
    BY <2>1
<1>2. ASSUME NEW k \in Nat, k \in S PROVE k + 1 \in S
  <2>1. PICK f : Climbs(p, k, f)
    BY <1>2
  <2> DEFINE g == [m \in 0..(k + 1) |-> IF m = k + 1 THEN [x \in Vertices |-> p[f[k][x]]] ELSE f[m]]
  <2>2. ASSUME NEW m \in 0..(k + 1)
        PROVE  g[m] = IF m = 0 THEN [x \in Vertices |-> x]
                      ELSE LET below == g[m - 1] IN [x \in Vertices |-> p[below[x]]]
    <3>1. CASE m = k + 1
      <4>1. m # 0 /\ m - 1 = k /\ k # k + 1 /\ k \in 0..(k + 1)
        BY <3>1
      <4>2. g[m - 1] = f[k]
        BY <4>1
      <4>3. g[m] = [x \in Vertices |-> p[f[k][x]]]
        BY <3>1
      <4> HIDE DEF g
      <4> QED
        BY <4>1, <4>2, <4>3
    <3>2. CASE m \in 0..k
      <4>1. f[m] = IF m = 0 THEN [x \in Vertices |-> x]
                   ELSE LET below == f[m - 1] IN [x \in Vertices |-> p[below[x]]]
        BY <2>1, <3>2 DEF Climbs
      <4>2. g[m] = f[m] /\ (m # 0 => g[m - 1] = f[m - 1])
        BY <3>2
      <4> QED
        BY <4>1, <4>2
    <3> QED
      BY <3>1, <3>2
  <2>3. Climbs(p, k + 1, g)
    BY <2>2 DEF Climbs
  <2> QED
    BY <2>3
<1> HIDE DEF S
<1>3. n \in S
  BY <1>1, <1>2, SetInduction
<1> QED
  BY <1>3 DEF S

\* up of Ancestor, with p for the parents array.
Up(p) == CHOOSE f : Climbs(p, N, f)

RootOf(p) == Up(p)[N]

\* Ancestor is the root map of parents.
LEMMA AncestorIsRootOf == Ancestor = RootOf(parents) /\ Ancestor' = RootOf(parents')
  BY DEF Ancestor, RootOf, Up, Climbs

\* When parents point down, N climbs from a vertex end at a root.
LEMMA RootsExist ==
  ASSUME NEW p, PointsDown(p) PROVE RootMap(RootOf(p), p)
<1> DEFINE f == Up(p)
<1>1. RootOf(p) = f[N]
  BY DEF RootOf
<1>2. N \in Nat \ {0}
  BY UFAssumption
<1>3. Climbs(p, N, f)
  BY <1>2, ClimbsExist DEF Up
<1> HIDE DEF f
<1>4. f[0] = [x \in Vertices |-> x]
  BY <1>2, <1>3 DEF Climbs
<1>5. \A k \in 0..(N - 1) : f[k + 1] = [x \in Vertices |-> p[f[k][x]]]
  <2>1. ASSUME NEW k \in 0..(N - 1) PROVE f[k + 1] = [x \in Vertices |-> p[f[k][x]]]
    <3>1. k + 1 \in 0..N /\ k + 1 # 0 /\ (k + 1) - 1 = k
      BY <1>2
    <3> QED
      BY <1>3, <3>1 DEF Climbs
  <2> QED
    BY <2>1
<1> DEFINE S ==
  {k \in Nat : k <= N =>
     /\ f[k] \in [Vertices -> Vertices]
     /\ \A x \in Vertices :
          /\ f[k][x] <= x
          /\ p[f[k][x]] = f[k][x] \/ f[k][x] <= x - k
          /\ f[k][p[x]] = p[f[k][x]]
          /\ p[x] = x => f[k][x] = x}
<1>6. 0 \in S
  <2>1. \A x \in Vertices : x \in Int /\ p[x] \in Vertices
    BY <1>2 DEF PointsDown, Vertices
  <2>2. f[0] \in [Vertices -> Vertices] /\ \A x \in Vertices : f[0][x] = x
    BY <1>4
  <2>3. \A x \in Vertices : f[0][x] <= x /\ f[0][x] <= x - 0 /\ f[0][p[x]] = p[f[0][x]]
    BY <2>1, <2>2
  <2> QED
    BY <2>2, <2>3
<1>7. ASSUME NEW k \in Nat, k \in S PROVE k + 1 \in S
  <2> SUFFICES ASSUME k + 1 <= N PROVE k + 1 \in S
    OBVIOUS
  <2>1. k \in 0..(N - 1) /\ k <= N
    BY <1>2
  <2>2. /\ f[k] \in [Vertices -> Vertices]
        /\ \A x \in Vertices :
             /\ f[k][x] <= x
             /\ p[f[k][x]] = f[k][x] \/ f[k][x] <= x - k
             /\ f[k][p[x]] = p[f[k][x]]
             /\ p[x] = x => f[k][x] = x
    BY <1>7, <2>1
  <2>3. f[k + 1] = [x \in Vertices |-> p[f[k][x]]]
    BY <2>1, <1>5
  <2>4. f[k + 1] \in [Vertices -> Vertices]
    <3>1. \A x \in Vertices : p[f[k][x]] \in Vertices
      BY <2>2 DEF PointsDown
    <3> QED
      BY <2>3, <3>1
  <2>5. ASSUME NEW x \in Vertices
        PROVE  /\ f[k + 1][x] <= x
               /\ p[f[k + 1][x]] = f[k + 1][x] \/ f[k + 1][x] <= x - (k + 1)
               /\ f[k + 1][p[x]] = p[f[k + 1][x]]
               /\ p[x] = x => f[k + 1][x] = x
    <3> DEFINE y == f[k][x]
    <3>1. y \in Vertices /\ p[y] \in Vertices /\ p[x] \in Vertices
      BY <2>2 DEF PointsDown
    <3>2. x \in Int /\ y \in Int /\ p[y] \in Int
      BY <3>1, <1>2 DEF Vertices
    <3>3. p[y] <= y /\ y <= x
      BY <3>1, <2>2 DEF PointsDown
    <3>4. f[k + 1][x] = p[y] /\ f[k + 1][p[x]] = p[f[k][p[x]]]
      BY <2>3, <3>1
    <3>5. f[k][p[x]] = p[y]
      BY <2>2
    <3>6. p[y] = y \/ y <= x - k
      BY <2>2
    <3>7. p[p[y]] = p[y] \/ p[y] <= x - (k + 1)
      BY <3>2, <3>3, <3>6
    <3>8. p[x] = x => y = x
      BY <2>2
    <3> HIDE DEF y
    <3> QED
      BY <3>2, <3>3, <3>4, <3>5, <3>7, <3>8
  <2> QED
    BY <2>4, <2>5
<1> HIDE DEF S
<1>8. N \in S
  BY <1>2, <1>6, <1>7, SetInduction
<1>9. /\ f[N] \in [Vertices -> Vertices]
      /\ \A x \in Vertices :
           /\ f[N][x] <= x
           /\ p[f[N][x]] = f[N][x] \/ f[N][x] <= x - N
           /\ f[N][p[x]] = p[f[N][x]]
           /\ p[x] = x => f[N][x] = x
  BY <1>2, <1>8 DEF S
<1>10. ASSUME NEW x \in Vertices PROVE p[f[N][x]] = f[N][x]
  <2>1. f[N][x] \in Vertices
    BY <1>9
  <2>2. ~(f[N][x] <= x - N)
    BY <2>1, <1>2 DEF Vertices
  <2> QED
    BY <2>2, <1>9
<1> QED
  BY <1>1, <1>9, <1>10 DEF RootMap

\* There is only one root map.
LEMMA RootsUnique ==
  ASSUME NEW p, PointsDown(p), NEW r, RootMap(r, p), NEW s, RootMap(s, p)
  PROVE  r = s
<1>1. N \in Nat \ {0}
  BY UFAssumption
<1> DEFINE S == {x \in Vertices : r[x] # s[x]}
<1>2. CASE S = {}
  BY <1>2 DEF RootMap
<1>3. CASE S # {}
  <2>1. S \subseteq Nat
    BY <1>1 DEF Vertices
  <2> HIDE DEF S
  <2>2. PICK x \in S : \A y \in S : x <= y
    BY <1>3, <2>1, LeastElement
  <2> USE DEF S
  <2>3. p[x] # x /\ p[x] \in Vertices /\ p[x] <= x
    BY <2>2 DEF RootMap, PointsDown
  <2>4. p[x] \notin S
    BY <2>2, <2>3, <1>1 DEF Vertices
  <2> QED
    BY <2>2, <2>3, <2>4 DEF RootMap
<1> QED
  BY <1>2, <1>3

\* A store that moves a vertex up inside its tree changes no root.
LEMMA CompressKeepsRoots ==
  ASSUME NEW p, PointsDown(p), NEW r, RootMap(r, p), NEW x \in Vertices, NEW y \in Vertices,
         p[x] # x, y < x, r[y] = r[x]
  PROVE  PointsDown([p EXCEPT ![x] = y]) /\ RootMap(r, [p EXCEPT ![x] = y])
<1> DEFINE q == [p EXCEPT ![x] = y]
<1>1. x \in Int /\ y \in Int
  BY UFAssumption DEF Vertices
<1>2. q \in [Vertices -> Vertices] /\ q[x] = y /\ \A z \in Vertices \ {x} : q[z] = p[z]
  BY DEF PointsDown
<1> HIDE DEF q
<1>3. PointsDown(q)
  BY <1>1, <1>2 DEF PointsDown
<1>4. ASSUME NEW z \in Vertices
      PROVE  r[z] = r[q[z]] /\ r[z] <= z /\ q[r[z]] = r[z] /\ (q[z] = z => r[z] = z)
  <2>1. r[z] \in Vertices /\ r[z] # x
    BY DEF RootMap
  <2>2. CASE z = x
    <3>1. q[z] = y
      BY <1>2, <2>2
    <3>2. y # z
      BY <1>1, <2>2
    <3>3. q[r[z]] = p[r[z]]
      BY <1>2, <2>1
    <3> QED
      BY <2>2, <3>1, <3>2, <3>3 DEF RootMap
  <2>3. CASE z # x
    BY <1>2, <2>1, <2>3 DEF RootMap
  <2> QED
    BY <2>2, <2>3
<1> QED
  BY <1>3, <1>4 DEF RootMap, q

\* A store that makes a root x a child of y hangs its tree below that of y.
LEMMA LinkMergesRoots ==
  ASSUME NEW p, PointsDown(p), NEW r, RootMap(r, p), NEW x \in Vertices, NEW y \in Vertices,
         p[x] = x, y < x
  PROVE  /\ PointsDown([p EXCEPT ![x] = y])
         /\ RootMap([z \in Vertices |-> IF r[z] = x THEN r[y] ELSE r[z]], [p EXCEPT ![x] = y])
<1> DEFINE q == [p EXCEPT ![x] = y]
           s == [z \in Vertices |-> IF r[z] = x THEN r[y] ELSE r[z]]
<1>1. \A z \in Vertices : z \in Int
  BY UFAssumption DEF Vertices
<1>2. q \in [Vertices -> Vertices] /\ q[x] = y /\ \A z \in Vertices \ {x} : q[z] = p[z]
  BY DEF PointsDown
<1>3. /\ s \in [Vertices -> Vertices]
      /\ \A z \in Vertices : s[z] = IF r[z] = x THEN r[y] ELSE r[z]
  BY DEF RootMap
<1> HIDE DEF q, s
<1>4. PointsDown(q)
  BY <1>1, <1>2 DEF PointsDown
<1>5. r[x] = x /\ r[y] # x /\ r[y] \in Vertices /\ r[y] <= y
  BY <1>1 DEF RootMap
<1>6. ASSUME NEW z \in Vertices
      PROVE  s[z] = s[q[z]] /\ s[z] <= z /\ q[s[z]] = s[z] /\ (q[z] = z => s[z] = z)
  <2>1. r[z] \in Vertices /\ r[z] <= z /\ p[z] \in Vertices
    BY DEF RootMap, PointsDown
  <2>2. CASE z = x
    <3>1. s[z] = r[y] /\ s[y] = r[y]
      BY <1>3, <1>5, <2>2
    <3> QED
      BY <1>1, <1>2, <1>5, <2>2, <3>1 DEF RootMap
  <2>3. CASE z # x
    <3>1. q[z] = p[z] /\ s[q[z]] = s[z]
      BY <1>2, <1>3, <2>1, <2>3 DEF RootMap
    <3>2. s[z] <= z
      BY <1>1, <1>3, <1>5, <2>1
    <3>3. q[s[z]] = s[z]
      BY <1>2, <1>3, <1>5, <2>1 DEF RootMap
    <3>4. q[z] = z => s[z] = z
      BY <1>3, <2>3, <3>1 DEF RootMap
    <3> QED
      BY <3>1, <3>2, <3>3, <3>4
  <2> QED
    BY <2>2, <2>3
<1> QED
  BY <1>3, <1>4, <1>6 DEF RootMap, q, s

-----------------------------------------------------------------------------
(* The components of a set of links.                                       *)

\* There are N vertices.
LEMMA VerticesFinite == IsFiniteSet(Vertices) /\ Cardinality(Vertices) = N
<1>1. N \in Nat /\ 0 \in Int /\ N - 1 \in Int
  BY UFAssumption
<1> QED
  BY <1>1, FS_Interval DEF Vertices

\* One step along the links from the vertices of s, in either direction.
Near(s, links) == s \cup {y \in Vertices : \E z \in s : <<y, z>> \in links \/ <<z, y>> \in links}

\* f gives what k steps along the links reach from x, for k up to n, as in Component.
Grows(x, links, n, f) == f = [k \in 0..n |-> IF k = 0 THEN {x} ELSE Near(f[k - 1], links)]

\* It exists.
LEMMA GrowsExist == ASSUME NEW x, NEW links, NEW n \in Nat PROVE \E f : Grows(x, links, n, f)
<1> DEFINE S == {k \in Nat : \E f : Grows(x, links, k, f)}
<1>1. 0 \in S
  <2> DEFINE f == [k \in 0..0 |-> {x}]
  <2>1. Grows(x, links, 0, f)
    BY DEF Grows
  <2> QED
    BY <2>1
<1>2. ASSUME NEW k \in Nat, k \in S PROVE k + 1 \in S
  <2>1. PICK f : Grows(x, links, k, f)
    BY <1>2
  <2> DEFINE g == [m \in 0..(k + 1) |-> IF m = k + 1 THEN Near(f[k], links) ELSE f[m]]
  <2>2. ASSUME NEW m \in 0..(k + 1)
        PROVE  g[m] = IF m = 0 THEN {x} ELSE Near(g[m - 1], links)
    <3>1. CASE m = k + 1
      <4>1. m # 0 /\ m - 1 = k /\ k # k + 1 /\ k \in 0..(k + 1)
        BY <3>1
      <4>2. g[m - 1] = f[k]
        BY <4>1
      <4>3. g[m] = Near(f[k], links)
        BY <3>1
      <4> HIDE DEF g
      <4> QED
        BY <4>1, <4>2, <4>3
    <3>2. CASE m \in 0..k
      <4>1. f[m] = IF m = 0 THEN {x} ELSE Near(f[m - 1], links)
        BY <2>1, <3>2 DEF Grows
      <4>2. g[m] = f[m] /\ (m # 0 => g[m - 1] = f[m - 1])
        BY <3>2
      <4> QED
        BY <4>1, <4>2
    <3> QED
      BY <3>1, <3>2
  <2>3. Grows(x, links, k + 1, g)
    BY <2>2 DEF Grows
  <2> QED
    BY <2>3
<1> HIDE DEF S
<1>3. n \in S
  BY <1>1, <1>2, SetInduction
<1> QED
  BY <1>3 DEF S

\* A component is closed under the links, and is the least such set with x.
LEMMA ComponentIsClosure ==
  ASSUME NEW x \in Vertices, NEW links
  PROVE  /\ x \in Component(x, links) /\ Component(x, links) \subseteq Vertices
         /\ Near(Component(x, links), links) = Component(x, links)
         /\ \A S \in SUBSET Vertices :
              x \in S /\ Near(S, links) = S => Component(x, links) \subseteq S
<1> DEFINE f == CHOOSE g : Grows(x, links, N, g)
<1>1. Component(x, links) = f[N]
  BY DEF Component, Grows, Near
<1>2. N \in Nat \ {0}
  BY UFAssumption
<1>3. Grows(x, links, N, f)
  BY <1>2, GrowsExist
<1> HIDE DEF f
<1>4. f[0] = {x} /\ \A k \in Nat : k + 1 <= N => f[k + 1] = Near(f[k], links)
  <2>1. f[0] = {x}
    BY <1>2, <1>3 DEF Grows
  <2>2. ASSUME NEW k \in Nat, k + 1 <= N PROVE f[k + 1] = Near(f[k], links)
    <3>1. k + 1 \in 0..N /\ k + 1 # 0 /\ (k + 1) - 1 = k
      BY <1>2, <2>2
    <3> QED
      BY <1>3, <3>1 DEF Grows
  <2> QED
    BY <2>1, <2>2
<1> DEFINE Closed(s) == Near(s, links) = s
           S == {k \in Nat : k <= N =>
                   /\ x \in f[k] /\ f[k] \subseteq Vertices
                   /\ Closed(f[k]) \/ Cardinality(f[k]) > k
                   /\ \A T \in SUBSET Vertices : x \in T /\ Closed(T) => f[k] \subseteq T}
<1>5. 0 \in S
  <2>1. Cardinality({x}) = 1
    BY FS_Singleton
  <2> QED
    BY <1>4, <2>1
<1>6. ASSUME NEW k \in Nat, k \in S PROVE k + 1 \in S
  <2> SUFFICES ASSUME k + 1 <= N PROVE k + 1 \in S
    OBVIOUS
  <2> DEFINE s == f[k]
  <2>0. k <= N
    BY <1>2
  <2>1. /\ x \in s /\ s \subseteq Vertices /\ (Closed(s) \/ Cardinality(s) > k)
        /\ \A T \in SUBSET Vertices : x \in T /\ Closed(T) => s \subseteq T
    BY <1>6, <2>0
  <2>2. f[k + 1] = Near(s, links)
    BY <1>4
  <2> HIDE DEF s
  <2>3. s \subseteq Near(s, links) /\ Near(s, links) \subseteq Vertices
    BY <2>1 DEF Near
  <2>4. Closed(Near(s, links)) \/ Cardinality(Near(s, links)) > k + 1
    <3>1. CASE Closed(s)
      BY <3>1
    <3>2. CASE ~Closed(s)
      <4>1. IsFiniteSet(Near(s, links))
        BY <2>3, VerticesFinite, FS_Subset
      <4>2. IsFiniteSet(s) /\ Cardinality(s) <= Cardinality(Near(s, links))
        BY <2>3, <4>1, FS_Subset
      <4>3. Cardinality(s) # Cardinality(Near(s, links))
        BY <2>3, <3>2, <4>1, FS_Subset
      <4>4. Cardinality(s) \in Nat /\ Cardinality(Near(s, links)) \in Nat
        BY <4>1, <4>2, FS_CardinalityType
      <4> QED
        BY <2>1, <3>2, <4>2, <4>3, <4>4
    <3> QED
      BY <3>1, <3>2
  <2>5. ASSUME NEW T \in SUBSET Vertices, x \in T, Closed(T) PROVE Near(s, links) \subseteq T
    <3>1. s \subseteq T
      BY <2>1, <2>5
    <3>2. Near(s, links) \subseteq Near(T, links)
      BY <3>1 DEF Near
    <3> QED
      BY <3>2, <2>5
  <2> QED
    BY <2>1, <2>2, <2>3, <2>4, <2>5
<1> HIDE DEF S
<1>7. N \in S
  BY <1>2, <1>5, <1>6, SetInduction
<1>8. /\ x \in f[N] /\ f[N] \subseteq Vertices /\ (Closed(f[N]) \/ Cardinality(f[N]) > N)
      /\ \A T \in SUBSET Vertices : x \in T /\ Closed(T) => f[N] \subseteq T
  BY <1>2, <1>7 DEF S
<1>9. Cardinality(f[N]) \in Nat /\ Cardinality(f[N]) <= N
  BY <1>8, VerticesFinite, FS_Subset, FS_CardinalityType
<1>10. Closed(f[N])
  BY <1>2, <1>8, <1>9
<1> QED
  BY <1>1, <1>8, <1>10

ClassesOf(r) == {{y \in Vertices : r[y] = r[x]} : x \in Vertices}

\* A set that no parent leaves or enters is a union of trees.
LEMMA UnionOfTrees ==
  ASSUME NEW p, PointsDown(p), NEW r, RootMap(r, p), NEW S \in SUBSET Vertices,
         \A x \in Vertices : x \in S <=> p[x] \in S
  PROVE  \A x \in Vertices : x \in S <=> r[x] \in S
<1>1. N \in Nat \ {0}
  BY UFAssumption
<1> DEFINE T == {x \in Vertices : ~(x \in S <=> r[x] \in S)}
<1>2. CASE T = {}
  BY <1>2
<1>3. CASE T # {}
  <2>1. T \subseteq Nat
    BY <1>1 DEF Vertices
  <2> HIDE DEF T
  <2>2. PICK x \in T : \A y \in T : x <= y
    BY <1>3, <2>1, LeastElement
  <2> USE DEF T
  <2>3. p[x] # x /\ p[x] \in Vertices /\ p[x] <= x
    BY <2>2 DEF RootMap, PointsDown
  <2>4. p[x] \notin T
    BY <2>2, <2>3, <1>1 DEF Vertices
  <2> QED
    BY <2>2, <2>3, <2>4 DEF RootMap
<1> QED
  BY <1>2, <1>3

\* What links join share a root, and what is closed under the links is closed
\* under having the same root: then the components are the trees.
LEMMA ComponentsAreClasses ==
  ASSUME NEW links \in SUBSET Ops, NEW r \in [Vertices -> Vertices],
         \A e \in links : r[e[1]] = r[e[2]],
         \A S \in SUBSET Vertices : Near(S, links) = S =>
           \A x, y \in Vertices : r[x] = r[y] /\ x \in S => y \in S
  PROVE  Components(links) = ClassesOf(r)
<1>1. ASSUME NEW x \in Vertices PROVE Component(x, links) = {y \in Vertices : r[y] = r[x]}
  <2> DEFINE C == Component(x, links)
             T == {y \in Vertices : r[y] = r[x]}
  <2>1. /\ x \in C /\ C \subseteq Vertices /\ Near(C, links) = C
        /\ \A S \in SUBSET Vertices : x \in S /\ Near(S, links) = S => C \subseteq S
    BY ComponentIsClosure
  <2> HIDE DEF C
  <2>2. Near(T, links) = T
    <3>1. ASSUME NEW y \in Vertices, NEW z \in T, <<y, z>> \in links \/ <<z, y>> \in links
          PROVE  y \in T
      BY <3>1
    <3> QED
      BY <3>1 DEF Near
  <2>3. C \subseteq T
    BY <2>1, <2>2
  <2>4. T \subseteq C
    BY <2>1
  <2> QED
    BY <2>3, <2>4 DEF C
<1> QED
  BY <1>1 DEF Components, ClassesOf

\* There is one tree for each root.
LEMMA OneClassForEachRoot ==
  ASSUME NEW p, PointsDown(p), NEW r, RootMap(r, p)
  PROVE  /\ IsFiniteSet({x \in Vertices : p[x] = x})
         /\ Cardinality(ClassesOf(r)) = Cardinality({x \in Vertices : p[x] = x})
<1> DEFINE R == {x \in Vertices : p[x] = x}
           f == [x \in R |-> {y \in Vertices : r[y] = r[x]}]
<1>1. IsFiniteSet(R)
  BY VerticesFinite, FS_Subset
<1>2. \A x \in R : r[x] = x
  BY DEF RootMap
<1>3. f \in [R -> ClassesOf(r)]
  BY DEF ClassesOf
<1>4. ASSUME NEW x \in R, NEW y \in R, f[x] = f[y] PROVE x = y
  <2>1. x \in f[x] /\ f[y] = {z \in Vertices : r[z] = r[y]}
    OBVIOUS
  <2>2. r[x] = r[y]
    BY <1>4, <2>1
  <2> QED
    BY <1>2, <2>2
<1>5. ASSUME NEW c \in ClassesOf(r) PROVE \E x \in R : f[x] = c
  <2>1. PICK x \in Vertices : c = {y \in Vertices : r[y] = r[x]}
    BY DEF ClassesOf
  <2>2. r[x] \in R
    BY DEF RootMap
  <2>3. r[r[x]] = r[x]
    BY <1>2, <2>2
  <2>4. f[r[x]] = c
    BY <2>1, <2>2, <2>3
  <2> QED
    BY <2>2, <2>4
<1> HIDE DEF f, R
<1>6. f \in Bijection(R, ClassesOf(r))
  BY <1>3, <1>4, <1>5, Fun_IsBij
<1>7. Cardinality(ClassesOf(r)) = Cardinality(R)
  BY <1>1, <1>6, FS_Bijection DEF ExistsBijection
<1> QED
  BY <1>1, <1>7 DEF R

-----------------------------------------------------------------------------
(* What a thread that is in a find, or in a unite of whichever variant,    *)
(* knows of the types and of the order of parents.                         *)

USE DEF At, Goto, Set, choices, loops, args, finds

\* A thread in a unite, not in a query or the last loop, is in one of the workload.
Elsewhere == {"relabel", "queried_u", "queried_v"}
Uniting(t) ==
  \/ pc[t] \notin FindLabels \cup Elsewhere \cup {"idle"}
  \/ pc[t] \in FindLabels /\ ret[t] \notin Elsewhere

LabelSets(labels, returns) ==
  /\ FindLabels \cup returns \cup {"unite"} \subseteq labels
  /\ returns \cap (FindLabels \cup {"unite"}) = {} /\ Elsewhere \cup {"idle"} \subseteq returns

Typed(labels, returns) ==
  UFTypeOK(labels, returns) /\ \A t \in Threads : Uniting(t) => op[t] \in load.ops

UFTyped == \E labels, returns : LabelSets(labels, returns) /\ Typed(labels, returns)

\* The variables of the thread's call, and those of the others'.
SameLocals(s) ==
  /\ pc'[s] = pc[s] /\ ret'[s] = ret[s] /\ op'[s] = op[s] /\ u'[s] = u[s] /\ v'[s] = v[s]
  /\ i'[s] = i[s] /\ j'[s] = j[s] /\ w'[s] = w[s]

\* What every step of a unite does, of whichever variant.
UniteMoves(t) ==
  /\ Uniting(t) /\ UNCHANGED <<find_option, unite_option, load, todo, asked, relabel, phase>>
  /\ \A s \in Threads : s # t => SameLocals(s)
  /\ \/ op'[t] = op[t] /\ Uniting(t)'
     \/ op' = [op EXCEPT ![t] = NoOp] /\ pc'[t] = "idle"
  /\ pc'[t] \in FindLabels => pc'[t] = "find" /\ ret'[t] # "idle"

Move(t) == Find(t) \/ Loop(t) \/ UniteMoves(t)

BarrierOrStutter == EndUnites \/ Finish \/ Done \/ UNCHANGED ufVars

\* The initial values have their types, and every label is one of the variant's.
LEMMA InitTyped ==
  ASSUME UFInit, NEW labels, NEW returns, LabelSets(labels, returns)
  PROVE  Typed(labels, returns)
BY UFAssumption
DEF UFInit, Typed, UFTypeOK, LabelSets, Vertices, empty_edge, NoOp, FindLabels, Uniting, Elsewhere

\* The finds and the loops keep the types.
LEMMA FindLoopTyped ==
  ASSUME NEW labels, NEW returns, LabelSets(labels, returns), Typed(labels, returns),
         NEW t \in Threads, Find(t) \/ Loop(t)
  PROVE  Typed(labels, returns)'
<1>a. load \in Workloads /\ load.ops \subseteq Ops /\ load.queries \subseteq Ops /\ load' = load
  BY UFAssumption DEF Typed, UFTypeOK, Find, NaiveTest, NaiveNext, CompressTest, Climb, ClimbTest, Squash, SquashStore,
     ReadParent, ReadGrandparent, SwingParent, HalveNext, Loop, TakeEdge, TakeQuery, QueryV, EndQuery, TakeVertex, Relabel
<1>b. 0 \in Vertices
  BY UFAssumption DEF Vertices
<1>c. ret[t] \in returns /\ ret[t] \notin FindLabels /\ ret[t] # "unite"
  BY DEF LabelSets, Typed, UFTypeOK
<1> USE <1>a, <1>b, <1>c DEF Ops, LabelSets, Typed, UFTypeOK, Uniting, Elsewhere, FindLabels
<1>1. CASE Find(t)
  <2>1. CASE NaiveTest(t)
    BY <2>1 DEF NaiveTest, ReturnFind
  <2>2. CASE NaiveNext(t)
    BY <2>2 DEF NaiveNext
  <2>3. CASE CompressTest(t)
    BY <2>3 DEF CompressTest, ReturnFind
  <2>4. CASE Climb(t)
    BY <2>4 DEF Climb
  <2>5. CASE ClimbTest(t)
    BY <2>5 DEF ClimbTest
  <2>6. CASE Squash(t)
    BY <2>6 DEF Squash, ReturnFind
  <2>7. CASE SquashStore(t)
    BY <2>7 DEF SquashStore
  <2>8. CASE ReadParent(t)
    BY <2>8 DEF ReadParent
  <2>9. CASE ReadGrandparent(t)
    BY <2>9 DEF ReadGrandparent, ReturnFind
  <2>10. CASE SwingParent(t)
    BY <2>10 DEF SwingParent, CasParent
  <2>11. CASE HalveNext(t)
    BY <2>11 DEF HalveNext
  <2> QED
    BY <1>1, <2>1, <2>2, <2>3, <2>4, <2>5, <2>6, <2>7, <2>8, <2>9, <2>10, <2>11 DEF Find
<1>2. CASE Loop(t)
  <2>1. CASE TakeEdge(t)
    BY <2>1 DEF TakeEdge
  <2>2. CASE TakeVertex(t)
    BY <2>2 DEF TakeVertex, CallFind
  <2>3. CASE Relabel(t)
    BY <2>3 DEF Relabel, EndIteration
  <2>4. CASE TakeQuery(t)
    BY <2>4 DEF TakeQuery, CallFind
  <2>5. CASE QueryV(t)
    BY <2>5 DEF QueryV, CallFind
  <2>6. CASE EndQuery(t)
    BY <2>6 DEF EndQuery, EndIteration
  <2> QED
    BY <1>2, <2>1, <2>2, <2>3, <2>4, <2>5, <2>6 DEF Loop
<1> QED
  BY <1>1, <1>2

\* At a barrier nothing changes but the phase.
LEMMA BarrierKeeps ==
  ASSUME BarrierOrStutter
  PROVE  UNCHANGED <<parents, Edges, find_option, unite_option, load, todo, asked, relabel, pc, op, u, v, i, j, w, ret>>
BY DEF BarrierOrStutter, EndUnites, Finish, Done, ufVars

\* The barriers keep the types.
LEMMA BarrierTyped ==
  ASSUME NEW labels, NEW returns, Typed(labels, returns), BarrierOrStutter
  PROVE  Typed(labels, returns)'
<1>1. phase' \in {"unite", "query", "find", "done"}
  <2>1. CASE EndUnites
    <3>1. load.kind \in Kinds
      BY UFAssumption DEF Typed, UFTypeOK
    <3> QED
      BY <2>1, <3>1 DEF EndUnites, Kinds
  <2>2. CASE Finish
    BY <2>2 DEF Finish
  <2>3. CASE Done \/ UNCHANGED ufVars
    BY <2>3 DEF Done, ufVars, Typed, UFTypeOK
  <2> QED
    BY <2>1, <2>2, <2>3 DEF BarrierOrStutter
<1> QED
  BY <1>1, BarrierKeeps DEF Typed, UFTypeOK, Uniting

Climbing == {"climb", "climb_test", "squash", "squash_store"}

\* The stores of a find, and that of the last loop, never raise the parent that
\* was read.
FindDown(t) ==
  /\ pc[t] \in {"grandparent", "swing"} => j[t] <= i[t]
  /\ pc[t] = "swing" => w[t] <= j[t]
  /\ pc[t] = "squash_store" => j[t] <= i[t] /\ w[t] <= i[t]
  /\ pc[t] = "relabel" => i[t] <= u[t]
  /\ pc[t] \in FindLabels /\ ret[t] = "relabel" =>
       /\ i[t] <= u[t]
       /\ pc[t] \in Climbing => j[t] <= u[t]

\* The finds and the loops never raise a parent.
LEMMA FindLoopDown ==
  ASSUME UFTyped, ParentOrder, NEW t \in Threads, FindDown(t), Find(t) \/ Loop(t)
  PROVE  ParentOrder' /\ FindDown(t)'
<1>a. \A x \in Vertices : x \in Int
  BY UFAssumption DEF Vertices
<1>b. PICK labels, returns : LabelSets(labels, returns) /\ Typed(labels, returns)
  BY DEF UFTyped
<1>c. ret[t] \in returns /\ ret[t] \notin FindLabels
  BY <1>b DEF LabelSets, Typed, UFTypeOK
<1>d. /\ parents \in [Vertices -> Vertices] /\ pc \in [Threads -> labels] /\ ret \in [Threads -> returns]
      /\ i \in [Threads -> Vertices] /\ j \in [Threads -> Vertices] /\ w \in [Threads -> Vertices]
      /\ u \in [Threads -> Vertices] /\ relabel \subseteq Vertices
  BY <1>b DEF Typed, UFTypeOK
<1> USE <1>a, <1>c, <1>d DEF ParentOrder, FindDown, FindLabels, Climbing
<1>2. CASE Find(t)
  <2>1. CASE NaiveTest(t)
    BY <2>1 DEF NaiveTest, ReturnFind
  <2>2. CASE NaiveNext(t)
    BY <2>2 DEF NaiveNext
  <2>3. CASE CompressTest(t)
    <3>1. CASE parents[i[t]] = i[t]
      BY <2>3, <3>1 DEF CompressTest, ReturnFind
    <3>2. CASE parents[i[t]] # i[t]
      BY <2>3, <3>2 DEF CompressTest, ReturnFind
    <3> QED
      BY <3>1, <3>2
  <2>4. CASE Climb(t)
    BY <2>4 DEF Climb
  <2>5. CASE ClimbTest(t)
    BY <2>5 DEF ClimbTest
  <2>6. CASE Squash(t)
    BY <2>6 DEF Squash, ReturnFind
  <2>7. CASE SquashStore(t)
    BY <2>7 DEF SquashStore
  <2>8. CASE ReadParent(t)
    BY <2>8 DEF ReadParent
  <2>9. CASE ReadGrandparent(t)
    BY <2>9 DEF ReadGrandparent, ReturnFind
  <2>10. CASE SwingParent(t)
    BY <2>10 DEF SwingParent, CasParent
  <2>11. CASE HalveNext(t)
    BY <2>11 DEF HalveNext
  <2> QED
    BY <1>2, <2>1, <2>2, <2>3, <2>4, <2>5, <2>6, <2>7, <2>8, <2>9, <2>10, <2>11 DEF Find
<1>3. CASE Loop(t)
  <2>1. CASE TakeEdge(t)
    BY <2>1 DEF TakeEdge
  <2>2. CASE TakeVertex(t)
    BY <2>2 DEF TakeVertex, CallFind
  <2>3. CASE Relabel(t)
    <3>1. /\ pc[t] = "relabel" /\ parents' = [parents EXCEPT ![u[t]] = i[t]] /\ pc'[t] = "idle"
          /\ i[t] <= u[t]
      BY <2>3 DEF Relabel, EndIteration
    <3> QED
      BY <3>1
  <2>4. CASE TakeQuery(t)
    BY <2>4 DEF TakeQuery, CallFind
  <2>5. CASE QueryV(t)
    BY <2>5 DEF QueryV, CallFind
  <2>6. CASE EndQuery(t)
    BY <2>6 DEF EndQuery, EndIteration
  <2> QED
    BY <1>3, <2>1, <2>2, <2>3, <2>4, <2>5, <2>6 DEF Loop
<1> QED
  BY <1>2, <1>3

\* A step of t leaves the locals of the other threads alone.
LEMMA OthersKeepLocals ==
  ASSUME UFTyped, NEW t \in Threads, Move(t), NEW s \in Threads, s # t
  PROVE  SameLocals(s)
<1>b. PICK labels, returns : Typed(labels, returns)
  BY DEF UFTyped
<1> USE <1>b DEF Typed, UFTypeOK, CallFind, ReturnFind, EndIteration, SameLocals
<1>1. CASE UniteMoves(t)
  BY <1>1 DEF UniteMoves
<1>2. CASE Find(t)
  <2>1. CASE NaiveTest(t) \/ NaiveNext(t) \/ CompressTest(t) \/ Climb(t) \/ ClimbTest(t)
    BY <2>1 DEF NaiveTest, NaiveNext, CompressTest, Climb, ClimbTest
  <2>2. CASE Squash(t) \/ SquashStore(t) \/ ReadParent(t) \/ ReadGrandparent(t) \/ SwingParent(t) \/ HalveNext(t)
    BY <2>2 DEF Squash, SquashStore, ReadParent, ReadGrandparent, SwingParent, HalveNext
  <2> QED
    BY <1>2, <2>1, <2>2 DEF Find
<1>3. CASE Loop(t)
  BY <1>3 DEF Loop, TakeEdge, TakeQuery, QueryV, EndQuery, TakeVertex, Relabel
<1> QED
  BY <1>1, <1>2, <1>3 DEF Move

-----------------------------------------------------------------------------
(* The trees, as the threads see them, and what a step does to them.       *)

Same(x, y) == Ancestor[x] = Ancestor[y]

\* In a find that returns to one of these labels, or at the label.
Toward(t, labels) == pc[t] \in labels \/ (pc[t] \in FindLabels /\ ret[t] \in labels)

\* u and v stand for the two arguments of the call, one each.
Pair(t) ==
  \/ Same(u[t], op[t][1]) /\ Same(v[t], op[t][2])
  \/ Same(u[t], op[t][2]) /\ Same(v[t], op[t][1])

\* The step moves a vertex up in its tree.
Compresses ==
  \E x, y \in Vertices :
    parents[x] # x /\ y < x /\ Same(x, y) /\ parents' = [parents EXCEPT ![x] = y]

\* The step links x below y, which stand for the arguments of the call of t.
Joins(t, x, y) ==
  /\ parents[x] = x /\ y < x /\ parents' = [parents EXCEPT ![x] = y]
  /\ Uniting(t) /\ op[t] \in load.ops
  /\ \/ Same(x, op[t][1]) /\ Same(y, op[t][2])
     \/ Same(x, op[t][2]) /\ Same(y, op[t][1])
JoinsTrees(t) == \E x, y \in Vertices : Joins(t, x, y)

TreeStep(t) == parents' = parents \/ Compresses \/ JoinsTrees(t)

\* Ancestor is the root map of parents that never point up.
LEMMA ParentsHaveRoots ==
  /\ PointsDown(parents) => RootMap(Ancestor, parents)
  /\ PointsDown(parents') => RootMap(Ancestor', parents')
  BY RootsExist, AncestorIsRootOf

\* Parents still point down.
LEMMA StepPointsDown ==
  ASSUME PointsDown(parents), NEW t \in Threads, TreeStep(t) PROVE PointsDown(parents')
<1>1. \A x \in Vertices : x \in Int
  BY UFAssumption DEF Vertices
<1>2. ASSUME NEW x \in Vertices, NEW y \in Vertices, y < x, parents' = [parents EXCEPT ![x] = y]
      PROVE  PointsDown(parents')
  BY <1>1, <1>2 DEF PointsDown
<1> QED
  BY <1>2 DEF TreeStep, Compresses, JoinsTrees, Joins

\* No step separates vertices or makes a root of one that was linked; but for
\* links none changes the root of a vertex.
LEMMA TreesOnlyGrow ==
  ASSUME PointsDown(parents), PointsDown(parents'), NEW t \in Threads, TreeStep(t)
  PROVE  /\ \A x, y \in Vertices : Same(x, y) => Ancestor'[x] = Ancestor'[y]
         /\ \A x \in Vertices : parents[x] # x => parents'[x] # x
         /\ ~JoinsTrees(t) =>
              Ancestor' = Ancestor /\ \A x \in Vertices : parents[x] = x => parents'[x] = x
         /\ \A x, y \in Vertices : Joins(t, x, y) =>
              /\ Ancestor' = [z \in Vertices |-> IF Ancestor[z] = x THEN Ancestor[y] ELSE Ancestor[z]]
              /\ Ancestor[x] = x /\ Ancestor'[x] = Ancestor'[y]
              /\ \A z \in Vertices \ {x} : parents[z] = z => parents'[z] = z
<1>0. \A x \in Vertices : x \in Int
  BY UFAssumption DEF Vertices
<1>r. RootMap(Ancestor, parents) /\ RootMap(Ancestor', parents')
  BY ParentsHaveRoots
<1>1. ASSUME NEW x \in Vertices, NEW y \in Vertices, Joins(t, x, y)
      PROVE  /\ Ancestor' = [z \in Vertices |-> IF Ancestor[z] = x THEN Ancestor[y] ELSE Ancestor[z]]
             /\ Ancestor[x] = x /\ Ancestor'[x] = Ancestor'[y]
             /\ \A z \in Vertices \ {x} : parents[z] = z => parents'[z] = z
             /\ \A z \in Vertices : parents[z] # z => parents'[z] # z
  <2> DEFINE m == [z \in Vertices |-> IF Ancestor[z] = x THEN Ancestor[y] ELSE Ancestor[z]]
  <2>1. parents[x] = x /\ y < x /\ parents' = [parents EXCEPT ![x] = y]
    BY <1>1 DEF Joins
  <2>2. RootMap(m, parents')
    BY <1>r, <2>1, LinkMergesRoots
  <2>3. Ancestor' = m
    <3> HIDE DEF m
    <3> QED
      BY <1>r, <2>2, RootsUnique
  <2>4. Ancestor[x] = x
    BY <1>r, <2>1 DEF RootMap
  <2>5. parents'[x] = y /\ \A z \in Vertices \ {x} : parents'[z] = parents[z]
    BY <2>1 DEF PointsDown
  <2>6. Ancestor'[x] = Ancestor'[y]
    BY <1>r, <2>5 DEF RootMap
  <2> QED
    BY <1>0, <2>1, <2>3, <2>4, <2>5, <2>6
<1>2. CASE ~JoinsTrees(t)
  <2>1. Ancestor' = Ancestor
    <3>1. CASE parents' = parents
      BY <3>1, <1>r, RootsUnique
    <3>2. CASE Compresses
      <4>1. PICK x, y \in Vertices :
              parents[x] # x /\ y < x /\ Same(x, y) /\ parents' = [parents EXCEPT ![x] = y]
        BY <3>2 DEF Compresses
      <4>2. RootMap(Ancestor, parents')
        BY <1>r, <4>1, CompressKeepsRoots DEF Same
      <4> QED
        BY <1>r, <4>2, RootsUnique
    <3> QED
      BY <1>2, <3>1, <3>2 DEF TreeStep
  <2>2. \A x \in Vertices : (parents[x] = x) <=> (parents'[x] = x)
    <3>1. \A x \in Vertices : parents[x] = x <=> Ancestor[x] = x
      BY <1>r DEF RootMap
    <3>2. \A x \in Vertices : parents'[x] = x <=> Ancestor'[x] = x
      BY <1>r DEF RootMap
    <3> QED
      BY <2>1, <3>1, <3>2
  <2>3. \A x, y \in Vertices : Joins(t, x, y) => FALSE
    BY <1>2 DEF JoinsTrees
  <2> QED
    BY <1>2, <2>1, <2>2, <2>3 DEF Same
<1>3. CASE JoinsTrees(t)
  <2>1. PICK x, y \in Vertices : Joins(t, x, y)
    BY <1>3 DEF JoinsTrees
  <2>2. \A a, b \in Vertices : Same(a, b) => Ancestor'[a] = Ancestor'[b]
    BY <1>1, <2>1 DEF Same
  <2> QED
    BY <1>1, <1>3, <2>1, <2>2
<1> QED
  BY <1>2, <1>3

\* A link puts the arguments of the call into one tree.
LEMMA JoinJoinsArguments ==
  ASSUME PointsDown(parents), PointsDown(parents'), NEW t \in Threads, JoinsTrees(t),
         load \in Workloads
  PROVE  Ancestor'[op[t][1]] = Ancestor'[op[t][2]]
<1>1. PICK x, y \in Vertices : Joins(t, x, y)
  BY DEF JoinsTrees
<1>2. op[t][1] \in Vertices /\ op[t][2] \in Vertices
  BY <1>1, UFAssumption DEF Joins, Ops
<1>3. \/ Same(x, op[t][1]) /\ Same(y, op[t][2])
      \/ Same(x, op[t][2]) /\ Same(y, op[t][1])
  BY <1>1 DEF Joins
<1>4. TreeStep(t)
  BY DEF TreeStep
<1>5. /\ Ancestor'[x] = Ancestor'[y]
      /\ \A a, b \in Vertices : Same(a, b) => Ancestor'[a] = Ancestor'[b]
  BY <1>1, <1>4, TreesOnlyGrow
<1> QED
  BY <1>2, <1>3, <1>5

\* What is closed under more links is closed under fewer.
LEMMA MoreLinksLessClosed ==
  ASSUME NEW S, NEW few, NEW many, few \subseteq many, Near(S, many) = S
  PROVE  Near(S, few) = S
BY DEF Near

\* What the links connect to a vertex holds its tree of p.
Encloses(links, p) ==
  \A S \in SUBSET Vertices : Near(S, links) = S => \A x \in Vertices : x \in S <=> p[x] \in S

\* What the links connect to a vertex still holds its tree after a step, if the
\* call that made a link is one of them.
LEMMA StepHoldsTrees ==
  ASSUME PointsDown(parents), load \in Workloads, NEW t \in Threads, TreeStep(t), NEW few, NEW many,
         few \subseteq many, JoinsTrees(t) => op[t] \in many, Encloses(few, parents)
  PROVE  Encloses(many, parents')
<1> SUFFICES ASSUME NEW S \in SUBSET Vertices, Near(S, many) = S, NEW z \in Vertices
             PROVE  z \in S <=> parents'[z] \in S
  BY DEF Encloses
<1>1. RootMap(Ancestor, parents) /\ parents \in [Vertices -> Vertices]
  BY ParentsHaveRoots DEF PointsDown
<1>2. Near(S, few) = S
  BY MoreLinksLessClosed
<1>3. \A a \in Vertices : a \in S <=> parents[a] \in S
  BY <1>2 DEF Encloses
<1>4. \A a \in Vertices : a \in S <=> Ancestor[a] \in S
  BY <1>1, <1>3, UnionOfTrees
<1>5. \A a, b \in Vertices : Same(a, b) => (a \in S <=> b \in S)
  BY <1>4 DEF Same
<1>6. CASE Compresses
  <2>1. PICK x, y \in Vertices : Same(x, y) /\ parents' = [parents EXCEPT ![x] = y]
    BY <1>6 DEF Compresses
  <2> QED
    BY <1>1, <1>3, <1>5, <2>1
<1>7. CASE JoinsTrees(t)
  <2>1. PICK x, y \in Vertices : Joins(t, x, y)
    BY <1>7 DEF JoinsTrees
  <2>2. /\ parents' = [parents EXCEPT ![x] = y]
        /\ \/ Same(x, op[t][1]) /\ Same(y, op[t][2])
           \/ Same(x, op[t][2]) /\ Same(y, op[t][1])
    BY <2>1 DEF Joins
  <2>3. /\ op[t] \in many /\ op[t] = <<op[t][1], op[t][2]>>
        /\ op[t][1] \in Vertices /\ op[t][2] \in Vertices
    BY <1>7, <2>1, UFAssumption DEF Joins, Ops
  <2>4. op[t][1] \in S <=> op[t][2] \in S
    <3>1. \A a, b \in Vertices : <<a, b>> \in many => (a \in S <=> b \in S)
      BY DEF Near
    <3> QED
      BY <2>3, <3>1
  <2>5. x \in S <=> y \in S
    BY <1>5, <2>2, <2>3, <2>4
  <2> QED
    BY <1>1, <1>3, <2>2, <2>5
<1>8. CASE parents' = parents
  BY <1>3, <1>8
<1> QED
  BY <1>6, <1>7, <1>8 DEF TreeStep

-----------------------------------------------------------------------------
(* What holds of the trees, the loops and the calls in every state.        *)

\* A find stays in the tree of its argument, and its stores point from a vertex
\* that is not a root to a lower one of the same tree.
FindInTree(t) ==
  /\ pc[t] \in Climbing \cup {"grandparent", "swing"} => Same(j[t], i[t])
  /\ pc[t] \in {"squash", "squash_store"} => load.init[j[t]] = j[t]
  /\ pc[t] = "squash_store" => j[t] < i[t] /\ Same(w[t], i[t])
  /\ pc[t] = "swing" => Same(w[t], i[t]) /\ w[t] < j[t] /\ parents[j[t]] # j[t]
  /\ Toward(t, {"relabel"}) => Same(i[t], u[t])

\* The trees only grow.
TreesGrow ==
  /\ \A x \in Vertices : Same(x, load.init[x])
  /\ \A x \in Vertices : load.init[x] # x => parents[x] # x

\* The last loop runs alone, so the roots it finds stay roots.
LastLoop ==
  /\ \A t \in Threads : Toward(t, {"relabel"}) => phase = "find"
  /\ phase # "unite" => todo = {} /\ \A t \in Threads : ~Uniting(t)
  /\ phase = "done" => Idle
  /\ phase = "unite" => relabel = Vertices
  /\ phase = "find" => load.kind = "components"
  /\ phase = "query" => load.kind = "reordered_batch"
  /\ phase = "find" => \A t \in Threads :
       /\ pc[t] \in {"squash", "squash_store"} => parents[j[t]] = j[t]
       /\ pc[t] = "relabel" => parents[i[t]] = i[t]
  /\ phase \in {"find", "done"} /\ load.kind = "components" =>
       \A x \in Vertices :
         \/ phase = "find" /\ x \in relabel
         \/ phase = "find" /\ \E t \in Threads : Toward(t, {"relabel"}) /\ u[t] = x
         \/ parents[parents[x]] = parents[x]

\* Every call is still to begin, or a thread's, or has merged its arguments.
CallsInv ==
  /\ \A t \in Threads : pc[t] \in FindLabels => ret[t] # "idle"
  /\ \A t \in Threads : ~Uniting(t) => op[t] = NoOp
  /\ \A t \in Threads : op[t] \notin todo
  /\ \A s, t \in Threads : s # t /\ op[s] = op[t] => op[s] = NoOp
  /\ \A e \in load.ops : e \in todo \/ (\E t \in Threads : op[t] = e) \/ Same(e[1], e[2])

\* What the links connect to a vertex holds its tree.
HoldsTrees(links) == Encloses(links, parents)

\* What the finds, the loops and every unite variant keep.
UFInv ==
  /\ UFTyped /\ PointsDown(parents) /\ TreesGrow /\ LastLoop /\ CallsInv /\ HoldsTrees(Graph)
  /\ \A t \in Threads : FindDown(t) /\ FindInTree(t)

\* The stores of the finds and of the last loop move vertices up in their trees.
LEMMA FindLoopCompresses ==
  ASSUME UFInv, NEW t \in Threads, Find(t) \/ Loop(t)
  PROVE  Edges' = Edges /\ (parents' = parents \/ Compresses)
<1>0. \A x \in Vertices : x \in Int
  BY UFAssumption DEF Vertices
<1>r. RootMap(Ancestor, parents)
  BY ParentsHaveRoots DEF UFInv
<1>t. /\ u[t] \in Vertices /\ i[t] \in Vertices /\ j[t] \in Vertices /\ w[t] \in Vertices
      /\ parents \in [Vertices -> Vertices] /\ \A x \in Vertices : parents[x] <= x
  BY DEF UFInv, UFTyped, Typed, UFTypeOK, PointsDown
<1>f. FindInTree(t) /\ LastLoop
  BY DEF UFInv
<1>5. CASE SquashStore(t)
  <2>1. Edges' = Edges /\ pc[t] = "squash_store" /\ parents' = [parents EXCEPT ![i[t]] = j[t]]
    BY <1>5 DEF SquashStore
  <2>2. j[t] < i[t] /\ Same(j[t], i[t])
    BY <1>f, <2>1 DEF FindInTree, Climbing
  <2>3. parents[i[t]] # i[t]
    <3>1. Ancestor[j[t]] <= j[t] /\ Ancestor[j[t]] \in Vertices
      BY <1>r, <1>t DEF RootMap
    <3>2. Ancestor[i[t]] # i[t]
      BY <1>0, <1>t, <2>2, <3>1 DEF Same
    <3> QED
      BY <1>r, <1>t, <3>2 DEF RootMap
  <2> QED
    BY <1>t, <2>1, <2>2, <2>3 DEF Compresses, Same
<1>6. CASE SwingParent(t)
  <2>1. /\ Edges' = Edges /\ pc[t] = "swing"
        /\ parents' = IF parents[i[t]] = j[t] THEN [parents EXCEPT ![i[t]] = w[t]] ELSE parents
    BY <1>6 DEF SwingParent, CasParent
  <2>2. w[t] < j[t] /\ Same(w[t], i[t]) /\ parents[j[t]] # j[t]
    BY <1>f, <2>1 DEF FindInTree
  <2>3. CASE parents[i[t]] = j[t]
    <3>1. parents[i[t]] # i[t]
      BY <2>2, <2>3
    <3>2. w[t] < i[t]
      BY <1>0, <1>t, <2>2, <2>3
    <3> QED
      BY <1>t, <2>1, <2>2, <2>3, <3>1, <3>2 DEF Compresses, Same
  <2> QED
    BY <2>1, <2>3
<1>7. CASE Relabel(t)
  <2>1. Edges' = Edges /\ pc[t] = "relabel" /\ parents' = [parents EXCEPT ![u[t]] = i[t]]
    BY <1>7 DEF Relabel
  <2>2. Same(i[t], u[t]) /\ parents[i[t]] = i[t]
    BY <1>f, <2>1 DEF FindInTree, LastLoop, Toward
  <2>3. i[t] = Ancestor[u[t]]
    BY <1>r, <1>t, <2>2 DEF RootMap, Same
  <2>4. CASE parents[u[t]] = u[t]
    <3>1. i[t] = u[t]
      BY <1>r, <1>t, <2>3, <2>4 DEF RootMap
    <3>2. parents' = parents
      BY <1>t, <2>1, <2>4, <3>1
    <3> QED
      BY <2>1, <3>2
  <2>5. CASE parents[u[t]] # u[t]
    <3>1. i[t] # u[t] /\ i[t] <= u[t]
      BY <1>r, <1>t, <2>2, <2>3, <2>5 DEF RootMap
    <3>2. i[t] < u[t]
      BY <1>0, <1>t, <3>1
    <3> QED
      BY <1>t, <2>1, <2>2, <2>5, <3>2 DEF Compresses, Same
  <2> QED
    BY <2>4, <2>5
<1>8. UNCHANGED <<parents, Edges>> \/ SquashStore(t) \/ SwingParent(t) \/ Relabel(t)
  <2>2. CASE Find(t)
    BY <2>2, Zenon DEF Find, NaiveTest, NaiveNext, CompressTest, Climb, ClimbTest, Squash, ReadParent, ReadGrandparent, HalveNext
  <2>3. CASE Loop(t)
    BY <2>3, Zenon DEF Loop, TakeEdge, TakeQuery, QueryV, EndQuery, TakeVertex
  <2> QED
    BY <2>2, <2>3
<1> QED
  BY <1>5, <1>6, <1>7, <1>8

\* A find keeps the arguments of the call, stays in the tree of its own, and
\* returns a vertex that began as a root.
LEMMA FindReturnsRoot ==
  ASSUME UFInv, PointsDown(parents'), NEW t \in Threads, Find(t)
  PROVE  /\ op'[t] = op[t] /\ u'[t] = u[t] /\ v'[t] = v[t] /\ ret'[t] = ret[t]
         /\ load' = load /\ find_option' = find_option /\ unite_option' = unite_option
         /\ UNCHANGED <<todo, asked, relabel, phase, op>> /\ pc[t] \in FindLabels
         /\ pc'[t] \in FindLabels \/ (pc'[t] = ret[t] /\ load.init[i'[t]] = i'[t])
         /\ Same(i'[t], i[t]) /\ Ancestor'[i'[t]] = Ancestor'[i[t]]
<1>1. /\ UNCHANGED <<op, u, v, load, find_option, unite_option, todo, asked, relabel, phase>>
      /\ pc[t] \in FindLabels
  BY DEF Find, NaiveTest, NaiveNext, CompressTest, Climb, ClimbTest, Squash, SquashStore, ReadParent,
         ReadGrandparent, SwingParent, HalveNext, FindLabels
<1>2. ret'[t] = ret[t]
  BY DEF Find, NaiveTest, NaiveNext, CompressTest, Climb, ClimbTest, Squash, SquashStore, ReadParent,
         ReadGrandparent, SwingParent, HalveNext, ReturnFind
<1>t. /\ FindInTree(t) /\ (\E labels : pc \in [Threads -> labels])
      /\ i \in [Threads -> Vertices] /\ j \in [Threads -> Vertices] /\ w \in [Threads -> Vertices]
      /\ parents \in [Vertices -> Vertices]
  BY DEF UFInv, UFTyped, Typed, UFTypeOK
<1>i. \A x \in Vertices : load.init[x] # x => parents[x] # x
  BY DEF UFInv, TreesGrow
<1>r. \A x \in Vertices : Ancestor[parents[x]] = Ancestor[x]
  BY ParentsHaveRoots DEF UFInv, RootMap
<1>3. pc'[t] \in FindLabels \/ (pc'[t] = ret[t] /\ load.init[i'[t]] = i'[t])
  <2> USE <1>t, <1>i DEF FindInTree, FindLabels
  <2>1. CASE NaiveTest(t) \/ NaiveNext(t)
    BY <2>1 DEF NaiveTest, NaiveNext, ReturnFind
  <2>2. CASE CompressTest(t) \/ Climb(t) \/ ClimbTest(t)
    BY <2>2 DEF CompressTest, Climb, ClimbTest, ReturnFind
  <2>3. CASE Squash(t) \/ SquashStore(t)
    BY <2>3 DEF Squash, SquashStore, ReturnFind
  <2>4. CASE ReadParent(t) \/ ReadGrandparent(t)
    BY <2>4 DEF ReadParent, ReadGrandparent, ReturnFind
  <2>5. CASE SwingParent(t) \/ HalveNext(t)
    BY <2>5 DEF SwingParent, HalveNext
  <2> QED
    BY <2>1, <2>2, <2>3, <2>4, <2>5 DEF Find
<1>4. Same(i'[t], i[t])
  <2> USE <1>t, <1>r DEF FindInTree, Same, Climbing
  <2>1. CASE NaiveTest(t) \/ NaiveNext(t)
    BY <2>1 DEF NaiveTest, NaiveNext, ReturnFind
  <2>2. CASE CompressTest(t) \/ Climb(t) \/ ClimbTest(t)
    BY <2>2 DEF CompressTest, Climb, ClimbTest, ReturnFind
  <2>3. CASE Squash(t)
    BY <2>3 DEF Squash, ReturnFind
  <2>4. CASE SquashStore(t)
    BY <2>4 DEF SquashStore
  <2>5. CASE ReadParent(t) \/ ReadGrandparent(t)
    BY <2>5 DEF ReadParent, ReadGrandparent, ReturnFind
  <2>6. CASE SwingParent(t) \/ HalveNext(t)
    BY <2>6 DEF SwingParent, HalveNext
  <2> QED
    BY <2>1, <2>2, <2>3, <2>4, <2>5, <2>6 DEF Find
<1>5. i'[t] \in Vertices
  <2> USE <1>t DEF PointsDown
  <2>1. CASE NaiveTest(t) \/ NaiveNext(t) \/ CompressTest(t) \/ Climb(t) \/ ClimbTest(t)
    BY <2>1 DEF NaiveTest, NaiveNext, ReturnFind, CompressTest, Climb, ClimbTest
  <2>2. CASE Squash(t) \/ SquashStore(t) \/ ReadParent(t) \/ ReadGrandparent(t) \/ SwingParent(t) \/ HalveNext(t)
    BY <2>2 DEF Squash, SquashStore, ReturnFind, ReadParent, ReadGrandparent, SwingParent, HalveNext
  <2> QED
    BY <2>1, <2>2 DEF Find
<1>6. Ancestor'[i'[t]] = Ancestor'[i[t]]
  <2>1. TreeStep(t)
    BY FindLoopCompresses DEF TreeStep
  <2> QED
    BY <1>t, <1>4, <1>5, <2>1, TreesOnlyGrow DEF UFInv
<1> QED
  BY <1>1, <1>2, <1>3, <1>4, <1>6

\* The find part of the invariant, of the thread that makes a step of a find or
\* of a loop.
LEMMA FindLoopInTree ==
  ASSUME UFInv, UFTyped', PointsDown(parents'), NEW t \in Threads, Find(t) \/ Loop(t)
  PROVE  FindInTree(t)'
<1>0. \A x \in Vertices : x \in Int
  BY UFAssumption DEF Vertices
<1>g. /\ \A x, y \in Vertices : Ancestor[x] = Ancestor[y] => Ancestor'[x] = Ancestor'[y]
      /\ \A x \in Vertices : parents[x] # x => parents'[x] # x
  <2>1. TreeStep(t)
    BY FindLoopCompresses DEF TreeStep
  <2> QED
    BY <2>1, TreesOnlyGrow DEF Same, UFInv
<1>r. \A x \in Vertices : Ancestor[parents[x]] = Ancestor[x]
  BY ParentsHaveRoots DEF RootMap, UFInv
<1>i. \A x \in Vertices : load.init[x] # x => parents[x] # x
  BY DEF UFInv, TreesGrow
<1>t. FindInTree(t) /\ FindDown(t) /\ \A x \in Vertices : parents[x] <= x
  BY DEF UFInv, PointsDown
<1>l. load' = load
  BY DEF Find, NaiveTest, NaiveNext, CompressTest, Climb, ClimbTest, Squash, SquashStore, ReadParent, ReadGrandparent,
         SwingParent, HalveNext, Loop, TakeEdge, TakeQuery, QueryV, EndQuery, TakeVertex, Relabel
<1>b. PICK labels, returns : LabelSets(labels, returns) /\ Typed(labels, returns)
  BY DEF UFInv, UFTyped
<1>d. /\ parents \in [Vertices -> Vertices] /\ pc \in [Threads -> labels] /\ ret \in [Threads -> returns]
      /\ i \in [Threads -> Vertices] /\ j \in [Threads -> Vertices] /\ w \in [Threads -> Vertices]
      /\ u \in [Threads -> Vertices] /\ v \in [Threads -> Vertices] /\ relabel \subseteq Vertices
  BY <1>b DEF Typed, UFTypeOK
<1>f. ret[t] \notin FindLabels
  BY <1>b DEF LabelSets, Typed, UFTypeOK
<1>c. \A x \in Vertices : parents[x] # x => parents[x] < x
  <2> TAKE x \in Vertices
  <2>1. x \in Int /\ parents[x] \in Int /\ parents[x] <= x
    BY <1>0, <1>d, <1>t
  <2> QED
    BY <2>1
<1>k. pc[t] = "grandparent" =>
        Ancestor'[parents[j[t]]] = Ancestor'[i[t]] /\ Ancestor'[j[t]] = Ancestor'[i[t]]
  <2>1. pc[t] = "grandparent" => Ancestor[j[t]] = Ancestor[i[t]]
    BY <1>t DEF FindInTree, Same
  <2>2. Ancestor[parents[j[t]]] = Ancestor[j[t]]
    BY <1>d, <1>r
  <2> QED
    BY <1>d, <1>g, <2>1, <2>2
\* A find that returns a vertex of its tree.
<1>e. ASSUME pc[t] \in FindLabels, pc'[t] = ret[t], ret'[t] = ret[t], u'[t] = u[t],
             i'[t] \in Vertices, Ancestor[i'[t]] = Ancestor[i[t]]
      PROVE  FindInTree(t)'
  <2>1. Toward(t, {"relabel"})' => Toward(t, {"relabel"})
    BY <1>e DEF Toward
  <2>2. pc'[t] \notin FindLabels
    BY <1>e, <1>f
  <2>3. (Toward(t, {"relabel"}) => Same(i[t], u[t]))'
    BY <1>d, <1>e, <1>g, <1>t, <2>1 DEF FindInTree, Same
  <2> QED
    BY <2>2, <2>3 DEF FindInTree, FindLabels, Climbing
<1>s. Find(t) => (Toward(t, {"relabel"}) => Same(i[t], u[t]))'
  <2> SUFFICES ASSUME Find(t), Toward(t, {"relabel"})' PROVE Ancestor'[i'[t]] = Ancestor'[u'[t]]
    BY DEF Same
  <2>1. /\ u'[t] = u[t] /\ ret'[t] = ret[t] /\ pc[t] \in FindLabels
        /\ pc'[t] \in FindLabels \/ pc'[t] = ret[t]
        /\ Ancestor'[i'[t]] = Ancestor'[i[t]]
    BY FindReturnsRoot
  <2>2. Toward(t, {"relabel"})
    BY <2>1 DEF Toward, FindLabels
  <2>3. Ancestor[i[t]] = Ancestor[u[t]]
    BY <1>t, <2>2 DEF FindInTree, Same
  <2> QED
    BY <1>d, <1>g, <2>1, <2>3
<1> USE <1>g, <1>r, <1>i, <1>t, <1>l, <1>d, <1>0, <1>f
    DEF FindInTree, Same, Toward, FindLabels, Climbing, FindDown
<1>2. CASE Find(t)
  <2>1. CASE NaiveTest(t)
    <3>1. CASE parents[i[t]] = i[t]
      BY <1>e, <2>1, <3>1 DEF NaiveTest, ReturnFind
    <3>2. CASE parents[i[t]] # i[t]
      BY <2>1, <3>2 DEF NaiveTest
    <3> QED
      BY <3>1, <3>2
  <2>2. CASE NaiveNext(t)
    <3>1. pc'[t] = "find"
      BY <2>2 DEF NaiveNext
    <3> QED
      BY <1>2, <1>s, <3>1
  <2>3. CASE CompressTest(t)
    <3>1. CASE parents[i[t]] = i[t]
      BY <1>e, <2>3, <3>1 DEF CompressTest, ReturnFind
    <3>2. CASE parents[i[t]] # i[t]
      BY <2>3, <3>2 DEF CompressTest
    <3> QED
      BY <3>1, <3>2
  <2>4. CASE Climb(t)
    BY <2>4 DEF Climb
  <2>5. CASE ClimbTest(t)
    BY <2>5 DEF ClimbTest
  <2>6. CASE Squash(t)
    <3>1. CASE parents[i[t]] > j[t]
      <4>1. /\ pc[t] = "squash" /\ pc'[t] = "squash_store" /\ w'[t] = parents[i[t]]
            /\ UNCHANGED <<parents, i, j>>
        BY <2>6, <3>1 DEF Squash
      <4>2. j[t] < i[t]
        BY <1>d, <1>0, <1>t, <3>1
      <4>3. Same(j[t], i[t])' /\ Same(w[t], i[t])'
        <5>1. Ancestor[j[t]] = Ancestor[i[t]] /\ Ancestor[parents[i[t]]] = Ancestor[i[t]]
          BY <1>d, <1>r, <1>t, <4>1
        <5>2. parents[i[t]] \in Vertices
          BY <1>d
        <5>3. Ancestor'[j[t]] = Ancestor'[i[t]] /\ Ancestor'[parents[i[t]]] = Ancestor'[i[t]]
          BY <1>d, <1>g, <5>1, <5>2
        <5> QED
          BY <4>1, <5>3
      <4> QED
        BY <1>2, <1>s, <4>1, <4>2, <4>3
    <3>2. CASE ~(parents[i[t]] > j[t])
      BY <1>e, <2>6, <3>2 DEF Squash, ReturnFind
    <3> QED
      BY <3>1, <3>2
  <2>7. CASE SquashStore(t)
    BY <2>7 DEF SquashStore
  <2>8. CASE ReadParent(t)
    BY <2>8 DEF ReadParent
  <2>9. CASE ReadGrandparent(t)
    <3>1. CASE parents[j[t]] = j[t]
      BY <1>e, <2>9, <3>1 DEF ReadGrandparent, ReturnFind
    <3>2. CASE parents[j[t]] # j[t]
      <4>1. /\ pc[t] = "grandparent" /\ pc'[t] = "swing" /\ w'[t] = parents[j[t]]
            /\ UNCHANGED <<parents, u, v, i, j, ret>>
        BY <2>9, <3>2 DEF ReadGrandparent
      <4>2. j[t] \in Vertices /\ i[t] \in Vertices /\ parents[j[t]] \in Vertices
        BY <1>d
      <4>3. parents[j[t]] < j[t]
        BY <1>c, <1>d, <3>2
      <4>4. Ancestor'[parents[j[t]]] = Ancestor'[i[t]] /\ Ancestor'[j[t]] = Ancestor'[i[t]]
        BY <1>k, <4>1
      <4>5. (Toward(t, {"relabel"}) => Same(i[t], u[t]))'
        BY <4>1
      <4> QED
        BY <3>2, <4>1, <4>3, <4>4, <4>5
    <3> QED
      BY <3>1, <3>2
  <2>10. CASE SwingParent(t)
    BY <2>10 DEF SwingParent
  <2>11. CASE HalveNext(t)
    <3>1. pc'[t] = "find"
      BY <2>11 DEF HalveNext
    <3> QED
      BY <1>2, <1>s, <3>1
  <2> QED
    BY <1>2, <2>1, <2>2, <2>3, <2>4, <2>5, <2>6, <2>7, <2>8, <2>9, <2>10, <2>11 DEF Find
<1>3. CASE Loop(t)
  <2>1. CASE TakeEdge(t) \/ TakeQuery(t) \/ TakeVertex(t)
    BY <2>1 DEF TakeEdge, TakeQuery, TakeVertex, CallFind
  <2>2. CASE QueryV(t) \/ EndQuery(t) \/ Relabel(t)
    BY <2>2 DEF QueryV, EndQuery, Relabel, CallFind, EndIteration
  <2> QED
    BY <1>3, <2>1, <2>2 DEF Loop
<1> QED
  BY <1>2, <1>3

\* What the other threads know stays true.
LEMMA OthersStayInTree ==
  ASSUME UFInv, PointsDown(parents'), NEW t \in Threads, Move(t), TreeStep(t),
         NEW s \in Threads, s # t
  PROVE  FindInTree(s)' /\ FindDown(s)'
<1>1. SameLocals(s)
  BY OthersKeepLocals DEF UFInv
<1>2. load' = load
  BY DEF Move, UniteMoves, Find, NaiveTest, NaiveNext, CompressTest, Climb, ClimbTest, Squash, SquashStore, ReadParent, ReadGrandparent,
         SwingParent, HalveNext, Loop, TakeEdge, TakeQuery, QueryV, EndQuery, TakeVertex, Relabel
<1>g. /\ \A x, y \in Vertices : Ancestor[x] = Ancestor[y] => Ancestor'[x] = Ancestor'[y]
      /\ \A x \in Vertices : parents[x] # x => parents'[x] # x
  BY TreesOnlyGrow DEF UFInv, Same
<1>t. FindInTree(s) /\ FindDown(s)
  BY DEF UFInv
<1>v. /\ u[s] \in Vertices /\ v[s] \in Vertices /\ i[s] \in Vertices /\ j[s] \in Vertices /\ w[s] \in Vertices
  BY DEF UFInv, UFTyped, Typed, UFTypeOK
<1>3. Toward(s, {"relabel"})' => Toward(s, {"relabel"})
  BY <1>1 DEF Toward, SameLocals
<1>4. FindInTree(s)'
  BY <1>1, <1>2, <1>g, <1>t, <1>v, <1>3 DEF FindInTree, Same, SameLocals
<1>5. FindDown(s)'
  BY <1>1, <1>t DEF FindDown, SameLocals
<1> QED
  BY <1>4, <1>5

\* Where a step takes a thread: which loop and call it is in.
LEMMA StepControl ==
  ASSUME UFTyped, NEW t \in Threads, Move(t)
  PROVE  /\ UNCHANGED <<phase, find_option, unite_option, load>> /\ todo' \subseteq todo
         /\ (phase # "find" => relabel' = relabel)
         /\ Uniting(t)' => Uniting(t) \/ phase = "unite"
         /\ Toward(t, {"relabel"})' => Toward(t, {"relabel"}) \/ phase = "find"
<1>b. PICK labels, returns : LabelSets(labels, returns) /\ Typed(labels, returns)
  BY DEF UFTyped
<1> USE <1>b DEF LabelSets, Typed, UFTypeOK, Uniting, Elsewhere, Toward, FindLabels, CallFind, ReturnFind, EndIteration
<1>1. CASE UniteMoves(t)
  BY <1>1 DEF UniteMoves
<1>2. CASE Find(t)
  <2>1. CASE NaiveTest(t) \/ NaiveNext(t) \/ CompressTest(t)
    BY <2>1 DEF NaiveTest, NaiveNext, CompressTest
  <2>2. CASE Climb(t) \/ ClimbTest(t) \/ Squash(t) \/ SquashStore(t)
    BY <2>2 DEF Climb, ClimbTest, Squash, SquashStore
  <2>3. CASE ReadParent(t) \/ ReadGrandparent(t) \/ SwingParent(t) \/ HalveNext(t)
    BY <2>3 DEF ReadParent, ReadGrandparent, SwingParent, HalveNext
  <2> QED
    BY <1>2, <2>1, <2>2, <2>3 DEF Find
<1>3. CASE Loop(t)
  BY <1>3 DEF Loop, TakeEdge, TakeQuery, QueryV, EndQuery, TakeVertex, Relabel
<1> QED
  BY <1>1, <1>2, <1>3 DEF Move

\* Links are made by calls, so none is made once the first loop has ended.
LEMMA NoLinksAfter ==
  ASSUME UFInv, PointsDown(parents'), NEW t \in Threads, TreeStep(t), phase # "unite"
  PROVE  Ancestor' = Ancestor /\ \A x \in Vertices : (parents[x] = x) <=> (parents'[x] = x)
<1>1. ~Uniting(t)
  BY DEF UFInv, LastLoop
<1>2. ~JoinsTrees(t)
  BY <1>1 DEF JoinsTrees, Joins
<1> QED
  BY <1>2, TreesOnlyGrow DEF UFInv

\* In the last loop a squash and a relabel hold a root.
LEMMA LastLoopHoldsRoots ==
  ASSUME UFInv, PointsDown(parents'), NEW t \in Threads, Move(t), TreeStep(t), phase = "find"
  PROVE  /\ pc'[t] \in {"squash", "squash_store"} => parents'[j'[t]] = j'[t]
         /\ pc'[t] = "relabel" => parents'[i'[t]] = i'[t]
<1>1. \A x \in Vertices : parents[x] = x => parents'[x] = x
  BY NoLinksAfter
<1>2. /\ pc[t] \in {"squash", "squash_store"} => parents[j[t]] = j[t]
      /\ pc[t] = "relabel" => parents[i[t]] = i[t]
  BY DEF UFInv, LastLoop
<1>3. ~Uniting(t)
  BY DEF UFInv, LastLoop
<1>b. PICK labels, returns : LabelSets(labels, returns) /\ Typed(labels, returns)
  BY DEF UFInv, UFTyped
<1>d. /\ parents \in [Vertices -> Vertices] /\ pc \in [Threads -> labels] /\ ret \in [Threads -> returns]
      /\ i \in [Threads -> Vertices] /\ j \in [Threads -> Vertices] /\ w \in [Threads -> Vertices]
      /\ ret[t] \notin FindLabels
  BY <1>b DEF Typed, UFTypeOK, LabelSets
<1> USE <1>1, <1>2, <1>3, <1>d DEF FindLabels
<1>4. ~UniteMoves(t)
  BY DEF UniteMoves
<1>5. CASE Find(t)
  <2>1. CASE NaiveTest(t) \/ NaiveNext(t)
    BY <2>1 DEF NaiveTest, NaiveNext, ReturnFind
  <2>2. CASE CompressTest(t) \/ Climb(t) \/ ClimbTest(t)
    BY <2>2 DEF CompressTest, Climb, ClimbTest, ReturnFind
  <2>3. CASE Squash(t)
    BY <2>3 DEF Squash, ReturnFind
  <2>4. CASE SquashStore(t)
    BY <2>4 DEF SquashStore
  <2>5. CASE ReadParent(t) \/ ReadGrandparent(t)
    BY <2>5 DEF ReadParent, ReadGrandparent, ReturnFind
  <2>6. CASE SwingParent(t) \/ HalveNext(t)
    BY <2>6 DEF SwingParent, HalveNext
  <2> QED
    BY <1>5, <2>1, <2>2, <2>3, <2>4, <2>5, <2>6 DEF Find
<1>6. CASE Loop(t)
  BY <1>6 DEF Loop, TakeEdge, TakeQuery, QueryV, EndQuery, TakeVertex, Relabel, CallFind, EndIteration
<1> QED
  BY <1>4, <1>5, <1>6 DEF Move

\* A vertex is left to relabel, in a thread's hands, or below a root, and stays so.
LEMMA RelabelsProgress ==
  ASSUME UFInv, UFTyped', PointsDown(parents'), NEW t \in Threads, Move(t), TreeStep(t), phase = "find",
         NEW x \in Vertices
  PROVE  \/ x \in relabel'
         \/ \E s \in Threads : Toward(s, {"relabel"})' /\ u'[s] = x
         \/ parents'[parents'[x]] = parents'[x]
<1>1. \A y \in Vertices : parents[y] = y <=> parents'[y] = y
  BY NoLinksAfter
<1>2. \/ x \in relabel
      \/ \E s \in Threads : Toward(s, {"relabel"}) /\ u[s] = x
      \/ parents[parents[x]] = parents[x]
  BY DEF UFInv, LastLoop
<1>b. PICK labels, returns : LabelSets(labels, returns) /\ Typed(labels, returns)
  BY DEF UFInv, UFTyped
<1>d. /\ parents \in [Vertices -> Vertices] /\ parents' \in [Vertices -> Vertices]
      /\ pc \in [Threads -> labels] /\ ret \in [Threads -> returns]
      /\ i \in [Threads -> Vertices] /\ j \in [Threads -> Vertices] /\ w \in [Threads -> Vertices]
      /\ u \in [Threads -> Vertices] /\ relabel \subseteq Vertices /\ ret[t] \notin FindLabels
  BY <1>b DEF Typed, UFTypeOK, PointsDown, LabelSets
<1>m. ~UniteMoves(t)
  BY DEF UFInv, LastLoop, UniteMoves
<1>4. CASE parents[parents[x]] = parents[x]
  <2>1. parents'[x] = parents[x] \/ parents[parents'[x]] = parents'[x]
    <3>1. CASE SquashStore(t)
      <4>1. pc[t] = "squash_store" /\ parents' = [parents EXCEPT ![i[t]] = j[t]]
        BY <3>1 DEF SquashStore
      <4>2. parents[j[t]] = j[t]
        BY <4>1 DEF UFInv, LastLoop
      <4> QED
        BY <1>d, <4>1, <4>2
    <3>2. CASE SwingParent(t)
      <4>1. pc[t] = "swing" /\ parents' = IF parents[i[t]] = j[t] THEN [parents EXCEPT ![i[t]] = w[t]] ELSE parents
        BY <3>2 DEF SwingParent, CasParent
      <4>2. parents[j[t]] # j[t]
        BY <4>1 DEF UFInv, FindInTree
      <4>3. parents[i[t]] = j[t] => x # i[t]
        BY <1>4, <4>2
      <4> QED
        BY <1>d, <4>1, <4>3
    <3>3. CASE Relabel(t)
      <4>1. pc[t] = "relabel" /\ parents' = [parents EXCEPT ![u[t]] = i[t]]
        BY <3>3 DEF Relabel
      <4>2. parents[i[t]] = i[t]
        BY <4>1 DEF UFInv, LastLoop
      <4> QED
        BY <1>d, <4>1, <4>2
    <3>6. CASE (Find(t) /\ ~SquashStore(t) /\ ~SwingParent(t)) \/ (Loop(t) /\ ~Relabel(t))
      <4>1. UNCHANGED parents
        BY <3>6, Zenon DEF Find, NaiveTest, NaiveNext, CompressTest, Climb, ClimbTest, Squash, ReadParent, ReadGrandparent,
                    HalveNext, Loop, TakeEdge, TakeQuery, QueryV, EndQuery, TakeVertex
      <4> QED
        BY <4>1
    <3> QED
      BY <1>m, <3>1, <3>2, <3>3, <3>6 DEF Move
  <2> QED
    BY <1>1, <1>d, <1>4, <2>1
<1>5. CASE x \in relabel
  <2>1. CASE TakeVertex(t)
    <3>1. PICK y \in relabel : relabel' = relabel \ {y} /\ u' = [u EXCEPT ![t] = y]
      BY <2>1 DEF TakeVertex
    <3>2. pc'[t] = "find" /\ ret'[t] = "relabel"
      BY <1>d, <2>1 DEF TakeVertex, CallFind
    <3>3. u'[t] = y
      BY <1>d, <3>1
    <3>4. Toward(t, {"relabel"})'
      BY <3>2 DEF Toward, FindLabels
    <3> QED
      BY <1>5, <3>1, <3>3, <3>4
  <2>2. CASE ~TakeVertex(t)
    <3>1. relabel' = relabel
      BY <1>m, <2>2 DEF Move, Loop, Find, NaiveTest, NaiveNext, CompressTest,
                  Climb, ClimbTest, Squash, SquashStore, ReadParent, ReadGrandparent, SwingParent, HalveNext,
                  TakeEdge, TakeQuery, QueryV, EndQuery, Relabel
    <3> QED
      BY <1>5, <3>1
  <2> QED
    BY <2>1, <2>2
<1>6. ASSUME NEW s \in Threads, Toward(s, {"relabel"}), u[s] = x
      PROVE  \/ Toward(s, {"relabel"})' /\ u'[s] = x
             \/ parents'[parents'[x]] = parents'[x]
  <2>1. CASE s # t
    <3>1. pc'[s] = pc[s] /\ ret'[s] = ret[s] /\ u'[s] = u[s]
      BY <2>1, OthersKeepLocals DEF UFInv, SameLocals
    <3> QED
      BY <1>6, <3>1 DEF Toward
  <2>2. CASE s = t
    <3>1. CASE Relabel(t)
      <4>1. pc[t] = "relabel" /\ parents' = [parents EXCEPT ![u[t]] = i[t]]
        BY <3>1 DEF Relabel
      <4>2. parents[i[t]] = i[t] /\ i[t] \in Vertices
        BY <1>d, <4>1 DEF UFInv, LastLoop
      <4>3. parents'[x] = i[t]
        BY <1>d, <1>6, <2>2, <4>1
      <4> QED
        BY <1>1, <4>2, <4>3
    <3>2. CASE Find(t)
      <4>1. /\ u'[t] = u[t] /\ ret'[t] = ret[t] /\ pc[t] \in FindLabels
            /\ pc'[t] \in FindLabels \/ pc'[t] = ret[t]
        BY <3>2, FindReturnsRoot
      <4> QED
        BY <1>6, <2>2, <4>1 DEF Toward, FindLabels
    <3>3. CASE ~Relabel(t) /\ ~Find(t)
      BY <1>m, <1>6, <2>2, <3>3
      DEF Move, Loop, TakeEdge, TakeQuery, QueryV, EndQuery, TakeVertex, Toward, FindLabels
    <3> QED
      BY <3>1, <3>2, <3>3
  <2> QED
    BY <2>1, <2>2
<1> QED
  BY <1>2, <1>4, <1>5, <1>6

\* Once the loops are done no thread makes a step.
LEMMA NothingAfterDone ==
  ASSUME LastLoop, NEW t \in Threads, Move(t) PROVE phase # "done"
<1> SUFFICES ASSUME phase = "done" PROVE FALSE
  OBVIOUS
<1>1. pc[t] = "idle"
  BY DEF LastLoop, Idle
<1>2. ~UniteMoves(t)
  BY <1>1 DEF UniteMoves, Uniting, FindLabels
<1>3. ~Find(t)
  BY <1>1 DEF Find, NaiveTest, NaiveNext, CompressTest, Climb, ClimbTest, Squash, SquashStore, ReadParent,
              ReadGrandparent, SwingParent, HalveNext
<1>4. ~Loop(t)
  BY <1>1 DEF Loop, TakeEdge, TakeQuery, QueryV, EndQuery, TakeVertex, Relabel, LastLoop
<1> QED
  BY <1>2, <1>3, <1>4 DEF Move

\* A step of a thread keeps what is said of the last loop.
LEMMA LastLoopStep ==
  ASSUME UFInv, UFTyped', PointsDown(parents'), NEW t \in Threads, Move(t), TreeStep(t)
  PROVE  LastLoop'
<1>1. LastLoop /\ UFTyped
  BY DEF UFInv
<1>3. /\ phase' = phase /\ load' = load /\ todo' \subseteq todo /\ phase # "done"
      /\ (phase # "find" => relabel' = relabel)
  BY <1>1, StepControl, NothingAfterDone
<1>4. ASSUME NEW s \in Threads
      PROVE  /\ Uniting(s)' => Uniting(s) \/ phase = "unite"
             /\ Toward(s, {"relabel"})' => Toward(s, {"relabel"}) \/ phase = "find"
  <2>1. CASE s = t
    BY <1>1, <2>1, StepControl
  <2>2. CASE s # t
    <3>1. pc'[s] = pc[s] /\ ret'[s] = ret[s]
      BY <1>1, <2>2, OthersKeepLocals DEF SameLocals
    <3> QED
      BY <3>1 DEF Uniting, Toward
  <2> QED
    BY <2>1, <2>2
<1>5. ASSUME NEW s \in Threads, phase = "find"
      PROVE  /\ pc'[s] \in {"squash", "squash_store"} => parents'[j'[s]] = j'[s]
             /\ pc'[s] = "relabel" => parents'[i'[s]] = i'[s]
  <2>1. CASE s = t
    BY <1>5, <2>1, LastLoopHoldsRoots
  <2>2. CASE s # t
    <3>1. pc'[s] = pc[s] /\ j'[s] = j[s] /\ i'[s] = i[s]
      BY <1>1, <2>2, OthersKeepLocals DEF SameLocals
    <3>2. i[s] \in Vertices /\ j[s] \in Vertices
      BY <1>1 DEF UFTyped, Typed, UFTypeOK
    <3>3. \A y \in Vertices : parents[y] = y => parents'[y] = y
      BY <1>5, NoLinksAfter
    <3> QED
      BY <1>1, <1>5, <3>1, <3>2, <3>3 DEF LastLoop
  <2> QED
    BY <2>1, <2>2
<1>6. ASSUME phase = "find", NEW x \in Vertices
      PROVE  \/ x \in relabel'
             \/ \E s \in Threads : Toward(s, {"relabel"})' /\ u'[s] = x
             \/ parents'[parents'[x]] = parents'[x]
  BY <1>6, RelabelsProgress
<1> QED
  BY <1>1, <1>3, <1>4, <1>5, <1>6 DEF LastLoop

\* The barriers keep the invariant: they end a loop when it is empty.
LEMMA UFBarrier == ASSUME UFInv, BarrierOrStutter PROVE UFInv' /\ Ancestor' = Ancestor
<1>1. UNCHANGED <<parents, Edges, find_option, unite_option, load, todo, asked, relabel, pc, op, u, v, i, j, w, ret>>
  BY BarrierKeeps
<1>2. Ancestor' = Ancestor
  BY <1>1, AncestorIsRootOf
<1>3. TreesGrow' /\ PointsDown(parents)' /\ HoldsTrees(Graph)'
  BY <1>1, <1>2 DEF UFInv, TreesGrow, Same, PointsDown, HoldsTrees, Encloses, Graph
<1>4. \A t \in Threads : FindInTree(t)' /\ FindDown(t)'
  BY <1>1, <1>2 DEF UFInv, FindInTree, FindDown, Same, Toward
<1>5. \A t \in Threads : (Uniting(t)' <=> Uniting(t)) /\ (Toward(t, {"relabel"})' <=> Toward(t, {"relabel"}))
  BY <1>1 DEF Uniting, Toward
<1>6. LastLoop
  BY DEF UFInv
<1>b. PICK labels, returns : LabelSets(labels, returns) /\ Typed(labels, returns)
  BY DEF UFInv, UFTyped
<1>7. UFTyped'
  <2>1. Typed(labels, returns)'
    BY <1>b, BarrierTyped
  <2> QED
    BY <1>b, <2>1 DEF UFTyped
<1>8. LastLoop'
  <2>1. CASE phase' = phase
    <3>1. Idle' = Idle
      BY <1>1 DEF Idle
    <3> QED
      BY <1>1, <1>5, <1>6, <2>1, <3>1 DEF LastLoop
  <2>2. CASE EndUnites
    <3>1. /\ phase = "unite" /\ todo = {} /\ Idle
          /\ phase' = CASE load.kind = "components" -> "find"
                        [] load.kind = "mixed_batch" -> "done"
                        [] load.kind = "reordered_batch" -> "query"
      BY <2>2 DEF EndUnites
    <3>2. load.kind \in Kinds
      BY <1>b, UFAssumption DEF Typed, UFTypeOK
    <3>3. \/ phase' = "find" /\ load.kind = "components"
          \/ phase' = "done" /\ load.kind = "mixed_batch"
          \/ phase' = "query" /\ load.kind = "reordered_batch"
      BY <3>1, <3>2 DEF Kinds
    <3>4. \A t \in Threads : pc[t] = "idle"
      BY <3>1 DEF Idle
    <3>5. \A t \in Threads : ~Uniting(t) /\ ~Toward(t, {"relabel"})
      BY <3>4 DEF Uniting, Elsewhere, Toward, FindLabels
    <3>6. phase' = "find" => relabel = Vertices
      BY <1>6, <3>1 DEF LastLoop
    <3>7. Idle'
      BY <1>1, <3>1 DEF Idle
    <3> QED
      BY <1>1, <1>5, <3>1, <3>3, <3>4, <3>5, <3>6, <3>7 DEF LastLoop
  <2>3. CASE Finish
    <3>1. ((phase = "find" /\ relabel = {}) \/ phase = "query") /\ Idle /\ phase' = "done"
      BY <2>3 DEF Finish
    <3>2. \A t \in Threads : pc[t] = "idle"
      BY <3>1 DEF Idle
    <3>3. \A t \in Threads : ~Uniting(t) /\ ~Toward(t, {"relabel"})
      BY <3>2 DEF Uniting, Elsewhere, Toward, FindLabels
    <3>4. load.kind = "components" => \A x \in Vertices : parents[parents[x]] = parents[x]
      BY <1>6, <3>1, <3>3 DEF LastLoop
    <3>5. Idle'
      BY <1>1, <3>1 DEF Idle
    <3> QED
      BY <1>1, <1>5, <1>6, <3>1, <3>3, <3>4, <3>5 DEF LastLoop
  <2> QED
    BY <2>1, <2>2, <2>3 DEF BarrierOrStutter, Done, ufVars
<1>9. CallsInv'
  BY <1>1, <1>2 DEF UFInv, CallsInv, Same, Uniting
<1> QED
  BY <1>2, <1>3, <1>4, <1>7, <1>8, <1>9 DEF UFInv

-----------------------------------------------------------------------------
(* The calls.                                                              *)

\* What a step does to the call of its thread: nothing, or it begins one that
\* was to be made, or it ends one whose arguments have been merged.
Keeps(t) == UNCHANGED <<op, todo>>
Begins(t) == \E e \in todo : op[t] = NoOp /\ op' = [op EXCEPT ![t] = e] /\ todo' = todo \ {e}
Ends(t) ==
  /\ op' = [op EXCEPT ![t] = NoOp] /\ todo' = todo
  /\ op[t] \in load.ops => Ancestor'[op[t][1]] = Ancestor'[op[t][2]]

\* A unite variant that ends its call has merged the arguments.
Merges(t) == Uniting(t) /\ op'[t] # op[t] => Ancestor'[op[t][1]] = Ancestor'[op[t][2]]

\* No call is made of UINT_E_MAX, which stands for no call and for no edge.
LEMMA NoOpIsNoCall ==
  ASSUME load \in Workloads
  PROVE  NoOp \notin load.ops /\ empty_edge \notin load.ops
<1>1. load.ops \subseteq Ops /\ N \notin Vertices
  BY UFAssumption DEF Vertices
<1> QED
  BY <1>1 DEF NoOp, empty_edge, Ops

\* A step begins a call, ends one, or keeps the thread in or out of one.
LEMMA CallSteps ==
  ASSUME UFInv, UFTyped', PointsDown(parents'), NEW t \in Threads, Move(t), Merges(t)
  PROVE  /\ \/ Keeps(t) /\ (Uniting(t)' <=> Uniting(t))
            \/ Begins(t) /\ Uniting(t)'
            \/ Ends(t) /\ ~Uniting(t)'
         /\ pc'[t] \in FindLabels => ret'[t] # "idle"
<1>i. pc[t] \in FindLabels => ret[t] # "idle"
  BY DEF UFInv, CallsInv
<1>b. PICK labels, returns : LabelSets(labels, returns) /\ Typed(labels, returns)
  BY DEF UFInv, UFTyped
<1>d. /\ pc \in [Threads -> labels] /\ ret \in [Threads -> returns]
      /\ op \in [Threads -> load.ops \cup {NoOp}] /\ ret[t] \in returns
      /\ returns \cap FindLabels = {}
  BY <1>b DEF Typed, UFTypeOK, LabelSets
<1>e. op' \in [Threads -> load'.ops \cup {NoOp}]
  BY DEF UFTyped, Typed, UFTypeOK
<1>0. Uniting(t) <=> op[t] # NoOp
  <2>1. NoOp \notin load.ops
    BY <1>b, NoOpIsNoCall DEF Typed, UFTypeOK
  <2> QED
    BY <2>1, <1>b DEF Typed, UFInv, CallsInv
<1>1. CASE UniteMoves(t)
  <2>1. Uniting(t) /\ todo' = todo /\ load' = load /\ (pc'[t] \in FindLabels => ret'[t] # "idle")
    BY <1>1 DEF UniteMoves
  <2>2. CASE op'[t] = op[t] /\ Uniting(t)'
    <3>1. \A s \in Threads : op'[s] = op[s]
      BY <1>1, <2>2 DEF UniteMoves, SameLocals
    <3>2. op' = op
      BY <1>d, <1>e, <3>1
    <3> QED
      BY <2>1, <2>2, <3>2 DEF Keeps
  <2>3. CASE op' = [op EXCEPT ![t] = NoOp] /\ pc'[t] = "idle"
    <3>1. op'[t] # op[t]
      BY <1>0, <1>d, <2>1, <2>3
    <3>2. Ends(t)
      BY <2>1, <2>3, <3>1 DEF Merges, Ends
    <3>3. ~Uniting(t)'
      BY <2>3 DEF Uniting, FindLabels
    <3> QED
      BY <2>1, <3>2, <3>3
  <2> QED
    BY <1>1, <2>2, <2>3 DEF UniteMoves
<1>2. CASE Find(t)
  <2>1. /\ UNCHANGED <<op, todo>> /\ ret'[t] = ret[t] /\ pc[t] \in FindLabels
        /\ pc'[t] \in FindLabels \/ pc'[t] = ret[t]
    BY <1>2, FindReturnsRoot
  <2>2. Uniting(t)' <=> Uniting(t)
    BY <1>d, <1>i, <2>1 DEF Uniting
  <2> QED
    BY <1>i, <2>1, <2>2 DEF Keeps
<1>3. CASE Loop(t)
  <2>0. ~Uniting(t)
    BY <1>3 DEF Loop, TakeEdge, TakeQuery, QueryV, EndQuery, TakeVertex, Relabel, Uniting, Elsewhere, FindLabels
  <2>1. CASE TakeEdge(t)
    <3>1. Begins(t)
      BY <1>0, <2>0, <2>1 DEF TakeEdge, Begins
    <3>2. pc'[t] = "unite"
      BY <1>d, <2>1 DEF TakeEdge
    <3> QED
      BY <3>1, <3>2 DEF Uniting, Elsewhere, FindLabels
  <2>2. CASE ~TakeEdge(t)
    <3>1. (UNCHANGED op \/ op' = [op EXCEPT ![t] = NoOp]) /\ todo' = todo
      BY <1>3, <2>2 DEF Loop, TakeQuery, QueryV, EndQuery, TakeVertex, Relabel, EndIteration
    <3>2. Keeps(t)
      BY <1>0, <1>d, <2>0, <3>1 DEF Keeps
    <3>3. ~Uniting(t)' /\ (pc'[t] \in FindLabels => ret'[t] # "idle")
      BY <1>d, <1>3, <2>2 DEF Loop, TakeQuery, QueryV, EndQuery, TakeVertex, Relabel, EndIteration, CallFind, Uniting,
                Elsewhere, FindLabels
    <3> QED
      BY <2>0, <3>2, <3>3
  <2> QED
    BY <2>1, <2>2
<1> QED
  BY <1>1, <1>2, <1>3 DEF Move

\* Calls are neither lost nor made twice, and end merged.
LEMMA CallsStep ==
  ASSUME UFInv, UFTyped', PointsDown(parents'), NEW t \in Threads, Move(t), TreeStep(t), Merges(t)
  PROVE  CallsInv'
<1>1. /\ \/ Keeps(t) /\ (Uniting(t)' <=> Uniting(t))
         \/ Begins(t) /\ Uniting(t)'
         \/ Ends(t) /\ ~Uniting(t)'
      /\ pc'[t] \in FindLabels => ret'[t] # "idle"
  BY CallSteps
<1>2. ASSUME NEW s \in Threads, s # t
      PROVE  /\ pc'[s] = pc[s] /\ ret'[s] = ret[s] /\ op'[s] = op[s]
             /\ Uniting(s)' <=> Uniting(s)
  <2>1. pc'[s] = pc[s] /\ ret'[s] = ret[s] /\ op'[s] = op[s]
    BY <1>2, OthersKeepLocals DEF UFInv, SameLocals
  <2> QED
    BY <2>1 DEF Uniting
<1>T. op \in [Threads -> load.ops \cup {NoOp}] /\ todo \subseteq load.ops /\ load \in Workloads
  BY DEF UFInv, UFTyped, Typed, UFTypeOK
<1>3. /\ \A x, y \in Vertices : Same(x, y) => Ancestor'[x] = Ancestor'[y]
      /\ load' = load /\ load.ops \subseteq Ops
  BY <1>T, TreesOnlyGrow, StepControl, UFAssumption DEF UFInv
<1>4. NoOp \notin load.ops
  BY <1>T, NoOpIsNoCall
<1>C. CallsInv
  BY DEF UFInv
<1>5. \/ op'[t] = op[t] /\ todo' = todo
      \/ op'[t] \in todo /\ todo' = todo \ {op'[t]}
      \/ op'[t] = NoOp /\ todo' = todo
  BY <1>1, <1>T DEF Keeps, Begins, Ends
<1>6. \A s \in Threads : pc'[s] \in FindLabels => ret'[s] # "idle"
  BY <1>1, <1>2, <1>C DEF CallsInv
<1>7. \A s \in Threads : ~Uniting(s)' => op'[s] = NoOp
  BY <1>1, <1>2, <1>T, <1>C DEF CallsInv, Keeps, Begins, Ends
<1>8. \A s \in Threads : op'[s] \notin todo'
  BY <1>2, <1>4, <1>T, <1>5, <1>C DEF CallsInv
<1>9. \A s, r \in Threads : s # r /\ op'[s] = op'[r] => op'[s] = NoOp
  BY <1>2, <1>4, <1>T, <1>5, <1>C DEF CallsInv
<1>10. ASSUME NEW e \in load.ops
       PROVE  e \in todo' \/ (\E s \in Threads : op'[s] = e) \/ Ancestor'[e[1]] = Ancestor'[e[2]]
  <2>1. e \in todo \/ (\E s \in Threads : op[s] = e) \/ Same(e[1], e[2])
    BY <1>C DEF CallsInv
  <2>2. CASE Same(e[1], e[2])
    BY <1>3, <2>2 DEF Ops
  <2>3. CASE e \in todo
    BY <1>T, <1>5, <2>3
  <2>4. ASSUME NEW s \in Threads, op[s] = e
        PROVE  op'[s] = e \/ Ancestor'[e[1]] = Ancestor'[e[2]]
    BY <1>1, <1>2, <1>4, <1>T, <2>4 DEF Keeps, Begins, Ends
  <2> QED
    BY <2>1, <2>2, <2>3, <2>4
<1> QED
  BY <1>3, <1>6, <1>7, <1>8, <1>9, <1>10 DEF CallsInv, Same

\* The invariant holds once the caller has set up the array and the loops.
LEMMA UFStart ==
  ASSUME UFInit, NEW labels, NEW returns, LabelSets(labels, returns) PROVE UFInv
<1>1. /\ parents = load.init /\ phase = "unite" /\ relabel = Vertices /\ todo = load.ops
      /\ \A t \in Threads : pc[t] = "idle" /\ ret[t] = "idle" /\ op[t] = NoOp
      /\ load \in Workloads
  BY DEF UFInit
<1>2. UFTyped
  BY InitTyped DEF UFTyped
<1>3. PointsDown(parents)
  BY <1>1, UFAssumption, InitAssumption DEF PointsDown
<1>4. RootMap(Ancestor, parents)
  BY <1>3, ParentsHaveRoots
<1>5. TreesGrow
  BY <1>1, <1>4 DEF TreesGrow, Same, RootMap
<1>6. \A t \in Threads : FindInTree(t) /\ FindDown(t) /\ ~Uniting(t)
  BY <1>1 DEF FindInTree, FindDown, Uniting, Elsewhere, Toward, FindLabels, Climbing
<1>7. LastLoop
  BY <1>1 DEF LastLoop, Toward, FindLabels
<1>8. CallsInv
  <2>1. NoOp \notin load.ops
    BY <1>1, NoOpIsNoCall
  <2> QED
    BY <1>1, <2>1 DEF CallsInv, FindLabels
<1>9. HoldsTrees(Graph)
  <2>1. ASSUME NEW S \in SUBSET Vertices, Near(S, Graph) = S, NEW x \in Vertices
        PROVE  x \in S <=> parents[x] \in S
    <3>1. <<x, parents[x]>> \in Graph /\ parents[x] \in Vertices
      BY <1>1, <1>3 DEF Graph, PointsDown
    <3> QED
      BY <2>1, <3>1 DEF Near
  <2> QED
    BY <2>1 DEF HoldsTrees, Encloses
<1> QED
  BY <1>2, <1>3, <1>5, <1>6, <1>7, <1>8, <1>9 DEF UFInv

\* A step leaves every tree within its component of the graph.
LEMMA GraphHoldsTrees ==
  ASSUME UFInv, NEW t \in Threads, Move(t), TreeStep(t) PROVE HoldsTrees(Graph)'
<1>1. load' = load /\ load \in Workloads
  BY StepControl DEF UFInv, UFTyped, Typed, UFTypeOK
<1>2. Graph' = Graph
  BY <1>1 DEF Graph
<1>3. JoinsTrees(t) => op[t] \in Graph
  BY DEF JoinsTrees, Joins, Graph
<1>4. PointsDown(parents) /\ Encloses(Graph, parents)
  BY DEF UFInv, HoldsTrees
<1>5. Encloses(Graph, parents')
  BY <1>1, <1>3, <1>4, StepHoldsTrees
<1> QED
  BY <1>2, <1>5 DEF HoldsTrees

\* A step of a unite variant keeps the invariant if it keeps the types, moves
\* vertices up in their trees and links the trees of its call's arguments, no
\* more, and ends a call merged.
LEMMA UniteKeepsUF ==
  ASSUME UFInv, NEW t \in Threads, UniteMoves(t), UFTyped', TreeStep(t), Merges(t)
  PROVE  UFInv'
<1>1. Move(t)
  BY DEF Move
<1>2. PointsDown(parents')
  BY StepPointsDown DEF UFInv
<1>3. LastLoop' /\ CallsInv' /\ HoldsTrees(Graph)'
  BY <1>1, <1>2, LastLoopStep, CallsStep, GraphHoldsTrees
<1>5. FindInTree(t)' /\ FindDown(t)'
  <2>1. /\ pc'[t] \in FindLabels => pc'[t] = "find" /\ ret'[t] # "relabel"
        /\ pc'[t] # "relabel"
    BY DEF UniteMoves, Uniting, Elsewhere, FindLabels
  <2> QED
    BY <2>1 DEF FindInTree, FindDown, Toward, Climbing, FindLabels
<1>6. \A s \in Threads : FindInTree(s)' /\ FindDown(s)'
  BY <1>1, <1>2, <1>5, OthersStayInTree
<1>4. TreesGrow'
  <2>1. load' = load /\ load \in Workloads
    BY DEF UniteMoves, UFInv, UFTyped, Typed, UFTypeOK
  <2>2. load.init \in [Vertices -> Vertices]
    BY <2>1, UFAssumption
  <2>3. /\ \A x, y \in Vertices : Same(x, y) => Ancestor'[x] = Ancestor'[y]
        /\ \A x \in Vertices : parents[x] # x => parents'[x] # x
    BY <1>2, TreesOnlyGrow DEF UFInv
  <2> QED
    BY <2>1, <2>2, <2>3 DEF UFInv, TreesGrow, Same
<1>7. PointsDown(parents)'
  BY <1>2 DEF PointsDown
<1> QED
  BY <1>3, <1>4, <1>6, <1>7 DEF UFInv

\* So does every step of the finds and the loops.
LEMMA FindLoopKeepsUF ==
  ASSUME UFInv, NEW labels, NEW returns, LabelSets(labels, returns), Typed(labels, returns),
         NEW t \in Threads, Find(t) \/ Loop(t)
  PROVE  UFInv' /\ TreeStep(t) /\ Merges(t) /\ Move(t) /\ Edges' = Edges /\ (parents' = parents \/ Compresses)
<1>1. Move(t)
  BY DEF Move
<1>2. Typed(labels, returns)' /\ UFTyped'
  <2>1. Typed(labels, returns)'
    BY FindLoopTyped
  <2> QED
    BY <2>1 DEF UFTyped
<1>3. ParentOrder' /\ FindDown(t)'
  BY FindLoopDown DEF UFInv, PointsDown, ParentOrder
<1>4. PointsDown(parents')
  BY <1>2, <1>3 DEF Typed, UFTypeOK, ParentOrder, PointsDown
<1>5. Edges' = Edges /\ (parents' = parents \/ Compresses)
  BY FindLoopCompresses
<1>6. TreeStep(t)
  BY <1>5 DEF TreeStep
<1>7. Merges(t)
  <2>1. CASE Find(t)
    BY <1>4, <2>1, FindReturnsRoot DEF Merges
  <2>2. CASE Loop(t)
    BY <2>2 DEF Loop, TakeEdge, TakeQuery, QueryV, EndQuery, TakeVertex, Relabel, Uniting, Elsewhere, FindLabels, Merges
  <2> QED
    BY <2>1, <2>2
<1>8. FindInTree(t)'
  BY <1>2, <1>4, FindLoopInTree
<1>9. LastLoop' /\ CallsInv' /\ HoldsTrees(Graph)'
  BY <1>1, <1>2, <1>4, <1>6, <1>7, LastLoopStep, CallsStep, GraphHoldsTrees
<1>10. \A s \in Threads : FindInTree(s)' /\ FindDown(s)'
  BY <1>1, <1>3, <1>4, <1>6, <1>8, OthersStayInTree
<1>11. TreesGrow'
  <2>1. load' = load /\ load \in Workloads
    BY <1>1, StepControl DEF UFInv, UFTyped, Typed, UFTypeOK
  <2>2. load.init \in [Vertices -> Vertices]
    BY <2>1, UFAssumption
  <2>3. /\ \A x, y \in Vertices : Same(x, y) => Ancestor'[x] = Ancestor'[y]
        /\ \A x \in Vertices : parents[x] # x => parents'[x] # x
    BY <1>4, <1>6, TreesOnlyGrow DEF UFInv
  <2> QED
    BY <2>1, <2>2, <2>3 DEF UFInv, TreesGrow, Same
<1> QED
  BY <1>1, <1>2, <1>4, <1>5, <1>6, <1>7, <1>9, <1>10, <1>11 DEF UFInv

-----------------------------------------------------------------------------
(* The recorded edges.                                                     *)

Forest == {Edges[x] : x \in Vertices} \ {empty_edge}
Start == {<<x, load.init[x]>> : x \in Vertices}

\* An edge is recorded for each vertex that was linked, and what the recorded
\* edges connect to the initial trees holds every tree.
EdgesInv ==
  /\ Forest \subseteq load.ops
  /\ \A x \in Vertices : Edges[x] # empty_edge <=> load.init[x] = x /\ parents[x] # x
  /\ HoldsTrees(Forest \cup Start)

\* The step records the call with each link, and with nothing else.
Records(t) ==
  \/ UNCHANGED <<parents, Edges>>
  \/ Compresses /\ UNCHANGED Edges
  \/ \E x, y \in Vertices : Joins(t, x, y) /\ Edges' = [Edges EXCEPT ![x] = op[t]]

\* A variant that records its links moves vertices up and links, no more.
LEMMA RecordsIsTreeStep == ASSUME NEW t \in Threads, Records(t) PROVE TreeStep(t)
  BY DEF Records, TreeStep, JoinsTrees

\* Before the first link the initial trees are all there is.
LEMMA EdgesStart == UFInit => EdgesInv
<1> SUFFICES ASSUME UFInit PROVE EdgesInv
  OBVIOUS
<1>1. /\ parents = load.init /\ Edges = [x \in Vertices |-> empty_edge] /\ load \in Workloads
  BY DEF UFInit
<1>2. load.init \in [Vertices -> Vertices]
  BY <1>1, UFAssumption
<1>3. ASSUME NEW S \in SUBSET Vertices, NEW links, Near(S, links \cup Start) = S, NEW x \in Vertices
      PROVE  x \in S <=> parents[x] \in S
  <2>1. <<x, parents[x]>> \in links \cup Start /\ parents[x] \in Vertices
    BY <1>1, <1>2 DEF Start
  <2> QED
    BY <1>3, <2>1 DEF Near
<1> QED
  BY <1>1, <1>3 DEF EdgesInv, Forest, HoldsTrees, Encloses

\* Links and path compressions keep what is said of the recorded edges.
LEMMA EdgesStep ==
  ASSUME UFInv, EdgesInv, load' = load, NEW t \in Threads, Records(t)
  PROVE  EdgesInv'
<1>1. load' = load /\ load \in Workloads /\ Start' = Start
  BY DEF UFInv, UFTyped, Typed, UFTypeOK, Start
<1>2. /\ parents \in [Vertices -> Vertices] /\ Edges \in [Vertices -> Ops \cup {empty_edge}]
      /\ PointsDown(parents) /\ Encloses(Forest \cup Start, parents)
  BY DEF UFInv, UFTyped, Typed, UFTypeOK, EdgesInv, HoldsTrees
<1>3. ASSUME Forest \subseteq Forest', JoinsTrees(t) => op[t] \in Forest' PROVE HoldsTrees(Forest \cup Start)'
  <2> DEFINE many == Forest' \cup Start
           few == Forest \cup Start
  <2>2. Encloses(many, parents')
    <3>1. TreeStep(t)
      BY RecordsIsTreeStep
    <3>2. few \subseteq many /\ (JoinsTrees(t) => op[t] \in many) /\ Encloses(few, parents)
      BY <1>2, <1>3
    <3> HIDE DEF many, few
    <3> QED
      BY <1>1, <1>2, <3>1, <3>2, StepHoldsTrees
  <2> QED
    BY <1>1, <2>2 DEF HoldsTrees
<1>4. CASE UNCHANGED <<parents, Edges>> \/ (Compresses /\ UNCHANGED Edges)
  <2>1. Forest' = Forest
    BY <1>4 DEF Forest
  <2>2. \A z \in Vertices : parents[z] = z <=> parents'[z] = z
    <3>1. CASE Compresses
      <4>1. PICK x, y \in Vertices : parents[x] # x /\ y < x /\ parents' = [parents EXCEPT ![x] = y]
        BY <3>1 DEF Compresses
      <4>2. y # x
        BY <4>1, UFAssumption DEF Vertices
      <4> QED
        BY <1>2, <4>1, <4>2
    <3> QED
      BY <1>4, <3>1
  <2>3. JoinsTrees(t) => FALSE
    <3> SUFFICES ASSUME NEW x \in Vertices, NEW y \in Vertices, Joins(t, x, y) PROVE FALSE
      BY DEF JoinsTrees
    <3>1. parents[x] = x /\ y < x /\ parents' = [parents EXCEPT ![x] = y]
      BY DEF Joins
    <3>2. y # x
      BY <3>1, UFAssumption DEF Vertices
    <3> QED
      BY <1>2, <2>2, <3>1, <3>2
  <2> QED
    BY <1>1, <1>3, <1>4, <2>1, <2>2, <2>3 DEF EdgesInv
<1>5. CASE \E x, y \in Vertices : Joins(t, x, y) /\ Edges' = [Edges EXCEPT ![x] = op[t]]
  <2>1. PICK x, y \in Vertices : Joins(t, x, y) /\ Edges' = [Edges EXCEPT ![x] = op[t]]
    BY <1>5
  <2>2. /\ parents[x] = x /\ y < x /\ op[t] \in load.ops
        /\ parents' = [parents EXCEPT ![x] = y] /\ Edges' = [Edges EXCEPT ![x] = op[t]]
    BY <2>1 DEF Joins
  <2>3. y # x /\ op[t] # empty_edge
    BY <1>1, <2>2, NoOpIsNoCall, UFAssumption DEF Vertices
  <2>4. Edges[x] = empty_edge /\ load.init[x] = x
    BY <2>2 DEF EdgesInv, UFInv, TreesGrow
  <2>5. /\ Edges'[x] = op[t] /\ \A z \in Vertices \ {x} : Edges'[z] = Edges[z]
        /\ parents'[x] = y /\ \A z \in Vertices \ {x} : parents'[z] = parents[z]
    BY <1>2, <2>2
  <2>6. Forest' = Forest \cup {op[t]}
    BY <1>1, <2>3, <2>4, <2>5 DEF Forest
  <2>7. \A z \in Vertices : Edges'[z] # empty_edge <=> load.init[z] = z /\ parents'[z] # z
    BY <2>3, <2>4, <2>5 DEF EdgesInv
  <2>8. Forest' \subseteq load.ops
    BY <2>2, <2>6 DEF EdgesInv
  <2> QED
    BY <1>1, <1>3, <2>6, <2>7, <2>8 DEF EdgesInv
<1> QED
  BY <1>4, <1>5 DEF Records

-----------------------------------------------------------------------------
(* What the callers get in the end.                                        *)

\* What the recorded edges and the initial trees connect is in one tree, if it
\* holds every tree.
LEMMA LinksAreTrees ==
  ASSUME UFInv, NEW links \in SUBSET Ops,
         \A e \in links : Same(e[1], e[2]),
         HoldsTrees(links)
  PROVE  Components(links) = ClassesOf(Ancestor)
<1>1. PointsDown(parents) /\ RootMap(Ancestor, parents) /\ Ancestor \in [Vertices -> Vertices]
  BY ParentsHaveRoots DEF UFInv, RootMap
<1>2. ASSUME NEW S \in SUBSET Vertices, Near(S, links) = S
      PROVE  \A x, y \in Vertices : Ancestor[x] = Ancestor[y] /\ x \in S => y \in S
  <2>1. \A x \in Vertices : x \in S <=> parents[x] \in S
    BY <1>2 DEF HoldsTrees, Encloses
  <2>2. \A x \in Vertices : x \in S <=> Ancestor[x] \in S
    BY <1>1, <2>1, UnionOfTrees
  <2> QED
    BY <2>2
<1> QED
  BY <1>1, <1>2, ComponentsAreClasses DEF Same

\* In the end all calls have merged their arguments, so the trees are the
\* components of the graph.
LEMMA GraphIsTrees == ASSUME UFInv, phase = "done" PROVE Components(Graph) = ClassesOf(Ancestor)
<1>1. load \in Workloads /\ load.ops \subseteq Ops /\ load.init \in [Vertices -> Vertices]
  BY UFAssumption DEF UFInv, UFTyped, Typed, UFTypeOK
<1>2. Graph \subseteq Ops
  BY <1>1 DEF Graph, Ops
<1>3. ASSUME NEW e \in Graph PROVE Same(e[1], e[2])
  <2>1. todo = {} /\ \A t \in Threads : op[t] = NoOp
    BY DEF UFInv, LastLoop, CallsInv
  <2>2. NoOp \notin load.ops
    BY <1>1, NoOpIsNoCall
  <2>3. CASE e \in load.ops
    BY <2>1, <2>2, <2>3 DEF UFInv, CallsInv
  <2>4. CASE e \in Start
    BY <2>4 DEF Start, UFInv, TreesGrow
  <2> QED
    BY <2>3, <2>4 DEF Graph, Start
<1> QED
  BY <1>2, <1>3, LinksAreTrees DEF UFInv

\* When the loops are done the labels are the components of the graph.
LEMMA LabelsFound == UFInv => LabelsAreComponents
<1> SUFFICES ASSUME UFInv, phase = "done"
             PROVE  Components(Graph) = IF load.kind = "components"
                                        THEN {{y \in Vertices : parents[y] = parents[x]} : x \in Vertices}
                                        ELSE Trees
  BY DEF LabelsAreComponents
<1>1. Components(Graph) = ClassesOf(Ancestor)
  BY GraphIsTrees
<1>2. PointsDown(parents) /\ RootMap(Ancestor, parents)
  BY ParentsHaveRoots DEF UFInv
<1>3. Trees = ClassesOf(Ancestor)
  BY DEF Trees, ClassesOf
<1>4. ASSUME load.kind = "components"
      PROVE  ClassesOf(Ancestor) = {{y \in Vertices : parents[y] = parents[x]} : x \in Vertices}
  <2>1. \A x \in Vertices : parents[parents[x]] = parents[x]
    BY <1>4 DEF UFInv, LastLoop
  <2>2. RootMap(parents, parents)
    BY <1>2, <2>1 DEF RootMap, PointsDown
  <2>3. Ancestor = parents
    BY <1>2, <2>2, RootsUnique
  <2> QED
    BY <2>3 DEF ClassesOf
<1> QED
  BY <1>1, <1>3, <1>4

\* A linked vertex that began as a root is one root less.
LEMMA ForestHasTheEdges ==
  ASSUME UFInv, EdgesInv
  PROVE  Cardinality({x \in Vertices : Edges[x] # empty_edge})
           = Cardinality(Components(Start)) - Cardinality(ClassesOf(Ancestor))
<1> DEFINE init == load.init
           roots == {x \in Vertices : init[x] = x}
           left == {x \in Vertices : parents[x] = x}
           linked == {x \in Vertices : Edges[x] # empty_edge}
<1>1. PointsDown(parents) /\ RootMap(Ancestor, parents)
  BY ParentsHaveRoots DEF UFInv
<1>2. load \in Workloads /\ PointsDown(init)
  BY UFAssumption, InitAssumption DEF UFInv, UFTyped, Typed, UFTypeOK, PointsDown
<1>3. RootMap(RootOf(init), init)
  <2> HIDE DEF init
  <2> QED
    BY <1>2, RootsExist
<1>4. Components(Start) = ClassesOf(RootOf(init))
  <2>1. Start \in SUBSET Ops /\ Start = {<<x, init[x]>> : x \in Vertices}
    BY <1>2 DEF Start, Ops, PointsDown
  <2>2. \A e \in Start : RootOf(init)[e[1]] = RootOf(init)[e[2]]
    BY <1>3, <2>1 DEF RootMap
  <2>3. ASSUME NEW S \in SUBSET Vertices, Near(S, Start) = S
        PROVE  \A x, y \in Vertices : RootOf(init)[x] = RootOf(init)[y] /\ x \in S => y \in S
    <3>1. ASSUME NEW x \in Vertices PROVE x \in S <=> init[x] \in S
      <4>1. <<x, init[x]>> \in Start /\ init[x] \in Vertices
        BY <1>2, <2>1 DEF PointsDown
      <4> QED
        BY <2>3, <4>1 DEF Near
    <3>2. \A x \in Vertices : x \in S <=> RootOf(init)[x] \in S
      <4> HIDE DEF init
      <4> QED
        BY <1>2, <1>3, <3>1, UnionOfTrees
    <3> QED
      BY <3>2
  <2> HIDE DEF init
  <2> QED
    BY <1>3, <2>1, <2>2, <2>3, ComponentsAreClasses DEF RootMap
<1>5. left \subseteq roots /\ linked = roots \ left
  BY DEF EdgesInv, UFInv, TreesGrow
<1>6. /\ IsFiniteSet(roots) /\ Cardinality(ClassesOf(RootOf(init))) = Cardinality(roots)
      /\ Cardinality(ClassesOf(Ancestor)) = Cardinality(left)
  <2> HIDE DEF init
  <2> QED
    BY <1>1, <1>2, <1>3, OneClassForEachRoot
<1> HIDE DEF roots, left, linked
<1>7. Cardinality(linked) = Cardinality(roots) - Cardinality(left)
  <2>1. roots \cap left = left
    BY <1>5
  <2>2. Cardinality(roots \ left) = Cardinality(roots) - Cardinality(roots \cap left)
    BY <1>6, FS_Difference
  <2> QED
    BY <1>5, <2>1, <2>2
<1> QED
  BY <1>4, <1>6, <1>7 DEF linked

\* A variant that records its links leaves a spanning forest of the graph.
LEMMA ForestFound == UFInv /\ EdgesInv => ForestSpans
<1> SUFFICES ASSUME UFInv, EdgesInv, phase = "done"
             PROVE  /\ Components(Forest \cup Start) = Components(Graph)
                    /\ Cardinality({x \in Vertices : Edges[x] # empty_edge})
                         = Cardinality(Components(Start)) - Cardinality(Components(Graph))
  BY DEF ForestSpans, Forest, Start
<1>1. Components(Graph) = ClassesOf(Ancestor)
  BY GraphIsTrees
<1>2. load \in Workloads /\ load.ops \subseteq Ops /\ load.init \in [Vertices -> Vertices]
  BY UFAssumption DEF UFInv, UFTyped, Typed, UFTypeOK
<1>3. Forest \cup Start \in SUBSET Ops
  BY <1>2 DEF EdgesInv, Start, Ops
<1>4. ASSUME NEW e \in Forest \cup Start PROVE Same(e[1], e[2])
  <2>1. todo = {} /\ \A t \in Threads : op[t] = NoOp
    BY DEF UFInv, LastLoop, CallsInv
  <2>2. NoOp \notin load.ops
    BY <1>2, NoOpIsNoCall
  <2>3. CASE e \in Forest
    BY <2>1, <2>2, <2>3 DEF UFInv, CallsInv, EdgesInv
  <2>4. CASE e \in Start
    BY <2>4 DEF Start, UFInv, TreesGrow
  <2> QED
    BY <2>3, <2>4
<1>5. Components(Forest \cup Start) = ClassesOf(Ancestor)
  BY <1>3, <1>4, LinksAreTrees DEF EdgesInv
<1> QED
  BY <1>1, <1>5, ForestHasTheEdges

-----------------------------------------------------------------------------
(* The trees implement the abstract disjoint sets.                         *)

\* The set of a vertex is its tree.
LEMMA TreesAreSets ==
  /\ \A x \in Vertices : Sets!SetOf(x) = {z \in Vertices : Same(z, x)}
  /\ \A x, y \in Vertices : Sets!Together(x, y) <=> Same(x, y)
<1>1. ASSUME NEW x \in Vertices PROVE Sets!SetOf(x) = {z \in Vertices : Same(z, x)}
  <2> DEFINE c == {z \in Vertices : Same(z, x)}
  <2>1. c \in Trees /\ x \in c
    BY DEF Trees, Same
  <2>2. ASSUME NEW s \in Trees, x \in s PROVE s = c
    <3>1. PICK y \in Vertices : s = {z \in Vertices : Ancestor[z] = Ancestor[y]}
      BY DEF Trees
    <3> QED
      BY <2>2, <3>1 DEF Same
  <2> HIDE DEF c
  <2>3. (CHOOSE s \in Trees : x \in s) = c
    BY <2>1, <2>2
  <2> QED
    BY <2>3 DEF Sets!SetOf, c
<1>2. ASSUME NEW x \in Vertices, NEW y \in Vertices PROVE Sets!Together(x, y) <=> Same(x, y)
  BY <1>1 DEF Sets!Together, Same
<1> QED
  BY <1>1, <1>2

\* A link merges the sets of the arguments of the call, which were apart.
LEMMA LinkIsMerge ==
  ASSUME UFInv, PointsDown(parents'), NEW t \in Threads, JoinsTrees(t)
  PROVE  /\ op[t] \in load.ops /\ ~Sets!Together(op[t][1], op[t][2])
         /\ Trees' = Sets!Merged(op[t][1], op[t][2])
<1>1. PICK x, y \in Vertices : Joins(t, x, y)
  BY DEF JoinsTrees
<1> DEFINE a == op[t][1]
           b == op[t][2]
<1>2. /\ op[t] \in load.ops /\ a \in Vertices /\ b \in Vertices /\ parents[x] = x /\ y < x
      /\ (Same(x, a) /\ Same(y, b)) \/ (Same(x, b) /\ Same(y, a))
  BY <1>1, UFAssumption DEF Joins, UFInv, UFTyped, Typed, UFTypeOK, Ops
<1>3. /\ Ancestor' = [z \in Vertices |-> IF Ancestor[z] = x THEN Ancestor[y] ELSE Ancestor[z]]
      /\ Ancestor[x] = x
  <2>1. TreeStep(t)
    BY DEF TreeStep
  <2> QED
    BY <1>1, <2>1, TreesOnlyGrow DEF UFInv
<1>4. /\ RootMap(Ancestor, parents)
      /\ \A s \in Vertices : Sets!SetOf(s) = {z \in Vertices : Same(z, s)}
      /\ \A s, r \in Vertices : Sets!Together(s, r) <=> Same(s, r)
  BY ParentsHaveRoots, TreesAreSets DEF UFInv
<1>5. Ancestor[y] # x /\ Ancestor[y] \in Vertices
  BY <1>2, <1>4, UFAssumption DEF RootMap, Vertices
<1>6. ~Same(a, b)
  BY <1>2, <1>3, <1>5 DEF Same
<1> DEFINE tree(r) == {z \in Vertices : Same(z, r)}
           tree2(r) == {z \in Vertices : Ancestor'[z] = Ancestor'[r]}
<1>7. Trees = {tree(r) : r \in Vertices} /\ Trees' = {tree2(r) : r \in Vertices}
  BY DEF Trees, Same
<1>8. ASSUME NEW r \in Vertices
      PROVE  tree2(r) = IF Same(r, a) \/ Same(r, b) THEN tree(a) \cup tree(b) ELSE tree(r)
  BY <1>2, <1>3, <1>5 DEF Same
<1>9. \A r \in Vertices : tree(r) \in {tree(a), tree(b)} <=> Same(r, a) \/ Same(r, b)
  <2>1. \A r, s \in Vertices : tree(r) = tree(s) <=> Same(r, s)
    BY DEF Same
  <2> QED
    BY <1>2, <2>1
<1>10. Same(a, a)
  BY DEF Same
<1> HIDE DEF tree, tree2, a, b
<1>11. Trees' = (Trees \ {tree(a), tree(b)}) \cup {tree(a) \cup tree(b)}
  <2>1. ASSUME NEW s \in Trees' PROVE s \in (Trees \ {tree(a), tree(b)}) \cup {tree(a) \cup tree(b)}
    BY <1>7, <1>8, <1>9
  <2>2. ASSUME NEW s \in Trees, s \notin {tree(a), tree(b)} PROVE s \in Trees'
    BY <1>7, <1>8, <1>9, <2>2
  <2>3. tree(a) \cup tree(b) \in Trees'
    BY <1>2, <1>7, <1>8, <1>10
  <2> QED
    BY <2>1, <2>2, <2>3
<1>12. Sets!SetOf(a) = tree(a) /\ Sets!SetOf(b) = tree(b)
  BY <1>2, <1>4 DEF tree
<1>13. Trees' = Sets!Merged(a, b)
  BY <1>11, <1>12 DEF Sets!Merged
<1> QED
  BY <1>2, <1>4, <1>6, <1>13 DEF a, b

\* Every step of a thread is one of the abstract disjoint sets or changes none
\* of them: a call merges the sets of its arguments in one step, and returns
\* only once they are one.
LEMMA StepOfSets ==
  ASSUME UFInv, UFInv', NEW t \in Threads, Move(t), TreeStep(t), Merges(t)
  PROVE  [Sets!DSNext]_(Sets!dsVars)
<1>p. PointsDown(parents) /\ PointsDown(parents') /\ PointsDown(parents)' /\ UFTyped'
  BY DEF UFInv, PointsDown
<1>1. \/ Keeps(t)
      \/ Begins(t) /\ Uniting(t)'
      \/ Ends(t) /\ ~Uniting(t)'
  BY <1>p, CallSteps
<1>2. /\ op \in [Threads -> load.ops \cup {NoOp}] /\ NoOp \notin load.ops
      /\ todo \subseteq load.ops /\ load.ops \subseteq Ops
      /\ \A e \in Ops : e = <<e[1], e[2]>> /\ e[1] \in Vertices /\ e[2] \in Vertices
  BY NoOpIsNoCall, UFAssumption DEF UFInv, UFTyped, Typed, UFTypeOK, Ops
<1>3. \A s \in Threads : op[s] \notin todo /\ (s # t /\ op[s] = op[t] => op[s] = NoOp)
  BY DEF UFInv, CallsInv
<1>4. ~JoinsTrees(t) => Ancestor' = Ancestor /\ Trees' = Trees
  BY <1>p, TreesOnlyGrow DEF Trees
<1>5. op[t] # NoOp => op[t] \in Calling
  BY DEF Calling
<1>6. Keeps(t) => Calling' = Calling /\ todo' = todo
  BY DEF Keeps, Calling
<1>7. Ends(t) => Calling' = Calling \ {op[t]} /\ todo' = todo
  BY <1>2, <1>3 DEF Ends, Calling
<1>8. CASE JoinsTrees(t)
  <2>1. /\ op[t] \in load.ops /\ ~Sets!Together(op[t][1], op[t][2])
        /\ Trees' = Sets!Merged(op[t][1], op[t][2])
    BY <1>p, <1>8, LinkIsMerge
  <2>2. ~Begins(t)
    BY <1>2, <2>1 DEF Begins
  <2>3. Sets!Merge(op[t])
    BY <1>1, <1>2, <1>5, <1>6, <1>7, <2>1, <2>2 DEF Sets!Merge
  <2> QED
    BY <1>2, <2>1, <2>3 DEF Sets!DSNext
<1>9. CASE ~JoinsTrees(t) /\ Keeps(t)
  BY <1>4, <1>6, <1>9 DEF Sets!dsVars
<1>10. CASE ~JoinsTrees(t) /\ Begins(t)
  <2>1. PICK e \in todo : op[t] = NoOp /\ op' = [op EXCEPT ![t] = e] /\ todo' = todo \ {e}
    BY <1>10 DEF Begins
  <2>2. Calling' = Calling \cup {e}
    BY <1>2, <2>1 DEF Calling
  <2>3. Sets!Begin(e)
    BY <1>4, <1>10, <2>1, <2>2 DEF Sets!Begin
  <2> QED
    BY <1>2, <2>1, <2>3 DEF Sets!DSNext
<1>11. CASE ~JoinsTrees(t) /\ Ends(t)
  <2>1. CASE op[t] = NoOp
    <3>1. Calling' = Calling
      BY <1>7, <1>11, <2>1 DEF Calling
    <3> QED
      BY <1>4, <1>7, <1>11, <3>1 DEF Sets!dsVars
  <2>2. CASE op[t] # NoOp
    <3>1. op[t] \in load.ops /\ op[t] \in Ops
      BY <1>2, <2>2
    <3>2. Same(op[t][1], op[t][2])
      BY <1>4, <1>11, <3>1 DEF Ends, Same
    <3>3. Sets!Together(op[t][1], op[t][2])
      BY <1>2, <3>1, <3>2, TreesAreSets
    <3>4. Sets!Return(op[t])
      BY <1>4, <1>5, <1>7, <1>11, <2>2, <3>3 DEF Sets!Return
    <3> QED
      BY <3>1, <3>4 DEF Sets!DSNext
  <2> QED
    BY <2>1, <2>2
<1> QED
  BY <1>1, <1>8, <1>9, <1>10, <1>11

\* The barriers leave the sets and the calls alone.
LEMMA BarrierOfSets == ASSUME BarrierOrStutter PROVE UNCHANGED Sets!dsVars
<1>1. UNCHANGED <<parents, todo, op>>
  BY BarrierKeeps
<1>2. Ancestor' = Ancestor
  BY <1>1, AncestorIsRootOf
<1> QED
  BY <1>1, <1>2 DEF Sets!dsVars, Trees, Calling

-----------------------------------------------------------------------------
(* What follows at once for every variant.                                 *)

\* No parent lies in another component of the graph.
LEMMA ParentsInside == UFInv => ParentsStayInside
<1> SUFFICES ASSUME UFInv, NEW c \in Colourings, NEW x \in Vertices PROVE c[parents[x]] = c[x]
  BY DEF ParentsStayInside
<1> DEFINE S == {y \in Vertices : c[y] = c[x]}
<1>1. load \in Workloads /\ load.init \in [Vertices -> Vertices] /\ parents[x] \in Vertices
  BY UFAssumption DEF UFInv, UFTyped, Typed, UFTypeOK
<1>2. \A y, z \in Vertices : <<y, z>> \in Graph => c[y] = c[z]
  <2>1. ASSUME NEW y \in Vertices, NEW z \in Vertices, <<y, z>> \in load.ops PROVE c[y] = c[z]
    BY <2>1 DEF Colourings
  <2>2. ASSUME NEW y \in Vertices, NEW z \in Vertices, <<y, z>> \in {<<a, load.init[a]>> : a \in Vertices}
        PROVE c[y] = c[z]
    BY <2>2 DEF Colourings
  <2> QED
    BY <2>1, <2>2 DEF Graph
<1>3. S \in SUBSET Vertices /\ Near(S, Graph) = S
  BY <1>2 DEF Near
<1>4. x \in S
  OBVIOUS
<1>5. parents[x] \in S
  <2> HIDE DEF S
  <2> QED
    BY <1>3, <1>4 DEF UFInv, HoldsTrees, Encloses
<1> QED
  BY <1>5

\* A step of a thread makes a root of no vertex that was linked.
LEMMA LinksStay ==
  ASSUME UFInv, NEW t \in Threads, TreeStep(t), NEW x \in Vertices, parents[x] # x
  PROVE  parents'[x] # x
BY StepPointsDown, TreesOnlyGrow DEF UFInv
=============================================================================
