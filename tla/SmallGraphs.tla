----------------------------- MODULE SmallGraphs -----------------------------
(***************************************************************************)
(* Graphs as the algorithms see them, and the reference definitions their  *)
(* answers are compared with: a graph on the vertices 0..(n - 1) is a set  *)
(* of ordered pairs, a symmetric graph holds both pairs of an edge.        *)
(***************************************************************************)
EXTENDS Naturals, FiniteSets

Least(S) == CHOOSE x \in S : \A y \in S : x <= y
Greatest(S) == CHOOSE x \in S : \A y \in S : y <= x

Ngh(E, v) == {e[2] : e \in {f \in E : f[1] = v}}
InNgh(E, v) == {e[1] : e \in {f \in E : f[2] = v}}
Sym(E) == E \cup {<<e[2], e[1]>> : e \in E}
NoLoops(E) == {e \in E : e[1] # e[2]}
\* Every symmetric graph on the vertices V.
SymGraphs(V) == {Sym(E) : E \in SUBSET {e \in V \X V : e[1] < e[2]}}

\* The vertices reachable from the set S in at most k steps, and in any number.
Within(E, S, k) ==
  LET ball[i \in 0..k] ==
        IF i = 0 THEN S ELSE UNION {{v} \cup Ngh(E, v) : v \in ball[i - 1]}
  IN ball[k]
Reach(V, E, S) == Within(E, S, Cardinality(V))

\* The component of each vertex of a symmetric graph, and its least member.
Component(V, E) == [v \in V |-> Reach(V, E, {v})]
Components(V, E) == {Reach(V, E, {v}) : v \in V}
MinLabels(V, E) == [v \in V |-> Least(Reach(V, E, {v}))]
\* Two labellings (functions on V) that put the same vertices together.
SamePartition(V, f, g) == \A x, y \in V : f[x] = f[y] <=> g[x] = g[y]
\* f never joins vertices that g keeps apart.
Refines(V, f, g) == \A x, y \in V : f[x] = f[y] => g[x] = g[y]

\* F is a set of edges of E without a cycle, and one that joins every component.
IsForest(V, F) ==
  Cardinality(F) + Cardinality(Components(V, Sym(F))) = Cardinality(V)
IsSpanningForest(V, E, F) ==
  /\ F \subseteq E /\ IsForest(V, F)
  /\ Components(V, Sym(F)) = Components(V, E)

\* Hops from the set S; Cardinality(V) stands for unreachable.
Hops(V, E, S) ==
  [v \in V |-> IF v \in Reach(V, E, S)
               THEN Least({k \in 0..Cardinality(V) : v \in Within(E, S, k)})
               ELSE Cardinality(V)]

\* Where following the parents p from x ends: a vertex that is its own parent.
Root(p, x) ==
  LET climb[k \in 0..Cardinality(DOMAIN p)] == IF k = 0 THEN x ELSE p[climb[k - 1]]
  IN climb[Cardinality(DOMAIN p)]
=============================================================================
