--------------------------- MODULE NeighborCounts ---------------------------
(***************************************************************************)
(* Counting and reducing over the neighbours of a frontier                 *)
(* (gbbs/edge_map_reduce.h), and the vertex subsets with data they return  *)
(* (gbbs/vertex_subset.h).  The sparse forms copy the one-hop              *)
(* neighbourhood into an array, with an empty key where the target is not  *)
(* wanted, and count its keys with the histogram, given here by what it    *)
(* returns (module Histogram); the dense forms let every vertex read its   *)
(* own neighbours.  A threshold decides which one runs, so both must say   *)
(* the same.  In a parallel loop every vertex writes its own cells.        *)
(***************************************************************************)
EXTENDS SmallGraphs, Integers, SequencesExt

CONSTANTS
  V, Graphs,
  CountThreshold   \* what stands for G.m / 20

NeighborCountsAssumption == V \subseteq Nat /\ CountThreshold \in Nat

VARIABLES
  graph,
  vs,              \* the frontier: a list without repeats
  fl,              \* the flags, of in_edges and no_output
  wanted, kept,    \* the vertices cond_f accepts, and those apply_f returns a value for
  op,              \* the call, or "none"
  x,               \* the vertex subset it returned, as it is now
  applied,         \* the <<vertex, value>> that apply_f was called with
  promised         \* the pairs x must hold

countVars == <<graph, vs, fl, wanted, kept, op, x, applied, promised>>

n == Cardinality(V)
EMPTY == Greatest(V) + 1
Ascending(S) == SetToSortSeq(S, <)
Nghs(v) == IF "in_edges" \in fl THEN InNgh(graph, v) ELSE Ngh(graph, v)
Frontier == ToSet(vs)

-----------------------------------------------------------------------------
\* vertexSubsetData<data>: a list s of <<vertex, data>>, or flags and data d for
\* every vertex; a conversion keeps what was there.
Empty(rows) == [n |-> rows, m |-> 0, s |-> <<>>, d |-> <<>>, reps |-> {}, isDense |-> FALSE]
Sparse(pairs) == [n |-> n, m |-> Len(pairs), s |-> pairs, d |-> <<>>, reps |-> {"s"},
                  isDense |-> FALSE]
Dense(out) == [n |-> n, m |-> Cardinality({v \in V : out[v][1]}), s |-> <<>>, d |-> out,
               reps |-> {"d"}, isDense |-> TRUE]
ToSparse(y) ==
  LET members == Ascending({v \in DOMAIN y.d : y.d[v][1]})
  IN IF "s" \notin y.reps /\ y.m > 0
     THEN [y EXCEPT !.s = [i \in DOMAIN members |-> <<members[i], y.d[members[i]][2]>>],
                    !.reps = @ \cup {"s"}, !.isDense = FALSE]
     ELSE [y EXCEPT !.isDense = FALSE]
ToDense(y) ==
  LET flags == [v \in {v \in V : v < y.n} |->
                  IF \E i \in DOMAIN y.s : y.s[i][1] = v
                  THEN <<TRUE, y.s[CHOOSE i \in DOMAIN y.s : y.s[i][1] = v][2]>>
                  ELSE <<FALSE, 0>>]
  IN IF "d" \notin y.reps THEN [y EXCEPT !.d = flags, !.reps = @ \cup {"d"}, !.isDense = TRUE]
     ELSE [y EXCEPT !.isDense = TRUE]
\* get_fn_repr over 0..n or 0..size, and vertexMap: the pairs a caller is shown.
Shown(y) == IF y.isDense THEN {<<v, y.d[v][2]>> : v \in {v \in DOMAIN y.d : y.d[v][1]}}
            ELSE ToSet(y.s)

-----------------------------------------------------------------------------
\* edgeMapInduced: from its offset on, each vertex of the frontier copies its
\* neighbours as <<key, value>>.
Key(u) == IF u \in wanted THEN u ELSE EMPTY
edgeMapInduced(map_f) ==
  LET degree == [i \in DOMAIN vs |-> Cardinality(Nghs(vs[i]))]
      offset[i \in 0..Len(vs)] == IF i = 0 THEN 0 ELSE offset[i - 1] + degree[i]
      copy(i, k) == LET u == Ascending(Nghs(vs[i]))[k] IN <<Key(u), map_f[vs[i]]>>
  IN [e \in 1..offset[Len(vs)] |->
        LET i == CHOOSE i \in DOMAIN vs : offset[i - 1] < e /\ e <= offset[i]
        IN copy(i, e - offset[i - 1])]

\* histogram and histogram_reduce: the pairs apply_f is called with.
RECURSIVE SumOf(_)
SumOf(vals) == IF vals = <<>> THEN 0 ELSE vals[1] + SumOf(Tail(vals))
Reduced(edges) ==
  {<<k, SumOf([i \in DOMAIN SelectSeq(edges, LAMBDA e : e[1] = k) |->
                 SelectSeq(edges, LAMBDA e : e[1] = k)[i][2]])>> :
     k \in {e[1] : e \in ToSet(edges)} \ {EMPTY}}
Kept(pairs) == {p \in pairs : p[1] \in kept}
AsList(pairs) == SetToSortSeq(pairs, LAMBDA a, b : a[1] < b[1])

\* edgeMapCount_sparse, of the function and of the struct EdgeMap: no_output is
\* not looked at.  An empty frontier returns a subset of no rows.
EdgeMapCountSparse ==
  LET pairs == Reduced(edgeMapInduced([v \in V |-> 1]))
  IN IF vs = <<>> THEN [x |-> Empty(0), applied |-> {}]
     ELSE [x |-> Sparse(AsList(Kept(pairs))), applied |-> pairs]
\* edgeMapCount_dense: a vertex with a neighbour in the frontier is applied.
EdgeMapCountDense ==
  LET count(u) == Cardinality({v \in Nghs(u) : v \in Frontier})
      pairs == {<<u, count(u)>> : u \in {u \in wanted : count(u) > 0}}
      out == [u \in V |-> IF u \in wanted /\ count(u) > 0 THEN <<u \in kept, count(u)>>
                          ELSE <<FALSE, 0>>]
  IN IF vs = <<>> THEN [x |-> Empty(0), applied |-> {}]
     ELSE [x |-> IF "no_output" \in fl THEN Empty(n) ELSE Dense(out), applied |-> pairs]

\* The function sums the degrees of the first vertices of the graph, the struct
\* those of the frontier.
RECURSIVE DegreeSum(_, _)
DegreeSum(vtx, i) == IF i = 0 THEN 0 ELSE Cardinality(Nghs(vtx[i])) + DegreeSum(vtx, i - 1)
EdgeMapCountOf(vtx) ==
  IF Len(vs) + DegreeSum(vtx, Len(vs)) > CountThreshold
  THEN EdgeMapCountDense ELSE EdgeMapCountSparse
EdgeMapCountFree == EdgeMapCountOf(Ascending(V))
EdgeMapCountStruct == EdgeMapCountOf(vs)

\* edgeMapReduce_sparse over the frontier, edgeMapReduce_dense over all of a
\* vertex's neighbours, whatever the frontier, and for a vertex without any too.
Value(v) == v + 1
EdgeMapReduceSparse ==
  LET pairs == Reduced(edgeMapInduced([v \in V |-> Value(v)]))
  IN IF vs = <<>> THEN [x |-> Empty(0), applied |-> {}]
     ELSE [x |-> IF "no_output" \in fl THEN Empty(n) ELSE Sparse(AsList(Kept(pairs))),
           applied |-> pairs]
EdgeMapReduceDense ==
  LET sum(u) == LET l == Ascending(Nghs(u)) IN SumOf([i \in DOMAIN l |-> Value(l[i])])
  IN IF vs = <<>> THEN [x |-> Empty(0), applied |-> {}]
     ELSE [x |-> IF "no_output" \in fl THEN Empty(n)
                 ELSE Dense([u \in V |-> <<u \in wanted \cap kept,
                                           IF u \in wanted \cap kept THEN sum(u) ELSE 0>>]),
           applied |-> {<<u, sum(u)>> : u \in wanted}]

-----------------------------------------------------------------------------
Nothing == Empty(n)
Init ==
  /\ graph \in Graphs
  /\ vs \in {Ascending(S) : S \in SUBSET V}
  /\ fl \in SUBSET {"in_edges", "no_output"}
  /\ wanted \in {V, V \ {Least(V)}} /\ kept \in {V, V \ {Greatest(V)}}
  /\ op = "none" /\ x = Nothing /\ applied = {} /\ promised = {}

Symmetric == graph = Sym(graph)
Call(o, r) ==
  /\ op = "none" /\ op' = o /\ x' = r.x /\ applied' = r.applied
  /\ promised' = IF r.x.m = 0 /\ "no_output" \in fl THEN {} ELSE Kept(r.applied)
  /\ UNCHANGED <<graph, vs, fl, wanted, kept>>

\* The graphs the callers count on are symmetric.
CountSparse == Symmetric /\ Call("count", EdgeMapCountSparse)
CountDense == Symmetric /\ Call("count", EdgeMapCountDense)
CountFree == Symmetric /\ Call("count", EdgeMapCountFree)
CountStruct == Symmetric /\ wanted = V /\ Call("count", EdgeMapCountStruct)
ReduceSparse == Symmetric /\ wanted = V /\ Frontier = V /\ Call("reduce", EdgeMapReduceSparse)
ReduceDense == Call("reduce", EdgeMapReduceDense)

\* What is done with the subset then.
Convert ==
  /\ op # "none" /\ x' \in {ToSparse(x), ToDense(x)}
  /\ UNCHANGED <<graph, vs, fl, wanted, kept, op, applied, promised>>
\* vertexFilter_dense and vertexFilter_sparse convert and read what is left; the
\* data are stripped.
VertexFilter == \E keep \in {V \ {v} : v \in V} :
  LET dense == {p[1] : p \in Shown(ToDense(x))} \cap keep
      sparse == SelectSeq(ToSparse(x).s, LAMBDA p : p[1] \in keep)
  IN /\ op \notin {"none", "filter"} /\ op' = "filter"
     /\ x' = IF x.isDense THEN [Dense([v \in V |-> <<v \in dense, 0>>]) EXCEPT !.n = x.n]
             ELSE IF x.m = 0 THEN Empty(x.n)
             ELSE [Sparse([i \in DOMAIN sparse |-> <<sparse[i][1], 0>>]) EXCEPT !.n = x.n]
     /\ promised' = {<<p[1], 0>> : p \in {q \in promised : q[1] \in keep}}
     /\ UNCHANGED <<graph, vs, fl, wanted, kept, applied>>
Again ==
  /\ op # "none" /\ op' = "none" /\ x' = Nothing /\ applied' = {} /\ promised' = {}
  /\ UNCHANGED <<graph, vs, fl, wanted, kept>>

Next == CountSparse \/ CountDense \/ CountFree \/ CountStruct \/ ReduceSparse \/ ReduceDense
        \/ Convert \/ VertexFilter \/ Again
Spec == Init /\ [][Next]_countVars
-----------------------------------------------------------------------------
\* Sparse or dense, apply_f is called once for every wanted vertex with a
\* neighbour in the frontier, with how many there are; a reduction with the sum
\* over its neighbours.
CountsAgree ==
  LET hits(u) == Cardinality({v \in Frontier : <<v, u>> \in graph})
      sum(u) == LET l == Ascending(Nghs(u)) IN SumOf([i \in DOMAIN l |-> Value(l[i])])
  IN /\ op = "count" => applied = {<<u, hits(u)>> : u \in {u \in wanted : hits(u) > 0}}
     /\ op = "reduce" /\ vs # <<>> =>
          \A u \in wanted : Nghs(u) # {} => {p \in applied : p[1] = u} = {<<u, sum(u)>>}

\* However often the subset was converted and filtered, it shows the pairs that
\* apply_f returned, in either representation, and knows how many they are.
SubsetsShow ==
  /\ Shown(x) = promised
  /\ x.m = Cardinality(promised)
  /\ "s" \in x.reps => ToSet(x.s) = promised /\ Len(x.s) = x.m
=============================================================================
