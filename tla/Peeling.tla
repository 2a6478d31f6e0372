------------------------------- MODULE Peeling -------------------------------
(***************************************************************************)
(* The peeling algorithms: each round takes out the vertices of least (or  *)
(* low enough) induced degree, counts for every other vertex how many      *)
(* neighbours it lost (nghCount of edge_map_reduce.h) and lowers its       *)
(* degree.  KCore and KCore_FA, DegeneracyOrder and Charikar's density     *)
(* over it (KCore.h, GreedyCharikar), the rounds of ApproxPeelingBKV12,    *)
(* and the orders of GoodrichPszona11 and BarenboimElkin08.  The buckets   *)
(* are what PriorityBuckets promises.                                      *)
(***************************************************************************)
EXTENDS SmallGraphs, Sequences, SequencesExt, FiniteSetsExt

CONSTANTS
  N,
  Graphs,        \* symmetric graphs on 0..(N - 1)
  Variants,      \* of "hist", "fa", "order", "bkv12", "goodrich", "intsort", "elkin"
  EpsNum, EpsDen \* epsilon

V == 0..(N - 1)
Null == N        \* null_bkt: larger than every degree

PeelingAssumption ==
  /\ N \in Nat \ {0} /\ EpsNum \in Nat /\ EpsDen \in Nat \ {0}
  /\ Variants \subseteq {"hist", "fa", "order", "bkv12", "goodrich", "intsort", "elkin"}
  /\ \A E \in Graphs : E = Sym(E) /\ E = NoLoops(E)

VARIABLES
  variant, graph,
  D,             \* the induced degrees
  ER,            \* KCore_FA: the removed edges counted and not yet applied
  bucket,        \* the bucket of each vertex, Null once it was returned
  removed,       \* the vertices peeled
  order,         \* the order they were peeled in, where the algorithm keeps one
  density,       \* max_density: <<edges, vertices>>
  moved,         \* the vertices the current round lowers: [v |-> count], and k
  phase          \* "peel", "lower", "sort" (BarenboimElkin08), "done" or "wrapped"

peelVars == <<variant, graph, D, ER, bucket, removed, order, density, moved, phase>>

Degree(E, v) == Cardinality(Ngh(E, v))
SumOver(S, f(_)) == FoldSet(LAMBDA x, acc : f(x) + acc, 0, S)
CeilDiv(a, b) == (a + b - 1) \div b
Minus(a, b) == (a - b) % 256     \* unsigned, the width cut down

\* How many neighbours in vs each vertex that passes cond has.  The sparse
\* version counts along the edges that leave vs, the dense one those of each
\* vertex that lead into vs.
CountSparse(E, vs, cond) ==
  [v \in cond |-> Cardinality({e \in E : e[1] \in vs /\ e[2] = v})]
CountDense(E, vs, cond) ==
  [v \in cond |-> Cardinality({e \in E : e[1] = v /\ e[2] \in vs})]
\* The threshold weighs the degrees of the vertices 0..(|vs| - 1), whichever
\* vertices vs holds.
NghCount(E, vs, cond) ==
  LET outDegrees == SumOver({v \in V : v < Cardinality(vs)}, LAMBDA v : Degree(E, v))
  IN IF Cardinality(vs) + outDegrees > Cardinality(E) \div 20
     THEN CountDense(E, vs, cond) ELSE CountSparse(E, vs, cond)

Init ==
  /\ variant \in Variants /\ graph \in Graphs
  /\ D = [v \in V |-> Degree(graph, v)]
  /\ ER = [v \in V |-> 0]
  /\ bucket = D
  /\ removed = {} /\ order = << >> /\ density = <<0, 1>>
  /\ moved = [k |-> 0, lost |-> << >>]
  /\ phase = "peel"

\* The round takes out vs, in one of the orders the filter may leave them in.
Take(vs, k, lost) ==
  /\ removed' = removed \cup vs
  /\ moved' = [k |-> k, lost |-> lost]
  /\ phase' = "lower"
Listed(vs) == CHOOSE s \in SetToSeqs(vs) : TRUE

\* next_bucket of KCore, KCore_FA and DegeneracyOrder.
NextBucket ==
  /\ phase = "peel" /\ variant \in {"hist", "fa", "order"} /\ removed # V
  /\ LET k == Least({bucket[v] : v \in V})
         active == {v \in V : bucket[v] = k}
     IN /\ bucket' = [v \in V |-> IF v \in active THEN Null ELSE bucket[v]]
        /\ IF variant = "order"
           THEN \E s \in SetToSeqs(active) : order' = order \o s
           ELSE order' = order
        /\ Take(active, k, CountSparse(graph, active, V))
  /\ UNCHANGED <<variant, graph, D, ER, density>>

\* apply_f of KCore and of DegeneracyOrder, and the new buckets.
\* Mutant: the degree may fall below the core that is being peeled.
Unfloored(v) == Minus(D[v], moved.lost[v])
Lowered(v) == LET left == Minus(D[v], moved.lost[v])
              IN IF left > moved.k THEN left ELSE moved.k
LowerCounted ==
  /\ phase = "lower" /\ variant \in {"hist", "order"}
  /\ LET hit == {v \in V : moved.lost[v] > 0 /\ D[v] > moved.k}
     IN /\ D' = [v \in V |-> IF v \in hit THEN Lowered(v) ELSE D[v]]
        /\ bucket' = [v \in V |-> IF v \in hit THEN D'[v] ELSE bucket[v]]
  /\ phase' = "peel"
  /\ UNCHANGED <<variant, graph, ER, removed, order, density, moved>>

\* KCore_FA counts with kcore_fetch_add: one edgeMap, sparse or dense.
\* update emits the vertex when its count becomes 1; updateAtomic when the
\* count fetch_and_add returns, the old one, is 1.
EmitsAt(dense) == IF dense THEN 0 ELSE 1
LowerFetchAdd ==
  /\ phase = "lower" /\ variant = "fa"
  /\ \E dense \in BOOLEAN :
       LET met == {v \in V : D[v] > moved.k /\ moved.lost[v] > 0}
           emitted == {v \in met : EmitsAt(dense) \in ER[v]..(ER[v] + moved.lost[v] - 1)}
           left(v) == Minus(D[v], ER[v] + moved.lost[v])
           lowered(v) == IF left(v) > moved.k THEN left(v) ELSE moved.k
       IN /\ D' = [v \in V |-> IF v \in emitted THEN lowered(v) ELSE D[v]]
          /\ ER' = [v \in V |-> IF v \in emitted THEN 0
                                ELSE IF v \in met THEN ER[v] + moved.lost[v] ELSE ER[v]]
          /\ bucket' = [v \in V |-> IF v \in emitted THEN D'[v] ELSE bucket[v]]
  /\ phase' = "peel"
  /\ UNCHANGED <<variant, graph, removed, order, density, moved>>

\* Density of the vertices that are left, edges in both directions counted,
\* and the vertices below (1 + eps) times it.
Denser(a, b) == IF a[1] * b[2] > b[1] * a[2] THEN a ELSE b
TooSparse(v, edges, left) ==
  D[v] * Cardinality(left) * EpsDen <= (EpsDen + EpsNum) * edges
Bkv12Round ==
  /\ phase = "peel" /\ variant \in {"bkv12", "elkin"} /\ removed # V
  /\ LET left == V \ removed
         edges == IF removed = {} THEN Cardinality(graph) ELSE SumOver(left, LAMBDA v : D[v])
         vs == {v \in left : TooSparse(v, edges, left)}
     IN /\ density' = Denser(<<edges, Cardinality(left)>>, density)
        /\ Take(vs, 0, NghCount(graph, vs, left \ vs))
  /\ UNCHANGED <<variant, graph, D, ER, bucket, order>>

\* GoodrichPszona11 peels what is not above the degree of some sampled vertex,
\* its integer sort variant the ns vertices of least degree.
ns == Greatest({CeilDiv(N * EpsNum, 2 * EpsDen + EpsNum), 1})
GoodrichRound ==
  /\ phase = "peel" /\ variant = "goodrich" /\ removed # V
  /\ \E w \in V \ removed :
       LET vs == {v \in V \ removed : D[v] <= D[w]}
       IN order' = order \o Listed(vs) /\ Take(vs, 0, CountSparse(graph, vs, V))
  /\ UNCHANGED <<variant, graph, D, ER, bucket, density>>
IntsortRound ==
  /\ phase = "peel" /\ variant = "intsort" /\ removed # V
  /\ LET left == V \ removed
         sorted == SetToSortSeq(left, LAMBDA a, b : D[a] < D[b] \/ (D[a] = D[b] /\ a < b))
         vs == {sorted[i] : i \in 1..Least({ns, Len(sorted)})}
     IN /\ order' = order \o SubSeq(sorted, 1, Least({ns, Len(sorted)}))
        /\ Take(vs, 0, CountSparse(graph, vs, V))
  /\ UNCHANGED <<variant, graph, D, ER, bucket, density>>

\* D[v] -= edgesRemoved, for the peeled vertices too where there is no cond.
LowerAll ==
  /\ phase = "lower" /\ variant \in {"bkv12", "goodrich", "intsort", "elkin"}
  /\ D' = [v \in V |-> IF v \in DOMAIN moved.lost THEN Minus(D[v], moved.lost[v]) ELSE D[v]]
  /\ phase' = IF variant = "elkin" /\ order # << >> THEN "sort" ELSE "peel"
  /\ UNCHANGED <<variant, graph, ER, bucket, removed, order, density, moved>>

\* BarenboimElkin08 takes the density of BKV12, and then sorts what is left by
\* whether the degree is below the cutoff: 0 before 1.
cutoff == Greatest({CeilDiv(density[1] * EpsNum, density[2] * EpsDen), 1})
ElkinStart ==
  /\ phase = "peel" /\ variant = "elkin" /\ removed = V
  /\ D' = [v \in V |-> Degree(graph, v)]
  /\ order' = [i \in 1..N |-> i - 1]
  /\ removed' = {} /\ phase' = "sort"
  /\ UNCHANGED <<variant, graph, ER, bucket, density, moved>>
Below(s) == SelectSeq(s, LAMBDA v : D[v] < cutoff)
SortedByCutoff(s) == SelectSeq(s, LAMBDA v : D[v] >= cutoff) \o Below(s)
ElkinRound ==
  /\ phase = "sort" /\ removed # V
  /\ LET start == Cardinality(removed)
         sorted == SubSeq(order, 1, start) \o SortedByCutoff(SubSeq(order, start + 1, N))
         \* the index of the last one below the cutoff, 0 when there is none
         last == Greatest({0} \cup {i - 1 : i \in {j \in (start + 1)..N : D[sorted[j]] < cutoff}})
         end == IF last = start THEN last + 1 ELSE last
         vs == {sorted[i] : i \in (start + 1)..end}
     IN /\ order' = sorted
        /\ IF end < start          \* the size end - start wraps around
           THEN phase' = "wrapped" /\ UNCHANGED <<removed, moved>>
           ELSE Take(vs, 0, CountSparse(graph, vs, V))
  /\ UNCHANGED <<variant, graph, D, ER, bucket, density>>

Done ==
  /\ removed = V /\ phase' = "done"
  /\ \/ phase = "peel" /\ variant # "elkin"
     \/ phase = "sort"
  /\ UNCHANGED <<variant, graph, D, ER, bucket, removed, order, density, moved>>

Next == \/ NextBucket \/ LowerCounted \/ LowerFetchAdd \/ Bkv12Round
        \/ GoodrichRound \/ IntsortRound \/ LowerAll
        \/ ElkinStart \/ ElkinRound \/ Done
Spec == Init /\ [][Next]_peelVars
FairSpec == Spec /\ WF_peelVars(Next)

-----------------------------------------------------------------------------
\* CharikarAppxDensestSubgraph: density_above over the order, scanned from the
\* end, and the densest suffix.
CharikarDensity(E, s) ==
  LET position(v) == CHOOSE i \in 1..N : s[i] = v
      above(i) == 2 * Cardinality({u \in Ngh(E, s[i]) : i < position(u)})
      suffix[i \in 1..(N + 1)] == IF i > N THEN 0 ELSE above(i) + suffix[i + 1]
  IN FoldSet(LAMBDA i, best : Denser(<<suffix[i], N + 1 - i>>, best), <<0, 1>>, 1..N)

-----------------------------------------------------------------------------
Inside(E, S) == Cardinality({e \in E : e[1] \in S /\ e[2] \in S})
\* The greatest k such that v is in a subgraph whose degrees are all at least k.
Cores(E) ==
  [v \in V |-> Greatest({k \in 0..N : \E S \in SUBSET V :
     v \in S /\ \A u \in S : Cardinality(Ngh(E, u) \cap S) >= k})]
Densest(E) == FoldSet(LAMBDA S, best : Denser(<<Inside(E, S), Cardinality(S)>>, best),
                      <<0, 1>>, (SUBSET V) \ {{}})

\* KCore returns the coreness of every vertex: a vertex whose degree is lowered
\* late, or below the core being peeled, comes out with another number.
CoresRight == (phase = "done" /\ variant \in {"hist", "order"}) => D = Cores(graph)
\* What the -fa option says of KCore_FA: it is an implementation of k-core.
FetchAddCoresRight == (phase = "done" /\ variant = "fa") => D = Cores(graph)

\* Between rounds the induced degree of a vertex is its number of neighbours
\* that are left, or the core it is held at; it never wraps below zero, and a
\* vertex that was peeled is not peeled again.
DegreesInduced ==
  (phase \in {"peel", "sort"} /\ variant # "fa") =>
    \A v \in V \ removed :
      LET left == Cardinality(Ngh(graph, v) \ removed)
      IN /\ D[v] = IF variant \in {"hist", "order"} /\ left < moved.k THEN moved.k ELSE left
         /\ variant \in {"hist", "order"} => bucket[v] = D[v]

\* What the comment of BarenboimElkin08 says: the vertices below the cutoff
\* are moved to the front, and so peeled before the others.  No run checks it, as
\* the code does not keep it: the sort's key is 1 for those, and they go last.
BelowCutoffFirst ==
  [][(phase = "sort" /\ phase' = "lower" /\ \E v \in V \ removed : D[v] < cutoff)
       => \A v \in removed' \ removed : D[v] < cutoff]_peelVars

\* In the degeneracy order no vertex has more later neighbours than the
\* largest core, and every order names each vertex once.
OrderDegenerate ==
  (phase = "done" /\ variant = "order") =>
    \A i \in 1..N :
      Cardinality({j \in (i + 1)..N : order[j] \in Ngh(graph, order[i])})
        <= Greatest({Cores(graph)[v] : v \in V})

\* Charikar's density and that of BKV12 are those of real subgraphs, at least
\* 1/2 and 1/(2(1 + eps)) of the densest.
DensityApproximates ==
  phase = "done" =>
    LET best == Densest(graph) IN
    /\ variant = "order" =>
         LET c == CharikarDensity(graph, order)
         IN c[1] * best[2] <= best[1] * c[2] /\ 2 * c[1] * best[2] >= best[1] * c[2]
    /\ variant = "bkv12" =>
         /\ density[1] * best[2] <= best[1] * density[2]
         /\ 2 * (EpsDen + EpsNum) * density[1] * best[2] >= EpsDen * best[1] * density[2]

\* Every round takes out a vertex, so the peeling ends (or wraps, see ElkinRound).
Terminates == <>(phase \in {"done", "wrapped"})
=============================================================================
