-------------------------- MODULE SearchAndContract --------------------------
(***************************************************************************)
(* Components and spanning forests by breadth-first searches, and by       *)
(* contracting what searches from many centers find.                       *)
(*                                                                         *)
(* The breadth-first searches: BFS from a source, the components of BFSCC  *)
(* and the two spanning forests of BFSSF, one search after another from    *)
(* the vertices that are still unset.  A round is an edgeMap (see EdgeMap):*)
(* every unset vertex with a neighbour in the frontier is won by one of    *)
(* them, in the deterministic forest by the least.                         *)
(*                                                                         *)
(* Contraction (benchmarks/Connectivity/WorkEfficientSDB14 and             *)
(* SpanningForest/SDB14 with gbbs/contract.h): a level decomposes its graph*)
(* (the decomposition itself is LowDiameter), relabels the clusters,       *)
(* contracts them without the ones that have no edge out, and recurs; the  *)
(* labels are mapped back on the way up.  Levels run one after the other;  *)
(* within one, the parallel insertions leave open which edge stands for a  *)
(* pair of clusters.                                                       *)
(***************************************************************************)
EXTENDS SmallGraphs, Sequences

CONSTANTS
  N,
  Graphs,       \* directed graphs; symmetric ones where the algorithm wants them
  Variants      \* a subset of {"bfs", "cc", "sf", "sf_det", "contract"}

V == 0..(N - 1)
UNSET == N      \* UINT_E_MAX

SearchAndContractAssumption ==
  N \in Nat \ {0} /\ Variants \subseteq {"bfs", "cc", "sf", "sf_det", "contract"}

VARIABLES
  variant, graph,
  i,               \* the vertex the next search starts from
  src,             \* the source of the current search
  parents,         \* parents, or labels in BFSCC
  visited,         \* SpanningForestDet
  Frontier,
  n, G,            \* the graph of the current level, on 0..(n - 1)
  edge_mapping,    \* the original edge an edge of this level stands for
  stack,           \* per level above: its clusters, flags and mapping
  forest,          \* the tree edges of every level, original edges
  labels,          \* what CC_impl of the level below returned
  phase            \* "next", "search", "down", "up" or "done"

searchVars == <<i, src, parents, visited, Frontier>>
levelVars == <<n, G, edge_mapping, stack, forest, labels>>
vars == <<variant, graph, searchVars, levelVars, phase>>

Init ==
  /\ variant \in Variants /\ graph \in Graphs
  /\ variant # "bfs" => graph = Sym(graph)
  /\ i = 0 /\ src = 0 /\ Frontier = {} /\ visited = {}
  /\ parents = [v \in V |-> UNSET]
  /\ n = N /\ G = graph
  /\ edge_mapping = [e \in graph |-> e]
  /\ stack = <<>> /\ forest = {} /\ labels = <<>>
  /\ phase = IF variant = "contract" THEN "down" ELSE "next"

-----------------------------------------------------------------------------
(* Searches.                                                               *)

\* The loop over the vertices.  BFSCC leaves a vertex without edges alone.
Searches == parents[i] = UNSET /\ (variant = "cc" => Ngh(graph, i) # {})
NextSource ==
  /\ phase = "next" /\ i < (IF variant = "bfs" THEN 1 ELSE N)
  /\ IF Searches
     THEN /\ parents' = [parents EXCEPT ![i] = i]
          /\ visited' = visited \cup {i}
          /\ Frontier' = {i} /\ src' = i /\ phase' = "search"
     ELSE UNCHANGED <<parents, visited, Frontier, src, phase>>
  /\ i' = i + 1
  /\ UNCHANGED <<variant, graph, levelVars>>

Targets == {v \in V : parents[v] = UNSET /\ InNgh(graph, v) \cap Frontier # {}}
Winners(v) == IF variant = "sf_det" THEN {Least(InNgh(graph, v) \cap Frontier)}
              ELSE InNgh(graph, v) \cap Frontier
Round ==
  /\ phase = "search" /\ Frontier # {}
  /\ \E by \in [Targets -> Frontier] :
       /\ \A v \in Targets : by[v] \in Winners(v)
       /\ parents' = [v \in V |-> IF v \notin Targets THEN parents[v]
                                  ELSE IF variant = "cc" THEN src ELSE by[v]]
  /\ visited' = visited \cup Targets
  /\ Frontier' = Targets
  /\ UNCHANGED <<variant, graph, i, src, phase, levelVars>>
EndSearch ==
  /\ phase = "search" /\ Frontier = {}
  /\ phase' = "next"
  /\ UNCHANGED <<variant, graph, searchVars, levelVars>>
Finish ==
  /\ phase = "next" /\ i = (IF variant = "bfs" THEN 1 ELSE N)
  /\ phase' = "done"
  /\ UNCHANGED <<variant, graph, searchVars, levelVars>>

-----------------------------------------------------------------------------
(* Decomposition and contraction.                                          *)

\* What LDD_edges may return: rooted trees of edges, and the first center,
\* vertex 0 unless the vertices are permuted, takes all of its neighbours.
Decompositions(vs) ==
  {p \in [vs -> vs] :
     /\ \A v \in vs : p[v] = v \/ <<v, p[v]>> \in G
     /\ \A v \in vs : p[Root(p, v)] = Root(p, v)
     /\ \E c \in (IF stack = <<>> THEN {0} ELSE vs) :
          p[c] = c /\ \A u \in Ngh(G, c) : p[u] = c}

\* RelabelIds: the rank of each identifier among those in use.
RelabelIds(ids) ==
  LET used == {ids[v] : v \in DOMAIN ids}
  IN [v \in DOMAIN ids |-> Cardinality({u \in used : u < ids[v]})]

\* The pairs of clusters that fetch_intercluster puts in its table.
Intercluster(clusters) ==
  {<<clusters[e[1]], clusters[e[2]]>> : e \in {f \in G : clusters[f[1]] < clusters[f[2]]}}

\* contract: flags counts the clusters with an edge out before each cluster.
Flags(es, num) ==
  LET ends == UNION {{e[1], e[2]} : e \in es}
  IN [k \in 0..num |-> Cardinality({c \in ends : c < k})]
Mapping(flags, num) ==
  [k \in 0..(flags[num] - 1) |-> CHOOSE c \in 0..(num - 1) : flags[c] = k /\ flags[c + 1] # k]

\* new_edge_mapping: the table holds (min, max) pairs.
Original(table, e) == table[<<Least({e[1], e[2]}), Greatest({e[1], e[2]})>>]

Descend ==
  /\ phase = "down"
  /\ \E p \in Decompositions(0..(n - 1)) :
       LET clusters == RelabelIds([v \in 0..(n - 1) |-> Root(p, v)])
           num == Cardinality({clusters[v] : v \in DOMAIN clusters})
           es == Intercluster(clusters)
           flags == Flags(es, num)
           GC == Sym({<<flags[e[1]], flags[e[2]]>> : e \in es})
           from(c) == {e \in G : <<clusters[e[1]], clusters[e[2]]>> = c}
       IN /\ forest' = forest \cup {edge_mapping[<<p[v], v>>] : v \in {w \in DOMAIN p : p[w] # w}}
          /\ \E pick \in [es -> G] :
               /\ \A c \in es : pick[c] \in from(c)
               /\ edge_mapping' =
                    LET table == [e \in {<<flags[c[1]], flags[c[2]]>> : c \in es} |->
                          edge_mapping[pick[CHOOSE c \in es : <<flags[c[1]], flags[c[2]]>> = e]]]
                    IN [e \in GC |-> Original(table, e)]
          /\ n' = flags[num] /\ G' = GC
          /\ IF GC = {} THEN labels' = clusters /\ phase' = "up" /\ UNCHANGED stack
             ELSE /\ stack' = Append(stack, [clusters |-> clusters, flags |-> flags,
                                             mapping |-> Mapping(flags, num)])
                  /\ UNCHANGED <<labels, phase>>
  /\ UNCHANGED <<variant, graph, searchVars>>

MappedBack(f, c) == f.mapping[labels[f.flags[c]]]

Ascend ==
  /\ phase = "up"
  /\ IF stack = <<>> THEN phase' = "done" /\ UNCHANGED <<stack, labels>>
     ELSE LET f == stack[Len(stack)]
          IN /\ labels' = [v \in DOMAIN f.clusters |->
                  LET c == f.clusters[v]
                  IN IF f.flags[c] # f.flags[c + 1] THEN MappedBack(f, c) ELSE c]
             /\ stack' = SubSeq(stack, 1, Len(stack) - 1)
             /\ UNCHANGED phase
  /\ UNCHANGED <<variant, graph, searchVars, n, G, edge_mapping, forest>>

Next == NextSource \/ Round \/ EndSearch \/ Finish \/ Descend \/ Ascend
Spec == Init /\ [][Next]_vars
FairSpec == Spec /\ WF_vars(Next)

-----------------------------------------------------------------------------
Roots == {v \in V : parents[v] = v}
TreeEdges == {<<parents[v], v>> : v \in {u \in V : parents[u] \notin {u, UNSET}}}

\* A tree edge goes from one level of the search to the next: the parents are
\* those of shortest paths, whoever won the races.
TreesShortest ==
  variant \notin {"cc", "contract"} =>
    /\ TreeEdges \subseteq graph
    /\ \A v \in V : parents[v] \notin {v, UNSET} =>
         Hops(V, graph, Roots)[v] = Hops(V, graph, Roots)[parents[v]] + 1

\* In the end exactly what can be reached has a parent, the forests span every
\* component with its least vertex as the root, and the labels of BFSCC are
\* the components, of vertices that have edges.
SearchComplete ==
  phase = "done" =>
    /\ variant = "bfs" => {v \in V : parents[v] # UNSET} = Reach(V, graph, {0})
    /\ variant \in {"sf", "sf_det"} =>
         /\ Cardinality(TreeEdges) + Cardinality(Roots) = N
         /\ Components(V, Sym(TreeEdges)) = Components(V, graph)
         /\ Roots = {Least(C) : C \in Components(V, graph)}
    /\ variant = "cc" => \A v \in V : Ngh(graph, v) # {} => parents[v] = MinLabels(V, graph)[v]
\* The deterministic forest depends on the graph alone.
Deterministic ==
  (phase = "done" /\ variant = "sf_det") =>
    \A v \in V : parents[v] = v \/ parents[v] =
      Least({u \in Ngh(graph, v) : Hops(V, graph, Roots)[u] + 1 = Hops(V, graph, Roots)[v]})

\* What the comment on BFS_ComponentLabel says of the labels: i --> i, if i is
\* not reached, so that no two components share a label.  No run checks it, as
\* the code does not keep it: a vertex without edges keeps UNSET as its label.
IsolatedLabelled ==
  (phase = "done" /\ variant = "cc") => SamePartition(V, parents, MinLabels(V, graph))

\* The labels mapped back through every level are the components: the label
\* of a contracted component never collides with that of a cluster left out.
ComponentsFound ==
  phase = "done" /\ variant = "contract" => SamePartition(V, labels, MinLabels(V, graph))

\* The tree edges of all levels, mapped to original edges, are a forest at
\* every level and span the graph in the end.
ForestGrows == IsForest(V, forest) /\ forest \subseteq graph
ForestFound ==
  phase = "done" /\ variant = "contract" => IsSpanningForest(V, graph, forest)

\* Every round sets a vertex or ends its search; each level of a contraction
\* below the first contracts an edge, so that the recursion ends.
Terminates == <>(phase = "done")
=============================================================================
