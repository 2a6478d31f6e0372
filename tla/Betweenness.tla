----------------------------- MODULE Betweenness -----------------------------
(***************************************************************************)
(* Single-source betweenness (benchmarks/SSBetweenessCentrality/Brandes):  *)
(* a forward search counts the shortest paths level by level, a backward   *)
(* one adds up the dependencies.  Variants: "edgemap" adds with edgeMap in *)
(* both directions, "bfs" searches first and then reduces the neighbours   *)
(* of each new vertex, "em" adds with edgeMapReduce_dense where the        *)
(* frontier is large.  Of edgeMapData only what decides whether it runs is *)
(* kept: a frontier caches the degrees it summed up (see EdgeMap).         *)
(* Fractions are multiples of 1 / Scale.                                   *)
(***************************************************************************)
EXTENDS SmallGraphs, Sequences, Integers, FiniteSetsExt

CONSTANTS
  N,
  Graphs,      \* the part of the graph around the source
  Elsewhere,   \* numbers of edges, and of vertices, in components of no interest
  Scale,       \* a multiple of every number of shortest paths
  BCVariants   \* a subset of {"edgemap", "bfs", "em"}

V == 0..(N - 1)
start == 0

BCAssumption ==
  /\ N \in Nat \ {0} /\ Scale \in Nat \ {0} /\ Elsewhere \subseteq Nat
  /\ BCVariants \subseteq {"edgemap", "bfs", "em"}

VARIABLES
  variant, graph, elsewhere,
  NumPaths, Visited, Dependencies,
  Frontier,     \* [vs, dense, out_degrees]; out_degrees is -1 when it is not cached
  Levels,       \* the frontiers, copied with what they cache
  round, phase  \* "forward", "back" or "done"

bcVars == <<variant, graph, elsewhere, NumPaths, Visited, Dependencies, Frontier, Levels,
            round, phase>>

Total(S, f(_)) == FoldSet(LAMBDA x, acc : f(x) + acc, 0, S)

Init ==
  /\ variant \in BCVariants /\ graph \in Graphs /\ elsewhere \in Elsewhere
  /\ NumPaths = [v \in V |-> IF v = start THEN 1 ELSE 0]
  /\ Visited = {start}
  /\ Dependencies = [v \in V |-> 0]
  /\ Frontier = [vs |-> {start}, dense |-> FALSE, out_degrees |-> -1]
  /\ Levels = << >> /\ round = 0 /\ phase = "forward"

\* edgeMapData, up to the choice of the map: a dense frontier of more than a
\* tenth of the vertices goes on at once; otherwise the degree sum it cached
\* before is used, whatever direction it was summed up in.
Scans(x) == x.dense /\ Cardinality(x.vs) > (N + elsewhere) \div 10
DegreeSum(x, E) ==
  IF x.out_degrees # -1 THEN x.out_degrees ELSE Total(x.vs, LAMBDA v : Cardinality(Ngh(E, v)))
Runs(x, E) == x.vs # {} /\ (Scans(x) \/ DegreeSum(x, E) # 0)
RunsDense(x, E) ==
  Scans(x) \/ Cardinality(x.vs) + DegreeSum(x, E) > (Cardinality(graph) + elsewhere) \div 20
Cached(x, E) == IF x.vs = {} \/ Scans(x) THEN x ELSE [x EXCEPT !.out_degrees = DegreeSum(x, E),
                                                              !.dense = Runs(x, E) /\ RunsDense(x, E)]

\* sparse_fa_dense_em reduces over all neighbours instead when the degrees of
\* the vertices 0..(|x| - 1), in the direction of E, sum up to enough.
Reduces(x, E) ==
  /\ variant = "em"
  /\ Total({v \in V : v < Cardinality(x.vs) /\ (x.dense => v \in x.vs)},
           LAMBDA v : Cardinality(Ngh(E, v))) > (Cardinality(graph) + elsewhere) \div 20

\* What the frontier adds to a vertex that is not visited, along the edges of E.
Added(x, E, scores, v) ==
  Total(IF Reduces(x, E) THEN InNgh(E, v) ELSE x.vs \cap InNgh(E, v), LAMBDA u : scores[u])
Hit(x, E) == IF Reduces(x, E) \/ Runs(x, E) THEN {v \in V \ Visited : x.vs \cap InNgh(E, v) # {}} ELSE {}

\* One level of the forward search.  "bfs" marks the vertices first, and then
\* sums up over the finished in-neighbours of each.
Forward ==
  /\ phase = "forward" /\ Frontier.vs # {}
  /\ LET hit == Hit(Frontier, graph)
         output == [vs |-> hit, out_degrees |-> -1,
                    dense |-> \/ Reduces(Frontier, graph)
                              \/ Runs(Frontier, graph) /\ RunsDense(Frontier, graph)]
     IN /\ NumPaths' = [v \in V |->
             IF v \notin hit THEN NumPaths[v]
             ELSE IF variant # "bfs" THEN Added(Frontier, graph, NumPaths, v)
             ELSE Total(Visited \cap InNgh(graph, v), LAMBDA u : NumPaths[u])]
        /\ Visited' = Visited \cup hit
        /\ Levels' = Append(Levels, IF variant = "bfs" THEN output
                              ELSE IF Reduces(Frontier, graph) THEN [Frontier EXCEPT !.dense = TRUE]
                              ELSE Cached(Frontier, graph))
        /\ Frontier' = output
  /\ round' = round + 1
  /\ UNCHANGED <<variant, graph, elsewhere, Dependencies, phase>>

\* NumPaths is inverted, Visited cleared, and the last level finished.
Inverted(p) == IF p = 0 THEN 0 ELSE Scale \div p     \* 1 / 0, infinity, is never used
Finished(deps, vs) == [v \in V |-> IF v \in vs THEN deps[v] + NumPaths'[v] ELSE deps[v]]
Cleared(last) == last.vs
Turn ==
  /\ phase = "forward" /\ Frontier.vs = {}
  /\ NumPaths' = [v \in V |-> Inverted(NumPaths[v])]
  /\ LET last == Levels[round]
     IN /\ Frontier' = last
        /\ Visited' = Cleared(last)
        /\ Dependencies' = Finished(Dependencies, last.vs)
  /\ round' = round - 1 /\ phase' = "back"
  /\ UNCHANGED <<variant, graph, elsewhere, Levels>>

Back ==
  /\ phase = "back" /\ round > 0
  /\ LET back == {<<e[2], e[1]>> : e \in graph}
         level == Levels[round]
         hit == Hit(Frontier, back)
         deps == [v \in V |->
           IF variant # "bfs"
           THEN IF v \in hit THEN Dependencies[v] + Added(Frontier, back, Dependencies, v)
                ELSE Dependencies[v]
           ELSE IF v \in level.vs THEN Total(Visited \cap Ngh(graph, v), LAMBDA u : Dependencies[u])
                ELSE Dependencies[v]]
     IN /\ NumPaths' = NumPaths
        /\ Dependencies' = Finished(deps, level.vs)
        /\ Visited' = Visited \cup level.vs
        /\ Frontier' = level
  /\ round' = round - 1
  /\ UNCHANGED <<variant, graph, elsewhere, Levels, phase>>

Finish ==
  /\ phase = "back" /\ round = 0
  /\ Dependencies' = [v \in V |-> IF NumPaths[v] = 0 THEN 0      \* not a number
                                  ELSE ((Dependencies[v] - NumPaths[v]) * Scale) \div NumPaths[v]]
  /\ phase' = "done"
  /\ UNCHANGED <<variant, graph, elsewhere, NumPaths, Visited, Frontier, Levels, round>>

Next == Forward \/ Turn \/ Back \/ Finish
Spec == Init /\ [][Next]_bcVars
FairSpec == Spec /\ WF_bcVars(Next)

-----------------------------------------------------------------------------
\* The shortest paths from s to each vertex, counted; and the dependency of
\* the source on v, the shares of the shortest paths that go on through v.
Paths(E, s) ==
  LET hops == Hops(V, E, {s})
      sigma[k \in 0..N] ==
        [v \in V |-> IF k = 0 THEN (IF v = s THEN 1 ELSE 0)
                     ELSE IF hops[v] # k THEN sigma[k - 1][v]
                     ELSE Total({u \in InNgh(E, v) : hops[u] = k - 1}, LAMBDA u : sigma[k - 1][u])]
  IN sigma[N - 1]
Dependency(E, v) ==
  LET from == Hops(V, E, {start})
      onward == Hops(V, E, {v})
      through == {t \in V \ {v} : from[t] < N /\ from[v] + onward[t] = from[t]}
  IN Total(through, LAMBDA t : Paths(E, start)[v] * Paths(E, v)[t] * (Scale \div Paths(E, start)[t]))

\* The forward search counts shortest paths, whichever maps run.
PathsCounted ==
  (phase = "forward" /\ Frontier.vs = {}) =>
    \A v \in V : NumPaths[v] = IF Hops(V, graph, {start})[v] < N THEN Paths(graph, start)[v] ELSE 0

\* Every vertex that was reached ends with its dependency, on symmetric graphs
\* and in the "bfs" variant, which never finishes the source, on all.
DependenciesRight ==
  (phase = "done" /\ (graph = Sym(graph) \/ variant = "bfs")) =>
    \A v \in Reach(V, graph, {start}) \ {start} : Dependencies[v] = Dependency(graph, v)

\* What the optional -s of SSBetweennessCentrality.cc says: the graph need not
\* be symmetric.  No run checks it, as the code does not keep it: the way back walks
\* in-edges with the degree sums that the forward search cached for out-edges, and an
\* edge map whose sum is 0, as at the sinks of the last level, does nothing.
DirectedDependenciesRight ==
  phase = "done" =>
    \A v \in Reach(V, graph, {start}) \ {start} : Dependencies[v] = Dependency(graph, v)

\* The search stops, and so does the way back.
Terminates == <>(phase = "done")
=============================================================================
