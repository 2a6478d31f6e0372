------------------------------ MODULE Sampling ------------------------------
(***************************************************************************)
(* The sampling phase of ConnectIt (benchmarks/Connectivity/ConnectIt/     *)
(* sampling.h, connectit.h): a strategy labels part of the graph, the most *)
(* frequent label of a sample is chosen, and the finishing algorithm runs  *)
(* over the edges of the other vertices only.                              *)
(*                                                                         *)
(* The links of a k-out round run in parallel, one shared read or          *)
(* compare-and-swap a step.  A compress task writes its own entry only and *)
(* no root moves, so the compress loop is one action.  The finishing       *)
(* algorithm is any that is correct (UFAlgorithm, LiuTarjan, ... are       *)
(* modelled on their own): it joins exactly the edges it is given.         *)
(***************************************************************************)
EXTENDS SmallGraphs

CONSTANTS
  N,
  Graphs,          \* symmetric graphs
  Strategies,      \* "hybrid", "max_degree", "pure", "afforest", "bfs" or "none"
  neighbor_rounds, max_trials,
  Relabelling      \* BOOLEAN: whether the algorithm is of a type that is relabelled

V == 0..(N - 1)
largest_comp == N
none == N

SamplingAssumption ==
  /\ N \in Nat \ {0} /\ neighbor_rounds \in Nat /\ max_trials \in Nat \ {0}
  \* a self-loop at the source would keep a sparse BFS running for ever
  /\ \A g \in Graphs : g = NoLoops(g)

VARIABLES
  graph, strategy, parents,
  link,            \* per vertex the state of its link task
  Frontier, src,   \* of BFS_ComponentLabel
  r,               \* the round or the trial
  frequent_comp,
  phase            \* "rounds", "link", "bfs", "sampled" or "done"

samplingVars == <<graph, strategy, parents, link, Frontier, src, r, frequent_comp, phase>>

Idle == [pc |-> "idle", v |-> none, p1 |-> none, p2 |-> none, x |-> none]
Deg(u) == Cardinality(Ngh(graph, u))
\* get_ith_neighbor: adjacency lists are sorted.
Ith(u, i) == CHOOSE v \in Ngh(graph, u) : Cardinality({w \in Ngh(graph, u) : w < v}) = i

Init ==
  /\ graph \in Graphs /\ strategy \in Strategies
  /\ parents = [v \in V |-> v]
  /\ link = [v \in V |-> Idle] /\ Frontier = {} /\ src = none
  /\ r = 0 /\ frequent_comp = none
  /\ phase = IF strategy = "none" THEN "sampled" ELSE "rounds"

\* The neighbours that round r of each strategy may link u to.
HybridPicks(u) ==
  IF r = 0 THEN {Ith(u, 0) : x \in Ngh(graph, u)}
  ELSE {Ith(u, i) : i \in 1..(Deg(u) - 1)}
MaxDegreePicks(u) ==
  IF r > 0 THEN Ngh(graph, u)
  ELSE {v \in Ngh(graph, u) : \A w \in Ngh(graph, u) :
          Deg(w) < Deg(v) \/ (Deg(w) = Deg(v) /\ v <= w)}
PurePicks(u) == Ngh(graph, u)
AfforestPicks(u) == IF Deg(u) > r THEN {Ith(u, r)} ELSE {}
Picks(u) ==
  CASE strategy = "hybrid" -> HybridPicks(u)
    [] strategy = "max_degree" -> MaxDegreePicks(u)
    [] strategy = "pure" -> PurePicks(u)
    [] strategy = "afforest" -> AfforestPicks(u)

StartRound ==
  /\ phase = "rounds" /\ strategy # "bfs" /\ r < neighbor_rounds
  /\ \E pick \in [V -> V \cup {none}] :
       /\ \A u \in V : IF Picks(u) = {} THEN pick[u] = none ELSE pick[u] \in Picks(u)
       /\ link' = [u \in V |-> IF pick[u] = none THEN Idle
                               ELSE [Idle EXCEPT !.pc = "p1", !.v = pick[u]]]
  /\ phase' = "link"
  /\ UNCHANGED <<graph, strategy, parents, Frontier, src, r, frequent_comp>>

High(t) == Greatest({t.p1, t.p2})
Low(t) == Least({t.p1, t.p2})
\* The test of the while loop of link.
Loop(t) == IF t.p1 = t.p2 THEN Idle ELSE [t EXCEPT !.pc = "high"]
\* One shared access of link(u, v).
LinkRead(u) ==
  LET t == link[u]
      step(s) == link' = [link EXCEPT ![u] = s]
  IN /\ \/ t.pc = "p1" /\ step([t EXCEPT !.p1 = parents[u], !.pc = "p2"])
        \/ t.pc = "p2" /\ step(Loop([t EXCEPT !.p2 = parents[t.v]]))
        \/ t.pc = "high" /\ step(IF parents[High(t)] = Low(t) THEN Idle
                                 ELSE IF parents[High(t)] = High(t) THEN [t EXCEPT !.pc = "cas"]
                                 ELSE [t EXCEPT !.pc = "again"])
        \/ t.pc = "again" /\ step([t EXCEPT !.x = parents[High(t)], !.pc = "up"])
        \* high and low are still those of p1 and p2
        \/ t.pc = "up" /\ step([t EXCEPT !.x = parents[t.x], !.pc = "low"])
        \/ t.pc = "low" /\ step(Loop([t EXCEPT !.p1 = t.x, !.p2 = parents[Low(t)]]))
     /\ UNCHANGED <<graph, strategy, parents, Frontier, src, r, frequent_comp, phase>>

\* Mutant: a store instead of the compare-and-swap.
StoreAnyway(t) == TRUE
MaySwap(t) == parents[High(t)] = High(t)
LinkCas(u) ==
  LET t == link[u]
  IN /\ t.pc = "cas"
     /\ \/ /\ MaySwap(t)
           /\ parents' = [parents EXCEPT ![High(t)] = Low(t)]
           /\ link' = [link EXCEPT ![u] = Idle]
        \/ /\ ~MaySwap(t)
           /\ link' = [link EXCEPT ![u].pc = "again"]
           /\ UNCHANGED parents
     /\ UNCHANGED <<graph, strategy, Frontier, src, r, frequent_comp, phase>>

\* Every link has ended: the compress loop.
Compress ==
  /\ phase = "link" /\ \A u \in V : link[u] = Idle
  /\ parents' = [v \in V |-> Root(parents, v)]
  /\ r' = r + 1
  /\ phase' = IF r + 1 = neighbor_rounds THEN "sampled" ELSE "rounds"
  /\ UNCHANGED <<graph, strategy, link, Frontier, src, frequent_comp>>

\* A trial of BFS sampling from a random source.
StartBFS ==
  /\ phase = "rounds" /\ strategy = "bfs"
  /\ src' \in V
  /\ parents' = [v \in V |-> v] /\ Frontier' = {src'}
  /\ phase' = "bfs"
  /\ UNCHANGED <<graph, strategy, link, r, frequent_comp>>

\* Mutant: a test a vertex passes although it is labelled.
CondAny(d) == parents[d] \in {d, src}
cond(d) == parents[d] = d
\* A round of BFS_ComponentLabel; the source itself is returned again by a
\* sparse edgeMap, whose compare-and-swap of src by src succeeds.
BFSRound ==
  /\ phase = "bfs" /\ Frontier # {}
  /\ LET hit == {d \in V : cond(d) /\ Ngh(graph, d) \cap Frontier # {}}
     IN /\ parents' = [v \in V |-> IF v \in hit THEN src ELSE parents[v]]
        /\ Frontier' \in {hit, {d \in hit : parents[d] # src}}
  /\ UNCHANGED <<graph, strategy, link, src, r, frequent_comp, phase>>

\* The sample shows more than a tenth of the vertices labelled, or it does not.
EndBFS ==
  /\ phase = "bfs" /\ Frontier = {}
  /\ \/ phase' = "sampled" /\ UNCHANGED r
     \/ /\ r' = r + 1
        /\ phase' = IF r + 1 = max_trials THEN "sampled" ELSE "rounds"
  /\ UNCHANGED <<graph, strategy, parents, link, Frontier, src, frequent_comp>>

\* sample_frequent_element: any label may be the most frequent of the sample.
Frequent == {parents[v] : v \in V}
Applied(e, f) == parents[e[1]] # f
\* compute_components joins what it is given, on the relabelled array when
\* the algorithm orders largest_comp first; then it is relabelled back.
Finish ==
  /\ phase = "sampled"
  /\ \E f \in (IF strategy = "none" THEN {none} ELSE Frequent) :
       LET p == [v \in V |-> IF Relabelling /\ parents[v] = f THEN largest_comp ELSE parents[v]]
           given == {e \in graph : Applied(e, f)}
           joined == Sym(given) \cup {<<v, w>> \in V \X V : parents[v] = parents[w]}
           least(S) == IF largest_comp \in S THEN largest_comp ELSE Least(S)
           out == [v \in V |-> least({p[w] : w \in Reach(V, joined, {v})})]
       IN /\ parents' = [v \in V |-> IF out[v] = largest_comp THEN f ELSE out[v]]
          /\ frequent_comp' = f
  /\ phase' = "done"
  /\ UNCHANGED <<graph, strategy, link, Frontier, src, r>>

Next ==
  \/ StartRound \/ Compress \/ StartBFS \/ BFSRound \/ EndBFS \/ Finish
  \/ \E u \in V : LinkRead(u)
  \/ \E u \in V : LinkCas(u)

Spec == Init /\ [][Next]_samplingVars
FairSpec == Spec /\ WF_samplingVars(Next)
-----------------------------------------------------------------------------
Sampled == phase \in {"rounds", "sampled"} /\ strategy # "none"

\* At no time does a label join vertices that the graph does not, although
\* links follow grandparents that they read twice.
NeverOverMerges == Refines(V, [v \in V |-> Root(parents, v)], MinLabels(V, graph))

\* What the finishing algorithms rely on: the labels are flat, each vertex
\* that is a label carries it itself, and those of k-out are the lowest.
FlatLabels ==
  Sampled => \A v \in V : /\ parents[parents[v]] = parents[v]
                          /\ strategy # "bfs" => parents[v] <= v

\* A link that has ended has joined its two vertices.
LinksHold ==
  \A u \in V : phase = "link" /\ link[u] = Idle /\ Cardinality(Picks(u)) = 1 =>
    \A v \in Picks(u) : Root(parents, u) = Root(parents, v)

\* Skipping the vertices of the frequent label loses no component.
SkipsSafely == phase = "done" => SamePartition(V, parents, MinLabels(V, graph))

Terminates == <>(phase = "done")
=============================================================================
