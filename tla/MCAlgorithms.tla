----------------------------- MODULE MCAlgorithms -----------------------------
(***************************************************************************)
(* The graph algorithms that work by rounds over the whole graph, and the  *)
(* Jayanti-Tarjan variant of union-find, on small instances.  Their state  *)
(* is never shared, so one run holds them side by side: which names the    *)
(* algorithm of a behaviour, and the variables s1, s2, ... are its own, in *)
(* the order its module declares them.  LowDiameter and RootSets have      *)
(* their own variables, which in the other behaviours stay as they are at  *)
(* the end.                                                                *)
(***************************************************************************)
EXTENDS LowDiameter, RootSets, TLC

CONSTANTS
  Threads,
  SVBatches, MaxSVBatches, \* the batches of ShiloachVishkin
  LongVariants,  \* the variants of LiuTarjan on six vertices
  EpsNum, EpsDen,
  Families,      \* the values which may take
  PeelVariants

VARIABLES
  which, s1, s2, s3, s4, s5, s6, s7, s8, s9, s10, s11, s12, s13, s14, s15, s16, s17, s18
vars ==
  <<which, s1, s2, s3, s4, s5, s6, s7, s8, s9, s10, s11, s12, s13, s14, s15, s16, s17, s18,
    lddVars, rootVars>>

-----------------------------------------------------------------------------
(* Connectivity.                                                           *)

AllGraphs == SymGraphs(V)
Path == Sym({<<0, 2>>, <<1, 2>>, <<1, 3>>})
Cycle == Sym({<<0, 3>>, <<1, 3>>, <<0, 2>>, <<1, 2>>})
Pairs == Sym({<<0, 1>>, <<2, 3>>})
Triangle == Sym({<<0, 2>>, <<0, 3>>, <<2, 3>>})
Paw == Sym({<<0, 3>>, <<1, 2>>, <<1, 3>>, <<2, 3>>})
NoEdges == [v \in V |-> <<N, N>>]

\* Without sampling: each vertex its own label, and no vertex has the label N.
Unsampled(E) == [graph |-> E, labels |-> [v \in V |-> v], edges |-> NoEdges, frequent |-> N]
\* What sampling leaves of a forest F of E: the labels lbl, one in each tree, for
\* every other vertex its edge towards the label, and any label as the frequent one.
Toward(F, lbl) ==
  [v \in V |-> IF lbl[v] = v THEN <<N, N>>
               ELSE CHOOSE e \in F : e[1] = v /\ LET h == Hops(V, F, {lbl[v]}) IN h[e[2]] < h[v]]
After(E, F, lbl) ==
  {[graph |-> E, labels |-> lbl, edges |-> Toward(Sym(F), lbl), frequent |-> x] : x \in {lbl[v] : v \in V}}
Forests(E) == {F \in SUBSET {e \in E : e[1] < e[2]} : IsForest(V, F)}
OneEach(F) ==
  {f \in [V -> V] : \A v \in V : LET C == Component(V, Sym(F))[v] IN f[v] \in C /\ \A w \in C : f[w] = f[v]}
\* By k-out, which keeps the lowest labels, and by anything else.
ByKOut(E) == UNION {After(E, F, MinLabels(V, Sym(F))) : F \in Forests(E)}
ByAny(E) == UNION {UNION {After(E, F, lbl) : lbl \in OneEach(F)} : F \in Forests(E)}

\* LiuTarjan keeps no forest.
Bare(s) == [graph |-> s.graph, labels |-> s.labels, frequent |-> s.frequent]
Star(E, s) == [graph |-> E, labels |-> [v \in V |-> IF v \in Component(V, E)[s] THEN s ELSE v], frequent |-> s]

Starts == {Unsampled(E) : E \in AllGraphs} \cup ByAny(Path) \cup ByAny(Cycle)
LPStarts == {Unsampled(E) : E \in {Path, Triangle, Pairs, {}}} \cup ByKOut(Path)
LTStarts ==
  {Bare(s) : s \in {Unsampled(E) : E \in {Path, Cycle, Pairs, {}}} \cup ByKOut(Path)}
    \cup {Star(Path, s) : s \in V}
AllVariants ==
  {a \in [connect : {"simple", "parent", "extended"}, update : {"simple", "root"},
          shortcut : {"shortcut", "full"}, alter : BOOLEAN] :
      /\ a.connect = "simple" => a.alter
      /\ a.connect = "extended" => a.update = "simple"}
\* Six vertices, on which shortcuts of one step leave paths behind.
LongPaths ==
  {[graph |-> Sym(E), labels |-> [v \in 0..5 |-> v], frequent |-> 6] :
     E \in {{<<0, 1>>, <<1, 2>>, <<2, 3>>, <<3, 4>>, <<4, 5>>},
            {<<0, 2>>, <<2, 3>>, <<3, 5>>, <<4, 5>>, <<1, 4>>}}}
Keeping ==
  {a \in AllVariants :
     a.shortcut = "full" \/ a.connect = "extended" \/ (a.connect = "parent" /\ a.alter)}
SomeBatches ==
  {[ins |-> {<<3, 2>>}, qry |-> {}], [ins |-> {<<2, 1>>, <<3, 1>>}, qry |-> {}],
   [ins |-> {<<3, 0>>}, qry |-> {<<1, 2>>}]}
\* Batches of one insertion each.
OneByOne == {[ins |-> {e}, qry |-> {}] : e \in {<<3, 2>>, <<2, 1>>, <<3, 0>>}}
SampledGraphs == {Path, Paw, Pairs}
AllStrategies == {"hybrid", "max_degree", "pure", "afforest", "bfs", "none"}
SomePerms == {<<0, 1, 2, 3>>, <<2, 0, 3, 1>>, <<3, 1, 0, 2>>}
SomeShifts == {<<0, 1, 2, 3, 4, 6>>, <<0, 1, 3, 10, 30>>}
Singles == [v \in V |-> v]
SomeWorkloads ==
  {[init |-> Singles, ops |-> {<<2, 0>>, <<3, 2>>}, queries |-> {}],
   [init |-> [Singles EXCEPT ![1] = 2], ops |-> {<<0, 1>>, <<3, 1>>}, queries |-> {}]}

SearchedGraphs ==
  AllGraphs \cup
    {{<<0, 1>>, <<0, 2>>, <<1, 3>>, <<2, 3>>}, {<<0, 1>>, <<2, 3>>, <<1, 2>>, <<3, 1>>},
     {<<0, 1>>, <<0, 2>>, <<1, 3>>, <<2, 3>>, <<3, 0>>}, {<<0, 1>>, <<1, 2>>}}

SV == INSTANCE ShiloachVishkin WITH Starts <- Starts, Batches <- SVBatches,
  MaxBatches <- MaxSVBatches, graph <- s1, parents <- s2, prev_parents <- s3,
  Edges <- s4, work <- s5, touched <- s6, changed <- s7, left <- s8
LT == INSTANCE LiuTarjan WITH Starts <- LTStarts, Variants <- AllVariants,
  Batches <- SomeBatches, MaxBatches <- 1, graph <- s1, alg <- s2, P <- s3,
  messages <- s4, flags <- s5, frequent <- s6, edges <- s7, batch <- s8,
  seen <- s9, pending <- s10, changed <- s11, left <- s12
LTLong == INSTANCE LiuTarjan WITH N <- 6, Starts <- LongPaths, Variants <- LongVariants,
  Batches <- {}, MaxBatches <- 0, graph <- s1, alg <- s2, P <- s3,
  messages <- s4, flags <- s5, frequent <- s6, edges <- s7, batch <- s8,
  seen <- s9, pending <- s10, changed <- s11, left <- s12
LP == INSTANCE LabelPropagation WITH Starts <- LPStarts, MaxInFlight <- 2, graph <- s1,
  forest <- s2, Parents <- s3, PrevParents <- s4, Edges <- s5, vs <- s6,
  next_vs <- s7, changed <- s8, todo <- s9, flight <- s10
Smp == INSTANCE Sampling WITH Graphs <- SampledGraphs,
  Strategies <- AllStrategies, neighbor_rounds <- 2, max_trials <- 2,
  Relabelling <- TRUE, graph <- s1, strategy <- s2, parents <- s3, link <- s4,
  Frontier <- s5, src <- s6, r <- s7, frequent_comp <- s8
SE == INSTANCE SearchAndContract WITH Graphs <- SearchedGraphs,
  Variants <- {"bfs", "cc", "sf", "sf_det", "contract"}, variant <- s1,
  graph <- s2, i <- s3, src <- s4, parents <- s5, visited <- s6,
  Frontier <- s7, n <- s8, G <- s9, edge_mapping <- s10, stack <- s11,
  forest <- s12, labels <- s13
JT == INSTANCE Jayanti WITH Workloads <- SomeWorkloads, MaxRank <- 2,
  FindOptions <- {"find_simple", "find_twotrysplit"}, find_option <- s1,
  load <- s2, vdatas <- s3, Edges <- s4, todo <- s5, relabel <- s6, loc <- s7

\* What the modules assume of their constants.
ASSUME ConnectivityAssumptions ==
  /\ SV!SVAssumption /\ LT!LTAssumption /\ LTLong!LTAssumption
  /\ LP!LPAssumption /\ Smp!SamplingAssumption /\ JT!JayantiAssumption

ConnectivityInit ==
  \/ which = "sv" /\ SV!Init /\ s9 = 0 /\ s10 = 0 /\ s11 = 0 /\ s12 = 0
  \/ which = "lt" /\ LT!Init
  \/ which = "long" /\ LTLong!Init
  \/ which = "lp" /\ LP!Init /\ s11 = 0 /\ s12 = 0
  \/ which = "sample" /\ Smp!Init /\ s9 = 0 /\ s10 = 0 /\ s11 = 0 /\ s12 = 0
  \/ which = "jayanti" /\ JT!Init /\ s8 = 0 /\ s9 = 0 /\ s10 = 0 /\ s11 = 0
     /\ s12 = 0

SVStep == which = "sv" /\ SV!Next /\ UNCHANGED <<which, s9, s10, s11, s12>>
LTStep == which = "lt" /\ LT!Next /\ UNCHANGED <<which>>
LongStep == which = "long" /\ LTLong!Next /\ UNCHANGED <<which>>
LPStep == which = "lp" /\ LP!Next /\ UNCHANGED <<which, s11, s12>>
SmpStep == which = "sample" /\ Smp!Next /\ UNCHANGED <<which, s9, s10, s11,
  s12>>
JTStep == which = "jayanti" /\ JT!Next /\ UNCHANGED <<which, s8, s9, s10, s11,
  s12>>
\* Batches may stop coming; everything else that is begun goes on.
ConnectivityProgress ==
  \/ which = "sv" /\ phase # "done" /\ SVStep
  \/ which = "lt" /\ phase # "done" /\ LTStep
  \/ LongStep \/ LPStep \/ SmpStep \/ JTStep
ConnectivityNext == SVStep \/ LTStep \/ LongStep \/ LPStep \/ SmpStep \/ JTStep
-----------------------------------------------------------------------------
\* No vertices are ever together that the graph keeps apart, whatever a link, a
\* hook or a find read before it was used; the Jayanti-Tarjan finds stay in the tree.
NeverOverMerges ==
  CASE which = "sv" -> SV!NeverOverMerges
    [] which = "lt" -> LT!TypeOK /\ LT!NeverOverMerges
    [] which = "long" -> LTLong!TypeOK /\ LTLong!NeverOverMerges
    [] which = "sample" -> Smp!NeverOverMerges
    [] which = "jayanti" -> JT!NeverOverMerges /\ JT!FindsStayInside
    [] OTHER -> TRUE

\* No edge is lost on the way: a link or unite that returned has joined its ends,
\* and an edge that LiuTarjan drops or renames was represented by another (in the
\* variants that KeepsUnions names).
NothingLost ==
  CASE which = "lt" -> LT!NoEdgeLost
    [] which = "long" -> LTLong!NoEdgeLost
    [] which = "sample" -> Smp!LinksHold
    [] which = "jayanti" -> JT!UnitesHold
    [] OTHER -> TRUE

\* The answer: the labels are the components, and skipping the vertices of the
\* frequent label, or contracting the clusters, has lost none.
LabelsRight ==
  CASE which = "sv" -> SV!ComponentsFound
    [] which = "lt" -> LT!FlatAtEnd
    [] which = "long" -> LTLong!FlatAtEnd
    [] which = "lp" -> LP!ComponentsFound
    [] which = "sample" -> Smp!FlatLabels /\ Smp!SkipsSafely
    [] which = "search" -> SE!ComponentsFound
    [] OTHER -> TRUE

\* The recorded edges are a spanning forest of the graph that was given, whichever
\* of several winners recorded its edge, on every level of the contraction.
ForestRight ==
  CASE which = "sv" -> SV!ForestFound
    [] which = "lp" -> LP!ForestFound
    [] which = "search" -> SE!ForestGrows /\ SE!ForestFound
    [] which = "jayanti" -> JT!ForestSpans
    [] OTHER -> TRUE

\* What process_batch is checked against ("check that labels are consistent" in
\* run_abstract_alg): after each batch the labels are those of all insertions so far.
BatchesJoined == which = "sv" => SV!BatchesJoined

\* What cc_check asserts of a run of LiuTarjan: each edge's ends are together in the end,
\* whatever the variant.
UnionsKept == which = "long" => LTLong!UnionsKept

-----------------------------------------------------------------------------
(* The searches, peelings and greedy algorithms.                           *)

\* Weighted graphs, the last two with a negative cycle and negative weights.
W1 == (<<0, 1>> :> 3) @@ (<<0, 2>> :> 1) @@ (<<2, 1>> :> 1) @@ (<<1, 3>> :> 1) @@ (<<2, 3>> :> 3)
W2 == (<<0, 1>> :> 1) @@ (<<0, 2>> :> 1) @@ (<<1, 3>> :> 2) @@ (<<2, 3>> :> 1) @@ (<<3, 1>> :> 1)
W3 == (<<0, 1>> :> 2) @@ (<<1, 2>> :> -1) @@ (<<2, 0>> :> -2)
W4 == (<<0, 1>> :> 2) @@ (<<0, 2>> :> 1) @@ (<<1, 3>> :> -1) @@ (<<3, 2>> :> -1)
PathInputs ==
  {[alg |-> "delta", delta |-> d, w |-> w] : d \in {1, 5}, w \in {W1, W2}}
    \cup {[alg |-> a, delta |-> 1, w |-> w] : a \in {"widest", "widest_bf", "bf"}, w \in {W1, W2}}
    \cup {[alg |-> "bf", delta |-> 1, w |-> w] : w \in {W3, W4}}

Unweighted(S) == {<<e[1], e[2], 1>> : e \in S}
\* The granularities of the code, 50 and 8, by which a round on few edges tries one, and
\* less, by which it tries as many as on large graphs.
SpecInputs ==
  {[client |-> "mis", edges |-> Unweighted(S), granularity |-> g] :
     S \in SUBSET {e \in V \X V : e[1] < e[2]}, g \in {1, 2, 50}}
    \cup {[client |-> "mm", edges |-> Unweighted(S), granularity |-> g] :
             S \in {E \in SUBSET {e \in V \X V : e[1] < e[2]} : Cardinality(E) \in {1, 2, 3}}, g \in {1, 2, 50}}
    \cup {[client |-> "mm", edges |-> Unweighted({e \in V \X V : e[1] < e[2]}), granularity |-> g] :
             g \in {2, 50}}
    \cup {[client |-> "mst", edges |-> S, granularity |-> g] :
             S \in {{<<0, 1, 1>>, <<1, 2, 1>>, <<2, 3, 2>>, <<0, 3, 1>>},
                    {<<0, 1, 2>>, <<0, 2, 2>>, <<1, 2, 1>>, <<1, 3, 2>>}}, g \in {1, 2, 8}}
RootInputs ==
  {[alg |-> a, edges |-> Sym(S), perm |-> [v \in V |-> p[v + 1]]] :
     a \in {"mis", "lf", "llf"}, p \in {<<0, 1, 2, 3>>, <<2, 0, 3, 1>>},
     S \in SUBSET {e \in V \X V : e[1] < e[2]}}

\* Digraphs of several components of two and three vertices and the edges between.
Scc(a, g, o) == [alg |-> a, n |-> 8, graph |-> g, order |-> o]
D1 == {<<0, 1>>, <<1, 0>>, <<2, 3>>, <<3, 2>>, <<4, 5>>, <<5, 6>>, <<6, 4>>, <<1, 2>>, <<3, 4>>, <<0, 7>>}
D2 == {<<0, 1>>, <<1, 0>>, <<2, 3>>, <<3, 4>>, <<4, 2>>, <<4, 5>>, <<5, 6>>, <<6, 5>>, <<2, 6>>, <<7, 5>>}
D3 == {<<0, 1>>, <<1, 0>>, <<2, 3>>, <<3, 2>>, <<4, 5>>, <<5, 4>>, <<4, 2>>, <<4, 6>>, <<6, 7>>, <<7, 6>>}
SccInputs ==
  {Scc("greedy", D1, <<0, 1, 2, 4, 3, 5, 6>>), Scc("greedy", D1, <<3, 4, 5, 6, 2, 1, 0>>),
   Scc("greedy", D2, <<6, 3, 4, 0, 2, 1, 5>>), Scc("filter", D1, <<0, 2, 4, 5, 6, 3, 1>>),
   Scc("filter", D3, <<0, 2, 3, 4, 5, 6, 7>>)}

Pe == INSTANCE Peeling WITH Graphs <- AllGraphs, Variants <- PeelVariants,
  variant <- s1, graph <- s2, D <- s3, ER <- s4, bucket <- s5, removed <- s6,
  order <- s7, density <- s8, moved <- s9
BC == INSTANCE Betweenness WITH Graphs <- SearchedGraphs, Elsewhere <- {0,
  60}, Scale <- 12, BCVariants <- {"edgemap", "bfs", "em"}, variant <- s1,
  graph <- s2, elsewhere <- s3, NumPaths <- s4, Visited <- s5,
  Dependencies <- s6, Frontier <- s7, Levels <- s8, round <- s9
SP == INSTANCE ShortestPaths WITH Inputs <- PathInputs, Infinity <- 100,
  in <- s1, dists <- s2, top <- s3, held <- s4, k <- s5, frontier <- s6,
  tasks <- s7, emitted <- s8, round <- s9
SF == INSTANCE SpeculativeFor WITH Inputs <- SpecInputs, n_filter_steps <- 1,
  SpecTries <- 100, in <- s1, left <- s2, iter <- s3, E <- s4, loop <- s5,
  todo <- s6, keep <- s7, R <- s8, matched <- s9, parents <- s10,
  indices <- s11, Flags <- s12, FlagsNext <- s13, result <- s14, before <- s15
SC == INSTANCE StrongComponents WITH Inputs <- SccInputs, BetaNum <- 2,
  BetaDen <- 1, si <- s1, labels <- s2, out <- s3, in <- s4, Q <- s5,
  step <- s6, offset <- s7, label_offset <- s8, round <- s9, centers <- s10,
  table <- s11, frontier <- s12, bits <- s13, edges <- s14, reads <- s15,
  elts <- s16, bound <- s17, in_done <- s18

\* What the modules assume of their constants.
ASSUME AlgorithmsAssumptions ==
  /\ Pe!PeelingAssumption /\ BC!BCAssumption /\ SP!PathsAssumption /\ SE!SearchAndContractAssumption
  /\ SF!SpeculativeAssumption /\ SC!StrongComponentsAssumption

\* The variables of LowDiameter at the end of a decomposition.
Decomposed ==
  /\ graph = {} /\ vertex_perm = [i \in 1..N |-> i - 1] /\ shifts = <<0, N>>
  /\ cluster_ids = [v \in V |-> v] /\ parents = [v \in V |-> v]
  /\ frontier = {} /\ num_visited = N /\ num_added = N /\ round = 0
DecompositionStays ==
  UNCHANGED <<graph, vertex_perm, shifts, cluster_ids, parents, frontier, num_visited,
              num_added, round>>
\* Those of RootSets at the end, all vertices in the set.
Rooted ==
  /\ in = [alg |-> "mis", edges |-> {}, perm |-> [v \in V |-> v]]
  /\ priorities = [v \in V |-> 0] /\ roots = {} /\ removed = {} /\ nremoved = 0
  /\ newRoots = {} /\ todo = {} /\ held = << >> /\ in_mis = V
  /\ colors = [v \in V |-> NoColor] /\ finished = N /\ stage = "round"

Zeros ==
  /\ s1 = 0 /\ s2 = 0 /\ s3 = 0 /\ s4 = 0 /\ s5 = 0 /\ s6 = 0 /\ s7 = 0 /\ s8 = 0 /\ s9 = 0
  /\ s10 = 0 /\ s11 = 0 /\ s12 = 0 /\ s13 = 0 /\ s14 = 0 /\ s15 = 0 /\ s16 = 0 /\ s17 = 0 /\ s18 = 0

OthersInit ==
  \/ which = "peel" /\ Pe!Init /\ s10 = 0 /\ s11 = 0 /\ s12 = 0 /\ s13 = 0
     /\ s14 = 0 /\ s15 = 0 /\ s16 = 0 /\ s17 = 0 /\ s18 = 0
  \/ which = "between" /\ BC!Init /\ s10 = 0 /\ s11 = 0 /\ s12 = 0 /\ s13 = 0
     /\ s14 = 0 /\ s15 = 0 /\ s16 = 0 /\ s17 = 0 /\ s18 = 0
  \/ which = "path" /\ SP!Init /\ s10 = 0 /\ s11 = 0 /\ s12 = 0 /\ s13 = 0
     /\ s14 = 0 /\ s15 = 0 /\ s16 = 0 /\ s17 = 0 /\ s18 = 0
  \/ which = "search" /\ SE!Init /\ s14 = 0 /\ s15 = 0 /\ s16 = 0
     /\ s17 = 0 /\ s18 = 0
  \/ which = "spec" /\ SF!Init /\ s16 = 0 /\ s17 = 0 /\ s18 = 0
  \/ which = "scc" /\ SC!Init
  \/ ConnectivityInit /\ s13 = 0 /\ s14 = 0 /\ s15 = 0 /\ s16 = 0 /\ s17 = 0
     /\ s18 = 0
Init ==
  /\ which \in Families
  /\ \/ which = "ldd" /\ LDDInit /\ Rooted /\ Zeros
     \/ which = "roots" /\ RootsInit /\ Decomposed /\ phase = "done" /\ Zeros
     \/ Decomposed /\ Rooted /\ OthersInit

OwnStay ==
  UNCHANGED <<which, s1, s2, s3, s4, s5, s6, s7, s8, s9, s10, s11, s12, s13, s14, s15, s16, s17,
              s18>>
LDDStep == which = "ldd" /\ LDDNext /\ UNCHANGED rootVars /\ OwnStay
RootsStep == which = "roots" /\ RootsNext /\ UNCHANGED lddVars /\ OwnStay
PeStep == which = "peel" /\ Pe!Next /\ UNCHANGED <<which, s10, s11, s12, s13,
  s14, s15, s16, s17, s18>>
BCStep == which = "between" /\ BC!Next /\ UNCHANGED <<which, s10, s11, s12,
  s13, s14, s15, s16, s17, s18>>
SPStep == which = "path" /\ SP!Next /\ UNCHANGED <<which, s10, s11, s12, s13,
  s14, s15, s16, s17, s18>>
SEStep == which = "search" /\ SE!Next /\ UNCHANGED <<which, s14, s15, s16,
  s17, s18>>
SFStep == which = "spec" /\ SF!Next /\ UNCHANGED <<which, s16, s17, s18>>
SCStep == which = "scc" /\ SC!Next /\ UNCHANGED <<which>>

ConnectivityStep == ConnectivityNext /\ UNCHANGED <<s13, s14, s15, s16, s17, s18>>

AlgorithmsNext == PeStep \/ BCStep \/ SPStep \/ SEStep \/ SFStep \/ SCStep
OthersStay == DecompositionStays /\ UNCHANGED rootVars
Next ==
  \/ LDDStep \/ RootsStep
  \/ (ConnectivityStep \/ AlgorithmsNext) /\ OthersStay
Progress ==
  \/ LDDStep \/ RootsStep
  \/ ConnectivityProgress /\ UNCHANGED <<s13, s14, s15, s16, s17, s18>> /\ OthersStay
  \/ AlgorithmsNext /\ OthersStay
Spec == Init /\ [][Next]_vars /\ WF_vars(Progress)
-----------------------------------------------------------------------------
\* The searches: trees of shortest paths that reach everything they should, the same
\* in every schedule where the forest is said to be deterministic; and strongly
\* connected components that stay whole from one search to the next, on out- and
\* in-lists that are pruned separately.
SearchesRight ==
  CASE which = "search" -> SE!TreesShortest /\ SE!SearchComplete /\ SE!Deterministic
    [] which = "scc" -> SC!SccsFound /\ SC!ComponentsStayWhole /\ SC!SearchComplete /\ SC!ListsMirror
    [] OTHER -> TRUE

\* Distances are those of best paths whatever the relaxations of a round see of each
\* other, and a vertex enters the next round once; the paths that Betweenness counts
\* and the dependencies it returns are the right ones.
LengthsRight ==
  CASE which = "path" -> SP!DistancesRight /\ SP!EmittedOnce
    [] which = "between" -> BC!PathsCounted /\ BC!DependenciesRight
    [] OTHER -> TRUE

\* Between the rounds of a peeling the degrees are those of what is left; in the end
\* the cores, the degeneracy order and the densities are as promised.
PeelingRight ==
  which = "peel" =>
    Pe!CoresRight /\ Pe!DegreesInduced /\ Pe!OrderDegenerate /\ Pe!DensityApproximates

\* What the -fa option says of KCore_FA: it is an implementation of k-core.
FetchAddCoresRight == which = "peel" => Pe!FetchAddCoresRight

\* Speculative loops give what the sequential greedy ones give, in every schedule:
\* the matching, the forest and the independent set.  Nothing is held back for good:
\* no reservation outlives its round, and each round does some iteration.
GreedyRight ==
  which = "spec" =>
    SF!LikeSequential /\ SF!ResultRight /\ SF!ReservationsReleased /\ SF!RoundsProgress

\* Every algorithm ends; eff_for may instead give up and abort, PBBSMST exit on an
\* empty sample, and BarenboimElkin08 wrap a degree.
Terminates == <>[](phase \in {"done", "abort", "exit", "wrapped"} /\ (which = "roots" => stage = "done"))
=============================================================================
