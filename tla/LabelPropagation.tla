-------------------------- MODULE LabelPropagation --------------------------
(***************************************************************************)
(* Label propagation connectivity and spanning forest                      *)
(* (benchmarks/Connectivity/LabelPropagation/Connectivity.h and            *)
(* benchmarks/SpanningForest/LabelPropagation/SpanningForest.h).           *)
(*                                                                         *)
(* A round maps the edges of the frontier vs in parallel.  Connectivity    *)
(* reads and lowers the same array, so there updateAtomic is taken apart   *)
(* into its loads, its write_mins of a label and those of changed; at most *)
(* MaxInFlight edges are under way at once, in every interleaving.  The    *)
(* spanning forest reads PrevParents only: its first edgeMap is the same   *)
(* in every order, and of the second any edge that carries the winning     *)
(* label may be the last to store itself.                                  *)
(***************************************************************************)
EXTENDS SmallGraphs, Integers

CONSTANTS
  N,
  Starts,      \* [graph, labels, edges, frequent], as in ShiloachVishkin; labels may
               \* also be a permutation (use_permutation)
  MaxInFlight  \* bound: the edges that updateAtomic works on at the same time

V == 0..(N - 1)
largest_comp == N   \* the least label in the order lp_less
empty_edge == <<N, N>>

LPAssumption == N \in Nat \ {0} /\ MaxInFlight \in Nat \ {0}

VARIABLES
  graph,           \* the input, chosen once
  forest,          \* compute_spanning_forest rather than compute_components
  Parents, PrevParents, Edges,
  vs, next_vs,     \* the frontier and the one being built
  changed,         \* per vertex unemitted, need_emit or emitted
  todo,            \* the frontier's edges not mapped yet
  flight,          \* calls of updateAtomic: the edge, what it does next (at), and the
                   \* labels of the edge's ends as it read them last (s and d)
  phase            \* "map", "record" or "done"

lpVars == <<graph, forest, Parents, PrevParents, Edges, vs, next_vs, changed,
            todo, flight, phase>>

unemitted == 0
need_emit == 1
emitted == 2

Rank(x) == IF x = largest_comp THEN -1 ELSE x
lp_less(x, y) == Rank(x) < Rank(y)
lp_min(S) == CHOOSE x \in S : \A y \in S : Rank(x) <= Rank(y)
EdgesFrom(S) == {e \in graph : e[1] \in S}

Init ==
  /\ forest \in BOOLEAN
  /\ \E s \in Starts :
       /\ graph = s.graph
       /\ Parents = [v \in V |-> IF s.labels[v] = s.frequent THEN largest_comp ELSE s.labels[v]]
       /\ Edges = s.edges
       /\ vs = {v \in V : s.labels[v] # s.frequent}
  /\ PrevParents = Parents
  /\ next_vs = {} /\ changed = [v \in V |-> unemitted]
  /\ todo = EdgesFrom(vs) /\ flight = {} /\ phase = IF vs = {} THEN "done" ELSE "map"

\* updateAtomic of connectivity's LabelProp_F, on an edge of the frontier.
Begin(e) ==
  /\ phase = "map" /\ ~forest /\ e \in todo /\ Cardinality(flight) < MaxInFlight
  /\ todo' = todo \ {e}
  /\ flight' = flight \cup {[e |-> e, at |-> "first", s |-> Parents[e[1]], d |-> Parents[e[2]]]}
  /\ UNCHANGED <<graph, forest, Parents, PrevParents, Edges, vs, next_vs, changed, phase>>

GoOn(f, at) == flight' = (flight \ {f}) \cup {[f EXCEPT !.at = at]}
Return(f) == flight' = flight \ {f}

\* Every test, and every write_min that is passed a label, reads Parents anew (or
\* takes the value read before, when the compiler saw no store between the two).
\* The two ends are read in either order, at different times.
Reload(f) ==
  /\ f.at \in {"first", "second", "down", "up"}
  /\ \/ /\ f.s # Parents[f.e[1]]
        /\ flight' = (flight \ {f}) \cup {[f EXCEPT !.s = Parents[f.e[1]]]}
     \/ /\ f.d # Parents[f.e[2]]
        /\ flight' = (flight \ {f}) \cup {[f EXCEPT !.d = Parents[f.e[2]]]}
  /\ UNCHANGED <<graph, forest, Parents, PrevParents, Edges, vs, next_vs, changed, todo, phase>>

\* The two tests, with whatever was read for each.
Test(f) ==
  /\ \/ f.at = "first" /\ GoOn(f, IF lp_less(f.s, f.d) THEN "down" ELSE "second")
     \/ f.at = "second" /\ lp_less(f.d, f.s) /\ GoOn(f, "up")
     \/ f.at = "second" /\ ~lp_less(f.d, f.s) /\ Return(f)
  /\ UNCHANGED <<graph, forest, Parents, PrevParents, Edges, vs, next_vs, changed, todo, phase>>

\* The write_min of a label, downwards to d or upwards to the source s; only one
\* that lowered the source's label goes on to mark it.
Lower(f) ==
  /\ \/ /\ f.at = "down"
        /\ Parents' = [Parents EXCEPT ![f.e[2]] = lp_min({@, f.s})]
        /\ GoOn(f, "emit")
     \/ /\ f.at = "up" /\ lp_less(f.d, Parents[f.e[1]])
        /\ Parents' = [Parents EXCEPT ![f.e[1]] = f.d]
        /\ GoOn(f, "need")
     \/ /\ f.at = "up" /\ ~lp_less(f.d, Parents[f.e[1]])
        /\ Return(f) /\ UNCHANGED Parents
  /\ UNCHANGED <<graph, forest, PrevParents, Edges, vs, next_vs, changed, todo, phase>>

\* The write_min of changed: d is returned for the next frontier by the one that
\* emits it, s is only marked to be taken by EndRound.
Mark(f) ==
  /\ \/ /\ f.at = "emit"
        /\ changed' = [changed EXCEPT ![f.e[2]] = emitted]
        /\ next_vs' = IF changed[f.e[2]] # emitted THEN next_vs \cup {f.e[2]} ELSE next_vs
     \/ /\ f.at = "need"
        /\ changed' = [changed EXCEPT ![f.e[1]] = IF @ = unemitted THEN need_emit ELSE @]
        /\ UNCHANGED next_vs
  /\ Return(f)
  /\ UNCHANGED <<graph, forest, Parents, PrevParents, Edges, vs, todo, phase>>

UpdateAtomic ==
  \/ \E e \in todo : Begin(e)
  \/ \E f \in flight : Reload(f) \/ Test(f) \/ Lower(f) \/ Mark(f)

\* LabelProp_F_2: v got its label over the edge e.
Carries(e, v) ==
  \/ v = e[2] /\ lp_less(PrevParents[e[1]], PrevParents[v]) /\ Parents[v] = PrevParents[e[1]]
  \/ v = e[1] /\ lp_less(PrevParents[e[2]], PrevParents[v]) /\ Parents[v] = PrevParents[e[2]]

\* The first edgeMap of the spanning forest, over the whole frontier.
ForestLabels ==
  /\ phase = "map" /\ forest /\ todo # {}
  /\ LET down(v) == {PrevParents[e[1]] : e \in {f \in todo : f[2] = v}}
         up(v) == {PrevParents[e[2]] : e \in {f \in todo : f[1] = v}}
     IN /\ Parents' = [v \in V |-> lp_min({Parents[v]} \cup down(v) \cup up(v))]
        /\ next_vs' = {v \in V : \E x \in down(v) : lp_less(x, PrevParents[v])}
        /\ changed' = [v \in V |-> IF v \in next_vs' THEN emitted
                                   ELSE IF \E x \in up(v) : lp_less(x, Parents[v]) THEN need_emit
                                   ELSE changed[v]]
  /\ todo' = {} /\ phase' = "record"
  /\ UNCHANGED <<graph, forest, PrevParents, Edges, vs, flight>>

\* The second one: an edge that carried the label of v is stored for it.
ForestEdges ==
  /\ phase = "record"
  /\ LET won(v) == {e \in EdgesFrom(vs) : Carries(e, v)}
         hit == {v \in V : won(v) # {}}
     IN \E pick \in [hit -> EdgesFrom(vs)] :
          /\ \A v \in hit : pick[v] \in won(v)
          /\ Edges' = [v \in V |-> IF v \in hit THEN pick[v] ELSE Edges[v]]
  /\ phase' = "map"
  /\ UNCHANGED <<graph, forest, Parents, PrevParents, vs, next_vs, changed, todo, flight>>

\* Mutant: only what edgeMap returned, without the sources that need emitting.
OnlyReturned == next_vs
\* The next frontier.
NewFrontier == next_vs \cup {v \in vs : changed[v] = need_emit}

EndRound ==
  /\ phase = "map" /\ todo = {} /\ flight = {} /\ vs # {}
  /\ vs' = NewFrontier
  /\ changed' = [v \in V |-> IF v \in NewFrontier THEN unemitted ELSE changed[v]]
  /\ PrevParents' = IF forest THEN [v \in V |-> IF v \in NewFrontier THEN Parents[v] ELSE PrevParents[v]]
                    ELSE PrevParents
  /\ next_vs' = {} /\ todo' = EdgesFrom(NewFrontier)
  /\ phase' = IF NewFrontier = {} THEN "done" ELSE "map"
  /\ UNCHANGED <<graph, forest, Parents, Edges, flight>>

Next == ForestLabels \/ ForestEdges \/ EndRound \/ UpdateAtomic
Spec == Init /\ [][Next]_lpVars
FairSpec == Spec /\ WF_lpVars(Next)
-----------------------------------------------------------------------------
\* When the frontier is empty every vertex has its component's label: no label
\* was lost between a vertex's own edges and those that lowered it meanwhile, nor
\* between a write_min of a label and that of changed.
ComponentsFound ==
  phase = "done" => SamePartition(V, Parents, MinLabels(V, graph))

\* And the edges that carried the labels are a spanning forest.
ForestFound ==
  phase = "done" /\ forest =>
    IsSpanningForest(V, graph, {Edges[v] : v \in V} \ {empty_edge})

Terminates == <>(phase = "done")
=============================================================================
