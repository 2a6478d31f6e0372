--------------------------- MODULE ShiloachVishkin ---------------------------
(***************************************************************************)
(* Shiloach-Vishkin connectivity and spanning forest                       *)
(* (benchmarks/Connectivity/ShiloachVishkin/Connectivity.h and             *)
(* benchmarks/SpanningForest/ShiloachVishkin/SpanningForest.h), static and *)
(* batch-incremental.                                                      *)
(*                                                                         *)
(* A round is two parallel loops, each an action.  The first reads only    *)
(* prev_parents and lowers parents with write_min, so every order of its   *)
(* iterations gives the same array; changed is only ever set in it.  In    *)
(* the second no root moves, so each vertex it walks ends at its root.     *)
(* Which edge wins the compare-and-swap of the forest is left open.        *)
(***************************************************************************)
EXTENDS SmallGraphs

CONSTANTS
  N,
  Starts,      \* [graph, labels, edges, frequent]: the graph, what sampling left
               \* (flat labels and the forest edge of each vertex that is no
               \* label) and the label whose vertices are skipped; without
               \* sampling each vertex is its own label and frequent = N
  Batches,     \* [ins, qry]: what one batch may insert and query
  MaxBatches

V == 0..(N - 1)

SVAssumption == N \in Nat \ {0} /\ MaxBatches \in Nat

VARIABLES
  graph,
  parents, prev_parents,
  Edges,       \* the forest: per vertex the edge that hooked it
  work,        \* the edges of the hook loop
  touched,     \* the vertices of the compress loop
  changed,
  phase,       \* "hook", "compress" or "done"
  left         \* batches that may still come

svVars == <<graph, parents, prev_parents, Edges, work, touched, changed, phase, left>>

empty_edge == <<N, N>>

\* Unsampled, no vertex has the label N, so that every vertex is a candidate.
Init ==
  /\ \E s \in Starts :
       /\ graph = s.graph
       /\ parents = s.labels /\ prev_parents = s.labels
       /\ Edges = s.edges
       /\ work = {e \in s.graph : s.labels[e[1]] # s.frequent}
  /\ touched = V
  /\ changed = TRUE /\ phase = "hook"
  /\ left = MaxBatches

Low(e) == Least({prev_parents[e[1]], prev_parents[e[2]]})
High(e) == Greatest({prev_parents[e[1]], prev_parents[e[2]]})

Hooks(e) == Low(e) # High(e) /\ High(e) = prev_parents[High(e)]

\* Mutant: a round that begins does not reset changed.
NotReset == changed \/ \E e \in work : Hooks(e)
\* Whether a round changes anything: one store of the loop is enough.
Changes == \E e \in work : Hooks(e)

\* The parents after every write_min of the loop.
Hooked ==
  LET live == {e \in work : Hooks(e)}
  IN [h \in V |-> Least({parents[h]} \cup {Low(e) : e \in {f \in live : High(f) = h}})]

\* Mutant: records an edge whatever label it carried.
WinnersAny(h) == {e \in work : Hooks(e) /\ High(e) = h}

\* The edges that may record the hook of h: they hook it to the label that won.
Winners(h) ==
  {e \in work : Hooks(e) /\ High(e) = h /\ Low(e) = Hooked[h]}

Hook ==
  /\ phase = "hook"
  /\ parents' = Hooked
  /\ changed' = Changes
  /\ LET heads == {h \in V : Edges[h] = empty_edge /\ Winners(h) # {}}
     IN \E won \in [heads -> UNION {Winners(h) : h \in heads}] :
          /\ \A h \in heads : won[h] \in Winners(h)
          /\ Edges' = [h \in V |-> IF h \in heads THEN won[h] ELSE Edges[h]]
  /\ phase' = "compress"
  /\ UNCHANGED <<graph, prev_parents, work, touched, left>>

Shortened(p, v) == Root(p, v)

Compress ==
  /\ phase = "compress"
  /\ parents' = [v \in V |-> IF v \in touched THEN Shortened(parents, v) ELSE parents[v]]
  /\ prev_parents' = [v \in V |-> IF v \in touched THEN parents'[v] ELSE prev_parents[v]]
  /\ phase' = IF changed THEN "hook" ELSE "done"
  /\ UNCHANGED <<graph, Edges, work, touched, changed, left>>

\* process_batch starts: its loops run over the batch only, queries included.
StartBatch ==
  /\ phase = "done" /\ left > 0
  /\ \E b \in Batches :
       /\ work' = b.ins
       /\ graph' = graph \cup Sym(b.ins)
       /\ touched' = UNION {{e[1], e[2]} : e \in b.ins \cup b.qry}
  /\ left' = left - 1
  /\ changed' = TRUE /\ phase' = "hook"
  /\ UNCHANGED <<parents, prev_parents, Edges>>

Next == Hook \/ Compress \/ StartBatch

Spec == Init /\ [][Next]_svVars
\* The loops of a round run to their end; batches need not come.
Fairness == WF_svVars(Hook \/ Compress)
FairSpec == Spec /\ Fairness
-----------------------------------------------------------------------------
Labels == [v \in V |-> Root(parents, v)]
Static == phase = "done" /\ left = MaxBatches

\* When the rounds stop every vertex carries its component's label: no edge
\* of compute_components was lost although its end was not a root when read.
ComponentsFound ==
  Static => /\ parents = Labels
            /\ SamePartition(V, parents, MinLabels(V, graph))

\* The recorded edges are a spanning forest, whichever of them won its slot.
ForestFound ==
  Static => IsSpanningForest(V, graph, {Edges[v] : v \in V} \ {empty_edge})

\* At no time are two vertices together that no inserted edge connects, and
\* the trees have no cycle: parents only ever point down among the roots.
NeverOverMerges == Refines(V, Labels, MinLabels(V, graph))

\* What process_batch is checked against (the comment "check that labels are
\* consistent" of run_abstract_alg): after a batch its insertions are joined.
BatchesJoined == phase = "done" => SamePartition(V, Labels, MinLabels(V, graph))

Terminates == <>[](phase = "done")
=============================================================================
