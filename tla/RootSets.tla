------------------------------- MODULE RootSets -------------------------------
(***************************************************************************)
(* The rootset algorithms: MaximalIndependentSet (namespace                *)
(* MaximalIndependentSet_rootset) and Coloring, both heuristics.           *)
(* priorities[v] counts the neighbours that come before v; those with none *)
(* left are the roots of the next round.  Every edge is relaxed by one     *)
(* worker, in any order.                                                   *)
(***************************************************************************)
EXTENDS SmallGraphs, Integers

CONSTANTS
  NumVertices,
  Inputs   \* [alg, edges, perm]: "mis", "lf" or "llf", the graph, the permutation

Vertices == 0..(NumVertices - 1)
\* UINT_E_MAX, which is no colour.
NoColor == NumVertices + 1

ASSUME RootSetsAssumption ==
  /\ NumVertices \in Nat \ {0}
  /\ \A x \in Inputs :
       /\ x.alg \in {"mis", "lf", "llf"} /\ x.edges \in SymGraphs(Vertices)
       /\ x.perm \in [Vertices -> Nat]
       /\ \A u, v \in Vertices : x.perm[u] = x.perm[v] => u = v

VARIABLES
  in,
  priorities,
  roots, removed,  \* the frontiers
  nremoved,        \* the length of removed
  newRoots,        \* the frontier edgeMap returns, as <<vertex, edge>> pairs
  todo,            \* edges or vertices of the stage nobody has taken
  held,            \* values a worker has read and not used yet, by task
  in_mis, colors,
  finished,
  stage            \* "round", "color", "nghs", "edges", "collect" or "done"

rootVars == <<in, priorities, roots, removed, nremoved, newRoots, todo, held, in_mis,
              colors, finished, stage>>

Deg(v) == Cardinality(Ngh(in.edges, v))
\* The number of the powers of two below d.
log2_up(d) == Cardinality({k \in 0..d : 2^k < d})
\* u comes before v.
Precedes(u, v) ==
  LET du == IF in.alg = "lf" THEN Deg(u) ELSE log2_up(Deg(u))
      dv == IF in.alg = "lf" THEN Deg(v) ELSE log2_up(Deg(v))
  IN IF in.alg = "mis" THEN in.perm[u] < in.perm[v]
     ELSE du > dv \/ (du = dv /\ in.perm[u] < in.perm[v])
Before(v) == {u \in Ngh(in.edges, v) : Precedes(u, v)}

RootsInit ==
  /\ in \in Inputs
  /\ priorities = [v \in Vertices |-> Cardinality(Before(v))]
  /\ roots = {v \in Vertices : priorities[v] = 0}
  /\ removed = {} /\ nremoved = 0 /\ newRoots = {} /\ todo = {} /\ held = << >>
  /\ in_mis = {} /\ colors = [v \in Vertices |-> NoColor]
  /\ finished = 0 /\ stage = "round"

EdgesFrom(S) == {e \in in.edges : e[1] \in S}

\* The head of the loop.  MIS puts the roots in the set and goes to their
\* neighbours; Coloring counts the roots and colours them.
Round ==
  /\ stage = "round" /\ finished # NumVertices
  /\ IF in.alg = "mis"
     THEN /\ in_mis' = in_mis \cup roots /\ todo' = EdgesFrom(roots) /\ stage' = "nghs"
          /\ UNCHANGED finished
     ELSE /\ finished' = finished + Cardinality(roots) /\ todo' = roots /\ stage' = "color"
          /\ UNCHANGED in_mis
  /\ UNCHANGED <<in, priorities, roots, removed, nremoved, newRoots, held, colors>>

\* color: the least colour below the degree no neighbour has, else deg + 1.
Free(v) ==
  LET deg == Deg(v)
      taken == {colors[u] : u \in Ngh(in.edges, v)}
      free == (0..(deg - 1)) \ taken
  IN IF deg = 0 THEN 0 ELSE IF free = {} THEN deg + 1 ELSE Least(free)
Pick(v) ==
  /\ stage = "color" /\ v \in todo
  /\ todo' = todo \ {v} /\ held' = [x \in DOMAIN held \cup {v} |-> IF x = v THEN Free(v) ELSE held[x]]
  /\ UNCHANGED <<in, priorities, roots, removed, nremoved, newRoots, in_mis, colors, finished, stage>>
Color(v) ==
  /\ stage = "color" /\ v \in DOMAIN held
  /\ colors' = [colors EXCEPT ![v] = held[v]]
  /\ held' = [u \in DOMAIN held \ {v} |-> held[u]]
  /\ UNCHANGED <<in, priorities, roots, removed, nremoved, newRoots, todo, in_mis, finished, stage>>
AllColored ==
  /\ stage = "color" /\ todo = {} /\ DOMAIN held = {}
  /\ todo' = EdgesFrom(roots) /\ stage' = "edges"
  /\ UNCHANGED <<in, priorities, roots, removed, nremoved, newRoots, held, in_mis, colors, finished>>

\* GetNghs: read the priority, and when it is positive swap it for zero.
ReadNgh(e) ==
  /\ stage = "nghs" /\ e \in todo
  /\ todo' = todo \ {e}
  /\ held' = IF priorities[e[2]] > 0
             THEN [x \in DOMAIN held \cup {e} |-> IF x = e THEN priorities[e[2]] ELSE held[x]]
             ELSE held
  /\ UNCHANGED <<in, priorities, roots, removed, nremoved, newRoots, in_mis, colors, finished, stage>>
\* Mutant: a store in the place of the compare-and-swap, that always wins.
AlwaysSwaps(e) == TRUE
Swaps(e) == priorities[e[2]] = held[e]
SwapNgh(e) ==
  /\ stage = "nghs" /\ e \in DOMAIN held
  /\ IF Swaps(e)
     THEN /\ priorities' = [priorities EXCEPT ![e[2]] = 0]
          /\ removed' = removed \cup {e[2]} /\ nremoved' = nremoved + 1
     ELSE UNCHANGED <<priorities, removed, nremoved>>
  /\ held' = [f \in DOMAIN held \ {e} |-> held[f]]
  /\ UNCHANGED <<in, roots, newRoots, todo, in_mis, colors, finished, stage>>
AllRemoved ==
  /\ stage = "nghs" /\ todo = {} /\ DOMAIN held = {}
  /\ priorities' = [v \in Vertices |-> IF v \in removed THEN 0 ELSE priorities[v]]
  /\ todo' = EdgesFrom(removed) /\ stage' = "edges"
  /\ UNCHANGED <<in, roots, removed, nremoved, newRoots, held, in_mis, colors, finished>>

\* mis_f, coloring_f: one less vertex to wait for; who takes the last one
\* returns the vertex.  mis_f leaves the vertices that come before alone.  The
\* test of cond is one step with the decrement: while an edge that counts is left
\* its end has a positive priority, so that nothing comes between the two.
Counts(e) == priorities[e[2]] > 0 /\ (in.alg = "mis" => in.perm[e[1]] < in.perm[e[2]])
Decrement(e) ==
  /\ stage = "edges" /\ e \in todo
  /\ IF Counts(e)
     THEN /\ priorities' = [priorities EXCEPT ![e[2]] = @ - 1]
          /\ newRoots' = IF priorities[e[2]] = 1 THEN newRoots \cup {<<e[2], e>>} ELSE newRoots
     ELSE UNCHANGED <<priorities, newRoots>>
  /\ todo' = todo \ {e}
  /\ UNCHANGED <<in, roots, removed, nremoved, held, in_mis, colors, finished, stage>>
EndRound ==
  /\ stage = "edges" /\ todo = {}
  /\ finished' = IF in.alg = "mis" THEN finished + Cardinality(roots) + nremoved ELSE finished
  /\ roots' = {r[1] : r \in newRoots}
  /\ removed' = {} /\ nremoved' = 0 /\ newRoots' = {} /\ stage' = "round"
  /\ UNCHANGED <<in, priorities, todo, held, in_mis, colors>>
Finish ==
  /\ stage = "round" /\ finished = NumVertices
  /\ stage' = "done"
  /\ UNCHANGED <<in, priorities, roots, removed, nremoved, newRoots, todo, held, in_mis, colors, finished>>

RootsNext ==
  \/ Round \/ AllColored \/ AllRemoved \/ EndRound \/ Finish
  \/ \E v \in todo : Pick(v) \/ ReadNgh(v) \/ Decrement(v)
  \/ \E x \in DOMAIN held : Color(x) \/ SwapNgh(x)
RootsSpec == RootsInit /\ [][RootsNext]_rootVars

-----------------------------------------------------------------------------
\* The assertion at the head of both loops (`assert(roots.size() > 0)`): as
\* long as vertices are unfinished some are roots, and finished counts each
\* vertex once however the workers race.
RootsNeverEmpty ==
  stage = "round" /\ finished # NumVertices => roots # {} /\ finished < NumVertices

\* The greedy results, in the order of Precedes: whatever the schedule, the
\* sets of roots are the same.  greedy[v] is the colour of v, or 1 when v is in
\* the independent set and 0 when it is not.
Greedy ==
  LET greedy[v \in Vertices] ==
        LET got == {greedy[u] : u \in Before(v)}
            deg == Deg(v)
            free == (0..(deg - 1)) \ got
        IN IF in.alg = "mis" THEN IF 1 \in got THEN 0 ELSE 1
           ELSE IF deg = 0 THEN 0 ELSE IF free = {} THEN deg + 1 ELSE Least(free)
  IN greedy
ResultGreedy ==
  stage = "done" =>
    IF in.alg = "mis" THEN in_mis = {v \in Vertices : Greedy[v] = 1}
    ELSE /\ \A v \in Vertices : colors[v] = Greedy[v]
         /\ \A e \in in.edges : colors[e[1]] # colors[e[2]]

\* The parallel loops give what the sequential greedy ones give, and always go on.
RootSetsRight == RootsNeverEmpty /\ ResultGreedy
=============================================================================
