----------------------------- MODULE UFAlgorithm -----------------------------
(***************************************************************************)
(* What the concurrent union-find algorithms of ConnectIt have in common:  *)
(* the parents array, the loops of UFAlgorithm::compute_components and     *)
(* process_batch (benchmarks/Connectivity/UnionFind/Connectivity.h) and    *)
(* the variants of find (namespace find_variants of union_find_rules.h),   *)
(* which every unite variant calls.  Each step makes one access to the     *)
(* parents array.                                                          *)
(*                                                                         *)
(* The unite variants are in UnionFind and RemUnionFind: a thread enters   *)
(* one at pc = "unite" and leaves it at pc = "idle".                       *)
(***************************************************************************)
EXTENDS Integers, FiniteSets

CONSTANTS
  N,            \* number of vertices
  Threads,
  FindOptions,  \* the find variants the caller may have composed with unite
  UniteOptions, \* and the unite variants
  Workloads     \* [kind, init, ops, queries]: initial parents, the unite calls made, and
                \* the queries of a batch; kind is the loops that run

Vertices == 0..(N - 1)
Ops == Vertices \X Vertices
AllFinds == {"find_naive", "find_compress", "find_atomic_split", "find_atomic_halve"}
Kinds == {"components", "mixed_batch", "reordered_batch"}

ASSUME UFAssumption ==
  /\ N \in Nat \ {0}
  /\ FindOptions \subseteq AllFinds
  /\ \A l \in Workloads :
       /\ l.kind \in Kinds /\ l.init \in [Vertices -> Vertices]
       /\ l.ops \subseteq Ops /\ l.queries \subseteq Ops

\* The caller's parents point down: each vertex is a root, or what k-out sampling or
\* an earlier batch leave, or the clusters of LDD sampling, which does not permute: a
\* vertex that a center takes comes after the center.  BFS sampling leaves a star at
\* its source, which need not be the lowest of its vertices.
ASSUME InitAssumption == \A l \in Workloads : \A x \in Vertices : l.init[x] <= x

VARIABLES
  parents,
  Edges,        \* for each vertex the call whose unite returned it as linked; the
                \* spanning forest keeps it here, connectivity drops it
  find_option, unite_option, \* template parameters, chosen once
  load,         \* the workload, chosen once
  todo,         \* iterations of the union loop not begun
  asked,        \* queries of the batch not begun
  relabel,      \* iterations of the find loop not begun
  phase,        \* "unite", "query", "find" or "done"
  pc,
  op,           \* the arguments u_orig, v_orig of the thread's unite
  u, v,         \* its locals u and v (rx and ry)
  i, j, w,      \* the locals of find; find returns i
  ret           \* where find returns to

choices == <<find_option, unite_option, load>>
loops == <<todo, asked, relabel, phase>>
args == <<op, u, v>>
finds == <<i, j, w, ret>>
ufVars == <<parents, Edges, choices, loops, pc, args, finds>>

empty_edge == <<N, N>>
NoOp == <<N, N>>   \* op of a thread that is not in a unite

FindLabels ==
  {"find", "naive_next", "climb", "climb_test", "squash", "squash_store",
   "grandparent", "swing", "halve_next"}

At(t, label) == pc[t] = label
Goto(t, to) == pc' = [pc EXCEPT ![t] = to]
Set(f, t, x) == [f EXCEPT ![t] = x]

UFInit ==
  /\ find_option \in FindOptions /\ unite_option \in UniteOptions
  /\ load \in Workloads
  /\ parents = load.init
  /\ Edges = [x \in Vertices |-> empty_edge]
  /\ todo = load.ops /\ asked = load.queries /\ relabel = Vertices /\ phase = "unite"
  /\ pc = [t \in Threads |-> "idle"]
  /\ op = [t \in Threads |-> NoOp]
  /\ u = [t \in Threads |-> 0] /\ v = [t \in Threads |-> 0]
  /\ i = [t \in Threads |-> 0] /\ j = [t \in Threads |-> 0] /\ w = [t \in Threads |-> 0]
  /\ ret = [t \in Threads |-> "idle"]

-----------------------------------------------------------------------------
(* Calls.  The locals of a finished call are reset, they are dead.         *)

CallFind(t, x, to) ==
  /\ i' = Set(i, t, x) /\ ret' = Set(ret, t, to)
  /\ Goto(t, "find")
  /\ UNCHANGED <<j, w>>

ReturnFind(t, x) ==
  /\ i' = Set(i, t, x) /\ j' = Set(j, t, 0) /\ w' = Set(w, t, 0)
  /\ Goto(t, ret[t])
  /\ UNCHANGED ret

EndIteration(t) ==
  /\ Goto(t, "idle")
  /\ op' = Set(op, t, NoOp) /\ u' = Set(u, t, 0) /\ v' = Set(v, t, 0)
  /\ i' = Set(i, t, 0) /\ j' = Set(j, t, 0) /\ w' = Set(w, t, 0)
  /\ ret' = Set(ret, t, "idle")

-----------------------------------------------------------------------------
(* find_naive                                                              *)

NaiveTest(t) ==
  /\ At(t, "find") /\ find_option = "find_naive"
  /\ \/ parents[i[t]] = i[t] /\ ReturnFind(t, i[t])
     \/ parents[i[t]] # i[t] /\ Goto(t, "naive_next") /\ UNCHANGED finds
  /\ UNCHANGED <<parents, Edges, choices, loops, args>>

NaiveNext(t) ==
  /\ At(t, "naive_next")
  /\ i' = Set(i, t, parents[i[t]])
  /\ Goto(t, "find")
  /\ UNCHANGED <<parents, Edges, choices, loops, args, j, w, ret>>

-----------------------------------------------------------------------------
(* find_compress: climb to a root j, then point the path at it with plain  *)
(* stores as long as that lowers the parent that was read.                 *)

CompressTest(t) ==
  /\ At(t, "find") /\ find_option = "find_compress"
  /\ \/ parents[i[t]] = i[t] /\ ReturnFind(t, i[t])
     \/ /\ parents[i[t]] # i[t]
        /\ j' = Set(j, t, i[t])
        /\ Goto(t, "climb")
        /\ UNCHANGED <<i, w, ret>>
  /\ UNCHANGED <<parents, Edges, choices, loops, args>>

Climb(t) ==
  /\ At(t, "climb")
  /\ j' = Set(j, t, parents[j[t]])
  /\ Goto(t, "climb_test")
  /\ UNCHANGED <<parents, Edges, choices, loops, args, i, w, ret>>

ClimbTest(t) ==
  /\ At(t, "climb_test")
  /\ Goto(t, IF parents[j[t]] = j[t] THEN "squash" ELSE "climb")
  /\ UNCHANGED <<parents, Edges, choices, loops, args, finds>>

\* Mutant: goes on while tmp >= j.
SquashEqual(t) ==
  /\ At(t, "squash")
  /\ LET tmp == parents[i[t]] IN
     \/ /\ tmp >= j[t]
        /\ w' = Set(w, t, tmp)
        /\ Goto(t, "squash_store")
        /\ UNCHANGED <<i, j, ret>>
     \/ ~(tmp >= j[t]) /\ ReturnFind(t, j[t])
  /\ UNCHANGED <<parents, Edges, choices, loops, args>>

Squash(t) ==
  /\ At(t, "squash")
  /\ LET tmp == parents[i[t]] IN
     \/ /\ tmp > j[t]
        /\ w' = Set(w, t, tmp)
        /\ Goto(t, "squash_store")
        /\ UNCHANGED <<i, j, ret>>
     \/ ~(tmp > j[t]) /\ ReturnFind(t, j[t])
  /\ UNCHANGED <<parents, Edges, choices, loops, args>>

SquashStore(t) ==
  /\ At(t, "squash_store")
  /\ parents' = [parents EXCEPT ![i[t]] = j[t]]
  /\ i' = Set(i, t, w[t])
  /\ Goto(t, "squash")
  /\ UNCHANGED <<Edges, choices, loops, args, j, w, ret>>

-----------------------------------------------------------------------------
(* find_atomic_split and find_atomic_halve: swing parents[i] from the      *)
(* parent j to the grandparent w that was read.                            *)

Splitting == {"find_atomic_split", "find_atomic_halve"}

ReadParent(t) ==
  /\ At(t, "find") /\ find_option \in Splitting
  /\ j' = Set(j, t, parents[i[t]])
  /\ Goto(t, "grandparent")
  /\ UNCHANGED <<parents, Edges, choices, loops, args, i, w, ret>>

ReadGrandparent(t) ==
  /\ At(t, "grandparent")
  /\ LET g == parents[j[t]] IN
     \/ g = j[t] /\ ReturnFind(t, j[t])
     \/ g # j[t] /\ w' = Set(w, t, g) /\ Goto(t, "swing") /\ UNCHANGED <<i, j, ret>>
  /\ UNCHANGED <<parents, Edges, choices, loops, args>>

\* compare_and_swap(&parents[x], old, new)
CasParent(x, from, to) ==
  parents' = IF parents[x] = from THEN [parents EXCEPT ![x] = to] ELSE parents

SwingParent(t) ==
  /\ At(t, "swing")
  /\ CasParent(i[t], j[t], w[t])
  /\ \/ /\ find_option = "find_atomic_split"
        /\ i' = Set(i, t, j[t])
        /\ Goto(t, "find")
     \/ /\ find_option = "find_atomic_halve"
        /\ Goto(t, "halve_next")
        /\ UNCHANGED i
  /\ UNCHANGED <<Edges, choices, loops, args, j, w, ret>>

HalveNext(t) ==
  /\ At(t, "halve_next")
  /\ i' = Set(i, t, parents[i[t]])
  /\ Goto(t, "find")
  /\ UNCHANGED <<parents, Edges, choices, loops, args, j, w, ret>>

Find(t) ==
  \/ NaiveTest(t) \/ NaiveNext(t)
  \/ CompressTest(t) \/ Climb(t) \/ ClimbTest(t) \/ Squash(t) \/ SquashStore(t)
  \/ ReadParent(t) \/ ReadGrandparent(t) \/ SwingParent(t) \/ HalveNext(t)

-----------------------------------------------------------------------------
(* compute_components: unite every edge, then find every vertex.           *)
(* process_batch: insertions and queries in one loop, or the queries after *)
(* the insertions.                                                         *)

\* Mutant: takes the neighbour one past the one that was read.
TakeNextEdge(t) ==
  /\ At(t, "idle") /\ phase = "unite"
  /\ \E o \in todo :
       /\ todo' = todo \ {o}
       /\ op' = Set(op, t, o) /\ u' = Set(u, t, o[1] + 1) /\ v' = Set(v, t, o[2])
  /\ Goto(t, "unite")
  /\ UNCHANGED <<parents, Edges, choices, asked, relabel, phase, finds>>

TakeEdge(t) ==
  /\ At(t, "idle") /\ phase = "unite"
  /\ \E o \in todo :
       /\ todo' = todo \ {o}
       /\ op' = Set(op, t, o) /\ u' = Set(u, t, o[1]) /\ v' = Set(v, t, o[2])
  /\ Goto(t, "unite")
  /\ UNCHANGED <<parents, Edges, choices, asked, relabel, phase, finds>>

Idle == \A t \in Threads : At(t, "idle")

\* A query finds both ends, one after the other, and drops what it found.
TakeQuery(t) ==
  /\ At(t, "idle")
  /\ phase = IF load.kind = "mixed_batch" THEN "unite" ELSE "query"
  /\ \E q \in asked :
       /\ asked' = asked \ {q}
       /\ u' = Set(u, t, q[1]) /\ v' = Set(v, t, q[2])
       /\ CallFind(t, q[1], "queried_u")
  /\ UNCHANGED <<parents, Edges, choices, todo, relabel, phase, op>>

QueryV(t) ==
  /\ At(t, "queried_u")
  /\ u' = Set(u, t, v[t])
  /\ CallFind(t, v[t], "queried_v")
  /\ UNCHANGED <<parents, Edges, choices, loops, op, v>>

EndQuery(t) ==
  /\ At(t, "queried_v")
  /\ EndIteration(t)
  /\ UNCHANGED <<parents, Edges, choices, loops>>

\* The barrier after the first loop, and the one at the end.
EndUnites ==
  /\ phase = "unite" /\ todo = {} /\ Idle
  /\ load.kind = "mixed_batch" => asked = {}
  /\ phase' = CASE load.kind = "components" -> "find"
                [] load.kind = "mixed_batch" -> "done"
                [] load.kind = "reordered_batch" -> "query"
  /\ UNCHANGED <<parents, Edges, choices, todo, asked, relabel, pc, args, finds>>

TakeVertex(t) ==
  /\ At(t, "idle") /\ phase = "find"
  /\ \E x \in relabel :
       /\ relabel' = relabel \ {x}
       /\ u' = Set(u, t, x)
       /\ CallFind(t, x, "relabel")
  /\ UNCHANGED <<parents, Edges, choices, todo, asked, phase, op, v>>

Relabel(t) ==
  /\ At(t, "relabel")
  /\ parents' = [parents EXCEPT ![u[t]] = i[t]]
  /\ EndIteration(t)
  /\ UNCHANGED <<Edges, choices, loops>>

Finish ==
  /\ \/ phase = "find" /\ relabel = {}
     \/ phase = "query" /\ asked = {}
  /\ Idle
  /\ phase' = "done"
  /\ UNCHANGED <<parents, Edges, choices, todo, asked, relabel, pc, args, finds>>

Done == phase = "done" /\ UNCHANGED ufVars

Loop(t) == TakeEdge(t) \/ TakeQuery(t) \/ QueryV(t) \/ EndQuery(t) \/ TakeVertex(t) \/ Relabel(t)

-----------------------------------------------------------------------------
(* What the unite variants, which come with labels of their own, must keep. *)

\* Every variable has its type: a vertex is never UINT_E_MAX where it indexes.
UFTypeOK(labels, returns) ==
  /\ parents \in [Vertices -> Vertices]
  /\ Edges \in [Vertices -> Ops \cup {empty_edge}]
  /\ find_option \in FindOptions /\ unite_option \in UniteOptions /\ load \in Workloads
  /\ todo \subseteq load.ops /\ asked \subseteq load.queries /\ relabel \subseteq Vertices
  /\ phase \in {"unite", "query", "find", "done"}
  /\ op \in [Threads -> load.ops \cup {NoOp}]
  /\ u \in [Threads -> Vertices] /\ v \in [Threads -> Vertices]
  /\ i \in [Threads -> Vertices] /\ j \in [Threads -> Vertices] /\ w \in [Threads -> Vertices]
  /\ pc \in [Threads -> labels] /\ ret \in [Threads -> returns]

\* Parents never point up, whatever the threads interleave: so the array is a
\* forest, and every climb of find ends.
ParentOrder == \A x \in Vertices : parents[x] <= x

-----------------------------------------------------------------------------
(* The trees of the parents array and the components of the graph.         *)

\* The N-th ancestor of each vertex.
Ancestor ==
  LET up[n \in 0..N] ==
        IF n = 0 THEN [x \in Vertices |-> x]
        ELSE LET below == up[n - 1] IN [x \in Vertices |-> parents[below[x]]]
  IN up[N]
Trees == LET root == Ancestor IN {{y \in Vertices : root[y] = root[x]} : x \in Vertices}

\* The vertices that a set of links, read both ways, connects to x.
Component(x, links) ==
  LET near(s) == s \cup {y \in Vertices : \E z \in s : <<y, z>> \in links \/ <<z, y>> \in links}
      grown[n \in 0..N] == IF n = 0 THEN {x} ELSE near(grown[n - 1])
  IN grown[N]
Components(links) == {Component(x, links) : x \in Vertices}

\* Maps that are constant on the components of the graph.
Colourings ==
  {c \in [Vertices -> Vertices] :
     /\ \A e \in load.ops : c[e[1]] = c[e[2]]
     /\ \A x \in Vertices : c[load.init[x]] = c[x]}

Graph == load.ops \cup {<<x, load.init[x]>> : x \in Vertices}

\* No parent lies in another component of the graph, at any time: whatever map
\* is constant on the components does not tell a vertex from its parent.
ParentsStayInside ==
  \A c \in Colourings : \A x \in Vertices : c[parents[x]] = c[x]

\* When the loops are done the vertices of a component of the graph, and no
\* others, share a label: what cc_check compares with a sequential algorithm
\* (benchmarks/Connectivity/ConnectIt/mains/check.h:48-73).  A batch leaves
\* trees, and labels to the finds that follow.
LabelsAreComponents ==
  phase = "done" =>
    Components(Graph) = IF load.kind = "components"
                        THEN {{y \in Vertices : parents[y] = parents[x]} : x \in Vertices}
                        ELSE Trees

\* The recorded calls form a spanning forest: one for each vertex but one of a
\* component, and they connect what the graph connects
\* (check_spanning_forest, benchmarks/SpanningForest/check.h:87-111).
ForestSpans ==
  phase = "done" =>
    LET forest == {Edges[x] : x \in Vertices} \ {empty_edge}
        start == {<<x, load.init[x]>> : x \in Vertices}
    IN /\ Components(forest \cup start) = Components(Graph)
       /\ Cardinality({x \in Vertices : Edges[x] # empty_edge})
            = Cardinality(Components(start)) - Cardinality(Components(Graph))

\* What the caller gets in the end: labels and a spanning forest.
LabelsAndForest == LabelsAreComponents /\ ForestSpans

\* unite is linearizable: each call merges the trees of its arguments in one
\* step, no step separates vertices, and a call returns once they are together.
Calling == {op[t] : t \in Threads} \ {NoOp}
Sets == INSTANCE DisjointSets
          WITH Elements <- Vertices, Calls <- Ops, sets <- Trees,
               waiting <- todo, active <- Calling
Linearizable == Sets!DSSpec
=============================================================================
