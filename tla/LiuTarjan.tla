------------------------------ MODULE LiuTarjan ------------------------------
(***************************************************************************)
(* The Liu-Tarjan framework (benchmarks/Connectivity/LiuTarjan): rounds of *)
(* connect, update, shortcut and alter over an edge list or the graph      *)
(* itself, static and batch-incremental.                                   *)
(*                                                                         *)
(* connect reads P and lowers messages with write_min, update and alter    *)
(* write only their own index: each of these loops is one action, in every *)
(* order the same.  shortcut reads the parent of another vertex while that *)
(* one is being shortcut, and the update loop of process_batch reads the   *)
(* parents it then updates: these loops take one iteration at a time.      *)
(*                                                                         *)
(* largest_comp, the label of the sampled component, is N; it is the least *)
(* in the order of labels (lt_less).                                       *)
(***************************************************************************)
EXTENDS SmallGraphs, Integers

CONSTANTS
  N,
  Starts,      \* [graph, labels, frequent], as in ShiloachVishkin
  Variants,    \* [connect, update, shortcut, alter]: template parameters
  Batches, MaxBatches

V == 0..(N - 1)
largest_comp == N
Label == 0..N

LTAssumption ==
  /\ N \in Nat \ {0} /\ MaxBatches \in Nat
  \* simple_connect is only composed with alter
  /\ \A a \in Variants : a.connect = "simple" => a.alter
  /\ Variants \subseteq
       [connect : {"simple", "parent", "extended"}, update : {"simple", "root"},
        shortcut : {"shortcut", "full"}, alter : BOOLEAN]

VARIABLES
  graph,       \* the edges the answer must account for
  alg,         \* the variant, chosen once
  P, messages,
  flags,       \* vertices already handled in a loop of process_batch
  frequent,    \* the label sampling found most frequent; N without sampling
  edges,       \* graph or inserts: what connect runs over
  batch,       \* [ins, qry] of process_batch; NoBatch in compute_components
  seen,        \* the parents that iterations of the update loop have read
  pending,     \* iterations of the current loop not done yet
  changed,     \* parents_changed
  phase, left

ltVars == <<graph, alg, P, messages, flags, frequent, edges, batch, seen, pending,
            changed, phase, left>>
NoBatch == [ins |-> {}, qry |-> {}]
Static == batch = NoBatch

Rank(x) == IF x = largest_comp THEN -1 ELSE x
lt_less(x, y) == Rank(x) < Rank(y)
lt_min(S) == CHOOSE x \in S : \A y \in S : Rank(x) <= Rank(y)
lt_max(S) == CHOOSE x \in S : \A y \in S : Rank(y) <= Rank(x)
\* P[x], and largest_comp for itself.
Up(p, x) == IF x = largest_comp THEN x ELSE p[x]
RootOf(p, x) == Root([y \in 0..N |-> Up(p, y)], x)
AlterAll(p, E) == {<<Up(p, e[1]), Up(p, e[2])>> : e \in E}
Ends(E) == UNION {{e[1], e[2]} : e \in E}

-----------------------------------------------------------------------------
\* SamplingAlgorithmTemplate::components relabels the frequent component as
\* largest_comp.  my_alter(P) runs before the first round of the edge list.
StartStatic ==
  \E s \in Starts :
    /\ graph = s.graph /\ frequent = s.frequent
    /\ P = [v \in V |-> IF s.labels[v] = s.frequent THEN largest_comp ELSE s.labels[v]]
    /\ edges = IF alg.alter THEN AlterAll(P, s.graph) ELSE s.graph
    /\ changed = TRUE /\ phase = "connect" /\ left = 0

\* run_abstract_alg starts from the labels of an initial graph.
StartIncremental ==
  \E s \in Starts :
    /\ alg.connect = "parent" /\ alg.update = "root" /\ s.frequent = N
    /\ graph = s.graph /\ frequent = N /\ edges = {}
    /\ P = MinLabels(V, s.graph)
    /\ changed = FALSE /\ phase = "done" /\ left = MaxBatches

Init ==
  /\ alg \in Variants
  /\ StartStatic \/ StartIncremental
  /\ messages = [v \in V |-> v] /\ flags = [v \in V |-> FALSE]
  /\ batch = NoBatch /\ seen = <<>> /\ pending = {}

-----------------------------------------------------------------------------
(* connect, parent_connect and extended_connect: the <<target, label>> that *)
(* an edge sends.                                                           *)

Send(e) ==
  LET x == Up(P, e[1])  y == Up(P, e[2])
  IN CASE alg.connect = "simple" -> {<<lt_max({e[1], e[2]}), lt_min({e[1], e[2]})>>}
       [] alg.connect = "parent" -> {<<lt_max({x, y}), lt_min({x, y})>>}
       [] alg.connect = "extended" /\ lt_less(y, x) -> {<<e[1], y>>, <<x, y>>}
       [] alg.connect = "extended" /\ lt_less(x, y) -> {<<y, x>>, <<e[2], x>>}
       [] OTHER -> {}

\* The static loop over the graph leaves out vertices with the frequent label.
Live == IF Static /\ ~alg.alter THEN {e \in edges : P[e[1]] # largest_comp} ELSE edges
Sent == {m \in UNION {Send(e) : e \in Live} : m[1] # m[2]}

Connect ==
  /\ phase = "connect"
  /\ messages' = [v \in V |-> lt_min({messages[v]} \cup {m[2] : m \in {k \in Sent : k[1] = v}})]
  /\ changed' = (\E m \in Sent : lt_less(m[2], messages[m[1]]))
  /\ phase' = "update"
  /\ pending' = IF Static THEN {} ELSE edges
  /\ UNCHANGED <<graph, alg, P, flags, frequent, edges, batch, seen, left>>

\* simple_update and root_update.
Updated(p, u) == IF alg.update = "simple" \/ p[u] = u THEN lt_min({p[u], messages[u]})
                 ELSE p[u]

Update ==
  /\ phase = "update" /\ Static
  /\ P' = [u \in V |-> Updated(P, u)]
  /\ phase' = "shortcut" /\ pending' = V
  /\ UNCHANGED <<graph, alg, messages, flags, frequent, edges, batch, seen, changed, left>>

\* An iteration of the update loop of process_batch reads both parents ...
ReadParents(e) ==
  /\ phase = "update" /\ e \in pending
  /\ pending' = pending \ {e}
  /\ seen' = [f \in DOMAIN seen \cup {e} |->
                IF f = e THEN <<P[e[1]], P[e[2]]>> ELSE seen[f]]
  /\ UNCHANGED <<graph, alg, P, messages, flags, frequent, edges, batch, changed, phase, left>>

\* ... and updates the two ends and the two parents, each that no iteration
\* flagged before it.
UpdateFour(e) ==
  /\ phase = "update" /\ e \in DOMAIN seen
  /\ LET four == {e[1], e[2], seen[e][1], seen[e][2]}
     IN /\ P' = [u \in V |-> IF u \in four /\ ~flags[u] THEN Updated(P, u) ELSE P[u]]
        /\ flags' = [u \in V |-> flags[u] \/ u \in four]
  /\ seen' = [f \in DOMAIN seen \ {e} |-> seen[f]]
  /\ UNCHANGED <<graph, alg, messages, frequent, edges, batch, pending, changed, phase, left>>

\* The flags the second loop resets: those of the ends and of their parents,
\* which the update may have replaced since they were flagged.
Reset == Ends(edges) \cup {P[x] : x \in Ends(edges)}

UpdateDone ==
  /\ phase = "update" /\ ~Static /\ pending = {} /\ seen = <<>>
  /\ LET flagged == [u \in V |-> flags[u] /\ u \notin Reset]
     IN /\ pending' = {u \in Ends(edges) : ~flagged[u]}
        /\ flags' = flagged
  /\ phase' = "shortcut"
  /\ UNCHANGED <<graph, alg, P, messages, frequent, edges, batch, seen, changed, left>>

\* shortcut and root_shortcut; the batch loop also sets messages[u].
Shortcut(u) ==
  /\ phase = "shortcut" /\ u \in pending
  /\ pending' = pending \ {u}
  /\ P' = [P EXCEPT ![u] = IF alg.shortcut = "full" THEN RootOf(P, u) ELSE Up(P, P[u])]
  /\ messages' = IF Static THEN messages ELSE [messages EXCEPT ![u] = P'[u]]
  /\ UNCHANGED <<graph, alg, flags, frequent, edges, batch, seen, changed, phase, left>>

\* The end of a round: alter, which drops the edges inside a tree from a batch,
\* and another round if some message was lowered.
EndRound ==
  /\ phase = "shortcut" /\ pending = {}
  /\ edges' = IF ~alg.alter THEN edges
              ELSE IF Static THEN AlterAll(P, edges)
              ELSE {e \in AlterAll(P, edges) : e[1] # e[2]}
  /\ flags' = [u \in V |-> flags[u] /\ u \notin Ends(edges)]
  /\ phase' = IF changed THEN "connect" ELSE IF Static THEN "done" ELSE "query"
  /\ UNCHANGED <<graph, alg, P, messages, frequent, batch, seen, pending, changed, left>>

\* The query loop takes its ends from the front of the batch as it came in:
\* as many updates as there are queries, whichever they are.
Queries ==
  /\ phase = "query"
  /\ \E front \in SUBSET (batch.ins \cup batch.qry) :
       /\ Cardinality(front) = Cardinality(batch.qry)
       /\ P' = [u \in V |-> IF u \in Ends(front) THEN RootOf(P, u) ELSE P[u]]
  /\ phase' = "done" /\ edges' = {}
  /\ UNCHANGED <<graph, alg, messages, flags, frequent, batch, seen, pending, changed, left>>

StartBatch ==
  /\ phase = "done" /\ left > 0
  /\ \E b \in Batches :
       /\ batch' = b /\ edges' = b.ins /\ graph' = graph \cup Sym(b.ins)
  /\ left' = left - 1
  /\ changed' = TRUE /\ phase' = "connect"
  /\ UNCHANGED <<alg, P, messages, flags, frequent, seen, pending>>

Round ==
  \/ Connect \/ Update \/ UpdateDone \/ EndRound \/ Queries
  \/ \E e \in edges : ReadParents(e) \/ UpdateFour(e)
  \/ \E u \in V : Shortcut(u)
Next == Round \/ StartBatch

Spec == Init /\ [][Next]_ltVars
FairSpec == Spec /\ WF_ltVars(Round)
-----------------------------------------------------------------------------
\* Where each vertex ends; the relabelling after sampling names largest_comp
\* by the frequent label again.
Labels == [v \in V |-> RootOf(P, v)]

\* No message is addressed to largest_comp, which is no index of messages.
TypeOK ==
  /\ P \in [V -> 0..N] /\ messages \in [V -> 0..N]
  /\ \A m \in Sent : m[1] \in V

\* Vertices come together only when edges connect them.
NeverOverMerges == Refines(V, Labels, MinLabels(V, graph))

\* messages are never reset, so a write_min can fail on a label that its vertex,
\* no root by then, never took.  Variants that shortcut to the root, send to the
\* vertex itself, or replace their edges by those between parents lose nothing by it.
KeepsUnions ==
  \/ alg.shortcut = "full" \/ alg.connect = "extended"
  \/ alg.connect = "parent" /\ alg.alter

\* When their rounds stop, all edges of the graph, or of the first batch after an
\* initial graph, are inside trees.
NoEdgeLost ==
  phase = "done" /\ KeepsUnions /\ (Static \/ left = MaxBatches - 1) =>
    SamePartition(V, Labels, MinLabels(V, graph))

\* What cc_check asserts of every variant (ConnectIt/mains/liutarjan_*.cc), as far as
\* it is about trees.  The other variants lose a union on a path of six vertices.
UnionsKept == phase = "done" /\ Static => SamePartition(V, Labels, MinLabels(V, graph))

\* What run_abstract_alg checks after every batch.  No variant keeps it: after the
\* insertions (3,2) and (2,0) in batches of their own, (3,1) sends 1 to 2, the parent
\* 3 still has; messages[2] is 0, nothing changes, and the union with 1 is lost.
BatchesKept == phase = "done" => SamePartition(V, Labels, MinLabels(V, graph))

\* With the full shortcut every vertex then holds its label itself.
FlatAtEnd == (phase = "done" /\ left = 0 /\ Static /\ alg.shortcut = "full") => P = Labels

\* cc_check compares these labels for every variant, but one shortcut in a round does
\* not make paths flat before the messages stop: on 0-1-2-3-4-5 P[5] is 1 in the end.
FlatWithShortcut == (phase = "done" /\ left = 0 /\ Static) => P = Labels

Terminates == <>[](phase = "done")
=============================================================================
