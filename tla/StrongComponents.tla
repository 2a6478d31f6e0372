--------------------------- MODULE StrongComponents ---------------------------
(***************************************************************************)
(* Strongly connected components by searches from ever more centers        *)
(* (StronglyConnectedComponents/RandomGreedyBGSS16 and BGSS16-Filtering).  *)
(* A vertex with no in- or no out-edge is a component of its own.  A round *)
(* searches backward and forward from several centers at once, and keeps   *)
(* <<vertex, label>> pairs in a table; vertices reached both ways by a     *)
(* center are finished, the others are divided into subproblems: "greedy"  *)
(* gives them the largest label that reached them, "filter" removes the    *)
(* edges between them from a packed graph (GraphFilter).                   *)
(***************************************************************************)
EXTENDS Integers, Sequences, FiniteSets, SmallGraphs

CONSTANTS
  Inputs,        \* [alg, n, graph (a set of <<u, v>>), order]: order is the random shuffle
  BetaNum, BetaDen  \* the factor between the steps of two rounds

StrongComponentsAssumption ==
  /\ BetaNum \in Nat /\ BetaDen \in Nat \ {0} /\ BetaNum >= BetaDen
  /\ \A x \in Inputs : x.alg \in {"greedy", "filter"}

VARIABLES
  si, labels, out, in,   \* labels; the out- and in-lists of the graph that is searched
  Q, step, offset, label_offset, round,
  centers,               \* vertex -> label, of this round
  table,                 \* the search that runs: pairs <<vertex, label>>
  frontier, bits, edges, \* edges: those of the frontier no worker has taken
  reads,                 \* edge -> the labels its worker read at the source
  elts,                  \* the vertices the search has had in a frontier
  bound,                 \* what maybe_resize made room for
  in_done,               \* [table, elts] of the backward search
  phase                  \* "init", "first", "round", "in", "out", "finish" or "done"

sccVars == <<si, labels, out, in, Q, step, offset, label_offset, round, centers, table,
             frontier, bits, edges, reads, elts, bound, in_done, phase>>

TOP_BIT == 1000
kUnfinished == 1000
Verts == 0..(si.n - 1)
Greedy == si.alg = "greedy"
OutDeg(v) == Cardinality({e \in si.graph : e[1] = v})
InDeg(v) == Cardinality({e \in si.graph : e[2] = v})
Zero == {v \in Verts : OutDeg(v) = 0 \/ InDeg(v) = 0}
Finished(v) == IF Greedy THEN labels[v] >= TOP_BIT ELSE labels[v] # kUnfinished
ToSet(s) == {s[i] : i \in DOMAIN s}

Init ==
  /\ si \in Inputs
  /\ labels = << >> /\ out = si.graph /\ in = si.graph
  /\ Q = << >> /\ step = 1 /\ offset = 0 /\ label_offset = 0 /\ round = 0
  /\ centers = << >> /\ table = {} /\ frontier = {} /\ bits = {} /\ edges = {} /\ reads = << >>
  /\ elts = {} /\ bound = 0 /\ in_done = [table |-> {}, elts |-> {}] /\ phase = "init"

\* The vertices first_search reaches from start along E: through vertices that
\* are not finished, or not in zero.
first_search(E, start) ==
  LET stop == IF Greedy THEN {v \in Verts : Finished(v)} ELSE Zero
  IN Reach(Verts, {e \in E : e[2] \notin stop}, {start}) \cup (IF Greedy THEN {} ELSE Zero)
Reverse(E) == {<<e[2], e[1]>> : e \in E}
Both(v, label, inv, outv) ==
  IF v \in inv /\ v \in outv THEN label + TOP_BIT
  ELSE IF v \in inv \/ v \in outv THEN label ELSE labels[v]

\* Labels of the vertices in zero.
Start ==
  /\ phase = "init"
  /\ LET pos(v) == Cardinality({u \in Zero : u < v})
     IN labels' = [v \in Verts |->
          IF v \notin Zero THEN (IF Greedy THEN 0 ELSE kUnfinished)
          ELSE IF Greedy THEN TOP_BIT + 1 + pos(v) ELSE pos(v)]
  /\ label_offset' = Cardinality(Zero) + (IF Greedy THEN 1 ELSE 0)
  /\ phase' = "first"
  /\ UNCHANGED <<si, out, in, Q, step, offset, round, centers, table, frontier, bits, edges,
                 reads, elts, bound, in_done>>
\* The greedy one searches once from a vertex of greatest out-degree, unless
\* that is finished; then the shuffled vertices that are left are queued.
FirstSearch ==
  /\ phase = "first"
  /\ LET start == CHOOSE v \in Verts : \A u \in Verts : OutDeg(u) < OutDeg(v) \/ (OutDeg(u) = OutDeg(v) /\ u <= v)
         skip == ~Greedy \/ Finished(start)
         inv == first_search(Reverse(si.graph), start)
         outv == first_search(si.graph, start)
     IN /\ labels' = IF skip THEN labels ELSE [v \in Verts |-> Both(v, label_offset, inv, outv)]
        /\ label_offset' = IF skip THEN label_offset ELSE label_offset + 1
  /\ Q' = SelectSeq(si.order, LAMBDA v : IF Greedy THEN labels'[v] < TOP_BIT ELSE ~Finished(v))
  /\ phase' = "round"
  /\ UNCHANGED <<si, out, in, step, offset, round, centers, table, frontier, bits, edges, reads,
                 elts, bound, in_done>>

-----------------------------------------------------------------------------
\* A round takes the next step vertices of Q, those of them not finished as its
\* centers.  The first round's center is searched for alone.
end == Least({offset + step, Len(Q)})
Chosen == SelectSeq(SubSeq(Q, offset + 1, end), LAMBDA v : ~Finished(v))
CenterLabels == [v \in ToSet(Chosen) |->
                   label_offset + (CHOOSE i \in DOMAIN Chosen : Chosen[i] = v) - 1]
Advance ==
  /\ step' = (step * BetaNum + BetaDen - 1) \div BetaDen
  /\ offset' = end /\ round' = round + 1
  /\ label_offset' = label_offset + Len(Chosen)
NoCenters ==
  /\ phase = "round" /\ offset < Len(Q) /\ Chosen = << >> /\ Advance
  /\ UNCHANGED <<si, labels, out, in, Q, centers, table, frontier, bits, edges, reads, elts,
                 bound, in_done, phase>>
FirstRound ==
  /\ phase = "round" /\ offset < Len(Q) /\ Chosen # << >> /\ round = 0 /\ Advance
  /\ LET inv == first_search(Reverse(si.graph), Head(Chosen))
         outv == first_search(si.graph, Head(Chosen))
         found == {v \in inv \cap outv : ~Finished(v)}
         keep == {e \in si.graph : /\ \A v \in {e[1], e[2]} : v \notin found /\ ~Finished(v)
                                   /\ e[1] \in inv <=> e[2] \in inv
                                   /\ e[1] \in outv <=> e[2] \in outv}
     IN IF Greedy
        THEN /\ labels' = [v \in Verts |-> Both(v, label_offset, inv, outv)]
             /\ UNCHANGED <<out, in>>
        ELSE /\ labels' = [v \in Verts |-> IF v \in found THEN label_offset ELSE labels[v]]
             /\ out' = keep /\ in' = keep
  /\ UNCHANGED <<si, Q, centers, table, frontier, bits, edges, reads, elts, bound, in_done, phase>>

\* What a search walks along, from a vertex to its neighbour.
Steps == IF phase = "in" THEN Reverse(in) ELSE out
LabelsAt(v) == {t[2] : t \in {p \in table : p[1] = v}}
Searchable(e) == IF Greedy THEN labels[e[1]] = labels[e[2]] /\ ~Finished(e[2]) ELSE TRUE
\* Before an edgeMap the table is given room for the pairs that its frontier
\* can add: of each vertex its labels times its neighbours in its subproblem.
work_upperbound(F) ==
  LET pairs == {p \in table : p[1] \in F}
  IN Cardinality({<<p, e>> \in pairs \X Steps :
       e[1] = p[1] /\ (Greedy => labels[e[1]] = labels[e[2]])})
StartSearch ==
  /\ phase = "round" /\ offset < Len(Q) /\ Chosen # << >> /\ round > 0 /\ Advance
  /\ centers' = CenterLabels
  /\ table' = {<<v, CenterLabels[v]>> : v \in ToSet(Chosen)} /\ frontier' = ToSet(Chosen)
  /\ edges' = {} /\ reads' = << >> /\ elts' = {} /\ bound' = Len(Chosen) /\ phase' = "in"
  /\ UNCHANGED <<si, labels, out, in, Q, bits, in_done>>
\* Mutant: the flags are not reset.
KeptBits(F) == bits
ResetBits(F) == bits \ F
EdgeMap ==
  /\ phase \in {"in", "out"} /\ frontier # {} /\ edges = {} /\ DOMAIN reads = {}
  /\ edges' = {e \in Steps : e[1] \in frontier}
  /\ bound' = Cardinality(table) + work_upperbound(frontier)
  /\ bits' = ResetBits(frontier) /\ elts' = elts \cup frontier
  /\ frontier' = {}
  /\ UNCHANGED <<si, labels, out, in, Q, step, offset, label_offset, round, centers, table,
                 reads, in_done, phase>>
\* updateAtomic reads the labels of the source one by one, inserts each at the
\* target, and puts the target in the next frontier if one was new.
ReadLabels(e) ==
  /\ e \in edges /\ edges' = edges \ {e}
  /\ reads' = IF Searchable(e) THEN [x \in DOMAIN reads \cup {e} |-> IF x = e THEN LabelsAt(e[1]) ELSE reads[x]]
              ELSE reads
  /\ UNCHANGED <<si, labels, out, in, Q, step, offset, label_offset, round, centers, table,
                 frontier, bits, elts, bound, in_done, phase>>
InsertLabels(e) ==
  /\ e \in DOMAIN reads
  /\ table' = table \cup {<<e[2], l>> : l \in reads[e]}
  /\ LET wins == table' # table /\ e[2] \notin bits
     IN /\ bits' = IF wins THEN bits \cup {e[2]} ELSE bits
        /\ frontier' = IF wins THEN frontier \cup {e[2]} ELSE frontier
  /\ reads' = [x \in DOMAIN reads \ {e} |-> reads[x]]
  /\ UNCHANGED <<si, labels, out, in, Q, step, offset, label_offset, round, centers, edges,
                 elts, bound, in_done, phase>>
Drained == edges = {} /\ DOMAIN reads = {} /\ frontier = {}
\* The forward search starts from the centers again.
NextSearch ==
  /\ phase = "in" /\ Drained
  /\ in_done' = [table |-> table, elts |-> elts]
  /\ table' = {<<v, centers[v]>> : v \in DOMAIN centers} /\ frontier' = DOMAIN centers
  /\ elts' = {} /\ bound' = Cardinality(DOMAIN centers) /\ phase' = "out"
  /\ UNCHANGED <<si, labels, out, in, Q, step, offset, label_offset, round, centers, bits,
                 edges, reads>>

\* The tables are intersected: write_max, or write_min for the filtering one.
Combine ==
  /\ phase = "out" /\ Drained
  /\ LET both == table \cap in_done.table
         any == table \cup in_done.table
         max(v) == Greatest({labels[v]} \cup {t[2] + TOP_BIT : t \in {p \in both : p[1] = v}}
                                \cup {t[2] : t \in {p \in any : p[1] = v}})
         min(v) == Least({labels[v]} \cup {t[2] : t \in {p \in both : p[1] = v}})
     IN labels' = [v \in Verts |-> IF Greedy THEN max(v) ELSE min(v)]
  /\ phase' = IF Greedy THEN "round" ELSE "finish"
  /\ in_done' = IF Greedy THEN [table |-> {}, elts |-> {}] ELSE in_done
  /\ table' = IF Greedy THEN {} ELSE table
  /\ UNCHANGED <<si, out, in, Q, step, offset, label_offset, round, centers, frontier, bits,
                 edges, reads, elts, bound>>
\* The filtering one prunes around what it reached: the reached vertices, the
\* out-neighbours of those reached backward and the in-neighbours of those
\* reached forward.  Finished ones lose their lists, the others the edges to
\* vertices of another label or that another number of centers reached.
to_process == elts \cup in_done.elts \cup {e[2] : e \in {d \in out : d[1] \in in_done.elts}}
                \cup {e[1] : e \in {d \in in : d[2] \in elts}}
Prune ==
  /\ phase = "finish"
  /\ LET in_size(v) == Cardinality({p \in in_done.table : p[1] = v})
         out_size(v) == Cardinality({p \in table : p[1] = v})
         stays(e) == /\ labels[e[1]] = labels[e[2]]
                     /\ in_size(e[1]) = in_size(e[2]) /\ out_size(e[1]) = out_size(e[2])
         cleared == {v \in to_process : Finished(v)}
     IN /\ out' = {e \in out : e[1] \notin cleared /\ (e[1] \in to_process => stays(e))}
        /\ in' = {e \in in : e[2] \notin cleared /\ (e[2] \in to_process => stays(e))}
  /\ table' = {} /\ in_done' = [table |-> {}, elts |-> {}] /\ elts' = {} /\ phase' = "round"
  /\ UNCHANGED <<si, labels, Q, step, offset, label_offset, round, centers, frontier, bits,
                 edges, reads, bound>>

End ==
  /\ phase = "round" /\ offset = Len(Q)
  /\ labels' = IF Greedy THEN [v \in Verts |-> (labels[v] % TOP_BIT) - 1] ELSE labels
  /\ phase' = "done"
  /\ UNCHANGED <<si, out, in, Q, step, offset, label_offset, round, centers, table, frontier,
                 bits, edges, reads, elts, bound, in_done>>

Next ==
  \/ Start \/ FirstSearch \/ NoCenters \/ FirstRound \/ StartSearch \/ EdgeMap \/ NextSearch
  \/ Combine \/ Prune \/ End
  \/ \E e \in edges : ReadLabels(e)
  \/ \E e \in DOMAIN reads : InsertLabels(e)
Progress == Next
Spec == Init /\ [][Next]_sccVars /\ WF_sccVars(Progress)

-----------------------------------------------------------------------------
\* The component of each vertex of the graph.
Sccs ==
  LET r == [u \in Verts |-> Reach(Verts, si.graph, {u})]
  IN [u \in Verts |-> {v \in r[u] : u \in r[v]}]
\* At the end two vertices have the same label when each reaches the other, and
\* labels are small enough for the arrays num_scc and scc_stats index by them.
SccsFound ==
  phase = "done" => /\ (LET c == Sccs IN SamePartition(Verts, labels, c))
                    /\ \A v \in Verts : labels[v] \in 0..si.n

\* A component is never divided: its vertices are finished together, stay in
\* one subproblem and keep the edges between them.
ComponentsStayWhole ==
  phase \in {"round", "in", "out"} =>
    LET c == Sccs
    IN /\ Refines(Verts, c, labels)
       /\ \A e \in si.graph : c[e[1]] = c[e[2]] /\ ~Greedy /\ ~Finished(e[1]) => e \in out \cap in

\* A search leaves nothing out: when its frontier is empty every vertex that a
\* center reaches in its subproblem has the center's label.
SearchComplete ==
  phase \in {"in", "out"} /\ Drained =>
    \A e \in Steps : Searchable(e) => LabelsAt(e[1]) \subseteq LabelsAt(e[2])

\* Out-lists and in-lists are pruned alike, although each list is packed for
\* itself: an edge is in both or in neither, and none is left at a finished
\* vertex, whose lists nobody looks after any more.
ListsMirror ==
  phase = "round" /\ ~Greedy =>
    out = in /\ (round > 0 => \A e \in out : ~Finished(e[1]) /\ ~Finished(e[2]))

Terminates == <>(phase = "done")
\* What maybe_resize is given is an upper bound (`work_upperbound').  No run checks
\* it, as the code does not keep it: it counts the labels that the frontier has
\* before the edge map, and one inserted in the round is passed on in the same round.
RoomForAll == phase \in {"in", "out"} => Cardinality(table) <= bound
=============================================================================
