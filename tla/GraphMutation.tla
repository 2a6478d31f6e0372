---------------------------- MODULE GraphMutation ----------------------------
(***************************************************************************)
(* Graphs in compressed-sparse-row form, how they are built from edge      *)
(* lists (gbbs/graph.h), and the calls that remove edges from them         *)
(* (gbbs/graph_mutation.h, over gbbs/vertex.h).  A vertex's neighbours lie *)
(* in one stretch of the edges; packing shortens the stretch and lowers    *)
(* the degree, in a parallel loop over the vertices, into output and       *)
(* scratch memory that a count of what is to go has laid out before.  An   *)
(* iteration touches its own stretches and is one step.                    *)
(***************************************************************************)
EXTENDS Integers, FiniteSets, SequencesExt, SmallGraphs

CONSTANTS
  kAllocThreshold,  \* from this degree on packing goes through scratch memory
  FirstBase, Base,  \* of the variable-length code: 64 and 128
  Inputs            \* [A, n, sorted, kind, ops]: A the edges <<u, v, weight>>; ops the
                    \* calls [op, one, two, over, no_output]: the pairs that the
                    \* predicate gives 1 or 2, and the vertices of packEdges

InOrder(A, k) == \A i \in 2..Len(A) : A[i - 1][k] <= A[i][k]
GraphMutationAssumption ==
  /\ {FirstBase, Base} \subseteq Nat \ {0, 1} /\ kAllocThreshold \in Nat
  /\ \A x \in Inputs :
       /\ x.kind \in {"csr", "ptr", "directed", "byte"}
       \* the in-edges are not sorted either when the out-edges are said to be
       /\ x.sorted => InOrder(x.A, 1) /\ (x.kind = "directed" => InOrder(x.A, 2))

VARIABLES
  in,
  graph,    \* [vdata, e, m]: offset and degree per vertex, the edges, their number
  inlists,  \* the same for the in-edges of a directed graph
  made,     \* the graph that filter_graph or copy returned last: shared if its
            \* vertices point to the edges of the graph it was made from
  ops,      \* the calls still to come
  offs,     \* of the call under way: where each vertex's output and scratch begin
  arr,      \* its output
  todo,     \* the vertices whose iteration has not run
  live,     \* the neighbours each vertex should have
  wanted,   \* what the call should return
  last,     \* the call that ended last
  phase     \* "ready", "loop" or "aborted"

graphVars == <<in, graph, inlists, made, ops, offs, arr, todo, live, wanted, last, phase>>

V == 0..(in.n - 1)
Unset == <<-1, -1, -1>>
\* scan: the sum of f over the vertices before v.
Before(f, v) ==
  LET sum[u \in 0..v] == IF u = 0 THEN 0 ELSE sum[u - 1] + f[u - 1] IN sum[v]
Nothing == [vdata |-> <<>>, e |-> <<>>, m |-> 0, shared |-> FALSE]

-----------------------------------------------------------------------------
(* Building.                                                               *)

\* integer_sort_inplace by source, which is stable.
SortedBySource(A) == FlattenSeq([v \in 1..in.n |-> SelectSeq(A, LAMBDA x : x[1] = v - 1)])
\* What the loop over the edges writes into starts[j]: one value, as A is in order.
Writes(A, j) ==
  {i - 1 : i \in {k \in DOMAIN A : A[k][1] = j /\ (k = 1 \/ A[k - 1][1] # j)}}
    \cup {i \in 1..(Len(A) - 1) : A[i][1] < j /\ j < A[i + 1][1]}
    \cup {k \in {Len(A)} : k > 0 /\ A[k][1] < j}
Starts(A) == [j \in 0..in.n |-> Least(Writes(A, j) \cup {k \in {0} : Writes(A, j) = {}})]
vertex_data(A, s) ==
  [v \in V |-> [offset |-> s[v],
                degree |-> (IF v = in.n - 1 THEN Len(A) ELSE s[v + 1]) - s[v]]]
get_edges(A, s) ==
  [vdata |-> vertex_data(A, s), e |-> [i \in DOMAIN A |-> <<A[i][2], A[i][3]>>], m |-> Len(A),
   shared |-> FALSE]
from_edges(A) ==
  LET B == IF in.sorted THEN A ELSE SortedBySource(A) IN get_edges(B, Starts(B))
Flipped(A) == [i \in DOMAIN A |-> <<A[i][2], A[i][1], A[i][3]>>]

\* The list of vertex v of the graph g, and what the edges A say it should be.
List(g, v) == SubSeq(g.e, g.vdata[v].offset + 1, g.vdata[v].offset + g.vdata[v].degree)
Given(A, v) ==
  LET mine == SelectSeq(A, LAMBDA x : x[1] = v) IN [i \in DOMAIN mine |-> <<mine[i][2], mine[i][3]>>]

Init ==
  /\ in \in Inputs
  /\ graph = from_edges(in.A)
  /\ inlists = IF in.kind = "directed" THEN from_edges(Flipped(in.A)) ELSE Nothing
  /\ live = [v \in V |-> Given(in.A, v)]
  /\ made = Nothing /\ ops = in.ops
  /\ offs = <<>> /\ arr = <<>> /\ todo = {} /\ wanted = <<>>
  /\ last = [op |-> "built"] /\ phase = "ready"

-----------------------------------------------------------------------------
(* The calls.                                                              *)

op == Head(ops)
Degree(v) == graph.vdata[v].degree
Nghs(v) == List(graph, v)
pred(v, nw) ==
  IF <<v, nw[1]>> \in op.two THEN 2 ELSE IF <<v, nw[1]>> \in op.one THEN 1 ELSE 0
Filtered(v, s) == SelectSeq(s, LAMBDA nw : pred(v, nw) = 2)
Kept(v, s) == SelectSeq(s, LAMBDA nw : pred(v, nw) = 0)
FromVertex(v, s) == [i \in DOMAIN s |-> <<v, s[i][1], s[i][2]>>]

\* The code of a neighbour, after prev or first: the edge and the bytes it takes up.
Digits(x, b) == Least({k \in 1..8 : x < b^k})
FirstBytes(x) == 1 + (IF x < FirstBase THEN 0 ELSE Digits(x \div FirstBase, Base))
Distance(x, y) == IF x < y THEN y - x ELSE x - y
Coded(v, s) ==
  LET bytes(i) == (IF i = 1 THEN FirstBytes(Distance(v, s[1][1]))
                   ELSE Digits(s[i][1] - s[i - 1][1], Base)) + FirstBytes(s[i][2])
  IN FlattenSeq([i \in DOMAIN s |-> <<s[i]>> \o [k \in 1..(bytes(i) - 1) |-> Unset]])

\* What the call returns of vertex v, whose list is s.
Removes == {"filter_edges", "filter_all_edges", "packAllEdges", "packEdges"}
Output(v, s) ==
  CASE op.op \in {"filter_edges", "filter_all_edges", "sample_edges"} -> FromVertex(v, Filtered(v, s))
    [] op.op = "filter_graph" /\ in.kind # "byte" -> Filtered(v, s)
    [] op.op = "filter_graph" /\ in.kind = "byte" -> Coded(v, Filtered(v, s))
    [] op.op = "edges" -> FromVertex(v, s)
    [] op.op = "packEdges" -> IF v \in op.over THEN <<<<v, Len(Kept(v, s))>>>> ELSE <<>>
    [] op.op = "packAllEdges" -> <<>>
Changes(v) == Len(Kept(v, Nghs(v))) < Degree(v)
calculateTemporarySpace(v) == IF Degree(v) < kAllocThreshold THEN 0 ELSE Degree(v)
Space(v) ==
  LET needed == CASE op.op = "filter_edges" -> Changes(v)
                  [] op.op = "sample_edges" -> Output(v, Nghs(v)) # <<>>
                  [] op.op = "packEdges" -> v \in op.over
                  [] op.op \in {"filter_all_edges", "packAllEdges"} -> TRUE
                  [] OTHER -> FALSE
  IN IF needed THEN calculateTemporarySpace(v) ELSE 0

\* filter_edges with no_output makes room for what it then leaves out.
Discards == op.op = "filter_edges" /\ op.no_output

\* 1. count for every vertex, scan the counts, and lay out output and scratch.
LayOut(outs, spaces) ==
  /\ offs' = [v \in 0..in.n |-> [out |-> Before(outs, v), space |-> Before(spaces, v)]]
  /\ arr' = [i \in 1..Before(outs, in.n) |-> Unset]
\* edges() and to_edge_array assert that m is the number of edges they found.
Miscounted == op.op = "edges" /\ graph.m # Before([v \in V |-> Degree(v)], in.n)
Abort ==
  /\ phase = "ready" /\ ops # <<>> /\ Miscounted
  /\ phase' = "aborted"
  /\ UNCHANGED <<in, graph, inlists, made, ops, offs, arr, todo, live, wanted, last>>

Begin ==
  /\ phase = "ready" /\ ops # <<>> /\ op.op # "copy" /\ ~ Miscounted
  /\ LayOut([v \in V |-> Len(Output(v, Nghs(v)))], [v \in V |-> Space(v)])
  /\ todo' = {v \in IF op.op = "packEdges" THEN op.over ELSE V : Degree(v) > 0 \/ op.op = "packEdges"}
  /\ wanted' = LET s == FlattenSeq([v \in 1..in.n |-> Output(v - 1, live[v - 1])])
               IN IF Discards THEN [i \in DOMAIN s |-> Unset] ELSE s
  /\ phase' = "loop"
  /\ UNCHANGED <<in, graph, inlists, made, ops, live, last>>

Place(s, at) == [i \in DOMAIN arr |-> IF i - at \in DOMAIN s THEN s[i - at] ELSE arr[i]]
\* Mutant: the caller does not set the degree.
DegreeKept(v, s) ==
  LET at == graph.vdata[v].offset
  IN [graph EXCEPT !.e = [i \in DOMAIN @ |-> IF i - at \in DOMAIN s THEN s[i - at] ELSE @[i]]]
\* pack: the neighbours that stay, moved to the front of the stretch, and the degree.
Shortened(v, s) ==
  LET at == graph.vdata[v].offset
  IN [graph EXCEPT !.vdata[v].degree = Len(s),
                   !.e = [i \in DOMAIN @ |-> IF i - at \in DOMAIN s THEN s[i - at] ELSE @[i]]]
zeroVertexDegree(v) == [graph EXCEPT !.vdata[v].degree = 0]
After(v) ==
  CASE op.op \in {"packAllEdges", "packEdges"} -> Shortened(v, Kept(v, Nghs(v)))
    [] op.op = "filter_edges" /\ Changes(v) ->
         IF Kept(v, Nghs(v)) = <<>> THEN zeroVertexDegree(v) ELSE Shortened(v, Kept(v, Nghs(v)))
    [] op.op = "filter_all_edges" -> zeroVertexDegree(v)
    [] OTHER -> graph

\* 2. filter into the output, then pack.
Iterate(v) ==
  /\ phase = "loop" /\ v \in todo
  /\ arr' = IF Discards THEN arr ELSE Place(Output(v, Nghs(v)), offs[v].out)
  /\ graph' = After(v)
  /\ live' = [live EXCEPT ![v] =
                CASE op.op = "filter_all_edges" -> <<>>
                  [] op.op \in Removes \ {"filter_all_edges"} -> Kept(v, @)
                  [] OTHER -> @]
  /\ todo' = todo \ {v}
  /\ UNCHANGED <<in, inlists, made, ops, offs, wanted, last, phase>>

\* The graph that filter_graph returns: the byte version counts the bytes as edges.
Built ==
  [vdata |-> [v \in V |-> [offset |-> offs[v].out,
                           degree |-> Len(Filtered(v, Nghs(v)))]],
   e |-> arr, m |-> Len(arr), shared |-> FALSE]
Finish ==
  /\ phase = "loop" /\ todo = {}
  /\ graph' = CASE op.op = "filter_edges" ->
                     [graph EXCEPT !.m = Before([v \in V |-> Degree(v)], in.n)]
                [] op.op = "filter_all_edges" -> [graph EXCEPT !.m = 0]
                [] OTHER -> graph
  /\ made' = IF op.op = "filter_graph" THEN Built ELSE made
  /\ last' = op /\ ops' = Tail(ops) /\ phase' = "ready"
  /\ UNCHANGED <<in, inlists, offs, arr, todo, live, wanted>>

\* copy: m edges from the first one on; the vertices of a ptr graph keep pointing to
\* the old ones.
Copy ==
  /\ phase = "ready" /\ ops # <<>> /\ op.op = "copy"
  /\ made' = IF in.kind = "ptr" THEN [graph EXCEPT !.shared = TRUE]
             ELSE [graph EXCEPT !.e = [i \in 1..graph.m |-> @[i]]]
  /\ last' = op /\ ops' = Tail(ops)
  /\ UNCHANGED <<in, graph, inlists, offs, arr, todo, live, wanted, phase>>

Next == Begin \/ Abort \/ (\E v \in todo : Iterate(v)) \/ Finish \/ Copy

-----------------------------------------------------------------------------
\* Built from edges in any order, and after any calls, every vertex has the neighbours
\* it should have, in their order; the in-lists of a directed graph mirror the out-lists.
ListsRight ==
  /\ \A v \in V : Nghs(v) = live[v]
  /\ in.kind = "directed" => \A v \in V : List(inlists, v) = Given(Flipped(in.A), v)

\* A call returns the edges that the predicate selects, vertex by vertex, and no cell
\* that no iteration wrote.
OutputRight == phase = "ready" /\ last.op \notin {"built", "copy"} => arr = wanted

\* Two iterations never share scratch memory, and none goes beyond what was taken.
ScratchFits ==
  phase = "loop" =>
    \A v \in todo : Space(v) > 0 => offs[v].space + Degree(v) <= offs[v + 1].space

\* The neighbours of v in the graph made last: the first cells of its stretch that are
\* an edge and not the rest of one.
MadeList(v) ==
  LET cells == IF made.shared THEN graph.e ELSE made.e
      heads == SelectSeq(SubSeq(cells, made.vdata[v].offset + 1, Len(cells)), LAMBDA c : c # Unset)
  IN SubSeq(heads, 1, made.vdata[v].degree)
\* filter_graph returns what its predicate selects, whatever the representation, and
\* copy what there is, where m still covers the stretches: it copies m edges.
MadeRight ==
  phase = "ready" =>
    /\ last.op = "filter_graph" =>
         \A v \in V : MadeList(v) = SelectSeq(live[v], LAMBDA nw : <<v, nw[1]>> \in last.two)
    /\ last.op = "copy" /\ (\A v \in V : graph.vdata[v].offset + Degree(v) <= graph.m) =>
         \A v \in V : MadeList(v) = live[v]

\* m counts the edges of a graph that no pack has touched since it was counted, and
\* only such a pack makes edges() fail its assertion.
CountRight ==
  /\ phase = "ready" /\ last.op \in {"built", "filter_edges", "filter_all_edges"} =>
       graph.m = Before([v \in V |-> Len(live[v])], in.n)
  /\ phase = "aborted" => last.op \in {"packAllEdges", "packEdges"}

\* What the comment on copy says, "creates an in-memory copy of the graph".  No run
\* checks it, as the code does not keep it: after filter_edges the edges behind the
\* m-th are left out, and the vertices of a ptr graph's copy point to the old edges.
CopyStands == phase = "ready" /\ last.op = "copy" => ~ made.shared /\ \A v \in V : MadeList(v) = live[v]
\* What the type of filterGraph says of the number of edges of the graph it returns.
\* No run checks it, as the code does not keep it: the byte version returns the bytes.
MadeCountRight ==
  phase = "ready" /\ last.op = "filter_graph" =>
    made.m = Before([v \in V |-> made.vdata[v].degree], in.n)
=============================================================================
