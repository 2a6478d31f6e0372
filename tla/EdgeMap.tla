------------------------------ MODULE EdgeMap ------------------------------
(***************************************************************************)
(* Vertex subsets and edgeMap (gbbs/vertex_subset.h, edge_map_data.h and   *)
(* edge_map_blocked.h), driven the way the traversals of the benchmarks    *)
(* drive them: a round maps over the edges of the frontier with an update  *)
(* that claims a vertex once (a test and set in `update`, a CAS in         *)
(* `updateAtomic`), the frontier it returns may be filtered or extended,   *)
(* and becomes the next one.                                               *)
(*                                                                         *)
(* A subset has two representations, s and d, that are made on demand, its *)
(* size m and a cached sum of degrees.  A sparse map decodes the edges in  *)
(* blocks, in groups that pack what they emit in blocks of their own; the  *)
(* claims of its threads race, so that any frontier neighbour may win.     *)
(***************************************************************************)
EXTENDS SmallGraphs, Integers, SequencesExt

CONSTANTS
  N, Graphs,
  Flags,           \* the sets of flags an edgeMap may be given
  Thresholds,      \* its threshold argument: -1 asks for numEdges / 20
  Tenth,           \* numVertices / 10, scaled with the graphs
  BlockSize,       \* edges of a work block (getInternalBlockSize)
  kEMBlockSize,    \* least edges of a group
  MaxBlockSize,    \* what fits an em_data_block
  Variants,        \* the sparse maps: "chunked" is the one edgeMapData calls
  MaxAdds          \* bound on the vertices add_to_vsubset brings in

V == 0..(N - 1)
None == N

EdgeMapAssumption ==
  /\ N \in Nat \ {0} /\ BlockSize \in Nat \ {0}
  /\ MaxBlockSize \in Nat /\ BlockSize <= MaxBlockSize

VARIABLES
  graph,
  vs,       \* the frontier: [m, reps, s, d, isDense, out_degrees], where reps
            \* are the representations that are not NULL
  parents,  \* what the update claims
  adds,
  phase     \* "map", "edit", "done" or "abort"

emVars == <<graph, vs, parents, adds, phase>>

Empty == [m |-> 0, reps |-> {}, s |-> <<>>, d |-> {}, isDense |-> FALSE, out_degrees |-> -1]
Sparse(seq) == [Empty EXCEPT !.m = Len(seq), !.reps = {"s"}, !.s = seq]
Dense(set) == [Empty EXCEPT !.m = Cardinality(set), !.reps = {"d"}, !.d = set, !.isDense = TRUE]
\* The vertices vertexMap visits.
Members(x) == IF x.isDense THEN x.d ELSE Range(x.s)
Ascending(S) == SetToSortSeq(S, <)

\* pack_index yields as many entries as d has; a stored m that differs aborts.
BadM(x) == "s" \notin x.reps /\ x.m > 0 /\ Cardinality(x.d) # x.m
ToSparse(x) ==
  IF "s" \notin x.reps /\ x.m > 0
  THEN [x EXCEPT !.s = Ascending(x.d), !.reps = @ \cup {"s"}, !.isDense = FALSE]
  ELSE [x EXCEPT !.isDense = FALSE]
\* The sparse representation is kept if it exists.
ToDense(x) ==
  IF "d" \notin x.reps
  THEN [x EXCEPT !.d = Range(x.s), !.reps = @ \cup {"d"}, !.isDense = TRUE]
  ELSE [x EXCEPT !.isDense = TRUE]

Init ==
  /\ graph \in Graphs
  /\ \E v \in V : vs = Sparse(<<v>>) /\ parents = [u \in V |-> IF u = v THEN v ELSE None]
  /\ adds = 0 /\ phase = "map"

\* Mutant: a vertex may be claimed again.
CondAny(v) == TRUE
Cond(v) == parents[v] = None
\* The neighbours a sparse map walks to, and a dense one reads.
Forward(fl, v) == IF "in_edges" \in fl THEN InNgh(graph, v) ELSE Ngh(graph, v)
Backward(fl, v) == IF "in_edges" \in fl THEN Ngh(graph, v) ELSE InNgh(graph, v)

\* The claims a parallel map may make: each target by any neighbour in S.
Claims(fl, S) ==
  LET hit == {v \in V : Cond(v) /\ Backward(fl, v) \cap S # {}}
  IN {by \in [hit -> S] : \A v \in hit : by[v] \in Backward(fl, v)}

\* Every vertex with cond reads its neighbours until cond fails: in order, or
\* all at once with dense_parallel.
DenseClaims(fl, S) ==
  IF "dense_parallel" \in fl THEN Claims(fl, S)
  ELSE {by \in Claims(fl, S) : \A v \in DOMAIN by : by[v] = Least(Backward(fl, v) \cap S)}
\* With no_output the next frontier is empty, whatever the update did.
Output(fl, x) == IF "no_output" \in fl THEN Empty ELSE x
EdgeMapDense(fl, x) ==
  {[by |-> by, out |-> Output(fl, Dense(DOMAIN by))] : by \in DenseClaims(fl, x.d)}
\* Each member writes to its neighbours; next is cleared first.
EdgeMapDenseForward(fl, x) ==
  {[by |-> by, out |-> Output(fl, Dense(DOMAIN by))] : by \in Claims(fl, x.d)}

\* The work blocks, vertex by vertex in the order of s.
Blocks(fl, x) ==
  LET per(v) == LET nghs == Ascending(Forward(fl, v))
                    num == (Len(nghs) + BlockSize - 1) \div BlockSize
                IN [j \in 1..num |->
                      [src |-> v, nghs |-> SubSeq(nghs, (j - 1) * BlockSize + 1,
                                                  Least({j * BlockSize, Len(nghs)}))]]
  IN FlattenSeq([i \in 1..x.m |-> per(x.s[i])])
Degrees(blocks) ==
  LET upto[i \in 0..Len(blocks)] == IF i = 0 THEN 0 ELSE upto[i - 1] + Len(blocks[i].nghs)
  IN [i \in 1..Len(blocks) |-> upto[i]]
\* What decode_block emits of a block.
Emitted(b, by) == SelectSeq(b.nghs, LAMBDA v : v \in DOMAIN by /\ by[v] = b.src)
\* The blocks of the g-th group of groups of `size` edges: binary searches for
\* the first degrees entry that is not less than its first edge.
SearchFrom(degrees, off) == Least({i \in 1..Len(degrees) : degrees[i] >= off} \cup {Len(degrees) + 1})
GroupBlocks(blocks, size, g) ==
  LET degrees == Degrees(blocks)
      n_groups == (degrees[Len(degrees)] + size - 1) \div size
      end == IF g < n_groups - 1 THEN SearchFrom(degrees, (g + 1) * size) - 1 ELSE Len(blocks)
  IN SubSeq(blocks, SearchFrom(degrees, g * size), end)
NumGroups(blocks, size) ==
  (FoldLeft(LAMBDA a, b : a + Len(b.nghs), 0, blocks) + size - 1) \div size

\* get_block_and_offset_for_group: room for a whole work block, or a new block.
NeedsBlock(outBlocks) == outBlocks = <<>> \/ Len(Last(outBlocks)) + BlockSize > MaxBlockSize
\* The output blocks of a group, in the order it fills them.
Pack(work, by) ==
  FoldLeft(LAMBDA out, b :
             LET room == IF NeedsBlock(out) THEN Append(out, <<>>) ELSE out
             IN [room EXCEPT ![Len(room)] = @ \o Emitted(b, by)],
           <<>>, work)

\* The output blocks of all groups.
AllBlocks(blocks, by) ==
  FlattenSeq([g \in 1..NumGroups(blocks, kEMBlockSize) |->
                Pack(GroupBlocks(blocks, kEMBlockSize, g - 1), by)])
\* With no_output no sparse map decodes blocks: the updates are all it does.
EdgeMapSparseNoOutput(fl, x) == {[by |-> by, out |-> Empty] : by \in Claims(fl, Members(x))}
EdgeMapChunked(fl, x) ==
  LET blocks == Blocks(fl, x)
      out(by) == FlattenSeq(AllBlocks(blocks, by))
  IN IF "no_output" \in fl THEN EdgeMapSparseNoOutput(fl, x)
     ELSE {[by |-> by, out |-> IF out(by) = <<>> THEN Empty ELSE Sparse(out(by))] :
           by \in Claims(fl, Members(x))}

\* Threads write what they emit from the offset of their first block on, and a
\* second pass moves it together.
EdgeMapBlocked(fl, x) ==
  LET blocks == Blocks(fl, x)
      out(by) == FlattenSeq([g \in 1..NumGroups(blocks, kEMBlockSize) |->
                   FoldLeft(LAMBDA a, b : a \o Emitted(b, by), <<>>,
                            GroupBlocks(blocks, kEMBlockSize, g - 1))])
  IN IF "no_output" \in fl THEN EdgeMapSparseNoOutput(fl, x)
     ELSE {[by |-> by, out |-> Sparse(out(by))] : by \in Claims(fl, Members(x))}

\* Every edge has a slot, and the slots that hold a vertex are filtered.
Slots(fl, v, by) ==
  [i \in 1..Cardinality(Forward(fl, v)) |->
     LET ngh == Ascending(Forward(fl, v))[i]
     IN IF ngh \in DOMAIN by /\ by[ngh] = v THEN ngh ELSE None]
EdgeMapSparse(fl, x) ==
  LET outEdges(by) == FlattenSeq([i \in 1..x.m |-> Slots(fl, x.s[i], by)])
      out(by) == SelectSeq(outEdges(by), LAMBDA v : v # None)
  IN {[by |-> by, out |-> Output(fl, Sparse(out(by)))] : by \in Claims(fl, Members(x))}

SparseMap(variant, fl, x) ==
  CASE variant = "chunked" -> EdgeMapChunked(fl, x)
    [] variant = "blocked" -> EdgeMapBlocked(fl, x)
    [] variant = "sparse" -> EdgeMapSparse(fl, x)
DenseMap(fl, x) ==
  IF "dense_forward" \in fl THEN EdgeMapDenseForward(fl, x) ELSE EdgeMapDense(fl, x)

OutDegreesOf(fl, x) == FoldLeft(LAMBDA a, v : a + Cardinality(Forward(fl, v)), 0, x.s)

\* edgeMapData: which map runs, on which representation, and what it caches.
Map(r) == /\ vs' = [r.out EXCEPT !.out_degrees = -1]
          /\ parents' = [v \in V |-> IF v \in DOMAIN r.by THEN r.by[v] ELSE parents[v]]
          /\ phase' = IF r.out.m = 0 THEN "done" ELSE "edit"
EdgeMapData(fl, threshold, variant) ==
  /\ phase = "map"
  /\ LET dense_threshold == IF threshold = -1 THEN Cardinality(graph) \div 20 ELSE threshold
         x == ToSparse(vs)
         out_degrees == IF vs.out_degrees # -1 THEN vs.out_degrees ELSE OutDegreesOf(fl, x)
     IN IF vs.isDense /\ vs.m > Tenth THEN \E r \in DenseMap(fl, vs) : Map(r)
        ELSE IF BadM(vs) THEN phase' = "abort" /\ UNCHANGED <<vs, parents>>
        ELSE IF out_degrees = 0 THEN vs' = Empty /\ phase' = "done" /\ UNCHANGED parents
        ELSE IF vs.m + out_degrees > dense_threshold /\ "no_dense" \notin fl
             THEN \E r \in DenseMap(fl, ToDense(x)) : Map(r)
             ELSE \E r \in SparseMap(variant, fl, x) : Map(r)
  /\ UNCHANGED <<graph, adds>>

\* Mutant: m is left alone.
SameSize(m, num) == m
NewSize(m, num) == m + num
\* add_to_vsubset, as the decompositions call it: vertices not in the subset.
AddToVsubset ==
  /\ phase = "edit"
  /\ \E new \in SUBSET {v \in V : parents[v] = None} :
       /\ new # {} /\ adds + Cardinality(new) <= MaxAdds
       /\ vs' = [vs EXCEPT
            !.m = NewSize(@, Cardinality(new)),
            !.d = IF vs.isDense THEN @ \cup new ELSE @,
            !.s = IF vs.isDense THEN @ ELSE @ \o Ascending(new),
            !.reps = IF vs.isDense THEN @ ELSE @ \cup {"s"}]
       /\ parents' = [v \in V |-> IF v \in new THEN v ELSE parents[v]]
       /\ adds' = adds + Cardinality(new)
  /\ phase' = "map"
  /\ UNCHANGED graph

\* vertexFilter keeps the representation, and returns a new subset.
VertexFilter ==
  /\ phase = "edit"
  /\ \E keep \in SUBSET Members(vs) :
       vs' = IF vs.isDense THEN Dense(keep)
             ELSE IF vs.m = 0 THEN Empty
             ELSE Sparse(SelectSeq(vs.s, LAMBDA v : v \in keep))
  /\ phase' = IF vs'.m = 0 THEN "done" ELSE "map"
  /\ UNCHANGED <<graph, parents, adds>>

Next ==
  \/ \E fl \in Flags, t \in Thresholds, variant \in Variants : EdgeMapData(fl, t, variant)
  \/ AddToVsubset
  \/ VertexFilter

Spec == Init /\ [][Next]_emVars
FairSpec == Spec /\ WF_emVars(Next)
-----------------------------------------------------------------------------
\* What a subset holds is the same in each of its representations, with no
\* vertex twice and the size it says: toSparse never aborts.
RepresentationsAgree ==
  /\ "d" \in vs.reps => Cardinality(vs.d) = vs.m
  /\ "s" \in vs.reps => Len(vs.s) = vs.m /\ Cardinality(Range(vs.s)) = vs.m
  /\ vs.reps = {"s", "d"} => vs.d = Range(vs.s)
  /\ vs.isDense => "d" \in vs.reps
  /\ phase # "abort"

OutputStep == \E fl \in Flags, t \in Thresholds, variant \in Variants :
                "no_output" \notin fl /\ EdgeMapData(fl, t, variant)
\* Whichever map runs, the next frontier is what the claims of the round won,
\* and all of it: every target with a neighbour in the frontier is won.  A map
\* told to make no output claims the same and returns the empty subset, which
\* ends the search.
FrontierStep ==
  phase = "map" /\ phase' \in {"edit", "done"} =>
    LET won == {v \in V : parents[v] # parents'[v]}
    IN /\ IF OutputStep THEN Members(vs') = won ELSE vs' = Empty
       /\ \A v \in won : parents[v] = None /\ parents'[v] \in Members(vs)
       /\ \/ \A v \in V : parents[v] = None /\ (\E u \in Members(vs) : <<u, v>> \in graph) => v \in won
          \/ \A v \in V : parents[v] = None /\ (\E u \in Members(vs) : <<v, u>> \in graph) => v \in won
FrontierExact == [][FrontierStep]_emVars

\* An output block of a group never holds more than it has room for, and no
\* work block is left out or processed by two groups.
BlocksFit ==
  phase = "map" =>
    \A fl \in Flags :
      LET x == ToSparse(vs)
          blocks == Blocks(fl, x)
      IN blocks # <<>> =>
           /\ FlattenSeq([g \in 1..NumGroups(blocks, kEMBlockSize) |->
                            GroupBlocks(blocks, kEMBlockSize, g - 1)]) = blocks
           /\ \A by \in Claims(fl, Members(x)) :
                \A b \in Range(AllBlocks(blocks, by)) : Len(b) <= MaxBlockSize

\* Every round claims a vertex or is the last one.
Terminates == <>(phase = "done")
=============================================================================
