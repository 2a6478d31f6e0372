----------------------------- MODULE MCStructures -----------------------------
(***************************************************************************)
(* The structures and primitives the algorithms stand on, on small         *)
(* instances, side by side as in MCAlgorithms: which names the one a       *)
(* behaviour is about, the variables s1, s2, ... are its own, in the order *)
(* its module declares them.  Buckets, Allocator and HashTables keep       *)
(* their names, and phase is shared.                                       *)
(***************************************************************************)
EXTENDS SmallGraphs, Integers, Buckets, Allocator, HashTables, TLC

CONSTANTS N

VARIABLES which, s1, s2, s3, s4, s5, s6, s7, s8, s9, s10, s11
cells == <<s1, s2, s3, s4, s5, s6, s7, s8, s9, s10, s11>>
mcVars == <<which, cells, bucketVars, vars, tableVars>>

Three == 0..2

\* EdgeMap
MapGraphs ==
  {Sym({<<0, 1>>, <<0, 2>>, <<0, 3>>, <<1, 2>>}),
   {<<0, 1>>, <<1, 2>>, <<2, 0>>, <<0, 3>>, <<3, 2>>}, {<<0, 1>>, <<0, 2>>, <<0, 3>>}}
SomeFlags == {{}, {"no_dense"}, {"dense_forward"}, {"dense_parallel"}, {"in_edges"}, {"no_output"}}

\* NeighborCounts, Histogram: the hash puts two keys of three into one slot.
CountGraphs == {Sym({<<0, 1>>, <<1, 2>>}), Sym({<<0, 1>>, <<1, 2>>, <<0, 2>>}), {<<0, 1>>, <<2, 1>>}, {}}
HistogramHash == [k \in 0..3 |-> ((k * 3) % 4) + 1]
KeyLists ==
  [1..2 -> 0..3] \cup {<<a, b, a, b>> : a \in 0..3, b \in 0..3}
    \cup {<<a, a, b, c>> : a \in {0, 3}, b \in 0..3, c \in {1, 2}}
    \cup {<<0, 1, 2>>, <<3, 1, 1>>, <<2, 2, 2>>}

\* HashTables: keys that share their first slot, and one that wraps around.
TableHash(k) == IF k \in {1, 2, 4} THEN 2 ELSE IF k = 3 THEN 3 ELSE 7
Table(kind, size, pairs, del) == [kind |-> kind, m |-> size, pairs |-> pairs, deletes |-> del]
Tens(s) == [i \in DOMAIN s |-> <<s[i], 10 * s[i]>>]
SomeTables ==
  {Table("sparse", 4, <<<<1, 5>>, <<1, 6>>, <<2, 7>>>>, <<>>),
   Table("resizable", 4, <<<<1, 5>>, <<1, 6>>, <<1, 5>>>>, <<>>),
   Table("pbbs", 8, Tens(<<1, 2, 4, 3, 5>>), <<4, 2>>), Table("pbbs", 8, Tens(<<5, 1, 2, 1>>), <<2>>)}

\* Encodings: lists with differences of one and two bytes, of one block and of several,
\* one long enough for the pack that copies to the heap; each is packed twice, the
\* second time to one neighbour or to none.
Listed(n, f(_)) == [i \in 1..n |-> <<f(i), (i % 3) * 70 - 60>>]
Sparse(i) == 5 + i * i * 30
Dense(i) == 400 + i
Far(i) == 20000 + i
Unweighted(s) == [i \in DOMAIN s |-> <<s[i][1], 1>>]
Odd(s) == {s[i][1] : i \in {j \in DOMAIN s : j % 2 = 1}}
LastOf(s) == {s[Len(s)][1]}
CodedList(e, w, s, p) ==
  [enc |-> e, weighted |-> w, src |-> 500, edges |-> IF w THEN s ELSE Unweighted(s), packs |-> p]
SomeLists ==
  {Listed(4, Sparse), Listed(4, Dense), Listed(5, Far), Listed(1, Dense), Listed(8, Sparse), Listed(21, Dense)}
PacksOf(s) == {<<Odd(s), LastOf(s)>>, <<LastOf(s), {}>>}
CodedLists ==
  UNION {{CodedList(e, w, s, p) : e \in {"byte", "amortized"}, w \in BOOLEAN, p \in PacksOf(s)} : s \in SomeLists}
    \cup UNION {{CodedList("bytepd", w, s, p) : w \in BOOLEAN, p \in PacksOf(s)} :
                  s \in {Listed(4, Sparse), Listed(4, Dense), Listed(1, Dense)}}
    \cup {CodedList("bytepd", w, s, <<>>) : w \in BOOLEAN, s \in SomeLists}

\* GraphFilter: a vertex with three blocks of neighbours, packed twice and to nothing,
\* and directed graphs whose in- and out-lists are filtered together or cleared.  A long
\* has two bytes of one bit: the uncompressed blocks are of two longs, as theirs are
\* of whole longs; the compressed ones of two longs too, of a long and a half with
\* lists of several blocks (the code's 1000 edges are 15 longs and five bytes), and of
\* three and a half with lists of one.
FilterOp(o, keep, over, compact) == [op |-> o, keep |-> keep, over |-> over, compact |-> compact]
NghList(A, v, side) ==
  LET S == IF side = "out" THEN Ngh(A, v) ELSE InNgh(A, v)
  IN [i \in 1..Cardinality(S) |-> CHOOSE x \in S : Cardinality({y \in S : y < x}) = i - 1]
ListsOf(A, S, D) == [l \in S \X D |-> NghList(A, l[1], l[2])]
Star == {<<0, v>> : v \in 1..9} \cup {<<5, 0>>}
Fan == {<<0, v>> : v \in 1..5} \cup {<<1, 0>>}
InOut == {"out", "in"}
Filtered(c, size, of, p) == [compressed |-> c, edges_per_block |-> size, lists |-> of, ops |-> p]
Clear(over) == FilterOp("clear", {}, over \X InOut, TRUE)
FilterInputs ==
  {Filtered(c, 4, ListsOf(Star, {0, 5}, {"out"}), p) : c \in BOOLEAN, p \in
     {<<FilterOp("packNeighbors", {<<0, 2>>, <<0, 5>>, <<0, 6>>, <<0, 9>>}, {<<0, "out">>}, FALSE),
        FilterOp("packNeighbors", {<<0, 5>>, <<0, 9>>}, {<<0, "out">>}, FALSE),
        FilterOp("packNeighbors", {}, {<<0, "out">>}, FALSE)>>,
      <<FilterOp("packNeighbors", {<<0, 4>>, <<0, 9>>}, {<<0, "out">>}, FALSE),
        FilterOp("filter", {<<0, 4>>, <<0, 9>>}, {0, 5} \X {"out"}, TRUE),
        FilterOp("filter", {}, {0, 5} \X {"out"}, TRUE)>>}}
    \cup {Filtered(ce[1], ce[2], ListsOf(Fan, 0..1, InOut), p) :
             ce \in {<<FALSE, 4>>, <<TRUE, 4>>, <<TRUE, 7>>}, p \in
            {<<FilterOp("filter", {<<0, 1>>, <<0, 3>>}, (0..1) \X InOut, TRUE)>>,
             <<FilterOp("filter", {<<1, 0>>, <<0, 5>>}, (0..1) \X InOut, TRUE)>>,
             <<FilterOp("filter_some", {<<0, 5>>}, {0} \X InOut, TRUE)>>,
             <<Clear({1}), FilterOp("filter_some", {<<0, 3>>}, {0} \X InOut, TRUE)>>,
             <<Clear({0}), FilterOp("filter_some", {<<0, 3>>}, {0, 1} \X InOut, TRUE)>>}}
    \cup {Filtered(TRUE, 3, ListsOf(Fan, 0..1, InOut), <<Clear({1})>>)}

\* GraphMutation: a path, a star and a graph with gaps, from edges in the order they
\* may be given in, with successive calls.
Weighted(s) == [i \in DOMAIN s |-> <<s[i][1], s[i][2], (i * i) % 4>>]
Path == <<<<1, 0>>, <<2, 1>>, <<0, 1>>, <<3, 2>>, <<1, 2>>, <<2, 3>>>>
Hub == <<<<0, 1>>, <<0, 2>>, <<0, 3>>, <<1, 0>>, <<2, 0>>, <<3, 0>>>>
Wide == <<<<4, 0>>, <<4, 1>>, <<0, 4>>, <<1, 4>>, <<4, 2>>, <<2, 4>>>>
Call(o, one, two) == [op |-> o, one |-> one, two |-> two, over |-> {0, 1}, no_output |-> FALSE]
Pairs(S) == {<<u, v>> : u \in S, v \in S}
Silent(c) == [c EXCEPT !.no_output = TRUE]
CallLists ==
  {<<Call("sample_edges", {}, Pairs(0..2)), Call("filter_edges", {<<0, 1>>}, {<<1, 0>>, <<0, 2>>}),
     Call("edges", {}, {}), Call("packEdges", {<<0, 3>>, <<1, 2>>}, {}), Call("edges", {}, {})>>,
   <<Call("packAllEdges", Pairs({0, 2}), {}), Call("copy", {}, {}), Call("filter_edges", {}, Pairs({0, 1})),
     Silent(Call("filter_edges", {}, Pairs(2..4))), Call("copy", {}, {})>>,
   <<Call("copy", {}, {}), Call("filter_graph", {}, Pairs(0..2)), Call("filter_all_edges", {}, Pairs({0, 1, 4})),
     Call("edges", {}, {})>>}
Built(k, n, s, sorted, calls) == [A |-> Weighted(s), n |-> n, sorted |-> sorted, kind |-> k, ops |-> calls]
MutationInputs ==
  {Built(k, n, s, FALSE, c) : k \in {"csr", "ptr"}, n \in {5, 6}, s \in {Path, Hub, Wide}, c \in CallLists}
    \cup {Built("csr", 5, Hub, TRUE, c) : c \in CallLists}
    \cup {Built("csr", n, <<>>, FALSE, <<Call("edges", {}, {})>>) : n \in {0, 1, 3}}
    \cup {Built("byte", 5, Hub, TRUE, <<Call("filter_graph", {}, S)>>) : S \in SUBSET {<<0, 1>>, <<0, 3>>, <<3, 0>>}}
    \cup {Built("directed", 5, s, FALSE, <<Call("sample_edges", {}, Pairs(0..2))>>) : s \in {Path, Wide, <<<<3, 1>>, <<0, 1>>>>}}
    \cup {Built("directed", 4, <<<<0, 1>>, <<1, 2>>, <<2, 3>>>>, TRUE, <<Call("sample_edges", {}, Pairs(0..1))>>)}

\* The sequence primitives and sorts
OpInputs == UNION {[1..n -> 0..2] : n \in 0..4} \cup {<<0, 1, 2, 3, 4, 5, 6>>, <<1, 3, 5, 7>>, <<2, 3, 4, 6, 7, 8>>}
RadixInputs == UNION {[1..n -> 0..7] : n \in 0..2} \cup [1..3 -> {0, 1, 2, 5}] \cup [1..4 -> {1, 4, 5}]
Mix(i) == (i * i * 7 + 3 * i + 5) % 101
CompareInputs ==
  {<<>>} \cup [1..6 -> {0, 1, 2}]
    \cup {[i \in 1..n |-> (a * i + b * i * i) % k] : n \in {9, 13, 14, 16}, a \in 1..2, b \in 0..2, k \in {2, 3, 5, 17}}

EM == INSTANCE EdgeMap WITH Graphs <- MapGraphs, Flags <- SomeFlags,
  Thresholds <- {-1, 4}, Tenth <- 1, BlockSize <- 2, kEMBlockSize <- 2,
  MaxBlockSize <- 2, MaxAdds <- 2, Variants <- {"chunked", "blocked",
  "sparse"}, graph <- s1, vs <- s2, parents <- s3, adds <- s4
NC == INSTANCE NeighborCounts WITH V <- Three, Graphs <- CountGraphs,
  CountThreshold <- 4, graph <- s1, vs <- s2, fl <- s3, wanted <- s4,
  kept <- s5, op <- s6, x <- s7, applied <- s8, promised <- s9
Hi == INSTANCE Histogram WITH Keys <- Three, EMPTY <- 3,
  Hash <- HistogramHash, KeysPerGroup <- 2, NumBuckets <- 2, NumBlocks <- 2,
  SeqThreshold <- 3, MediumThreshold <- 4, Inputs <- KeyLists, MaxCalls <- 2,
  use <- s1, table <- s2, input <- s3, result <- s4, stuck <- s5, calls <- s6
En == INSTANCE Encodings WITH PARALLEL_DEGREE <- 4, PD_PACK_THRESHOLD <- 7,
  kTemporarySpaceConstant <- 2, StackBlocks <- 2, Inputs <- CodedLists, Guard <- <<1, 2, 3, 4>>,
  in <- s1, mem <- s2, degree <- s3, list <- s4, packs <- s5, todo <- s6,
  cts <- s7, walk <- s8
GF == INSTANCE GraphFilter WITH ByteBits <- 1, LongBytes <- 2,
  Inputs <- FilterInputs, gin <- s1, VI <- s2, blocks <- s3, m <- s4,
  ops <- s5, stage <- s6, todo <- s7, tmp <- s8, live <- s9
Op == INSTANCE SequenceOps WITH SliceSize <- 2, SearchBase <- 1,
  Granularity <- 2, MergeThresh <- 4, BsMergeBase <- 2, OpInputs <- OpInputs,
  SeqThreshold <- 3, Blocks <- 2, Radix <- 1,
  OuterBits <- 1, BaseBits <- 1, SmallSort <- 3, KeyBits <- 3,
  SortInputs <- RadixInputs, BaseCase <- 6, CutSize <- 9,
  MergeBase <- 3, BucketRounds <- 2, BucketMin <- 2, SampleMin <- 9,
  OverSample <- 2, BucketQuotient <- 1, BlockQuotient <- 2, TransMin <- 2,
  TransBase <- 3, Hash <- Mix, CompareInputs <- CompareInputs, input <- s1,
  other <- s2, op <- s3, result <- s4
GM == INSTANCE GraphMutation WITH kAllocThreshold <- 3, FirstBase <- 2,
  Base <- 2, Inputs <- MutationInputs, in <- s1, graph <- s2, inlists <- s3,
  made <- s4, ops <- s5, offs <- s6, arr <- s7, todo <- s8, live <- s9,
  wanted <- s10, last <- s11

\* What the modules assume of their constants.
ASSUME StructuresAssumptions ==
  /\ EM!EdgeMapAssumption /\ NC!NeighborCountsAssumption /\ Hi!HistogramAssumption
  /\ BucketsAssumption /\ HashTablesAssumption /\ En!EncodingsAssumption
  /\ GF!GraphFilterAssumption /\ Op!SequenceOpsAssumption
  /\ GM!GraphMutationAssumption
  /\ AllocatorAssumption

\* Nobody uses the cells, the buckets, the table, or phase.
NoCells ==
  /\ s1 = 0 /\ s2 = 0 /\ s3 = 0 /\ s4 = 0 /\ s5 = 0 /\ s6 = 0 /\ s7 = 0 /\ s8 = 0
  /\ s9 = 0 /\ s10 = 0 /\ s11 = 0
bucketCells == <<client, d, bkts, cur_bkt, cur_range, num_elms, ret, held>>
NoBucketing ==
  /\ client = "kcore" /\ d = [i \in Ids |-> null_bkt] /\ held = {}
  /\ bkts = [k \in 0..open_buckets |-> NoCopies] /\ num_elms = 0
  /\ cur_bkt = 0 /\ cur_range = 0 /\ ret = [id |-> null_bkt, ids |-> {}]
NoTable ==
  /\ hin = [kind |-> "none", m |-> 0, pairs |-> <<>>, deletes |-> <<>>]
  /\ slots = <<>> /\ old_t = {} /\ waiting = {} /\ job = [w \in Threads |-> NoJob]
  /\ ne = 0 /\ cts = [w \in Threads |-> 0] /\ won = <<>> /\ deletes = <<>> /\ hole = -1
  /\ mode = "none"
NoPhase == phase = "none"

CellsInit ==
  \/ which = "edgemap" /\ EM!Init /\ s5 = 0 /\ s6 = 0 /\ s7 = 0 /\ s8 = 0
     /\ s9 = 0 /\ s10 = 0 /\ s11 = 0
  \/ which = "counts" /\ NC!Init /\ s10 = 0 /\ s11 = 0 /\ NoPhase
  \/ which = "histogram" /\ Hi!Init /\ s7 = 0 /\ s8 = 0 /\ s9 = 0 /\ s10 = 0
     /\ s11 = 0 /\ NoPhase
  \/ which = "encoding" /\ En!Init /\ s9 = 0 /\ s10 = 0 /\ s11 = 0
  \/ which = "filter" /\ GF!Init /\ s10 = 0 /\ s11 = 0 /\ NoPhase
  \/ which = "ops" /\ Op!Init /\ s5 = 0 /\ s6 = 0 /\ s7 = 0 /\ s8 = 0
     /\ s9 = 0 /\ s10 = 0 /\ s11 = 0 /\ NoPhase
  \/ which = "mutation" /\ GM!Init

MCInit ==
  /\ Init
  /\ \/ CellsInit /\ NoBucketing /\ NoTable
     \/ which = "buckets" /\ BucketsInit /\ NoCells /\ NoTable
     \/ which = "hashtable" /\ TableInit /\ NoCells /\ NoBucketing /\ NoPhase
     \/ which = "alloc" /\ NoCells /\ NoBucketing /\ NoTable /\ NoPhase

EMStep == which = "edgemap" /\ EM!Next /\ UNCHANGED <<s5, s6, s7, s8, s9, s10, s11>>
NCStep == which = "counts" /\ NC!Next /\ UNCHANGED <<s10, s11, phase>>
HiStep == which = "histogram" /\ Hi!Next /\ UNCHANGED <<s7, s8, s9, s10, s11, phase>>
EnStep == which = "encoding" /\ En!Next /\ UNCHANGED <<s9, s10, s11>>
GFStep == which = "filter" /\ GF!Next /\ UNCHANGED <<s10, s11, phase>>
OpStep == which = "ops" /\ Op!Next /\ UNCHANGED <<s5, s6, s7, s8, s9, s10, s11, phase>>
GMStep == which = "mutation" /\ GM!Next
CellsStep ==
  /\ EMStep \/ NCStep \/ HiStep \/ EnStep \/ GFStep \/ OpStep \/ GMStep
  /\ UNCHANGED <<which, bucketCells, vars, tableVars>>
BkStep == which = "buckets" /\ BucketsNext /\ UNCHANGED <<which, cells, vars, tableVars>>
HTStep == which = "hashtable" /\ TableNext /\ UNCHANGED <<which, cells, bucketVars, vars>>
AlStep == which = "alloc" /\ Next /\ UNCHANGED <<which, cells, bucketVars, tableVars>>

\* What is under way: the rounds of an edge map, a filter or the insertions into a
\* table go on, and next_bucket does; who calls update_buckets need not.
Progress ==
  \/ which \in {"edgemap", "filter", "mutation"} /\ CellsStep
  \/ HTStep
  \/ phase = "next" /\ BkStep
MCNext == CellsStep \/ BkStep \/ HTStep \/ AlStep
MCSpec == MCInit /\ [][MCNext]_mcVars /\ WF_mcVars(Progress)
-----------------------------------------------------------------------------
\* The next frontier is what the round's claims won, and all of it, whichever of the
\* sparse and dense maps runs.
FrontierExact == [][which = "edgemap" => EM!FrontierStep]_mcVars

\* A vertex subset holds the same in each of its representations, with no vertex
\* twice; the blocks of a sparse map fit their buffers; and the subset that an
\* edge_map_count returns shows what was counted.
SubsetsAgree ==
  CASE which = "edgemap" -> EM!RepresentationsAgree /\ EM!BlocksFit
    [] which = "counts" -> NC!SubsetsShow
    [] OTHER -> TRUE

\* Every key is counted once with how often it occurs, and the table is left clean for
\* the next call; num_elms accounts for every copy that lies in a bucket.
CountsRight ==
  CASE which = "histogram" -> Hi!TableClean /\ Hi!CountsRight
    [] which = "counts" -> NC!CountsAgree
    [] which = "buckets" -> CopiesAccounted
    [] OTHER -> TRUE

\* Every reader of a list, coded, packed or filtered, sees the same neighbours: those
\* that are left, in order.
ReadersAgree ==
  CASE which = "encoding" -> En!ReadersAgree /\ En!BlocksMakeList
    [] which = "filter" -> GF!ReadersAgree
    [] OTHER -> TRUE

\* Packing in place writes nothing beyond the list's own memory, leaves no empty block
\* where the iterators allow none, and treats the two sides of an edge alike.
PackingStaysInside ==
  CASE which = "encoding" -> En!StaysInside
    [] which = "filter" -> GF!MirrorsAgree /\ GF!BlocksCompact
    [] OTHER -> TRUE

\* The blocked primitives return what their definitions say, the sorts sort, stably
\* where they say so, and every split leaves two shorter parts.
SequencesRight ==
  which = "ops" =>
    /\ Op!ScansRight /\ Op!PacksRight /\ Op!SearchesRight
    /\ Op!SortsStably /\ Op!OffsetsRight /\ Op!SortsAll
    /\ Op!StableWhereSaid /\ Op!SplitsShrink /\ Op!SelectsRight

\* A graph built from edges holds them, in their order, and so does what the calls that
\* pack, filter, sample or copy it leave and return; m is right when it must be.
GraphsKeepEdges ==
  which = "mutation" =>
    GM!ListsRight /\ GM!OutputRight /\ GM!ScratchFits /\ GM!MadeRight /\ GM!CountRight

\* Searches by edge maps end, insertions and filters end, and next_bucket returns.
Settled ==
  CASE which = "edgemap" -> phase = "done"
    [] which = "buckets" -> phase # "next"
    [] which = "hashtable" -> mode = "quiet" /\ deletes = <<>>
    [] which = "filter" -> s5 = <<>>
    [] which = "mutation" -> s5 = <<>> \/ phase = "aborted"
    [] OTHER -> TRUE
AlwaysSettles == []<>Settled
=============================================================================
