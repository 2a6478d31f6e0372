------------------------------ MODULE GraphFilter ------------------------------
(***************************************************************************)
(* The graph filter (gbbs/semiasym): edges of an immutable graph are       *)
(* removed by clearing bits.  The neighbour list of a vertex is cut into   *)
(* blocks of edges_per_block edges; vtx_info holds its packed degree, the  *)
(* number of its blocks and where they start in the block memory, where    *)
(* the metadata of all its blocks (the block of the original list, and the *)
(* index of its first live edge) comes before the bits of all its blocks.  *)
(* The memory is bytes, a metadata record taking one cell as a byte does.    *)
(* Blocks are a whole number of bytes apart, but read and packed by longs: *)
(* the 1000 bits of a compressed list's block take 125 bytes, its 16 longs *)
(* 128, of which three are the next block's.                               *)
(* A pack clears bits of all blocks in parallel, and moves the blocks that *)
(* are not empty together when few are left or the caller asks for it.     *)
(***************************************************************************)
EXTENDS Integers, Sequences, SequencesExt, FiniteSets, Functions, SmallGraphs

CONSTANTS
  ByteBits,       \* bits in a byte: 8
  LongBytes,      \* bytes in a long: 8
  Inputs          \* [compressed, edges_per_block, lists, ops]: lists maps <<vertex, "out"
                  \* or "in">> to the sorted neighbours; ops: [op, keep, over, compact],
                  \* keep a set of edges; edges_per_block is 256, or of a compressed
                  \* graph PARALLEL_DEGREE = 1000

LongBits == ByteBits * LongBytes
\* No block has bits in a long of another.
Apart(x) ==
  \/ x.edges_per_block % LongBits = 0
  \/ \A l \in DOMAIN x.lists : Len(x.lists[l]) < x.edges_per_block
\* The assertion of bitset_bs_bytes.  What a pack does with bits of the next block is
\* undefined (it asks the predicate about slots past block_decode), so that lists with
\* such blocks are built, read and cleared but not packed.
GraphFilterAssumption ==
  /\ ByteBits \in Nat \ {0} /\ LongBytes \in Nat \ {0}
  /\ \A x \in Inputs :
       /\ x.edges_per_block \in Nat \ {0} /\ x.edges_per_block % ByteBits = 0
       /\ \A l \in DOMAIN x.lists : l[2] \in {"out", "in"}
       /\ Apart(x) \/ \A i \in DOMAIN x.ops : x.ops[i].op = "clear"

VARIABLES
  gin,
  VI,      \* list -> [vtx_degree, vtx_num_blocks, vtx_block_offset]
  blocks,  \* the block memory: metadata, and bytes with their sets of bits
  m,       \* the number of edges the packed graph says it has
  ops,     \* the operations still to come
  stage,   \* list -> "idle", "pack", "move" or "scan"
  todo,    \* list -> the blocks no worker has taken
  tmp,     \* list -> the copy repack_blocks_par made of the list's cells
  live     \* list -> the neighbours that should be left

filterVars == <<gin, VI, blocks, m, ops, stage, todo, tmp, live>>

Lists == DOMAIN gin.lists
edges_per_block == gin.edges_per_block
bitset_bytes_per_block == edges_per_block \div ByteBits
kFullBlockPackThreshold == IF gin.compressed THEN 4 ELSE 2
None == -1        \* UINT_E_MAX
Garbage == -2     \* what lies behind block_decode
Ceil(a, b) == (a + b - 1) \div b
Sorted(S) == [i \in 1..Cardinality(S) |-> CHOOSE x \in S : Cardinality({y \in S : y < x}) = i - 1]
SumOver(S, f(_)) == FoldFunctionOnSet(+, 0, [x \in S |-> f(x)], S)

-----------------------------------------------------------------------------
\* Edges of block b of a list of d edges; the bytes of the bits of `size' edges, in
\* whole longs; the cells a list of d edges needs.
block_size(d, b) == Least({(b + 1) * edges_per_block, d}) - b * edges_per_block
num_longs(size) == Ceil(size, LongBits)
get_bitset_block_size_in_bytes(size) == num_longs(size) * LongBytes
bytes_for_degree_and_bs(d) ==
  LET full == d \div edges_per_block
      rem == d % edges_per_block
  IN full * (1 + bitset_bytes_per_block)
       + (IF rem = 0 THEN 0 ELSE 1 + get_bitset_block_size_in_bytes(rem))
Meta(block_num, offset) == [block_num |-> block_num, offset |-> offset, bits |-> {}]
Byte(bits) == [block_num |-> 0, offset |-> 0, bits |-> bits]
\* Every bit is set but those behind the last edge.
bitset_init_blocks(d) ==
  LET nb == Ceil(d, edges_per_block)
  IN [b \in 1..nb |-> Meta(b - 1, (b - 1) * edges_per_block)]
       \o [i \in 1..(bytes_for_degree_and_bs(d) - nb) |->
             Byte({k \in 0..(ByteBits - 1) : (i - 1) * ByteBits + k < d})]

\* init_block_memory: the lists one after the other.
Key(l) == 2 * l[1] + (IF l[2] = "in" THEN 1 ELSE 0)
InOrder(x) == [i \in 1..Cardinality(DOMAIN x.lists) |->
                 CHOOSE l \in DOMAIN x.lists :
                   Cardinality({k \in DOMAIN x.lists : Key(k) < Key(l)}) = i - 1]
init_block_memory(x) ==
  LET order == InOrder(x)
      d(i) == Len(x.lists[order[i]])
      at[i \in 1..(Len(order) + 1)] ==
        IF i = 1 THEN 0 ELSE at[i - 1] + bytes_for_degree_and_bs(d(i - 1))
      pos(l) == CHOOSE i \in DOMAIN order : order[i] = l
  IN [VI |-> [l \in DOMAIN x.lists |->
                [vtx_degree |-> Len(x.lists[l]),
                 vtx_num_blocks |-> Ceil(Len(x.lists[l]), edges_per_block),
                 vtx_block_offset |-> at[pos(l)]]],
      blocks |-> FlattenSeq([i \in DOMAIN order |-> bitset_init_blocks(d(i))])]

\* Cells of a list whose blocks are nb: metadata of b, and byte i of block b.
MetaAt(l, b) == VI[l].vtx_block_offset + b + 1
ByteAt(l, nb, b, i) == VI[l].vtx_block_offset + nb + bitset_bytes_per_block * b + i + 1
NumBlocks(l) == VI[l].vtx_num_blocks
BlockNum(l, b) == blocks[MetaAt(l, b)].block_num
OrigDegree(l) == Len(gin.lists[l])
SizeOf(l, orig) == block_size(OrigDegree(l), orig)
\* The bits set in the longs of block b.  The metadata of a list that was never
\* packed begins with block number 0, which reads as bytes without a bit.
BitsOf(l, b) ==
  LET byte(j) == ByteAt(l, NumBlocks(l), b, j \div ByteBits)
  IN {j \in 0..(num_longs(SizeOf(l, BlockNum(l, b))) * LongBits - 1) :
        byte(j) \in DOMAIN blocks /\ j % ByteBits \in blocks[byte(j)].bits}
\* Edge j of a block: in the list, or in the block once it is decoded.
EdgeOf(l, orig, j) ==
  IF gin.compressed /\ j >= SizeOf(l, orig) THEN Garbage
  ELSE gin.lists[l][orig * edges_per_block + j + 1]

-----------------------------------------------------------------------------
Init ==
  /\ gin \in Inputs
  /\ VI = init_block_memory(gin).VI /\ blocks = init_block_memory(gin).blocks
  /\ m = SumOver({l \in DOMAIN gin.lists : l[2] = "out"}, LAMBDA l : Len(gin.lists[l]))
  /\ ops = gin.ops
  /\ stage = [l \in DOMAIN gin.lists |-> "idle"] /\ todo = [l \in DOMAIN gin.lists |-> {}]
  /\ tmp = [l \in DOMAIN gin.lists |-> << >>] /\ live = gin.lists

op == Head(ops)
Idle == \A l \in Lists : stage[l] = "idle"
OutDegrees(info) == SumOver({l \in Lists : l[2] = "out"}, LAMBDA l : info[l].vtx_degree)

\* An in-list is packed with the predicate the other way round.
\* Mutant: with the same predicate.
SameWay(l, ngh) == <<l[1], ngh>> \in op.keep
reverse_pred(l, ngh) == (IF l[2] = "out" THEN <<l[1], ngh>> ELSE <<ngh, l[1]>>) \in op.keep

\* filter_graph packs every list, the member function those of some vertices,
\* packNeighbors one, without asking for compact blocks; a list that is empty
\* already is left alone.
Start ==
  /\ Idle /\ ops # << >> /\ op.op \in {"filter", "filter_some", "packNeighbors"}
  /\ \A l \in Lists : todo[l] = {}
  /\ LET mine == {l \in op.over : VI[l].vtx_degree > 0}
     IN /\ stage' = [l \in Lists |-> IF l \in mine THEN "pack" ELSE "idle"]
        /\ todo' = [l \in Lists |-> IF l \in mine THEN 0..(NumBlocks(l) - 1) ELSE {}]
        /\ live' = [l \in Lists |-> IF l \in op.over
                      THEN SelectSeq(live[l], LAMBDA ngh :
                             (IF l[2] = "out" THEN <<l[1], ngh>> ELSE <<ngh, l[1]>>) \in op.keep)
                      ELSE live[l]]
        \* With nothing to pack the operation is over.
        /\ ops' = IF mine = {} THEN Tail(ops) ELSE ops
  /\ UNCHANGED <<gin, VI, blocks, m, tmp>>

\* 1. One block: the bits of edges that fail the predicate are cleared, and the
\* number of those left goes where the offset was.
PackBlock(l, b) ==
  /\ stage[l] = "pack" /\ b \in todo[l]
  /\ LET orig == BlockNum(l, b)
         left == {j \in BitsOf(l, b) : reverse_pred(l, EdgeOf(l, orig, j))}
         first == ByteAt(l, NumBlocks(l), b, 0)
     IN blocks' = [c \in DOMAIN blocks |->
                     IF c = MetaAt(l, b) THEN Meta(orig, Cardinality(left))
                     ELSE IF c - first \in 0..(get_bitset_block_size_in_bytes(SizeOf(l, orig)) - 1)
                     THEN Byte({k \in 0..(ByteBits - 1) : (c - first) * ByteBits + k \in left})
                     ELSE blocks[c]]
  /\ todo' = [todo EXCEPT ![l] = @ \ {b}]
  /\ UNCHANGED <<gin, VI, m, ops, stage, tmp, live>>

\* 2. Few blocks left, or some empty and the caller wants none: the list's cells
\* are copied, and the live blocks move to their new places from the copy.
FullBlocks(l) == {b \in 0..(NumBlocks(l) - 1) : blocks[MetaAt(l, b)].offset > 0}
MustRepack(l, full) ==
  \/ full * kFullBlockPackThreshold <= NumBlocks(l)
  \/ full < NumBlocks(l) /\ op.compact
\* The cells in use: the last block may be the short one.
bytes_to_copy(l) ==
  LET last == NumBlocks(l) - 1
  IN last * (1 + bitset_bytes_per_block) + 1
       + get_bitset_block_size_in_bytes(SizeOf(l, BlockNum(l, last)))
Decide(l) ==
  /\ stage[l] = "pack" /\ todo[l] = {}
  /\ IF MustRepack(l, Cardinality(FullBlocks(l)))
     THEN /\ stage' = [stage EXCEPT ![l] = "move"]
          /\ todo' = [todo EXCEPT ![l] = FullBlocks(l)]
          /\ tmp' = [tmp EXCEPT ![l] = SubSeq(blocks, VI[l].vtx_block_offset + 1,
                                              VI[l].vtx_block_offset + bytes_to_copy(l))]
     ELSE /\ stage' = [stage EXCEPT ![l] = "scan"] /\ UNCHANGED <<todo, tmp>>
  /\ UNCHANGED <<gin, VI, blocks, m, ops, live>>

\* The cell at position c (from 1) of the list's cells, as they were copied.
Copied(l, c) == tmp[l][c]
tmp_full(l) == {b \in 0..(NumBlocks(l) - 1) : tmp[l][b + 1].offset > 0}
new_locs(l, b) == Cardinality({c \in tmp_full(l) : c < b})
MoveBlock(l, b) ==
  /\ stage[l] = "move" /\ b \in todo[l]
  /\ LET nb == Cardinality(tmp_full(l))
         orig == Copied(l, b + 1).block_num
         bytes == get_bitset_block_size_in_bytes(SizeOf(l, orig))
         first == ByteAt(l, nb, new_locs(l, b), 0)
         from == NumBlocks(l) + bitset_bytes_per_block * b + 1
     IN blocks' = [c \in DOMAIN blocks |->
                     IF c = MetaAt(l, new_locs(l, b)) THEN Copied(l, b + 1)
                     ELSE IF c - first \in 0..(bytes - 1) THEN Copied(l, from + c - first)
                     ELSE blocks[c]]
  /\ todo' = [todo EXCEPT ![l] = @ \ {b}]
  /\ UNCHANGED <<gin, VI, m, ops, stage, tmp, live>>

\* 3. The counts become offsets; their sum is the degree.  The last list to end
\* ends the operation: filter_graph adds the degrees up, its version for some
\* vertices subtracts what their lists lost, packNeighbors leaves m alone.
Counted(l, nb, b) == SumOver(0..(b - 1), LAMBDA c : blocks[MetaAt(l, c)].offset)
Scan(l) ==
  /\ stage[l] = "scan" \/ (stage[l] = "move" /\ todo[l] = {})
  /\ LET nb == IF stage[l] = "move" THEN Cardinality(tmp_full(l)) ELSE NumBlocks(l)
         deg == Counted(l, nb, nb)
         last == \A k \in Lists \ {l} : stage[k] = "idle"
     IN /\ VI' = [VI EXCEPT ![l].vtx_num_blocks = nb, ![l].vtx_degree = deg]
        /\ blocks' = [c \in DOMAIN blocks |->
                        IF c - MetaAt(l, 0) \in 0..(nb - 1)
                        THEN [blocks[c] EXCEPT !.offset = Counted(l, nb, c - MetaAt(l, 0))]
                        ELSE blocks[c]]
        /\ m' = CASE last /\ op.op = "filter" -> OutDegrees(VI')
                  [] op.op = "filter_some" /\ l[2] = "out" -> m - (VI[l].vtx_degree - deg)
                  [] OTHER -> m
        /\ ops' = IF last THEN Tail(ops) ELSE ops
  /\ stage' = [stage EXCEPT ![l] = "idle"] /\ tmp' = [tmp EXCEPT ![l] = << >>]
  /\ UNCHANGED <<gin, todo, live>>

\* clear_vertices zeroes the degrees of the vertices in over, not the number of
\* their blocks.
clear_vertices ==
  /\ Idle /\ ops # << >> /\ op.op = "clear"
  /\ VI' = [l \in Lists |-> IF l \in op.over THEN [VI[l] EXCEPT !.vtx_degree = 0] ELSE VI[l]]
  /\ m' = OutDegrees(VI')
  /\ live' = [l \in Lists |-> IF l \in op.over THEN << >> ELSE live[l]]
  /\ ops' = Tail(ops)
  /\ UNCHANGED <<gin, blocks, stage, todo, tmp>>

Next ==
  \/ Start \/ clear_vertices
  \/ \E l \in Lists :
       \/ Decide(l) \/ Scan(l)
       \/ \E b \in todo[l] : PackBlock(l, b) \/ MoveBlock(l, b)
Progress == Next
Spec == Init /\ [][Next]_filterVars /\ WF_filterVars(Progress)

-----------------------------------------------------------------------------
\* The readers.  An edge comes with its index in the packed list.
Offset(l, b) == blocks[MetaAt(l, b)].offset
block_degree(l, b) ==
  (IF b = NumBlocks(l) - 1 THEN VI[l].vtx_degree ELSE Offset(l, b + 1)) - Offset(l, b)
Numbered(s, o) == [i \in DOMAIN s |-> <<s[i], o + i - 1>>]
\* The edges a block's longs select, in order.  An uncompressed block that should
\* have none is left out.
Selected(l, b) == [k \in 1..Cardinality(BitsOf(l, b)) |->
                     EdgeOf(l, BlockNum(l, b), Sorted(BitsOf(l, b))[k])]
decode_plain(l, b) == IF block_degree(l, b) = 0 THEN << >> ELSE Numbered(Selected(l, b), Offset(l, b))
decode_compressed(l, b) == Numbered(Selected(l, b), Offset(l, b))
decode_block(l, b) == IF gin.compressed THEN decode_compressed(l, b) ELSE decode_plain(l, b)
\* decode_block_cond stops after the neighbour `stop'; of a compressed block
\* every edge has its bit tested.
UpTo(s, stop) ==
  LET hits == {i \in DOMAIN s : s[i][1] = stop}
  IN IF hits = {} THEN s ELSE SubSeq(s, 1, Least(hits))
cond_plain(l, b, stop) == UpTo(decode_plain(l, b), stop)
cond_compressed(l, b, stop) ==
  LET set == Sorted(BitsOf(l, b) \cap 0..(SizeOf(l, BlockNum(l, b)) - 1))
  IN UpTo(Numbered([i \in DOMAIN set |-> EdgeOf(l, BlockNum(l, b), set[i])], Offset(l, b)), stop)
decode_block_cond(l, b, stop) == IF gin.compressed THEN cond_compressed(l, b, stop) ELSE cond_plain(l, b, stop)
AllBlocks(l) == [b \in 1..NumBlocks(l) |-> decode_block(l, b - 1)]
map_nghs(l) == FlattenSeq(AllBlocks(l))
\* Of a reduction that adds up the neighbours plus one.
map_reduce(l) ==
  LET outputs == [b \in 1..NumBlocks(l) |-> SumOver(DOMAIN decode_block(l, b - 1), LAMBDA i : decode_block(l, b - 1)[i][1] + 1)]
  IN SumOver(DOMAIN outputs, LAMBDA b : outputs[b])
\* copyNghs and decodeNghsSparse write at the index of the edge from o on: the
\* neighbour, or the hole None where cond fails.
copyNghs(l, o) == {<<o + e[2], e[1]>> : e \in Range(map_nghs(l))}
decodeNghsSparse(l, o, cond) ==
  {<<o + e[2], IF e[1] \in cond THEN e[1] ELSE None>> : e \in Range(map_nghs(l))}
\* The blocks of an edgeMap write what they emit together.
emit_block(l, b, o, cond) ==
  LET s == SelectSeq(decode_block(l, b), LAMBDA e : e[1] \in cond)
  IN {<<o + k - 1, s[k][1]>> : k \in DOMAIN s}
\* decodeNghsBreakEarly leaves the block it is in, not the list.
decodeNghsBreakEarly(l, stop) ==
  IF VI[l].vtx_degree = 0 THEN << >>
  ELSE FlattenSeq([b \in 1..NumBlocks(l) |->
         decode_block_cond(l, b - 1, stop)])
\* ith_neighbor searches the offsets for the last block that starts at or before i.
BlockWith(l, i) == Greatest({c \in 0..(NumBlocks(l) - 1) : Offset(l, c) <= i})
ith_neighbor(l, i) ==
  (CHOOSE e \in Range(decode_block_cond(l, BlockWith(l, i), None)) : e[2] = i)[1]
\* The iterator goes from long to long until one has a bit, and ends after as many
\* edges as the degree says; that of a compressed list decodes each block it enters.
iter(l) ==
  LET all == FlattenSeq([b \in 1..NumBlocks(l) |-> Selected(l, b - 1)])
  IN SubSeq(all, 1, Least({Len(all), VI[l].vtx_degree}))

-----------------------------------------------------------------------------
Quiet == Idle /\ \A l \in Lists : todo[l] = {}
Done == {gin.ops[i] : i \in 1..(Len(gin.ops) - Len(ops))}
Cleared(l) == \E o \in Done : o.op = "clear" /\ l \in o.over
\* Between operations the degree and the readers that go by it (ith_neighbor, a
\* search that breaks early, the iterator) see exactly the edges that should be
\* left, whatever blocks were moved; so do the readers that go by the blocks, whose
\* edges are numbered without gaps (so that copyNghs and decodeNghsSparse fill
\* their output), of a list that was not cleared.  Of lists whose blocks share
\* bytes only the readers that test each edge's bit do.
ReadersAgree ==
  Quiet => \A l \in Lists :
    LET s == live[l]
    IN /\ VI[l].vtx_degree = Len(s)
       /\ s = << >> => decodeNghsBreakEarly(l, None) = << >>
       /\ \A i \in DOMAIN s :
            /\ ith_neighbor(l, i - 1) = s[i]
            /\ <<s[i], i - 1>> \in Range(decodeNghsBreakEarly(l, s[i]))
       /\ Apart(gin) => iter(l) = s
       /\ Apart(gin) /\ ~Cleared(l) =>
            /\ map_nghs(l) = Numbered(s, 0)
            /\ map_reduce(l) = SumOver(DOMAIN s, LAMBDA i : s[i] + 1)
            /\ copyNghs(l, 1) = {<<i, s[i]>> : i \in DOMAIN s}
            /\ \A i \in DOMAIN s :
                 /\ decodeNghsSparse(l, 1, {s[i]}) =
                      {<<j, IF j = i THEN s[i] ELSE None>> : j \in DOMAIN s}
                 /\ \E b \in 0..(NumBlocks(l) - 1) : emit_block(l, b, 1, {s[i]}) = {<<1, s[i]>>}

\* Of an asymmetric graph filter_graph packs out-lists and in-lists alike: an
\* edge left in one is left in the other; and m is the number of edges, unless
\* a packNeighbors came by.
Bare == \E o \in Done : o.op # "filter"
Seen(l) == {e[1] : e \in Range(map_nghs(l))}
MirrorsAgree ==
  Quiet =>
    /\ ~Bare => \A l \in Lists : l[2] = "out" /\ (\E k \in Lists : k[2] = "in") =>
                  \A k \in Lists : k[2] = "in" =>
                    (k[1] \in Seen(l) <=> l[1] \in Seen(k))
    /\ (\A o \in Done : o.op # "packNeighbors") => m = OutDegrees(VI)

\* After a filter_graph no block is empty, which the iterator takes for granted
\* (its assertion cur_block_degree > 0).
BlocksCompact ==
  Quiet /\ Len(ops) < Len(gin.ops) /\ gin.ops[Len(gin.ops) - Len(ops)].op = "filter" =>
    \A l \in Lists : VI[l].vtx_degree > 0 =>
      \A b \in 0..(NumBlocks(l) - 1) : block_degree(l, b) > 0

Terminates == <>(ops = << >>)

\* map, copyNghs and the edge maps over blocks see exactly the edges that are left.
\* No run checks it, as the code does not keep it.  The 16 longs of a compressed
\* block of 1000 edges take in the first 24 bits of the next block, for which the
\* readers yield what lies behind block_decode; and clear_vertices zeroes the degree
\* of a vertex, not the number of its blocks: the edges of a compressed list, or of
\* an uncompressed one of several blocks, are still there.
SeenIsLive == Quiet => \A l \in Lists : map_nghs(l) = Numbered(live[l], 0)
=============================================================================
