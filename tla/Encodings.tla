------------------------------- MODULE Encodings -------------------------------
(***************************************************************************)
(* The compressed neighbour lists (gbbs/encodings): byte, bytepd and       *)
(* bytepd_amortized.  A list is sorted; its first neighbour is stored as a *)
(* signed difference to the vertex, the others as differences, in          *)
(* variable-length bytes.  bytepd and amortized cut it into blocks of      *)
(* PARALLEL_DEGREE edges, found through an array of offsets; an amortized  *)
(* block begins with the index of its first edge.  pack removes edges in   *)
(* place, in parallel over the blocks, over the bytes they came from.      *)
(***************************************************************************)
EXTENDS Integers, Sequences, SequencesExt, FiniteSets, SmallGraphs

CONSTANTS
  PARALLEL_DEGREE,  \* edges in a block
  PD_PACK_THRESHOLD, kTemporarySpaceConstant,  \* 10000 and 10 in the code
  StackBlocks,      \* entries of block_cts_stack: 100
  Inputs,           \* [enc, weighted, src, edges, packs]: edges <<ngh, weight>>, sorted
                    \* by ngh; packs: the sets of neighbours successive packs keep
  Guard             \* the bytes of the next vertex

EncodingsAssumption ==
  /\ PARALLEL_DEGREE \in Nat \ {0}
  /\ kTemporarySpaceConstant \in Nat \ {0} /\ StackBlocks \in Nat
  \* or a batch of filter's would have no block
  /\ (PD_PACK_THRESHOLD + 1) \div kTemporarySpaceConstant >= PARALLEL_DEGREE
  /\ \A x \in Inputs : x.enc \in {"byte", "bytepd", "amortized"} /\ x.edges # << >>

VARIABLES
  in,
  mem,       \* the bytes from edge_start on
  degree,    \* the degree in the vertex's data, which pack's caller updates
  list,      \* what the list should hold
  packs,     \* the packs still to come
  todo,      \* the blocks no worker has taken
  cts,       \* block_cts of pack: one entry per block, and the total behind them
  walk,      \* byte's pack: [finger, offset, i, ngh, last_ngh, new_deg]
  phase      \* "ready", "walk", "blocks", "headers" or "repack"

encVars == <<in, mem, degree, list, packs, todo, cts, walk, phase>>

-----------------------------------------------------------------------------
Total(s) == LET sum[i \in 0..Len(s)] == IF i = 0 THEN 0 ELSE sum[i - 1] + s[i] IN sum[Len(s)]

\* compressEdge: nothing at all for zero.
compressEdge(diff) ==
  LET n == Least({k \in 0..4 : diff < 128^k})
  IN [i \in 1..n |-> ((diff \div 128^(i - 1)) % 128) + (IF i < n THEN 128 ELSE 0)]
compressFirstEdge(source, target) ==
  LET negative == target < source
      diff == IF negative THEN source - target ELSE target - source
      sign == IF negative THEN 64 ELSE 0
      more == IF diff >= 64 THEN 128 ELSE 0
  IN <<(diff % 64) + sign + more>> \o compressEdge(diff \div 64)
compressWeight(w) == IF in.weighted THEN compressFirstEdge(0, w) ELSE << >>

\* The bytes from finger on up to one without the continuation bit.
edge_bytes(m, finger, n) ==
  [val |-> Total([i \in 1..n |-> (m[finger + i] % 128) * 128^(i - 1)]), finger |-> finger + n]
eatEdge(m, finger) == edge_bytes(m, finger, Least({k \in 1..5 : m[finger + k] < 128}))
signed(source, negative, diff) == IF negative THEN source - diff ELSE source + diff
first_edge(fb, rest, source) ==
  [val |-> signed(source, (fb \div 64) % 2 = 1, (fb % 64) + 64 * rest.val), finger |-> rest.finger]
eatFirstEdge(m, finger, source) ==
  first_edge(m[finger + 1],
             IF m[finger + 1] >= 128 THEN eatEdge(m, finger + 1) ELSE [val |-> 0, finger |-> finger + 1],
             source)
eatWeight(m, finger) ==
  IF in.weighted THEN eatFirstEdge(m, finger, 0) ELSE [val |-> 1, finger |-> finger]

\* A uintE in the list: four bytes.
SizeOf == 4
Word(x) == [i \in 1..SizeOf |-> (x \div 256^(i - 1)) % 256]
WordAt(m, at) == Total([i \in 1..SizeOf |-> m[at + i] * 256^(i - 1)])
Written(m, at, s) == [i \in DOMAIN m |-> IF i - at \in DOMAIN s THEN s[i - at] ELSE m[i]]

\* The edges s as one block.
Block(s) ==
  compressFirstEdge(in.src, s[1][1]) \o compressWeight(s[1][2])
    \o FlattenSeq([i \in 1..(Len(s) - 1) |->
                     compressEdge(s[i + 1][1] - s[i][1]) \o compressWeight(s[i + 1][2])])
\* A cursor: the edge read last, and the place of the next one.
cursor(ngh, w) == [ngh |-> ngh, wgh |-> w.val, finger |-> w.finger]
weighed(m, from, e) == cursor(from + e.val, eatWeight(m, e.finger))
First(m, finger) == weighed(m, 0, eatFirstEdge(m, finger, in.src))
Following(m, c) == weighed(m, c.ngh, eatEdge(m, c.finger))
\* The edges of the block that starts at finger and has k of them.
edges_of(cs) == [i \in DOMAIN cs |-> <<cs[i].ngh, cs[i].wgh>>]
one_more(m, cs) == Append(cs, Following(m, Last(cs)))
Unblock(m, finger, k) ==
  LET read[i \in 1..k] == IF i = 1 THEN <<First(m, finger)>> ELSE one_more(m, read[i - 1])
  IN IF k <= 0 THEN << >> ELSE edges_of(read[k])

num_blocks(d) == 1 + (d - 1) \div PARALLEL_DEGREE
\* The edges s in blocks, and the offset from edge_start of each block when the
\* blocks themselves start at base and have headers of h bytes.
Chunks(s) ==
  [b \in 1..num_blocks(Len(s)) |->
     SubSeq(s, (b - 1) * PARALLEL_DEGREE + 1, Least({b * PARALLEL_DEGREE, Len(s)}))]
Offsets(s, base, h) ==
  LET size(b) == h + Len(Block(Chunks(s)[b]))
  IN [b \in 1..num_blocks(Len(s)) |-> base + Total([c \in 1..(b - 1) |-> size(c)])]

\* sequentialCompressEdgeSet of each encoding.
byte_compress(s) == Block(s)
bytepd_compress(s) ==
  LET base == SizeOf * (num_blocks(Len(s)) - 1)
      offs == Offsets(s, base, 0)
  IN FlattenSeq([b \in 1..(num_blocks(Len(s)) - 1) |-> Word(offs[b + 1])])
       \o FlattenSeq([b \in DOMAIN offs |-> Block(Chunks(s)[b])])
compute_block_size(chunk) == Len(Block(chunk))
compute_size_in_bytes(s) ==
  SizeOf * (num_blocks(Len(s)) - 1) + Total([b \in DOMAIN Chunks(s) |-> compute_block_size(Chunks(s)[b])])
amortized_compress(s) ==
  LET base == SizeOf * num_blocks(Len(s))
      offs == Offsets(s, base, SizeOf)
  IN Word(Len(s))
       \o FlattenSeq([b \in 1..(num_blocks(Len(s)) - 1) |-> Word(offs[b + 1])])
       \o FlattenSeq([b \in DOMAIN offs |->
                        Word((b - 1) * PARALLEL_DEGREE) \o Block(Chunks(s)[b])])
Compressed(s) == CASE in.enc = "byte" -> byte_compress(s)
                   [] in.enc = "bytepd" -> bytepd_compress(s)
                   [] in.enc = "amortized" -> amortized_compress(s)

-----------------------------------------------------------------------------
\* A reader that may stop visits the edges up to the neighbour `stop'; with
\* the stop Never it visits all of them.
Never == -1
Stops(s, stop) == \E i \in DOMAIN s : s[i][1] = stop
UpTo(s, stop) == IF Stops(s, stop) THEN SubSeq(s, 1, CHOOSE i \in DOMAIN s : s[i][1] = stop) ELSE s
Wanted(s, wanted) == SelectSeq(s, LAMBDA e : e[1] \in wanted)
\* What a reduction that adds up the weights gives.
Reduced(s) == Total([i \in DOMAIN s |-> s[i][2]])
\* Two iterators are advanced together, and what they share is counted.
Merged(s, t) ==
  LET merge[k \in 0..(Len(s) + Len(t))] ==
        LET prev == merge[k - 1]
        IN IF k = 0 THEN <<1, 1, 0>>
           ELSE IF prev[1] > Len(s) \/ prev[2] > Len(t) THEN prev
           ELSE LET x == s[prev[1]] y == t[prev[2]]
                IN <<prev[1] + (IF x <= y THEN 1 ELSE 0), prev[2] + (IF y <= x THEN 1 ELSE 0),
                     prev[3] + (IF x = y THEN 1 ELSE 0)>>
  IN merge[Len(s) + Len(t)][3]

\* byte: one block.
byte_decode(m, d, stop) == UpTo(Unblock(m, 0, d), stop)
byte_map_reduce(m, d) == Reduced(Unblock(m, 0, d))
byte_filter(m, d, wanted) == Wanted(Unblock(m, 0, d), wanted)
byte_iter(m, d) == [k \in 1..d |-> Unblock(m, 0, k)[k][1]]
byte_intersect(m, d, t) == IF d = 0 \/ t = << >> THEN 0 ELSE Merged(byte_iter(m, d), t)
\* The difference of edge i itself is not added.
byte_get_ith_neighbor(m, d, i) == Unblock(m, 0, d)[Greatest({i, 1})]

\* bytepd: the degree gives the number of blocks and of the edges in each.
bytepd_get_num_blocks(m, d) == IF d = 0 THEN 0 ELSE num_blocks(d)
bytepd_finger(m, d, b) == IF b = 0 THEN SizeOf * (num_blocks(d) - 1) ELSE WordAt(m, SizeOf * (b - 1))
bytepd_decode_block(m, d, b) ==
  Unblock(m, bytepd_finger(m, d, b), Least({PARALLEL_DEGREE, d - b * PARALLEL_DEGREE}))
bytepd_decode_block_cond(s, stop) == UpTo(s, stop)
bytepd_blocks(m, d) == [i \in 1..bytepd_get_num_blocks(m, d) |-> bytepd_decode_block(m, d, i - 1)]
\* A stop in the first block, which is not decoded in parallel, ends all of
\* it; a stop in another block ends that block.
bytepd_visited(bs, stop) ==
  IF bs # << >> /\ Stops(bs[1], stop) THEN bytepd_decode_block_cond(bs[1], stop)
  ELSE FlattenSeq([i \in DOMAIN bs |-> bytepd_decode_block_cond(bs[i], stop)])
bytepd_decode(m, d, stop) == bytepd_visited(bytepd_blocks(m, d), stop)
bytepd_map_reduce(m, d) ==
  LET block_outputs == [i \in 1..bytepd_get_num_blocks(m, d) |-> Reduced(bytepd_decode_block(m, d, i - 1))]
  IN Total(block_outputs)
filterBlock(m, d, wanted) ==
  FlattenSeq([i \in 1..num_blocks(d) |-> Wanted(bytepd_decode_block(m, d, i - 1), wanted)])
\* The iterator needs no offsets: a block starts where the one before it ends.
bytepd_iter(m, d) ==
  LET at[k \in 1..d] ==
        IF k = 1 THEN [c |-> First(m, SizeOf * (num_blocks(d) - 1)), proc |-> 1]
        ELSE LET prev == at[k - 1]
                 c == prev.c
             IN IF prev.proc = PARALLEL_DEGREE THEN [c |-> First(m, c.finger), proc |-> 1]
                ELSE [c |-> Following(m, c), proc |-> prev.proc + 1]
  IN [k \in 1..d |-> at[k].c.ngh]
bytepd_get_block_degree(d, b) == IF b < num_blocks(d) - 1 THEN PARALLEL_DEGREE ELSE d % PARALLEL_DEGREE

\* amortized: the first word is the degree the list was built with, a block
\* begins with the index of its first edge, and may be empty.
get_virtual_degree(m) == WordAt(m, 0)
amortized_get_num_blocks(m, d) == IF d = 0 THEN 0 ELSE num_blocks(get_virtual_degree(m))
amortized_finger(m, b) ==
  IF b = 0 THEN SizeOf * num_blocks(get_virtual_degree(m)) ELSE WordAt(m, SizeOf * b)
start_offset(m, b) == WordAt(m, amortized_finger(m, b))
end_offset(m, d, b) ==
  IF b = num_blocks(get_virtual_degree(m)) - 1 THEN d ELSE start_offset(m, b + 1)
amortized_decode_block(m, d, b) ==
  Unblock(m, amortized_finger(m, b) + SizeOf, end_offset(m, d, b) - start_offset(m, b))
amortized_decode_block_cond(s, stop) == UpTo(s, stop)
amortized_blocks(m, d) == [i \in 1..amortized_get_num_blocks(m, d) |-> amortized_decode_block(m, d, i - 1)]
\* Without weights the first block alone ends all, with weights every block.
visited_unweighted(bs, stop) ==
  IF bs # << >> /\ Stops(bs[1], stop) THEN amortized_decode_block_cond(bs[1], stop)
  ELSE FlattenSeq([i \in DOMAIN bs |-> amortized_decode_block_cond(bs[i], stop)])
visited_weighted(bs, stop) ==
  UpTo(FlattenSeq(SubSeq(bs, 1, Least({i \in DOMAIN bs : Stops(bs[i], stop)} \cup {Len(bs)}))), stop)
decode_unweighted(m, d, stop) == visited_unweighted(amortized_blocks(m, d), stop)
decode_weighted(m, d, stop) == visited_weighted(amortized_blocks(m, d), stop)
amortized_map_reduce(m, d) ==
  LET block_outputs == [i \in 1..amortized_get_num_blocks(m, d) |-> Reduced(amortized_decode_block(m, d, i - 1))]
  IN Total(block_outputs)
filter_sequential(m, d, wanted) ==
  FlattenSeq([i \in 1..num_blocks(get_virtual_degree(m)) |-> Wanted(amortized_decode_block(m, d, i - 1), wanted)])
\* A large list is filtered some blocks at a time, through a buffer whose
\* indices start with the first edge of the batch.
amortized_filter(m, d, wanted) ==
  LET nb == num_blocks(get_virtual_degree(m))
      blocks_per_iter == (d \div kTemporarySpaceConstant) \div PARALLEL_DEGREE
      batch(start) ==
        LET end == Least({start + blocks_per_iter, nb})
            at(b, e) == e - start_offset(m, start)
            tmp == [k \in 1..at(end - 1, end_offset(m, d, end - 1)) |->
                      LET b == CHOOSE c \in start..(end - 1) :
                                 k - 1 \in at(c, start_offset(m, c))..(at(c, end_offset(m, d, c)) - 1)
                      IN amortized_decode_block(m, d, b)[k - at(b, start_offset(m, b))]]
        IN Wanted(tmp, wanted)
  IN IF d <= PD_PACK_THRESHOLD THEN IF d = 0 THEN << >> ELSE filter_sequential(m, d, wanted)
     ELSE FlattenSeq([i \in 1..((nb - 1) \div blocks_per_iter + 1) |-> batch((i - 1) * blocks_per_iter)])
\* The iterator goes past blocks that are empty.
amortized_iter(m, d) ==
  LET full(b) == Least({c \in 0..(amortized_get_num_blocks(m, d) - 1) : c >= b /\ start_offset(m, c) < end_offset(m, d, c)})
      enter(b) == [c |-> First(m, amortized_finger(m, b) + SizeOf), chunk |-> b, read |-> 1]
      at[k \in 1..d] ==
        IF k = 1 THEN enter(full(0))
        ELSE LET prev == at[k - 1]
                 c == prev.c
                 b == prev.chunk
             IN IF prev.read = end_offset(m, d, b) - start_offset(m, b) THEN enter(full(b + 1))
                ELSE [c |-> Following(m, c), chunk |-> b, read |-> prev.read + 1]
  IN [k \in 1..d |-> at[k].c.ngh]
\* The simple one takes the degree for the virtual degree, and blocks for full.
simple_iter(m, d) ==
  LET at[k \in 1..d] ==
        IF k = 1 THEN [c |-> First(m, SizeOf * (num_blocks(d) + 1)), proc |-> 1]
        ELSE LET prev == at[k - 1]
                 c == prev.c
             IN IF prev.proc = PARALLEL_DEGREE THEN [c |-> First(m, c.finger + SizeOf), proc |-> 1]
                ELSE [c |-> Following(m, c), proc |-> prev.proc + 1]
  IN [k \in 1..d |-> at[k].c.ngh]
amortized_intersect(m, d, t) == IF d = 0 \/ t = << >> THEN 0 ELSE Merged(simple_iter(m, d), t)
amortized_get_ith_neighbor(m, d, i) ==
  LET b == Least({c \in 0..(amortized_get_num_blocks(m, d) - 1) : i < end_offset(m, d, c)})
  IN amortized_decode_block(m, d, b)[Greatest({i - start_offset(m, b), 1})]
amortized_get_block_degree(m, d, b) ==
  end_offset(m, d, b) - (IF b = 0 THEN 0 ELSE end_offset(m, d, b - 1))

\* The decoder the graph was built with.
decode(m, d, stop) == CASE in.enc = "byte" -> byte_decode(m, d, stop)
                        [] in.enc = "bytepd" -> bytepd_decode(m, d, stop)
                        [] in.enc = "amortized" /\ in.weighted -> decode_weighted(m, d, stop)
                        [] in.enc = "amortized" /\ ~in.weighted -> decode_unweighted(m, d, stop)
map_reduce(m, d) == CASE in.enc = "byte" -> byte_map_reduce(m, d)
                      [] in.enc = "bytepd" -> bytepd_map_reduce(m, d)
                      [] in.enc = "amortized" -> amortized_map_reduce(m, d)
filter(m, d, wanted) == CASE in.enc = "byte" -> byte_filter(m, d, wanted)
                          [] in.enc = "bytepd" -> IF d = 0 THEN << >> ELSE filterBlock(m, d, wanted)
                          [] in.enc = "amortized" -> amortized_filter(m, d, wanted)
iter(m, d) == CASE in.enc = "byte" -> byte_iter(m, d)
                [] in.enc = "bytepd" -> bytepd_iter(m, d)
                [] in.enc = "amortized" -> amortized_iter(m, d)
get_num_blocks(m, d) == CASE in.enc = "byte" -> 1
                          [] in.enc = "bytepd" -> bytepd_get_num_blocks(m, d)
                          [] in.enc = "amortized" -> amortized_get_num_blocks(m, d)
decode_block(m, d, b) == IF in.enc = "bytepd" THEN bytepd_decode_block(m, d, b)
                         ELSE amortized_decode_block(m, d, b)

-----------------------------------------------------------------------------
NoWalk == [finger |-> 0, offset |-> 0, i |-> 0, ngh |-> 0, last_ngh |-> 0, new_deg |-> 0]
Init ==
  /\ in \in Inputs
  /\ mem = Compressed(in.edges) \o Guard /\ degree = Len(in.edges)
  /\ list = in.edges /\ packs = in.packs
  /\ todo = {} /\ cts = << >> /\ walk = NoWalk /\ phase = "ready"

keep == Head(packs)
Kept(s) == SelectSeq(s, LAMBDA e : e[1] \in keep)

\* byte's pack walks the list with two fingers: one edge is read, and when it
\* is kept written where the last one that was ended.
WalkStart ==
  /\ phase = "ready" /\ packs # << >> /\ in.enc = "byte"
  /\ walk' = NoWalk /\ phase' = "walk"
  /\ UNCHANGED <<in, mem, degree, list, packs, todo, cts>>
\* Mutant: the neighbour itself is written, not the difference.
Absolute(ngh) == IF walk.new_deg = 0 THEN compressFirstEdge(in.src, ngh) ELSE compressEdge(ngh)
Recoded(ngh) == IF walk.new_deg = 0 THEN compressFirstEdge(in.src, ngh)
                ELSE compressEdge(ngh - walk.last_ngh)
WalkStep ==
  /\ phase = "walk" /\ walk.i < degree
  /\ LET e == IF walk.i = 0 THEN eatFirstEdge(mem, walk.finger, in.src) ELSE eatEdge(mem, walk.finger)
         ngh == IF walk.i = 0 THEN e.val ELSE walk.ngh + e.val
         w == eatWeight(mem, e.finger)
         out == Recoded(ngh) \o compressWeight(w.val)
     IN IF ngh \in keep
        THEN /\ mem' = Written(mem, walk.offset, out)
             /\ walk' = [finger |-> w.finger, offset |-> walk.offset + Len(out), i |-> walk.i + 1,
                         ngh |-> ngh, last_ngh |-> ngh, new_deg |-> walk.new_deg + 1]
        ELSE /\ walk' = [walk EXCEPT !.finger = w.finger, !.i = @ + 1, !.ngh = ngh]
             /\ UNCHANGED mem
  /\ UNCHANGED <<in, degree, list, packs, todo, cts, phase>>
WalkEnd ==
  /\ phase = "walk" /\ walk.i = degree
  /\ degree' = walk.new_deg /\ list' = Kept(list) /\ packs' = Tail(packs)
  /\ walk' = NoWalk /\ phase' = "ready"
  /\ UNCHANGED <<in, mem, todo, cts>>

\* The block packs of bytepd and amortized.  bytepd gives up on a list of more
\* than one block, and returns its degree.
PackStart ==
  /\ phase = "ready" /\ packs # << >> /\ in.enc # "byte"
  /\ IF in.enc = "bytepd" /\ degree > PARALLEL_DEGREE
     THEN /\ list' = Kept(list) /\ packs' = Tail(packs)
          /\ UNCHANGED <<todo, cts, phase>>
     ELSE /\ todo' = 0..(get_num_blocks(mem, degree) - 1) /\ phase' = "blocks"
          /\ cts' = [b \in 0..(get_num_blocks(mem, degree) - 1) |-> 0]
          /\ UNCHANGED <<list, packs>>
  /\ UNCHANGED <<in, mem, degree, walk>>
\* The entries block_cts has: on the stack, or allocated for a long list.
BlockCts(num) == IF num > StackBlocks THEN num + 1 ELSE StackBlocks
\* One block is read whole, counted, and when some of it stays written back
\* from its start; the amortized one is left alone when all of it stays.
packBlock(kept) == IF kept = << >> THEN mem ELSE Written(mem, 0, Block(kept))
amortized_pack(b, s, kept) ==
  IF Len(kept) \in 1..(Len(s) - 1) THEN Written(mem, amortized_finger(mem, b) + SizeOf, Block(kept)) ELSE mem
PackBlock(b) ==
  /\ phase = "blocks" /\ b \in todo
  /\ LET s == decode_block(mem, degree, b)
         kept == Kept(s)
     IN /\ cts' = [cts EXCEPT ![b] = Len(kept)]
        /\ mem' = IF in.enc = "bytepd" THEN packBlock(kept) ELSE amortized_pack(b, s, kept)
  /\ todo' = todo \ {b}
  /\ UNCHANGED <<in, degree, list, packs, walk, phase>>
Before(b) == Total([c \in 1..b |-> cts[c - 1]])
\* block_cts[num_blocks] takes part in the scan of an amortized pack.
PackScan ==
  /\ phase = "blocks" /\ todo = {}
  /\ IF in.enc = "amortized"
     THEN cts' = cts @@ (Cardinality(DOMAIN cts) :> 0) /\ todo' = DOMAIN cts
     ELSE UNCHANGED <<cts, todo>>
  /\ phase' = "headers"
  /\ UNCHANGED <<in, mem, degree, list, packs, walk>>
PackHeader(b) ==
  /\ phase = "headers" /\ b \in todo
  /\ mem' = Written(mem, amortized_finger(mem, b), Word(Before(b)))
  /\ todo' = todo \ {b}
  /\ UNCHANGED <<in, degree, list, packs, cts, walk, phase>>
PackEnd ==
  /\ phase = "headers" /\ todo = {}
  /\ degree' = Before(Cardinality(DOMAIN cts))
  /\ list' = Kept(list) /\ packs' = Tail(packs) /\ cts' = << >>
  /\ phase' = IF in.enc = "amortized" /\ Before(Cardinality(DOMAIN cts)) < WordAt(mem, 0) \div 10
              THEN "repack" ELSE "ready"
  /\ UNCHANGED <<in, mem, todo, walk>>
\* repack copies the list out and compresses it again, in as many blocks as it
\* now needs; an empty list is left as it is.
Repack ==
  /\ phase = "repack"
  /\ mem' = IF degree = 0 THEN mem ELSE Written(mem, 0, amortized_compress(FlattenSeq(amortized_blocks(mem, degree))))
  /\ phase' = "ready"
  /\ UNCHANGED <<in, degree, list, packs, todo, cts, walk>>

Next ==
  \/ WalkStart \/ WalkStep \/ WalkEnd \/ PackStart \/ PackScan \/ PackEnd \/ Repack
  \/ \E b \in todo : PackBlock(b) \/ PackHeader(b)
Spec == Init /\ [][Next]_encVars

-----------------------------------------------------------------------------
Nghs(s) == [i \in DOMAIN s |-> s[i][1]]
EveryOther(s) == {s[i][1] : i \in {j \in DOMAIN s : j % 2 = 1}}
StoppedAt(seen, stop) == Stops(seen, stop) /\ Range(seen) \subseteq Range(list)
\* After any packs every reader sees the list that should be left: decode,
\* with a stop or without, the reductions, filter and the iterator; of a list
\* that was never packed, intersect too; and the size computed is the size.
ReadersAgree ==
  phase = "ready" =>
    /\ degree = Len(list) /\ decode(mem, degree, Never) = list
    /\ \A i \in DOMAIN list : StoppedAt(decode(mem, degree, list[i][1]), list[i][1])
    /\ map_reduce(mem, degree) = Total([i \in DOMAIN list |-> list[i][2]])
    /\ filter(mem, degree, EveryOther(list)) = Wanted(list, EveryOther(list))
    /\ iter(mem, degree) = Nghs(list)
    /\ in.enc = "byte" => byte_intersect(mem, degree, Nghs(in.edges)) = Len(list)
    /\ list = in.edges /\ in.enc = "amortized" =>
         amortized_intersect(mem, degree, Nghs(in.edges)) = Len(list)
    /\ list = in.edges /\ in.enc = "bytepd" => compute_size_in_bytes(list) = Len(mem) - Len(Guard)

\* block_cts has room for every count and the total.  No run checks it, as the code
\* does not keep it: a list of exactly 100 blocks has its counts on the stack, and
\* block_cts[100] = 0 goes past the stack's 100 entries (bytepd's has 101).
CtsFit == in.enc = "amortized" => Cardinality(DOMAIN cts) <= BlockCts(num_blocks(get_virtual_degree(mem)))

\* pack works over the bytes it reads: what it writes never reaches bytes that
\* are still to be read, nor the list of the next vertex (the assertion
\* `offset <= (finger - edge_start)').  The counts and their total fit block_cts,
\* but for the list that fills block_cts_stack, whose total lies behind it.
StaysInside ==
  /\ walk.offset <= walk.finger
  /\ \A i \in 1..Len(Guard) : mem[Len(mem) - Len(Guard) + i] = Guard[i]
  /\ in.enc = "amortized" /\ num_blocks(get_virtual_degree(mem)) # StackBlocks => CtsFit

\* The degrees of the blocks make up the list, whatever pack has left in each.
BlocksMakeList ==
  phase = "ready" /\ in.enc = "amortized" =>
    Total([b \in 1..get_num_blocks(mem, degree) |->
             amortized_get_block_degree(mem, degree, b - 1)]) = degree

\* The interface the encodings share with uncompressed lists: neighbour i of a list,
\* and how many a block has.  No run checks it, as the code does not keep it: it
\* counts the neighbours from 1 but the first also from 0, and bytepd's last block
\* has degree % PARALLEL_DEGREE neighbours, also when that is 0.
IthIsIth ==
  phase = "ready" =>
    /\ \A i \in 0..(degree - 1) :
         /\ in.enc = "byte" => byte_get_ith_neighbor(mem, degree, i) = list[i + 1]
         /\ in.enc = "amortized" => amortized_get_ith_neighbor(mem, degree, i) = list[i + 1]
    /\ in.enc = "bytepd" =>
         \A b \in 0..(get_num_blocks(mem, degree) - 1) :
           bytepd_get_block_degree(degree, b) = Len(bytepd_decode_block(mem, degree, b))
=============================================================================
