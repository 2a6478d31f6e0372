----------------------------- MODULE SequenceOps -----------------------------
(***************************************************************************)
(* The sequence primitives everything else is built from, and the sorts.   *)
(*                                                                         *)
(* pbbslib/sequence_ops.h, binary_search.h, stlalgs.h and the merges of    *)
(* gbbs/uncompressed_intersection.h: most cut the input into slices, put a *)
(* total of every slice in Sums, scan Sums, and let each slice write its   *)
(* own stretch of the output.  A cell that nobody wrote is Unset.          *)
(*                                                                         *)
(* The sorts of pbbslib.  By counting: counting_sort.h, integer_sort.h and *)
(* random_shuffle.h; the radix sort goes back and forth between two or     *)
(* three buffers, and where the result must end depends on the number of   *)
(* rounds and on which buffers are the same array.  By comparing:          *)
(* quicksort.h, merge.h, merge_sort.h, bucket_sort.h, transpose.h and      *)
(* sample_sort.h, with the selection of kth_smallest.h and the duplicates  *)
(* removed in stlalgs.h.                                                   *)
(*                                                                         *)
(* An element is <<key, place in the input>> and only keys are compared,   *)
(* so that the places show where it came from and whether equal keys kept  *)
(* their order.  Slices, buckets and recursive calls work on disjoint      *)
(* cells, so a parallel loop is one step.  In the sorts searching, packing *)
(* and splitting are given by what they return, and a step by counting in  *)
(* a sort by comparing by the stable order.                                *)
(***************************************************************************)
EXTENDS Integers, FiniteSets, SequencesExt, TLC

CONSTANTS
  SliceSize,     \* _block_size
  SearchBase,    \* _binary_search_base
  Granularity,   \* of find_if_index
  MergeThresh,   \* _seq_merge_thresh
  BsMergeBase,   \* _bs_merge_base
  OpInputs,      \* the sequences of small numbers a primitive may be given
  SeqThreshold,  \* SEQ_THRESHOLD: shorter inputs are counted sequentially
  Blocks,        \* num_blocks of the parallel counting sort
  Radix,         \* bits of a round of the sequential radix sort
  OuterBits,     \* bits of a level of the parallel radix sort: 8
  BaseBits,      \* base_bits: so few bits are one counting sort
  SmallSort,     \* 2^17: shorter inputs are sorted sequentially
  KeyBits,       \* of the keys in SortInputs
  SortInputs,    \* sequences of keys to count
  BaseCase,      \* base_case: shorter stretches are sorted by insertion
  CutSize,       \* cut_size of p_quicksort_
  MergeBase,     \* _merge_base
  BucketRounds,  \* bits of bucket_sort_r: 4
  BucketMin,     \* 32: elements per bucket below which it does not split
  SampleMin,     \* QUICKSORT_THRESHOLD of sample_sort_
  OverSample,    \* OVER_SAMPLE
  BucketQuotient, BlockQuotient,
  TransMin,      \* the bounds of the cache oblivious transpose, 2^22 and 512
  TransBase,     \* TRANS_THRESHHOLD
  Hash(_),       \* hash64
  CompareInputs  \* sequences of keys to compare

SequenceOpsAssumption ==
  /\ {SliceSize, SearchBase, Granularity} \subseteq Nat \ {0}
  /\ BsMergeBase \in Nat \ {0, 1} /\ MergeThresh \in Nat
  /\ {Blocks, Radix, OuterBits} \subseteq Nat \ {0}
  /\ BaseBits >= OuterBits /\ {SeqThreshold, SmallSort} \subseteq Nat
  /\ BaseCase \in Nat /\ BaseCase >= 6 /\ CutSize >= 6
  /\ MergeBase \in Nat \ {0, 1} /\ BucketRounds \in Nat \ {0}
  /\ {BucketMin, OverSample, BucketQuotient, BlockQuotient, TransMin, TransBase} \subseteq Nat \ {0}

VARIABLES
  input, other,  \* the numbers or keys, and another argument
  op,            \* the call, or "none"
  result         \* what it left in the buffers

opsVars == <<input, other, op, result>>

Unset == <<-1, -1>>
Smaller(a, b) == IF a < b THEN a ELSE b
Junk(s) == [i \in DOMAIN s |-> <<-1, i>>]
Part(s, start, end) == SubSeq(s, start + 1, end)
Keys(s) == [j \in DOMAIN s |-> s[j][1]]
\* Bits shift.. of the keys, as many as fit below 2^bits.
Bits(s, shift, bits) == [j \in DOMAIN s |-> (s[j][1] \div 2^shift) % 2^bits]
log2_up(i) == CHOOSE a \in 0..i : 2^a >= i /\ \A b \in 0..(a - 1) : 2^b < i

-----------------------------------------------------------------------------
num_slices(n) == IF n = 0 THEN 0 ELSE 1 + ((n - 1) \div SliceSize)
\* sliced_for: the blocks of s, in order.
Sliced(s) ==
  [i \in 1..num_slices(Len(s)) |->
     SubSeq(s, (i - 1) * SliceSize + 1, Smaller(i * SliceSize, Len(s)))]
\* scan_inplace(Sums, addm): the sum of what comes before each block, and of all.
RECURSIVE Before(_, _)
Before(counts, i) == IF i = 1 THEN 0 ELSE Before(counts, i - 1) + counts[i - 1]
\* Part i written from offset offs[i] on into an output of m cells.
Place(parts, offs, m) ==
  [c \in 1..m |->
     IF \E i \in DOMAIN parts : offs[i] < c /\ c <= offs[i] + Len(parts[i])
     THEN LET i == CHOOSE i \in DOMAIN parts : offs[i] < c /\ c <= offs[i] + Len(parts[i])
          IN parts[i][c - offs[i]]
     ELSE Unset]

-----------------------------------------------------------------------------
\* reduce and scan, with concatenation: a monoid that shows every operand and
\* the order they came in.
reduce_serial(s) == FlattenSeq(s)
RECURSIVE reduce(_)
reduce(s) ==
  LET l == num_slices(Len(s))
  IN IF l = 0 THEN <<>>
     ELSE IF l = 1 \/ SliceSize = 1 THEN reduce_serial(s)
     ELSE reduce([i \in 1..l |-> reduce_serial(Sliced(s)[i])])

scan_serial(s, offset, inclusive) ==
  [out |-> [i \in DOMAIN s |-> offset \o reduce_serial(SubSeq(s, 1, IF inclusive THEN i ELSE i - 1))],
   total |-> offset \o reduce_serial(s)]
scan_(s, inclusive) ==
  LET l == num_slices(Len(s))
      Sums == scan_serial([i \in 1..l |-> reduce_serial(Sliced(s)[i])], <<>>, FALSE)
  IN IF l <= 2 THEN scan_serial(s, <<>>, inclusive)
     ELSE [out |-> FlattenSeq([i \in 1..l |->
                     scan_serial(Sliced(s)[i], Sums.out[i], inclusive).out]),
           total |-> Sums.total]

-----------------------------------------------------------------------------
sum_bools_serial(fl) == Cardinality({j \in DOMAIN fl : fl[j]})
pack_serial(s, fl) ==
  LET on == SelectSeq([j \in DOMAIN s |-> j], LAMBDA j : fl[j])
  IN [k \in DOMAIN on |-> s[on[k]]]

\* pack and pack_out; filter and filter_out count while they evaluate the test.
\* The stretch of a block ends where the next begins.
pack(s, fl) ==
  LET l == num_slices(Len(s))
      counts == [i \in 1..l |-> sum_bools_serial(Sliced(fl)[i])]
      m == Before(counts, l + 1)
  IN IF l <= 1 THEN pack_serial(s, fl)
     ELSE Place([i \in 1..l |-> pack_serial(Sliced(s)[i], Sliced(fl)[i])],
                [i \in 1..l |-> Before(counts, i)], m)
filter(s, wanted) ==
  LET l == num_slices(Len(s))
      fl == [j \in DOMAIN s |-> s[j][1] \in wanted]
      counts == [i \in 1..l |-> sum_bools_serial(Sliced(fl)[i])]
  IN IF l = 0 THEN <<>>
     ELSE Place([i \in 1..l |-> pack_serial(Sliced(s)[i], Sliced(fl)[i])],
                [i \in 1..l |-> Before(counts, i)], Before(counts, l + 1))
pack_index(fl) == pack([i \in DOMAIN fl |-> i], fl)

\* The block starting after s elements puts its flagged ones after those of all
\* blocks: s + (m - c0).
split_two(s, fl) ==
  LET l == num_slices(Len(s))
      unset == [j \in DOMAIN fl |-> ~fl[j]]
      part(on) == [i \in 1..l |-> pack_serial(Sliced(s)[i], Sliced(on)[i])]
      counts == [i \in 1..l |-> sum_bools_serial(Sliced(unset)[i])]
      m == Before(counts, l + 1)
      c0 == [i \in 1..l |-> Before(counts, i)]
      c1 == [i \in 1..l |-> (i - 1) * SliceSize + (m - c0[i])]
  IN [out |-> Place(part(unset) \o part(fl), c0 \o c1, Len(s)),
      m |-> m]
split_three(s, fl) ==
  LET l == num_slices(Len(s))
      is(k) == [j \in DOMAIN fl |-> IF k = 2 THEN fl[j] \notin {0, 1} ELSE fl[j] = k]
      part(k) == [i \in 1..l |-> pack_serial(Sliced(s)[i], Sliced(is(k))[i])]
      counts(k) == [i \in 1..l |-> sum_bools_serial(Sliced(is(k))[i])]
      m0 == Before(counts(0), l + 1)
      m1 == Before(counts(1), l + 1)
      c0 == [i \in 1..l |-> Before(counts(0), i)]
      c1 == [i \in 1..l |-> m0 + Before(counts(1), i)]
      c2 == [i \in 1..l |-> m0 + m1 + ((i - 1) * SliceSize - Before(counts(0), i)
                                                           - Before(counts(1), i))]
  IN [out |-> Place(part(0) \o part(1) \o part(2), c0 \o c1 \o c2, Len(s)), m0 |-> m0, m1 |-> m1]

-----------------------------------------------------------------------------
\* The first index whose element is not less than v, counted from 0.
linear_search(s, v) ==
  IF \E i \in DOMAIN s : ~(s[i] < v)
  THEN (CHOOSE i \in DOMAIN s : ~(s[i] < v) /\ \A j \in 1..(i - 1) : s[j] < v) - 1
  ELSE Len(s)
RECURSIVE binary_search_in(_, _, _, _)
binary_search_in(s, v, start, end) ==
  LET mid == start + ((end - start) \div 2)
  IN IF end - start > SearchBase
     THEN IF ~(s[mid + 1] < v) THEN binary_search_in(s, v, start, mid)
          ELSE binary_search_in(s, v, mid + 1, end)
     ELSE start + linear_search(SubSeq(s, start + 1, end), v)
binary_search(s, v) == binary_search_in(s, v, 0, Len(s))

\* A sequential stretch, then stretches in parallel, each twice as long; Len(s)
\* when there is none.
RECURSIVE find_from(_, _, _, _)
find_from(s, wanted, start, granularity) ==
  LET end == Smaller(Len(s), start + granularity)
      hits == {i \in (start + 1)..end : s[i][1] \in wanted}
  IN IF start >= Len(s) THEN Len(s)
     ELSE IF hits # {} THEN (CHOOSE i \in hits : \A j \in hits : i <= j) - 1
     ELSE find_from(s, wanted, end, IF start = 0 THEN granularity ELSE 2 * granularity)
find_if_index(s, wanted) == find_from(s, wanted, 0, Granularity)

\* intersection::merge of two ascending lists: the elements f is applied to.
seq_merge_full(A, B) == {A[i] : i \in DOMAIN A} \cap {B[i] : i \in DOMAIN B}
search_merge(A, B) ==
  {A[i] : i \in {i \in DOMAIN A : LET mB == binary_search(B, A[i])
                                  IN mB < Len(B) /\ A[i] = B[mB + 1]}}
RECURSIVE merge(_, _)
merge(A, B) ==
  IF Len(A) + Len(B) < MergeThresh THEN seq_merge_full(A, B)
  ELSE IF Len(B) < Len(A) THEN merge(B, A)
  ELSE IF Len(A) < BsMergeBase THEN search_merge(A, B)
  ELSE LET mA == Len(A) \div 2
           mB == binary_search(B, A[mA + 1])
       IN merge(SubSeq(A, 1, mA), SubSeq(B, 1, mB))
            \cup merge(SubSeq(A, mA + 1, Len(A)), SubSeq(B, mB + 1, Len(B)))

-----------------------------------------------------------------------------
\* The offset of each bucket, and of the end.
seq_count(keys, num_buckets) ==
  [k \in 0..num_buckets |-> Cardinality({j \in DOMAIN keys : keys[j] < k})]
Moved(In, pos) == [c \in DOMAIN In |-> In[CHOOSE j \in DOMAIN In : pos[j] = c]]

\* From the last element down to the first, each at the end of what is left of
\* its bucket.
seq_write_down(In, keys, ends) ==
  Moved(In, [j \in DOMAIN In |->
    ends[keys[j] + 1] + 1 - Cardinality({i \in j..Len(In) : keys[i] = keys[j]})])
seq_count_sort(In, keys, num_buckets) ==
  seq_write_down(In, keys, seq_count(keys, num_buckets))

\* Block i writes its elements of bucket k, in order, from dest_offsets on.
BlockOf(n, j) == (j - 1) \div (((n - 1) \div Blocks) + 1)
dest_offsets(keys, offsets, k, i) ==
  offsets[k] + Cardinality({h \in DOMAIN keys : keys[h] = k /\ BlockOf(Len(keys), h) < i})
seq_write(In, keys, offsets) ==
  Moved(In, [j \in DOMAIN In |->
    LET i == BlockOf(Len(In), j)
        mine == {h \in 1..j : keys[h] = keys[j] /\ BlockOf(Len(In), h) = i}
    IN dest_offsets(keys, offsets, keys[j], i) + Cardinality(mine)])

count_sort(In, Out, keys, num_buckets, skip_if_in_one) ==
  LET offsets == seq_count(keys, num_buckets)
      one == /\ skip_if_in_one
             /\ Cardinality({k \in 1..num_buckets : offsets[k] > offsets[k - 1]}) = 1
  IN IF Len(In) < SeqThreshold \/ Blocks = 1
     THEN [out |-> seq_count_sort(In, keys, num_buckets), offsets |-> offsets, one |-> FALSE]
     ELSE [out |-> IF one THEN Out ELSE seq_write(In, keys, offsets),
           offsets |-> offsets, one |-> one]

-----------------------------------------------------------------------------
\* The rounds swap the two arrays: src is the one last written to.
RECURSIVE Rounds(_, _, _, _)
Rounds(src, dst, bits, bit_offset) ==
  IF bits = 0 THEN [src |-> src, dst |-> dst, swapped |-> FALSE]
  ELSE LET round_bits == IF Radix < bits THEN Radix ELSE bits
           sorted == seq_count_sort(src, Bits(src, bit_offset, round_bits), 2^round_bits)
       IN [Rounds(sorted, src, bits - round_bits, bit_offset + round_bits)
             EXCEPT !.swapped = ~@]

\* What In and Out hold in the end.
seq_radix_sort_(In, Out, bits, inplace) ==
  LET r == Rounds(In, Out, bits, 0)
      last == IF inplace = r.swapped THEN r.src ELSE r.dst
  IN IF r.swapped THEN [in |-> last, out |-> r.src] ELSE [in |-> r.src, out |-> last]

\* same: In and Tmp are one array.  Otherwise In is copied where an odd or even
\* number of rounds leaves the result in Out.
seq_radix_sort(In, Out, Tmp, same, key_bits, inplace) ==
  LET odd == ((key_bits - 1) \div Radix) % 2 = 1
      swap(r) == [in |-> r.out, out |-> r.in]
      r == IF same THEN seq_radix_sort_(Tmp, Out, key_bits, inplace)
           ELSE IF odd THEN seq_radix_sort_(In, Out, key_bits, FALSE)
           ELSE swap(seq_radix_sort_(In, Tmp, key_bits, TRUE))
  IN [out |-> r.out, tmp |-> r.in, offsets |-> <<>>]

\* A level splits on the topmost bits and sorts every bucket of Out against the
\* same stretch of Tmp, the other way round.
RECURSIVE integer_sort_r(_, _, _, _, _, _, _)
integer_sort_r(In, Out, Tmp, same, key_bits, num_buckets, inplace) ==
  LET n == Len(In)
      return_offsets == num_buckets > 0
      bits == IF key_bits <= BaseBits THEN key_bits ELSE OuterBits
      shift_bits == key_bits - bits
      num_bkts == IF shift_bits = 0 /\ return_offsets THEN num_buckets ELSE 2^bits
      c == count_sort(In, Out, Bits(In, shift_bits, bits), num_bkts,
                      IF shift_bits = 0 THEN inplace ELSE ~return_offsets)
      inner == IF return_offsets THEN 2^shift_bits ELSE 0
      r == [i \in 1..2^bits |->
              LET a == Part(c.out, c.offsets[i - 1], c.offsets[i])
                  b == Part(Tmp, c.offsets[i - 1], c.offsets[i])
              IN integer_sort_r(a, b, a, TRUE, shift_bits, inner, ~inplace)]
      inner_offsets == [k \in 0..num_buckets |->
        IF k = num_buckets THEN n
        ELSE c.offsets[k \div inner] + r[(k \div inner) + 1].offsets[k % inner]]
  IN IF key_bits = 0
     THEN [out |-> IF inplace THEN Out ELSE In, tmp |-> Tmp, offsets |-> <<>>]
     ELSE IF n < SmallSort /\ ~return_offsets
     THEN seq_radix_sort(In, Out, Tmp, same, key_bits, inplace)
     ELSE IF shift_bits = 0
     THEN [out |-> c.out, tmp |-> IF inplace /\ ~c.one THEN c.out ELSE Tmp,
           offsets |-> IF return_offsets THEN c.offsets ELSE <<>>]
     ELSE IF c.one
     THEN integer_sort_r(In, Out, Tmp, same, shift_bits, 0, inplace)
     ELSE [out |-> FlattenSeq([i \in DOMAIN r |-> r[i].tmp]),
           tmp |-> FlattenSeq([i \in DOMAIN r |-> r[i].out]),
           offsets |-> IF return_offsets THEN inner_offsets ELSE <<>>]

\* With bits = 0 the keys tell how many bits there are, and the offsets are
\* returned; with no bits at all there are none to return.
integer_sort_(In, Out, Tmp, same, bits, num_buckets, inplace) ==
  LET buckets == IF Len(In) = 0 THEN 1
                 ELSE 1 + (CHOOSE k \in ToSet(Keys(In)) : \A j \in ToSet(Keys(In)) : j <= k)
  IN IF bits = 0 THEN integer_sort_r(In, Out, Tmp, same, log2_up(buckets), buckets, inplace)
     ELSE integer_sort_r(In, Out, Tmp, same, bits, num_buckets, inplace)
integer_sort_inplace(In, num_bits) ==
  integer_sort_(In, Junk(In), In, TRUE, num_bits, 0, TRUE).tmp
integer_sort(In, num_bits) ==
  integer_sort_(In, Junk(In), Junk(In), FALSE, num_bits, 0, FALSE).out

\* A bucket starts and ends where the sorted keys change; one that is empty
\* keeps 0 for both.
starts(In, k) ==
  LET at == {i \in 1..(Len(In) - 1) : In[i][1] # k /\ In[i + 1][1] = k}
  IN IF at # {} THEN CHOOSE i \in at : TRUE ELSE 0
ends(In, k) ==
  LET at == {i \in DOMAIN In : In[i][1] = k /\ (i = Len(In) \/ In[i + 1][1] # k)}
  IN IF at # {} THEN CHOOSE i \in at : TRUE ELSE 0
get_counts(In, num_buckets) == [k \in 0..(num_buckets - 1) |-> ends(In, k) - starts(In, k)]

\* Swap each place, from the last, with the place pick says.
seq_random_shuffle(A, pick) ==
  FoldLeft(LAMBDA s, d : LET i == Len(A) + 1 - d
                             j == pick[i]
                         IN [s EXCEPT ![i] = s[j], ![j] = s[i]],
           A, [d \in 1..(Len(A) - 1) |-> d])
\* Longer inputs are first spread over buckets at random, and every bucket is
\* shuffled.
random_shuffle(In, pos, pick) ==
  LET c == count_sort(In, Junk(In), pos, 2, FALSE)
  IN IF Len(In) < SeqThreshold THEN seq_random_shuffle(In, pick)
     ELSE FlattenSeq([b \in 1..2 |->
            LET s == Part(c.out, c.offsets[b - 1], c.offsets[b])
            IN seq_random_shuffle(s, [i \in 1..Len(s) |-> 1 + (pick[i] % i)])])

-----------------------------------------------------------------------------
\* The order of the comparison sorts.
f(a, b) == a[1] < b[1]
Swap(s, i, j) == [s EXCEPT ![i] = s[j], ![j] = s[i]]

\* quicksort.h.  An element stops in front of the first it is not less than.
insertion_sort(s) ==
  LET rank(j) == Cardinality({i \in DOMAIN s : f(s[i], s[j])})
                 + Cardinality({i \in 1..j : ~f(s[i], s[j]) /\ ~f(s[j], s[i])})
  IN [c \in DOMAIN s |-> s[CHOOSE j \in DOMAIN s : rank(j) = c]]

sort5(A) ==
  LET m == Len(A) \div 6
      B == FoldLeft(LAMBDA s, l : Swap(s, l, m * l + 1), A, <<1, 2, 3, 4, 5>>)
  IN insertion_sort(SubSeq(B, 1, 5)) \o SubSeq(B, 6, Len(B))

\* The pivots, from the first five.
Pivots(A) ==
  LET p1 == IF ~f(A[1], A[2]) THEN A[4] ELSE A[2]
      p2 == IF ~f(A[4], A[5]) THEN p1 ELSE A[4]
  IN [p1 |-> p1, p2 |-> p2, eq |-> ~f(p1, p2)]

\* The first place from l on whose element is not less than p1, the last up to
\* r whose element is not greater than p2; outside of the array if there is none.
ScanUp(A, l, p1) == IF \E i \in l..Len(A) : ~f(A[i], p1)
                    THEN CHOOSE i \in l..Len(A) : ~f(A[i], p1) /\ \A j \in l..(i - 1) : f(A[j], p1)
                    ELSE Len(A) + 1
ScanDown(A, r, p2) == IF \E i \in 1..r : ~f(p2, A[i])
                      THEN CHOOSE i \in 1..r : ~f(p2, A[i]) /\ \A j \in (i + 1)..r : f(p2, A[j])
                      ELSE 0
\* Mutant: what comes from the right is not looked at again.
NeverBelow(e, p1) == FALSE
StillBelow(e, p1) == f(e, p1)
RECURSIVE Partition(_, _, _, _, _)
from_right(A, L, M, R, p) == Partition(A, L, M + 1, ScanDown(A, R - 1, p.p2), p)
swapped(A, L, M, R, p) ==
  IF StillBelow(A[M], p.p1) THEN from_right(Swap(A, L, M), L + 1, M, R, p)
  ELSE from_right(A, L, M, R, p)
Partition(A, L, M, R, p) ==
  IF M > R THEN [A |-> A, L |-> L - 1, M |-> M - 1, eq |-> p.eq, inside |-> R > 0]
  ELSE IF f(A[M], p.p1) THEN Partition(Swap(A, M, L), L + 1, M + 1, R, p)
  ELSE IF ~f(p.p2, A[M]) THEN Partition(A, L, M + 1, R, p)
  ELSE swapped(Swap(A, M, R), L, M, R, p)
from_pivots(A, p, L) == Partition(A, L, L, ScanDown(A, Len(A), p.p2), p)
by_two(A, p) == from_pivots(A, p, ScanUp(A, 1, p.p1))
on_five(A) == by_two(A, Pivots(A))
split3(X) == on_five(sort5(X))

\* The parts of a split are sorted on, the middle unless it is all equal; in
\* parallel or not.
RECURSIVE quicksort(_)
parts(s) ==
  quicksort(Part(s.A, 0, s.L))
    \o (IF s.eq THEN Part(s.A, s.L, s.M) ELSE quicksort(Part(s.A, s.L, s.M)))
    \o quicksort(Part(s.A, s.M, Len(s.A)))
quicksort(A) == IF Len(A) < BaseCase THEN insertion_sort(A) ELSE parts(split3(A))

p_split3(X) ==
  LET A == sort5(X)
      p == Pivots(A)
      low == SelectSeq(A, LAMBDA e : f(e, p.p1))
      mid == SelectSeq(A, LAMBDA e : ~f(e, p.p1) /\ ~f(p.p2, e))
      high == SelectSeq(A, LAMBDA e : ~f(e, p.p1) /\ f(p.p2, e))
  IN [A |-> A, B |-> low \o mid \o high, L |-> Len(low), M |-> Len(low) + Len(mid), eq |-> p.eq]
\* What In and Out hold in the end: the sorted elements are in In if inplace.
RECURSIVE p_quicksort_(_, _, _)
both(in, out) == [in |-> in, out |-> out]
joined(l, m, r) == both(l.out \o m.out \o r.out, l.in \o m.in \o r.in)
p_part(s, start, end, inplace) ==
  p_quicksort_(Part(s.B, start, end), Part(s.A, start, end), ~inplace)
p_parts(s, inplace) ==
  joined(p_part(s, 0, s.L, inplace),
         IF ~s.eq THEN p_part(s, s.L, s.M, inplace)
         ELSE both(Part(s.B, s.L, s.M), Part(IF inplace THEN s.B ELSE s.A, s.L, s.M)),
         p_part(s, s.M, Len(s.A), inplace))
sorted(s, out, inplace) == both(s, IF inplace THEN out ELSE s)
p_quicksort_(In, Out, inplace) ==
  IF Len(In) < CutSize THEN sorted(quicksort(In), Out, inplace)
  ELSE p_parts(p_split3(In), inplace)

-----------------------------------------------------------------------------
\* merge.h and merge_sort.h.  Mutant: the second list first among equals.
RECURSIVE seq_merge_late(_, _)
seq_merge_late(A, B) ==
  IF A = <<>> THEN B ELSE IF B = <<>> THEN A
  ELSE IF ~f(A[1], B[1]) THEN <<B[1]>> \o seq_merge_late(A, Tail(B))
  ELSE <<A[1]>> \o seq_merge_late(Tail(A), B)
RECURSIVE seq_merge(_, _)
seq_merge(A, B) ==
  IF A = <<>> THEN B ELSE IF B = <<>> THEN A
  ELSE IF f(B[1], A[1]) THEN <<B[1]>> \o seq_merge(A, Tail(B))
  ELSE <<A[1]>> \o seq_merge(Tail(A), B)
RECURSIVE merge_(_, _)
merge_parts(A, B, mA, mB) ==
  merge_(Part(A, 0, mA), Part(B, 0, mB)) \o merge_(Part(A, mA, Len(A)), Part(B, mB, Len(B)))
merge_at(A, B, half, mB) == merge_parts(A, B, IF mB = 0 THEN half + 1 ELSE half, mB)
merge_(A, B) ==
  LET half == Len(A) \div 2
  IN IF Len(A) + Len(B) < MergeBase THEN seq_merge(A, B)
     ELSE IF A = <<>> THEN B ELSE IF B = <<>> THEN A
     ELSE merge_at(A, B, half, Cardinality({j \in DOMAIN B : f(B[j], A[half + 1])}))

merge_halves(l, r, inplace) ==
  IF inplace THEN both(merge_(l.out, r.out), l.out \o r.out)
  ELSE both(l.in \o r.in, merge_(l.in, r.in))
RECURSIVE merge_sort_(_, _, _)
merge_sort_(In, Out, inplace) ==
  LET n == Len(In)
      m == n \div 2
  IN IF m < BaseCase THEN sorted(insertion_sort(In), Out, inplace)
     ELSE merge_halves(merge_sort_(Part(In, 0, m), Part(Out, 0, m), ~inplace),
                       merge_sort_(Part(In, m, n), Part(Out, m, n), ~inplace), inplace)

-----------------------------------------------------------------------------
\* bucket_sort.h.  The pivots l..r-1 as a heap rooted at root.
RECURSIVE to_heap_order(_, _, _, _, _)
to_heap_order(pivots, heap, root, l, r) ==
  LET n == r - l
      m == l + (n \div 2)
      h == [heap EXCEPT ![root] = pivots[m + 1]]
  IN IF n = 1 THEN h
     ELSE to_heap_order(pivots, to_heap_order(pivots, h, 2 * root + 1, l, m),
                        2 * root + 2, m + 1, r)
RECURSIVE Descend(_, _, _, _)
Descend(e, heap, j, rounds) ==
  IF rounds = 0 THEN j
  ELSE Descend(e, heap, 1 + 2 * j + (IF f(e, heap[j]) THEN 0 ELSE 1), rounds - 1)
\* The bucket of every element, and whether all pivots are equal.
num_pivots == 2^BucketRounds - 1
over_sample(n) == 1 + (n \div (2^BucketRounds * 400))
pivots_of(s, over) == [i \in 1..num_pivots |-> s[over * i + 1]]
heap_of(pivots) == to_heap_order(pivots, [j \in 0..(num_pivots - 1) |-> <<>>], 0, 0, num_pivots)
placed(A, pivots, heap) ==
  [equal |-> ~f(pivots[1], pivots[num_pivots]),
   of |-> [i \in DOMAIN A |-> Descend(A[i], heap, 0, BucketRounds) - num_pivots]]
among(A, pivots) == placed(A, pivots, heap_of(pivots))
get_buckets(A) ==
  LET n == Len(A)
  IN among(A, pivots_of(quicksort([i \in 1..((num_pivots + 1) * over_sample(n)) |->
                                     A[1 + (Hash(i - 1) % n)]]), over_sample(n)))
base_sort(in, out, stable, inplace) ==
  IF stable THEN merge_sort_(in, out, inplace) ELSE sorted(quicksort(in), out, inplace)
\* radix_step_: the buckets, one after the other, in out.
members(in, b, k) ==
  LET mine == {i \in DOMAIN in : b.of[i] = k}
  IN [c \in 1..Cardinality(mine) |->
        in[CHOOSE i \in mine : Cardinality({j \in mine : j <= i}) = c]]
below(b, k) == Cardinality({i \in DOMAIN b.of : b.of[i] < k})
RECURSIVE bucket_sort_r(_, _, _, _)
flattened(r) == both(FlattenSeq([k \in DOMAIN r |-> r[k].out]), FlattenSeq([k \in DOMAIN r |-> r[k].in]))
bucket_parts(in, b, stable, inplace) ==
  flattened([k \in 1..2^BucketRounds |->
    bucket_sort_r(members(in, b, k - 1), Part(in, below(b, k - 1), below(b, k)), stable, ~inplace)])
bucket_split(in, out, b, stable, inplace) ==
  IF Len(in) < 2^BucketRounds * BucketMin \/ b.equal THEN base_sort(in, out, stable, inplace)
  ELSE bucket_parts(in, b, stable, inplace)
bucket_sort_r(in, out, stable, inplace) == bucket_split(in, out, get_buckets(in), stable, inplace)
bucket_sort(in, stable) == bucket_sort_r(in, Junk(in), stable, TRUE).in

-----------------------------------------------------------------------------
\* transpose.h: the cells a call writes, in order.  Rows are split by half of
\* the columns' number.
RECURSIVE transR(_, _, _, _, _)
transR(rStart, rCount, cStart, cCount, base) ==
  LET l1 == cCount \div 2
  IN IF cCount * rCount < base
     THEN [k \in 1..(rCount * cCount) |->
             <<rStart + ((k - 1) \div cCount), cStart + ((k - 1) % cCount)>>]
     ELSE IF cCount > rCount
     THEN transR(rStart, rCount, cStart, l1, base)
            \o transR(rStart, rCount, cStart + l1, cCount - l1, base)
     ELSE transR(rStart, l1, cStart, cCount, base)
            \o transR(rStart + l1, rCount - l1, cStart, cCount, base)
RECURSIVE Sum(_, _)
Sum(counts, i) == IF i = 0 THEN 0 ELSE Sum(counts, i - 1) + counts[i]
\* Where block i's elements of bucket j go: after every block's of lower buckets.
dest_offset(counts, num_blocks, num_buckets, i, j) ==
  Sum([k \in DOMAIN counts |->
         counts[((k - 1) \div num_blocks) + 1 + num_buckets * ((k - 1) % num_blocks)]],
      (j - 1) * num_blocks + i - 1)
transpose_buckets(From, counts, num_blocks, num_buckets) ==
  LET n == Len(From)
      small == n < TransMin \/ num_buckets <= TransMin \/ num_blocks <= TransMin
      cells == IF small THEN [k \in DOMAIN counts |->
                                <<(k - 1) \div num_buckets, (k - 1) % num_buckets>>]
               ELSE transR(0, num_blocks, 0, num_buckets, TransBase)
      source(c) == Sum(counts, c[1] * num_buckets + c[2])
      dest(c) == dest_offset(counts, num_blocks, num_buckets, c[1] + 1, c[2] + 1)
      size(c) == counts[c[1] * num_buckets + c[2] + 1]
      written == [x \in 1..n |->
                    IF \E c \in ToSet(cells) : dest(c) < x /\ x <= dest(c) + size(c)
                    THEN LET c == CHOOSE c \in ToSet(cells) : dest(c) < x /\ x <= dest(c) + size(c)
                         IN From[source(c) + x - dest(c)]
                    ELSE <<-1, x>>]
  IN [To |-> written,
      offsets |-> [j \in 0..num_buckets |->
                     IF j = num_buckets THEN n
                     ELSE dest_offset(counts, num_blocks, num_buckets, 1, j + 1)]]

-----------------------------------------------------------------------------
\* sample_sort.h.  Between two equal pivots are the elements equal to them.
merge_seq(sA, sB) ==
  LET upto(j) == IF j > 1 /\ ~f(sB[j - 1], sB[j])
                 THEN Cardinality({i \in DOMAIN sA : ~f(sB[j], sA[i])})
                 ELSE Cardinality({i \in DOMAIN sA : f(sA[i], sB[j])})
      end(j) == IF j = 0 THEN 0 ELSE IF j > Len(sB) THEN Len(sA)
                ELSE upto(j)
  IN [j \in 1..(Len(sB) + 1) |-> end(j) - end(j - 1)]
seq_sort_inplace(A, wide, stable) ==
  IF wide /\ ~stable THEN quicksort(A) ELSE bucket_sort(A, stable)
every(s, num_buckets) == [i \in 1..(num_buckets - 1) |-> s[OverSample * (i - 1) + 1]]
sample_pivots(In, num_buckets) ==
  every(quicksort([i \in 1..(num_buckets * OverSample) |-> In[1 + (Hash(i - 1) % Len(In))]]), num_buckets)
sorted_blocks(In, num_blocks, wide, stable) ==
  LET block_size == ((Len(In) - 1) \div num_blocks) + 1
  IN [i \in 1..num_blocks |->
        seq_sort_inplace(Part(In, (i - 1) * block_size, Smaller(i * block_size, Len(In))), wide, stable)]
distributed(blocks, pivots) ==
  transpose_buckets(FlattenSeq(blocks),
                    FlattenSeq([i \in DOMAIN blocks |-> merge_seq(blocks[i], pivots)]),
                    Len(blocks), Len(pivots) + 1)
\* A bucket between equal pivots is not sorted.
final_sort(b, pivots, i, wide, stable) ==
  IF i = 1 \/ i = Len(pivots) + 1 \/ f(pivots[i - 1], pivots[i])
  THEN seq_sort_inplace(b, wide, stable) ELSE b
sorted_buckets(t, pivots, wide, stable) ==
  FlattenSeq([i \in 1..(Len(pivots) + 1) |->
    final_sort(Part(t.To, t.offsets[i - 1], t.offsets[i]), pivots, i, wide, stable)])
by_pivots(In, pivots, num_blocks, wide, stable) ==
  sorted_buckets(distributed(sorted_blocks(In, num_blocks, wide, stable), pivots), pivots, wide, stable)
ceil_sqrt(n) == CHOOSE r \in 0..n : r * r >= n /\ \A q \in 0..(r - 1) : q * q < n
sample_sort(In, wide, stable) ==
  IF Len(In) < SampleMin THEN seq_sort_inplace(In, wide, stable)
  ELSE by_pivots(In, sample_pivots(In, (ceil_sqrt(Len(In)) \div BucketQuotient) + 1),
                 2^log2_up((ceil_sqrt(Len(In)) \div BlockQuotient) + 1), wide, stable)

\* kth_smallest.h and unique of stlalgs.h.
RECURSIVE kth_smallest(_, _, _)
kth_smallest(s, k, r) ==
  LET n == Len(s)
      pivot == s[1 + (Hash(r) % n)]
      smaller == SelectSeq(s, LAMBDA a : f(a, pivot))
      larger == SelectSeq(s, LAMBDA a : f(pivot, a))
  IN IF k < Len(smaller) THEN kth_smallest(smaller, k, r + 1)
     ELSE IF k >= n - Len(larger) THEN kth_smallest(larger, k - n + Len(larger), r + 1)
     ELSE pivot
unique(s) == LET b == {i \in DOMAIN s : i = 1 \/ f(s[i], s[i - 1]) \/ f(s[i - 1], s[i])}
             IN [c \in 1..Cardinality(b) |->
                   s[CHOOSE i \in b : Cardinality({j \in b : j <= i}) = c]]

-----------------------------------------------------------------------------
Elements == [i \in DOMAIN input |-> <<input[i], i>>]

Flags == [i \in DOMAIN input |-> input[i] = 1]
Words == [i \in DOMAIN input |-> <<<<input[i], i>>>>]
Ascends(s) == \A i \in 1..(Len(s) - 1) : s[i] < s[i + 1]

Init == input \in OpInputs \cup SortInputs \cup CompareInputs /\ other = <<>> /\ op = "none" /\ result = <<>>
Run(o, b, r) == op = "none" /\ op' = o /\ other' = b /\ result' = r /\ UNCHANGED input
OnSequence(o, b, r) == input \in OpInputs /\ Run(o, b, r)
ByCounting(o, r) == input \in SortInputs /\ Run(o, <<>>, r)
ByComparing(o, r) == input \in CompareInputs /\ Run(o, <<>>, r)

Reduce == OnSequence("reduce", <<>>, reduce(Words))
Scan == \E inclusive \in BOOLEAN :
  OnSequence(IF inclusive THEN "scan_inclusive" ELSE "scan", <<>>, scan_(Words, inclusive))
Pack == OnSequence("pack", <<>>, pack(Elements, Flags))
Filter == OnSequence("filter", <<>>, filter(Elements, {1}))
PackIndex == OnSequence("pack_index", <<>>, pack_index(Flags))
SplitTwo == OnSequence("split_two", <<>>, split_two(Elements, Flags))
SplitThree == OnSequence("split_three", <<>>, split_three(Elements, input))
Find == OnSequence("find", <<>>, find_if_index(Elements, {1}))
Search == \E v \in 0..2 :
  /\ \A i \in 1..(Len(input) - 1) : input[i] <= input[i + 1]
  /\ OnSequence("search", <<v>>, binary_search(input, v))
Intersect == \E b \in {s \in OpInputs : Ascends(s)} :
  Ascends(input) /\ OnSequence("intersect", b, merge(input, b))

CountSort == LET c == count_sort(Elements, Junk(input), input, 2^KeyBits, FALSE)
             IN ByCounting("offsets", <<c.out, c.offsets>>)
IntegerSort == \E bits \in {0, KeyBits} : ByCounting("radix", integer_sort(Elements, bits))
IntegerSortInPlace == \E bits \in {0, KeyBits} : ByCounting("radix", integer_sort_inplace(Elements, bits))
IntegerSortOffsets == \E inplace \in BOOLEAN :
  LET r == integer_sort_(Elements, Junk(input), IF inplace THEN Elements ELSE Junk(input),
                         inplace, KeyBits, 2^KeyBits, inplace)
  IN ByCounting("offsets", <<IF inplace THEN r.tmp ELSE r.out, r.offsets>>)
SortWithCounts == LET R == integer_sort(Elements, KeyBits)
                  IN ByCounting("counts", <<R, get_counts(R, 2^KeyBits)>>)
Shuffle ==
  /\ input \in SortInputs
  /\ \E pos \in [DOMAIN input -> 0..1], pick \in [DOMAIN input -> DOMAIN input] :
       /\ \A i \in DOMAIN input : pick[i] <= i
       /\ Run("shuffle", <<>>, random_shuffle(Elements, pos, pick))
QuickSort == ByComparing("sort", quicksort(Elements))
PQuickSort == \E inplace \in BOOLEAN :
  LET r == p_quicksort_(Elements, Junk(Elements), inplace)
  IN ByComparing("sort", IF inplace THEN r.in ELSE r.out)
MergeSort == \E inplace \in BOOLEAN :
  LET r == merge_sort_(Elements, Junk(Elements), inplace)
  IN ByComparing("stable", IF inplace THEN r.in ELSE r.out)
BucketSort == \E stable \in BOOLEAN :
  ByComparing(IF stable THEN "stable" ELSE "sort", bucket_sort(Elements, stable))
\* remove_duplicates_ordered packs what a stable sample sort leaves.
sample_sorted(s, stable, distinct) ==
  ByComparing(IF distinct THEN "unique" ELSE IF stable THEN "stable" ELSE "sort",
      IF distinct THEN unique(s) ELSE s)
SampleSort == \E wide, stable, distinct \in BOOLEAN :
  /\ distinct => stable /\ ~wide
  /\ sample_sorted(sample_sort(Elements, wide, stable), stable, distinct)
Split == Len(input) >= BaseCase /\ ByComparing("split", split3(Elements))
Select == \E k \in 0..(Len(input) - 1) : ByComparing("select", <<k, kth_smallest(Elements, k, 0)>>)
Transpose == \E r, c \in 2..6 :
  /\ input = <<>>
  /\ ByComparing("transpose", <<r, c, transR(0, r, 0, c, TransBase)>>)
Again == op # "none" /\ op' = "none" /\ other' = <<>> /\ result' = <<>> /\ UNCHANGED input

Next == Reduce \/ Scan \/ Pack \/ Filter \/ PackIndex \/ SplitTwo \/ SplitThree \/ Find
        \/ Search \/ Intersect \/ CountSort \/ IntegerSort \/ IntegerSortInPlace \/ IntegerSortOffsets
        \/ SortWithCounts \/ Shuffle \/ QuickSort \/ PQuickSort \/ MergeSort
        \/ BucketSort \/ SampleSort \/ Split \/ Select \/ Transpose \/ Again
Spec == Init /\ [][Next]_opsVars
-----------------------------------------------------------------------------
\* However the blocks are cut, reductions and scans combine the elements in
\* their order and each of them once.
ScansRight ==
  LET upto(i) == SubSeq(Elements, 1, i)
  IN CASE op = "reduce" -> result = Elements
       [] op = "scan" -> /\ result.total = Elements
                         /\ result.out = [i \in DOMAIN input |-> upto(i - 1)]
       [] op = "scan_inclusive" -> /\ result.total = Elements
                                   /\ result.out = [i \in DOMAIN input |-> upto(i)]
       [] OTHER -> TRUE

\* Packing keeps the flagged elements in their order, splitting all of them
\* with the classes in order, and every output cell is written.
PacksRight ==
  LET class(k) == SelectSeq(Elements, LAMBDA e : e[1] = k)
      rest == SelectSeq(Elements, LAMBDA e : e[1] # 1)
  IN CASE op \in {"pack", "filter"} -> result = class(1)
       [] op = "pack_index" -> result = SelectSeq([i \in DOMAIN input |-> i], LAMBDA i : input[i] = 1)
       [] op = "split_two" -> result.out = rest \o class(1) /\ result.m = Len(rest)
       [] op = "split_three" -> /\ result.out = class(0) \o class(1)
                                              \o SelectSeq(rest, LAMBDA e : e[1] # 0)
                                /\ result.m0 = Len(class(0)) /\ result.m1 = Len(class(1))
       [] OTHER -> TRUE

\* A search returns the first place there is, and two neighbour lists have
\* their common neighbours found whichever way the lists are cut.
SearchesRight ==
  CASE op = "search" -> result = Cardinality({i \in DOMAIN input : input[i] < other[1]})
    [] op = "find" -> /\ \A i \in 1..result : input[i] # 1
                      /\ result < Len(input) => input[result + 1] = 1
    [] op = "intersect" -> result = ToSet(input) \cap ToSet(other)
    [] OTHER -> TRUE
StablySorted == SortSeq(Elements, LAMBDA a, b : a[1] < b[1] \/ (a[1] = b[1] /\ a[2] < b[2]))

\* Whatever the bits, the blocks and the buffers, the buffer the caller looks at
\* holds the elements in the order of their keys, equal keys in input order.
SortsStably ==
  /\ op = "radix" => result = StablySorted
  /\ op \in {"offsets", "counts"} => result[1] = StablySorted

\* The offsets that come with a sort are where the buckets begin, the counts
\* their sizes, and a shuffle loses and doubles nothing.
OffsetsRight ==
  /\ op = "offsets" => result[2] = [k \in 0..2^KeyBits |->
                                      Cardinality({i \in DOMAIN input : input[i] < k})]
  /\ op = "counts" => result[2] = [k \in 0..(2^KeyBits - 1) |->
                                     Cardinality({i \in DOMAIN input : input[i] = k})]
  /\ op = "shuffle" => Len(result) = Len(input) /\ ToSet(result) = ToSet(Elements)

Ascending(s) == \A i \in 1..(Len(s) - 1) : ~f(s[i + 1], s[i])

\* Every sort leaves the elements it was given, in order, in the buffer the
\* caller reads, whichever buffers the recursion went through.
SortsAll ==
  op \in {"sort", "stable"} =>
    Len(result) = Len(input) /\ ToSet(result) = ToSet(Elements) /\ Ascending(result)

\* Merge sort, and bucket and sample sort when asked to, keep equal elements in
\* the order they came in; what is unique afterwards is the first of its kind.
StableWhereSaid ==
  /\ op = "stable" => \A i \in 1..(Len(result) - 1) :
       result[i][1] = result[i + 1][1] => result[i][2] < result[i + 1][2]
  /\ op = "unique" =>
       /\ \A i \in 1..(Len(result) - 1) : f(result[i], result[i + 1])
       /\ ToSet(result) = {e \in ToSet(Elements) : \A i \in 1..(e[2] - 1) : input[i] # input[e[2]]}

\* Three-way splitting never scans past the array, leaves less than n in every
\* part that is sorted on, and a middle that is not sorted on is all equal.
SplitsShrink ==
  op = "split" =>
    /\ result.inside /\ result.L < Len(input) /\ Len(input) - result.M < Len(input)
    /\ LET mid == Part(result.A, result.L, result.M)
       IN IF result.eq THEN \A i, j \in DOMAIN mid : ~f(mid[i], mid[j])
          ELSE Len(mid) < Len(input)

\* The selected element has k others that may come before it, and a transpose
\* writes every cell once.
SelectsRight ==
  /\ op = "select" =>
       LET k == result[1]
           e == result[2]
       IN /\ Cardinality({i \in DOMAIN input : input[i] < e[1]}) <= k
          /\ k < Cardinality({i \in DOMAIN input : input[i] <= e[1]})
  /\ op = "transpose" =>
       /\ Len(result[3]) = result[1] * result[2]
       /\ ToSet(result[3]) = (0..(result[1] - 1)) \X (0..(result[2] - 1))
=============================================================================
