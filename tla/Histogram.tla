----------------------------- MODULE Histogram -----------------------------
(***************************************************************************)
(* Counting how often each key occurs (gbbs/histogram.h) with the          *)
(* sequential hash tables of gbbs/sequential_ht.h.  Calls share one table  *)
(* whose memory is never freed between them, so each must leave every slot *)
(* empty.  A call elides the buckets when it is short; otherwise it sorts  *)
(* the keys into buckets, gives each its own stretch of the table, and     *)
(* sets the keys a sample found often apart in heavy buckets.  The buckets *)
(* work on disjoint stretches: their parallel loop is one step.            *)
(***************************************************************************)
EXTENDS SmallGraphs, Integers, SequencesExt

CONSTANTS
  Keys, EMPTY,      \* the keys, and the one that means an empty slot
  Hash,             \* hash32 and hash64, on keys and EMPTY
  KeysPerGroup,     \* low_mask: neighbouring keys share a bucket
  NumBuckets, NumBlocks,
  SeqThreshold,     \* _hist_seq_threshold
  MediumThreshold,  \* below it no heavy keys are looked for
  Inputs,           \* the sequences of keys a call may be given, none of them empty
  MaxCalls          \* bound on the calls

HistogramAssumption ==
  /\ EMPTY \in Nat /\ EMPTY \notin Keys
  /\ NumBuckets \in Nat \ {0} /\ NumBlocks \in Nat \ {0}

VARIABLES
  use,       \* "count" (insertAdd; keys may be EMPTY) or "reduce" (insertF)
  table,     \* the slots [k, v], 0..(size - 1)
  input,     \* the keys of the last call
  result,    \* what it returned: a sequence of [k, v]
  stuck,     \* a probe found neither its key nor an empty slot
  calls

histVars == <<use, table, input, result, stuck, calls>>

Slot0 == [k |-> EMPTY, v |-> 0]
Init ==
  /\ use \in {"count", "reduce"}
  /\ table = [i \in 0..0 |-> Slot0]
  /\ input = <<>> /\ result = <<>> /\ stuck = FALSE /\ calls = 0

\* The least power of two that is at least x: 1 << log2_up(x).
Pow2Up(x) == Least({p \in {1, 2, 4, 8, 16, 32} : p >= x})
\* hist_table::resize drops a table that is too small for a fresh one.
Resize(t, req) == IF req > Cardinality(DOMAIN t) THEN [i \in 0..(Pow2Up(req) - 1) |-> Slot0] ELSE t

\* Linear probing in the m slots from `start` on; -1 when it would not end.
Probe(t, start, m, k) ==
  LET at[i \in 0..m] ==
        IF i = m THEN -1
        ELSE LET h == start + ((Hash[k] + i) % m)
             IN IF t[h].k \in {EMPTY, k} THEN h ELSE at[i + 1]
  IN at[0]
\* insertAdd starts a new key at 1, insertF reduces into what the slot holds.
Insert(t, h, k) ==
  [t EXCEPT ![h] = IF t[h].k = EMPTY /\ use = "count" THEN [k |-> k, v |-> 1]
                   ELSE [k |-> k, v |-> @.v + 1]]
InsertAll(t, start, m, ks) ==
  FoldLeft(LAMBDA a, k : LET h == Probe(a.t, start, m, k)
                         IN IF a.stuck \/ h = -1 THEN [a EXCEPT !.stuck = TRUE]
                            ELSE [a EXCEPT !.t = Insert(a.t, h, k)],
           [t |-> t, stuck |-> FALSE], ks)

\* Mutant: the slot is not reset when its pair is taken.
TakeOnly(t, i) == t
\* The two compactions reset a slot before they write its pair out.
Take(t, i) == [t EXCEPT ![i] = Slot0]
\* compactInto, and compactIntoSelf to the front of the same stretch.
Compact(t, start, m, self) ==
  FoldLeft(LAMBDA a, i :
             IF a.t[i].k = EMPTY THEN a
             ELSE LET kv == a.t[i]
                      cleared == Take(a.t, i)
                  IN [t |-> IF self THEN [cleared EXCEPT ![start + Len(a.out)] = kv] ELSE cleared,
                      out |-> Append(a.out, kv)],
           [t |-> t, out |-> <<>>], [i \in 1..m |-> start + i - 1])

\* The sequential elision, for both uses: a table of n slots, or a few more.
Sequential(ks) ==
  LET n == Len(ks)
      m == Pow2Up(n)
      ins == InsertAll(Resize(table, Pow2Up(n + 1)), 0, m, ks)
      c == Compact(ins.t, 0, m, FALSE)
  IN [table |-> c.t, result |-> c.out, stuck |-> ins.stuck]

\* get_bucket: the place of a heavy key, or the hash of the key's group.
BucketOf(heavy, k) ==
  IF k \in heavy THEN NumBuckets + Cardinality({h \in heavy : h < k})
  ELSE Hash[(k \div KeysPerGroup) * KeysPerGroup] % NumBuckets
\* _count_sort sorts each block by bucket: a bucket has a run in every block.
Runs(ks, heavy, b) ==
  LET size == ((Len(ks) - 1) \div NumBlocks) + 1
  IN FlattenSeq([j \in 1..NumBlocks |->
       SelectSeq(SubSeq(ks, (j - 1) * size + 1, Least({j * size, Len(ks)})),
                 LAMBDA k : BucketOf(heavy, k) = b)])

\* The light buckets, one after the other in the table: insertions, compaction,
\* and clearing what a bucket compacted into itself.
LightBuckets(ks, heavy) ==
  LET run == [b \in 0..(NumBuckets - 1) |-> Runs(ks, heavy, b)]
      ht_size(b) == IF run[b] = <<>> THEN 0 ELSE Pow2Up(Len(run[b]) + 1)
      offs[b \in 0..NumBuckets] == IF b = 0 THEN 0 ELSE offs[b - 1] + ht_size(b - 1)
  IN FoldLeft(
       LAMBDA a, b :
         IF ht_size(b) = 0 THEN a
         ELSE LET ins == InsertAll(a.table, offs[b], ht_size(b), run[b])
                  c == Compact(ins.t, offs[b], ht_size(b), use = "count")
                  emptied == [i \in DOMAIN c.t |->
                                IF use = "count" /\ i \in offs[b]..(offs[b] + Len(c.out) - 1)
                                THEN Slot0 ELSE c.t[i]]
              IN [table |-> emptied, result |-> a.result \o c.out, stuck |-> a.stuck \/ ins.stuck],
       [table |-> Resize(table, offs[NumBuckets]), result |-> <<>>, stuck |-> FALSE],
       [b \in 1..NumBuckets |-> b - 1])

\* A heavy bucket needs no table: one key and a count, unless it is the empty key.
HeavyCounts(ks, heavy) ==
  SelectSeq([i \in 1..Cardinality(heavy) |->
               LET r == Runs(ks, heavy, NumBuckets + i - 1) IN [k |-> r[1], v |-> Len(r)]],
            LAMBDA kv : kv.k # EMPTY)

HistogramMedium(ks) == LightBuckets(ks, {})
\* heavy_hitters keeps keys that a sample of positions, repeats allowed, meets
\* three times: any of the keys.
HeavySets(ks) == SUBSET Range(ks)
HistogramLarge(ks) ==
  {[LightBuckets(ks, heavy) EXCEPT !.result = @ \o HeavyCounts(ks, heavy)] :
     heavy \in HeavySets(ks)}
HistogramReduce(ks) == IF Len(ks) < SeqThreshold THEN Sequential(ks) ELSE LightBuckets(ks, {})

Call(ks) ==
  /\ calls < MaxCalls
  /\ \E r \in IF use = "reduce" THEN {HistogramReduce(ks)}
              ELSE IF Len(ks) < SeqThreshold THEN {Sequential(ks)}
              ELSE IF Len(ks) < MediumThreshold THEN {HistogramMedium(ks)}
              ELSE HistogramLarge(ks) :
       table' = r.table /\ result' = r.result /\ stuck' = r.stuck
  /\ input' = ks /\ calls' = calls + 1
  /\ UNCHANGED use

Next == \E ks \in {i \in Inputs : use = "count" \/ EMPTY \notin Range(i)} : Call(ks)
Spec == Init /\ [][Next]_histVars
-----------------------------------------------------------------------------
\* A call leaves every slot empty for the next one; where values are reduced
\* into what a slot holds, with the identity too.
TableClean == \A i \in DOMAIN table : table[i].k = EMPTY /\ (use = "reduce" => table[i].v = 0)

\* Every key but the empty one is returned once, with how often it occurs, and
\* every probe ends.
CountsRight ==
  /\ ~stuck
  /\ {result[i].k : i \in DOMAIN result} = Range(input) \ {EMPTY}
  /\ Len(result) = Cardinality(Range(input) \ {EMPTY})
  /\ \A i \in DOMAIN result :
       result[i].v = Cardinality({j \in DOMAIN input : input[j] = result[i].k})
=============================================================================
