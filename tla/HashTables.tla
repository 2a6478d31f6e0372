------------------------------ MODULE HashTables ------------------------------
(***************************************************************************)
(* The tables the algorithms insert into from parallel loops, with linear  *)
(* probing: gbbs/pbbslib/sparse_table.h claims a slot by its key and then  *)
(* writes the value, resizable_table.h holds several values of a key and   *)
(* claims a slot with the pair, and pbbslib/hash_table.h lets a key of     *)
(* higher priority bump a lower one, so that its layout does not depend on *)
(* the order of the insertions.  Searches come only when no insertion      *)
(* runs, deletions one at a time.                                          *)
(***************************************************************************)
EXTENDS Integers, FiniteSets, FiniteSetsExt, Sequences, SmallGraphs

CONSTANTS
  Threads,
  hash(_),      \* of a key
  TableInputs   \* [kind, m, pairs, deletes]: pairs, a sequence of <<key, value>> to insert;
                \* deletes, keys deleted from a "pbbs" table afterwards

\* How many slots after e the slot h comes, around the end of m slots.
After(m, e, h) == IF e <= h THEN h - e ELSE h - e + m
\* lessIndex takes a distance of half the table for a negative one, so that deletions
\* are right where no stretch of full slots is longer than half of it.  The n slots after
\* an empty one are full when, for each x, x keys or more have their first index among
\* the first x of them.
ShortStretches(keys, m) ==
  /\ Cardinality(keys) < m
  /\ \A e \in 0..(m - 1), n \in 1..(m - 1) :
       (\A x \in 1..n : Cardinality({k \in keys : After(m, e, hash(k) % m) \in 1..x}) >= x) => 2 * n <= m

ASSUME HashTablesAssumption ==
  /\ IsFiniteSet(Threads)
  /\ \A x \in TableInputs :
       /\ x.kind \in {"sparse", "resizable", "pbbs"} /\ x.m \in Nat \ {0}
       /\ x.pairs \in Seq(Nat \X Nat) /\ x.deletes \in Seq(Nat)
       /\ \A i \in DOMAIN x.pairs : hash(x.pairs[i][1]) \in Nat
       /\ \A i \in DOMAIN x.deletes : hash(x.deletes[i]) \in Nat
       /\ x.deletes # << >> =>
            x.kind = "pbbs" /\ ShortStretches({x.pairs[i][1] : i \in DOMAIN x.pairs}, x.m)

VARIABLES
  hin,
  slots,    \* index -> <<key, value>>; EmptySlot, and NoValue for a value not written yet
  old_t,    \* entries of a smaller table that are still to be reinserted
  waiting,  \* indices into pairs no thread has taken
  job,      \* thread -> [kv, h, c, pc, own]: the pair, the index, the slot as read
  ne, cts,  \* elements counted by update_nelms, and since then by each thread
  won,      \* the pairs whose insertion returned true
  deletes,  \* keys still to be deleted
  hole,     \* the index that a deletion fills next, -1 when there is none
  mode      \* "insert", "resize", "quiet", or "fill" in a deletion

tableVars == <<hin, slots, old_t, waiting, job, ne, cts, won, deletes, hole, mode>>

EmptySlot == <<-1, -1>>
NoValue == -2
TableSize == Cardinality(DOMAIN slots)
firstIndex(k) == hash(k) % TableSize
incrementIndex(h) == (h + 1) % TableSize
NoJob == [kv |-> EmptySlot, h |-> 0, c |-> EmptySlot, pc |-> "idle", own |-> EmptySlot]
Cleared(size) == [h \in 0..(size - 1) |-> EmptySlot]
Entries(s) == {s[h] : h \in DOMAIN s} \ {EmptySlot}
TablePairs == {hin.pairs[i] : i \in DOMAIN hin.pairs}
TableKeys == {p[1] : p \in TablePairs}

TableInit ==
  /\ hin \in TableInputs
  /\ slots = Cleared(hin.m) /\ old_t = {} /\ waiting = DOMAIN hin.pairs
  /\ job = [w \in Threads |-> NoJob] /\ ne = 0 /\ cts = [w \in Threads |-> 0]
  /\ won = << >> /\ deletes = hin.deletes /\ hole = -1 /\ mode = "insert"

-----------------------------------------------------------------------------
Probe(w, kv) ==
  job' = [job EXCEPT ![w] = [kv |-> kv, h |-> firstIndex(kv[1]), c |-> EmptySlot, pc |-> "load", own |-> kv]]
TakePair(w) ==
  /\ job[w].pc = "idle" /\ mode = "insert"
  /\ \E i \in waiting : waiting' = waiting \ {i} /\ Probe(w, hin.pairs[i])
  /\ UNCHANGED <<hin, slots, old_t, ne, cts, won, deletes, hole, mode>>
LoadSlot(w) ==
  /\ job[w].pc = "load"
  /\ job' = [job EXCEPT ![w].c = slots[job[w].h], ![w].pc = "act"]
  /\ UNCHANGED <<hin, slots, old_t, waiting, ne, cts, won, deletes, hole, mode>>

\* Mutant: whoever comes first stays.
NeverHigher(k, c) == FALSE
Higher(k, c) == c # EmptySlot /\ k > c[1]
\* What the thread does with the slot as it read it.
Store(w, kv, new) == /\ slots' = [slots EXCEPT ![job[w].h] = kv] /\ job' = [job EXCEPT ![w] = new]
Returns(w, result) ==
  /\ won' = IF result THEN Append(won, job[w].own) ELSE won
  /\ cts' = [cts EXCEPT ![w] = @ + (IF result THEN 1 ELSE 0)]
MovedOn(w, kv) == [job[w] EXCEPT !.kv = kv, !.h = incrementIndex(@), !.pc = "load"]
\* Is the slot, read again after the CAS, the one the thread wants?
SameEntry(w) ==
  LET s == slots[job[w].h]
  IN IF hin.kind = "sparse" THEN s[1] = job[w].kv[1] ELSE s = job[w].kv
ClaimEmpty(w) ==
  /\ job[w].pc = "act" /\ job[w].c[1] = EmptySlot[1] /\ slots[job[w].h][1] = EmptySlot[1]
  /\ IF hin.kind = "sparse"
     THEN /\ Store(w, <<job[w].kv[1], NoValue>>, [job[w] EXCEPT !.pc = "value"])
          /\ UNCHANGED <<won, cts>>
     ELSE Store(w, job[w].kv, NoJob) /\ Returns(w, TRUE)
  /\ UNCHANGED <<hin, old_t, waiting, ne, deletes, hole, mode>>
WriteValue(w) ==
  /\ job[w].pc = "value"
  /\ Store(w, job[w].kv, NoJob) /\ Returns(w, TRUE)
  /\ UNCHANGED <<hin, old_t, waiting, ne, deletes, hole, mode>>
\* sparse and resizable: the slot was taken, or the CAS failed.
Compare(w) ==
  /\ job[w].pc = "act" /\ hin.kind # "pbbs" /\ slots[job[w].h][1] # EmptySlot[1]
  /\ IF SameEntry(w)
     THEN job' = [job EXCEPT ![w] = NoJob] /\ Returns(w, FALSE)
     ELSE job' = [job EXCEPT ![w] = MovedOn(w, job[w].kv)] /\ UNCHANGED <<won, cts>>
  /\ UNCHANGED <<hin, slots, old_t, waiting, ne, deletes, hole, mode>>
\* pbbs: the key read is equal, of higher priority, or bumped and carried on;
\* a failed CAS reads again.
Bumped(w) == MovedOn(w, job[w].c)
Prioritize(w) ==
  LET c == job[w].c
      k == job[w].kv[1]
  IN /\ job[w].pc = "act" /\ hin.kind = "pbbs"
     /\ \/ /\ k = c[1] /\ job' = [job EXCEPT ![w] = NoJob] /\ Returns(w, FALSE)
           /\ UNCHANGED slots
        \/ /\ c # EmptySlot /\ k # c[1] /\ ~Higher(k, c)
           /\ job' = [job EXCEPT ![w] = MovedOn(w, job[w].kv)] /\ UNCHANGED <<slots, won, cts>>
        \/ /\ Higher(k, c) /\ slots[job[w].h] = c
           /\ Store(w, job[w].kv, Bumped(w)) /\ UNCHANGED <<won, cts>>
        \/ /\ slots[job[w].h] # c /\ (c = EmptySlot \/ Higher(k, c))
           /\ job' = [job EXCEPT ![w].pc = "load"] /\ UNCHANGED <<slots, won, cts>>
     /\ UNCHANGED <<hin, old_t, waiting, ne, deletes, hole, mode>>

-----------------------------------------------------------------------------
AllIdle == \A w \in Threads : job[w].pc = "idle"
update_nelms == ne + MapThenSumSet(LAMBDA w : cts[w], Threads)
\* maybe_resize: a table more than a quarter full is replaced by one of at least
\* ten times its elements, and the entries are inserted again in parallel.
log2_size(x) ==
  LET size[e \in 0..x] ==
        IF e = 0 THEN 1 ELSE IF size[e - 1] >= x THEN size[e - 1] ELSE 2 * size[e - 1]
  IN size[x]
Quiesce ==
  /\ mode = "insert" /\ waiting = {} /\ AllIdle
  /\ cts' = [w \in Threads |-> 0]
  /\ IF hin.kind = "resizable" /\ 4 * update_nelms > TableSize
     THEN /\ slots' = Cleared(log2_size(10 * update_nelms)) /\ old_t' = Entries(slots)
          /\ ne' = 0 /\ mode' = "resize"
     ELSE /\ ne' = update_nelms /\ mode' = "quiet" /\ UNCHANGED <<slots, old_t>>
  /\ UNCHANGED <<hin, waiting, job, won, deletes, hole>>
Reinsert(w) ==
  /\ mode = "resize" /\ job[w].pc = "idle"
  /\ \E kv \in old_t : old_t' = old_t \ {kv} /\ Probe(w, kv)
  /\ UNCHANGED <<hin, slots, waiting, ne, cts, won, deletes, hole, mode>>
Resized ==
  /\ mode = "resize" /\ old_t = {} /\ AllIdle
  /\ ne' = update_nelms /\ cts' = [w \in Threads |-> 0] /\ mode' = "quiet"
  /\ UNCHANGED <<hin, slots, old_t, waiting, job, won, deletes, hole>>

\* deleteVal walks to the first place that does not hold a higher key.  The place of
\* the key is filled with the next element that may stand there, of which there are two
\* then, and the place of the other one is filled in the same way.
Walk(k) ==
  LET at(x) == slots[(firstIndex(k) + x) % TableSize]
  IN (firstIndex(k) + Least({x \in 0..TableSize : x = TableSize \/ at(x)[1] <= k})) % TableSize
deleteVal ==
  /\ mode = "quiet" /\ deletes # << >>
  /\ deletes' = Tail(deletes)
  /\ IF slots[Walk(Head(deletes))][1] = Head(deletes)
     THEN hole' = Walk(Head(deletes)) /\ mode' = "fill"
     ELSE UNCHANGED <<hole, mode>>
  /\ UNCHANGED <<hin, slots, old_t, waiting, job, ne, cts, won>>
lessIndex(a, b) == IF a < b THEN 2 * (b - a) < TableSize ELSE 2 * (a - b) > TableSize
Replacement ==
  LET at(x) == (hole + x) % TableSize
      fits(x) == slots[at(x)] = EmptySlot \/ ~lessIndex(hole, firstIndex(slots[at(x)][1]))
  IN at(Least({x \in 1..TableSize : x = TableSize \/ fits(x)}))
Fill ==
  /\ mode = "fill"
  /\ slots' = [slots EXCEPT ![hole] = slots[Replacement]]
  /\ IF slots[Replacement] = EmptySlot THEN hole' = -1 /\ mode' = "quiet"
     ELSE hole' = Replacement /\ UNCHANGED mode
  /\ UNCHANGED <<hin, old_t, waiting, job, ne, cts, won, deletes>>

TableNext ==
  \/ Quiesce \/ Resized \/ deleteVal \/ Fill
  \/ \E w \in Threads : \/ TakePair(w) \/ LoadSlot(w) \/ ClaimEmpty(w) \/ WriteValue(w) \/ Compare(w)
                        \/ Prioritize(w) \/ Reinsert(w)
TableSpec == TableInit /\ [][TableNext]_tableVars

-----------------------------------------------------------------------------
\* find and contains walk from the first index to an empty slot (of a pbbs
\* table, to a key of lower priority).
Probed(k) ==
  LET empty(h) == slots[h] = EmptySlot \/ (hin.kind = "pbbs" /\ slots[h][1] < k)
      n == Least({x \in 0..TableSize : x = TableSize \/ empty((firstIndex(k) + x) % TableSize)})
  IN {slots[(firstIndex(k) + x) % TableSize] : x \in 0..(n - 1)}
Deleted == {hin.deletes[i] : i \in 1..(Len(hin.deletes) - Len(deletes))}
\* With no insertion running the table is the set that was inserted, once each
\* (one value of each key that was inserted with it, for sparse), a search finds
\* every element, and each was the one insertion that returned true.
SetIsThere ==
  mode = "quiet" =>
    LET here == Entries(slots)
        wins == {won[i] : i \in DOMAIN won}
    IN /\ Cardinality({h \in DOMAIN slots : slots[h] # EmptySlot}) = Cardinality(here)
       /\ here \subseteq TablePairs /\ {p[1] : p \in here} = TableKeys \ Deleted
       /\ hin.kind = "resizable" => here = TablePairs
       /\ hin.kind # "resizable" => Cardinality({p[1] : p \in here}) = Cardinality(here)
       /\ \A p \in here : p \in Probed(p[1])
       /\ hin.kind = "sparse" => here = wins
       /\ deletes = hin.deletes => ne = Cardinality(here)

\* The layout of a pbbs table depends only on what it holds: at and after the
\* first index of each key no slot before it is empty or of lower priority.
HistoryIndependent ==
  mode = "quiet" /\ hin.kind = "pbbs" =>
    \A h \in DOMAIN slots : slots[h] # EmptySlot =>
      \A x \in 0..(TableSize - 1) :
        LET g == (firstIndex(slots[h][1]) + x) % TableSize
        IN (\A y \in 0..x : (firstIndex(slots[h][1]) + y) % TableSize # h) =>
             slots[g] # EmptySlot /\ slots[g][1] > slots[h][1]

\* Between insertions and deletions a table holds what was inserted, and where.
TableIsTheSet == SetIsThere /\ HistoryIndependent
=============================================================================
