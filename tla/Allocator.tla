------------------------------ MODULE Allocator ------------------------------
(***************************************************************************)
(* list_allocator of pbbslib/list_allocator.h: every worker keeps a list   *)
(* of free blocks, takes list_length blocks from the global stack when it  *)
(* has none and gives list_length back when it has twice as many.          *)
(*                                                                         *)
(* The global stack and pool_roots are concurrent_stacks, whose push and   *)
(* pop are single steps here, as ConcurrentStack shows that they may be.   *)
(* A worker's list and the blocks it holds are its own.                    *)
(***************************************************************************)
EXTENDS Naturals, Sequences, FiniteSets, SequencesExt, FiniteSetsExt

CONSTANTS
  Workers,
  ListLength,     \* list_length
  MaxBlocks,      \* max_blocks
  AllocSizes,     \* the arguments of init
  ReserveSizes,   \* the arguments of reserve
  HeapBlocks,      \* the blocks there is memory for
  MaxUsed         \* how many blocks the program holds at a time

Null == 0
Blocks == 1..HeapBlocks

\* With lists of one block the test for a full list is never reached.
AllocatorAssumption ==
  /\ ListLength \in Nat /\ ListLength >= 2 /\ HeapBlocks \in Nat /\ MaxBlocks \in Nat
  /\ AllocSizes \subseteq Nat /\ ReserveSizes \subseteq Nat /\ MaxUsed \in Nat
  /\ IsFiniteSet(Workers) /\ Workers # {}

VARIABLES
  initialized,
  next,              \* the field next of each block, while it is free
  global, pool_roots,     \* the two stacks, top first
  local,             \* local_lists: .sz, .head and .mid of each worker
  blocks_allocated,
  pc, lists, start,  \* each worker's control, num_lists (0 in alloc) and the new region
  left,              \* the lists that its reserve has still to push
  exited,            \* the process ended for want of memory
  regions,           \* external: the memory of aligned_alloc that is not freed
  used,              \* the blocks the program holds
  peak               \* history: the most it held, the blocks of init and of each reserve since

stacks == <<global, pool_roots>>
locals == <<pc, lists, start, left>>
vars == <<initialized, next, stacks, local, blocks_allocated, locals, exited, regions, used, peak>>

EmptyList == [sz |-> 0, head |-> Null, mid |-> Null]

Init ==
  /\ initialized = FALSE /\ exited = FALSE
  /\ next = [b \in Blocks |-> Null]
  /\ global = <<>> /\ pool_roots = <<>>
  /\ local = [w \in Workers |-> EmptyList]
  /\ blocks_allocated = 0
  /\ pc = [w \in Workers |-> "idle"] /\ lists = [w \in Workers |-> 0]
  /\ start = [w \in Workers |-> Null] /\ left = [w \in Workers |-> {}]
  /\ regions = {} /\ used = {}
  /\ peak = [used |-> 0, first |-> 0, reserved |-> 0]

At(w, label) == pc[w] = label
Goto(w, to) == pc' = [pc EXCEPT ![w] = to]
Quiet == ~exited /\ \A w \in Workers : At(w, "idle")

\* The lists that reserve(n) makes: one for each thread and enough for n blocks.
NumLists(n) == Cardinality(Workers) + (n + ListLength - 1) \div ListLength
Lists(first, k) == {first + i * ListLength : i \in 0..(k - 1)}

\* The argument of allocate_blocks, in alloc and in reserve.
num_blocks(w) == IF lists[w] = 0 THEN ListLength ELSE lists[w] * ListLength

\* initialize_list on each of the lists.
Linked(firsts) ==
  [b \in Blocks |->
     IF \E f \in firsts : b \in f..(f + ListLength - 2) THEN b + 1
     ELSE IF b - (ListLength - 1) \in firsts THEN Null ELSE next[b]]

\* External: where aligned_alloc puts n blocks.
Fits(n) == {b \in Blocks : b + n - 1 <= HeapBlocks
                           /\ \A r \in regions : b > r.last \/ b + n - 1 < r.first}

-----------------------------------------------------------------------------
\* init with its reserve, which nobody overlaps: the loop of reserve pushes the lists
\* in any order.  The process ends if there is no memory or max_blocks is exceeded.
Initialize ==
  /\ ~initialized /\ Quiet
  /\ initialized' = TRUE
  /\ \E size \in AllocSizes :
       LET k == NumLists(size) n == k * ListLength first == Min(Fits(n)) IN
       \/ /\ Fits(n) = {} \/ n > MaxBlocks
          /\ exited' = TRUE
          /\ UNCHANGED <<next, stacks, local, blocks_allocated, regions, peak>>
       \/ /\ Fits(n) # {} /\ n <= MaxBlocks
          /\ blocks_allocated' = n
          /\ regions' = {[first |-> first, last |-> first + n - 1]}
          /\ pool_roots' = <<first>>
          /\ next' = Linked(Lists(first, k))
          /\ global' \in SetToSeqs(Lists(first, k))
          /\ local' = [w \in Workers |-> EmptyList]
          /\ peak' = [used |-> 0, first |-> n, reserved |-> 0]
          /\ UNCHANGED exited
  /\ UNCHANGED <<locals, used>>

\* finish: the lists go, and the memory of every root.
Finish ==
  /\ initialized /\ Quiet
  /\ initialized' = FALSE
  /\ regions' = {r \in regions : r.first \notin Range(pool_roots)}
  /\ pool_roots' = <<>> /\ global' = <<>>
  /\ local' = [w \in Workers |-> EmptyList]
  /\ blocks_allocated' = 0
  /\ next' = [b \in Blocks |-> Null] /\ used' = {}
  /\ UNCHANGED <<locals, exited, peak>>

-----------------------------------------------------------------------------
(* alloc and free.  The data of a block that the program holds overwrites  *)
(* its next, which the model sets to Null.                                 *)

\* The end of alloc: the first block of a list of sz blocks.
Take(w, list, sz, links) ==
  /\ local' = [local EXCEPT ![w].sz = sz - 1, ![w].head = links[list]]
  /\ next' = [links EXCEPT ![list] = Null]
  /\ used' = used \cup {list}
  /\ peak' = [peak EXCEPT !.used = IF Cardinality(used') > @ THEN Cardinality(used') ELSE @]

CallsAlloc(w) ==
  /\ initialized /\ ~exited /\ At(w, "idle")
  /\ Cardinality(used) + Cardinality({v \in Workers : ~At(v, "idle") /\ lists[v] = 0}) < MaxUsed

\* get_list: a list of the global stack, or a new one.
Refill(w) ==
  /\ CallsAlloc(w) /\ local[w].sz = 0
  /\ \/ /\ global # <<>>
        /\ global' = Tail(global)
        /\ Take(w, Head(global), ListLength, next)
        /\ UNCHANGED pc
     \/ /\ global = <<>>
        /\ Goto(w, "grow")
        /\ UNCHANGED <<global, next, local, used, peak>>
  /\ UNCHANGED <<initialized, lists, pool_roots, blocks_allocated, start, left, exited, regions>>

AllocLocal(w) ==
  /\ CallsAlloc(w) /\ local[w].sz > 0
  /\ Take(w, local[w].head, local[w].sz, next)
  /\ UNCHANGED <<initialized, stacks, blocks_allocated, locals, exited, regions>>

\* The list with a block put on it.
With(list, b) == [list EXCEPT !.head = b, !.sz = @ + 1]

\* How long the list is when its head becomes the middle.  Mutant: one block early.
MidEarly == ListLength
MidAt == ListLength + 1

\* How long it is when half of it goes back.
FullAt == 2 * ListLength

\* The list that goes back to the global stack.
Half(list) == next[list.mid]

Free(w, b) ==
  /\ initialized /\ ~exited /\ At(w, "idle") /\ b \in used
  /\ used' = used \ {b}
  /\ LET list == local[w] linked == [next EXCEPT ![b] = list.head] IN
     \/ /\ list.sz = FullAt
        /\ global' = <<Half(list)>> \o global
        /\ next' = [linked EXCEPT ![list.mid] = Null]
        /\ local' = [local EXCEPT ![w] = With([list EXCEPT !.sz = ListLength], b)]
     \/ /\ list.sz # FullAt
        /\ next' = linked
        /\ local' = [local EXCEPT ![w] =
             With(IF list.sz = MidAt THEN [list EXCEPT !.mid = list.head] ELSE list, b)]
        /\ UNCHANGED global
  /\ UNCHANGED <<initialized, pool_roots, blocks_allocated, locals, exited, regions, peak>>

-----------------------------------------------------------------------------
(* allocate_blocks, for get_list and for reserve.                          *)

Reserve(w) ==
  /\ initialized /\ ~exited /\ At(w, "idle")
  /\ \E n \in ReserveSizes :
       /\ lists' = [lists EXCEPT ![w] = NumLists(n)]
       /\ peak' = [peak EXCEPT !.reserved = @ + NumLists(n) * ListLength]
  /\ Goto(w, "grow")
  /\ UNCHANGED <<initialized, next, stacks, local, blocks_allocated, start, left, exited,
                 regions, used>>

\* aligned_alloc, or the end of the process if there is no memory.
Grow(w) ==
  /\ ~exited /\ At(w, "grow")
  /\ \/ /\ Fits(num_blocks(w)) = {}
        /\ exited' = TRUE
        /\ UNCHANGED <<start, regions, blocks_allocated, pc>>
     \/ /\ Fits(num_blocks(w)) # {}
        /\ LET first == Min(Fits(num_blocks(w))) IN
           /\ start' = [start EXCEPT ![w] = first]
           /\ regions' = regions \cup {[first |-> first, last |-> first + num_blocks(w) - 1]}
        /\ blocks_allocated' = blocks_allocated + num_blocks(w)
        /\ Goto(w, "test")
        /\ UNCHANGED exited
  /\ UNCHANGED <<initialized, next, stacks, local, lists, left, used, peak>>

\* The count is read again for the test.
Test(w) ==
  /\ ~exited /\ At(w, "test")
  /\ \/ /\ blocks_allocated > MaxBlocks
        /\ exited' = TRUE
        /\ UNCHANGED pc
     \/ /\ blocks_allocated <= MaxBlocks
        /\ Goto(w, "root")
        /\ UNCHANGED exited
  /\ UNCHANGED <<initialized, next, stacks, local, blocks_allocated, lists, start, left,
                 regions, used, peak>>

\* pool_roots.push.
AddRoot(w) == pool_roots' = <<start[w]>> \o pool_roots

\* The region becomes a root.  alloc takes the first block of its list; reserve
\* makes its lists.
PushRoot(w) ==
  /\ ~exited /\ At(w, "root")
  /\ AddRoot(w)
  /\ \/ /\ lists[w] = 0
        /\ Take(w, start[w], ListLength, Linked({start[w]}))
        /\ Goto(w, "idle")
        /\ UNCHANGED left
     \/ /\ lists[w] # 0
        /\ LET firsts == Lists(start[w], lists[w]) IN
           /\ next' = Linked(firsts)
           /\ left' = [left EXCEPT ![w] = firsts]
        /\ Goto(w, "push")
        /\ UNCHANGED <<local, used, peak>>
  /\ start' = [start EXCEPT ![w] = Null]
  /\ UNCHANGED <<initialized, lists, global, blocks_allocated, exited, regions>>

\* One round of reserve's loop, in any order.
PushList(w) ==
  /\ ~exited /\ At(w, "push")
  /\ \E first \in left[w] :
       /\ global' = <<first>> \o global
       /\ left' = [left EXCEPT ![w] = @ \ {first}]
  /\ \/ left'[w] # {} /\ UNCHANGED <<pc, lists>>
     \/ left'[w] = {} /\ Goto(w, "idle") /\ lists' = [lists EXCEPT ![w] = 0]
  /\ UNCHANGED <<initialized, next, pool_roots, local, blocks_allocated, start, exited,
                 regions, used, peak>>

Step(w) ==
  \/ Refill(w) \/ AllocLocal(w) \/ (\E b \in Blocks : Free(w, b))
  \/ Reserve(w) \/ Grow(w) \/ Test(w) \/ PushRoot(w) \/ PushList(w)

Exited == exited /\ UNCHANGED vars

Next == Initialize \/ Finish \/ Exited \/ \E w \in Workers : Step(w)

Spec == Init /\ [][Next]_vars

-----------------------------------------------------------------------------
(* Properties.                                                             *)

\* Every variable has its type, and no worker keeps more than two lists of blocks
\* (l.26: "when local pool=2*list_size").
TypeOK ==
  LET Links == Blocks \cup {Null} IN
  /\ initialized \in BOOLEAN /\ exited \in BOOLEAN
  /\ next \in [Blocks -> Links]
  /\ global \in Seq(Blocks) /\ pool_roots \in Seq(Blocks)
  /\ local \in [Workers -> [sz : 0..(2 * ListLength), head : Links, mid : Links]]
  /\ blocks_allocated \in 0..HeapBlocks
  /\ pc \in [Workers -> {"idle", "grow", "test", "root", "push"}]
  /\ lists \in [Workers -> Nat] /\ start \in [Workers -> Links]
  /\ left \in [Workers -> SUBSET Blocks]
  /\ regions \subseteq [first : Blocks, last : Blocks] /\ used \subseteq Blocks
  /\ peak \in [used : Nat, first : Nat, reserved : Nat]

\* The blocks that links joins to b, b first (no more of them than there are blocks).
Below(links, b) ==
  LET from[k \in 0..HeapBlocks] ==
        [c \in Blocks \cup {Null} |-> IF k = 0 \/ c = Null THEN <<>> ELSE <<c>> \o from[k - 1][links[c]]]
  IN from[HeapBlocks][b]
\* The blocks of a list, in order.
Chain(list) == Below(next, list)

\* Where a worker is in the middle of a call, the blocks in its hands.
InHand(w) ==
  IF pc[w] \in {"test", "root"} THEN start[w]..(start[w] + num_blocks(w) - 1)
  ELSE UNION {Range(Chain(first)) : first \in left[w]}

\* Where a block can be: with the program, on a list of the global stack, on a
\* worker's list, or in the hands of a worker that is making lists.
Places ==
  {<<"program", 0>>} \cup {<<"global", k>> : k \in DOMAIN global}
    \cup {<<"local", w>> : w \in Workers} \cup {<<"hand", w>> : w \in Workers}
BlocksAt(p) ==
  CASE p[1] = "program" -> used
    [] p[1] = "global" -> Range(Chain(global[p[2]]))
    [] p[1] = "local" -> Range(Chain(local[p[2]].head))
    [] p[1] = "hand" -> InHand(p[2])

\* No block is lost and none is free twice or free while the program holds it: each
\* one of the memory is in one place, and on a list once.
BlocksAccounted ==
  ~exited =>
    /\ UNION {BlocksAt(p) : p \in Places} = UNION {r.first..r.last : r \in regions}
    /\ \A p, q \in Places : p # q => BlocksAt(p) \cap BlocksAt(q) = {}
    /\ \A k \in DOMAIN global : IsInjective(Chain(global[k]))
    /\ \A w \in Workers : IsInjective(Chain(local[w].head))

\* The lists that workers exchange have list_length blocks each, though they are cut
\* where the owner's list was list_length + 1 long some allocs and frees ago, and
\* sz is the length of a worker's list.
ListsHaveLength ==
  /\ \A k \in DOMAIN global : Len(Chain(global[k])) = ListLength
  /\ \A w \in Workers : Len(Chain(local[w].head)) = local[w].sz

\* "Keeps track of number of allocated elements" (l.27): when no call is under way,
\* num_used_blocks is the number of blocks the program holds.
num_used_blocks ==
  blocks_allocated
    - (Len(global) * ListLength + MapThenSumSet(LAMBDA w : local[w].sz, Workers))
NumUsedRight == Quiet => num_used_blocks = Cardinality(used)

\* Memory is taken only when it is needed: beyond what was reserved, no more than the
\* program held at once and two lists for each worker.
MemoryBounded ==
  LET most == peak.used + 2 * ListLength * Cardinality(Workers)
  IN blocks_allocated <= Max({most, peak.first}) + peak.reserved

\* finish gives back all memory, that of later reserves too.
FinishFreesAll == ~initialized => regions = {}

\* Between any two steps every block is in one place, and the counts follow them.
BlocksRight ==
  TypeOK /\ BlocksAccounted /\ ListsHaveLength /\ NumUsedRight /\ MemoryBounded /\ FinishFreesAll
=============================================================================
