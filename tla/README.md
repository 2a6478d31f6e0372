# A TLA+ verification project for GBBS

GBBS (the Graph Based Benchmark Suite) is a C++ library of shared-memory
parallel graph algorithms. This directory holds TLA+ models of its scheduler,
its concurrent structures, its primitives and most of its algorithms, the TLC
configurations that check them on small instances, and TLAPS proofs of what holds
of the scheduler, union-find, the concurrent stack, the list allocator, the buckets, the
hash tables and two of the algorithms for every instance. Paths
below are relative to the repository (`src/`).

## 1. The system

GBBS has three layers, and one kind of concurrency: nested fork-join. A program
calls `par_do` and `parallel_for`; a scheduler runs the two branches of a fork
on any of its worker threads; inside the branches the algorithms share arrays
and communicate by plain loads and stores, compare-and-swap and `write_min`.
Between two parallel loops there is a barrier. There are no messages, no
crashes to recover from and nothing persistent.

| Component | State it keeps | Operations | What is hard | What makes it correct |
|---|---|---|---|---|
| Scheduler (`pbbslib/scheduler.h`, `parallel.h`) | per worker a deque (`age` = tag and top, `bot`, `deq`), `finished_flag`; per pardo `right_done` on its stack frame | `push_bottom`, `pop_bottom`, `pop_top`, `get_job`, `wait`, `pardo`, `~scheduler` | owner and thieves race on relaxed memory; ABA on `age`; jobs point into stack frames; bounded deque; user locks | each thunk runs once, pardo returns after both, programs end |
| Concurrent stack (`pbbslib/concurrent_stack.h`) | two linked stacks with 128-bit heads, nodes that move between them | `push`, `pop`, `size`, `clear` | ABA, torn reads of a head, nodes read while others recycle them | linearizable, no node lost, memory proportional to the largest size |
| List allocator (`pbbslib/list_allocator.h`) | a list of free blocks per worker, lists on a global stack, the roots of the memory | `alloc`, `free`, `reserve`, `init`, `finish`, `num_used_blocks` | blocks freed by other workers than took them; lists cut in the middle long after the middle was marked | no block is in two hands, none is lost, memory bounded |
| Union-find (`benchmarks/Connectivity/UnionFind`) | `parents`, `hooks`, `locks` | `find_*`, `splice_*`, the `Unite*` variants, `compute_components`, `process_batch` | unsynchronised path compression against links; stale roots | labels are the components; unite is linearizable; loops end |
| Spanning forest by union-find (`benchmarks/SpanningForest/UnionFind`) | the same and `Edges` | the same, recording an edge per link | record and link are two stores | the edges form a spanning forest |
| ConnectIt and sampling (`Connectivity/ConnectIt`) | `parents`, `clusters`, the frequent component | k-out, BFS and LDD sampling, then any algorithm | what sampling leaves is the next phase's precondition | labels are the components |
| Jayanti-Tarjan (`UnionFind/jayanti.h`) | random ranks in `vtree` | two-try splitting, link by rank | as union-find | as union-find |
| Shiloach-Vishkin, Liu-Tarjan, label propagation | `parents`, `prev_parents`, `flags`, `changed` | rounds of hook, shortcut, alter; incremental batches | racing `write_min` and shortcuts, stale copies between batches | labels are the components, rounds end |
| Buckets (`gbbs/bucket.h`) | `bkts`, `cur_bkt`, `cur_range`, `num_elms` | `next_bucket`, `get_bucket`, `update_buckets`, `unpack` | identifiers move lazily, old copies stay | every identifier comes out once, in the bucket it is in |
| Deterministic reservations (`gbbs/speculative_for.h`) | the current prefix, the kept iterations | `reserve`, `commit`, `reset` | failed iterations carried into a changing round size | the result of the sequential loop |
| edgeMap, vertex subsets (`gbbs/edge_map_*.h`, `vertex_subset.h`) | frontier, sparse or dense | sparse, blocked and dense traversal | one emitter per destination | all three give the same set |
| Searches and paths (BFS, LDD, wBFS, delta-stepping, Bellman-Ford, widest path) | distances or parents, a top-bit flag | rounds of edgeMap and bucket moves | several relaxations of one vertex in a round | distances are shortest |
| Peeling (k-core, degeneracy, densest subgraph, set cover) | degrees, buckets | rounds of decrements | racing counters, buckets | core numbers |
| Independent set, matching, colouring | priorities, counters, reservations | rounds on a priority DAG | last decrement enables a vertex | maximal, and the greedy result |
| Spanning trees, SCC, biconnectivity, spanners | labels, tables | compositions of the above | as their parts | as specified |
| Tables (`gbbs/pbbslib/*table.h`, `pbbslib/hash_table.h`) | cells, counters | `insert`, `find`, `maybe_resize` | probing against racing inserts, full table | a set |
| Graph representations, encodings, packing, SAGE filter | arrays of degrees and compressed blocks | decode, map, pack | compressed packing in place | the same neighbours |
| Counting (triangles, cliques, cycles, k-truss, SCAN), ranking | private arrays, atomic counters | data-parallel arithmetic | little shared state | the count |
| Sequence primitives, sorts, strings, I/O, tools, bindings | private data | data-parallel functions | none shared | functions of their inputs |

How they interact: algorithms call the scheduler through `parallel_for`; the
scheduler runs their thunks on any worker and promises nothing about order
except that a fork ends when both branches have. `edge_map_blocked.h` takes its
frontier blocks from the list allocator inside parallel loops, so `alloc` and
`free` of one block may run on different workers; the allocator's global stack
and its roots are concurrent stacks. Connectivity and spanning forest share one
loop (`compute_components`: unite every edge, barrier, find every vertex), which
sampling may precede. The algorithms of a round-based kind read what the round
before the barrier wrote.

`PROJECT.json` has a row for every component, the ones not modelled too, and
every hazard at its line.

## 2. Modules

The concurrency that everything rests on, at one access to shared memory per step:

| Module | Models |
|---|---|
| `ForkJoin` | the abstract promise of `pardo`: thunks and pardos, no workers |
| `WorkStealing` | deque, worker loop, pardo, start-up and shutdown on x86-TSO (`pbbslib/scheduler.h`) |
| `DisjointSets` | the abstract promise of concurrent unite |
| `UFAlgorithm` | parents, the four finds, the loops of `compute_components` and `process_batch` |
| `UnionFind` | `Unite`, `UniteEarly`, `UniteND`, with and without the recording of edges |
| `RemUnionFind` | `UniteRemCAS`, `UniteRemLock`, the splices, both directories' copies |
| `Jayanti` | randomized linking by rank with two-try splitting |
| `Stack`, `ConcurrentStack` | the promise of a linearizable stack, and the two linked stacks of `concurrent_stack.h` |
| `Allocator` | the workers' lists, the global stack and the roots of `list_allocator.h` |
| `UFAlgorithmProofs`, `UnionFindProofs`, `RemUnionFindProofs` | theorems about forests and the loops, and about the two union-find modules |
| `ConcurrentStackProofs` | theorems about `ConcurrentStack` |
| `WorkStealingProofs` | theorems about `WorkStealing` |
| `StructureProofs` | theorems about `Allocator` and `Buckets` |
| `AlgorithmProofs` | theorems about `LowDiameter`, `RootSets` and `HashTables` |

The algorithms:

| Module | Models |
|---|---|
| `SmallGraphs` | graphs as sets of pairs, and the reference definitions: components, hops, forests |
| `ShiloachVishkin`, `LiuTarjan`, `LabelPropagation` | connectivity by rounds, the forests, the incremental batches |
| `Sampling` | the k-out and BFS sampling of ConnectIt, the frequent component, the finish that skips it |
| `LowDiameter` | low-diameter decomposition |
| `SearchAndContract` | BFS, BFSCC, BFSSF; connectivity and forest by decomposition and contraction, with `contract.h` |
| `Betweenness`, `ShortestPaths` | Brandes; wBFS, delta-stepping, Bellman-Ford, widest path |
| `StrongComponents` | both strong-connectivity algorithms |
| `Peeling` | k-core (two versions), degeneracy (two), densest subgraph (two) |
| `SpeculativeFor` | `eff_for`, `speculative_for`, and independent set, matching and minimum spanning forest over them |
| `RootSets` | independent set and colouring by root sets |

What the algorithms stand on:

| Module | Models |
|---|---|
| `EdgeMap`, `NeighborCounts` | vertex subsets, sparse, blocked, chunked and dense traversal; counting and reducing maps, subsets with data |
| `PriorityBuckets`, `Buckets` | the promise of the buckets, and the lazy buckets of `bucket.h` |
| `Histogram`, `HashTables` | `histogram.h` with its sequential tables; `sparse_table.h`, `resizable_table.h`, `hash_table.h` |
| `Encodings` | byte, bytepd and bytepd_amortized lists: encoding, readers, packing in place |
| `GraphFilter` | the filter of the semi-asymmetric code: bitset managers, both sides of a directed graph |
| `GraphMutation` | graphs in memory, `graph_mutation.h`: build, pack, filter, sample, copy, list |
| `SequenceOps` | scans, packs, splits, searches, merges; counting and radix sort, shuffle; quick, merge, bucket and sample sort |

`MCWorkStealing`, `MCUnionFind`, `MCRemUnionFind` and `MCConcurrentStack` give the
programs and workloads of their module. `MCAlgorithms` and `MCStructures` hold many modules side by side: the components
share no state, so one behaviour is about one of them, `which` says about which,
and the variables `s1`, `s2`, ... stand for that module's own. The modules there are
theorems about are extended and keep their own names: `Allocator`, `Buckets` and
`HashTables` by `MCStructures`, `LowDiameter` and `RootSets` by `MCAlgorithms`. What these assume of
their constants is an ASSUME of theirs; what the others assume is a definition
(`...Assumption`) which the MC module asserts.

Composition. `WorkStealing` refines `ForkJoin`; `UnionFind` and `RemUnionFind` extend
`UFAlgorithm` and refine `DisjointSets`; `ConcurrentStack` refines `Stack`; `Buckets`
refines `PriorityBuckets`. A module that uses a component uses its promise:
`Allocator` has atomic stacks, `ShortestPaths` and `Peeling` take from buckets what
`PriorityBuckets` promises, `SearchAndContract` takes any decomposition that
`LowDiameter` may give, `NeighborCounts` counts as `Histogram` shows that counting
comes out, the rounds of the searches are what `EdgeMap` shows an edgeMap to be,
and `StrongComponents` packs as `GraphFilter` does. `Sampling` finishes with any correct
algorithm, and the finishing algorithms start from what sampling may leave (section
4). No parallel loop is run on `WorkStealing`: what a loop needs of it is
`ForkJoin`, that iterations interleave in any way and a barrier ends them, and that
is how loops are written.

A definition whose comment begins with "Mutant" is a faulty variant of the one
after it. `PROJECT.json` pairs each property with a variant that breaks it; they
are not part of any specification.

## 3. How the modules correspond to the code

**Grain.** Where the iterations of a loop read what others write, a step is one
access, or one iteration when it makes one access to what others touch. Where the
iterations write disjoint cells and read only what the loop does not write, or
where only `write_min` of values read elsewhere meets in a cell, every order gives
the same result and the loop is one action; each module says at its head which of
its loops are which. Where several may win a compare-and-swap and the winner is
visible (parents of a search, edges of a forest, centres of clusters), the action
leaves the winner open.

**Memory.** In `WorkStealing` memory is x86-TSO: a plain store waits in the worker's
FIFO buffer (`buf`), a load looks there first, fences and compare-and-swaps wait
until it is empty (`Fenced`), and `Flush` moves one store to memory. That is the
memory the fences of the deque are written for. In the other modules memory is
sequentially consistent. For union-find that is an abstraction: the plain stores of
`find_compress`, `UniteND` and the last loop become visible at once, where a store
buffer could hold them back for a while. `ConcurrentStack` needs no buffers: a
node's fields are stored by its only holder before a compare-and-swap, which
drains them. A test followed by a compare-and-swap of the same location that fails
when the test would (`Link`, `EarlyLink`, `Hook`) is one step.

**Data.** Block sizes, thresholds and radixes that are large constants in the code
are CONSTANTS, so that small inputs reach every branch. Hash functions are given
functions with collisions. Fractions (densities, betweenness, epsilon) are pairs of
integers or multiples of a common denominator. A neighbour list in memory is a
function from addresses to bytes or cells, so that code that writes past its
stretch, or over what is still to be read, is seen to.

**`WorkStealing`.** `age`, `bot`, `deq` are the deques' fields (`age.tag` modulo
`TagMod`, as its 32 bits wrap); a job is named by the pardo whose right thunk it
is. `stack` is a worker's call stack: frames "main", "left" and "right" are
thunks it runs, "wait" is `pardo` waiting in `start`, "job" is a job run by the
loop. `Pardo` is `push_bottom` up to its fence, or the abort of a full deque;
`CallLeft`, `ReturnLeft`, `AfterPop`, `ReturnRight`, `ReturnPardo` are the lines of
`pardo`; `PopBegin` to `PopFence` are `pop_bottom`, `StealAge` to `StealCas`
`pop_top`; `GetJob`, `JobPopped`, `StealCheck`, `RunJob`, `LeaveLoop` the worker's
loop; `Destroy` and `JoinThreads` the destructor. The victim that the hash picks
is any deque, also one of those that no worker owns. `Lock` and `Unlock` are the
program's, for the conservative wait.

**`UFAlgorithm`, `UnionFind`, `RemUnionFind`.** `parents`, `hooks`, `locks`, `Edges`
are the arrays; `u`, `v`, `i`, `j`, `w` the locals, under the names the code uses
(`rx` and `ry` are `u` and `v`). Each find is a group of actions that returns to
`ret`; `TakeEdge`, `TakeQuery`, `TakeVertex` take any iteration not yet begun of the
loops, as the scheduler may run them in any order on any thread. A workload says
which loops run (`kind`: `compute_components`, or `process_batch` with insertions
and queries mixed or the queries after the insertions), the initial parents (what
sampling or an earlier batch left), the unite calls and the queries. The template
parameters (`find_option`, `unite_option`, `splice_option`) are chosen in the initial
state, so one run covers all combinations. `Edges[x]` is the call that linked root `x`.

**`ConcurrentStack`.** `head`, `next`, `length`, `value` are the fields; `Read` is
the plain copy `oldHead = head`, in two halves and either order, as nothing makes
a 16-byte copy atomic; `PopNext`, `PopCas`, `PushLink`, `PushCas` are the loops of
`prim_concurrent_stack`, `Call`, `Fill`, `Take` the calls of `concurrent_stack`
around them. Nodes are numbers, given out by `malloc` lowest first, and never
freed before `clear`, as in the code.

**`Allocator`.** `local[w]` is `local_lists[w]`; `Refill` is `get_list`, `Grow`,
`Test` and `PushRoot` are `allocate_blocks` (the count is added to, then read
again for the test), `PushList` one iteration of `reserve`'s loop, `num_blocks` the
argument of `allocate_blocks` there. `init` and `finish`, which no call overlaps, are
one step each; `init` ends the process where its `reserve` does. `Places` and `BlocksAt`
say in the properties where the blocks are. A block's `next` shares its
memory with the data: while the program holds the block it is `Null` in the model.

**`Buckets`.** `bkts`, `cur_bkt`, `cur_range`, `num_elms` are the fields, `d` the
client's priorities. A bucket is a bag of identifiers, as nothing reads the order in
which the blocks of `update_buckets` leave them. `Advance` is `_next_bucket` with
`unpack`, `GetCurBucket` and `NoBuckets` the two ends of `next_bucket`, and
`UpdateBuckets` a client's moves and its call of `update_buckets`: `Destination` is the
version of `get_bucket` it asks, `May` what it may move where. `phase = "twice"` is a
return with two copies of one identifier. `cur_range` is computed modulo `Width`, as
its 64 bits wrap: `unpack` may set it to -1.

**`HashTables`.** `slots` is the table, `hin.kind` which of the three it is. `TakePair`
begins an `insert`, `LoadSlot` reads a slot, `ClaimEmpty`, `Compare` and `Prioritize` are
the compare-and-swap that follows with what its result leads to, `WriteValue` the
plain store of `sparse_table`'s value. `Quiesce` and `Resized` are `update_nelms` and
`maybe_resize` between two loops of insertions, `Reinsert` an insertion of the loop of the
latter. `deleteVal` is the call up to the place of the key, `Walk`; `Fill` one round
of its outer loop, as deletions come one at a time. A search is not a step: `Probed` is
what it reads when no insertion runs.

**The others** keep the code's names for arrays and locals and say in a comment at
each action which function it is; `PROJECT.json`'s `map` gives the lines of every
definition. `Init` chooses the input (a graph, a list, a program of calls) and the
variant; parts of the code that are templates over a client (`SpeculativeFor`,
`Buckets`, `EdgeMap`) are driven by the clients the benchmarks have.

## 4. Runs

| Run | Question | Bounds | States |
|---|---|---|---|
| `ws_two` | do pops agree with pardo, is the own deque empty in a wait, is the deque as shallow as the nesting, does the program end? | 2 workers; a tree of 3 pardos then 1, and a nest of 4 on a deque of 3 | 7,637 |
| `ws_three` | does the scheduler implement fork-join with two thieves, does no job outlive its frame, no worker wait for a lock of its own? | 3 workers; a tree of 3 pardos, and 3 pardos with 1 mutex | 755,155 |
| `uf_all` | are `Unite`, `UniteEarly`, `UniteND` with each find correct, in loops and in batches? | 4 vertices, 2 threads, 5 workloads, 12 combinations | 323,712 |
| `rem_all` | are `UniteRemCAS` and the `UniteRemLock`s with each find and safe splice? | 4 vertices, 2 threads, 3 workloads, 8 combinations | 296,580 |
| `rem_splice` | is `UniteRemCAS` with `splice_atomic`? (no) | 5 vertices, 2 threads, 5 calls | |
| `rem_swap` | does the spanning forest's `UniteRemCAS` span? (no) | 4 vertices, 1 thread | |
| `stack_races` | is the stack linearizable, does it lose nodes, is memory proportional, do calls return? | 3 threads, 2 values at first, programs of up to 8 calls | 379,390 |
| `algorithms` | are fourteen families of algorithms right whatever the races of a round? | 4 vertices (a Liu-Tarjan family 6, strong components 8), all graphs or chosen ones | 384,361 |
| `lt_shortcut` | do all variants of Liu-Tarjan keep unions? (no) | a path of 6 vertices | |
| `sv_batches` | does Shiloach-Vishkin join the insertions of successive batches? (no) | 4 vertices, 3 batches of one edge | |
| `kcore_fa` | is k-core by fetch-and-add k-core? (no) | 4 vertices, all graphs | |
| `structures` | are the structures and primitives right under eleven kinds of clients? | lists of up to 21 elements, 3 to 10 vertices | 477,051 |

Why the bounds are enough to be interesting:

- *Scheduler.* The race for the last job needs an owner and a thief; that
  between two thieves, and a steal from a thief, a third worker. The tree of
  three pardos makes a worker that waits run a job that forks, and the second
  top-level pardo reuses the slots with another tag. `TagMod` is 16 and no
  program here pops that often, so a wrapped tag is out of reach of these runs
  (`TagsLast`, section 6): the code relies on 2^32 pops not happening within one
  steal.
- *Union-find.* Four vertices give paths of length three, so that compressions
  of two threads overlap on more than one edge, and three calls make two threads
  merge trees that a third call then finds merged. Workloads: two merges whose
  results are merged (`Crossed`), a cycle (`Triangle`), what sampling leaves with
  edges from both ends (`Sampled`), and a batch on the path of an earlier one, whose
  queries compress what its insertions link (`Mixed`, `Reordered`).
- *Stack.* A harmful ABA takes a pop that is overtaken by two pops and a push of
  the first node; since nodes go through stack `b`, it takes a third thread to
  hold the second node away. `Overtaken` is that program: comparing nodes without
  counters makes the run fail. `Meeting` runs the stack empty, `Churn` recycles.
- *Algorithms.* All graphs of four vertices hold every component structure, cycle
  and path of that size; where a start state is what sampling leaves, all forests of
  some graphs with every representative and every frequent label are tried. Paths of
  three edges are the shortest on which a round reads a label that the same round
  lowered. Liu-Tarjan needs six for an edge to meet a message of an earlier round
  (finding 3), so a family of its own runs the variants that keep unions on two paths of six
  vertices. The families that interleave tasks (shortest paths, label propagation,
  `LiuTarjan`'s shortcuts, sampling's links, `Jayanti`) use chosen graphs: those with
  two routes of different length, ties, or a cycle; in label propagation two calls of
  `updateAtomic` are under way at once (`MaxInFlight`), load by load. Strong components
  need eight vertices for several non-trivial components in one round. The loops over
  reservations have the granularities the code has: with 50, on these few edges, a round
  tries one edge.
- *Structures.* Every block size is 2 to 4, so lists of up to 21 elements have full,
  partial and single blocks, and the sorts reach their second level of recursion;
  hash functions put two or three keys in a slot and wrap around the end, and the table
  with deletions is more than half full (five keys in eight slots). A byte of
  `GraphFilter` has one bit and a long two bytes, with 4 edges in a block where blocks are
  whole longs, and 3 or 7 for the compressed lists, whose 1000 edges are 125 bytes: 15 longs
  and a part of the next, over which the readers run into the block that follows. The
  counts of packed blocks lie in `block_cts_stack` for up to `StackBlocks`, 2 here and
  100 in the code. The allocator's lists of two blocks are the smallest that the code supports: with
  `list_length = 1` the test at l.263 hides the one at l.265 and a list is never
  given back (`AllocatorAssumption`).

What the properties say. The comments at the definitions are the full statements.

- `ImplementsForkJoin` (refinement of `ForkJoin`): each thunk runs once, after the
  calls before it, and pardo returns when both have. `DequesRight`: pardo ignores which
  job `try_pop` gave back, so it must be its own; a waiting worker's first `try_pop`
  takes nothing; the fixed deque is as deep as the nesting, and aborts only beyond.
  `JobsRight`: jobs and flags live on pardo's frame and do not outlive it, a
  compare-and-swap on `age` that succeeds takes a job nobody has, no worker waits for
  a lock that is below it on its stack.
- `Linearizable` (refinement of `DisjointSets`): no step but one of a call that
  joins its arguments changes the partition, and a call returns when they are
  together. `LinkedForGood`: no compression turns a linked vertex into a root, with
  queries in the way or not. `ParentsStayInside`, `ParentOrder`: section 6.
  `LabelsAndForest`: the final labels, what `cc_check` compares, and the recorded
  edges, what `check_spanning_forest` compares. `TreesRight` is the same for Rem's
  algorithm, with the test under a lock that must hold until the store.
- `Linearizable` of the stack (refinement of `Stack`) and `StackRight`: no node lost or
  in two places, lengths right, memory within the largest size, `clear` frees all.
- `NeverOverMerges`, `NothingLost`, `LabelsRight`, `ForestRight`, `ClustersRight`,
  `SearchesRight`, `LengthsRight`, `PeelingRight`, `GreedyRight`, `RootSetsRight`:
  one property per question asked of the algorithms; each names, per family, the
  definitions of its module (for instance `LiuTarjan!NoEdgeLost`). `GreedyRight`
  compares a speculative loop with the sequential greedy one, and says that it keeps no
  reservation beyond its round and does one of its iterations for good in each round, so
  that only a loop with more iterations than tries gives up; `RootSetsRight` compares the
  loops over root sets with the greedy one, and says that a round always has a root;
  `DegreesInduced` and
  `ClustersAreTrees` hold between rounds, not only at the end.
- `FrontierExact` (an action property): an edgeMap returns each vertex that was won in
  it, once, whatever representation and blocks. `SubsetsAgree`, `ReadersAgree`,
  `CountsRight`: what two representations or two routes say is the same.
  `PackingStaysInside`: a parallel pack in place writes only its own memory, and
  nothing that another block has yet to read. `TableIsTheSet`, `GraphsKeepEdges`,
  `SequencesRight`, `BlocksRight`; `ImplementsPriorityBuckets` (refinement).
- `Termination`, `EveryCallReturns`, `Terminates`, `AlwaysSettles`: below.

**Fairness.** Every thread keeps taking steps: threads may be preempted anywhere
and for any time but are never stopped, which is what an operating system gives
and all that is assumed (weak fairness of each worker's step). For `WorkStealing`
store buffers also drain. In `algorithms` and `structures` it is weak fairness of the
whole next-state relation, without the arrival of further batches: whatever is begun
goes on, and nothing is assumed about which iteration comes next. Nothing is assumed
of who wins a race: that `Termination` holds for union-find means that the retries of
`unite` and the climbs of `find` end whatever the interleaving, since each failure is
caused by another's progress. Which victim a thief picks is not fair; the program
still ends, as the owner runs what nobody steals. Runs of the concurrent structures
check deadlock, with finished systems stuttering in a named action (`Terminated`,
`Done`, `Gone`); in `algorithms` and `structures` a finished algorithm stops, and
`Terminates` and `AlwaysSettles` say that nothing stops before it is finished.

## 5. Findings

Five runs expect a violation, of what a comment, an assertion or a test says:

1. **`splice_atomic` can lose a union** (`rem_splice`;
   `Connectivity/UnionFind/union_find_rules.h:96`). It writes `parents[v]` over
   `parents[u]`; by then the order that `UniteRemCAS` established between the two
   may no longer hold, so a parent is raised and a vertex leaves the tree that
   another thread counted on. Five vertices and two threads suffice.
2. **The spanning forest's `UniteRemCAS` records links it does not make**
   (`rem_swap`; `SpanningForest/UnionFind/union_find_rules.h:202`). It swaps `rx` and
   `ry` but not the parents it read, as the connectivity version does; one thread
   suffices.
3. **Liu-Tarjan loses a union** (`lt_shortcut`;
   `Connectivity/LiuTarjan/Connectivity.h:349`). Messages are filled once and never reset.
   On the path 0-2-3-5-4-1 `liutarjan_CUSA` (simple connect, update and shortcut, with
   alter) comes to the altered edges (0,2) and (2,1) after the shortcut of 5 has overtaken
   that of 3; message 2 is 0 since an earlier round, so the edge to 1 changes nothing, the
   rounds stop, and 1 and 4 stay apart. `KeepsUnions` names the variants that are not
   affected, and `NoEdgeLost` is checked of them.
4. **Shiloach-Vishkin loses unions between batches** (`sv_batches`;
   `Connectivity/ShiloachVishkin/Connectivity.h:158`). `process_batch` renews
   `prev_parents` only at the endpoints of the batch, but hooks a parent of theirs if
   `prev_parents` says that it is a root; when an earlier batch hooked it, nothing
   is hooked and the loop ends.
5. **k-core by fetch-and-add keeps some vertices too high** (`kcore_fa`;
   `KCore/JulienneDBS17/KCore.h:107`). The first edge that a vertex loses in a round is
   recognised by a count of 1 before the addition where the other traversal has it
   after.

The modules also state what the code says of itself and does not keep, where a
run of its own would add little to reading it; the definitions are in place, with
the reason in their comments, and no run checks them:

| Statement | What the code does |
|---|---|
| `ConcurrentStack.SizeLinearizable` | `size` reads the length of the head node after a pop may have moved it to the other stack |
| `LiuTarjan.BatchesKept` | messages are not reset between batches either, so every variant may lose a union of a later batch |
| `LiuTarjan.FlatWithShortcut` | one shortcut in a round leaves paths that are not flat when the messages stop, where `cc_check` compares labels |
| `SpeculativeFor.NeverAborts` | the matching allows n tries of e/50 + 1 edges each; with fewer than 50 edges and more than n + 1 the process aborts |
| `GraphFilter.SeenIsLive` | a compressed block of 1000 edges is read as 16 longs, 24 bits into the next; `clear_vertices` leaves the number of blocks, and with it the edges |
| `Encodings.CtsFit` | a list of exactly 100 blocks stores its total behind `block_cts_stack` |
| `Betweenness.DirectedDependenciesRight` | the way back uses degree sums cached for the way there, and skips levels of sinks on directed graphs |
| `SearchAndContract.IsolatedLabelled` | BFSCC leaves a vertex without edges unlabelled, so such vertices share a label |
| `StrongComponents.RoomForAll` | the bound that sizes the label table misses labels passed on in the same round |
| `Peeling.BelowCutoffFirst` | the order of BarenboimElkin08 puts the vertices below the cutoff last |
| `Encodings.IthIsIth` | neighbour i is counted from 1, and bytepd's last full block has size 0 |
| `GraphMutation.CopyStands` | a copy after `filter_edges` leaves out edges, a ptr graph's copy shares them |
| `GraphMutation.MadeCountRight` | the byte `filterGraph` returns the number of bytes as the number of edges |

## 6. What is proved

Each theorem holds for every value of the constants that the assumptions allow.
`PROJECT.json` lists them with the property of a run that each states.

| Theorem | States | Of |
|---|---|---|
| `UnionFindProofs.TypeCorrect` | `Spec => []TypeOK` | `UnionFind` |
| `ParentsPointDown` | `Spec => []ParentOrder` | |
| `NoFalseUnion` | `Spec => []ParentsStayInside` | |
| `LinksAreForGood` | `Spec => LinkedForGood`, an action property | |
| `ComponentsFound` | `Spec => []LabelsAndForest` | |
| `UniteLinearizable` | `Spec => Linearizable`, the refinement of `DisjointSets` | |
| `RemUnionFindProofs.TypeCorrect` | `Spec => []TypeOK`, for all combinations | `RemUnionFind` |
| `RemTreesRight` | `Sound /\ Spec => []TreesRight` | |
| `RemLinearizable` | `Sound /\ Spec => Linearizable` | |
| `Types` | `TagsLast => (Spec => []TypeOK)` | `WorkStealing` |
| `DequesStayRight` | `TagsLast => (Spec => []DequesRight)` | |
| `ForkJoinImplemented` | `TagsLast => (Spec => ImplementsForkJoin)`, the refinement of `ForkJoin` | |
| `JobsStayRight` | `TagsLast /\ LocksApart => (Spec => []JobsRight)` | |
| `StackStaysRight` | `Spec => []StackRight` | `ConcurrentStack` |
| `StackLinearizable` | `Spec => Linearizable`, the refinement of `Stack` | |
| `AllocatorStaysRight` | `Spec => []BlocksRight` | `Allocator` |
| `BucketsImplementPriorities` | `BucketsSpec => ImplementsPriorityBuckets`, the refinement of `PriorityBuckets` | `Buckets` |
| `CopiesStayAccounted` | `BucketsSpec => []CopiesAccounted`, a part of `CountsRight` | |
| `ClustersStayRight` | `LDDSpec => []ClustersRight` | `LowDiameter` |
| `RootSetsStayRight` | `RootsSpec => []RootSetsRight` | `RootSets` |
| `TableStaysTheSet` | `TableSpec => []TableIsTheSet` | `HashTables` |

**Assumptions.** `UFAssumption`: there is a vertex; initial parents, calls and
queries are about vertices. `InitAssumption`: initial parents point down, which holds
for the identity, for what k-out sampling leaves, for the clusters of LDD sampling, whose
centers are taken in the order of the vertices, and for what a batch leaves, by
`ParentsPointDown` itself; BFS sampling leaves a star at its source, which need not
be its lowest vertex, and is outside. `StackAssumption`: the programs are finitely many
threads' sequences of calls, and the initial values fit in the nodes there are.
`AllocatorAssumption`: lists have two blocks or more (section 4), and there is a worker.
`BucketsAssumption`: there is an open bucket, identifiers are finitely many, priorities and
bucket numbers are below `null_bkt`, which is the greatest value of its type in the code, and
`Width` is beyond the priorities, as 2^64 is beyond 32-bit ones. `LDDAssumption`: there is
a vertex, graphs are symmetric, a permutation lists every vertex, and the shifts begin
with 0 and 1, grow in every round and end beyond the vertices (what `exp(i * beta)`
gives, with what the last round adds). `RootSetsAssumption`: there is a vertex, graphs are symmetric,
and no two vertices have the same place in the order. `HashTablesAssumption`: threads are
finitely many, keys and hashes naturals, and in a table that keys are deleted from
the inserted keys leave a slot empty and make no stretch of full slots that is longer than
half of the table (`ShortStretches`). That is exactly what `lessIndex` can
tell apart: beyond half the table it takes what is ahead for what is behind. The code does
not enforce it, but gives 100 slots and, by default, 1.5 per key, so that a stretch of that length
takes keys whose first indices crowd together; no share of full slots is assumed. TLC
evaluates them on the constants of each run. `Sound` names the combinations of Rem's
algorithm that are not refuted: not `splice_atomic`, and not the spanning forest's
`UniteRemCAS` (findings 1 and 2); it is a condition on the two options, which no
step changes. `ProgramAssumption` and `SchedulerAssumption`: a pardo of the model is one
execution of a call of `pardo`, so it is called at one place (`CalledOnce`), and the
deque has a slot. `MCWorkStealing` asserts of its programs the two hypotheses of the
scheduler's theorems. `TagsLast`: there are more tags than pardos. A pop that uses up a
tag belongs to a pardo, so tags do not come round again; the code has 2^32 of them,
and with fewer pardos than that it is met. A longer program could only go wrong if a
thief slept through 2^32 pops between its load of `age` and its compare-and-swap; that is
outside the theorems. `LocksApart`: programs that use the mutex wait conservatively and
take it in no thunk below one that holds it. That is what the comment at `wait` asks for
(`scheduler.h:226-232`); without the first a waiting worker may run a stolen job that
takes the lock, as the comment says, and without the second a thread locks a mutex it
holds.

**Recursive definitions.** `Ancestor` follows parents to the root, `Connected`
grows a set along links, `Linked` follows a list. What they compute is proved from
what characterises it. A naturals' set with 0 and successors is all of them
(`SetInduction`, from the least element of a set); by it a recursive function exists
and satisfies its equation; and what `Ancestor`, say, is follows because a root map
is unique (`RootsUnique`, `AncestorIsRootOf`): any map that sends a vertex to a root
and is constant along parents. Likewise `LinkedIsList` and
`ComponentsAreClasses`. After that no proof looks into a recursion: a link replaces
one class of the map (`LinkMergesRoots`), and a list loses or gains its head
(`IsList`, the lemmas after it).

**Scheduler.** What `DequesRight` says of three moments of a worker does not follow
from itself: between them the worker's deque is partly in memory, partly in its store
buffer and partly in its locals, and thieves move `age` meanwhile. `IInv` describes all
of it in terms of the call stack:

- `DequeInv`: the slots below the owner's bottom are the pardos of "left" frames on its
  stack, from the bottom up, with none missing between the lowest of them and the top
  of the stack, and no "wait" frame above the lowest. Those below `age.top` are taken,
  those from it on are nobody's (`Holds`); a "left" frame without a slot has had its
  job taken. Bottom and slots are as the owner sees them (`Value`, `SlotsOf`), and
  `BufferOK` says which stores may be waiting at which label, in which order: that is
  where fences count. In the middle of a push or a pop one more frame is spared
  (`SpareIn`), and `JobsIn` and `MemIn` say where bottom stands for the owner and for
  everyone else.
- `ThiefInv`: tags and tops never go back, so if `age` still is what the thief read
  then nothing was popped or stolen since, the slot it read is still there, and the job in
  it is nobody's. That this lasts while the owner pops down to the same slot needs the
  owner's own fences and compare-and-swap. `TagInv` bounds a tag by the number of pardos
  whose left thunk is done, which with `TagsLast` means that it never wraps.
- `FramesInv`: a frame tells how far its pardo is, a pardo has one frame of its own and
  one worker that runs its right thunk, and a job's frame and the store to `right_done`
  are at another worker than the frame of the pardo, which is still there. `Control`:
  labels and frames fit.
- `CallsInv`: what a thunk has still to call has not begun, and what it called before
  the frame above it has returned. `ForkJoin` asks for that, and that a pardo is not
  called twice follows from it.

The steps are grouped by what they do to a deque (the owner pushes, pops, stands still;
a thief takes; a store drains), and each group is proved once, about the arguments of
`DequeOK`, for the deque it touches (`Keeps`, `Standing`, `Stolen`, `Flushed`); the
others follow as nothing of theirs moves. The hardest case is the last job: the owner
has stored bottom and fenced, the thief has read bottom before; both compare and swap
`age`, and whichever is second finds another tag or top. From `IInv`, `DequesStayRight`
is read off the deque: the job that a pop finds under "left" is that of the topmost left
frame, which is the pardo that pops; under "wait" there is none since no frame above the
lowest held is a wait. `OpenLefts` bounds the slots by an injection into frames.
`ForkJoinImplemented` is step by step (`StepForksJoins`). `JobsStayRight` adds `LocksAt`
(with the conservative wait a worker that waits does nothing else, so that its stack is
one job and the thunks that this job calls) and `AbortSlot`; the thunk that takes the
mutex is then among those that a locked one would call, which `LocksApart` excludes.

**Union-find.** `parents[x] <= x` is not inductive, nor is anything that speaks of
the arrays only: a store writes a value that was read some steps ago into a vertex
chosen some steps ago. The invariant has a part about what each thread knows of its
locals at each label, stated so that other threads' steps cannot disturb it. `UFInv`
is the part that all variants share: types, parents that point down, trees that only
grow (what the initial parents and the finished calls joined stays joined), the
last loop, the calls (each is still to begin, one thread's, or has merged its
arguments), trees inside components, and for each thread that the vertices in a find
are in the tree of its argument and below each other (`FindDown`, `FindInTree`).
*Same tree* is stable, since trees only merge; *is a root* is not, and is claimed
only where the code holds on to it: by a successful hook (`HooksClaim`) or a lock
(`LocksExclude`).

Between the loops and a variant of unite there is a contract: a step of unite may
move a vertex up in its tree or link two trees that stand for its call's
arguments (`TreeStep`), touches no other thread's locals (`UniteMoves`), and ends its
call only when the arguments are in one tree (`Merges`). `UniteKeepsUF` says that
such a step keeps `UFInv`, and `StepOfSets` that it is a step of `DisjointSets`; they
are proved once. Each variant then has to show the contract, from what its own
threads know (`UniteInTree`, `RemInTree`). That is where the algorithms differ: the
compare-and-swap of `Unite` tests that the root is one, `UniteND` stores without a
test, which is right since a hook is taken once and until then its vertex is a root;
Rem's lock variant stores what it tested under the lock, and Rem's return on two
equal parents is right because both are in the trees of the arguments.
`UniteLinearizable` follows step by step. `ComponentsFound` combines the two
halves: trees are inside components, no call is left, so they are the components
(`LabelsFound`); and every recorded call has joined two trees, so that there are as many
as vertices less trees (`ForestFound`, by bijections between roots and
classes), which with being connected makes a forest.

**Stack.** The invariant is `IInv`: types; each stack is a list whose nodes know how
many there are from them on (`Right`); each allocated node is on one stack or with
one thread (`Owned`); `Control`, which locals mean something at which label;
`Snapshot`; `MemoryInv` and `GoneInv`. `Snapshot` is the point of the algorithm: a
thread's copies of a head, of the node below and of its length may be torn or stale,
and nodes may have moved to the other stack and back; but counters only grow, each
successful compare-and-swap takes the next one, and so *if* the head still equals
the copy then the stack has not changed since the half that was read first, and
what was read of its nodes is what they hold. That the new length of a pushed node is right
needs the same of `length`. The bound on memory is not inductive on the number
of nodes: a thread that found `b` empty may call `malloc` much later, when `b` is not
empty any more. `Committed` are these threads, and the nodes allocated or committed to
are no more than the largest size and one per thread.
For `StackLinearizable`, `Effect` says of each step of a thread what it does to the
contents, to its call and to its result: a push takes effect at its
compare-and-swap on `a`, a pop at its own or at the load of a null head
(`PopTest`), the calls on `b` change nothing. `size` is no operation of `Stack`: its steps leave
the stack alone, and that what it returns is a size of the stack during the call the
code does not keep (section 5).

**Allocator.** `BlocksRight` speaks of chains of `next`, which a free of one worker
changes while another makes lists of blocks nobody knows yet, and of counts that fit
only when nobody is in a call. `AllocatorInv` has a part for each difficulty:

- `BlocksPlaced`, ownership: there are a list of blocks for each level of the global stack,
  counted from its bottom so that pushes move none, and one for each worker, which the
  links form (`ListsRight`); and three maps on blocks: the kind of place, the level of
  the stack and the worker, where the kind has one (`InPlace`). No block is in two places
  because a map has one value, and a call changes the maps at the blocks it moves only.
  From `list_length + 2` blocks on, the `mid` of a worker is the block `list_length + 1`
  places from the end of its list: allocs and frees since it was marked changed
  the list before it only, and marked it anew whenever the list was shorter in between. So
  where a full list is cut, `list_length` blocks go and as many stay (`CutList`, `CutToGlobal`).
- `Counted`, memory: what is allocated, or about to be by a call that has found the
  stack empty (`need`), is what the program holds, the global lists and what each worker
  keeps or has on the way (`claim`). A call of `alloc` may take memory much later, when there
  are lists again, so that the bound has to hold of it from the moment it looks.
  `TotalChange` says what a change of one worker's share does to the sum.
- `Control`, what each worker's locals mean at each label; `Rooted`, every region is a
  root or about to be pushed; `Unused`, what holds before `init` and after `finish`.

Each action keeps all of them (`AllocLocalKeeps` and those like it), by lemmas about
lists and maps: a head is taken or put, a list goes to another owner, a region becomes lists
(`TakeHead`, `PutHead`, `GlobalToLocal`, `HandToGlobal`, `LinkHand`). `Below`, which
follows links recursively, is the list that the links form (`BelowIsList`), so that
`AccountedBlocks` reads the property off the maps.

**Buckets.** `PriorityBuckets` speaks of who is in the structure (`held`) and with
which priority; the structure has copies, and of each question there are two versions,
one per order. `Pos` turns a priority into a position that grows from the first to the
last in either order, a range covers `open_buckets` positions from its `Base`, and
`to_range` tells an identifier's place, `Slot`: what is specific to an order is in the
lemmas about `\div` and `%` alone (`ToRangeIs`, `JumpUp`, `JumpDown`). `IInv` is then:

- `Filing`: whoever is held has not been passed and has a copy in the slot where its
  priority will be looked up; a copy in the slot of its identifier is of one that is held;
  any other copy was left behind by a move to an earlier position; what was taken out of an
  increasing structure lies not ahead of the current bucket, and so moves no more. All of this is said of slots, so that moving the range
  has to be shown to move the slots with it (`FilingUnpack`), also when it skips the
  ranges in which nothing is (`FilingJump`).
- no bucket has two copies of an identifier: the two-argument `get_bucket` gives none to
  one that moves within a bucket, unless that is the current one, which is empty when
  the client moves; where the one-argument version would, the move itself excludes it
  (`Falls`, `Returns`).
- `num_elms` is the number of copies (`CopyCount`), counted as cells of bucket and
  identifier (`TotalCells`, `DropBucket`, `PlaceCopies`); `Ranged`, what overflows comes
  before the last priority, so that `cur_range` stays in its type; `Returned`, what the caller
  holds was in the current bucket.

`UpdateBuckets` is the step where clients differ: `MovesAre` shows of each that its moves
are `CanMove`, and `FilingMoves` is proved once from that. When `GetCurBucket` returns,
everyone held at the bucket's position has a copy in it, by `Filing`, and nobody is held
before it; these are the two halves of the abstract step (`TakeIInv`).

**Low-diameter decomposition.** `ClustersRight` compares `parents` and `cluster_ids` with
two recursive definitions: `Root` climbs from a vertex for as long as there is someone to
climb to, `Within` grows a ball around the center. `LDDInv` has a depth for each visited
vertex (`LDDTrees`): 0 at a center, and one more than that of a parent, which is a neighbour of the
same cluster; none is more than `round`. By induction along the depth a climb
reaches the center (`RootClimbs`, `RootIsCenter`), and a vertex is in the ball of its depth
(`DepthIsDistance`, after `IterationExists` and `WithinGrows`, which say what the
recursions compute). Which of the neighbours that claim a vertex in a round wins does not matter, as the
parent and the cluster are of the same one (`GrowKeeps`).
`LDDRounds` and `LDDCounts` are about the end: the shifts say how far the permutation has been
used, every vertex up to there has been visited, and so a loop that has used all of it has visited
all. Hence `round` stays below the number of vertices, and below the length
of the shifts, which the code reads without a test. `LDDFirst` follows the first center for
a round: the second shift is 1, so nobody else is there when it takes its neighbours.

**Root sets.** `RootSetsRight` needs to know what `priorities[v]` counts in the middle of a
loop: the neighbours before `v`, without those gone in earlier rounds (`Gone`) and without
those of this round that have counted down already (`Counted`), whose task is not among
`todo`. `RootsInv` says this for all three algorithms, which differ in who goes: roots for
the colourings, the neighbours of roots for the independent set.

- A new root appears in the frontier when the last vertex it waits for has counted down
  (`EdgeTasks`, `DecrementKeeps`): one fetch-and-add finds 1, whatever the order, and no
  vertex appears twice. Without this a vertex would be left out for good.
- `RootsNeverEmpty` follows from the order: of any vertices some come before all their
  neighbours among them (`SomeComeFirst`), and those not settled that come first wait for nobody.
  For the log-degree order the ties are what must not make a cycle (`OrderOfNeighbours`).
- A colour is picked when all before have theirs and none after has (`RootComesFirst`), so
  the least colour free of *all* neighbours is the one that the rule gives (`FreeIsExpr`),
  also while neighbouring tasks pick. That it is free of those before when a vertex has as many
  of them as colours to choose from is a pigeonhole argument (`ColorIsFree`, `AllOfThem`).
- The greedy result is a recursive function of the order; since the order has no cycle at
  most one function follows the rule (`GreedyIs`), and what the loop ends with does
  (`EndIsGreedy`).

**Hash tables.** `TableIsTheSet` speaks of moments at which nothing runs; what makes it
true is what each thread leaves behind it on the way. `TableInv`, for any hash function
and number of threads:

- `Placed` and `Travels`: whatever lies in a slot, and whatever a thread carries, has
  passed every slot from its first index up to there, and a slot lets an element pass
  for good (`Passes`): it is full and holds another key, in a resizable table another
  pair, in a pbbs table a higher key. That this lasts is `PassesStay`, as in a pbbs
  table the keys of a slot only rise (`Rises`). A thread that bumps an element carries
  on one that had passed the same slots. Two slots that hold the same element contradict
  this, whichever comes first (`KeysApart`).
- `Kept` and `Drops`: what was taken is in the table, waits in the smaller table, or is
  with a thread that will not drop it; a thread that found its own key in the slot as it
  read it drops what it carries, which needs that the key is still somewhere now: it may
  have been bumped meanwhile, and is then with the thread that bumped it.
- `Claims`: a slot of `sparse_table` without its value has one thread that writes it.
- `AllCounted` and `WinsAre`: the elements that are counted, and those whose insertion
  returned true, are the full slots. Sums over threads are proved from the library's
  fold (`PartialSums`, `SumChange`).
- `Holed`, in a deletion: an entry has passed all the slots on its way but the hole, and
  what lies in the hole is there twice or deleted (`Left`). `Replacement` is the next
  entry on whose way the hole lies: those before it begin after the hole, and those
  after it that pass the hole pass the replacement too (`HoleBehind`, `HoleBefore`), so
  that the hole moves there. `lessIndex` tells the two apart when ways are shorter than
  half the table. They are (`WaysAreShort`): a way leads over full slots only, the empty slot
  before them begins a stretch whose keys all have their first indices in it (`FullUpTo`), and
  such a stretch is short by `ShortStretches`.

When nothing runs, nothing travels and no slot lacks its value, so `Placed` says where a
search ends (`SearchFinds`) and that the layout of a pbbs table follows from what it
holds (`LayoutHolds`), and `Kept` that every key is there (`AllStored`).

**Only model-checked.** The combinations of Rem's
algorithm that lose unions; of `MCStructures`, all but `BlocksRight`, `TableIsTheSet` and the buckets; of
`MCAlgorithms`, all but `ClustersRight` and `RootSetsRight`. Their properties are stated over
many modules at once, and most references (components, hops, sorted lists, shortest
paths) are recursive over data. Every liveness property, which with ENABLED is outside what the
prover does.

## 7. Not modelled, and the plan

Not modelled as components, with the reason in `PROJECT.json`: the memory pool over
the allocators, counting and clustering (triangles, cliques, cycles, k-truss, SCAN),
spanners, strings, input and output, tools and bindings, vendored code.

Left out of the components that are modelled:

- Scheduler: `parallel_for` and its granularity (a tree of pardos), timing and the
  sleeping of thieves, the hash that picks victims.
- Connectivity: the cutting of a stream into batches; `SimpleUnionAsync`, which copies
  the rules of union-find; `StergiouAlgorithm`, instantiated nowhere; LDD sampling, whose
  clusters are those of `LowDiameter`, as a strategy of `Sampling`; the samplings of the
  spanning forest, which keep `Edges` beside the labels.
- Set cover (but its use of buckets is in `Buckets`), Boruvka and the sequential
  Kruskal, biconnectivity, Yoshida's recursive oracles for independent set and
  matching.
- PageRank and CoSimRank: floating point iterated to a tolerance, outside what TLC
  evaluates.
- `edgeMapReduce`, which exits where it is called; `sparse_additive_map`, whose insert
  is `sparse_table`'s; `collect_reduce` and the histogram of pbbslib, which tests use;
  `rand_shuffle` of the allocator.
- Memory order: x86-TSO in `WorkStealing` only.

Next, in this order:

1. The samplings of the spanning forest, and biconnectivity, whose labels are built
   from a spanning tree by the components that are modelled.
2. Boruvka's rounds (`write_min` of edge numbers per component) and k-truss peeling.
3. Set cover: bids that are drawn anew in each round, with the bound as a count.
4. `UFAlgorithm` on x86-TSO.

Theorems to come: `NeverOverMerges` of the round-based algorithms, by colourings
as the trees of union-find, and the reservations of `SpeculativeFor`.
