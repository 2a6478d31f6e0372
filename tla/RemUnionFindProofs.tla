-------------------------- MODULE RemUnionFindProofs --------------------------
(***************************************************************************)
(* Proofs about RemUnionFind for every number of vertices and threads and  *)
(* every workload.  They are about the combinations of Sound: with the     *)
(* others TLC finds states in which the trees are wrong.                   *)
(***************************************************************************)
EXTENDS RemUnionFind, UFAlgorithmProofs

USE DEF At, Goto, Set, choices, loops, args, finds

-----------------------------------------------------------------------------
(* The inductive invariant: UFInv, and what a thread knows in each unite.  *)

\* Not the spanning forest's UniteRemCAS, which swaps rx and ry and keeps the
\* parent it read, nor splice_atomic, which moves rx into the tree of ry.
Sound ==
  /\ unite_option \in {"unite_rem_cas"} \cup Locking
  /\ splice_option \in {"split_atomic_one", "halve_atomic_one"}

Compressing == {"compress_u", "compress_v", "compressed"}
Held == {"py", "lock_test", "lock_link", "release"}
LockLabels == {"lock_px", "lock_py", "lock_root", "acquire"} \cup Held

\* rx and ry stand for the arguments; what was read of their parents is in
\* their trees; and a lock is held from the test that took it to its release.
RemInTree(t) ==
  /\ pc[t] \in LoopLabels => Pair(t)
  /\ Toward(t, Compressing) => Same(op[t][1], op[t][2])
  /\ pc[t] = "test" => Same(j[t], u[t])
  /\ pc[t] \in {"p_ry", "p_rx", "cas"} => unite_option = "unite_rem_cas"
  /\ pc[t] \in {"p_rx", "cas", "lock_test", "lock_link"} => Same(w[t], v[t])
  /\ pc[t] = "p_rx" => w[t] <= v[t]
  /\ pc[t] = "cas" => w[t] <= u[t]
  /\ pc[t] \in LockLabels => unite_option \in Locking
  /\ pc[t] \in Held => locks[u[t]]
  /\ pc[t] = "lock_link" => w[t] < u[t] /\ parents[u[t]] = u[t]
  /\ pc[t] \in {"splice", "splice_w", "splice_cas"} => parents[u[t]] # u[t]
  /\ pc[t] \in {"splice_w", "splice_cas"} => Same(j[t], u[t]) /\ j[t] < u[t]
  /\ pc[t] = "splice_cas" => Same(w[t], u[t]) /\ w[t] < j[t]

\* A lock is held by one thread.
LocksExclude == \A s, t \in Threads : s # t /\ pc[s] \in Held /\ pc[t] \in Held => u[s] # u[t]

AllLabels == FindLabels \cup LoopLabels \cup ReturnLabels
TypeInv ==
  Typed(AllLabels, ReturnLabels) /\ locks \in [Vertices -> BOOLEAN] /\ splice_option \in Splices

IInv ==
  /\ TypeInv /\ Sound /\ UFInv /\ LocksExclude
  /\ unite_option \in Recording => EdgesInv
  /\ \A t \in Threads : RemInTree(t)

-----------------------------------------------------------------------------
(* The steps of the unite variants, one by one.                            *)

\* The labels of the variants are as the loops and the finds require.
LEMMA LabelsFit == LabelSets(AllLabels, ReturnLabels)
  BY DEF LabelSets, AllLabels, LoopLabels, ReturnLabels, FindLabels, Elsewhere

\* What the types say of one thread's locals.
LEMMA LocalTypes ==
  ASSUME TypeInv, NEW t \in Threads
  PROVE  /\ u[t] \in Vertices /\ v[t] \in Vertices /\ i[t] \in Vertices /\ j[t] \in Vertices /\ w[t] \in Vertices
         /\ parents \in [Vertices -> Vertices] /\ locks \in [Vertices -> BOOLEAN]
         /\ pc \in [Threads -> AllLabels] /\ ret \in [Threads -> ReturnLabels]
         /\ \E ops : op \in [Threads -> ops]
         /\ u \in [Threads -> Vertices] /\ v \in [Threads -> Vertices]
         /\ i \in [Threads -> Vertices] /\ j \in [Threads -> Vertices] /\ w \in [Threads -> Vertices]
         /\ load \in Workloads /\ (Uniting(t) => op[t] \in load.ops /\ op[t][1] \in Vertices /\ op[t][2] \in Vertices)
  BY UFAssumption DEF TypeInv, Typed, UFTypeOK, Ops

\* A step of unite keeps its call or ends it, and leaves the others' alone.
LEMMA UniteStepMoves ==
  ASSUME TypeInv, NEW t \in Threads, UniteStep(t)
  PROVE  UniteMoves(t) /\ (op' = op \/ op' = [op EXCEPT ![t] = NoOp])
<1> USE DEF remVars, ufVars, ClearTemps
<1>1. Uniting(t) /\ UNCHANGED <<find_option, unite_option, load, todo, asked, relabel, phase>>
  BY DEF UniteStep, Uniting, Elsewhere, FindLabels, ReadPx, TestPy, ReadPry, ReadPrx, LinkCas, LockReadPx, LockOrder,
         LockRoot, Acquire, LockReadPy, LockTest, LockLink, Release, SpliceRead, SpliceReadW, SpliceCas,
         CompressU, CompressV, Compressed
<1>d. /\ \E labels : pc \in [Threads -> labels] /\ \E returns : ret \in [Threads -> returns]
      /\ \E ops : op \in [Threads -> ops]
      /\ u \in [Threads -> Vertices] /\ v \in [Threads -> Vertices]
      /\ i \in [Threads -> Vertices] /\ j \in [Threads -> Vertices] /\ w \in [Threads -> Vertices]
  BY LocalTypes
<1>2. \A s \in Threads : s # t => SameLocals(s)
  <2> USE <1>d DEF SameLocals, CallFind, EndIteration, Swap
  <2>1. CASE ReadPx(t) \/ TestPy(t) \/ ReadPry(t) \/ ReadPrx(t) \/ LinkCas(t)
    BY <2>1 DEF ReadPx, TestPy, ReadPry, ReadPrx, LinkCas
  <2>2. CASE LockReadPx(t) \/ LockOrder(t) \/ LockRoot(t) \/ Acquire(t)
    BY <2>2 DEF LockReadPx, LockOrder, LockRoot, Acquire
  <2>3. CASE LockReadPy(t) \/ LockTest(t) \/ LockLink(t) \/ Release(t)
    BY <2>3 DEF LockReadPy, LockTest, LockLink, Release
  <2>4. CASE SpliceRead(t) \/ SpliceReadW(t) \/ SpliceCas(t)
    BY <2>4 DEF SpliceRead, SpliceReadW, SpliceCas
  <2>5. CASE CompressU(t) \/ CompressV(t) \/ Compressed(t)
    BY <2>5 DEF CompressU, CompressV, Compressed
  <2> QED
    BY <2>1, <2>2, <2>3, <2>4, <2>5 DEF UniteStep
<1>3. \/ /\ op' = op
         /\ \/ pc'[t] \notin FindLabels \cup Elsewhere \cup {"idle"}
            \/ pc'[t] = "find" /\ ret'[t] \notin Elsewhere \cup {"idle"}
      \/ op' = [op EXCEPT ![t] = NoOp] /\ pc'[t] = "idle"
  <2> USE <1>d DEF Elsewhere, CallFind, EndIteration, FindLabels
  <2>1. CASE ReadPx(t) \/ TestPy(t) \/ ReadPry(t) \/ ReadPrx(t) \/ LinkCas(t)
    BY <2>1 DEF ReadPx, TestPy, ReadPry, ReadPrx, LinkCas
  <2>2. CASE LockReadPx(t) \/ LockOrder(t) \/ LockRoot(t) \/ Acquire(t)
    BY <2>2 DEF LockReadPx, LockOrder, LockRoot, Acquire
  <2>3. CASE LockReadPy(t) \/ LockTest(t) \/ LockLink(t) \/ Release(t)
    BY <2>3 DEF LockReadPy, LockTest, LockLink, Release
  <2>4. CASE SpliceRead(t) \/ SpliceReadW(t) \/ SpliceCas(t)
    BY <2>4 DEF SpliceRead, SpliceReadW, SpliceCas
  <2>5. CASE CompressU(t) \/ CompressV(t) \/ Compressed(t)
    BY <2>5 DEF CompressU, CompressV, Compressed
  <2> QED
    BY <2>1, <2>2, <2>3, <2>4, <2>5 DEF UniteStep
<1> QED
  BY <1>1, <1>2, <1>3 DEF UniteMoves, Uniting, FindLabels

\* A step of unite keeps the types.
LEMMA UniteTyped ==
  ASSUME TypeInv, NEW t \in Threads, UniteStep(t)
  PROVE  TypeInv'
<1>b. 0 \in Vertices
  BY UFAssumption DEF Vertices
<1>d. /\ u[t] \in Vertices /\ v[t] \in Vertices /\ i[t] \in Vertices /\ j[t] \in Vertices /\ w[t] \in Vertices
      /\ parents \in [Vertices -> Vertices] /\ locks \in [Vertices -> BOOLEAN]
      /\ pc \in [Threads -> AllLabels] /\ ret \in [Threads -> ReturnLabels]
      /\ u \in [Threads -> Vertices] /\ v \in [Threads -> Vertices]
      /\ i \in [Threads -> Vertices] /\ j \in [Threads -> Vertices] /\ w \in [Threads -> Vertices]
  BY LocalTypes
<1>1. UniteMoves(t) /\ (op' = op \/ op' = [op EXCEPT ![t] = NoOp])
  BY UniteStepMoves
<1> USE DEF rx, ry, ClearTemps, remVars, ufVars, CallFind, EndIteration, Swap
<1>2. pc' \in [Threads -> AllLabels] /\ ret' \in [Threads -> ReturnLabels]
  <2> USE <1>d DEF AllLabels, LoopLabels, ReturnLabels, FindLabels
  <2>1. CASE ReadPx(t) \/ TestPy(t) \/ ReadPry(t) \/ ReadPrx(t) \/ LinkCas(t)
    BY <2>1 DEF ReadPx, TestPy, ReadPry, ReadPrx, LinkCas
  <2>2. CASE LockReadPx(t) \/ LockOrder(t) \/ LockRoot(t) \/ Acquire(t)
    BY <2>2 DEF LockReadPx, LockOrder, LockRoot, Acquire
  <2>3. CASE LockReadPy(t) \/ LockTest(t) \/ LockLink(t) \/ Release(t)
    BY <2>3 DEF LockReadPy, LockTest, LockLink, Release
  <2>4. CASE SpliceRead(t) \/ SpliceReadW(t) \/ SpliceCas(t)
    BY <2>4 DEF SpliceRead, SpliceReadW, SpliceCas
  <2>5. CASE CompressU(t) \/ CompressV(t) \/ Compressed(t)
    BY <2>5 DEF CompressU, CompressV, Compressed
  <2> QED
    BY <2>1, <2>2, <2>3, <2>4, <2>5 DEF UniteStep
<1>3. /\ u' \in [Threads -> Vertices] /\ v' \in [Threads -> Vertices]
      /\ i' \in [Threads -> Vertices] /\ j' \in [Threads -> Vertices] /\ w' \in [Threads -> Vertices]
  <2> USE <1>b, <1>d
  <2>0. Uniting(t) /\ op[t][1] \in Vertices /\ op[t][2] \in Vertices
    BY <1>1, LocalTypes DEF UniteMoves
  <2>1. CASE ReadPx(t) \/ TestPy(t) \/ ReadPry(t) \/ ReadPrx(t) \/ LinkCas(t)
    BY <2>1, <2>0 DEF ReadPx, TestPy, ReadPry, ReadPrx, LinkCas
  <2>2. CASE LockReadPx(t) \/ LockOrder(t) \/ LockRoot(t) \/ Acquire(t)
    BY <2>2, <2>0 DEF LockReadPx, LockOrder, LockRoot, Acquire
  <2>3. CASE LockReadPy(t) \/ LockTest(t) \/ LockLink(t) \/ Release(t)
    BY <2>3, <2>0 DEF LockReadPy, LockTest, LockLink, Release
  <2>4. CASE SpliceRead(t) \/ SpliceReadW(t) \/ SpliceCas(t)
    BY <2>4, <2>0 DEF SpliceRead, SpliceReadW, SpliceCas
  <2>5. CASE CompressU(t) \/ CompressV(t) \/ Compressed(t)
    BY <2>5, <2>0 DEF CompressU, CompressV, Compressed
  <2> QED
    BY <2>1, <2>2, <2>3, <2>4, <2>5 DEF UniteStep
<1>4. parents' \in [Vertices -> Vertices] /\ locks' \in [Vertices -> BOOLEAN] /\ splice_option' = splice_option
  <2> USE <1>d DEF CasParent
  <2>1. CASE ReadPx(t) \/ TestPy(t) \/ ReadPry(t) \/ ReadPrx(t) \/ LinkCas(t)
    BY <2>1 DEF ReadPx, TestPy, ReadPry, ReadPrx, LinkCas
  <2>2. CASE LockReadPx(t) \/ LockOrder(t) \/ LockRoot(t) \/ Acquire(t)
    BY <2>2 DEF LockReadPx, LockOrder, LockRoot, Acquire
  <2>3. CASE LockReadPy(t) \/ LockTest(t) \/ LockLink(t) \/ Release(t)
    BY <2>3 DEF LockReadPy, LockTest, LockLink, Release
  <2>4. CASE SpliceRead(t) \/ SpliceReadW(t) \/ SpliceCas(t)
    BY <2>4 DEF SpliceRead, SpliceReadW, SpliceCas
  <2>5. CASE CompressU(t) \/ CompressV(t) \/ Compressed(t)
    BY <2>5 DEF CompressU, CompressV, Compressed
  <2> QED
    BY <2>1, <2>2, <2>3, <2>4, <2>5 DEF UniteStep
<1>5. Edges' \in [Vertices -> Ops \cup {empty_edge}]
  <2>0. Uniting(t) /\ op[t] \in Ops /\ Edges \in [Vertices -> Ops \cup {empty_edge}]
    BY <1>1, UFAssumption DEF UniteMoves, TypeInv, Typed, UFTypeOK
  <2> USE <2>0, <1>d DEF Record
  <2>1. CASE ReadPx(t) \/ TestPy(t) \/ ReadPry(t) \/ ReadPrx(t) \/ LinkCas(t)
    BY <2>1 DEF ReadPx, TestPy, ReadPry, ReadPrx, LinkCas
  <2>2. CASE LockReadPx(t) \/ LockOrder(t) \/ LockRoot(t) \/ Acquire(t)
    BY <2>2 DEF LockReadPx, LockOrder, LockRoot, Acquire
  <2>3. CASE LockReadPy(t) \/ LockTest(t) \/ LockLink(t) \/ Release(t)
    BY <2>3 DEF LockReadPy, LockTest, LockLink, Release
  <2>4. CASE SpliceRead(t) \/ SpliceReadW(t) \/ SpliceCas(t)
    BY <2>4 DEF SpliceRead, SpliceReadW, SpliceCas
  <2>5. CASE CompressU(t) \/ CompressV(t) \/ Compressed(t)
    BY <2>5 DEF CompressU, CompressV, Compressed
  <2> QED
    BY <2>1, <2>2, <2>3, <2>4, <2>5 DEF UniteStep
<1>6. op' \in [Threads -> load.ops \cup {NoOp}] /\ \A s \in Threads : Uniting(s)' => op'[s] \in load.ops
  <2>1. op \in [Threads -> load.ops \cup {NoOp}] /\ \A s \in Threads : Uniting(s) => op[s] \in load.ops
    BY DEF TypeInv, Typed, UFTypeOK
  <2>2. op' \in [Threads -> load.ops \cup {NoOp}]
    BY <1>1, <2>1
  <2>3. ASSUME NEW s \in Threads, Uniting(s)' PROVE op'[s] \in load.ops
    BY <1>1, <2>1, <2>3 DEF UniteMoves, SameLocals, Uniting, Elsewhere, FindLabels
  <2> QED
    BY <2>2, <2>3
<1> HIDE DEF choices, loops, args, finds, At, Goto, Set
<1>7. /\ UNCHANGED <<find_option, unite_option, load, todo, asked, relabel, phase>>
      /\ find_option \in FindOptions /\ unite_option \in UniteOptions /\ load \in Workloads
      /\ todo \subseteq load.ops /\ asked \subseteq load.queries /\ relabel \subseteq Vertices
      /\ phase \in {"unite", "query", "find", "done"} /\ splice_option \in Splices
  BY <1>1 DEF UniteMoves, TypeInv, Typed, UFTypeOK
<1> QED
  BY <1>2, <1>3, <1>4, <1>5, <1>6, <1>7 DEF TypeInv, Typed, UFTypeOK, AllLabels, LoopLabels, ReturnLabels

\* What is known of a thread, of the vertices it has in its locals.
LEMMA KnownOf ==
  ASSUME IInv, NEW t \in Threads
  PROVE  /\ RemInTree(t) /\ TypeInv /\ UFInv /\ PointsDown(parents)
         /\ \A x \in Vertices : x \in Int /\ parents[x] \in Vertices /\ parents[x] <= x
         /\ u[t] \in Vertices /\ v[t] \in Vertices /\ i[t] \in Vertices /\ j[t] \in Vertices /\ w[t] \in Vertices
         /\ pc[t] \in LoopLabels \cup Compressing =>
              Uniting(t) /\ op[t] \in load.ops /\ op[t][1] \in Vertices /\ op[t][2] \in Vertices
<1>1. \A x \in Vertices : x \in Int
  BY UFAssumption DEF Vertices
<1>2. pc[t] \in LoopLabels \cup Compressing => Uniting(t)
  BY DEF LoopLabels, Compressing, Uniting, FindLabels, Elsewhere
<1> QED
  BY <1>1, <1>2, LocalTypes DEF IInv, UFInv, PointsDown

\* The links: a vertex that is a root is put below a vertex of the other tree.
\* With the lock the root is the one tested: no link to it can intervene.
LEMMA LinksJoin ==
  ASSUME IInv, NEW t \in Threads,
         (pc[t] = "cas" /\ w[t] # u[t]) \/ pc[t] = "lock_link",
         parents[u[t]] = u[t], parents' = [parents EXCEPT ![u[t]] = w[t]]
  PROVE  Joins(t, u[t], w[t])
<1>1. Pair(t) /\ Same(w[t], v[t]) /\ w[t] < u[t]
  <2>1. pc[t] \in LoopLabels /\ pc[t] \in {"p_rx", "cas", "lock_test", "lock_link"}
    BY DEF LoopLabels
  <2>2. Pair(t) /\ Same(w[t], v[t])
    BY <2>1, KnownOf DEF RemInTree
  <2>3. w[t] < u[t]
    <3>1. u[t] \in Int /\ w[t] \in Int
      BY KnownOf
    <3> QED
      BY <3>1, KnownOf DEF RemInTree
  <2> QED
    BY <2>2, <2>3
<1>2. Uniting(t) /\ op[t] \in load.ops
  BY KnownOf DEF LoopLabels
<1> QED
  BY <1>1, <1>2 DEF Joins, Pair, Same

\* The steps of unite that store in parents are LinkCas, LockLink and SpliceCas.
LEMMA OtherStepsStoreNothing ==
  ASSUME NEW t \in Threads, UniteStep(t), ~LinkCas(t), ~LockLink(t), ~SpliceCas(t)
  PROVE  UNCHANGED <<parents, Edges>>
  BY DEF UniteStep, ReadPx, TestPy, ReadPry, ReadPrx, LockReadPx, LockOrder, LockRoot, Acquire, LockReadPy,
         LockTest, Release, SpliceRead, SpliceReadW, CompressU, CompressV, Compressed

\* A splice moves a vertex to its grandparent, or fails.
LEMMA SpliceCompresses ==
  ASSUME IInv, NEW t \in Threads, SpliceCas(t)
  PROVE  (parents' = parents \/ Compresses) /\ Edges' = Edges
<1>1. /\ pc[t] = "splice_cas" /\ Edges' = Edges
      /\ parents' = IF parents[u[t]] = j[t] THEN [parents EXCEPT ![u[t]] = w[t]] ELSE parents
  BY DEF SpliceCas, CasParent, rx
<1>2. Same(w[t], u[t]) /\ parents[u[t]] # u[t] /\ w[t] < u[t]
  <2>1. u[t] \in Int /\ j[t] \in Int /\ w[t] \in Int
    BY KnownOf
  <2> QED
    BY <1>1, <2>1, KnownOf DEF RemInTree
<1> QED
  BY <1>1, <1>2, KnownOf DEF Compresses, Same

\* Each store moves a vertex up in its tree, or joins the trees of a call.
LEMMA UniteTreeStep ==
  ASSUME IInv, NEW t \in Threads, UniteStep(t)
  PROVE  TreeStep(t) /\ (unite_option \in Recording => Records(t))
<1>u. u[t] \in Vertices /\ w[t] \in Vertices /\ parents \in [Vertices -> Vertices]
  BY KnownOf, LocalTypes
<1>1. CASE LinkCas(t)
  <2>1. pc[t] = "cas" /\ unite_option \notin Recording
    BY <1>1, KnownOf DEF LinkCas, RemInTree, Recording
  <2>2. CASE parents[u[t]] = u[t]
    <3>1. parents' = [parents EXCEPT ![u[t]] = w[t]]
      BY <1>1, <2>2 DEF LinkCas, rx
    <3>2. CASE w[t] = u[t]
      <4>1. parents' = parents
        BY <1>u, <2>2, <3>1, <3>2
      <4> QED
        BY <2>1, <4>1 DEF TreeStep
    <3>3. CASE w[t] # u[t]
      <4>1. Joins(t, u[t], w[t])
        BY <2>1, <2>2, <3>1, <3>3, LinksJoin
      <4> QED
        BY <1>u, <2>1, <4>1 DEF TreeStep, JoinsTrees
    <3> QED
      BY <3>2, <3>3
  <2>3. CASE parents[u[t]] # u[t]
    <3>1. parents' = parents
      BY <1>1, <2>3 DEF LinkCas, rx
    <3> QED
      BY <2>1, <3>1 DEF TreeStep
  <2> QED
    BY <2>2, <2>3
<1>2. CASE LockLink(t)
  <2>1. pc[t] = "lock_link" /\ parents' = [parents EXCEPT ![u[t]] = w[t]] /\ Record(t)
    BY <1>2 DEF LockLink, rx
  <2>2. parents[u[t]] = u[t]
    BY <2>1, KnownOf DEF RemInTree
  <2>3. Joins(t, u[t], w[t])
    BY <2>1, <2>2, LinksJoin
  <2>4. unite_option \in Recording => Edges' = [Edges EXCEPT ![u[t]] = op[t]]
    BY <2>1 DEF Record, rx
  <2> QED
    BY <1>u, <2>3, <2>4 DEF Records, TreeStep, JoinsTrees
<1>3. CASE SpliceCas(t)
  <2>1. (parents' = parents \/ Compresses) /\ Edges' = Edges
    BY <1>3, SpliceCompresses
  <2> QED
    BY <2>1 DEF Records, TreeStep
<1>4. CASE ~LinkCas(t) /\ ~LockLink(t) /\ ~SpliceCas(t)
  <2>1. UNCHANGED <<parents, Edges>>
    BY <1>4, OtherStepsStoreNothing
  <2> QED
    BY <2>1 DEF Records, TreeStep
<1> QED
  BY <1>1, <1>2, <1>3, <1>4

\* A root that another thread is about to link under its lock stays a root.
LEMMA LockedRootsStay ==
  ASSUME IInv, NEW t \in Threads, UniteStep(t), NEW s \in Threads, s # t, pc[s] = "lock_link"
  PROVE  parents'[u[s]] = u[s]
<1>1. parents[u[s]] = u[s] /\ u[s] \in Vertices /\ unite_option \in Locking /\ pc[s] \in Held
  BY KnownOf DEF RemInTree, LockLabels, Held
<1>u. u[t] \in Vertices /\ w[t] \in Vertices /\ parents \in [Vertices -> Vertices]
  BY KnownOf, LocalTypes
<1>2. CASE LinkCas(t)
  <2>1. pc[t] = "cas"
    BY <1>2 DEF LinkCas
  <2>2. unite_option = "unite_rem_cas"
    BY <2>1, KnownOf DEF RemInTree
  <2> QED
    BY <1>1, <2>2 DEF Locking
<1>3. CASE LockLink(t)
  <2>1. pc[t] = "lock_link" /\ parents' = [parents EXCEPT ![u[t]] = w[t]]
    BY <1>3 DEF LockLink, rx
  <2>2. pc[t] \in Held
    BY <2>1 DEF Held
  <2>3. u[t] # u[s]
    BY <1>1, <2>2 DEF IInv, LocksExclude
  <2> QED
    BY <1>1, <1>u, <2>1, <2>3
<1>4. CASE SpliceCas(t)
  <2>1. CASE parents' = parents
    BY <1>1, <2>1
  <2>2. CASE Compresses
    BY <1>1, <1>u, <2>2 DEF Compresses
  <2> QED
    BY <1>4, <2>1, <2>2, SpliceCompresses
<1>5. CASE ~LinkCas(t) /\ ~LockLink(t) /\ ~SpliceCas(t)
  BY <1>1, <1>5, OtherStepsStoreNothing
<1> QED
  BY <1>2, <1>3, <1>4, <1>5

\* Where the loop finds one parent, the arguments are in one tree.
LEMMA EqualParentsEndIt ==
  ASSUME IInv, NEW t \in Threads, pc[t] = "test", parents[v[t]] = j[t]
  PROVE  Same(op[t][1], op[t][2])
<1>1. Pair(t) /\ Same(j[t], u[t])
  BY KnownOf DEF RemInTree, LoopLabels
<1>2. Same(parents[v[t]], v[t])
  BY KnownOf, ParentsHaveRoots DEF RootMap, Same
<1> QED
  BY <1>1, <1>2 DEF Pair, Same

\* After a step of unite the thread knows what it needs for the next one.
LEMMA UniteStaysInTree ==
  ASSUME IInv, TypeInv', NEW t \in Threads, UniteStep(t)
  PROVE  RemInTree(t)'
<1>R. TreeStep(t)
  BY UniteTreeStep
<1>P. PointsDown(parents) /\ PointsDown(parents') /\ load \in Workloads
  BY <1>R, StepPointsDown, LocalTypes, KnownOf
<1>g. /\ \A x, y \in Vertices : Ancestor[x] = Ancestor[y] => Ancestor'[x] = Ancestor'[y]
      /\ \A x \in Vertices : parents[x] # x => parents'[x] # x
  BY <1>P, <1>R, TreesOnlyGrow DEF Same
<1>r. \A x \in Vertices : Ancestor[parents[x]] = Ancestor[x]
  BY <1>P, ParentsHaveRoots DEF RootMap
<1>l. load' = load /\ unite_option' = unite_option /\ splice_option \in {"split_atomic_one", "halve_atomic_one"}
  BY UniteStepMoves DEF UniteMoves, IInv, Sound
<1>T. /\ pc \in [Threads -> AllLabels] /\ ret \in [Threads -> ReturnLabels] /\ \E ops : op \in [Threads -> ops]
      /\ u \in [Threads -> Vertices] /\ v \in [Threads -> Vertices]
      /\ i \in [Threads -> Vertices] /\ j \in [Threads -> Vertices] /\ w \in [Threads -> Vertices]
      /\ locks \in [Vertices -> BOOLEAN]
  BY LocalTypes DEF IInv
<1>d. /\ u[t] \in Vertices /\ v[t] \in Vertices /\ i[t] \in Vertices /\ j[t] \in Vertices /\ w[t] \in Vertices
      /\ \A x \in Vertices : x \in Int /\ parents[x] \in Vertices /\ parents[x] <= x
  BY KnownOf
<1>k. RemInTree(t)
  BY KnownOf
<1>o. /\ Uniting(t) => op[t][1] \in Vertices /\ op[t][2] \in Vertices
      /\ pc[t] \in LoopLabels => Uniting(t) /\ Pair(t)
      /\ pc[t] \in Compressing => Uniting(t) /\ Same(op[t][1], op[t][2])
  BY <1>k, KnownOf, LocalTypes DEF RemInTree, Toward
<1>p. ASSUME pc[t] \in LoopLabels, op'[t] = op[t], u'[t] \in Vertices, v'[t] \in Vertices,
             \/ Same(u'[t], u[t]) /\ Same(v'[t], v[t])
             \/ Same(u'[t], v[t]) /\ Same(v'[t], u[t])
      PROVE  Pair(t)'
  BY <1>p, <1>g, <1>d, <1>o DEF Pair, Same
<1>e. ASSUME Uniting(t), Same(op[t][1], op[t][2]), op'[t] = op[t] PROVE Same(op[t][1], op[t][2])'
  BY <1>e, <1>g, <1>o DEF Same
<1> USE <1>l, <1>T, <1>d
    DEF RemInTree, Toward, LoopLabels, Compressing, Held, LockLabels, FindLabels, ReturnLabels, AllLabels,
        rx, ry, ClearTemps, remVars
<1>1. CASE ReadPx(t)
  <2>1. pc[t] = "unite" /\ pc'[t] = "test" /\ j'[t] = parents[u[t]] /\ UNCHANGED <<op, u, v, parents>>
    BY <1>1 DEF ReadPx
  <2>2. Pair(t)' /\ Same(j[t], u[t])'
    BY <1>p, <1>g, <1>r, <2>1 DEF Same
  <2> QED
    BY <2>1, <2>2
<1>2. CASE TestPy(t)
  <2>0. pc[t] = "test"
    BY <1>2 DEF TestPy
  <2>1. CASE parents[v[t]] = j[t] /\ unite_option \notin Locking
    BY <1>2, <2>1 DEF TestPy, EndIteration
  <2>2. CASE parents[v[t]] = j[t] /\ unite_option \in Locking
    <3>1. pc'[t] = "compress_u" /\ op' = op
      BY <1>2, <2>2 DEF TestPy
    <3>2. Same(op[t][1], op[t][2])'
      BY <1>e, <1>o, <2>0, <2>2, <3>1, EqualParentsEndIt
    <3> QED
      BY <3>1, <3>2
  <2>3. CASE parents[v[t]] # j[t]
    <3>1. /\ pc'[t] = IF unite_option \in Locking THEN "lock_px" ELSE "p_ry"
          /\ UNCHANGED <<op, u, v>>
      BY <1>2, <2>3 DEF TestPy
    <3>2. Pair(t)'
      BY <1>p, <2>0, <3>1 DEF Same
    <3>3. unite_option \in Locking \/ unite_option = "unite_rem_cas"
      BY DEF IInv, Sound
    <3> QED
      BY <3>1, <3>2, <3>3
  <2> QED
    BY <2>1, <2>2, <2>3
<1>3. CASE ReadPry(t)
  <2>1. pc[t] = "p_ry" /\ pc'[t] = "p_rx" /\ w'[t] = parents[v[t]] /\ UNCHANGED <<op, u, v, parents>>
    BY <1>3 DEF ReadPry
  <2>2. Pair(t)' /\ Same(w[t], v[t])'
    BY <1>p, <1>g, <1>r, <2>1 DEF Same
  <2>3. unite_option = "unite_rem_cas"
    BY <1>k, <2>1
  <2> QED
    BY <2>1, <2>2, <2>3
<1>4. CASE ReadPrx(t)
  <2>0. pc[t] = "p_rx" /\ pc'[t] = "cas" /\ op' = op /\ unite_option = "unite_rem_cas"
    BY <1>4, <1>k DEF ReadPrx
  <2>k. w[t] <= v[t] /\ Same(w[t], v[t]) /\ parents[u[t]] <= u[t] /\ Same(parents[u[t]], u[t])
    BY <1>k, <1>r, <2>0 DEF Same
  <2>i. parents[u[t]] \in Int /\ w[t] \in Int /\ u[t] \in Int /\ v[t] \in Int
    BY <1>d
  <2>1. CASE parents[u[t]] < w[t]
    <3>0. u' = [u EXCEPT ![t] = v[t]] /\ v' = [v EXCEPT ![t] = u[t]] /\ w' = [w EXCEPT ![t] = parents[u[t]]]
      BY <1>4, <2>i, <2>0, <2>1 DEF ReadPrx, Swap, rx
    <3>1. u'[t] = v[t] /\ v'[t] = u[t] /\ w'[t] = parents[u[t]]
      BY <3>0
    <3>2. Pair(t)' /\ Same(w[t], v[t])'
      BY <1>p, <1>g, <2>0, <2>k, <3>1 DEF Same
    <3>3. w'[t] <= u'[t]
      BY <2>i, <2>1, <2>k, <3>1
    <3> QED
      BY <2>0, <3>2, <3>3
  <2>2. CASE ~(parents[u[t]] < w[t])
    <3>1. UNCHANGED <<u, v, w>>
      BY <1>4, <2>2 DEF ReadPrx
    <3>2. Pair(t)' /\ Same(w[t], v[t])'
      BY <1>p, <1>g, <2>0, <2>k, <3>1 DEF Same
    <3>3. w'[t] <= u'[t]
      BY <2>2, <2>k, <3>1
    <3> QED
      BY <2>0, <3>2, <3>3
  <2> QED
    BY <2>1, <2>2
<1>5. CASE LinkCas(t)
  <2>0. pc[t] = "cas" /\ UNCHANGED <<op, u, v>> /\ Pair(t) /\ Uniting(t)
    BY <1>5, <1>o DEF LinkCas
  <2>1. CASE parents[u[t]] = u[t]
    <3>1. pc'[t] = "compress_u" /\ parents' = [parents EXCEPT ![u[t]] = w[t]]
      BY <1>5, <2>1 DEF LinkCas
    <3>2. Same(op[t][1], op[t][2])'
      <4>1. CASE w[t] = u[t]
        <5>1. Same(w[t], v[t])
          BY <1>k, <2>0
        <5>2. Same(op[t][1], op[t][2])
          BY <2>0, <4>1, <5>1 DEF Pair, Same
        <5> QED
          BY <1>e, <2>0, <5>2
      <4>2. CASE w[t] # u[t]
        <5>1. JoinsTrees(t)
          BY <2>0, <2>1, <3>1, <4>2, LinksJoin DEF JoinsTrees
        <5>2. Ancestor'[op[t][1]] = Ancestor'[op[t][2]]
          BY <1>P, <5>1, JoinJoinsArguments
        <5> QED
          BY <2>0, <5>2 DEF Same
      <4> QED
        BY <4>1, <4>2
    <3> QED
      BY <3>1, <3>2
  <2>2. CASE parents[u[t]] # u[t]
    <3>1. pc'[t] = "splice" /\ parents' = parents
      BY <1>5, <2>2 DEF LinkCas
    <3>2. Pair(t)'
      BY <1>p, <2>0 DEF Same
    <3> QED
      BY <2>0, <2>2, <3>1, <3>2
  <2> QED
    BY <2>1, <2>2
<1>6. CASE LockReadPx(t)
  <2>1. pc[t] = "lock_px" /\ pc'[t] = "lock_py" /\ UNCHANGED <<op, u, v>>
    BY <1>6 DEF LockReadPx
  <2>2. Pair(t)' /\ unite_option \in Locking
    BY <1>p, <1>k, <2>1 DEF Same
  <2> QED
    BY <2>1, <2>2
<1>7. CASE LockOrder(t)
  <2>1. pc[t] = "lock_py" /\ pc'[t] = "lock_root" /\ op' = op
    BY <1>7 DEF LockOrder
  <2>2. \/ u'[t] = u[t] /\ v'[t] = v[t]
        \/ u'[t] = v[t] /\ v'[t] = u[t]
    BY <1>7 DEF LockOrder, Swap
  <2>3. Pair(t)' /\ unite_option \in Locking
    BY <1>p, <1>k, <2>1, <2>2 DEF Same
  <2> QED
    BY <2>1, <2>3
<1>8. CASE LockRoot(t)
  <2>1. /\ pc[t] = "lock_root" /\ UNCHANGED <<op, u, v, parents>>
        /\ pc'[t] = IF parents[u[t]] = u[t] THEN "acquire" ELSE "splice"
    BY <1>8 DEF LockRoot
  <2>2. Pair(t)' /\ unite_option \in Locking
    BY <1>p, <1>k, <2>1 DEF Same
  <2> QED
    BY <2>1, <2>2
<1>9. CASE Acquire(t)
  <2>1. /\ pc[t] = "acquire" /\ UNCHANGED <<op, u, v, parents>>
        /\ \/ pc'[t] = "py" /\ locks'[u[t]]
           \/ pc'[t] = "unite"
    BY <1>9 DEF Acquire
  <2>2. Pair(t)' /\ unite_option \in Locking
    BY <1>p, <1>k, <2>1 DEF Same
  <2> QED
    BY <2>1, <2>2
<1>10. CASE LockReadPy(t)
  <2>1. pc[t] = "py" /\ pc'[t] = "lock_test" /\ w'[t] = parents[v[t]] /\ UNCHANGED <<op, u, v, parents, locks>>
    BY <1>10 DEF LockReadPy
  <2>2. Pair(t)' /\ Same(w[t], v[t])'
    BY <1>p, <1>g, <1>r, <2>1 DEF Same
  <2>3. unite_option \in Locking /\ locks[u[t]]
    BY <1>k, <2>1
  <2> QED
    BY <2>1, <2>2, <2>3
<1>11. CASE LockTest(t)
  <2>1. /\ pc[t] = "lock_test" /\ UNCHANGED <<op, u, v, w, parents, locks>>
        /\ \/ pc'[t] = "lock_link" /\ parents[u[t]] = u[t] /\ w[t] < u[t]
           \/ pc'[t] = "release"
    BY <1>11 DEF LockTest
  <2>2. Pair(t)' /\ Same(w[t], v[t])'
    BY <1>p, <1>g, <1>k, <2>1 DEF Same
  <2>3. unite_option \in Locking /\ locks[u[t]]
    BY <1>k, <2>1
  <2> QED
    BY <2>1, <2>2, <2>3
<1>12. CASE LockLink(t)
  <2>1. pc[t] = "lock_link" /\ pc'[t] = "release" /\ UNCHANGED <<op, u, v, locks>>
    BY <1>12 DEF LockLink
  <2>2. Pair(t)'
    BY <1>p, <2>1 DEF Same
  <2>3. unite_option \in Locking /\ locks[u[t]]
    BY <1>k, <2>1
  <2> QED
    BY <2>1, <2>2, <2>3
<1>13. CASE Release(t)
  <2>1. pc[t] = "release" /\ pc'[t] = "unite" /\ UNCHANGED <<op, u, v>>
    BY <1>13 DEF Release
  <2>2. Pair(t)'
    BY <1>p, <2>1 DEF Same
  <2> QED
    BY <2>1, <2>2
<1>14. CASE SpliceRead(t)
  <2>1. pc[t] = "splice" /\ pc'[t] = "splice_w" /\ j'[t] = parents[u[t]] /\ UNCHANGED <<op, u, v, parents>>
    BY <1>14 DEF SpliceRead
  <2>2. Pair(t)' /\ Same(j[t], u[t])'
    BY <1>p, <1>g, <1>r, <2>1 DEF Same
  <2>i. parents[u[t]] \in Int /\ u[t] \in Int /\ parents[u[t]] <= u[t]
    BY <1>d
  <2>3. parents[u[t]] # u[t] /\ j'[t] < u[t]
    <3>1. parents[u[t]] # u[t]
      BY <1>k, <2>1
    <3> QED
      BY <2>i, <2>1, <3>1
  <2> QED
    BY <2>1, <2>2, <2>3
<1>15. CASE SpliceReadW(t)
  <2>0. pc[t] = "splice_w" /\ UNCHANGED <<op, v, parents>> /\ Same(j[t], u[t]) /\ j[t] < u[t] /\ parents[u[t]] # u[t]
    BY <1>15, <1>k DEF SpliceReadW
  <2>1. CASE parents[j[t]] = j[t]
    <3>1. pc'[t] = "unite" /\ u'[t] = j[t]
      BY <1>15, <2>1 DEF SpliceReadW
    <3>2. Pair(t)'
      BY <1>p, <2>0, <3>1 DEF Same
    <3> QED
      BY <3>1, <3>2
  <2>2. CASE parents[j[t]] # j[t]
    <3>1. pc'[t] = "splice_cas" /\ w'[t] = parents[j[t]] /\ UNCHANGED <<u, j>>
      BY <1>15, <2>2 DEF SpliceReadW
    <3>2. Pair(t)' /\ Same(j[t], u[t])' /\ Same(w[t], u[t])'
      BY <1>p, <1>g, <1>r, <2>0, <3>1 DEF Same
    <3>3. w'[t] < j[t]
      <4>1. parents[j[t]] \in Int /\ j[t] \in Int /\ parents[j[t]] <= j[t]
        BY <1>d
      <4> QED
        BY <2>2, <3>1, <4>1
    <3> QED
      BY <2>0, <3>1, <3>2, <3>3
  <2> QED
    BY <2>1, <2>2
<1>16. CASE SpliceCas(t)
  <2>1. pc[t] = "splice_cas" /\ pc'[t] = "unite" /\ u'[t] \in {j[t], w[t]} /\ v'[t] = v[t] /\ op' = op
    BY <1>16 DEF SpliceCas
  <2>2. Same(j[t], u[t]) /\ Same(w[t], u[t])
    BY <1>k, <2>1
  <2>3. Pair(t)'
    BY <1>p, <2>1, <2>2 DEF Same
  <2> QED
    BY <2>1, <2>3
<1>17. CASE CompressU(t)
  <2>0. pc[t] = "compress_u"
    BY <1>17 DEF CompressU
  <2>1. CASE find_option # "find_naive" \/ unite_option = "unite_rem_lock_sf"
    <3>1. pc'[t] = "find" /\ ret'[t] = "compress_v" /\ op' = op
      BY <1>17, <2>1 DEF CompressU, CallFind
    <3>2. Same(op[t][1], op[t][2])'
      BY <1>e, <1>o, <2>0, <3>1
    <3> QED
      BY <3>1, <3>2
  <2>2. CASE ~(find_option # "find_naive" \/ unite_option = "unite_rem_lock_sf")
    <3>1. pc'[t] = "idle"
      BY <1>17, <2>2 DEF CompressU, EndIteration
    <3> QED
      BY <3>1
  <2> QED
    BY <2>1, <2>2
<1>18. CASE CompressV(t)
  <2>1. pc[t] = "compress_v" /\ pc'[t] = "find" /\ ret'[t] = "compressed" /\ op' = op
    BY <1>18 DEF CompressV, CallFind
  <2>2. Same(op[t][1], op[t][2])'
    BY <1>e, <1>o, <2>1
  <2> QED
    BY <2>1, <2>2
<1>19. CASE Compressed(t)
  BY <1>19 DEF Compressed, EndIteration
<1> QED
  BY <1>1, <1>2, <1>3, <1>4, <1>5, <1>6, <1>7, <1>8, <1>9, <1>10, <1>11, <1>12, <1>13, <1>14, <1>15, <1>16, <1>17,
     <1>18, <1>19 DEF UniteStep

\* Unite returns once the arguments are in one tree.
LEMMA UniteMerges ==
  ASSUME IInv, NEW t \in Threads, UniteStep(t) PROVE Merges(t)
<1>P. PointsDown(parents) /\ PointsDown(parents') /\ load \in Workloads
  BY UniteTreeStep, StepPointsDown, LocalTypes, KnownOf
<1>g. \A x, y \in Vertices : Same(x, y) => Ancestor'[x] = Ancestor'[y]
  BY <1>P, UniteTreeStep, TreesOnlyGrow
<1>o. Uniting(t) => op[t][1] \in Vertices /\ op[t][2] \in Vertices
  BY LocalTypes DEF IInv
<1>1. op'[t] # op[t] => Same(op[t][1], op[t][2])
  <2> SUFFICES ASSUME op'[t] # op[t] PROVE Same(op[t][1], op[t][2])
    OBVIOUS
  <2>1. TestPy(t) \/ CompressU(t) \/ Compressed(t)
    BY DEF UniteStep, ReadPx, ReadPry, ReadPrx, LinkCas, LockReadPx, LockOrder, LockRoot, Acquire, LockReadPy,
           LockTest, LockLink, Release, SpliceRead, SpliceReadW, SpliceCas, CompressV
  <2>2. CASE TestPy(t)
    <3>1. pc[t] = "test" /\ parents[v[t]] = j[t]
      BY <2>2 DEF TestPy, ry
    <3> QED
      BY <3>1, EqualParentsEndIt
  <2>3. CASE CompressU(t) \/ Compressed(t)
    <3>1. Toward(t, Compressing)
      BY <2>3 DEF CompressU, Compressed, Toward, Compressing
    <3> QED
      BY <3>1, KnownOf DEF RemInTree
  <2> QED
    BY <2>1, <2>2, <2>3
<1> QED
  BY <1>g, <1>o, <1>1 DEF Merges

\* A lock that a thread holds after its step it held before, or found free; and
\* it sets no other lock free.
LEMMA LocksOf ==
  ASSUME IInv, NEW t \in Threads, UniteStep(t)
  PROVE  /\ pc'[t] \in Held => u'[t] = u[t] /\ (pc[t] \in Held \/ ~locks[u[t]])
         /\ \A x \in Vertices : locks[x] => locks'[x] \/ (pc[t] \in Held /\ x = u[t])
<1>T. /\ pc \in [Threads -> AllLabels] /\ u \in [Threads -> Vertices] /\ locks \in [Vertices -> BOOLEAN]
      /\ ret \in [Threads -> ReturnLabels]
  BY LocalTypes DEF IInv
<1> USE DEF Held, rx, ry, ClearTemps, remVars, ufVars
<1>1. pc'[t] \in Held => u'[t] = u[t] /\ (pc[t] \in Held \/ ~locks[u[t]])
  <2> USE <1>T DEF CallFind, EndIteration
  <2>1. CASE ReadPx(t) \/ TestPy(t) \/ ReadPry(t) \/ ReadPrx(t) \/ LinkCas(t)
    BY <2>1 DEF ReadPx, TestPy, ReadPry, ReadPrx, LinkCas
  <2>2. CASE LockReadPx(t) \/ LockOrder(t) \/ LockRoot(t) \/ Acquire(t)
    BY <2>2 DEF LockReadPx, LockOrder, LockRoot, Acquire
  <2>3. CASE LockReadPy(t) \/ LockTest(t) \/ LockLink(t) \/ Release(t)
    BY <2>3 DEF LockReadPy, LockTest, LockLink, Release
  <2>4. CASE SpliceRead(t) \/ SpliceReadW(t) \/ SpliceCas(t)
    BY <2>4 DEF SpliceRead, SpliceReadW, SpliceCas
  <2>5. CASE CompressU(t) \/ CompressV(t) \/ Compressed(t)
    BY <2>5 DEF CompressU, CompressV, Compressed
  <2> QED
    BY <2>1, <2>2, <2>3, <2>4, <2>5 DEF UniteStep
<1>2. ASSUME NEW x \in Vertices, locks[x] PROVE locks'[x] \/ (pc[t] \in Held /\ x = u[t])
  <2>1. CASE Acquire(t)
    BY <1>2, <1>T, <2>1 DEF Acquire
  <2>2. CASE Release(t)
    BY <1>2, <1>T, <2>2 DEF Release
  <2>3. CASE ~Acquire(t) /\ ~Release(t)
    <3>1. locks' = locks
      BY <2>3 DEF UniteStep, ReadPx, TestPy, ReadPry, ReadPrx, LinkCas, LockReadPx, LockOrder, LockRoot, LockReadPy,
                  LockTest, LockLink, SpliceRead, SpliceReadW, SpliceCas, CompressU, CompressV, Compressed
    <3> QED
      BY <1>2, <3>1
  <2> QED
    BY <2>1, <2>2, <2>3
<1> QED
  BY <1>1, <1>2

-----------------------------------------------------------------------------
(* The other steps.                                                        *)

\* A new call has its arguments in u and v, and a find on the way back from
\* unite's loop leaves the arguments together.
LEMMA FindLoopStaysInTree ==
  ASSUME IInv, PointsDown(parents'), NEW t \in Threads, Find(t) \/ Loop(t), TreeStep(t), TypeInv'
  PROVE  RemInTree(t)' /\ pc'[t] \notin Held
<1>P. PointsDown(parents) /\ UFInv /\ load \in Workloads
  BY KnownOf, LocalTypes
<1>g. \A x, y \in Vertices : Same(x, y) => Ancestor'[x] = Ancestor'[y]
  BY <1>P, TreesOnlyGrow
<1>T. /\ pc \in [Threads -> AllLabels] /\ ret \in [Threads -> ReturnLabels]
      /\ \E ops : op \in [Threads -> ops]
      /\ u \in [Threads -> Vertices] /\ v \in [Threads -> Vertices]
  BY LocalTypes DEF IInv
<1>1. CASE Find(t)
  <2>1. /\ op'[t] = op[t] /\ ret'[t] = ret[t] /\ pc[t] \in FindLabels
        /\ pc'[t] \in FindLabels \/ pc'[t] = ret[t]
    BY <1>1, <1>P, FindReturnsRoot
  <2>2. ret[t] \in ReturnLabels
    BY <1>T
  <2>3. Toward(t, Compressing)' => Toward(t, Compressing)
    BY <2>1 DEF Toward, Compressing, FindLabels
  <2>4. Toward(t, Compressing) => Same(op[t][1], op[t][2]) /\ op[t][1] \in Vertices /\ op[t][2] \in Vertices
    <3>1. Toward(t, Compressing) => Uniting(t)
      BY DEF Toward, Compressing, Uniting, FindLabels, Elsewhere
    <3> QED
      BY <3>1, LocalTypes, KnownOf DEF RemInTree
  <2>5. Toward(t, Compressing)' => Same(op[t][1], op[t][2])'
    BY <1>g, <2>1, <2>3, <2>4 DEF Same
  <2>6. pc'[t] \in FindLabels \cup ReturnLabels
    BY <2>1, <2>2
  <2> QED
    BY <2>5, <2>6 DEF RemInTree, FindLabels, ReturnLabels, LoopLabels, LockLabels, Held
<1>2. CASE TakeEdge(t)
  <2>1. PICK o \in todo :
          op' = [op EXCEPT ![t] = o] /\ u' = [u EXCEPT ![t] = o[1]] /\ v' = [v EXCEPT ![t] = o[2]]
    BY <1>2 DEF TakeEdge
  <2>2. pc'[t] = "unite"
    BY <1>2, <1>T DEF TakeEdge
  <2>3. op'[t] = o /\ u'[t] = o[1] /\ v'[t] = o[2]
    BY <1>T, <2>1
  <2>4. Pair(t)'
    BY <2>3 DEF Pair, Same
  <2> QED
    BY <2>2, <2>4 DEF RemInTree, Toward, Compressing, FindLabels, LockLabels, Held
<1>3. CASE Loop(t) /\ ~TakeEdge(t)
  <2>1. /\ pc'[t] \in FindLabels \cup Elsewhere \cup {"idle"}
        /\ pc'[t] \in FindLabels => ret'[t] \in Elsewhere
    BY <1>3, <1>T DEF Loop, TakeQuery, QueryV, EndQuery, TakeVertex, Relabel, CallFind, EndIteration, FindLabels, Elsewhere
  <2> QED
    BY <2>1 DEF RemInTree, Toward, Compressing, FindLabels, Elsewhere, LoopLabels, LockLabels, Held
<1> QED
  BY <1>1, <1>2, <1>3

\* What the other threads know stays true: a step never separates vertices,
\* frees no lock that another holds, and links no root that another has locked.
LEMMA OthersKnow ==
  ASSUME IInv, NEW t \in Threads, Move(t), TreeStep(t), UNCHANGED <<load, unite_option>>,
         NEW s \in Threads, s # t,
         pc[s] \in Held => locks'[u[s]],
         pc[s] = "lock_link" => parents'[u[s]] = u[s]
  PROVE  RemInTree(s)'
<1>P. PointsDown(parents) /\ PointsDown(parents') /\ load \in Workloads /\ UFTyped
  BY KnownOf, LocalTypes, StepPointsDown DEF UFInv
<1>g. /\ \A x, y \in Vertices : Same(x, y) => Ancestor'[x] = Ancestor'[y]
      /\ \A x \in Vertices : parents[x] # x => parents'[x] # x
  BY <1>P, TreesOnlyGrow
<1>s. /\ pc'[s] = pc[s] /\ ret'[s] = ret[s] /\ op'[s] = op[s] /\ u'[s] = u[s] /\ v'[s] = v[s]
      /\ j'[s] = j[s] /\ w'[s] = w[s]
  BY <1>P, OthersKeepLocals DEF SameLocals
<1>t. u[s] \in Vertices /\ v[s] \in Vertices /\ j[s] \in Vertices /\ w[s] \in Vertices
  BY KnownOf
<1>I. RemInTree(s)
  BY KnownOf
<1>o. pc[s] \in LoopLabels \/ Toward(s, Compressing) => op[s][1] \in Vertices /\ op[s][2] \in Vertices
  <2>1. pc[s] \in LoopLabels \/ Toward(s, Compressing) => Uniting(s)
    BY DEF Toward, LoopLabels, Compressing, Uniting, FindLabels, Elsewhere
  <2> QED
    BY <2>1, LocalTypes, KnownOf
<1>1. (pc[s] \in LoopLabels => Pair(s))'
  <2>1. pc[s] \in LoopLabels => Pair(s) /\ op[s][1] \in Vertices /\ op[s][2] \in Vertices
    BY <1>I, <1>o DEF RemInTree
  <2> QED
    BY <1>g, <1>s, <1>t, <2>1 DEF Pair, Same, LoopLabels
<1>2. (Toward(s, Compressing) => Same(op[s][1], op[s][2]))'
  <2>1. Toward(s, Compressing) => Same(op[s][1], op[s][2])
    BY <1>I DEF RemInTree
  <2>2. Toward(s, Compressing)' => Toward(s, Compressing)
    BY <1>s DEF Toward, Compressing
  <2>3. Toward(s, Compressing)' => Same(op[s][1], op[s][2]) /\ op[s][1] \in Vertices /\ op[s][2] \in Vertices
    BY <1>o, <2>1, <2>2
  <2> QED
    BY <1>g, <1>s, <2>3 DEF Same
<1>3. /\ (pc[s] = "test" => Same(j[s], u[s]))'
      /\ (pc[s] \in {"p_rx", "cas", "lock_test", "lock_link"} => Same(w[s], v[s]))'
      /\ (pc[s] \in {"splice_w", "splice_cas"} => Same(j[s], u[s]) /\ j[s] < u[s])'
      /\ (pc[s] = "splice_cas" => Same(w[s], u[s]) /\ w[s] < j[s])'
  <2>1. /\ pc[s] = "test" => Same(j[s], u[s])
        /\ pc[s] \in {"p_rx", "cas", "lock_test", "lock_link"} => Same(w[s], v[s])
        /\ pc[s] \in {"splice_w", "splice_cas"} => Same(j[s], u[s]) /\ j[s] < u[s]
        /\ pc[s] = "splice_cas" => Same(w[s], u[s]) /\ w[s] < j[s]
    BY <1>I DEF RemInTree
  <2> QED
    BY <1>g, <1>s, <1>t, <2>1 DEF Same
<1>4. /\ (pc[s] \in {"p_ry", "p_rx", "cas"} => unite_option = "unite_rem_cas")'
      /\ (pc[s] = "p_rx" => w[s] <= v[s])'
      /\ (pc[s] = "cas" => w[s] <= u[s])'
      /\ (pc[s] \in LockLabels => unite_option \in Locking)'
      /\ (pc[s] \in Held => locks[u[s]])'
      /\ (pc[s] = "lock_link" => w[s] < u[s] /\ parents[u[s]] = u[s])'
      /\ (pc[s] \in {"splice", "splice_w", "splice_cas"} => parents[u[s]] # u[s])'
  BY <1>I, <1>g, <1>s, <1>t DEF RemInTree, LockLabels, Held, Locking
<1> QED
  BY <1>1, <1>2, <1>3, <1>4, Zenon DEF RemInTree

\* A lock stays one thread's: who takes it found it free.
LEMMA LocksStayExclusive ==
  ASSUME IInv, NEW t \in Threads, Move(t),
         pc'[t] \in Held => u'[t] = u[t] /\ (pc[t] \in Held \/ ~locks[u[t]])
  PROVE  LocksExclude'
<1>1. \A s \in Threads : s # t => pc'[s] = pc[s] /\ u'[s] = u[s]
  BY KnownOf, OthersKeepLocals DEF UFInv, SameLocals
<1>2. \A s \in Threads : pc[s] \in Held => locks[u[s]]
  BY DEF IInv, RemInTree
<1>3. ASSUME NEW s \in Threads, s # t, pc'[s] \in Held, pc'[t] \in Held PROVE u'[s] # u'[t]
  BY <1>1, <1>2, <1>3 DEF IInv, LocksExclude
<1>4. ASSUME NEW a \in Threads, NEW b \in Threads, a # b, pc'[a] \in Held, pc'[b] \in Held
      PROVE  u'[a] # u'[b]
  <2>1. CASE a # t /\ b # t
    BY <1>1, <1>4, <2>1 DEF IInv, LocksExclude
  <2> QED
    BY <1>3, <1>4, <2>1
<1> QED
  BY <1>4 DEF LocksExclude, Held

\* Every step of unite keeps the invariant.
LEMMA UniteKeeps ==
  ASSUME IInv, NEW t \in Threads, UniteStep(t)
  PROVE  IInv' /\ Move(t) /\ TreeStep(t) /\ Merges(t)
<1>1. TypeInv' /\ UniteMoves(t)
  BY UniteTyped, UniteStepMoves DEF IInv
<1>2. TreeStep(t) /\ (unite_option \in Recording => Records(t)) /\ Merges(t)
  BY UniteTreeStep, UniteMerges
<1>3. UFTyped'
  <2> DEFINE labels == AllLabels
             returns == ReturnLabels
  <2>1. Typed(labels, returns)' /\ LabelSets(labels, returns) /\ labels' = labels /\ returns' = returns
    BY <1>1, LabelsFit DEF TypeInv, AllLabels, LoopLabels, ReturnLabels, FindLabels
  <2> HIDE DEF labels, returns
  <2> QED
    BY <2>1 DEF UFTyped, LabelSets, Elsewhere, FindLabels
<1>4. UFInv'
  BY <1>1, <1>2, <1>3, UniteKeepsUF DEF IInv
<1>5. Move(t) /\ UNCHANGED <<load, unite_option>> /\ splice_option' = splice_option
  <2>1. splice_option' = splice_option
    BY DEF UniteStep, ReadPx, TestPy, ReadPry, ReadPrx, LinkCas, LockReadPx, LockOrder, LockRoot, Acquire, LockReadPy,
           LockTest, LockLink, Release, SpliceRead, SpliceReadW, SpliceCas, CompressU, CompressV, Compressed, remVars
  <2> QED
    BY <1>1, <2>1 DEF Move, UniteMoves
<1>6. unite_option' \in Recording => EdgesInv'
  BY <1>2, <1>5, EdgesStep DEF IInv
<1>7. LocksExclude'
  BY <1>5, LocksOf, LocksStayExclusive
<1>8. ASSUME NEW s \in Threads PROVE RemInTree(s)'
  <2>1. CASE s = t
    BY <1>1, <2>1, UniteStaysInTree
  <2>2. CASE s # t
    <3>1. pc[s] \in Held => locks'[u[s]]
      <4> SUFFICES ASSUME pc[s] \in Held PROVE locks'[u[s]]
        OBVIOUS
      <4>1. locks[u[s]] /\ u[s] \in Vertices
        BY KnownOf DEF RemInTree
      <4>2. ~(pc[t] \in Held /\ u[s] = u[t])
        BY <2>2 DEF IInv, LocksExclude
      <4> QED
        BY <4>1, <4>2, LocksOf
    <3>2. pc[s] = "lock_link" => parents'[u[s]] = u[s]
      BY <2>2, LockedRootsStay
    <3> QED
      BY <1>2, <1>5, <2>2, <3>1, <3>2, OthersKnow
  <2> QED
    BY <2>1, <2>2
<1> QED
  BY <1>1, <1>2, <1>4, <1>5, <1>6, <1>7, <1>8 DEF IInv, Sound, Recording, Locking

\* So does every step of the finds and the loops.
LEMMA CommonKeeps ==
  ASSUME IInv, NEW t \in Threads, Common(t)
  PROVE  IInv' /\ Move(t) /\ TreeStep(t) /\ Merges(t)
<1>0. (Find(t) \/ Loop(t)) /\ locks' = locks /\ splice_option' = splice_option
  BY DEF Common, remVars
<1>1. /\ UFInv' /\ TreeStep(t) /\ Merges(t) /\ Move(t) /\ Edges' = Edges
      /\ parents' = parents \/ Compresses
  BY <1>0, LabelsFit, FindLoopKeepsUF DEF IInv, TypeInv
<1>2. TypeInv'
  <2>1. Typed(AllLabels, ReturnLabels)'
    <3> DEFINE labels == AllLabels
               returns == ReturnLabels
    <3>1. Typed(labels, returns) /\ LabelSets(labels, returns) /\ labels' = labels /\ returns' = returns
      BY LabelsFit DEF IInv, TypeInv, AllLabels, LoopLabels, ReturnLabels, FindLabels
    <3> HIDE DEF labels, returns
    <3> QED
      BY <1>0, <3>1, FindLoopTyped DEF labels, returns
  <2> QED
    BY <1>0, <2>1 DEF IInv, TypeInv
<1>3. UNCHANGED <<load, unite_option>>
  BY <1>1, StepControl DEF IInv, UFInv
<1>4. unite_option' \in Recording => EdgesInv'
  <2>1. Records(t)
    BY <1>1 DEF Records
  <2> QED
    BY <1>3, <2>1, EdgesStep DEF IInv
<1>5. PointsDown(parents')
  BY <1>1, StepPointsDown DEF IInv, UFInv
<1>6. RemInTree(t)' /\ pc'[t] \notin Held
  BY <1>0, <1>1, <1>2, <1>5, FindLoopStaysInTree
<1>7. LocksExclude'
  BY <1>1, <1>6, LocksStayExclusive
<1>8. ASSUME NEW s \in Threads, s # t PROVE RemInTree(s)'
  <2>1. pc[s] \in Held => locks'[u[s]]
    BY <1>0, KnownOf DEF RemInTree
  <2>2. pc[s] = "lock_link" => parents'[u[s]] = u[s]
    <3>1. pc[s] = "lock_link" => parents[u[s]] = u[s] /\ u[s] \in Vertices /\ parents \in [Vertices -> Vertices]
      BY KnownOf, LocalTypes DEF RemInTree
    <3>2. CASE parents' = parents
      BY <3>1, <3>2
    <3>3. CASE Compresses
      BY <3>1, <3>3 DEF Compresses
    <3> QED
      BY <1>1, <3>2, <3>3
  <2> QED
    BY <1>1, <1>3, <1>8, <2>1, <2>2, OthersKnow
<1> QED
  BY <1>0, <1>1, <1>2, <1>3, <1>4, <1>6, <1>7, <1>8 DEF IInv, Sound, Recording, Locking

\* And the barriers, at which nothing changes but the phase.
LEMMA BarrierKeepsAll == ASSUME IInv, Barrier \/ UNCHANGED vars PROVE IInv'
<1>0. BarrierOrStutter /\ locks' = locks /\ splice_option' = splice_option
  BY DEF Barrier, BarrierOrStutter, vars, remVars
<1>1. UNCHANGED <<parents, Edges, find_option, unite_option, load, todo, asked, relabel, pc, op, u, v, i, j, w, ret>>
  BY <1>0, BarrierKeeps
<1>2. UFInv' /\ Ancestor' = Ancestor
  BY <1>0, UFBarrier DEF IInv
<1>3. TypeInv'
  <2>1. Typed(AllLabels, ReturnLabels)'
    <3> DEFINE labels == AllLabels
               returns == ReturnLabels
    <3>1. Typed(labels, returns) /\ labels' = labels /\ returns' = returns
      BY DEF IInv, TypeInv, AllLabels, LoopLabels, ReturnLabels, FindLabels
    <3> HIDE DEF labels, returns
    <3> QED
      BY <1>0, <3>1, BarrierTyped DEF labels, returns
  <2> QED
    BY <1>0, <2>1 DEF IInv, TypeInv
<1>4. unite_option' \in Recording => EdgesInv'
  <2>1. Forest' = Forest /\ Start' = Start
    BY <1>1 DEF Forest, Start
  <2> QED
    BY <1>1, <2>1 DEF IInv, EdgesInv, HoldsTrees
<1>5. LocksExclude'
  BY <1>1 DEF IInv, LocksExclude, Held
<1>6. \A t \in Threads : RemInTree(t)'
  <2> SUFFICES ASSUME NEW t \in Threads PROVE RemInTree(t)'
    OBVIOUS
  <2>1. RemInTree(t)
    BY DEF IInv
  <2>3. \A x, y : Same(x, y)' <=> Same(x, y)
    BY <1>2 DEF Same
  <2> QED
    BY <1>0, <1>1, <1>2, <2>1 DEF RemInTree, Toward, Same, Pair, Compressing, Held, LockLabels, Locking, LoopLabels
<1> QED
  BY <1>0, <1>1, <1>2, <1>3, <1>4, <1>5, <1>6 DEF IInv, Sound, Recording, Locking

\* The invariant holds at the start of a combination of Sound, and is kept.
LEMMA Inductive == (Init /\ Sound => IInv) /\ (IInv /\ [Next]_vars => IInv')
<1>1. ASSUME Init, Sound PROVE IInv
  <2>0. UFInit /\ locks = [x \in Vertices |-> FALSE] /\ splice_option \in Splices
    BY <1>1 DEF Init
  <2>1. UFInv /\ EdgesInv
    BY <2>0, LabelsFit, UFStart, EdgesStart
  <2>2. TypeInv
    <3>1. Typed(AllLabels, ReturnLabels)
      BY <2>0, LabelsFit, InitTyped
    <3> QED
      BY <2>0, <3>1 DEF TypeInv
  <2>3. \A t \in Threads : pc[t] = "idle"
    BY <2>0 DEF UFInit
  <2>4. LocksExclude /\ \A t \in Threads : RemInTree(t)
    BY <2>3 DEF LocksExclude, Held, RemInTree, Toward, Compressing, FindLabels, LoopLabels, LockLabels
  <2> QED
    BY <1>1, <2>1, <2>2, <2>4 DEF IInv
<1>2. ASSUME IInv, [Next]_vars PROVE IInv'
  BY <1>2, UniteKeeps, CommonKeeps, BarrierKeepsAll DEF Next
<1> QED
  BY <1>1, <1>2

\* The types are kept by every combination.
LEMMA TypesKept == (Init => TypeInv) /\ (TypeInv /\ [Next]_vars => TypeInv')
<1>1. ASSUME Init PROVE TypeInv
  <2>0. UFInit /\ locks = [x \in Vertices |-> FALSE] /\ splice_option \in Splices
    BY <1>1 DEF Init
  <2>1. Typed(AllLabels, ReturnLabels)
    BY <2>0, LabelsFit, InitTyped
  <2> QED
    BY <2>0, <2>1 DEF TypeInv
<1>2. ASSUME TypeInv, NEW t \in Threads, Common(t) PROVE TypeInv'
  <2>0. (Find(t) \/ Loop(t)) /\ locks' = locks /\ splice_option' = splice_option
    BY <1>2 DEF Common, remVars
  <2>1. Typed(AllLabels, ReturnLabels)'
    <3> DEFINE labels == AllLabels
               returns == ReturnLabels
    <3>1. Typed(labels, returns) /\ LabelSets(labels, returns) /\ labels' = labels /\ returns' = returns
      BY <1>2, LabelsFit DEF TypeInv, AllLabels, LoopLabels, ReturnLabels, FindLabels
    <3> HIDE DEF labels, returns
    <3> QED
      BY <2>0, <3>1, FindLoopTyped DEF labels, returns
  <2> QED
    BY <1>2, <2>0, <2>1 DEF TypeInv
<1>3. ASSUME TypeInv, Barrier \/ UNCHANGED vars PROVE TypeInv'
  <2>0. BarrierOrStutter /\ locks' = locks /\ splice_option' = splice_option
    BY <1>3 DEF Barrier, BarrierOrStutter, vars, remVars
  <2>1. Typed(AllLabels, ReturnLabels)'
    <3> DEFINE labels == AllLabels
               returns == ReturnLabels
    <3>1. Typed(labels, returns) /\ labels' = labels /\ returns' = returns
      BY <1>3 DEF TypeInv, AllLabels, LoopLabels, ReturnLabels, FindLabels
    <3> HIDE DEF labels, returns
    <3> QED
      BY <2>0, <3>1, BarrierTyped DEF labels, returns
  <2> QED
    BY <1>3, <2>0, <2>1 DEF TypeInv
<1> QED
  BY <1>1, <1>2, <1>3, UniteTyped DEF Next

-----------------------------------------------------------------------------
(* The theorems.                                                           *)

\* Every variable has its type, whatever unite, find and splice are composed:
\* no vertex is UINT_E_MAX where it indexes.
THEOREM TypeCorrect == Spec => []TypeOK
<1>1. TypeInv => TypeOK
  BY DEF TypeInv, Typed, TypeOK, AllLabels
<1> QED
  BY <1>1, TypesKept, PTL DEF Spec

\* The parents stay a forest in which every lock protects its root, and when the
\* loops are done the labels are the components of the graph and the recorded
\* calls a spanning forest of it, for the combinations of Sound.
THEOREM RemTreesRight == Sound /\ Spec => []TreesRight
<1>1. ASSUME IInv PROVE TreesRight
  <2>1. TypeOK
    BY <1>1 DEF IInv, TypeInv, Typed, TypeOK, AllLabels
  <2>2. ParentOrder
    BY <1>1 DEF IInv, UFInv, PointsDown, ParentOrder
  <2>3. LockedRootStays
    BY <1>1 DEF IInv, RemInTree, LockedRootStays, rx
  <2>4. LabelsAreComponents /\ RecordedForestSpans
    BY <1>1, LabelsFound, ForestFound DEF IInv, RecordedForestSpans
  <2> QED
    BY <2>1, <2>2, <2>3, <2>4 DEF TreesRight
<1> QED
  BY <1>1, Inductive, PTL DEF Spec

\* Rem's unite is linearizable, for the combinations of Sound: every step is one
\* of the abstract disjoint sets, or changes none of them.
THEOREM RemLinearizable == Sound /\ Spec => Linearizable
<1>1. ASSUME IInv, [Next]_vars PROVE [Sets!DSNext]_(Sets!dsVars)
  <2>1. ASSUME NEW t \in Threads, UniteStep(t) \/ Common(t) PROVE [Sets!DSNext]_(Sets!dsVars)
    <3>1. IInv' /\ Move(t) /\ TreeStep(t) /\ Merges(t)
      BY <1>1, <2>1, UniteKeeps, CommonKeeps
    <3> QED
      BY <1>1, <3>1, StepOfSets DEF IInv
  <2>2. CASE Barrier \/ UNCHANGED vars
    <3>1. BarrierOrStutter
      BY <2>2 DEF Barrier, BarrierOrStutter, vars
    <3> QED
      BY <3>1, BarrierOfSets
  <2> QED
    BY <1>1, <2>1, <2>2 DEF Next
<1> QED
  BY <1>1, Inductive, PTL DEF Spec, Linearizable, Sets!DSSpec

=============================================================================
