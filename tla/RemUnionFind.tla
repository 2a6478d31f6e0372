---------------------------- MODULE RemUnionFind ----------------------------
(***************************************************************************)
(* Rem's algorithm: the unite variants UniteRemCAS and UniteRemLock of     *)
(* benchmarks/Connectivity/UnionFind/union_find_rules.h with their splice  *)
(* variants, in the loops of compute_components; and both as               *)
(* benchmarks/SpanningForest/UnionFind/union_find_rules.h has them         *)
(* ("unite_rem_cas_sf", "unite_rem_lock_sf"), where they record the edge   *)
(* of the forest with each link.                                           *)
(***************************************************************************)
EXTENDS UFAlgorithm

CONSTANT Variants   \* the <<unite, find, splice>> the caller may have composed

Splices == {"split_atomic_one", "halve_atomic_one", "splice_atomic"}
\* The static_asserts of the callers: splice_atomic never with find_compress.
ASSUME VariantsAssumption ==
  \A x \in Variants :
    /\ x \in UniteOptions \X FindOptions \X Splices
    /\ ~(x[2] = "find_compress" /\ x[3] = "splice_atomic")

VARIABLES
  locks,          \* UniteRemLock
  splice_option   \* template parameter, chosen once

vars == <<ufVars, locks, splice_option>>
remVars == <<locks, splice_option>>

Init ==
  /\ UFInit
  /\ locks = [x \in Vertices |-> FALSE]
  /\ splice_option \in Splices
  /\ <<unite_option, find_option, splice_option>> \in Variants

Locking == {"unite_rem_lock", "unite_rem_lock_sf"}
Recording == {"unite_rem_cas_sf", "unite_rem_lock_sf"}

rx(t) == u[t]
ry(t) == v[t]
Record(t) ==
  Edges' = IF unite_option \in Recording THEN [Edges EXCEPT ![rx(t)] = op[t]] ELSE Edges
ClearTemps(t) == j' = Set(j, t, 0) /\ w' = Set(w, t, 0) /\ UNCHANGED <<i, ret>>

-----------------------------------------------------------------------------
(* The loop: while (parents[rx] != parents[ry]).                           *)

ReadPx(t) ==
  /\ At(t, "unite")
  /\ j' = Set(j, t, parents[rx(t)])
  /\ Goto(t, "test")
  /\ UNCHANGED <<parents, Edges, choices, loops, args, i, w, ret, remVars>>

\* UniteRemCAS returns at once, UniteRemLock compresses first.
TestPy(t) ==
  /\ At(t, "test")
  /\ \/ /\ parents[ry(t)] = j[t] /\ unite_option \notin Locking
        /\ EndIteration(t)
     \/ /\ parents[ry(t)] = j[t] /\ unite_option \in Locking
        /\ Goto(t, "compress_u")
        /\ ClearTemps(t) /\ UNCHANGED args
     \/ /\ parents[ry(t)] # j[t]
        /\ Goto(t, IF unite_option \in Locking THEN "lock_px" ELSE "p_ry")
        /\ ClearTemps(t) /\ UNCHANGED args
  /\ UNCHANGED <<parents, Edges, choices, loops, remVars>>

Swap(t) == u' = Set(u, t, v[t]) /\ v' = Set(v, t, u[t])

-----------------------------------------------------------------------------
(* UniteRemCAS.  "unite_rem_cas_sf" is the spanning forest's: it swaps rx  *)
(* and ry and keeps the p_ry it read.                                      *)

ReadPry(t) ==
  /\ At(t, "p_ry")
  /\ w' = Set(w, t, parents[ry(t)])
  /\ Goto(t, "p_rx")
  /\ UNCHANGED <<parents, Edges, choices, loops, args, i, j, ret, remVars>>

ReadPrx(t) ==
  /\ At(t, "p_rx")
  /\ LET p_rx == parents[rx(t)] IN
     \/ /\ p_rx < w[t]
        /\ Swap(t)
        /\ w' = IF unite_option = "unite_rem_cas" THEN Set(w, t, p_rx) ELSE w
     \/ p_rx >= w[t] /\ UNCHANGED <<u, v, w>>
  /\ Goto(t, "cas")
  /\ UNCHANGED <<parents, Edges, choices, loops, op, i, j, ret, remVars>>

\* Mutants: a plain store; a retry without a splice.
LinkStore(t) ==
  /\ At(t, "cas")
  /\ parents' = [parents EXCEPT ![rx(t)] = w[t]]
  /\ Record(t)
  /\ Goto(t, "compress_u")
  /\ ClearTemps(t)
  /\ UNCHANGED <<choices, loops, args, remVars>>
LinkCasAgain(t) ==
  /\ At(t, "cas")
  /\ \/ /\ parents[rx(t)] = rx(t)
        /\ parents' = [parents EXCEPT ![rx(t)] = w[t]]
        /\ Record(t)
        /\ Goto(t, "compress_u")
     \/ /\ parents[rx(t)] # rx(t)
        /\ Goto(t, "unite")
        /\ UNCHANGED <<parents, Edges>>
  /\ ClearTemps(t)
  /\ UNCHANGED <<choices, loops, args, remVars>>

LinkCas(t) ==
  /\ At(t, "cas")
  /\ \/ /\ parents[rx(t)] = rx(t)
        /\ parents' = [parents EXCEPT ![rx(t)] = w[t]]
        /\ Record(t)
        /\ Goto(t, "compress_u")
     \/ /\ parents[rx(t)] # rx(t)
        /\ Goto(t, "splice")
        /\ UNCHANGED <<parents, Edges>>
  /\ ClearTemps(t)
  /\ UNCHANGED <<choices, loops, args, remVars>>

-----------------------------------------------------------------------------
(* UniteRemLock.                                                           *)

LockReadPx(t) ==
  /\ At(t, "lock_px")
  /\ j' = Set(j, t, parents[rx(t)])
  /\ Goto(t, "lock_py")
  /\ UNCHANGED <<parents, Edges, choices, loops, args, i, w, ret, remVars>>

LockOrder(t) ==
  /\ At(t, "lock_py")
  /\ IF j[t] < parents[ry(t)] THEN Swap(t) ELSE UNCHANGED <<u, v>>
  /\ Goto(t, "lock_root")
  /\ ClearTemps(t)
  /\ UNCHANGED <<parents, Edges, choices, loops, op, remVars>>

LockRoot(t) ==
  /\ At(t, "lock_root")
  /\ Goto(t, IF parents[rx(t)] = rx(t) THEN "acquire" ELSE "splice")
  /\ UNCHANGED <<parents, Edges, choices, loops, args, finds, remVars>>

Acquire(t) ==
  /\ At(t, "acquire")
  /\ \/ /\ ~locks[rx(t)]
        /\ locks' = [locks EXCEPT ![rx(t)] = TRUE]
        /\ Goto(t, "py")
     \/ /\ locks[rx(t)] /\ unite_option = "unite_rem_lock"   \* the other blocks
        /\ Goto(t, "unite")
        /\ UNCHANGED locks
  /\ UNCHANGED <<parents, Edges, choices, loops, args, finds, splice_option>>

LockReadPy(t) ==
  /\ At(t, "py")
  /\ w' = Set(w, t, parents[ry(t)])
  /\ Goto(t, "lock_test")
  /\ UNCHANGED <<parents, Edges, choices, loops, args, i, j, ret, remVars>>

\* Mutant: does not test the root again under the lock.
LockNoRootTest(t) ==
  /\ At(t, "lock_test")
  /\ Goto(t, IF rx(t) > w[t] THEN "lock_link" ELSE "release")
  /\ UNCHANGED <<parents, Edges, choices, loops, args, finds, remVars>>

LockTest(t) ==
  /\ At(t, "lock_test")
  /\ Goto(t, IF parents[rx(t)] = rx(t) /\ rx(t) > w[t] THEN "lock_link" ELSE "release")
  /\ UNCHANGED <<parents, Edges, choices, loops, args, finds, remVars>>

LockLink(t) ==
  /\ At(t, "lock_link")
  /\ parents' = [parents EXCEPT ![rx(t)] = w[t]]
  /\ Record(t)
  /\ Goto(t, "release")
  /\ UNCHANGED <<choices, loops, args, finds, remVars>>

Release(t) ==
  /\ At(t, "release")
  /\ locks' = [locks EXCEPT ![rx(t)] = FALSE]
  /\ Goto(t, "unite")
  /\ ClearTemps(t)
  /\ UNCHANGED <<parents, Edges, choices, loops, args, splice_option>>

-----------------------------------------------------------------------------
(* splice(rx, ry): one step of path compression at rx, on to its parent or *)
(* grandparent.  splice_atomic moves rx below the parent of ry.            *)

SpliceRead(t) ==
  /\ At(t, "splice")
  /\ j' = Set(j, t, parents[rx(t)])
  /\ Goto(t, "splice_w")
  /\ UNCHANGED <<parents, Edges, choices, loops, args, i, w, ret, remVars>>

SpliceReadW(t) ==
  /\ At(t, "splice_w")
  /\ LET p == parents[IF splice_option = "splice_atomic" THEN ry(t) ELSE j[t]] IN
     \/ /\ splice_option # "splice_atomic" /\ p = j[t]
        /\ u' = Set(u, t, j[t])
        /\ ClearTemps(t)
        /\ Goto(t, "unite")
     \/ /\ splice_option = "splice_atomic" \/ p # j[t]
        /\ w' = Set(w, t, p)
        /\ Goto(t, "splice_cas")
        /\ UNCHANGED <<u, i, j, ret>>
  /\ UNCHANGED <<parents, Edges, choices, loops, op, v, remVars>>

SpliceCas(t) ==
  /\ At(t, "splice_cas")
  /\ CasParent(rx(t), j[t], w[t])
  /\ u' = Set(u, t, IF splice_option = "halve_atomic_one" THEN w[t] ELSE j[t])
  /\ ClearTemps(t)
  /\ Goto(t, "unite")
  /\ UNCHANGED <<Edges, choices, loops, op, v, remVars>>

-----------------------------------------------------------------------------
(* compress(u_orig), compress(v_orig), unless find_option is find_naive:   *)
(* the spanning forest's UniteRemLock calls it all the same.               *)

CompressU(t) ==
  /\ At(t, "compress_u")
  /\ LET compresses == find_option # "find_naive" \/ unite_option = "unite_rem_lock_sf" IN
     \/ ~compresses /\ EndIteration(t)
     \/ compresses /\ CallFind(t, op[t][1], "compress_v") /\ UNCHANGED args
  /\ UNCHANGED <<parents, Edges, choices, loops, remVars>>

CompressV(t) ==
  /\ At(t, "compress_v")
  /\ CallFind(t, op[t][2], "compressed")
  /\ UNCHANGED <<parents, Edges, choices, loops, args, remVars>>

Compressed(t) ==
  /\ At(t, "compressed")
  /\ EndIteration(t)
  /\ UNCHANGED <<parents, Edges, choices, loops, remVars>>

-----------------------------------------------------------------------------
UniteStep(t) ==
  \/ ReadPx(t) \/ TestPy(t)
  \/ ReadPry(t) \/ ReadPrx(t) \/ LinkCas(t)
  \/ LockReadPx(t) \/ LockOrder(t) \/ LockRoot(t) \/ Acquire(t)
  \/ LockReadPy(t) \/ LockTest(t) \/ LockLink(t) \/ Release(t)
  \/ SpliceRead(t) \/ SpliceReadW(t) \/ SpliceCas(t)
  \/ CompressU(t) \/ CompressV(t) \/ Compressed(t)

Common(t) == (Find(t) \/ Loop(t)) /\ UNCHANGED remVars
Barrier == (EndUnites \/ Finish \/ Done) /\ UNCHANGED remVars

Next == (\E t \in Threads : UniteStep(t) \/ Common(t)) \/ Barrier

Spec == Init /\ [][Next]_vars

\* Threads are preempted but never stopped.
Fairness == WF_vars(Barrier) /\ \A t \in Threads : WF_vars(UniteStep(t) \/ Common(t))
FairSpec == Spec /\ Fairness

-----------------------------------------------------------------------------
(* Properties.                                                             *)

LoopLabels ==
  {"unite", "test", "p_ry", "p_rx", "cas", "lock_px", "lock_py", "lock_root", "acquire",
   "py", "lock_test", "lock_link", "release", "splice", "splice_w", "splice_cas"}
ReturnLabels ==
  {"idle", "compress_u", "compress_v", "compressed", "relabel", "queried_u", "queried_v"}

\* Every variable has its type.
TypeOK ==
  /\ UFTypeOK(FindLabels \cup LoopLabels \cup ReturnLabels, ReturnLabels)
  /\ locks \in [Vertices -> BOOLEAN] /\ splice_option \in Splices

\* The test under the lock stays true until the store: no link, splice or path
\* compression of another thread comes between (they write without the lock).
LockedRootStays ==
  \A t \in Threads : At(t, "lock_link") => parents[rx(t)] = rx(t)

\* The calls that the spanning forest's variants record form a spanning forest.
RecordedForestSpans == unite_option \in Recording => ForestSpans

\* At every instant the parents are the forest that unite and find rely on; in the
\* end its trees are the components, and the recorded edges span them.
TreesRight ==
  TypeOK /\ ParentOrder /\ LockedRootStays /\ LabelsAreComponents /\ RecordedForestSpans

\* The loops end, whatever unite, find and splice they are composed with.
Termination == <>(phase = "done")
=============================================================================
