------------------------------ MODULE UnionFind ------------------------------
(***************************************************************************)
(* The unite variants Unite, UniteEarly and UniteND of                     *)
(* benchmarks/Connectivity/UnionFind/union_find_rules.h, composed with any *)
(* find, in the loops of compute_components and process_batch.             *)
(***************************************************************************)
EXTENDS UFAlgorithm

VARIABLE hooks   \* UniteND: the vertex each root is hooked to; N is UINT_E_MAX

vars == <<ufVars, hooks>>

High(t) == IF u[t] > v[t] THEN u[t] ELSE v[t]
Low(t) == IF u[t] > v[t] THEN v[t] ELSE u[t]

Init == UFInit /\ hooks = [x \in Vertices |-> N]

-----------------------------------------------------------------------------
(* Unite: find both roots and link the higher to the lower.                *)

FindU(t) ==
  /\ At(t, "unite") /\ unite_option \in {"unite", "unite_nd"}
  /\ CallFind(t, u[t], "found_u")
  /\ UNCHANGED <<parents, Edges, choices, loops, args, hooks>>

FindV(t) ==
  /\ At(t, "found_u")
  /\ u' = Set(u, t, i[t])
  /\ CallFind(t, v[t], "found_v")
  /\ UNCHANGED <<parents, Edges, choices, loops, op, v, hooks>>

FoundV(t) ==
  /\ At(t, "found_v")
  /\ \/ /\ i[t] = u[t]
        /\ EndIteration(t)
     \/ /\ i[t] # u[t]
        /\ v' = Set(v, t, i[t])
        /\ Goto(t, IF unite_option = "unite" THEN "link" ELSE "hook")
        /\ UNCHANGED <<op, u, finds>>
  /\ UNCHANGED <<parents, Edges, choices, loops, hooks>>

\* Mutants: links u to v whichever is higher; stores without the test; retries
\* the link without finding the roots again; records the edge before the test.
LinkUp(t) ==
  /\ At(t, "link")
  /\ \/ /\ parents[u[t]] = u[t]
        /\ parents' = [parents EXCEPT ![u[t]] = v[t]]
        /\ Edges' = [Edges EXCEPT ![u[t]] = op[t]]
        /\ EndIteration(t)
     \/ /\ parents[u[t]] # u[t]
        /\ Goto(t, "unite")
        /\ UNCHANGED <<parents, Edges, args, finds>>
  /\ UNCHANGED <<choices, loops, hooks>>
LinkUntested(t) ==
  /\ At(t, "link")
  /\ parents' = [parents EXCEPT ![High(t)] = Low(t)]
  /\ Edges' = [Edges EXCEPT ![High(t)] = op[t]]
  /\ EndIteration(t)
  /\ UNCHANGED <<choices, loops, hooks>>
LinkAgain(t) ==
  /\ At(t, "link")
  /\ \/ /\ parents[High(t)] = High(t)
        /\ parents' = [parents EXCEPT ![High(t)] = Low(t)]
        /\ Edges' = [Edges EXCEPT ![High(t)] = op[t]]
        /\ EndIteration(t)
     \/ /\ parents[High(t)] # High(t)
        /\ UNCHANGED <<parents, Edges, pc, args, finds>>
  /\ UNCHANGED <<choices, loops, hooks>>
LinkRecordsFirst(t) ==
  /\ At(t, "link")
  /\ Edges' = [Edges EXCEPT ![High(t)] = op[t]]
  /\ \/ /\ parents[High(t)] = High(t)
        /\ parents' = [parents EXCEPT ![High(t)] = Low(t)]
        /\ EndIteration(t)
     \/ /\ parents[High(t)] # High(t)
        /\ Goto(t, "unite")
        /\ UNCHANGED <<parents, args, finds>>
  /\ UNCHANGED <<choices, loops, hooks>>

\* The test parents[u] == u and the compare_and_swap that repeats it.
Link(t) ==
  /\ At(t, "link")
  /\ \/ /\ parents[High(t)] = High(t)
        /\ parents' = [parents EXCEPT ![High(t)] = Low(t)]
        /\ Edges' = [Edges EXCEPT ![High(t)] = op[t]]
        /\ EndIteration(t)
     \/ /\ parents[High(t)] # High(t)
        /\ Goto(t, "unite")
        /\ UNCHANGED <<parents, Edges, args, finds>>
  /\ UNCHANGED <<choices, loops, hooks>>

-----------------------------------------------------------------------------
(* UniteND: claim the higher root in hooks, then write its parent.         *)

Hook(t) ==
  /\ At(t, "hook")
  /\ u' = Set(u, t, High(t)) /\ v' = Set(v, t, Low(t))
  /\ \/ /\ hooks[High(t)] = N
        /\ hooks' = [hooks EXCEPT ![High(t)] = Low(t)]
        /\ Goto(t, "hook_store")
     \/ /\ hooks[High(t)] # N
        /\ Goto(t, "unite")
        /\ UNCHANGED hooks
  /\ UNCHANGED <<parents, Edges, choices, loops, op, finds>>

HookStore(t) ==
  /\ At(t, "hook_store")
  /\ parents' = [parents EXCEPT ![u[t]] = v[t]]
  /\ Edges' = [Edges EXCEPT ![u[t]] = op[t]]
  /\ EndIteration(t)
  /\ UNCHANGED <<choices, loops, hooks>>

-----------------------------------------------------------------------------
(* UniteEarly: link the higher vertex if it is a root, else climb from it  *)
(* to its grandparent, splitting its path.                                 *)

EarlyLink(t) ==
  /\ At(t, "unite") /\ unite_option = "unite_early"
  /\ \/ /\ u[t] = v[t]
        /\ Goto(t, "force_u")
        /\ UNCHANGED <<parents, Edges, args>>
     \/ /\ u[t] # v[t] /\ parents[High(t)] = High(t)
        /\ parents' = [parents EXCEPT ![High(t)] = Low(t)]
        /\ Edges' = [Edges EXCEPT ![High(t)] = op[t]]
        /\ Goto(t, "force_u")
        /\ UNCHANGED args
     \/ /\ u[t] # v[t] /\ parents[High(t)] # High(t)
        /\ u' = Set(u, t, High(t)) /\ v' = Set(v, t, Low(t))
        /\ Goto(t, "early_z")
        /\ UNCHANGED <<parents, Edges, op>>
  /\ UNCHANGED <<choices, loops, finds, hooks>>

EarlyReadZ(t) ==
  /\ At(t, "early_z")
  /\ j' = Set(j, t, parents[u[t]])
  /\ Goto(t, "early_w")
  /\ UNCHANGED <<parents, Edges, choices, loops, args, i, w, ret, hooks>>

\* Mutant: reads the parent of another local than z.
EarlyReadWrong(t) ==
  /\ At(t, "early_w")
  /\ w' = Set(w, t, parents[i[t]])
  /\ Goto(t, "early_cas")
  /\ UNCHANGED <<parents, Edges, choices, loops, args, i, j, ret, hooks>>

EarlyReadW(t) ==
  /\ At(t, "early_w")
  /\ w' = Set(w, t, parents[j[t]])
  /\ Goto(t, "early_cas")
  /\ UNCHANGED <<parents, Edges, choices, loops, args, i, j, ret, hooks>>

EarlyCas(t) ==
  /\ At(t, "early_cas")
  /\ CasParent(u[t], j[t], w[t])
  /\ u' = Set(u, t, w[t])
  /\ j' = Set(j, t, 0) /\ w' = Set(w, t, 0)
  /\ Goto(t, "unite")
  /\ UNCHANGED <<Edges, choices, loops, op, v, i, ret, hooks>>

\* The finds of both arguments that follow, unless find_option is find_naive.
ForceU(t) ==
  /\ At(t, "force_u")
  /\ \/ find_option = "find_naive" /\ EndIteration(t)
     \/ find_option # "find_naive" /\ CallFind(t, op[t][1], "force_v") /\ UNCHANGED args
  /\ UNCHANGED <<parents, Edges, choices, loops, hooks>>

ForceV(t) ==
  /\ At(t, "force_v")
  /\ CallFind(t, op[t][2], "forced")
  /\ UNCHANGED <<parents, Edges, choices, loops, args, hooks>>

Forced(t) ==
  /\ At(t, "forced")
  /\ EndIteration(t)
  /\ UNCHANGED <<parents, Edges, choices, loops, hooks>>

-----------------------------------------------------------------------------
UniteStep(t) ==
  \/ FindU(t) \/ FindV(t) \/ FoundV(t) \/ Link(t) \/ Hook(t) \/ HookStore(t)
  \/ EarlyLink(t) \/ EarlyReadZ(t) \/ EarlyReadW(t) \/ EarlyCas(t)
  \/ ForceU(t) \/ ForceV(t) \/ Forced(t)

Common(t) == (Find(t) \/ Loop(t)) /\ UNCHANGED hooks
Barrier == (EndUnites \/ Finish \/ Done) /\ UNCHANGED hooks

Next == (\E t \in Threads : UniteStep(t) \/ Common(t)) \/ Barrier

Spec == Init /\ [][Next]_vars

\* Threads are preempted but never stopped.
Fairness == WF_vars(Barrier) /\ \A t \in Threads : WF_vars(UniteStep(t) \/ Common(t))
FairSpec == Spec /\ Fairness

-----------------------------------------------------------------------------
(* Properties.                                                             *)

\* Where a find returns to.
ReturnLabels ==
  {"idle", "found_u", "found_v", "force_v", "forced", "relabel", "queried_u", "queried_v"}
Labels ==
  FindLabels \cup ReturnLabels \cup
    {"unite", "link", "hook", "hook_store", "force_u", "early_z", "early_w", "early_cas"}

\* Every variable has its type: a vertex is never UINT_E_MAX where it indexes.
TypeOK == UFTypeOK(Labels, ReturnLabels) /\ hooks \in [Vertices -> Vertices \cup {N}]

\* A vertex that was linked never becomes a root again: no store of a path
\* compression undoes a link (find_compress stores without compare-and-swap).
LinkedForGood ==
  [][\A x \in Vertices : parents[x] # x => parents'[x] # x]_vars

\* The loops end, whatever unite and find they are composed with.
Termination == <>(phase = "done")
=============================================================================
