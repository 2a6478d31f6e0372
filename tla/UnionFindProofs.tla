--------------------------- MODULE UnionFindProofs ---------------------------
(***************************************************************************)
(* Proofs about UnionFind for every number of vertices and threads, every  *)
(* workload and every combination of find and unite.                       *)
(***************************************************************************)
EXTENDS UnionFind, UFAlgorithmProofs

USE DEF At, Goto, Set, choices, loops, args, finds

-----------------------------------------------------------------------------
(* The inductive invariant: UFInv, and what a thread knows in each unite.  *)

InPair == {"unite", "found_u", "found_v", "link", "hook", "hook_store", "early_z", "early_w", "early_cas"}
Forcing == {"force_u", "force_v", "forced"}

UniteInTree(t) ==
  /\ Toward(t, InPair) => Pair(t)
  /\ Toward(t, Forcing) => Same(op[t][1], op[t][2])
  /\ Toward(t, {"found_u"}) => Same(i[t], u[t])
  /\ Toward(t, {"found_v"}) => Same(i[t], v[t])
  /\ Toward(t, {"found_u", "found_v"}) => unite_option \in {"unite", "unite_nd"}
  /\ pc[t] \in {"found_u", "found_v"} => load.init[i[t]] = i[t]
  /\ pc[t] \in {"link", "hook"} \/ Toward(t, {"found_v"}) => load.init[u[t]] = u[t]
  /\ pc[t] \in {"link", "hook"} => load.init[v[t]] = v[t] /\ u[t] # v[t]
  /\ pc[t] = "link" => unite_option = "unite"
  /\ pc[t] \in {"hook", "hook_store"} => unite_option = "unite_nd"
  /\ pc[t] = "hook_store" => v[t] < u[t] /\ parents[u[t]] = u[t] /\ hooks[u[t]] # N
  /\ pc[t] = "early_z" => parents[u[t]] # u[t]
  /\ pc[t] \in {"early_w", "early_cas"} => Same(j[t], u[t]) /\ j[t] < u[t]
  /\ pc[t] = "early_cas" => Same(w[t], u[t]) /\ w[t] < u[t]

\* A hook is one thread's, and until then a vertex that began as a root is one.
HooksClaim ==
  /\ \A s, t \in Threads :
       s # t /\ pc[s] = "hook_store" /\ pc[t] = "hook_store" => u[s] # u[t]
  /\ unite_option = "unite_nd" =>
       \A x \in Vertices : load.init[x] = x /\ hooks[x] = N => parents[x] = x

TypeInv == Typed(Labels, ReturnLabels) /\ hooks \in [Vertices -> Vertices \cup {N}]

IInv == TypeInv /\ UFInv /\ EdgesInv /\ HooksClaim /\ \A t \in Threads : UniteInTree(t)

-----------------------------------------------------------------------------
(* The steps of the unite variants, one by one.                            *)

\* The labels of the variants are as the loops and the finds require.
LEMMA LabelsFit == LabelSets(Labels, ReturnLabels)
  BY DEF LabelSets, Labels, ReturnLabels, FindLabels, Elsewhere

\* High and Low are u and v, in order.
LEMMA HighLow ==
  ASSUME TypeInv, NEW t \in Threads
  PROVE  /\ High(t) \in Vertices /\ Low(t) \in Vertices
         /\ Low(t) <= High(t) /\ (u[t] # v[t] => Low(t) < High(t))
         /\ \/ High(t) = u[t] /\ Low(t) = v[t]
            \/ High(t) = v[t] /\ Low(t) = u[t]
<1>1. u[t] \in Vertices /\ v[t] \in Vertices
  BY DEF TypeInv, Typed, UFTypeOK
<1>2. u[t] \in Int /\ v[t] \in Int
  BY <1>1, UFAssumption DEF Vertices
<1> QED
  BY <1>1, <1>2 DEF High, Low

\* A step of unite keeps the types.
LEMMA UniteTyped ==
  ASSUME TypeInv, NEW t \in Threads, UniteStep(t)
  PROVE  TypeInv'
<1>a. load \in Workloads /\ load.ops \subseteq Ops /\ load.queries \subseteq Ops
  BY UFAssumption DEF TypeInv, Typed, UFTypeOK
<1>b. 0 \in Vertices
  BY UFAssumption DEF Vertices
<1>c. High(t) \in Vertices /\ Low(t) \in Vertices
  BY HighLow
<1> USE <1>a, <1>b DEF TypeInv, Typed, UFTypeOK, Labels, ReturnLabels, FindLabels, Uniting, Elsewhere, Ops
<1>1. CASE FindU(t)
  BY <1>1 DEF FindU, CallFind
<1>2. CASE FindV(t)
  BY <1>2 DEF FindV, CallFind
<1>3. CASE FoundV(t)
  <2>1. CASE i[t] = u[t]
    BY <1>3, <2>1, SMTT(30) DEF FoundV, EndIteration
  <2>2. CASE i[t] # u[t] /\ unite_option = "unite"
    BY <1>3, <2>2, SMTT(30) DEF FoundV, EndIteration
  <2>3. CASE i[t] # u[t] /\ unite_option # "unite"
    BY <1>3, <2>3, SMTT(30) DEF FoundV, EndIteration
  <2> QED
    BY <2>1, <2>2, <2>3
<1>4. CASE Link(t)
  <2>1. CASE parents[High(t)] = High(t)
    BY <1>4, <2>1, <1>c, SMTT(30) DEF Link, EndIteration
  <2>2. CASE parents[High(t)] # High(t)
    <3>1. /\ pc[t] = "link" /\ pc' = [pc EXCEPT ![t] = "unite"]
          /\ UNCHANGED <<parents, Edges, args, finds, choices, loops, hooks>>
      BY <1>4, <2>2 DEF Link
    <3> QED
      BY <3>1, SMTT(30)
  <2> QED
    BY <2>1, <2>2
<1>5. CASE Hook(t)
  BY <1>5, <1>c, SMTT(30) DEF Hook
<1>6. CASE HookStore(t)
  BY <1>6 DEF HookStore, EndIteration
<1>7. CASE EarlyLink(t)
  BY <1>7, <1>c, SMTT(30) DEF EarlyLink
<1>8. CASE EarlyReadZ(t)
  BY <1>8 DEF EarlyReadZ
<1>9. CASE EarlyReadW(t)
  BY <1>9 DEF EarlyReadW
<1>10. CASE EarlyCas(t)
  BY <1>10 DEF EarlyCas, CasParent
<1>11. CASE ForceU(t)
  <2>1. CASE find_option = "find_naive"
    BY <1>11, <2>1, SMTT(30) DEF ForceU, EndIteration
  <2>2. CASE find_option # "find_naive"
    BY <1>11, <2>2, SMTT(30) DEF ForceU, CallFind
  <2> QED
    BY <2>1, <2>2
<1>12. CASE ForceV(t)
  BY <1>12 DEF ForceV, CallFind
<1>13. CASE Forced(t)
  BY <1>13 DEF Forced, EndIteration
<1> QED
  BY <1>1, <1>2, <1>3, <1>4, <1>5, <1>6, <1>7, <1>8, <1>9, <1>10, <1>11, <1>12, <1>13 DEF UniteStep

\* A step of unite keeps its call or ends it, and leaves the others' alone.
LEMMA UniteStepMoves ==
  ASSUME TypeInv, NEW t \in Threads, UniteStep(t)
  PROVE  UniteMoves(t)
<1>1. Uniting(t) /\ UNCHANGED <<find_option, unite_option, load, todo, asked, relabel, phase>>
  BY DEF UniteStep, Uniting, Elsewhere, FindLabels, FindU, FindV, FoundV, Link, Hook, HookStore,
         EarlyLink, EarlyReadZ, EarlyReadW, EarlyCas, ForceU, ForceV, Forced
<1>d. /\ \E labels : pc \in [Threads -> labels] /\ \E returns : ret \in [Threads -> returns]
      /\ \E ops : op \in [Threads -> ops]
      /\ u \in [Threads -> Vertices] /\ v \in [Threads -> Vertices]
      /\ i \in [Threads -> Vertices] /\ j \in [Threads -> Vertices] /\ w \in [Threads -> Vertices]
  BY DEF TypeInv, Typed, UFTypeOK
<1>2. \A s \in Threads : s # t => SameLocals(s)
  <2> USE <1>d DEF SameLocals, CallFind, EndIteration
  <2>1. CASE FindU(t) \/ FindV(t) \/ FoundV(t) \/ Link(t)
    BY <2>1 DEF FindU, FindV, FoundV, Link
  <2>2. CASE Hook(t) \/ HookStore(t) \/ EarlyLink(t)
    BY <2>2 DEF Hook, HookStore, EarlyLink
  <2>3. CASE EarlyReadZ(t) \/ EarlyReadW(t) \/ EarlyCas(t) \/ ForceU(t) \/ ForceV(t) \/ Forced(t)
    BY <2>3 DEF EarlyReadZ, EarlyReadW, EarlyCas, ForceU, ForceV, Forced
  <2> QED
    BY <2>1, <2>2, <2>3 DEF UniteStep
<1>3. \/ /\ op' = op
         /\ \/ pc'[t] \notin FindLabels \cup Elsewhere \cup {"idle"}
            \/ pc'[t] = "find" /\ ret'[t] \notin Elsewhere \cup {"idle"}
      \/ op' = [op EXCEPT ![t] = NoOp] /\ pc'[t] = "idle"
  <2> USE <1>d DEF Elsewhere, CallFind, EndIteration, FindLabels
  <2>1. CASE FindU(t) \/ FindV(t) \/ FoundV(t) \/ Link(t)
    BY <2>1 DEF FindU, FindV, FoundV, Link
  <2>2. CASE Hook(t) \/ HookStore(t) \/ EarlyLink(t)
    BY <2>2 DEF Hook, HookStore, EarlyLink
  <2>3. CASE EarlyReadZ(t) \/ EarlyReadW(t) \/ EarlyCas(t) \/ ForceU(t) \/ ForceV(t) \/ Forced(t)
    BY <2>3 DEF EarlyReadZ, EarlyReadW, EarlyCas, ForceU, ForceV, Forced
  <2> QED
    BY <2>1, <2>2, <2>3 DEF UniteStep
<1> QED
  BY <1>1, <1>2, <1>3 DEF UniteMoves, Uniting, FindLabels

\* The stores of unite move a vertex up in its tree, or link a root and record
\* the call.  UniteND links the vertex it has hooked.
LEMMA UniteRecords ==
  ASSUME IInv, NEW t \in Threads, UniteStep(t)
  PROVE  /\ Records(t)
         /\ unite_option = "unite_nd" =>
              \A x \in Vertices : parents[x] = x => parents'[x] = x \/ (pc[t] = "hook_store" /\ x = u[t])
         /\ (Link(t) /\ parents[High(t)] = High(t)) \/ HookStore(t) => JoinsTrees(t)
         /\ EarlyLink(t) /\ u[t] # v[t] /\ parents[High(t)] = High(t) => JoinsTrees(t)
<1>0. \A x \in Vertices : x \in Int
  BY UFAssumption DEF Vertices
<1>t. /\ u[t] \in Vertices /\ v[t] \in Vertices /\ i[t] \in Vertices /\ j[t] \in Vertices /\ w[t] \in Vertices
      /\ parents \in [Vertices -> Vertices] /\ \A x \in Vertices : parents[x] <= x
  BY DEF IInv, TypeInv, Typed, UFTypeOK, UFInv, PointsDown
<1>h. /\ High(t) \in Vertices /\ Low(t) \in Vertices /\ (u[t] # v[t] => Low(t) < High(t))
      /\ \/ High(t) = u[t] /\ Low(t) = v[t]
         \/ High(t) = v[t] /\ Low(t) = u[t]
  BY HighLow DEF IInv
<1>f. UniteInTree(t) /\ (Uniting(t) => op[t] \in load.ops)
  BY DEF IInv, TypeInv, Typed
<1>1. CASE Link(t) /\ parents[High(t)] = High(t)
  <2>1. /\ parents' = [parents EXCEPT ![High(t)] = Low(t)]
        /\ Edges' = [Edges EXCEPT ![High(t)] = op[t]] /\ pc[t] = "link"
    BY <1>1 DEF Link
  <2>2. Pair(t) /\ u[t] # v[t] /\ unite_option = "unite" /\ Uniting(t)
    BY <1>f, <2>1 DEF UniteInTree, Toward, InPair, Uniting, FindLabels, Elsewhere
  <2>4. Joins(t, High(t), Low(t))
    BY <1>1, <1>h, <1>f, <2>1, <2>2, Zenon DEF Joins, Pair
  <2> QED
    BY <1>h, <2>1, <2>2, <2>4 DEF Records, JoinsTrees
<1>2. CASE HookStore(t)
  <2>1. parents' = [parents EXCEPT ![u[t]] = v[t]] /\ Edges' = [Edges EXCEPT ![u[t]] = op[t]] /\ pc[t] = "hook_store"
    BY <1>2 DEF HookStore
  <2>2. Pair(t) /\ parents[u[t]] = u[t] /\ v[t] < u[t] /\ Uniting(t)
    BY <1>f, <2>1 DEF UniteInTree, Toward, InPair, Uniting, FindLabels, Elsewhere
  <2>4. Joins(t, u[t], v[t])
    BY <1>f, <2>1, <2>2, Zenon DEF Joins, Pair
  <2>5. \A x \in Vertices : parents[x] = x => parents'[x] = x \/ x = u[t]
    BY <1>t, <2>1
  <2> QED
    BY <1>t, <2>1, <2>4, <2>5 DEF Records, JoinsTrees
<1>3. CASE EarlyLink(t) /\ u[t] # v[t] /\ parents[High(t)] = High(t)
  <2>1. /\ parents' = [parents EXCEPT ![High(t)] = Low(t)]
        /\ Edges' = [Edges EXCEPT ![High(t)] = op[t]] /\ pc[t] = "unite" /\ unite_option = "unite_early"
    BY <1>3 DEF EarlyLink
  <2>2. Pair(t) /\ Uniting(t)
    BY <1>f, <2>1 DEF UniteInTree, Toward, InPair, Uniting, FindLabels, Elsewhere
  <2>4. Joins(t, High(t), Low(t))
    BY <1>3, <1>h, <1>f, <2>1, <2>2, Zenon DEF Joins, Pair
  <2> QED
    BY <1>h, <2>1, <2>4 DEF Records, JoinsTrees
<1>4. CASE EarlyCas(t)
  <2>1. /\ Edges' = Edges /\ pc[t] = "early_cas"
        /\ parents' = IF parents[u[t]] = j[t] THEN [parents EXCEPT ![u[t]] = w[t]] ELSE parents
    BY <1>4 DEF EarlyCas, CasParent
  <2>2. j[t] < u[t] /\ w[t] < u[t] /\ Same(w[t], u[t])
    BY <1>f, <2>1 DEF UniteInTree
  <2>3. ~Link(t) /\ ~HookStore(t) /\ ~EarlyLink(t)
    BY <2>1 DEF Link, HookStore, EarlyLink
  <2>4. CASE parents[u[t]] = j[t]
    <3>1. parents[u[t]] # u[t]
      BY <1>0, <1>t, <2>2, <2>4
    <3>2. \A x \in Vertices : parents[x] = x => parents'[x] = x
      BY <1>t, <2>1, <3>1
    <3> QED
      BY <1>t, <2>1, <2>2, <2>3, <2>4, <3>1, <3>2 DEF Records, Compresses, Same
  <2> QED
    BY <2>1, <2>3, <2>4 DEF Records
<1>5. CASE /\ ~(Link(t) /\ parents[High(t)] = High(t)) /\ ~HookStore(t)
           /\ ~(EarlyLink(t) /\ u[t] # v[t] /\ parents[High(t)] = High(t)) /\ ~EarlyCas(t)
  <2>1. UNCHANGED <<parents, Edges>>
    BY <1>5, Zenon DEF UniteStep, FindU, FindV, FoundV, Link, Hook, EarlyLink, EarlyReadZ, EarlyReadW, ForceU, ForceV, Forced
  <2> QED
    BY <1>5, <2>1 DEF Records
<1> QED
  BY <1>1, <1>2, <1>3, <1>4, <1>5, Zenon

\* After a step of unite the thread knows what it needs for the next one.
LEMMA UniteStaysInTree ==
  ASSUME IInv, TypeInv', NEW t \in Threads, UniteStep(t)
  PROVE  UniteInTree(t)'
<1>0. \A x \in Vertices : x \in Int
  BY UFAssumption DEF Vertices
<1>R. TreeStep(t)
  BY UniteRecords, RecordsIsTreeStep
<1>P. PointsDown(parents) /\ PointsDown(parents') /\ load \in Workloads
  BY <1>R, StepPointsDown DEF IInv, UFInv, UFTyped, Typed, UFTypeOK
<1>g. /\ \A x, y \in Vertices : Ancestor[x] = Ancestor[y] => Ancestor'[x] = Ancestor'[y]
      /\ \A x \in Vertices : parents[x] # x => parents'[x] # x
  BY <1>P, <1>R, TreesOnlyGrow DEF Same
<1>r. \A x \in Vertices : Ancestor[parents[x]] = Ancestor[x]
  BY <1>P, ParentsHaveRoots DEF RootMap
<1>t. UniteInTree(t) /\ \A x \in Vertices : parents[x] <= x
  BY <1>P DEF IInv, PointsDown
<1>l. load' = load /\ unite_option' = unite_option
  BY UniteStepMoves DEF UniteMoves, IInv
<1>T. /\ N \notin Vertices
      /\ pc \in [Threads -> Labels] /\ ret \in [Threads -> ReturnLabels] /\ \E ops : op \in [Threads -> ops]
      /\ u \in [Threads -> Vertices] /\ v \in [Threads -> Vertices]
      /\ i \in [Threads -> Vertices] /\ j \in [Threads -> Vertices] /\ w \in [Threads -> Vertices]
      /\ hooks \in [Vertices -> Vertices \cup {N}]
  <2>1. N \notin Vertices
    BY UFAssumption DEF Vertices
  <2> QED
    BY <2>1 DEF IInv, TypeInv, Typed, UFTypeOK
<1>h. /\ High(t) \in Vertices /\ Low(t) \in Vertices /\ (u[t] # v[t] => Low(t) < High(t))
      /\ \/ High(t) = u[t] /\ Low(t) = v[t]
         \/ High(t) = v[t] /\ Low(t) = u[t]
  BY HighLow DEF IInv
<1>d. /\ u[t] \in Vertices /\ v[t] \in Vertices /\ i[t] \in Vertices /\ j[t] \in Vertices /\ w[t] \in Vertices
      /\ \A x \in Vertices : parents[x] \in Vertices
  BY DEF IInv, TypeInv, Typed, UFTypeOK
<1>c. \A x \in Vertices : parents[x] # x => parents[x] < x
  <2> TAKE x \in Vertices
  <2>1. x \in Int /\ parents[x] \in Int /\ parents[x] <= x
    BY <1>0, <1>d, <1>t
  <2> QED
    BY <2>1
<1>o. /\ Uniting(t) => op[t] \in load.ops /\ op[t][1] \in Vertices /\ op[t][2] \in Vertices
      /\ pc[t] \in {"unite", "found_u", "found_v", "link", "hook", "hook_store", "early_z", "early_w",
                    "early_cas", "force_u", "force_v", "forced"} => Uniting(t)
  BY <1>P, UFAssumption DEF IInv, TypeInv, Typed, Ops, Uniting, Elsewhere, FindLabels
<1>p. ASSUME Uniting(t), Pair(t), op'[t] = op[t], u'[t] \in Vertices, v'[t] \in Vertices,
             Same(u'[t], u[t]), Same(v'[t], v[t])
      PROVE  Pair(t)'
  BY <1>p, <1>g, <1>d, <1>o DEF Pair, Same
<1> USE <1>r, <1>l, <1>T, <1>o, <1>g, <1>t
    DEF UniteInTree, Same, Toward, InPair, Forcing, FindLabels, ReturnLabels, Labels
<1>1. CASE FindU(t)
  <2>1. /\ pc[t] = "unite" /\ pc'[t] = "find" /\ ret'[t] = "found_u" /\ i'[t] = u[t] /\ u'[t] = u[t]
        /\ UNCHANGED <<op, u, v>> /\ unite_option \in {"unite", "unite_nd"}
    BY <1>1 DEF FindU, CallFind
  <2>2. Pair(t)'
    BY <1>d, <1>p, <2>1
  <2> QED
    BY <2>1, <2>2
<1>2. CASE FindV(t)
  <2>1. /\ pc[t] = "found_u" /\ pc'[t] = "find" /\ ret'[t] = "found_v" /\ i'[t] = v[t] /\ v'[t] = v[t]
        /\ u'[t] = i[t] /\ UNCHANGED <<op, v>>
    BY <1>2 DEF FindV, CallFind
  <2>2. /\ Same(i[t], u[t]) /\ load.init[i[t]] = i[t] /\ Pair(t)
        /\ unite_option \in {"unite", "unite_nd"}
    BY <2>1
  <2>3. Pair(t)'
    BY <1>d, <1>p, <2>1, <2>2
  <2> QED
    BY <2>1, <2>2, <2>3
<1>3. CASE FoundV(t)
  <2>1. CASE i[t] = u[t]
    BY <1>3, <2>1 DEF FoundV, EndIteration
  <2>2. CASE i[t] # u[t]
    <3>1. /\ pc[t] = "found_v" /\ v'[t] = i[t] /\ u'[t] = u[t] /\ op'[t] = op[t]
          /\ pc'[t] = IF unite_option = "unite" THEN "link" ELSE "hook"
      BY <1>3, <2>2 DEF FoundV
    <3>2. Same(i[t], v[t]) /\ load.init[i[t]] = i[t] /\ load.init[u[t]] = u[t] /\ Pair(t)
      BY <3>1
    <3>3. Pair(t)'
      BY <1>d, <1>p, <3>1, <3>2
    <3>4. unite_option = "unite" \/ unite_option = "unite_nd"
      BY <3>1
    <3> QED
      BY <2>2, <3>1, <3>2, <3>3, <3>4
  <2> QED
    BY <2>1, <2>2
<1>4. CASE Link(t)
  <2>1. CASE parents[High(t)] = High(t)
    BY <1>4, <2>1 DEF Link, EndIteration
  <2>2. CASE parents[High(t)] # High(t)
    <3>1. pc[t] = "link" /\ pc'[t] = "unite" /\ UNCHANGED <<op, u, v>>
      BY <1>4, <2>2 DEF Link
    <3>2. Pair(t)'
      BY <1>d, <1>p, <3>1
    <3> QED
      BY <3>1, <3>2
  <2> QED
    BY <2>1, <2>2
<1>5. CASE Hook(t)
  <2>1. /\ pc[t] = "hook" /\ unite_option = "unite_nd" /\ u[t] # v[t]
        /\ u' = [u EXCEPT ![t] = High(t)] /\ v' = [v EXCEPT ![t] = Low(t)]
        /\ UNCHANGED <<parents, op, ret, i, j, w>>
    BY <1>5 DEF Hook
  <2>2. Pair(t) /\ load.init[High(t)] = High(t)
    BY <2>1, <1>h
  <2>3. u'[t] = High(t) /\ v'[t] = Low(t) /\ op'[t] = op[t] /\ Low(t) < High(t)
    BY <2>1, <1>h
  <2>4. Pair(t)'
    BY <2>1, <2>2, <2>3, <1>h DEF Pair
  <2>5. CASE hooks[High(t)] = N
    <3>1. hooks' = [hooks EXCEPT ![High(t)] = Low(t)] /\ pc'[t] = "hook_store"
      BY <1>5, <2>5 DEF Hook
    <3>2. parents[High(t)] = High(t)
      BY <2>1, <2>2, <2>5, <1>h DEF IInv, HooksClaim
    <3>3. hooks'[High(t)] # N
      BY <3>1, <1>h
    <3> QED
      BY <2>1, <2>3, <2>4, <3>1, <3>2, <3>3
  <2>6. CASE hooks[High(t)] # N
    <3>1. pc'[t] = "unite"
      BY <1>5, <2>6 DEF Hook
    <3> QED
      BY <2>4, <3>1
  <2> QED
    BY <2>5, <2>6
<1>6. CASE HookStore(t)
  BY <1>6 DEF HookStore, EndIteration
<1>7. CASE EarlyLink(t)
  <2>1. CASE u[t] = v[t]
    <3>1. pc[t] = "unite" /\ pc'[t] = "force_u" /\ op' = op
      BY <1>7, <2>1 DEF EarlyLink
    <3>2. Same(op[t][1], op[t][2]) /\ Uniting(t)
      BY <2>1, <3>1 DEF Pair
    <3> QED
      BY <3>1, <3>2
  <2>2. CASE u[t] # v[t] /\ parents[High(t)] = High(t)
    <3>1. Ancestor'[op[t][1]] = Ancestor'[op[t][2]]
      BY <1>7, <1>P, <2>2, UniteRecords, JoinJoinsArguments
    <3>2. pc'[t] = "force_u" /\ op' = op
      BY <1>7, <2>2 DEF EarlyLink
    <3> QED
      BY <3>1, <3>2
  <2>3. CASE u[t] # v[t] /\ parents[High(t)] # High(t)
    <3>1. /\ pc[t] = "unite" /\ pc'[t] = "early_z"
          /\ u' = [u EXCEPT ![t] = High(t)] /\ v' = [v EXCEPT ![t] = Low(t)]
          /\ UNCHANGED <<parents, op, ret, i, j, w>>
      BY <1>7, <2>3 DEF EarlyLink
    <3>2. u'[t] = High(t) /\ v'[t] = Low(t) /\ op'[t] = op[t]
      BY <3>1
    <3>3. Pair(t) /\ Uniting(t)
      BY <3>1
    <3>4. Pair(t)'
      BY <3>1, <3>2, <3>3, <1>h DEF Pair
    <3> QED
      BY <2>3, <3>1, <3>2, <3>4
  <2> QED
    BY <2>1, <2>2, <2>3
<1>8. CASE EarlyReadZ(t)
  <2>1. pc[t] = "early_z" /\ pc'[t] = "early_w" /\ j'[t] = parents[u[t]] /\ UNCHANGED <<op, u, v>>
    BY <1>8 DEF EarlyReadZ
  <2>2. parents[u[t]] < u[t]
    BY <1>c, <1>d, <2>1
  <2>3. Pair(t)' /\ Ancestor'[parents[u[t]]] = Ancestor'[u[t]]
    BY <1>d, <1>p, <2>1
  <2> QED
    BY <2>1, <2>2, <2>3
<1>9. CASE EarlyReadW(t)
  <2>1. /\ pc[t] = "early_w" /\ pc'[t] = "early_cas" /\ w'[t] = parents[j[t]]
        /\ UNCHANGED <<op, u, v>> /\ j'[t] = j[t]
    BY <1>9 DEF EarlyReadW
  <2>2. parents[j[t]] < u[t] /\ j[t] < u[t]
    BY <1>0, <1>d, <2>1
  <2>3. /\ Pair(t)'
        /\ Ancestor'[j[t]] = Ancestor'[u[t]] /\ Ancestor'[parents[j[t]]] = Ancestor'[u[t]]
    BY <1>d, <1>p, <2>1
  <2> QED
    BY <2>1, <2>2, <2>3
<1>10. CASE EarlyCas(t)
  <2>1. pc[t] = "early_cas" /\ pc'[t] = "unite" /\ u'[t] = w[t] /\ v'[t] = v[t] /\ op'[t] = op[t]
    BY <1>10 DEF EarlyCas
  <2>2. Pair(t)'
    BY <1>d, <1>p, <2>1
  <2> QED
    BY <2>1, <2>2
<1>11. CASE ForceU(t)
  <2>1. CASE find_option = "find_naive"
    BY <1>11, <2>1 DEF ForceU, EndIteration
  <2>2. CASE find_option # "find_naive"
    BY <1>11, <2>2 DEF ForceU, CallFind
  <2> QED
    BY <2>1, <2>2
<1>12. CASE ForceV(t)
  BY <1>12 DEF ForceV, CallFind
<1>13. CASE Forced(t)
  BY <1>13 DEF Forced, EndIteration
<1> QED
  BY <1>1, <1>2, <1>3, <1>4, <1>5, <1>6, <1>7, <1>8, <1>9, <1>10, <1>11, <1>12, <1>13 DEF UniteStep

\* Unite returns once the arguments are in one tree.
LEMMA UniteMerges ==
  ASSUME IInv, NEW t \in Threads, UniteStep(t) PROVE Merges(t)
<1>R. TreeStep(t)
  BY UniteRecords, RecordsIsTreeStep
<1>P. PointsDown(parents) /\ PointsDown(parents') /\ load \in Workloads
  BY <1>R, StepPointsDown DEF IInv, UFInv, UFTyped, Typed, UFTypeOK
<1>g. \A x, y \in Vertices : Same(x, y) => Ancestor'[x] = Ancestor'[y]
  BY <1>P, <1>R, TreesOnlyGrow
<1>o. Uniting(t) => op[t][1] \in Vertices /\ op[t][2] \in Vertices
  BY <1>P, UFAssumption DEF IInv, TypeInv, Typed, Ops
<1>t. UniteInTree(t)
  BY DEF IInv
<1>1. CASE JoinsTrees(t)
  BY <1>P, <1>1, JoinJoinsArguments DEF Merges
<1>2. CASE FoundV(t) /\ i[t] = u[t]
  <2>1. pc[t] = "found_v"
    BY <1>2 DEF FoundV
  <2>2. Same(i[t], v[t]) /\ Pair(t)
    BY <1>t, <2>1 DEF UniteInTree, Toward, InPair
  <2>3. Same(op[t][1], op[t][2])
    BY <1>2, <2>2 DEF Pair, Same
  <2> QED
    BY <1>g, <1>o, <2>3 DEF Merges
<1>3. CASE Forced(t) \/ ForceU(t)
  <2>1. pc[t] \in {"forced", "force_u"}
    BY <1>3 DEF Forced, ForceU
  <2>2. Same(op[t][1], op[t][2])
    BY <1>t, <2>1 DEF UniteInTree, Toward, Forcing
  <2> QED
    BY <1>g, <1>o, <2>2 DEF Merges
<1>4. CASE ~JoinsTrees(t) /\ ~(FoundV(t) /\ i[t] = u[t]) /\ ~Forced(t) /\ ~ForceU(t)
  <2>1. UNCHANGED op
    <3>1. CASE Link(t)
      BY <1>4, <3>1, UniteRecords DEF Link
    <3>2. CASE ~Link(t)
      <4>1. ~HookStore(t)
        BY <1>4, UniteRecords
      <4> QED
        BY <1>4, <3>2, <4>1 DEF UniteStep, FindU, FindV, FoundV, Hook, EarlyLink, EarlyReadZ, EarlyReadW, EarlyCas, ForceV
    <3> QED
      BY <3>1, <3>2
  <2> QED
    BY <2>1 DEF Merges
<1> QED
  BY <1>1, <1>2, <1>3, <1>4

-----------------------------------------------------------------------------
(* The other steps.                                                        *)

\* A find returns to unite what unite asked for, and a new call has its
\* arguments in u and v.
LEMMA FindLoopStaysInTree ==
  ASSUME IInv, PointsDown(parents'), NEW t \in Threads, Find(t) \/ Loop(t), TreeStep(t), TypeInv'
  PROVE  UniteInTree(t)'
<1>P. PointsDown(parents) /\ UFInv /\ load \in Workloads
  BY DEF IInv, UFInv, UFTyped, Typed, UFTypeOK
<1>g. \A x, y \in Vertices : Same(x, y) => Ancestor'[x] = Ancestor'[y]
  BY <1>P, TreesOnlyGrow
<1>t. UniteInTree(t)
  BY DEF IInv
<1>T. /\ pc \in [Threads -> Labels] /\ ret \in [Threads -> ReturnLabels]
      /\ \E ops : op \in [Threads -> ops]
      /\ u \in [Threads -> Vertices] /\ v \in [Threads -> Vertices] /\ i \in [Threads -> Vertices]
  BY DEF IInv, TypeInv, Typed, UFTypeOK
<1>1. CASE Find(t)
  <2>1. /\ op'[t] = op[t] /\ u'[t] = u[t] /\ v'[t] = v[t] /\ ret'[t] = ret[t]
        /\ load' = load /\ unite_option' = unite_option /\ pc[t] \in FindLabels
        /\ pc'[t] \in FindLabels \/ (pc'[t] = ret[t] /\ load.init[i'[t]] = i'[t])
        /\ Ancestor'[i'[t]] = Ancestor'[i[t]]
    BY <1>1, <1>P, FindReturnsRoot
  <2>2. ret[t] \in ReturnLabels /\ i[t] \in Vertices /\ u[t] \in Vertices /\ v[t] \in Vertices
    BY <1>T
  <2>3. Toward(t, InPair \cup Forcing) => op[t][1] \in Vertices /\ op[t][2] \in Vertices
    BY <1>P, UFAssumption DEF Toward, InPair, Forcing, IInv, TypeInv, Typed, Uniting, FindLabels, Elsewhere, Ops
  <2>4. Toward(t, InPair) => Pair(t)
    BY <1>t DEF UniteInTree
  <2>5. Toward(t, Forcing) => Same(op[t][1], op[t][2])
    BY <1>t DEF UniteInTree
  <2>6. \A labels : labels \cap FindLabels = {} => (Toward(t, labels)' => Toward(t, labels))
    BY <2>1 DEF Toward
  <2>7. InPair \cap FindLabels = {} /\ Forcing \cap FindLabels = {} /\ {"found_u"} \cap FindLabels = {}
        /\ {"found_v"} \cap FindLabels = {} /\ {"found_u", "found_v"} \cap FindLabels = {}
    BY DEF InPair, Forcing, FindLabels
  <2>8. /\ Toward(t, InPair)' => Toward(t, InPair) /\ Toward(t, InPair \cup Forcing)
        /\ Toward(t, Forcing)' => Toward(t, Forcing) /\ Toward(t, InPair \cup Forcing)
    BY <2>1 DEF Toward, InPair, Forcing, FindLabels
  <2>9. (Toward(t, InPair) => Pair(t))'
    <3>1. Toward(t, InPair)' => Pair(t) /\ op[t][1] \in Vertices /\ op[t][2] \in Vertices
      BY <2>3, <2>4, <2>8
    <3> QED
      BY <1>g, <2>1, <2>2, <3>1 DEF Pair, Same
  <2>10. (Toward(t, Forcing) => Same(op[t][1], op[t][2]))'
    <3>1. Toward(t, Forcing)' => Same(op[t][1], op[t][2]) /\ op[t][1] \in Vertices /\ op[t][2] \in Vertices
      BY <2>3, <2>5, <2>8
    <3> QED
      BY <1>g, <2>1, <3>1 DEF Same
  <2>11. /\ Toward(t, {"found_u"})' => Same(i[t], u[t])
         /\ Toward(t, {"found_v"})' => Same(i[t], v[t]) /\ load.init[u[t]] = u[t]
         /\ Toward(t, {"found_u", "found_v"})' => unite_option \in {"unite", "unite_nd"}
    <3>1. /\ Toward(t, {"found_u"}) => Same(i[t], u[t])
          /\ Toward(t, {"found_v"}) => Same(i[t], v[t]) /\ load.init[u[t]] = u[t]
          /\ Toward(t, {"found_u", "found_v"}) => unite_option \in {"unite", "unite_nd"}
      BY <1>t DEF UniteInTree
    <3> QED
      BY <2>6, <2>7, <3>1
  <2>12. /\ (Toward(t, {"found_u"}) => Same(i[t], u[t]))'
         /\ (Toward(t, {"found_v"}) => Same(i[t], v[t]) /\ load.init[u[t]] = u[t])'
         /\ (Toward(t, {"found_u", "found_v"}) => unite_option \in {"unite", "unite_nd"})'
    BY <1>g, <2>1, <2>2, <2>11 DEF Same
  <2>13. /\ pc'[t] \notin {"link", "hook", "hook_store", "early_z", "early_w", "early_cas"}
         /\ pc'[t] \in {"found_u", "found_v"} => load.init[i'[t]] = i'[t]
    BY <2>1, <2>2 DEF FindLabels, ReturnLabels
  <2> QED
    BY <2>1, <2>9, <2>10, <2>12, <2>13 DEF UniteInTree
<1>2. CASE TakeEdge(t)
  <2>1. PICK o \in todo :
          op' = [op EXCEPT ![t] = o] /\ u' = [u EXCEPT ![t] = o[1]] /\ v' = [v EXCEPT ![t] = o[2]]
    BY <1>2 DEF TakeEdge
  <2>2. pc'[t] = "unite"
    BY <1>2, <1>T DEF TakeEdge
  <2>3. op'[t] = o /\ u'[t] = o[1] /\ v'[t] = o[2]
    BY <1>T, <2>1
  <2>4. Pair(t)'
    BY <2>3 DEF Pair, Same
  <2> QED
    BY <2>2, <2>4 DEF UniteInTree, Toward, Forcing, FindLabels
<1>3. CASE Loop(t) /\ ~TakeEdge(t)
  <2>1. /\ pc'[t] \in FindLabels \cup Elsewhere \cup {"idle"}
        /\ pc'[t] \in FindLabels => ret'[t] \in Elsewhere
    BY <1>3, <1>T DEF Loop, TakeQuery, QueryV, EndQuery, TakeVertex, Relabel, CallFind, EndIteration, FindLabels, Elsewhere
  <2> QED
    BY <2>1 DEF UniteInTree, Toward, InPair, Forcing, FindLabels, Elsewhere
<1> QED
  BY <1>1, <1>2, <1>3

\* What the other threads know stays true: a step never separates vertices, and
\* links no root that another thread has hooked.
LEMMA OthersKnow ==
  ASSUME IInv, NEW t \in Threads, Move(t), TreeStep(t), UNCHANGED <<load, unite_option>>,
         \A x \in Vertices : hooks[x] # N => hooks'[x] # N,
         unite_option = "unite_nd" =>
           \A x \in Vertices : parents[x] = x => parents'[x] = x \/ (pc[t] = "hook_store" /\ x = u[t]),
         NEW s \in Threads, s # t
  PROVE  UniteInTree(s)'
<1>P. PointsDown(parents) /\ PointsDown(parents') /\ load \in Workloads /\ UFTyped
  BY StepPointsDown DEF IInv, UFInv, UFTyped, Typed, UFTypeOK
<1>g. /\ \A x, y \in Vertices : Same(x, y) => Ancestor'[x] = Ancestor'[y]
      /\ \A x \in Vertices : parents[x] # x => parents'[x] # x
  BY <1>P, TreesOnlyGrow
<1>s. /\ pc'[s] = pc[s] /\ ret'[s] = ret[s] /\ op'[s] = op[s] /\ u'[s] = u[s] /\ v'[s] = v[s]
      /\ i'[s] = i[s] /\ j'[s] = j[s] /\ w'[s] = w[s]
  BY <1>P, OthersKeepLocals DEF SameLocals
<1>t. u[s] \in Vertices /\ v[s] \in Vertices /\ i[s] \in Vertices /\ j[s] \in Vertices /\ w[s] \in Vertices
  BY DEF IInv, TypeInv, Typed, UFTypeOK
<1>o. Toward(s, InPair) \/ Toward(s, Forcing) => op[s][1] \in Vertices /\ op[s][2] \in Vertices
  BY <1>P, UFAssumption DEF Toward, InPair, Forcing, IInv, TypeInv, Typed, Uniting, FindLabels, Elsewhere, Ops
<1>I. UniteInTree(s)
  BY DEF IInv
<1>W. \A labels : Toward(s, labels)' <=> Toward(s, labels)
  BY <1>s DEF Toward
<1>1. (Toward(s, InPair) => Pair(s))'
  <2>1. Toward(s, InPair) => Pair(s)
    BY <1>I DEF UniteInTree
  <2>2. Toward(s, InPair)' => Toward(s, InPair)
    BY <1>s DEF Toward, InPair
  <2>3. Toward(s, InPair)' => Pair(s) /\ op[s][1] \in Vertices /\ op[s][2] \in Vertices
    BY <1>o, <2>1, <2>2
  <2> QED
    BY <1>g, <1>s, <1>t, <2>3 DEF Pair, Same
<1>2. (Toward(s, Forcing) => Same(op[s][1], op[s][2]))'
  <2>1. Toward(s, Forcing) => Same(op[s][1], op[s][2])
    BY <1>I DEF UniteInTree
  <2>2. Toward(s, Forcing)' => Toward(s, Forcing)
    BY <1>s DEF Toward, Forcing
  <2>3. Toward(s, Forcing)' => Same(op[s][1], op[s][2]) /\ op[s][1] \in Vertices /\ op[s][2] \in Vertices
    BY <1>o, <2>1, <2>2
  <2> QED
    BY <1>g, <1>s, <2>3 DEF Same
<1>3. /\ (Toward(s, {"found_u"}) => Same(i[s], u[s]))'
      /\ (Toward(s, {"found_v"}) => Same(i[s], v[s]))'
      /\ (pc[s] \in {"early_w", "early_cas"} => Same(j[s], u[s]) /\ j[s] < u[s])'
      /\ (pc[s] = "early_cas" => Same(w[s], u[s]) /\ w[s] < u[s])'
  <2>1. /\ Toward(s, {"found_u"})' => Same(i[s], u[s])
        /\ Toward(s, {"found_v"})' => Same(i[s], v[s])
        /\ pc[s] \in {"early_w", "early_cas"} => Same(j[s], u[s]) /\ j[s] < u[s]
        /\ pc[s] = "early_cas" => Same(w[s], u[s]) /\ w[s] < u[s]
    BY <1>I, <1>W DEF UniteInTree
  <2> QED
    BY <1>g, <1>s, <1>t, <2>1 DEF Same
<1>4. /\ (Toward(s, {"found_u", "found_v"}) => unite_option \in {"unite", "unite_nd"})'
      /\ (pc[s] \in {"found_u", "found_v"} => load.init[i[s]] = i[s])'
      /\ (pc[s] \in {"link", "hook"} \/ Toward(s, {"found_v"}) => load.init[u[s]] = u[s])'
      /\ (pc[s] \in {"link", "hook"} => load.init[v[s]] = v[s] /\ u[s] # v[s])'
      /\ (pc[s] = "link" => unite_option = "unite")'
      /\ (pc[s] \in {"hook", "hook_store"} => unite_option = "unite_nd")'
      /\ (pc[s] = "early_z" => parents[u[s]] # u[s])'
  BY <1>I, <1>W, <1>g, <1>s, <1>t DEF UniteInTree
<1>5. (pc[s] = "hook_store" => v[s] < u[s] /\ parents[u[s]] = u[s] /\ hooks[u[s]] # N)'
  <2>1. pc[s] = "hook_store" =>
          v[s] < u[s] /\ parents[u[s]] = u[s] /\ hooks[u[s]] # N /\ unite_option = "unite_nd"
    BY <1>I DEF UniteInTree
  <2>2. pc[s] = "hook_store" /\ pc[t] = "hook_store" => u[s] # u[t]
    BY DEF IInv, HooksClaim
  <2> QED
    BY <1>s, <1>t, <2>1, <2>2
<1> QED
  BY <1>1, <1>2, <1>3, <1>4, <1>5, Zenon DEF UniteInTree

\* Hooks are claimed once, and a root that began as one is linked by its hook.
LEMMA HooksStayClaimed ==
  ASSUME IInv, NEW t \in Threads, Move(t), UNCHANGED <<load, unite_option>>,
         pc'[t] = "hook_store" => hooks[u'[t]] = N,
         \A x \in Vertices : hooks'[x] = N => hooks[x] = N,
         unite_option = "unite_nd" =>
           \A x \in Vertices : parents[x] = x => parents'[x] = x \/ (pc[t] = "hook_store" /\ x = u[t])
  PROVE  HooksClaim'
<1>1. \A s \in Threads : s # t => pc'[s] = pc[s] /\ u'[s] = u[s]
  BY OthersKeepLocals DEF IInv, UFInv, SameLocals
<1>2. \A s \in Threads : pc[s] = "hook_store" => hooks[u[s]] # N
  BY DEF IInv, UniteInTree
<1>3. ASSUME NEW a \in Threads, NEW b \in Threads, a # b, pc'[a] = "hook_store", pc'[b] = "hook_store"
      PROVE  u'[a] # u'[b]
  BY <1>1, <1>2, <1>3 DEF IInv, HooksClaim
<1>4. ASSUME unite_option = "unite_nd", NEW x \in Vertices, load.init[x] = x, hooks'[x] = N
      PROVE  parents'[x] = x
  <2>1. hooks[x] = N /\ parents[x] = x
    BY <1>4 DEF IInv, HooksClaim
  <2> QED
    BY <1>2, <1>4, <2>1
<1> QED
  BY <1>3, <1>4 DEF HooksClaim

\* The hooks: only Hook writes one, of a vertex that had none.
LEMMA HookWrites ==
  ASSUME IInv, NEW t \in Threads, UniteStep(t)
  PROVE  /\ pc'[t] = "hook_store" => hooks[u'[t]] = N
         /\ \A x \in Vertices : hooks'[x] = N => hooks[x] = N
<1>T. /\ pc \in [Threads -> Labels] /\ u \in [Threads -> Vertices] /\ hooks \in [Vertices -> Vertices \cup {N}]
  BY DEF IInv, TypeInv, Typed, UFTypeOK
<1>1. CASE Hook(t)
  <2>1. High(t) \in Vertices /\ Low(t) \in Vertices /\ N \notin Vertices
    BY HighLow, UFAssumption DEF IInv, Vertices
  <2>2. CASE hooks[High(t)] = N
    <3>1. hooks' = [hooks EXCEPT ![High(t)] = Low(t)] /\ u'[t] = High(t)
      BY <1>1, <1>T, <2>2 DEF Hook
    <3> QED
      BY <1>T, <2>1, <2>2, <3>1
  <2>3. CASE hooks[High(t)] # N
    <3>1. hooks' = hooks /\ pc'[t] = "unite"
      BY <1>1, <1>T, <2>3 DEF Hook
    <3> QED
      BY <3>1
  <2> QED
    BY <2>2, <2>3
<1>2. CASE ~Hook(t)
  <2>1. hooks' = hooks
    BY <1>2 DEF UniteStep, FindU, FindV, FoundV, Link, HookStore, EarlyLink, EarlyReadZ, EarlyReadW, EarlyCas,
                ForceU, ForceV, Forced
  <2>2. pc'[t] # "hook_store"
    BY <1>2, <1>T DEF UniteStep, FindU, FindV, FoundV, Link, HookStore, EarlyLink, EarlyReadZ, EarlyReadW, EarlyCas,
                      ForceU, ForceV, Forced, CallFind, EndIteration
  <2> QED
    BY <2>1, <2>2
<1> QED
  BY <1>1, <1>2

\* Every step of unite keeps the invariant.
LEMMA UniteKeeps ==
  ASSUME IInv, NEW t \in Threads, UniteStep(t)
  PROVE  IInv' /\ Move(t) /\ Records(t) /\ Merges(t)
<1>1. TypeInv' /\ UniteMoves(t)
  BY UniteTyped, UniteStepMoves DEF IInv
<1>2. /\ Records(t) /\ TreeStep(t)
      /\ unite_option = "unite_nd" =>
           \A x \in Vertices : parents[x] = x => parents'[x] = x \/ (pc[t] = "hook_store" /\ x = u[t])
  BY UniteRecords, RecordsIsTreeStep
<1>3. Merges(t)
  BY UniteMerges
<1>4. UFTyped'
  BY <1>1, LabelsFit DEF TypeInv, UFTyped
<1>5. UFInv'
  BY <1>1, <1>2, <1>3, <1>4, UniteKeepsUF DEF IInv
<1>6. Move(t) /\ UNCHANGED <<load, unite_option>>
  BY <1>1 DEF Move, UniteMoves
<1>7. EdgesInv'
  BY <1>2, <1>6, EdgesStep DEF IInv
<1>8. /\ pc'[t] = "hook_store" => hooks[u'[t]] = N
      /\ \A x \in Vertices : hooks'[x] = N => hooks[x] = N
  BY HookWrites
<1>9. HooksClaim'
  BY <1>2, <1>6, <1>8, HooksStayClaimed
<1>10. ASSUME NEW s \in Threads PROVE UniteInTree(s)'
  <2>1. CASE s = t
    BY <1>1, <2>1, UniteStaysInTree
  <2>2. CASE s # t
    BY <1>2, <1>6, <1>8, <2>2, OthersKnow
  <2> QED
    BY <2>1, <2>2
<1> QED
  BY <1>1, <1>2, <1>3, <1>5, <1>6, <1>7, <1>9, <1>10 DEF IInv

\* So does every step of the finds and the loops.
LEMMA CommonKeeps ==
  ASSUME IInv, NEW t \in Threads, Common(t)
  PROVE  IInv' /\ Move(t) /\ Records(t) /\ Merges(t)
<1>0. (Find(t) \/ Loop(t)) /\ hooks' = hooks
  BY DEF Common
<1>1. /\ UFInv' /\ TreeStep(t) /\ Merges(t) /\ Move(t) /\ Edges' = Edges
      /\ parents' = parents \/ Compresses
  BY <1>0, LabelsFit, FindLoopKeepsUF DEF IInv, TypeInv
<1>2. TypeInv'
  <2>1. Typed(Labels, ReturnLabels)'
    <3> DEFINE labels == Labels
               returns == ReturnLabels
    <3>1. Typed(labels, returns) /\ LabelSets(labels, returns) /\ labels' = labels /\ returns' = returns
      BY LabelsFit DEF IInv, TypeInv, Labels, ReturnLabels, FindLabels
    <3> HIDE DEF labels, returns
    <3> QED
      BY <1>0, <3>1, FindLoopTyped DEF labels, returns
  <2> QED
    BY <1>0, <2>1 DEF IInv, TypeInv
<1>3. Records(t)
  BY <1>1 DEF Records
<1>4. UNCHANGED <<load, unite_option>>
  BY <1>1, StepControl DEF IInv, UFInv
<1>5. EdgesInv'
  BY <1>3, <1>4, EdgesStep DEF IInv
<1>6. \A x \in Vertices : parents[x] = x => parents'[x] = x
  <2>1. ~JoinsTrees(t)
    <3> SUFFICES ASSUME NEW x \in Vertices, NEW y \in Vertices, Joins(t, x, y) PROVE FALSE
      BY DEF JoinsTrees
    <3>1. Uniting(t) /\ parents[x] = x /\ y < x /\ parents' = [parents EXCEPT ![x] = y]
      BY DEF Joins
    <3>2. parents'[x] = y /\ y # x
      BY <3>1, UFAssumption DEF IInv, UFInv, PointsDown, Vertices
    <3>3. CASE parents' = parents
      BY <3>1, <3>2, <3>3
    <3>4. CASE Compresses
      <4>1. PICK a, b \in Vertices : parents[a] # a /\ parents' = [parents EXCEPT ![a] = b]
        BY <3>4 DEF Compresses
      <4> QED
        BY <3>1, <3>2, <4>1 DEF IInv, UFInv, PointsDown
    <3> QED
      BY <1>1, <3>3, <3>4
  <2> QED
    BY <1>1, <2>1, StepPointsDown, TreesOnlyGrow DEF IInv, UFInv
<1>7. pc'[t] # "hook_store"
  <2>1. pc \in [Threads -> Labels] /\ ret[t] \in ReturnLabels
    BY DEF IInv, TypeInv, Typed, UFTypeOK
  <2>2. CASE Find(t)
    <3>1. pc'[t] \in FindLabels \/ pc'[t] = ret[t]
      BY <1>1, <2>2, StepPointsDown, FindReturnsRoot DEF IInv, UFInv
    <3> QED
      BY <2>1, <3>1 DEF FindLabels, ReturnLabels
  <2>3. CASE Loop(t)
    BY <2>1, <2>3 DEF Loop, TakeEdge, TakeQuery, QueryV, EndQuery, TakeVertex, Relabel, CallFind, EndIteration
  <2> QED
    BY <1>0, <2>2, <2>3
<1>8. HooksClaim'
  BY <1>0, <1>1, <1>4, <1>6, <1>7, HooksStayClaimed
<1>9. ASSUME NEW s \in Threads PROVE UniteInTree(s)'
  <2>1. CASE s = t
    BY <1>0, <1>1, <1>2, <2>1, StepPointsDown, FindLoopStaysInTree DEF IInv, UFInv
  <2>2. CASE s # t
    BY <1>0, <1>1, <1>4, <1>6, <2>2, OthersKnow
  <2> QED
    BY <2>1, <2>2
<1> QED
  BY <1>1, <1>2, <1>3, <1>5, <1>8, <1>9 DEF IInv

\* And the barriers, at which nothing changes but the phase.
LEMMA BarrierKeepsAll == ASSUME IInv, Barrier \/ UNCHANGED vars PROVE IInv'
<1>0. BarrierOrStutter /\ hooks' = hooks
  BY DEF Barrier, BarrierOrStutter, vars
<1>1. UNCHANGED <<parents, Edges, find_option, unite_option, load, todo, asked, relabel, pc, op, u, v, i, j, w, ret>>
  BY <1>0, BarrierKeeps
<1>2. UFInv' /\ Ancestor' = Ancestor
  BY <1>0, UFBarrier DEF IInv
<1>3. TypeInv'
  <2>1. Typed(Labels, ReturnLabels)'
    <3> DEFINE labels == Labels
               returns == ReturnLabels
    <3>1. Typed(labels, returns) /\ labels' = labels /\ returns' = returns
      BY DEF IInv, TypeInv, Labels, ReturnLabels, FindLabels
    <3> HIDE DEF labels, returns
    <3> QED
      BY <1>0, <3>1, BarrierTyped DEF labels, returns
  <2> QED
    BY <1>0, <2>1 DEF IInv, TypeInv
<1>4. EdgesInv'
  <2>1. Forest' = Forest /\ Start' = Start
    BY <1>1 DEF Forest, Start
  <2> QED
    BY <1>1, <2>1 DEF IInv, EdgesInv, HoldsTrees
<1>5. HooksClaim'
  BY <1>0, <1>1 DEF IInv, HooksClaim
<1>6. \A t \in Threads : UniteInTree(t)'
  <2> SUFFICES ASSUME NEW t \in Threads PROVE UniteInTree(t)'
    OBVIOUS
  <2>1. UniteInTree(t)
    BY DEF IInv
  <2>2. \A labels : Toward(t, labels)' <=> Toward(t, labels)
    BY <1>1 DEF Toward
  <2>3. \A x, y : Same(x, y)' <=> Same(x, y)
    BY <1>2 DEF Same
  <2> QED
    BY <1>0, <1>1, <1>2, <2>1 DEF UniteInTree, Toward, Same, Pair, InPair, Forcing
<1> QED
  BY <1>2, <1>3, <1>4, <1>5, <1>6 DEF IInv

\* The invariant holds at the start and every step keeps it.
LEMMA Inductive == (Init => IInv) /\ (IInv /\ [Next]_vars => IInv')
<1>1. ASSUME Init PROVE IInv
  <2>0. UFInit /\ hooks = [x \in Vertices |-> N]
    BY <1>1 DEF Init
  <2>1. UFInv /\ EdgesInv
    BY <2>0, LabelsFit, UFStart, EdgesStart
  <2>2. TypeInv
    <3>1. Typed(Labels, ReturnLabels)
      BY <2>0, LabelsFit, InitTyped
    <3> QED
      BY <2>0, <3>1 DEF TypeInv
  <2>3. /\ \A t \in Threads : pc[t] = "idle" 
        /\ parents = load.init
    BY <2>0 DEF UFInit
  <2>4. HooksClaim /\ \A t \in Threads : UniteInTree(t)
    BY <2>3 DEF HooksClaim, UniteInTree, Toward, InPair, Forcing, FindLabels
  <2> QED
    BY <2>1, <2>2, <2>4 DEF IInv
<1>2. ASSUME IInv, [Next]_vars PROVE IInv'
  BY <1>2, UniteKeeps, CommonKeeps, BarrierKeepsAll DEF Next
<1> QED
  BY <1>1, <1>2

-----------------------------------------------------------------------------
(* The theorems.                                                           *)

\* Every variable has its type: no vertex is UINT_E_MAX where it indexes.
THEOREM TypeCorrect == Spec => []TypeOK
<1>1. IInv => TypeOK
  BY DEF IInv, TypeInv, Typed, TypeOK
<1> QED
  BY <1>1, Inductive, PTL DEF Spec

\* Parents never point up, so every climb of find ends.
THEOREM ParentsPointDown == Spec => []ParentOrder
<1>1. IInv => ParentOrder
  BY DEF IInv, UFInv, PointsDown, ParentOrder
<1> QED
  BY <1>1, Inductive, PTL DEF Spec

\* No store joins vertices that the graph and the initial trees leave apart.
THEOREM NoFalseUnion == Spec => []ParentsStayInside
<1>1. IInv => ParentsStayInside
  BY ParentsInside DEF IInv
<1> QED
  BY <1>1, Inductive, PTL DEF Spec

\* No path compression undoes a link, though find_compress stores without a
\* compare-and-swap.
THEOREM LinksAreForGood == Spec => LinkedForGood
<1>1. ASSUME IInv, [Next]_vars
      PROVE  [\A x \in Vertices : parents[x] # x => parents'[x] # x]_vars
  <2>1. ASSUME NEW t \in Threads, UniteStep(t) \/ Common(t), NEW x \in Vertices, parents[x] # x
        PROVE  parents'[x] # x
    <3>1. TreeStep(t)
      BY <1>1, <2>1, UniteKeeps, CommonKeeps, RecordsIsTreeStep
    <3> QED
      BY <1>1, <2>1, <3>1, LinksStay DEF IInv
  <2>2. CASE Barrier
    <3>1. parents' = parents
      BY <2>2, BarrierKeeps DEF Barrier, BarrierOrStutter
    <3> QED
      BY <3>1
  <2> QED
    BY <1>1, <2>1, <2>2 DEF Next
<1> QED
  BY <1>1, Inductive, PTL DEF Spec, LinkedForGood

\* When the loops are done the labels are the components of the graph, and the
\* recorded calls are a spanning forest of it.
THEOREM ComponentsFound == Spec => []LabelsAndForest
<1>1. IInv => LabelsAndForest
  BY LabelsFound, ForestFound DEF IInv, LabelsAndForest
<1> QED
  BY <1>1, Inductive, PTL DEF Spec

\* Every step is one of the abstract disjoint sets, or changes none of them: a
\* call merges the sets of its arguments in one step, and returns only then.
THEOREM UniteLinearizable == Spec => Linearizable
<1>1. ASSUME IInv, [Next]_vars PROVE [Sets!DSNext]_(Sets!dsVars)
  <2>1. ASSUME NEW t \in Threads, UniteStep(t) \/ Common(t) PROVE [Sets!DSNext]_(Sets!dsVars)
    <3>1. IInv' /\ Move(t) /\ TreeStep(t) /\ Merges(t)
      BY <1>1, <2>1, UniteKeeps, CommonKeeps, RecordsIsTreeStep
    <3> QED
      BY <1>1, <3>1, StepOfSets DEF IInv
  <2>2. CASE Barrier \/ UNCHANGED vars
    <3>1. BarrierOrStutter
      BY <2>2 DEF Barrier, BarrierOrStutter, vars
    <3> QED
      BY <3>1, BarrierOfSets
  <2> QED
    BY <1>1, <2>1, <2>2 DEF Next
<1> QED
  BY <1>1, Inductive, PTL DEF Spec, Linearizable, Sets!DSSpec

=============================================================================
