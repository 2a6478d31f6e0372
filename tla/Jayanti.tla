------------------------------- MODULE Jayanti -------------------------------
(***************************************************************************)
(* Randomized linking by rank with two-try splitting                       *)
(* (benchmarks/Connectivity/UnionFind/jayanti.h and, with Edges,           *)
(* benchmarks/SpanningForest/UnionFind/jayanti.h): the unions of           *)
(* compute_components or the inserts and queries of process_batch, then    *)
(* the find loop.                                                          *)
(*                                                                         *)
(* vdata has two volatile members, and a copy of it is two loads: rank,    *)
(* whose top bit is is_root, and then par.  A compare-and-swap covers both.*)
(* The rank of a vertex that is no root never changes, so once a load has  *)
(* shown that, a copy is the load of its par alone.                        *)
(***************************************************************************)
EXTENDS SmallGraphs, Sequences

CONSTANTS
  N, Threads,
  FindOptions,   \* subset of {"find_simple", "find_twotrysplit"}
  Workloads,     \* [init, ops, queries]: what initialize copies, unions and queries
  MaxRank        \* bounds the ranks that random bits may reach

Vertices == 0..(N - 1)

JayantiAssumption ==
  /\ N \in Nat \ {0} /\ MaxRank \in Nat \ {0}
  /\ FindOptions \subseteq {"find_simple", "find_twotrysplit"}
  \* what sampling leaves: flat trees, their roots anywhere
  /\ \A l \in Workloads : \A x \in Vertices : l.init[l.init[x]] = l.init[x]

VARIABLES
  find_option, load,
  vdatas,      \* [root, rank, par] per vertex
  Edges,
  todo, relabel, phase,
  loc          \* the locals of each thread

jVars == <<find_option, load, vdatas, Edges, todo, relabel, phase, loc>>
choices == <<find_option, load>>

empty_edge == <<N, N>>
Idle == [pc |-> "idle", op |-> empty_edge, u |-> 0, v |-> 0,   \* of unite
         x |-> 0, y |-> 0, w |-> 0, ret |-> "idle",            \* of find
         ud |-> <<>>, vd |-> <<>>]                             \* of link

Init ==
  /\ find_option \in FindOptions /\ load \in Workloads
  /\ vdatas = [x \in Vertices |-> [root |-> load.init[x] = x, rank |-> 1, par |-> load.init[x]]]
  /\ Edges = [x \in Vertices |-> empty_edge]
  /\ todo = load.ops \cup load.queries /\ relabel = Vertices
  /\ phase = "unite"
  /\ loc = [t \in Threads |-> Idle]

At(t, pc) == loc[t].pc = pc
Become(t, s) == loc' = [loc EXCEPT ![t] = s]
Keep == UNCHANGED <<choices, vdatas, Edges, todo, relabel, phase>>
Return(s, x) == [s EXCEPT !.pc = s.ret, !.x = x, !.y = 0, !.w = 0]
CallFind(s, x, to) == [s EXCEPT !.pc = "test", !.x = x, !.ret = to]

-----------------------------------------------------------------------------
(* find and find_twotry_splitting *)
\* The test of either loop, and the load of the parent of a vertex that failed it.
FindTest(t) ==
  /\ At(t, "test")
  /\ Become(t, IF vdatas[loc[t].x].root THEN Return(loc[t], loc[t].x)
               ELSE [loc[t] EXCEPT !.pc = "parent"])
  /\ Keep
FindParent(t) ==
  /\ At(t, "parent")
  /\ LET p == vdatas[loc[t].x].par
     IN Become(t, IF find_option = "find_simple" THEN [loc[t] EXCEPT !.pc = "test", !.x = p]
                  ELSE [loc[t] EXCEPT !.pc = "vd1", !.y = p])
  /\ Keep
\* vd = vdatas[v]: a root is returned, else w is its parent.
SplitRoot(t) ==
  /\ loc[t].pc \in {"vd1", "vd2"}
  /\ Become(t, IF vdatas[loc[t].y].root THEN Return(loc[t], loc[t].y)
               ELSE [loc[t] EXCEPT !.pc = IF At(t, "vd1") THEN "w1" ELSE "w2"])
  /\ Keep
SplitW(t) ==
  /\ loc[t].pc \in {"w1", "w2"}
  /\ Become(t, [loc[t] EXCEPT !.pc = IF At(t, "w1") THEN "cas1" ELSE "cas2",
                              !.w = vdatas[loc[t].y].par])
  /\ Keep
SplitCas(t) ==
  /\ loc[t].pc \in {"cas1", "cas2"}
  /\ vdatas' = [vdatas EXCEPT ![loc[t].x].par = IF @ = loc[t].y THEN loc[t].w ELSE @]
  /\ Become(t, IF At(t, "cas1") THEN [loc[t] EXCEPT !.pc = "ud2", !.w = 0]
               ELSE [loc[t] EXCEPT !.pc = "test", !.x = loc[t].y, !.y = 0, !.w = 0])
  /\ UNCHANGED <<choices, Edges, todo, relabel, phase>>
SplitAgain(t) ==
  /\ At(t, "ud2")
  /\ Become(t, [loc[t] EXCEPT !.pc = "vd2", !.y = vdatas[loc[t].x].par])
  /\ Keep

-----------------------------------------------------------------------------
(* unite and link *)
Word(x) == <<vdatas[x].root, vdatas[x].rank>>
FindU(t) == At(t, "unite") /\ Become(t, CallFind(loc[t], loc[t].u, "found_u")) /\ Keep
FindV(t) ==
  /\ At(t, "found_u")
  /\ Become(t, CallFind([loc[t] EXCEPT !.u = loc[t].x], loc[t].v, "found_v"))
  /\ Keep
\* A query ends here; unite goes on until the roots are the same.
FoundV(t) ==
  /\ At(t, "found_v")
  /\ Become(t, IF loc[t].u = loc[t].x \/ loc[t].op \in load.queries THEN Idle
               ELSE [loc[t] EXCEPT !.pc = "ud_word", !.v = loc[t].x, !.x = 0])
  /\ Keep
LinkLoads(t) ==
  /\ LET s == loc[t] IN
     \/ At(t, "ud_word") /\ Become(t, [s EXCEPT !.pc = "ud_par", !.ud = Word(s.u)])
     \/ At(t, "ud_par") /\ Become(t, [s EXCEPT !.pc = "vd_word", !.ud = Append(s.ud, vdatas[s.u].par)])
     \/ At(t, "vd_word") /\ Become(t, [s EXCEPT !.pc = "vd_par", !.vd = Word(s.v)])
     \/ At(t, "vd_par") /\ Become(t, [s EXCEPT !.pc = "link", !.vd = Append(s.vd, vdatas[s.v].par)])
  /\ Keep

\* The vertex a link swaps, given the ranks read; of equal ranks the lower one.
Hooked(s) == IF s.ud[2] < s.vd[2] \/ (s.ud[2] = s.vd[2] /\ s.u < s.v) THEN s.u ELSE s.v
\* Mutant: compares the rank only.
RankUnchanged(x, d) == vdatas[x].rank = d[2]
Expected(x, d) == vdatas[x] = [root |-> TRUE, rank |-> d[2], par |-> d[3]]
Link(t) ==
  /\ At(t, "link")
  /\ LET s == loc[t]  x == Hooked(s)
         d == IF x = s.u THEN s.ud ELSE s.vd
         to == IF x = s.u THEN s.v ELSE s.u
         tie == s.ud[2] = s.vd[2]
     IN /\ \/ /\ s.ud[1] /\ s.vd[1] /\ Expected(x, d)
              /\ \E random_bit \in (IF tie /\ d[2] < MaxRank THEN BOOLEAN ELSE {FALSE}) :
                   /\ vdatas' = [vdatas EXCEPT ![x] =
                        [root |-> random_bit, rank |-> d[2] + (IF tie THEN 1 ELSE 0), par |-> to]]
                   /\ Edges' = IF random_bit THEN Edges ELSE [Edges EXCEPT ![x] = s.op]
           \/ /\ ~(s.ud[1] /\ s.vd[1] /\ Expected(x, d))
              /\ UNCHANGED <<vdatas, Edges>>
        /\ Become(t, [s EXCEPT !.pc = "unite", !.ud = <<>>, !.vd = <<>>])
  /\ UNCHANGED <<choices, todo, relabel, phase>>

-----------------------------------------------------------------------------
Start(t) ==
  /\ At(t, "idle") /\ phase = "unite"
  /\ \E o \in todo :
       /\ todo' = todo \ {o}
       /\ Become(t, [Idle EXCEPT !.pc = "unite", !.op = o, !.u = o[1], !.v = o[2]])
  /\ UNCHANGED <<choices, vdatas, Edges, relabel, phase>>

\* parents[i] = find(i, vdatas): nothing runs by then but finds.
Relabel(t) ==
  /\ At(t, "idle") /\ phase = "find"
  /\ \E x \in relabel :
       relabel' = relabel \ {x} /\ Become(t, CallFind(Idle, x, "labelled"))
  /\ UNCHANGED <<choices, vdatas, Edges, todo, phase>>
Labelled(t) == At(t, "labelled") /\ Become(t, Idle) /\ Keep

Barrier ==
  /\ \A t \in Threads : At(t, "idle")
  /\ \/ phase = "unite" /\ todo = {} /\ phase' = "find"
     \/ phase = "find" /\ relabel = {} /\ phase' = "done"
  /\ UNCHANGED <<choices, vdatas, Edges, todo, relabel, loc>>

Step(t) ==
  \/ FindTest(t) \/ FindParent(t) \/ SplitRoot(t) \/ SplitW(t) \/ SplitCas(t) \/ SplitAgain(t)
  \/ FindU(t) \/ FindV(t) \/ FoundV(t) \/ LinkLoads(t) \/ Link(t)
  \/ Start(t) \/ Relabel(t) \/ Labelled(t)
Next == (\E t \in Threads : Step(t)) \/ Barrier
Spec == Init /\ [][Next]_jVars
FairSpec == Spec /\ WF_jVars(Barrier) /\ \A t \in Threads : WF_jVars(Step(t))
-----------------------------------------------------------------------------
\* Where each vertex ends; the par of a root is no parent.
Parent == [x \in Vertices |-> IF vdatas[x].root THEN x ELSE vdatas[x].par]
RootOf == [x \in Vertices |-> Root(Parent, x)]
Asked == {<<o[1], o[2]>> : o \in load.ops}
Given == {<<x, load.init[x]>> : x \in Vertices}

\* Ranks read at different times never close a cycle, nor join vertices that
\* nothing asked to.
NeverOverMerges ==
  /\ \A x \in Vertices : Parent[RootOf[x]] = RootOf[x]
  /\ Refines(Vertices, RootOf, MinLabels(Vertices, Sym(Asked \cup Given)))

\* A find that has ended returned a vertex of the same tree: also one that read
\* the parts of a vertex at different times, or splits a path others split.
FindsStayInside ==
  \A t \in Threads : loc[t].pc \in {"test", "parent", "vd1", "w1", "cas1", "ud2", "vd2", "w2", "cas2"} =>
    RootOf[loc[t].x] = RootOf[IF loc[t].ret = "found_v" THEN loc[t].v
                              ELSE IF loc[t].ret = "found_u" THEN loc[t].u ELSE loc[t].x]

\* A union that has returned has joined its arguments.
UnitesHold ==
  \A o \in load.ops \ todo : (\A t \in Threads : loc[t].op # o) => RootOf[o[1]] = RootOf[o[2]]

\* The recorded edges are a spanning forest of what the unions joined.
ForestSpans ==
  phase = "done" =>
    LET F == {Edges[x] : x \in Vertices} \ {empty_edge}
    IN IsForest(Vertices, F \cup {e \in Given : e[1] # e[2]})
         /\ SamePartition(Vertices, RootOf, MinLabels(Vertices, Sym(F \cup Given)))

\* Every loop ends, whatever bits the links draw.
Terminates == <>(phase = "done")
=============================================================================
