---------------------------- MODULE SpeculativeFor ----------------------------
(***************************************************************************)
(* Deterministic reservations (gbbs/speculative_for.h) and the algorithms  *)
(* built on them.  A round takes the next iterations and those that failed *)
(* before; all of them reserve, then all that kept a reservation commit,   *)
(* in any order, and the failed ones are packed for the next round.        *)
(*   "mis"  one loop over the vertices (MaximalIndependentSetstep)         *)
(*   "mm"   MaximalMatching: loops over sampled edges (matchStep)          *)
(*   "mst"  PBBSMST: loops over batches of light edges (UnionFindStep)     *)
(* mis and mm call eff_for, mst speculative_for.                           *)
(***************************************************************************)
EXTENDS SmallGraphs, Integers, Sequences, SequencesExt, FiniteSetsExt

CONSTANTS
  N,
  Inputs,          \* [client, edges, granularity]; edges: <<u, v, weight>> with u < v
  n_filter_steps,  \* rounds of MaximalMatching that sample
  SpecTries        \* the default of maxTries in speculative_for; eff_for: see maxTries

V == 0..(N - 1)
MAX == 1000        \* no reservation

SpeculativeAssumption ==
  /\ N \in Nat \ {0} /\ n_filter_steps \in Nat /\ SpecTries \in Nat
  /\ \A x \in Inputs : /\ x.client \in {"mis", "mm", "mst"} /\ x.granularity \in Nat \ {0}
                       /\ \A e \in x.edges : e[1] \in V /\ e[2] \in V /\ e[1] < e[2]

VARIABLES
  in,
  left,          \* the edges still in the graph
  iter,          \* the rounds of the client
  E,             \* the iterations of the current loop: edges, or vertices
  loop,          \* [done, I, size, cur, tries]: numberDone, I, ..., round
  todo,          \* positions of I the current phase has not run yet
  keep,          \* positions whose iteration is kept for the next phase
  R,             \* the reservations of each vertex
  matched,       \* the vertices matched (mm)
  parents,       \* the union-find forest (mst)
  indices,       \* the roots each position found when it reserved (mst)
  Flags, FlagsNext,  \* 0 undecided, 1 chosen, 2 a neighbour is chosen (mis)
  result, before,    \* the edges won, and those won before the current loop
  phase          \* "outer", "size", "reserve", "commit", "done", "abort" or "exit"

specVars == <<in, left, iter, E, loop, todo, keep, R, matched, parents, indices,
              Flags, FlagsNext, result, before, phase>>

maxTries == CASE in.client = "mis" -> MAX [] in.client = "mm" -> N [] OTHER -> SpecTries
Ends(e) == {e[1], e[2]}
MaxRound(e) == e \div in.granularity + 1
Fresh(iterations) == [done |-> 0, I |-> << >>, size |-> 0,
                      cur |-> MaxRound(Len(iterations)), tries |-> 0]

Init ==
  /\ in \in Inputs /\ left = in.edges /\ iter = 0
  /\ E = << >> /\ loop = [done |-> 0, I |-> << >>, size |-> 0, cur |-> 1, tries |-> 0]
  /\ todo = {} /\ keep = {}
  /\ R = [v \in V |-> MAX] /\ matched = {} /\ parents = [v \in V |-> v]
  /\ indices = << >>
  /\ Flags = [v \in V |-> 0] /\ FlagsNext = Flags
  /\ result = {} /\ before = {} /\ phase = "outer"

\* A loop over the iterations s starts.
Begin(s) ==
  /\ E' = s /\ loop' = Fresh(s) /\ before' = result /\ phase' = "size"
Wait == UNCHANGED <<in, todo, keep, R, matched, parents, indices, Flags, FlagsNext, result>>

\* MaximalIndependentSet runs one loop over all vertices.
MISLoop ==
  /\ in.client = "mis" /\ phase = "outer" /\ iter = 0
  /\ iter' = 1 /\ Begin([v \in 1..N |-> v - 1])
  /\ Wait /\ UNCHANGED left

\* get_edges drops the edges to matched vertices and takes those that hash
\* below the threshold, get_all_edges takes all; either permutes them.
Sampled(S) == \E s \in SetToSeqs(S) : Begin(s)
MMLoop ==
  /\ in.client = "mm" /\ phase = "outer" /\ left # {}
  /\ LET live == {e \in left : e[2] \notin matched}
         alive == {e \in left : Ends(e) \cap matched = {}}
         finish == iter = 0 /\ Cardinality(in.edges) <= (3 * N) \div 2
     IN IF iter >= n_filter_steps
        THEN left' = {} /\ Sampled(alive)
        ELSE \E S \in IF finish THEN {live} ELSE SUBSET live : left' = live \ S /\ Sampled(S)
  /\ iter' = iter + 1
  /\ Wait

\* get_top_k takes the edges up to the weight of a sampled one, all of them
\* when there are no more than n; an empty sample ends the process (exit(0)).  The
\* sort by weight is not stable.
Sorted(S) == {s \in SetToSeqs(S) : \A i, j \in DOMAIN s : i < j => s[i][3] <= s[j][3]}
MSTLoop ==
  /\ in.client = "mst" /\ phase = "outer" /\ left # {}
  /\ LET directed == IF iter = 0 THEN 2 * Cardinality(left) ELSE Cardinality(left)
     IN \/ \E split \in IF directed <= N THEN {Greatest({e[3] : e \in left})} ELSE {e[3] : e \in left} :
             LET S == {e \in left : e[3] <= split}
             IN left' = left \ S /\ \E s \in Sorted(S) : Begin(s)
        \/ /\ directed > N
           /\ phase' = "exit" /\ UNCHANGED <<left, E, loop, before>>
  /\ iter' = iter + 1
  /\ Wait

-----------------------------------------------------------------------------
\* A round of the loop begins: I holds what was kept, and the next iterations.
StartRound ==
  /\ phase = "size" /\ loop.done < Len(E)
  /\ IF loop.tries > maxTries
     THEN phase' = "abort" /\ UNCHANGED <<loop, todo, keep>>
     ELSE LET size == Least({loop.cur, Len(E) - loop.done})
              I == [i \in 1..size |-> IF i <= Len(loop.I) THEN loop.I[i] ELSE loop.done + i]
          IN /\ loop' = [loop EXCEPT !.I = I, !.size = size, !.tries = @ + 1]
             /\ todo' = 1..size /\ keep' = {} /\ phase' = "reserve"
  /\ UNCHANGED <<in, left, iter, E, R, matched, parents, indices, Flags, FlagsNext, result, before>>

It(p) == E[loop.I[p]]
Reserved(p, S) == [v \in V |-> IF v \in S THEN Least({R[v], loop.I[p]}) ELSE R[v]]

\* reserve of MaximalIndependentSetstep: look at the earlier neighbours.
Earlier(v) == {u \in V : u < v /\ \E e \in in.edges : Ends(e) = {u, v}}
ReserveMIS(p) ==
  /\ LET flags == {Flags[u] : u \in Earlier(It(p))}
     IN FlagsNext' = [FlagsNext EXCEPT ![It(p)] =
                        IF 1 \in flags THEN 2 ELSE IF 0 \in flags THEN 0 ELSE 1]
  /\ keep' = keep \cup {p} /\ UNCHANGED <<R, indices>>
\* reserve of matchStep: a matched edge is dropped.
ReserveMM(p) ==
  /\ IF Ends(It(p)) \cap matched # {}
     THEN UNCHANGED <<R, keep>>
     ELSE R' = Reserved(p, Ends(It(p))) /\ keep' = keep \cup {p}
  /\ UNCHANGED <<FlagsNext, indices>>
\* reserve of UnionFindStep: an edge inside a component is dropped.
ReserveMST(p) ==
  /\ LET u == Root(parents, It(p)[1]) v == Root(parents, It(p)[2])
     IN IF u = v
        THEN UNCHANGED <<R, keep, indices>>
        ELSE /\ R' = Reserved(p, {u, v}) /\ keep' = keep \cup {p}
             /\ indices' = [q \in DOMAIN indices \cup {p} |-> IF q = p THEN <<u, v>> ELSE indices[q]]
  /\ UNCHANGED FlagsNext
Reserve(p) ==
  /\ phase = "reserve" /\ p \in todo
  /\ CASE in.client = "mis" -> ReserveMIS(p)
       [] in.client = "mm" -> ReserveMM(p)
       [] in.client = "mst" -> ReserveMST(p)
  /\ todo' = todo \ {p}
  /\ UNCHANGED <<in, left, iter, E, loop, matched, parents, Flags, result, before, phase>>
AllReserved ==
  /\ phase = "reserve" /\ todo = {}
  /\ phase' = "commit" /\ todo' = keep
  /\ UNCHANGED <<in, left, iter, E, loop, keep, R, matched, parents, indices, Flags,
                 FlagsNext, result, before>>

CommitMIS(p) ==
  /\ Flags' = [Flags EXCEPT ![It(p)] = FlagsNext[It(p)]]
  /\ keep' = IF FlagsNext[It(p)] > 0 THEN keep \ {p} ELSE keep
  /\ UNCHANGED <<R, matched, parents, result>>
\* commit of matchStep wins with both reservations, and frees what it holds.
\* Mutant: an edge that lost one end keeps the reservation of the other.
HeldByWinner(p) == LET held == {v \in Ends(It(p)) : R[v] = loop.I[p]}
                   IN IF held = Ends(It(p)) THEN held ELSE {}
Held(p) == {v \in Ends(It(p)) : R[v] = loop.I[p]}
Wins(p) == \A v \in Ends(It(p)) : R[v] = loop.I[p]
CommitMM(p) ==
  /\ R' = [v \in V |-> IF v \in Held(p) THEN MAX ELSE R[v]]
  /\ IF Wins(p)
     THEN /\ matched' = matched \cup Ends(It(p)) /\ result' = result \cup {It(p)}
          /\ keep' = keep \ {p}
     ELSE UNCHANGED <<matched, result, keep>>
  /\ UNCHANGED <<parents, Flags>>
\* commit of UnionFindStep wins with one reservation, that of v first: this
\* root is linked to the other.
Linked(p) ==
  LET u == indices[p][1] v == indices[p][2]
  IN IF R[v] = loop.I[p] THEN <<v, u>> ELSE IF R[u] = loop.I[p] THEN <<u, v>> ELSE << >>
CommitMST(p) ==
  LET link == Linked(p)
  IN /\ IF link = << >> THEN UNCHANGED <<parents, result, keep>>
        ELSE /\ parents' = [parents EXCEPT ![link[1]] = link[2]]
             /\ result' = result \cup {It(p)} /\ keep' = keep \ {p}
     /\ R' = [v \in V |-> IF v \in Range(indices[p]) /\ R[v] = loop.I[p] THEN MAX ELSE R[v]]
     /\ UNCHANGED <<matched, Flags>>
Commit(p) ==
  /\ phase = "commit" /\ p \in todo
  /\ CASE in.client = "mis" -> CommitMIS(p)
       [] in.client = "mm" -> CommitMM(p)
       [] in.client = "mst" -> CommitMST(p)
  /\ todo' = todo \ {p}
  /\ UNCHANGED <<in, left, iter, E, loop, indices, FlagsNext, before, phase>>

\* The failed iterations are packed, in order, and the round size adjusted.
Resized(kept) ==
  LET most == MaxRound(Len(E)) IN
  IF in.client = "mst" /\ 5 * kept > loop.size
  THEN Greatest({loop.cur \div 2, most \div 64 + 1, kept})
  ELSE IF 10 * kept < loop.size THEN Least({2 * loop.cur, most}) ELSE loop.cur
\* Mutant: the iterations that are kept count as done.
AllDone(kept) == loop.size
NumDone(kept) == loop.size - kept
EndRound ==
  /\ phase = "commit" /\ todo = {}
  /\ LET kept == Cardinality(keep)
         packed == SelectSeq([p \in 1..loop.size |-> p], LAMBDA p : p \in keep)
     IN loop' = [loop EXCEPT !.done = @ + NumDone(kept), !.cur = Resized(kept),
                             !.I = [i \in DOMAIN packed |-> loop.I[packed[i]]]]
  /\ keep' = {} /\ indices' = << >> /\ phase' = "size"
  /\ UNCHANGED <<in, left, iter, E, todo, R, matched, parents, Flags, FlagsNext, result, before>>

\* What follows the loop: MaximalMatching empties the rows of the new matched
\* vertices, PBBSMST packs out the edges inside components.
EndLoop ==
  /\ phase = "size" /\ loop.done >= Len(E)
  /\ left' = CASE in.client = "mis" -> left
               [] in.client = "mm" -> {e \in left : e[1] \notin matched}
               [] in.client = "mst" -> {e \in left : Root(parents, e[1]) # Root(parents, e[2])}
  /\ phase' = "outer" /\ E' = << >>
  /\ UNCHANGED <<in, iter, loop, todo, keep, R, matched, parents, indices, Flags, FlagsNext,
                 result, before>>
Finish ==
  /\ phase = "outer" /\ iter > 0 /\ (in.client = "mis" \/ left = {})
  /\ phase' = "done"
  /\ UNCHANGED <<in, left, iter, E, loop, todo, keep, R, matched, parents, indices, Flags,
                 FlagsNext, result, before>>

Next ==
  \/ MISLoop \/ MMLoop \/ MSTLoop \/ StartRound \/ AllReserved \/ EndRound \/ EndLoop \/ Finish
  \/ \E p \in todo : Reserve(p) \/ Commit(p)
Spec == Init /\ [][Next]_specVars
FairSpec == Spec /\ WF_specVars(Next)

-----------------------------------------------------------------------------
\* The sequential loops over the iterations: greedy matching and forest.
Greedy(takes(_, _)) ==
  FoldLeft(LAMBDA taken, e : IF takes(taken, e) THEN taken \cup {e} ELSE taken, before, E)
Disjoint(taken, e) == \A f \in taken : Ends(e) \cap Ends(f) = {}
Pairs(S) == Sym({<<e[1], e[2]>> : e \in S})
Joins(taken, e) == e[2] \notin Reach(V, Pairs(taken), {e[1]})

\* Whatever order reservations and commits run in, a loop ends with what the
\* sequential loop over its iterations gives.
LikeSequential ==
  (phase = "size" /\ loop.done >= Len(E)) =>
    CASE in.client = "mis" ->
           \A v \in V : Flags[v] = IF \E u \in Earlier(v) : Flags[u] = 1 THEN 2 ELSE 1
      [] in.client = "mm" -> result = Greedy(Disjoint)
      [] in.client = "mst" -> result = Greedy(Joins)

\* No reservation outlives its round: one that did would stop an edge for good.
ReservationsReleased == phase = "size" => \A v \in V : R[v] = MAX

\* The end results: a maximal matching, and a spanning forest of least weight
\* (no edge outside is lighter than one it could replace).
ResultRight ==
  phase = "done" =>
    /\ in.client = "mm" => /\ \A e, f \in result : e = f \/ Ends(e) \cap Ends(f) = {}
                           /\ \A e \in in.edges : ~Disjoint(result, e)
    /\ in.client = "mst" => /\ IsSpanningForest(V, Pairs(in.edges), {<<e[1], e[2]>> : e \in result})
                            /\ \A e \in in.edges \ result :
                                 e[2] \in Reach(V, Pairs({f \in result : f[3] <= e[3]}), {e[1]})

\* Each round has done at least one iteration for good, the least of its own: so no
\* loop runs for ever, and one that gives up had more iterations than tries.
RoundsProgress ==
  /\ phase = "size" => loop.tries <= loop.done
  /\ phase = "abort" => Len(E) > maxTries + 1

\* What the comment on MaximalMatching says, that it finishes off the rest of the
\* graph.  No run checks it: below 50 edges a round tries one (granularity is 50), and
\* after n + 1 rounds eff_for aborts the process, on the complete graph of 4 vertices
\* for one.
NeverAborts == phase # "abort"

\* The least iteration of a round always succeeds, so the loops end.
Terminates == <>(phase \in {"done", "abort", "exit"})
=============================================================================
