---------------------------- MODULE ShortestPaths ----------------------------
(***************************************************************************)
(* The single-source path algorithms: wBFS and DeltaStepping, SSWidestPath *)
(* over the same Visit_F with max for min, and BellmanFord with its widest *)
(* path twin.  In a round every edge that leaves the frontier is relaxed   *)
(* by a task of its own: the tasks interleave, load by load and update by  *)
(* update.  The buckets are what PriorityBuckets promises.                 *)
(***************************************************************************)
EXTENDS SmallGraphs, Integers, Sequences, FiniteSetsExt

CONSTANTS
  N,
  Inputs,    \* [alg, delta, w]: w is a function from edges to weights
  Infinity   \* INT_E_MAX: larger than the length of every path

V == 0..(N - 1)
src == 0

PathsAssumption ==
  /\ N \in Nat \ {0} /\ Infinity \in Nat
  /\ \A x \in Inputs : /\ x.alg \in {"delta", "widest", "bf", "widest_bf"}
                       /\ x.alg = "delta" => x.delta \in Nat \ {0}
                       /\ x.alg # "bf" => \A e \in DOMAIN x.w : x.w[e] > 0

VARIABLES
  in,
  dists,      \* dists, width or SP
  top,        \* the vertices whose TOP_BIT, or Visited, is set
  held, k,    \* the vertices in buckets, and the bucket of the round
  frontier,
  tasks,      \* the relaxations in flight: edge -> [pc, oval, first, n_dist]
  emitted,    \* what the edgeMap returns: pairs of a vertex and its old distance
  round, phase

pathVars == <<in, dists, top, held, k, frontier, tasks, emitted, round, phase>>

bucketed == in.alg \in {"delta", "widest"}
widest == in.alg \in {"widest", "widest_bf"}
E == DOMAIN in.w

\* The order of the algorithm, the length of a path that goes on along e, and
\* the distance of a vertex that was not reached.
Better(a, b) == IF widest THEN a > b ELSE a < b
Extend(d, e) == IF widest THEN Least({d, in.w[e]}) ELSE d + in.w[e]
Unreached == CASE in.alg = "widest" -> 0 [] in.alg = "widest_bf" -> -1 [] OTHER -> Infinity
max_weight == Greatest({in.w[e] : e \in E})
\* get_bkt: the source of SSWidestPath, at INT_E_MAX, starts in bucket 0.
Bucket(d) == IF ~widest THEN d \div in.delta
             ELSE IF d = Infinity THEN 0 ELSE max_weight - d + 1

Init ==
  /\ in \in Inputs
  /\ dists = [v \in V |-> IF v # src THEN Unreached ELSE IF widest THEN Infinity ELSE 0]
  /\ top = {} /\ tasks = << >> /\ emitted = {}
  /\ held = {src} /\ k = 0 /\ frontier = IF bucketed THEN {} ELSE {src}
  /\ round = 0 /\ phase = IF bucketed THEN "bucket" ELSE "edge_map"

\* next_bucket.
NextBucket ==
  /\ phase = "bucket" /\ held # {}
  /\ k' = Least({Bucket(dists[v]) : v \in held})
  /\ frontier' = {v \in held : Bucket(dists[v]) = k'}
  /\ held' = held \ frontier'
  /\ phase' = "edge_map"
  /\ UNCHANGED <<in, dists, top, tasks, emitted, round>>

\* The edgeMap forks a task for every edge of the frontier; BellmanFord gives
\* up after n rounds.
Fork ==
  /\ phase = "edge_map" /\ frontier # {} /\ (bucketed \/ round < N)
  /\ tasks' = [e \in {f \in E : f[1] \in frontier} |->
                 [pc |-> "target", oval |-> 0, first |-> FALSE, n_dist |-> 0]]
  /\ phase' = "relax" /\ round' = IF bucketed THEN round ELSE round + 1
  /\ UNCHANGED <<in, dists, top, held, k, frontier, emitted>>
GiveUp ==
  /\ phase = "edge_map" /\ ~bucketed /\ frontier # {} /\ round = N
  /\ dists' = [v \in V |-> -(Infinity \div 2)]
  /\ phase' = "done"
  /\ UNCHANGED <<in, top, held, k, frontier, tasks, emitted, round>>

\* updateAtomic: the old value of the target, then the new one from the source.
LoadTarget(e) ==
  /\ phase = "relax" /\ tasks[e].pc = "target"
  /\ tasks' = [tasks EXCEPT ![e].oval = dists[e[2]], ![e].first = e[2] \notin top,
                            ![e].pc = "source"]
  /\ UNCHANGED <<in, dists, top, held, k, frontier, emitted, round, phase>>
LoadSource(e) ==
  /\ phase = "relax" /\ tasks[e].pc = "source"
  /\ LET n_dist == Extend(dists[e[1]], e)
         next == IF ~bucketed THEN "min"
                 ELSE IF ~Better(n_dist, tasks[e].oval) THEN "end"
                 ELSE IF tasks[e].first THEN "cas" ELSE "min"
     IN tasks' = [tasks EXCEPT ![e].n_dist = n_dist, ![e].pc = next]
  /\ UNCHANGED <<in, dists, top, held, k, frontier, emitted, round, phase>>

\* Visit_F: the compare-and-swap of the first visitor sets the TOP_BIT as well.
\* Mutant: the first visitor stores whatever the target holds by then.
StoreAnyway(e) == TRUE
Expected(e) == dists[e[2]] = tasks[e].oval /\ e[2] \notin top
Cas(e) ==
  /\ phase = "relax" /\ tasks[e].pc = "cas"
  /\ IF Expected(e)
     THEN /\ dists' = [dists EXCEPT ![e[2]] = tasks[e].n_dist]
          /\ top' = top \cup {e[2]}
          /\ emitted' = emitted \cup {<<e, tasks[e].oval>>}
          /\ tasks' = [tasks EXCEPT ![e].pc = "end"]
     ELSE /\ tasks' = [tasks EXCEPT ![e].pc = "min"]
          /\ UNCHANGED <<dists, top, emitted>>
  /\ UNCHANGED <<in, held, k, frontier, round, phase>>

\* write_min or write_max; in BellmanFord who lowered goes on to mark Visited.
WriteMin(e) ==
  /\ phase = "relax" /\ tasks[e].pc = "min"
  /\ IF Better(tasks[e].n_dist, dists[e[2]])
     THEN /\ dists' = [dists EXCEPT ![e[2]] = tasks[e].n_dist]
          /\ tasks' = [tasks EXCEPT ![e].pc = IF bucketed THEN "end" ELSE "mark"]
     ELSE tasks' = [tasks EXCEPT ![e].pc = "end"] /\ UNCHANGED dists
  /\ UNCHANGED <<in, top, held, k, frontier, emitted, round, phase>>
Mark(e) ==
  /\ phase = "relax" /\ tasks[e].pc = "mark"
  /\ IF e[2] \notin top
     THEN top' = top \cup {e[2]} /\ emitted' = emitted \cup {<<e, 0>>}
     ELSE UNCHANGED <<top, emitted>>
  /\ tasks' = [tasks EXCEPT ![e].pc = "end"]
  /\ UNCHANGED <<in, dists, held, k, frontier, round, phase>>

\* get_bucket(prev, next) keeps a vertex in its bucket, unless it changes or is
\* the current one.
\* Mutant: an improvement within the current bucket does not bring it back.
MovesOn(v, old) == Bucket(dists[v]) # Bucket(old)
Moves(v, old) == Bucket(dists[v]) # Bucket(old) \/ Bucket(dists[v]) = k
\* The vertexMap over what was emitted clears the marks and fills the buckets
\* or the next frontier.
Join ==
  /\ phase = "relax" /\ \A e \in DOMAIN tasks : tasks[e].pc = "end"
  /\ LET out == {x[1][2] : x \in emitted}
     IN /\ top' = top \ out
        /\ IF bucketed
           THEN /\ held' = held \cup {x[1][2] : x \in {y \in emitted :
                                         y[2] = Unreached \/ Moves(y[1][2], y[2])}}
                /\ frontier' = {} /\ phase' = "bucket"
           ELSE frontier' = out /\ phase' = "edge_map" /\ UNCHANGED held
  /\ emitted' = {} /\ tasks' = << >>
  /\ UNCHANGED <<in, dists, k, round>>

Finish ==
  /\ \/ phase = "bucket" /\ held = {}
     \/ phase = "edge_map" /\ frontier = {}
  /\ phase' = "done"
  /\ UNCHANGED <<in, dists, top, held, k, frontier, tasks, emitted, round>>

Next ==
  \/ NextBucket \/ Fork \/ GiveUp \/ Join \/ Finish
  \/ \E e \in DOMAIN tasks : LoadTarget(e) \/ LoadSource(e) \/ Cas(e) \/ WriteMin(e) \/ Mark(e)
Spec == Init /\ [][Next]_pathVars
FairSpec == Spec /\ WF_pathVars(Next)

-----------------------------------------------------------------------------
\* The best length over the walks of at most N - 1 edges, and whether one more
\* edge would improve it: a negative cycle.
Best(a, b) == IF Better(a, b) THEN a ELSE b
Walks ==
  LET best[i \in 0..N] ==
        [v \in V |-> IF i = 0 THEN (IF v # src THEN Unreached ELSE IF widest THEN Infinity ELSE 0)
           ELSE LET before == best[i - 1] IN
             FoldSet(LAMBDA e, acc : Best(Extend(before[e[1]], e), acc), before[v],
                     {e \in E : e[2] = v /\ before[e[1]] # Unreached})]
  IN best
NegativeCycle == Walks[N] # Walks[N - 1]

\* Every vertex ends with the length of the best path to it, whatever the
\* relaxations saw of each other; a negative cycle is reported, and only then
\* does BellmanFord give up.
DistancesRight ==
  phase = "done" =>
    dists = IF NegativeCycle THEN [v \in V |-> -(Infinity \div 2)] ELSE Walks[N - 1]

\* A vertex is returned once by the edgeMap of a round in which it improved, and
\* by no other: it is not lost from the buckets or the frontier, and not put
\* there twice.
EmittedOnce ==
  (phase = "relax" /\ \A e \in DOMAIN tasks : tasks[e].pc = "end") =>
    /\ \A x, y \in emitted : x[1][2] = y[1][2] => x = y
    /\ top = {x[1][2] : x \in emitted}

\* The buckets run empty, and so does the frontier.
Terminates == <>(phase = "done")
=============================================================================
