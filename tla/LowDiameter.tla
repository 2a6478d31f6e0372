----------------------------- MODULE LowDiameter -----------------------------
(***************************************************************************)
(* The low-diameter decomposition of Miller, Peng and Xu, with the parents *)
(* the spanning forest keeps (benchmarks/LowDiameterDecomposition/MPX13    *)
(* and LDD_edges of benchmarks/SpanningForest/SDB14): in round i the next  *)
(* shifts[i + 1] - shifts[i] vertices of the permutation become centers,   *)
(* unless a cluster has reached them already, and every cluster grows by   *)
(* one edge.  An edgeMap reads the identifiers of the frontier, which are  *)
(* final: it is one action, and each vertex it reaches may be taken by any *)
(* of its neighbours in the frontier.                                      *)
(***************************************************************************)
EXTENDS SmallGraphs, Sequences

CONSTANTS
  N,
  Graphs,
  Perms,       \* permutations, as sequences of the vertices
  AllShifts    \* the sequences generate_shifts(n, beta) returns: shifts[i] at i + 1

V == 0..(N - 1)
UNSET == N

ASSUME LDDAssumption ==
  /\ N \in Nat \ {0}
  /\ Graphs \subseteq SymGraphs(V)
  /\ \A p \in Perms : p \in [1..N -> V] /\ \A v \in V : \E i \in 1..N : p[i] = v
  \* exp(i * beta) >= 1 adds a vertex every round, and one at first; the last
  \* of total_rounds adds the rest
  /\ \A s \in AllShifts :
       /\ s \in Seq(Nat) /\ Len(s) > 1
       /\ s[1] = 0 /\ s[2] = 1 /\ s[Len(s)] >= N
       /\ \A i \in 1..(Len(s) - 1) : s[i] < s[i + 1]

VARIABLES
  graph, vertex_perm, shifts,
  cluster_ids, parents,
  frontier, num_visited, num_added, round,
  phase        \* "add", "map" or "done"

lddVars == <<graph, vertex_perm, shifts, cluster_ids, parents, frontier, num_visited,
             num_added, round, phase>>

LDDInit ==
  /\ graph \in Graphs /\ vertex_perm \in Perms /\ shifts \in AllShifts
  /\ cluster_ids = [v \in V |-> UNSET] /\ parents = [v \in V |-> UNSET]
  /\ frontier = {} /\ num_visited = 0 /\ num_added = 0 /\ round = 0
  /\ phase = "add"

End == Least({shifts[round + 2], N})
Candidates == {vertex_perm[num_added + i] : i \in 1..(End - shifts[round + 1])}
\* Mutant: a vertex some cluster has becomes a center.
AllCandidates == Candidates
NewCenters == {v \in Candidates : cluster_ids[v] = UNSET}

AddCenters ==
  /\ phase = "add" /\ num_visited < N
  /\ frontier' = frontier \cup NewCenters
  /\ cluster_ids' = [v \in V |-> IF v \in NewCenters THEN v ELSE cluster_ids[v]]
  /\ parents' = [v \in V |-> IF v \in NewCenters THEN v ELSE parents[v]]
  /\ num_added' = num_added + (End - shifts[round + 1])
  /\ num_visited' = num_visited + Cardinality(frontier')
  /\ phase' = IF num_visited' >= N THEN "done" ELSE "map"
  /\ UNCHANGED <<graph, vertex_perm, shifts, round>>

Takers(d) == IF cluster_ids[d] = UNSET THEN Ngh(graph, d) \cap frontier ELSE {}

GrowClusters ==
  /\ phase = "map"
  /\ \E by \in [V -> V \cup {UNSET}] :
       /\ \A d \in V : IF Takers(d) = {} THEN by[d] = UNSET ELSE by[d] \in Takers(d)
       /\ cluster_ids' = [d \in V |-> IF by[d] = UNSET THEN cluster_ids[d] ELSE cluster_ids[by[d]]]
       /\ parents' = [d \in V |-> IF by[d] = UNSET THEN parents[d] ELSE by[d]]
       /\ frontier' = {d \in V : by[d] # UNSET}
  /\ round' = round + 1 /\ phase' = "add"
  /\ UNCHANGED <<graph, vertex_perm, shifts, num_visited, num_added>>

LDDNext == AddCenters \/ GrowClusters
LDDSpec == LDDInit /\ [][LDDNext]_lddVars
-----------------------------------------------------------------------------
Visited == {v \in V : cluster_ids[v] # UNSET}

\* num_visited ends the loop: it counts the vertices whose edges have been
\* mapped, and the loop never indexes past the shifts nor the permutation.
CountsAgree ==
  /\ phase # "add" => num_visited = Cardinality(Visited)
  /\ phase = "add" => num_visited + Cardinality(frontier) = Cardinality(Visited)
  /\ num_added <= N /\ round + 1 < Len(shifts)

\* The parents are a forest of graph edges that stays within the clusters and
\* ends at their centers.
ClustersAreTrees ==
  /\ \A v \in Visited : \/ parents[v] = v /\ cluster_ids[v] = v
                        \/ <<v, parents[v]>> \in graph /\ cluster_ids[v] = cluster_ids[parents[v]]
  /\ \A v \in Visited :
       Root([w \in V |-> IF w \in Visited THEN parents[w] ELSE w], v) = cluster_ids[v]

\* A cluster's radius is at most the rounds since its center was added.
RadiusBounded ==
  phase = "done" =>
    \A c \in {cluster_ids[v] : v \in V} : \A v \in V :
      cluster_ids[v] = c => v \in Within(graph, {c}, round)

\* What the recursion of the connectivity algorithms ends by: the first center
\* is alone in its round and takes all of its neighbours.
FirstTakesAll ==
  phase = "done" => \/ N = 1
                    \/ \A u \in Ngh(graph, vertex_perm[1]) : parents[u] = vertex_perm[1]

\* The decomposition: clusters are connected trees of the radius their shift
\* allows, started in the order of the permutation, and the counts that end the
\* rounds agree with the vertices reached.
ClustersRight == CountsAgree /\ ClustersAreTrees /\ RadiusBounded /\ FirstTakesAll
=============================================================================
