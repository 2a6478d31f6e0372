----------------------------- MODULE MCUnionFind -----------------------------
(* Workloads for TLC to run under UnionFind.                                *)
EXTENDS UnionFind

Identity == [x \in Vertices |-> x]
Static(init, ops) == [kind |-> "components", init |-> init, ops |-> ops, queries |-> {}]
\* Without sampling: every vertex a root, each edge once (v < u).
Crossed == Static(Identity, {<<2, 0>>, <<3, 1>>, <<3, 2>>})
Triangle == Static(Identity, {<<2, 1>>, <<3, 1>>, <<3, 2>>})
\* After sampling found the frequent component {0, 1}: the edges of the other
\* vertices, from both of their ends.
Sampled == Static([Identity EXCEPT ![1] = 0], {<<2, 1>>, <<3, 2>>, <<2, 3>>})
\* A batch on the forest of an earlier one, a path that the queries compress while
\* insertions link it.
Mixed == [kind |-> "mixed_batch", init |-> [Identity EXCEPT ![2] = 1, ![3] = 2],
          ops |-> {<<0, 2>>}, queries |-> {<<3, 0>>, <<2, 3>>}]
Reordered == [Mixed EXCEPT !.kind = "reordered_batch", !.ops = {<<0, 3>>, <<1, 0>>}]
AllWorkloads == {Crossed, Triangle, Sampled, Mixed, Reordered}
=============================================================================
