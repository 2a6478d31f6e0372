--------------------------- MODULE MCRemUnionFind ---------------------------
(* Workloads for TLC to run under RemUnionFind.                             *)
EXTENDS RemUnionFind

Identity == [x \in Vertices |-> x]
Static(init, ops) == [kind |-> "components", init |-> init, ops |-> ops, queries |-> {}]
Crossed == Static(Identity, {<<2, 0>>, <<3, 1>>, <<3, 2>>})
Triangle == Static(Identity, {<<2, 1>>, <<3, 1>>, <<3, 2>>})
\* A batch of insertions and a query on the path that an earlier one left.
Mixed == [kind |-> "mixed_batch", init |-> [Identity EXCEPT ![2] = 1, ![3] = 2],
          ops |-> {<<0, 2>>, <<3, 0>>}, queries |-> {<<3, 2>>}]
MostWorkloads == {Crossed, Triangle, Mixed}
\* Two paths from 4 to 1 and an edge across them.
Bridged == Static(Identity, {<<4, 3>>, <<4, 0>>, <<3, 2>>, <<2, 1>>, <<4, 2>>})
OneBridged == {Bridged}
OneCrossed == {Crossed}

\* Each unite with finds and splices of every kind.
Composed ==
  {<<"unite_rem_cas", "find_naive", "split_atomic_one">>,
   <<"unite_rem_cas", "find_naive", "halve_atomic_one">>,
   <<"unite_rem_cas", "find_compress", "split_atomic_one">>,
   <<"unite_rem_cas", "find_atomic_split", "halve_atomic_one">>,
   <<"unite_rem_cas", "find_atomic_halve", "split_atomic_one">>,
   <<"unite_rem_lock", "find_naive", "split_atomic_one">>,
   <<"unite_rem_lock_sf", "find_naive", "split_atomic_one">>,
   <<"unite_rem_lock_sf", "find_compress", "halve_atomic_one">>}
Spliced == {<<"unite_rem_cas", "find_naive", "splice_atomic">>}
ForestCas == {<<"unite_rem_cas_sf", "find_compress", "split_atomic_one">>}
=============================================================================
