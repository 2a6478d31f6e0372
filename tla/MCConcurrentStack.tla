-------------------------- MODULE MCConcurrentStack --------------------------
(* Instances of ConcurrentStack for TLC. *)
EXTENDS ConcurrentStack

CONSTANTS t1, t2, t3, v1, v2, v3, v4

\* A pop that others overtake, who take both nodes and put the first one back.
Overtaken == (t1 :> <<"pop">>) @@ (t2 :> <<"pop", "pop", v3>>) @@ (t3 :> <<v4>>)
\* Pushes and pops that meet on a short stack, which may run empty.
Meeting == (t1 :> <<v3, "pop">>) @@ (t2 :> <<"pop", "pop">>) @@ (t3 :> <<"size">>)
\* Many pushes, each of which may use the node of the pop before it again.
Churn ==
  (t1 :> <<"pop", v3, "pop", v3, "pop", v3, "pop", v3>>) @@ (t2 :> <<"pop">>) @@ (t3 :> <<>>)
Races == {Overtaken, Meeting, Churn}

Two == <<v1, v2>>
=============================================================================
