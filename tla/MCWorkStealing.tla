--------------------------- MODULE MCWorkStealing ---------------------------
(* Programs for TLC to run under WorkStealing.                              *)
EXTENDS WorkStealing, TLC

CONSTANTS p1, p2, p3, p4

\* The thunks of f call what f says, the others nothing.
Calls(f) == [p \in Pardos |-> IF p \in DOMAIN f THEN f[p] ELSE <<>>]
Program(l, r, m, conservative, locked) ==
  [left |-> Calls(l), right |-> Calls(r), main |-> m,
   conservative |-> conservative, locked |-> locked]

\* left of p1 calls p2, right of p1 calls p3; the main thread calls p1, or p1
\* and then p4.
Tree == Program(p1 :> <<p2>>, p1 :> <<p3>>, <<p1>>, FALSE, {})
TreeThenOne == Program(p1 :> <<p2>>, p1 :> <<p3>>, <<p1, p4>>, FALSE, {})
\* left of p1 calls p2, left of p2 calls p3, left of p3 calls p4: too deep.
Deep == Program((p1 :> <<p2>>) @@ (p2 :> <<p3>>) @@ (p3 :> <<p4>>), <<>>, <<p1>>, FALSE, {})
\* left of p1 holds the mutex while it calls p2; right of p3 takes it.
LockAcross ==
  Program(p1 :> <<p2>>, p1 :> <<p3>>, <<p1>>, TRUE, {<<p1, "left">>, <<p3, "right">>})

ForThree == {Tree, LockAcross}
ForTwo == {TreeThenOne, Deep}

\* The programs meet what the theorems of WorkStealingProofs ask for.
ASSUME HypothesesMet == TagsLast /\ LocksApart
=============================================================================
