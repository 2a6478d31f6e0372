---------------------------- MODULE DisjointSets ----------------------------
(***************************************************************************)
(* What a concurrent union-find promises: every unite takes effect at one  *)
(* instant between its call and its return.  The abstract specification    *)
(* of the unite variants of benchmarks/Connectivity/UnionFind.             *)
(***************************************************************************)
EXTENDS FiniteSets

CONSTANTS
  Elements,
  Calls       \* the unite calls <<x, y>> that may be made

VARIABLES
  sets,       \* the partition of Elements
  waiting,    \* calls not made yet
  active      \* calls made and not returned

dsVars == <<sets, waiting, active>>

SetOf(x) == CHOOSE s \in sets : x \in s
Together(x, y) == y \in SetOf(x)
Merged(x, y) == (sets \ {SetOf(x), SetOf(y)}) \cup {SetOf(x) \cup SetOf(y)}

Begin(c) ==
  /\ c \in waiting
  /\ waiting' = waiting \ {c} /\ active' = active \cup {c}
  /\ UNCHANGED sets

\* The instant at which x and y come together; the call may return with it.
Merge(c) ==
  /\ c \in active /\ ~Together(c[1], c[2])
  /\ sets' = Merged(c[1], c[2])
  /\ active' \in {active, active \ {c}}
  /\ UNCHANGED waiting

\* A call returns only when its arguments are together.
Return(c) ==
  /\ c \in active /\ Together(c[1], c[2])
  /\ active' = active \ {c}
  /\ UNCHANGED <<sets, waiting>>

DSNext == \E c \in Calls : Begin(c) \/ Merge(c) \/ Return(c)

\* The initial partition is the caller's.
DSSpec == [][DSNext]_dsVars
=============================================================================
