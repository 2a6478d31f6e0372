-------------------------- MODULE PriorityBuckets --------------------------
(***************************************************************************)
(* What the bucketing structure promises the peeling and shortest-path     *)
(* algorithms: next_bucket takes out exactly the identifiers of the first  *)
(* priority, each once, and null_bkt says that none are left.              *)
(***************************************************************************)
EXTENDS Naturals

CONSTANTS Ids, Null
VARIABLES
  increasing,    \* whether the first priority is the least or the greatest
  d,             \* the priority of each identifier, Null when it has none
  held,          \* the identifiers in the structure
  ret            \* what next_bucket returned last: [id, ids]

abstractVars == <<increasing, d, held, ret>>

Before(a, b) == IF increasing THEN a < b ELSE a > b
First(k) == /\ \E i \in held : d[i] = k
            /\ \A i \in held : ~Before(d[i], k)

Init ==
  /\ increasing \in BOOLEAN
  /\ held = {i \in Ids : d[i] # Null}
  /\ ret = [id |-> Null, ids |-> {}]

NextBucket ==
  /\ \/ \E i \in held : /\ First(d[i])
                        /\ ret' = [id |-> d[i], ids |-> {j \in held : d[j] = d[i]}]
     \/ held = {} /\ ret' = [id |-> Null, ids |-> {}]
  /\ held' = held \ ret'.ids
  /\ UNCHANGED <<increasing, d>>

\* Priorities change, and identifiers come back or come in, never before the
\* priority that was returned last.
UpdateBuckets ==
  /\ \E moved \in SUBSET Ids :
       /\ \A i \in Ids \ moved : d'[i] = d[i]
       /\ held' = (held \ moved) \cup {i \in moved : d'[i] # Null}
       /\ \A i \in held' \cap moved : ret.id # Null /\ ~Before(d'[i], ret.id)
  /\ UNCHANGED <<increasing, ret>>

Next == NextBucket \/ UpdateBuckets
Spec == Init /\ [][Next]_abstractVars
=============================================================================
