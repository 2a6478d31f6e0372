------------------------------ MODULE Buckets ------------------------------
(***************************************************************************)
(* The bucketing structure of Julienne (gbbs/bucket.h).  The buckets of    *)
(* the range in use are open; the rest is in one overflow bucket.          *)
(* Identifiers are moved lazily: a copy stays where it was and is dropped  *)
(* when its bucket is taken, if the priority has changed by then.  The     *)
(* clients move identifiers as k-core (priorities of what is held fall),   *)
(* as weighted BFS (also what is not held comes in, with the two-argument  *)
(* get_bucket) and as set cover (decreasing; what was taken comes back).   *)
(***************************************************************************)
EXTENDS SmallGraphs, Integers

CONSTANTS
  Ids, null_bkt,
  MaxKey,        \* the greatest priority
  open_buckets,  \* buckets of a range; one more is the overflow bucket
  Width,         \* cur_range is computed modulo this
  Clients

Keys == 0..MaxKey

BucketsAssumption ==
  /\ open_buckets \in Nat \ {0} /\ MaxKey \in Nat
  /\ null_bkt \in Nat /\ null_bkt > MaxKey /\ null_bkt > open_buckets
  /\ Width \in Nat /\ Width > MaxKey + 2
  /\ IsFiniteSet(Ids) /\ Clients \subseteq {"kcore", "wbfs", "cover"}

VARIABLES
  client, d,
  bkts,          \* 0..open_buckets -> bag of identifiers: nothing depends on their order
  cur_bkt, cur_range, num_elms,
  ret, phase,    \* "next": in next_bucket; "update": its caller's turn; "done"
  held           \* history: who is in the structure

bucketVars == <<client, d, bkts, cur_bkt, cur_range, num_elms, ret, phase, held>>

increasing == client # "cover"

ToRange(bkt, range) ==
  IF increasing
  THEN IF bkt < range * open_buckets THEN null_bkt
       ELSE IF bkt < (range + 1) * open_buckets THEN bkt % open_buckets ELSE open_buckets
  ELSE IF bkt >= range * open_buckets THEN null_bkt
       ELSE IF bkt >= (range - 1) * open_buckets THEN (open_buckets - (bkt % open_buckets)) - 1
       ELSE open_buckets

\* A bag of identifiers tells how many copies it has of each.
NoCopies == [i \in Ids |-> 0]
Once(S) == [i \in Ids |-> IF i \in S THEN 1 ELSE 0]
Copies(b) == UNION {{i} \X (1..b[i]) : i \in Ids}
Size(b) == Cardinality(Copies(b))

\* update_buckets: the copies that are given, each with its destination, if it has one.
UpdateBkts(b, given, dest) ==
  [k \in 0..open_buckets |-> [i \in Ids |-> b[k][i] + IF dest[i] = k THEN given[i] ELSE 0]]
Placed(given, dest) == Size([i \in Ids |-> IF dest[i] = null_bkt THEN 0 ELSE given[i]])

\* Where everyone belongs in a range.
Homes(range) == [i \in Ids |-> IF d[i] = null_bkt THEN null_bkt ELSE ToRange(d[i], range)]

BucketsInit ==
  /\ client \in Clients
  /\ d \in [Ids -> Keys \cup {null_bkt}]
  /\ \E i \in Ids : d[i] # null_bkt
  /\ client = "wbfs" => d = [i \in Ids |-> IF i = Least(Ids) THEN 0 ELSE null_bkt]
  /\ client = "kcore" => \A i \in Ids : d[i] # null_bkt
  /\ LET keys == {d[i] : i \in Ids} \ {null_bkt} IN
     cur_range = IF increasing THEN Least(keys) \div open_buckets
                 ELSE (Greatest(keys) + open_buckets) \div open_buckets
  /\ bkts = UpdateBkts([k \in 0..open_buckets |-> NoCopies], Once(Ids), Homes(cur_range))
  /\ num_elms = Placed(Once(Ids), Homes(cur_range))
  /\ cur_bkt = 0 /\ phase = "next"
  /\ ret = [id |-> null_bkt, ids |-> {}]
  /\ held = {i \in Ids : d[i] # null_bkt}

GetCurBucketNum ==
  IF increasing THEN cur_range * open_buckets + cur_bkt ELSE cur_range * open_buckets - cur_bkt - 1

\* The priorities that a bucket's identifiers have by now.
KeysIn(b) == {d[i] : i \in {j \in Ids : b[j] > 0}}
\* Mutant: the range jumps to the least priority itself.
JumpTo(b) == Least(KeysIn(b)) \div open_buckets
\* The range is set to just before the wanted one: the next unpack() moves it.
JumpBefore(b) ==
  IF increasing THEN (Least(KeysIn(b)) \div open_buckets - 1) % Width
  ELSE (open_buckets + Greatest(KeysIn(b))) \div open_buckets + 1

\* unpack(): redistribute the overflow bucket over the next range.
Unpack ==
  LET tmp == bkts[open_buckets]
      range == IF increasing THEN (cur_range + 1) % Width ELSE (cur_range - 1) % Width
      b == UpdateBkts([bkts EXCEPT ![open_buckets] = NoCopies], tmp, Homes(range))
      updated == Placed(tmp, Homes(range))
      in_range == updated - Size(b[open_buckets])
  IN /\ bkts' = b
     /\ cur_range' = IF in_range = 0 /\ b[open_buckets] # NoCopies
                     THEN JumpBefore(b[open_buckets]) ELSE range
     /\ num_elms' = num_elms + updated - Size(tmp)
     /\ cur_bkt' = 0

\* _next_bucket, while the current bucket is empty and elements are left.
Advance ==
  /\ phase = "next" /\ bkts[cur_bkt] = NoCopies /\ num_elms > 0
  /\ \/ cur_bkt + 1 = open_buckets /\ Unpack
     \/ /\ cur_bkt + 1 # open_buckets
        /\ cur_bkt' = cur_bkt + 1
        /\ UNCHANGED <<bkts, cur_range, num_elms>>
  /\ UNCHANGED <<client, d, ret, phase, held>>

\* Mutant: copies that have moved on are returned too.
AllCopies(i) == TRUE
Current(i) == d[i] = GetCurBucketNum
\* get_cur_bucket, which goes on to the next one when no copy is current.
GetCurBucket ==
  /\ phase = "next" /\ bkts[cur_bkt] # NoCopies
  /\ num_elms' = num_elms - Size(bkts[cur_bkt])
  /\ bkts' = [bkts EXCEPT ![cur_bkt] = NoCopies]
  /\ LET out == {i \in Ids : bkts[cur_bkt][i] > 0 /\ Current(i)} IN
     \/ out = {} /\ UNCHANGED <<ret, phase, held>>
     \/ /\ out # {}
        /\ ret' = [id |-> GetCurBucketNum, ids |-> out]
        /\ held' = held \ out
        \* two copies would be returned as two identifiers
        /\ phase' = IF \A i \in out : bkts[cur_bkt][i] = 1 THEN "update" ELSE "twice"
  /\ UNCHANGED <<client, d, cur_bkt, cur_range>>

NoBuckets ==
  /\ phase = "next" /\ bkts[cur_bkt] = NoCopies /\ num_elms = 0
  /\ ret' = [id |-> null_bkt, ids |-> {}] /\ phase' = "done"
  /\ UNCHANGED <<client, d, bkts, cur_bkt, cur_range, num_elms, held>>

\* get_bucket(next): strictly decreasing priorities of held identifiers.
GetBucket(next_) ==
  LET nb == ToRange(next_, cur_range)
  IN IF increasing /\ nb = open_buckets THEN null_bkt ELSE nb
\* get_bucket(prev, next).
GetBucket2(prev, next_) ==
  LET nb == ToRange(next_, cur_range)
  IN IF nb # null_bkt /\ (prev = null_bkt \/ ToRange(prev, cur_range) # nb \/ nb = cur_bkt)
     THEN nb ELSE null_bkt

\* The priorities that the clients may give an identifier next.
May(i) ==
  LET k == ret.id IN
  CASE client = "kcore" -> {d[i]} \cup {x \in Keys : i \in held /\ k <= x /\ x < d[i]}
    [] client = "wbfs" -> {d[i]} \cup {x \in Keys : k <= x /\ x < d[i]}
    [] client = "cover" -> IF i \in ret.ids THEN {x \in Keys : x <= k} \cup {null_bkt} ELSE {d[i]}
Moves == {f \in [Ids -> Keys \cup {null_bkt}] : \A i \in Ids : f[i] \in May(i)}

\* The bucket a client asks for: with get_bucket of one argument, or of two.
Destination(i, to) ==
  IF to = null_bkt THEN null_bkt
  ELSE IF client = "wbfs" THEN GetBucket2(d[i], to) ELSE GetBucket(to)

UpdateBuckets ==
  /\ phase = "update"
  /\ \E new \in Moves :
       LET moved == IF client = "cover" THEN ret.ids ELSE {i \in Ids : new[i] # d[i]}
           dest == [i \in Ids |-> Destination(i, new[i])]
       IN /\ d' = new
          /\ bkts' = UpdateBkts(bkts, Once(moved), dest)
          /\ num_elms' = num_elms + Placed(Once(moved), dest)
          /\ held' = held \cup {i \in moved : new[i] # null_bkt}
  /\ phase' = "next"
  /\ UNCHANGED <<client, cur_bkt, cur_range, ret>>

BucketsNext == Advance \/ GetCurBucket \/ NoBuckets \/ UpdateBuckets
BucketsSpec == BucketsInit /\ [][BucketsNext]_bucketVars
-----------------------------------------------------------------------------
Promise == INSTANCE PriorityBuckets WITH Null <- null_bkt

\* next_bucket returns every held identifier of the first priority and no
\* other, however lazily they were moved.
ImplementsPriorityBuckets == Promise!Spec

\* The counter accounts for every copy, so that next_bucket neither stops
\* early nor walks on for ever, and unpack finds all of them in overflow; a
\* held identifier has a copy where its priority will be looked up.
CopiesAccounted ==
  /\ num_elms = Cardinality(UNION {{k} \X Copies(bkts[k]) : k \in 0..open_buckets})
  /\ phase = "next" /\ cur_bkt + 1 = open_buckets /\ bkts[cur_bkt] = NoCopies =>
       num_elms = Size(bkts[open_buckets])
  /\ phase # "twice"
=============================================================================
