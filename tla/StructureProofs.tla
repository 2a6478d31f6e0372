----------------------------- MODULE StructureProofs -----------------------------
(***************************************************************************)
(* Proofs about two of the shared structures.                              *)
(*                                                                         *)
(* Allocator, for any workers, sizes and amount of memory: in every        *)
(* schedule each block of the memory is in one place, the lists that the   *)
(* workers exchange have their length, num_used_blocks counts what the     *)
(* program holds, memory is taken only when it is needed, and finish gives *)
(* all of it back.  Sums and lists first; then what each way a block moves *)
(* does to the lists; then the inductive invariant.                        *)
(*                                                                         *)
(* Buckets, for any identifiers, any number of open buckets and any        *)
(* priorities: the structure implements PriorityBuckets, however lazily    *)
(* its clients move identifiers.  Both orders are treated as one: a        *)
(* priority has a position, which grows from the first priority to the     *)
(* last, and a range covers open_buckets positions from its base.          *)
(***************************************************************************)
EXTENDS Allocator, Buckets, FunctionTheorems, FiniteSetTheorems, SequenceTheorems,
        WellFoundedInduction, TLAPS

USE DEF At, Goto

(* Induction, with the predicate as a set: the backends cannot instantiate *)
(* the library's theorems, whose predicate is an operator.                 *)

\* A set of naturals that is not empty has a least element.
LEMMA LeastElement ==
  ASSUME NEW S, S \subseteq Nat, S # {}
  PROVE  \E m \in S : \A k \in S : m <= k
<1> DEFINE R == OpToRel(<, Nat)
<1>1. IsWellFoundedOn(R, Nat)
  BY NatLessThanWellFounded
<1>2. \A k, m \in Nat : m < k => <<m, k>> \in R
  BY DEF OpToRel
<1> HIDE DEF R
<1>3. PICK m \in S : \A k \in S : ~(<<k, m>> \in R)
  BY <1>1, WFMin
<1>4. ASSUME NEW k \in S PROVE m <= k
  <2>1. k \in Nat /\ m \in Nat
    OBVIOUS
  <2>2. ~(<<k, m>> \in R)
    BY <1>3
  <2>3. ~(k < m)
    BY <1>2, <2>1, <2>2, Zenon
  <2> QED
    BY <2>1, <2>3
<1> QED
  BY <1>4

\* A set with 0 and the successor of each member holds every natural.
LEMMA SetInduction ==
  ASSUME NEW S, 0 \in S, \A n \in Nat : n \in S => n + 1 \in S
  PROVE  \A n \in Nat : n \in S
<1> SUFFICES ASSUME NEW n \in Nat, n \notin S PROVE FALSE
  OBVIOUS
<1> DEFINE T == {k \in Nat : k \notin S}
<1>1. PICK m \in T : \A k \in T : m <= k
  <2>1. T \subseteq Nat /\ T # {}
    OBVIOUS
  <2> HIDE DEF T
  <2> QED
    BY <2>1, LeastElement
<1>2. m # 0 /\ m - 1 \in Nat
  BY <1>1
<1>3. m - 1 \in S
  BY <1>1, <1>2
<1> QED
  BY <1>1, <1>2, <1>3

-----------------------------------------------------------------------------
\* c is what nx links below n: every block once, and the last one has none below.
IsList(nx, n, c) ==
  /\ c \in Seq(Blocks)
  /\ n = IF c = <<>> THEN Null ELSE c[1]
  /\ \A i \in 1..Len(c) : nx[c[i]] = IF i < Len(c) THEN c[i + 1] ELSE Null
  /\ \A i, j \in 1..Len(c) : c[i] = c[j] => i = j

On(c) == {c[i] : i \in 1..Len(c)}

\* On is the library's Range.
LEMMA OnIsRange == ASSUME NEW c \in Seq(Blocks) PROVE On(c) = Range(c)
  BY DEF On, Range

\* A list has as many blocks as places, and no more than there are.
LEMMA ListSize ==
  ASSUME AllocatorAssumption, NEW nx, NEW n, NEW c, IsList(nx, n, c)
  PROVE  /\ IsFiniteSet(On(c)) /\ Cardinality(On(c)) = Len(c)
         /\ Len(c) \in 0..HeapBlocks /\ On(c) \subseteq Blocks
<1>1. c \in Seq(Blocks) /\ Len(c) \in Nat /\ \A i \in 1..Len(c) : c[i] \in Blocks
  BY DEF IsList
<1>2. ExistsBijection(1..Len(c), On(c))
  <2> DEFINE f == [i \in 1..Len(c) |-> c[i]]
  <2>1. f \in [1..Len(c) -> On(c)]
    BY DEF On
  <2>2. f \in Injection(1..Len(c), On(c))
    BY <2>1 DEF IsList, Injection, IsInjective
  <2>3. f \in Surjection(1..Len(c), On(c))
    BY <2>1 DEF On, Surjection
  <2>4. f \in Bijection(1..Len(c), On(c))
    BY <2>2, <2>3 DEF Bijection
  <2> QED
    BY <2>4 DEF ExistsBijection
<1>3. IsFiniteSet(1..Len(c)) /\ Cardinality(1..Len(c)) = Len(c)
  <2>1. 1 \in Int /\ Len(c) \in Int /\ (1 > Len(c) => Len(c) = 0)
    BY <1>1
  <2>2. IsFiniteSet(1..Len(c)) /\ Cardinality(1..Len(c)) = IF 1 > Len(c) THEN 0 ELSE Len(c) - 1 + 1
    BY <2>1, FS_Interval
  <2> QED
    BY <2>1, <2>2
<1>4. IsFiniteSet(On(c)) /\ Cardinality(On(c)) = Len(c)
  BY <1>2, <1>3, FS_Bijection
<1>5. HeapBlocks \in Nat /\ IsFiniteSet(Blocks) /\ Cardinality(Blocks) = HeapBlocks
  BY FS_Interval DEF AllocatorAssumption, Blocks
<1>6. On(c) \subseteq Blocks
  BY <1>1 DEF On
<1>7. Cardinality(On(c)) <= Cardinality(Blocks)
  BY <1>5, <1>6, FS_Subset
<1> QED
  BY <1>1, <1>4, <1>5, <1>6, <1>7

\* f gives the first k blocks below each block, for k up to n, as Below does.
Follows(nx, n, f) ==
  f = [k \in 0..n |->
         [m \in Blocks \cup {Null} |-> IF k = 0 \/ m = Null THEN <<>> ELSE <<m>> \o f[k - 1][nx[m]]]]

\* It exists: CHOOSE takes it, and no recursive definition is expanded.
LEMMA FollowsExist == ASSUME NEW nx, NEW n \in Nat PROVE \E f : Follows(nx, n, f)
<1> DEFINE S == {k \in Nat : \E f : Follows(nx, k, f)}
           Down(k, m, g) == IF k = 0 \/ m = Null THEN <<>> ELSE <<m>> \o g[nx[m]]
<1>1. 0 \in S
  <2> DEFINE f == [k \in 0..0 |-> [m \in Blocks \cup {Null} |-> <<>>]]
  <2>1. Follows(nx, 0, f)
    BY DEF Follows
  <2> QED
    BY <2>1
<1>2. ASSUME NEW k \in Nat, k \in S PROVE k + 1 \in S
  <2>1. PICK f : Follows(nx, k, f)
    BY <1>2
  <2> DEFINE new == [m \in Blocks \cup {Null} |-> IF m = Null THEN <<>> ELSE <<m>> \o f[k][nx[m]]]
             g == [l \in 0..(k + 1) |-> IF l = k + 1 THEN new ELSE f[l]]
  <2>2. ASSUME NEW l \in 0..(k + 1)
        PROVE  g[l] = [m \in Blocks \cup {Null} |-> IF l = 0 \/ m = Null THEN <<>> ELSE <<m>> \o g[l - 1][nx[m]]]
    <3>1. CASE l = k + 1
      <4>1. l # 0 /\ l - 1 = k /\ k # k + 1 /\ k \in 0..(k + 1)
        BY <3>1
      <4>2. g[l - 1] = f[k]
        BY <4>1
      <4>3. g[l] = new
        BY <3>1
      <4> HIDE DEF g
      <4> QED
        BY <4>1, <4>2, <4>3
    <3>2. CASE l \in 0..k
      <4>1. f[l] = [m \in Blocks \cup {Null} |-> IF l = 0 \/ m = Null THEN <<>> ELSE <<m>> \o f[l - 1][nx[m]]]
        BY <2>1, <3>2 DEF Follows
      <4>2. g[l] = f[l] /\ (l # 0 => g[l - 1] = f[l - 1])
        BY <3>2
      <4> HIDE DEF g
      <4> QED
        BY <4>1, <4>2
    <3>3. l = k + 1 \/ l \in 0..k
      OBVIOUS
    <3> HIDE DEF g
    <3> QED
      BY <3>1, <3>2, <3>3
  <2>3. Follows(nx, k + 1, g)
    <3> HIDE DEF new
    <3> QED
      BY <2>2 DEF Follows
  <2> QED
    BY <2>3
<1> HIDE DEF S
<1>3. n \in S
  BY <1>1, <1>2, SetInduction
<1> QED
  BY <1>3 DEF S

Walk(nx) == CHOOSE f : Follows(nx, HeapBlocks, f)

\* Following nx from n gives the list.
LEMMA BelowIsList ==
  ASSUME AllocatorAssumption, NEW nx, NEW n, NEW c, IsList(nx, n, c) PROVE Below(nx, n) = c
<1> DEFINE f == Walk(nx)
<1>1. Below(nx, n) = f[HeapBlocks][n]
  BY DEF Below, Walk, Follows
<1>2. HeapBlocks \in Nat
  BY DEF AllocatorAssumption
<1>3. Follows(nx, HeapBlocks, f)
  BY <1>2, FollowsExist DEF Walk
<1> HIDE DEF f
<1>4. ASSUME NEW k \in 0..HeapBlocks, NEW m \in Blocks \cup {Null}
      PROVE  f[k][m] = IF k = 0 \/ m = Null THEN <<>> ELSE <<m>> \o f[k - 1][nx[m]]
  <2>1. f[k] = [l \in Blocks \cup {Null} |-> IF k = 0 \/ l = Null THEN <<>> ELSE <<l>> \o f[k - 1][nx[l]]]
    BY <1>3 DEF Follows
  <2> QED
    BY <2>1
<1>5. Len(c) \in 0..HeapBlocks /\ c \in Seq(Blocks) /\ \A i \in 1..Len(c) : c[i] \in Blocks
  <2>1. c \in Seq(Blocks)
    BY DEF IsList
  <2>2. Len(c) \in 0..HeapBlocks
    BY ListSize
  <2> QED
    BY <2>1, <2>2
\* From the place j above the end, k steps find the rest of the list.
<1> DEFINE at(j) == IF j = 0 THEN Null ELSE c[Len(c) - j + 1]
           S == {j \in Nat : j <= Len(c) => \A k \in j..HeapBlocks : f[k][at(j)] = SubSeq(c, Len(c) - j + 1, Len(c))}
<1>6. 0 \in S
  <2>1. \A k \in 0..HeapBlocks : f[k][Null] = <<>>
    BY <1>4
  <2>2. SubSeq(c, Len(c) + 1, Len(c)) = <<>>
    BY <1>5, SubSeqEmpty
  <2>3. Len(c) - 0 + 1 = Len(c) + 1
    BY <1>5
  <2> QED
    BY <2>1, <2>2, <2>3
<1>7. ASSUME NEW j \in Nat, j \in S PROVE j + 1 \in S
  <2> SUFFICES ASSUME j + 1 <= Len(c), NEW k \in (j + 1)..HeapBlocks
               PROVE  f[k][at(j + 1)] = SubSeq(c, Len(c) - j, Len(c))
    BY <1>5
  <2>1. /\ k \in 0..HeapBlocks /\ k # 0 /\ k - 1 \in j..HeapBlocks /\ j + 1 # 0
        /\ Len(c) - j \in 1..Len(c) /\ j <= Len(c) /\ Len(c) - (j + 1) + 1 = Len(c) - j
    BY <1>2, <1>5
  <2>2. at(j + 1) = c[Len(c) - j] /\ c[Len(c) - j] \in Blocks /\ c[Len(c) - j] # Null
    BY <1>5, <2>1 DEF Blocks, Null
  <2>3. nx[c[Len(c) - j]] = at(j)
    <3>1. nx[c[Len(c) - j]] = IF Len(c) - j < Len(c) THEN c[Len(c) - j + 1] ELSE Null
      BY <2>1 DEF IsList
    <3> QED
      BY <1>5, <3>1
  <2>4. f[k][at(j + 1)] = <<c[Len(c) - j]>> \o f[k - 1][at(j)]
    <3>1. at(j + 1) \in Blocks \cup {Null} /\ at(j + 1) # Null
      BY <2>2
    <3> HIDE DEF at
    <3> QED
      BY <1>4, <2>1, <2>2, <2>3, <3>1
  <2>5. f[k - 1][at(j)] = SubSeq(c, Len(c) - j + 1, Len(c))
    BY <1>7, <2>1
  <2>6. <<c[Len(c) - j]>> \o SubSeq(c, Len(c) - j + 1, Len(c)) = SubSeq(c, Len(c) - j, Len(c))
    BY <1>5, <2>1
  <2> QED
    BY <2>4, <2>5, <2>6
<1>8. Len(c) \in S
  <2> HIDE DEF S
  <2> QED
    BY <1>5, <1>6, <1>7, SetInduction
<1>9. f[HeapBlocks][at(Len(c))] = SubSeq(c, 1, Len(c))
  BY <1>2, <1>5, <1>8
<1>10. at(Len(c)) = n
  BY <1>5 DEF IsList
<1> QED
  BY <1>1, <1>5, <1>9, <1>10

\* The empty list.
LEMMA NoList ==
  ASSUME NEW nx
  PROVE  /\ IsList(nx, Null, <<>>) /\ On(<<>>) = {}
         /\ \A c : IsList(nx, Null, c) => c = <<>>
<1>1. IsList(nx, Null, <<>>) /\ On(<<>>) = {}
  BY DEF IsList, On
<1>2. ASSUME NEW c, IsList(nx, Null, c), c # <<>> PROVE FALSE
  <2>1. c \in Seq(Blocks) /\ c[1] = Null
    BY <1>2 DEF IsList
  <2>2. c[1] \in Blocks
    BY <1>2, <2>1
  <2> QED
    BY <2>1, <2>2 DEF Blocks, Null
<1> QED
  BY <1>1, <1>2

\* Taking the top off a list.
LEMMA ListPop ==
  ASSUME NEW nx, NEW n, NEW c, IsList(nx, n, c), n # Null
  PROVE  /\ c # <<>> /\ Head(c) = n /\ n \in On(c) /\ n \in Blocks
         /\ IsList(nx, nx[n], Tail(c))
         /\ On(Tail(c)) = On(c) \ {n}
         /\ Len(Tail(c)) = Len(c) - 1
         /\ \A i \in 1..Len(Tail(c)) : Tail(c)[i] = c[i + 1]
<1>1. c \in Seq(Blocks) /\ c # <<>> /\ n = c[1] /\ Len(c) \in Nat /\ Len(c) >= 1
  BY DEF IsList
<1>2. Head(c) = n /\ n \in Blocks /\ n \in On(c)
  BY <1>1 DEF On
<1>3. /\ Tail(c) \in Seq(Blocks) /\ Len(Tail(c)) = Len(c) - 1
      /\ \A i \in 1..Len(Tail(c)) : Tail(c)[i] = c[i + 1]
  BY <1>1, HeadTailProperties
<1>4. nx[n] = IF Tail(c) = <<>> THEN Null ELSE Tail(c)[1]
  <2>1. nx[n] = IF 1 < Len(c) THEN c[2] ELSE Null
    BY <1>1 DEF IsList
  <2>2. Tail(c) = <<>> <=> Len(Tail(c)) = 0
    BY <1>3, EmptySeq
  <2>3. 1 < Len(c) => 1 \in 1..Len(Tail(c)) /\ Tail(c)[1] = c[1 + 1]
    BY <1>1, <1>3
  <2> QED
    BY <1>1, <1>3, <2>1, <2>2, <2>3
<1>5. ASSUME NEW i \in 1..Len(Tail(c))
      PROVE  nx[Tail(c)[i]] = IF i < Len(Tail(c)) THEN Tail(c)[i + 1] ELSE Null
  <2>1. i + 1 \in 1..Len(c) /\ Tail(c)[i] = c[i + 1]
    BY <1>1, <1>3
  <2>2. nx[c[i + 1]] = IF i + 1 < Len(c) THEN c[i + 2] ELSE Null
    BY <2>1 DEF IsList
  <2> QED
    BY <1>1, <1>3, <2>1, <2>2
<1>6. \A i, j \in 1..Len(Tail(c)) : Tail(c)[i] = Tail(c)[j] => i = j
  BY <1>1, <1>3 DEF IsList
<1>7. On(Tail(c)) = On(c) \ {n}
  <2>1. \A i \in 1..Len(Tail(c)) : Tail(c)[i] \in On(c) /\ Tail(c)[i] # n
    BY <1>1, <1>3 DEF IsList, On
  <2>2. ASSUME NEW i \in 1..Len(c), c[i] # n PROVE c[i] \in On(Tail(c))
    <3>1. i - 1 \in 1..Len(Tail(c)) /\ Tail(c)[i - 1] = c[i]
      BY <1>1, <1>3, <2>2
    <3> QED
      BY <3>1 DEF On
  <2> QED
    BY <2>1, <2>2 DEF On
<1> QED
  BY <1>1, <1>2, <1>3, <1>4, <1>5, <1>6, <1>7 DEF IsList

\* Putting a block on top.
LEMMA ListPush ==
  ASSUME NEW nx, NEW n, NEW c, IsList(nx, n, c), NEW m \in Blocks, m \notin On(c), nx[m] = n
  PROVE  /\ IsList(nx, m, <<m>> \o c)
         /\ On(<<m>> \o c) = On(c) \cup {m}
         /\ Len(<<m>> \o c) = Len(c) + 1
         /\ (<<m>> \o c)[1] = m /\ \A i \in 1..Len(c) : (<<m>> \o c)[i + 1] = c[i]
<1> DEFINE ds == <<m>> \o c
<1>1. c \in Seq(Blocks) /\ Len(c) \in Nat
  BY DEF IsList
<1>2. ds \in Seq(Blocks) /\ Len(ds) = Len(c) + 1 /\ ds[1] = m /\ ds # <<>>
  BY <1>1
<1>3. \A i \in 1..Len(c) : ds[i + 1] = c[i]
  BY <1>1
<1> HIDE DEF ds
<1>4. \A i \in 2..Len(ds) : i - 1 \in 1..Len(c) /\ ds[i] = c[i - 1]
  <2> SUFFICES ASSUME NEW i \in 2..Len(ds) PROVE i - 1 \in 1..Len(c) /\ ds[i] = c[i - 1]
    OBVIOUS
  <2>1. i - 1 \in 1..Len(c) /\ (i - 1) + 1 = i
    BY <1>1, <1>2
  <2> QED
    BY <1>3, <2>1
<1>5. ASSUME NEW i \in 1..Len(ds) PROVE nx[ds[i]] = IF i < Len(ds) THEN ds[i + 1] ELSE Null
  <2>1. CASE i = 1
    <3>1. n = IF c = <<>> THEN Null ELSE c[1]
      BY DEF IsList
    <3>2. c # <<>> => 1 \in 1..Len(c) /\ ds[1 + 1] = c[1]
      BY <1>1, <1>3
    <3> QED
      BY <1>1, <1>2, <2>1, <3>1, <3>2
  <2>2. CASE i # 1
    <3>1. i \in 2..Len(ds) /\ i - 1 \in 1..Len(c) /\ ds[i] = c[i - 1]
      BY <1>1, <1>2, <1>4, <2>2
    <3>2. nx[c[i - 1]] = IF i - 1 < Len(c) THEN c[i - 1 + 1] ELSE Null
      BY <3>1 DEF IsList
    <3>3. i < Len(ds) => i \in 1..Len(c) /\ ds[i + 1] = c[i] /\ i - 1 + 1 = i
      BY <1>1, <1>2, <1>3, <3>1
    <3>4. (i < Len(ds)) <=> (i - 1 < Len(c))
      BY <1>1, <1>2
    <3> QED
      BY <3>1, <3>2, <3>3, <3>4
  <2> QED
    BY <2>1, <2>2
<1>6. ASSUME NEW i \in 1..Len(ds), NEW j \in 1..Len(ds), ds[i] = ds[j] PROVE i = j
  <2>1. \A k \in 2..Len(ds) : ds[k] # m
    BY <1>4 DEF On
  <2>2. CASE i = 1 \/ j = 1
    BY <1>1, <1>2, <1>6, <2>1, <2>2
  <2>3. CASE i # 1 /\ j # 1
    <3>1. i \in 2..Len(ds) /\ j \in 2..Len(ds)
      BY <1>1, <1>2, <2>3
    <3>2. c[i - 1] = c[j - 1] /\ i - 1 \in 1..Len(c) /\ j - 1 \in 1..Len(c)
      BY <1>4, <1>6, <3>1
    <3>3. i - 1 = j - 1
      BY <3>2 DEF IsList
    <3> QED
      BY <3>3
  <2> QED
    BY <2>2, <2>3
<1>7. On(ds) = On(c) \cup {m}
  <2>1. \A i \in 1..Len(ds) : ds[i] = m \/ ds[i] \in On(c)
    <3> SUFFICES ASSUME NEW i \in 1..Len(ds), i # 1 PROVE ds[i] \in On(c)
      BY <1>2
    <3>1. i \in 2..Len(ds)
      BY <1>1, <1>2
    <3> QED
      BY <1>4, <3>1 DEF On
  <2>2. m \in On(ds)
    <3>1. 1 \in 1..Len(ds)
      BY <1>1, <1>2
    <3> QED
      BY <1>2, <3>1 DEF On
  <2>3. ASSUME NEW i \in 1..Len(c) PROVE c[i] \in On(ds)
    <3>1. i + 1 \in 1..Len(ds) /\ ds[i + 1] = c[i]
      BY <1>1, <1>2, <1>3
    <3> QED
      BY <3>1 DEF On
  <2> QED
    BY <2>1, <2>2, <2>3 DEF On
<1>8. IsList(nx, m, ds)
  BY <1>2, <1>5, <1>6 DEF IsList
<1> QED
  BY <1>2, <1>3, <1>7, <1>8 DEF ds

\* Changing other blocks.
LEMMA ListFrame ==
  ASSUME NEW nx, NEW ny, NEW n, NEW c, IsList(nx, n, c), \A m \in On(c) : ny[m] = nx[m]
  PROVE  IsList(ny, n, c)
<1>1. \A i \in 1..Len(c) : ny[c[i]] = nx[c[i]]
  BY DEF On
<1> QED
  BY <1>1 DEF IsList

-----------------------------------------------------------------------------
(* Sums over the workers.                                                  *)

\* The sum of f over all workers, as num_used_blocks adds the lengths of the lists.
Total(f) == MapThenSumSet(LAMBDA w : f[w], Workers)

\* A set of sets of workers with {} and, with each, those of one more holds all of them.
LEMMA SubsetInduction ==
  ASSUME AllocatorAssumption, NEW S, {} \in S,
         \A s \in SUBSET Workers : \A w \in Workers : s \in S => s \cup {w} \in S
  PROVE  \A s \in SUBSET Workers : s \in S
<1> DEFINE T == {n \in Nat : \A s \in SUBSET Workers : Cardinality(s) = n => s \in S}
<1>1. \A s \in SUBSET Workers : IsFiniteSet(s) /\ Cardinality(s) \in Nat
  BY FS_Subset, FS_CardinalityType DEF AllocatorAssumption
<1>2. 0 \in T
  BY <1>1, FS_EmptySet
<1>3. ASSUME NEW n \in Nat, n \in T PROVE n + 1 \in T
  <2> SUFFICES ASSUME NEW s \in SUBSET Workers, Cardinality(s) = n + 1 PROVE s \in S
    OBVIOUS
  <2>1. s # {}
    BY FS_EmptySet
  <2>2. PICK w \in s : TRUE
    BY <2>1
  <2>3. Cardinality(s \ {w}) = n
    <3>1. Cardinality(s \ {w}) = Cardinality(s) - 1
      BY <1>1, <2>2, FS_RemoveElement
    <3> QED
      BY <3>1
  <2>4. s \ {w} \in S
    BY <1>3, <2>3
  <2>5. (s \ {w}) \cup {w} = s /\ w \in Workers /\ s \ {w} \in SUBSET Workers
    BY <2>2
  <2> QED
    BY <2>4, <2>5
<1>4. \A n \in Nat : n \in T
  <2> HIDE DEF T
  <2> QED
    BY <1>2, <1>3, SetInduction
<1> QED
  BY <1>1, <1>4

\* it sums f over the sets of up to n workers, as the library's fold does.
Sums(f, n, it) ==
  it = [s \in {t \in SUBSET Workers : Cardinality(t) <= n} |->
          IF s = {} THEN 0 ELSE f[CHOOSE x \in s : TRUE] + it[s \ {CHOOSE x \in s : TRUE}]]

\* It exists.
LEMMA SumsExist == ASSUME AllocatorAssumption, NEW f, NEW n \in Nat PROVE \E it : Sums(f, n, it)
<1> DEFINE Up(k) == {t \in SUBSET Workers : Cardinality(t) <= k}
           first(s) == CHOOSE x \in s : TRUE
           S == {k \in Nat : \E it : Sums(f, k, it)}
<1>1. \A s \in SUBSET Workers : IsFiniteSet(s) /\ Cardinality(s) \in Nat
  BY FS_Subset, FS_CardinalityType DEF AllocatorAssumption
<1>2. \A k \in Nat : \A s \in Up(k + 1) : s # {} => s \ {first(s)} \in Up(k)
  <2> SUFFICES ASSUME NEW k \in Nat, NEW s \in Up(k + 1), s # {} PROVE s \ {first(s)} \in Up(k)
    OBVIOUS
  <2>1. first(s) \in s
    OBVIOUS
  <2> HIDE DEF first
  <2>2. Cardinality(s \ {first(s)}) = Cardinality(s) - 1
    BY <1>1, <2>1, FS_RemoveElement
  <2> QED
    BY <1>1, <2>2
<1>3. 0 \in S
  <2> DEFINE it == [s \in Up(0) |-> 0]
  <2>1. \A s \in Up(0) : s = {}
    BY <1>1, FS_EmptySet
  <2>2. Sums(f, 0, it)
    BY <2>1 DEF Sums
  <2> QED
    BY <2>2
<1>4. ASSUME NEW k \in Nat, k \in S PROVE k + 1 \in S
  <2>1. PICK it : Sums(f, k, it)
    BY <1>4
  <2> DEFINE new == [s \in Up(k + 1) |-> IF s = {} THEN 0 ELSE f[first(s)] + it[s \ {first(s)}]]
  <2>2. \A s \in Up(k) : new[s] = it[s]
    <3> SUFFICES ASSUME NEW s \in Up(k) PROVE new[s] = it[s]
      OBVIOUS
    <3>1. it[s] = IF s = {} THEN 0 ELSE f[first(s)] + it[s \ {first(s)}]
      BY <2>1 DEF Sums
    <3>2. s \in Up(k + 1)
      BY <1>1
    <3> QED
      BY <3>1, <3>2
  <2>3. \A s \in Up(k + 1) : new[s] = IF s = {} THEN 0 ELSE f[first(s)] + new[s \ {first(s)}]
    <3> SUFFICES ASSUME NEW s \in Up(k + 1)
                 PROVE  new[s] = IF s = {} THEN 0 ELSE f[first(s)] + new[s \ {first(s)}]
      OBVIOUS
    <3>1. new[s] = IF s = {} THEN 0 ELSE f[first(s)] + it[s \ {first(s)}]
      OBVIOUS
    <3>2. s # {} => s \ {first(s)} \in Up(k)
      BY <1>2
    <3> HIDE DEF new, first, Up
    <3> QED
      BY <2>2, <3>1, <3>2
  <2>4. new = [s \in Up(k + 1) |-> IF s = {} THEN 0 ELSE f[first(s)] + new[s \ {first(s)}]]
    <3>1. new = [s \in Up(k + 1) |-> new[s]]
      OBVIOUS
    <3> HIDE DEF new, first, Up
    <3> QED
      BY <2>3, <3>1
  <2>5. Sums(f, k + 1, new)
    <3> HIDE DEF new
    <3> QED
      BY <2>4 DEF Sums
  <2> QED
    BY <2>5
<1> HIDE DEF S
<1>5. n \in S
  BY <1>3, <1>4, SetInduction
<1> QED
  BY <1>5 DEF S

Partial(f) == CHOOSE it : Sums(f, Cardinality(Workers), it)

\* What the sums over sets of workers are: nothing over none, and each worker's share
\* is added once.
LEMMA PartialSums ==
  ASSUME AllocatorAssumption, NEW f \in [Workers -> Nat]
  PROVE  /\ Total(f) = Partial(f)[Workers]
         /\ Partial(f)[{}] = 0
         /\ \A s \in SUBSET Workers : Partial(f)[s] \in Nat
         /\ \A s \in SUBSET Workers : \A w \in Workers :
              w \notin s => Partial(f)[s \cup {w}] = Partial(f)[s] + f[w]
<1> DEFINE it == Partial(f)
           first(s) == CHOOSE x \in s : TRUE
<1>1. \A s \in SUBSET Workers : /\ IsFiniteSet(s) /\ Cardinality(s) \in Nat
                                /\ Cardinality(s) <= Cardinality(Workers)
  BY FS_Subset, FS_CardinalityType DEF AllocatorAssumption
<1>2. {t \in SUBSET Workers : Cardinality(t) <= Cardinality(Workers)} = SUBSET Workers
  BY <1>1
<1>3. Total(f) = it[Workers]
  BY <1>2 DEF Total, MapThenSumSet, MapThenFoldSet, Partial, Sums
<1>4. Sums(f, Cardinality(Workers), it)
  <2>1. Cardinality(Workers) \in Nat
    BY <1>1
  <2> QED
    BY <2>1, SumsExist DEF Partial
<1> HIDE DEF it
<1>5. \A s \in SUBSET Workers : it[s] = IF s = {} THEN 0 ELSE f[first(s)] + it[s \ {first(s)}]
  <2>1. it = [s \in SUBSET Workers |-> IF s = {} THEN 0 ELSE f[first(s)] + it[s \ {first(s)}]]
    BY <1>2, <1>4 DEF Sums
  <2> HIDE DEF first
  <2> QED
    BY <2>1, Zenon
<1>6. it[{}] = 0
  BY <1>5
<1>7. \A s \in SUBSET Workers : s # {} => first(s) \in s
  OBVIOUS
<1> HIDE DEF first
<1>8. \A s \in SUBSET Workers : s # {} => /\ s \ {first(s)} \in SUBSET Workers
                                          /\ Cardinality(s \ {first(s)}) = Cardinality(s) - 1
  BY <1>1, <1>7, FS_RemoveElement
<1>9. \A s \in SUBSET Workers : it[s] \in Nat
  <2> DEFINE S == {n \in Nat : \A s \in SUBSET Workers : Cardinality(s) = n => it[s] \in Nat}
  <2>1. 0 \in S
    <3>1. \A s \in SUBSET Workers : Cardinality(s) = 0 => s = {}
      BY <1>1, FS_EmptySet
    <3> QED
      BY <1>6, <3>1
  <2>2. ASSUME NEW n \in Nat, n \in S PROVE n + 1 \in S
    <3> SUFFICES ASSUME NEW s \in SUBSET Workers, Cardinality(s) = n + 1 PROVE it[s] \in Nat
      OBVIOUS
    <3>1. s # {}
      BY FS_EmptySet
    <3>2. first(s) \in Workers /\ it[s] = f[first(s)] + it[s \ {first(s)}]
      BY <1>5, <1>7, <3>1
    <3>3. it[s \ {first(s)}] \in Nat
      BY <1>8, <2>2, <3>1
    <3> QED
      BY <3>2, <3>3
  <2>3. \A n \in Nat : n \in S
    <3> HIDE DEF S
    <3> QED
      BY <2>1, <2>2, SetInduction
  <2> QED
    BY <1>1, <2>3
<1>10. \A s \in SUBSET Workers : \A w \in s : it[s] = it[s \ {w}] + f[w]
  <2> DEFINE S == {n \in Nat : \A s \in SUBSET Workers : \A w \in s :
                     Cardinality(s) = n => it[s] = it[s \ {w}] + f[w]}
  <2>1. 0 \in S
    <3>1. \A s \in SUBSET Workers : Cardinality(s) = 0 => s = {}
      BY <1>1, FS_EmptySet
    <3> QED
      BY <3>1
  <2>2. ASSUME NEW n \in Nat, n \in S PROVE n + 1 \in S
    <3> SUFFICES ASSUME NEW s \in SUBSET Workers, NEW w \in s, Cardinality(s) = n + 1
                 PROVE  it[s] = it[s \ {w}] + f[w]
      OBVIOUS
    <3> DEFINE x == first(s)
    <3>1. x \in s /\ it[s] = f[x] + it[s \ {x}]
      BY <1>5, <1>7
    <3> HIDE DEF x
    <3>2. CASE w = x
      BY <1>9, <3>1, <3>2
    <3>3. CASE w # x
      <4>1. \A y \in s : Cardinality(s \ {y}) = n /\ s \ {y} \in SUBSET Workers
        BY <1>1, FS_RemoveElement
      <4>2. it[s \ {x}] = it[(s \ {x}) \ {w}] + f[w]
        BY <2>2, <3>1, <3>3, <4>1
      <4>3. it[s \ {w}] = it[(s \ {w}) \ {x}] + f[x]
        BY <2>2, <3>1, <3>3, <4>1
      <4>4. (s \ {x}) \ {w} = (s \ {w}) \ {x} /\ (s \ {x}) \ {w} \in SUBSET Workers
        OBVIOUS
      <4>5. it[(s \ {x}) \ {w}] \in Nat /\ f[w] \in Nat /\ f[x] \in Nat
        BY <1>9, <3>1, <4>4
      <4>6. it[s \ {w}] = it[(s \ {x}) \ {w}] + f[x]
        BY <4>3, <4>4
      <4> QED
        BY <3>1, <4>2, <4>5, <4>6
    <3> QED
      BY <3>2, <3>3
  <2>3. \A n \in Nat : n \in S
    <3> HIDE DEF S
    <3> QED
      BY <2>1, <2>2, SetInduction
  <2> QED
    BY <1>1, <2>3
<1>11. ASSUME NEW s \in SUBSET Workers, NEW w \in Workers, w \notin s
       PROVE  it[s \cup {w}] = it[s] + f[w]
  <2>1. (s \cup {w}) \ {w} = s /\ s \cup {w} \in SUBSET Workers /\ w \in s \cup {w}
    BY <1>11
  <2> QED
    BY <1>10, <2>1
<1> QED
  BY <1>3, <1>6, <1>9, <1>11 DEF it

\* A sum is a natural number.
LEMMA TotalIsNatural ==
  ASSUME AllocatorAssumption, NEW f \in [Workers -> Nat] PROVE Total(f) \in Nat
  BY PartialSums

\* Where two functions differ at one worker only, so do their sums.
LEMMA TotalChange ==
  ASSUME AllocatorAssumption, NEW f \in [Workers -> Nat], NEW g \in [Workers -> Nat], NEW w \in Workers,
         \A v \in Workers : v # w => g[v] = f[v]
  PROVE  Total(g) + f[w] = Total(f) + g[w]
<1> DEFINE F == Partial(f)
           H == Partial(g)
           S == {s \in SUBSET Workers : w \notin s => F[s] = H[s]}
<1>1. /\ Total(f) = F[Workers] /\ F[{}] = 0
      /\ \A s \in SUBSET Workers : F[s] \in Nat
      /\ \A s \in SUBSET Workers : \A v \in Workers : v \notin s => F[s \cup {v}] = F[s] + f[v]
  BY PartialSums
<1>2. /\ Total(g) = H[Workers] /\ H[{}] = 0
      /\ \A s \in SUBSET Workers : H[s] \in Nat
      /\ \A s \in SUBSET Workers : \A v \in Workers : v \notin s => H[s \cup {v}] = H[s] + g[v]
  BY PartialSums
<1> HIDE DEF F, H
<1>3. \A s \in SUBSET Workers : s \in S
  <2>1. {} \in S
    BY <1>1, <1>2
  <2>2. ASSUME NEW s \in SUBSET Workers, NEW v \in Workers, s \in S PROVE s \cup {v} \in S
    <3>1. CASE v \in s
      <4>1. s \cup {v} = s
        BY <3>1
      <4> QED
        BY <2>2, <4>1
    <3>2. CASE v = w
      BY <3>2
    <3>3. CASE v \notin s /\ v # w
      <4>1. F[s \cup {v}] = F[s] + f[v] /\ H[s \cup {v}] = H[s] + g[v] /\ g[v] = f[v]
        BY <1>1, <1>2, <3>3
      <4>2. w \notin s \cup {v} => F[s] = H[s]
        BY <2>2
      <4> QED
        BY <4>1, <4>2
    <3> QED
      BY <3>1, <3>2, <3>3
  <2> HIDE DEF S
  <2> QED
    BY <2>1, <2>2, SubsetInduction
<1>4. F[Workers \ {w}] = H[Workers \ {w}] /\ F[Workers \ {w}] \in Nat
  BY <1>1, <1>3
<1>5. (Workers \ {w}) \cup {w} = Workers
  OBVIOUS
<1>6. F[Workers] = F[Workers \ {w}] + f[w] /\ H[Workers] = H[Workers \ {w}] + g[w]
  <2>1. PICK s : s = Workers \ {w}
    OBVIOUS
  <2>2. s \in SUBSET Workers /\ w \notin s /\ s \cup {w} = Workers
    BY <1>5, <2>1
  <2>3. F[s \cup {w}] = F[s] + f[w] /\ H[s \cup {w}] = H[s] + g[w]
    BY <1>1, <1>2, <2>2
  <2> QED
    BY <2>1, <2>2, <2>3
<1>7. f[w] \in Nat /\ g[w] \in Nat
  OBVIOUS
<1> QED
  BY <1>1, <1>2, <1>4, <1>6, <1>7

\* If f is never more than c above g, its sum is at most c for each worker above that of g.
LEMMA TotalBound ==
  ASSUME AllocatorAssumption, NEW f \in [Workers -> Nat], NEW g \in [Workers -> Nat], NEW c \in Nat,
         \A v \in Workers : f[v] <= c + g[v]
  PROVE  Total(f) <= c * Cardinality(Workers) + Total(g)
<1> DEFINE F == Partial(f)
           H == Partial(g)
           S == {s \in SUBSET Workers : F[s] <= c * Cardinality(s) + H[s]}
<1>1. /\ Total(f) = F[Workers] /\ F[{}] = 0
      /\ \A s \in SUBSET Workers : F[s] \in Nat
      /\ \A s \in SUBSET Workers : \A v \in Workers : v \notin s => F[s \cup {v}] = F[s] + f[v]
  BY PartialSums
<1>2. /\ Total(g) = H[Workers] /\ H[{}] = 0
      /\ \A s \in SUBSET Workers : H[s] \in Nat
      /\ \A s \in SUBSET Workers : \A v \in Workers : v \notin s => H[s \cup {v}] = H[s] + g[v]
  BY PartialSums
<1> HIDE DEF F, H
<1>3. \A s \in SUBSET Workers : IsFiniteSet(s) /\ Cardinality(s) \in Nat
  BY FS_Subset, FS_CardinalityType DEF AllocatorAssumption
<1>4. \A s \in SUBSET Workers : s \in S
  <2>1. {} \in S
    BY <1>1, <1>2, FS_EmptySet
  <2>2. ASSUME NEW s \in SUBSET Workers, NEW v \in Workers, s \in S PROVE s \cup {v} \in S
    <3>1. CASE v \in s
      <4>1. s \cup {v} = s
        BY <3>1
      <4> QED
        BY <2>2, <4>1
    <3>2. CASE v \notin s
      <4>1. Cardinality(s \cup {v}) = Cardinality(s) + 1
        BY <1>3, <3>2, FS_AddElement
      <4>2. c * (Cardinality(s) + 1) = c * Cardinality(s) + c
        BY <1>3
      <4>3. F[s \cup {v}] = F[s] + f[v] /\ H[s \cup {v}] = H[s] + g[v]
        BY <1>1, <1>2, <3>2
      <4>4. c * Cardinality(s) \in Nat
        BY <1>3
      <4>5. F[s] \in Nat /\ H[s] \in Nat /\ f[v] \in Nat /\ g[v] \in Nat /\ F[s] <= c * Cardinality(s) + H[s]
        BY <1>1, <1>2, <2>2
      <4>6. f[v] <= c + g[v]
        OBVIOUS
      <4> DEFINE ds == c * Cardinality(s)
      <4>7. ds + c + H[s] + g[v] >= F[s] + f[v]
        <5>1. ds \in Nat /\ F[s] <= ds + H[s]
          BY <4>4, <4>5
        <5> HIDE DEF ds
        <5> QED
          BY <4>5, <4>6, <5>1
      <4>8. F[s \cup {v}] <= c * Cardinality(s \cup {v}) + H[s \cup {v}]
        <5>1. c * Cardinality(s \cup {v}) = ds + c /\ ds \in Nat
          BY <4>1, <4>2, <4>4
        <5> HIDE DEF ds
        <5> QED
          BY <4>3, <4>5, <4>7, <5>1
      <4> QED
        BY <4>8
    <3> QED
      BY <3>1, <3>2
  <2> HIDE DEF S
  <2> QED
    BY <2>1, <2>2, SubsetInduction
<1> QED
  BY <1>1, <1>2, <1>4

-----------------------------------------------------------------------------
(* New lists: runs of blocks one after the other.                          *)

Links == [Blocks -> Blocks \cup {Null}]

\* The list that initialize_list makes from the block f on.
Row(f) == [i \in 1..ListLength |-> f + i - 1]

\* Lists of a region do not overlap and stay inside the memory.
RowsFit(firsts) ==
  /\ \A f \in firsts : f \in Blocks /\ f + ListLength - 1 \in Blocks
  /\ \A f, g \in firsts : f # g => f + ListLength <= g \/ g + ListLength <= f

\* A row takes up the blocks from its first on.
LEMMA RowBlocks ==
  ASSUME AllocatorAssumption, NEW f \in Blocks, f + ListLength - 1 \in Blocks
  PROVE  /\ Row(f) \in Seq(Blocks) /\ Len(Row(f)) = ListLength
         /\ On(Row(f)) = f..(f + ListLength - 1)
<1>1. ListLength \in Nat /\ ListLength >= 2 /\ HeapBlocks \in Nat /\ f \in 1..HeapBlocks
      /\ f + ListLength - 1 \in 1..HeapBlocks
  BY DEF AllocatorAssumption, Blocks
<1>2. \A i \in 1..ListLength : f + i - 1 \in 1..HeapBlocks
  BY <1>1
<1>3. Row(f) \in [1..ListLength -> Blocks]
  BY <1>2 DEF Row, Blocks
<1>4. Row(f) \in Seq(Blocks) /\ Len(Row(f)) = ListLength
  BY <1>1, <1>3
<1>5. ASSUME NEW b \in f..(f + ListLength - 1) PROVE b \in On(Row(f))
  <2>1. b - f + 1 \in 1..ListLength /\ Row(f)[b - f + 1] = f + (b - f + 1) - 1 /\ f + (b - f + 1) - 1 = b
    BY <1>1 DEF Row
  <2> QED
    BY <1>4, <2>1 DEF On
<1>6. \A i \in 1..ListLength : Row(f)[i] = f + i - 1 /\ f + i - 1 \in f..(f + ListLength - 1)
  BY <1>1 DEF Row
<1> QED
  BY <1>4, <1>5, <1>6 DEF On

\* It is a list where each of its blocks links to the next.
LEMMA RowIsList ==
  ASSUME AllocatorAssumption, NEW f \in Blocks, f + ListLength - 1 \in Blocks, NEW nx,
         \A b \in f..(f + ListLength - 2) : nx[b] = b + 1, nx[f + ListLength - 1] = Null
  PROVE  IsList(nx, f, Row(f))
<1>1. ListLength \in Nat /\ ListLength >= 2 /\ f \in Nat
  BY DEF AllocatorAssumption, Blocks
<1>2. Row(f) \in Seq(Blocks) /\ Len(Row(f)) = ListLength
  BY RowBlocks
<1>3. \A i \in 1..ListLength : Row(f)[i] = f + i - 1
  BY DEF Row
<1>4. Row(f) # <<>> /\ Row(f)[1] = f
  BY <1>1, <1>2, <1>3
<1>5. ASSUME NEW i \in 1..ListLength PROVE nx[Row(f)[i]] = IF i < ListLength THEN Row(f)[i + 1] ELSE Null
  <2>1. CASE i < ListLength
    <3>1. f + i - 1 \in f..(f + ListLength - 2) /\ i + 1 \in 1..ListLength
      BY <1>1, <2>1
    <3>2. nx[f + i - 1] = f + i /\ Row(f)[i + 1] = f + i
      BY <1>1, <1>3, <3>1
    <3> QED
      BY <1>3, <2>1, <3>2
  <2>2. CASE i = ListLength
    BY <1>1, <1>3, <2>2
  <2> QED
    BY <1>1, <2>1, <2>2
<1>6. \A i, j \in 1..ListLength : Row(f)[i] = Row(f)[j] => i = j
  BY <1>1, <1>3
<1> QED
  BY <1>2, <1>4, <1>5, <1>6 DEF IsList

\* initialize_list on each of some rows makes lists of them and changes no other block.
LEMMA LinkedRows ==
  ASSUME AllocatorAssumption, next \in Links, NEW firsts, RowsFit(firsts)
  PROVE  /\ Linked(firsts) \in Links
         /\ \A f \in firsts : IsList(Linked(firsts), f, Row(f))
         /\ \A b \in Blocks : (\A f \in firsts : b \notin On(Row(f))) => Linked(firsts)[b] = next[b]
<1> DEFINE inner(b) == \E f \in firsts : b \in f..(f + ListLength - 2)
<1>1. /\ ListLength \in Nat /\ ListLength >= 2 /\ HeapBlocks \in Nat
      /\ \A f \in firsts : f \in 1..HeapBlocks /\ f + ListLength - 1 \in 1..HeapBlocks
  BY DEF AllocatorAssumption, RowsFit, Blocks
<1>2. \A b \in Blocks : Linked(firsts)[b] = IF inner(b) THEN b + 1
                                            ELSE IF b - (ListLength - 1) \in firsts THEN Null ELSE next[b]
  BY DEF Linked
<1>3. Linked(firsts) = [b \in Blocks |-> Linked(firsts)[b]]
  BY DEF Linked
<1>4. \A b \in Blocks : inner(b) => b + 1 \in Blocks
  BY <1>1 DEF Blocks
<1>5. Linked(firsts) \in Links
  <2>1. \A b \in Blocks : Linked(firsts)[b] \in Blocks \cup {Null}
    BY <1>2, <1>4 DEF Links
  <2> QED
    BY <1>3, <2>1 DEF Links
<1>6. ASSUME NEW f \in firsts PROVE IsList(Linked(firsts), f, Row(f))
  <2>1. ASSUME NEW b \in f..(f + ListLength - 2) PROVE Linked(firsts)[b] = b + 1
    <3>1. b \in Blocks
      BY <1>1 DEF Blocks
    <3> QED
      BY <1>2, <3>1
  <2>2. ~inner(f + ListLength - 1)
    <3> SUFFICES ASSUME NEW g \in firsts, f + ListLength - 1 \in g..(g + ListLength - 2) PROVE FALSE
      OBVIOUS
    <3>1. f # g => f + ListLength <= g \/ g + ListLength <= f
      BY DEF RowsFit
    <3> QED
      BY <1>1, <3>1
  <2>3. Linked(firsts)[f + ListLength - 1] = Null
    <3>1. f + ListLength - 1 \in Blocks /\ (f + ListLength - 1) - (ListLength - 1) = f
      BY <1>1 DEF Blocks
    <3> HIDE DEF inner
    <3> QED
      BY <1>2, <2>2, <3>1
  <2>4. f \in Blocks /\ f + ListLength - 1 \in Blocks
    BY <1>1 DEF Blocks
  <2> QED
    BY <2>1, <2>3, <2>4, RowIsList
<1>7. ASSUME NEW b \in Blocks, \A f \in firsts : b \notin On(Row(f)) PROVE Linked(firsts)[b] = next[b]
  <2>1. \A f \in firsts : On(Row(f)) = f..(f + ListLength - 1)
    BY RowBlocks DEF RowsFit
  <2>2. b \in 1..HeapBlocks /\ \A f \in firsts : b \notin f..(f + ListLength - 1)
    BY <1>7, <2>1 DEF Blocks
  <2>3. ~inner(b)
    BY <1>1, <2>2
  <2>4. b - (ListLength - 1) \notin firsts
    BY <1>1, <2>2
  <2> HIDE DEF inner
  <2> QED
    BY <1>2, <2>3, <2>4
<1> QED
  BY <1>5, <1>6, <1>7

\* The region of k lists holds k rows that cover it and do not overlap.
LEMMA RegionRows ==
  ASSUME AllocatorAssumption, NEW first \in Blocks, NEW k \in Nat \ {0},
         first + k * ListLength - 1 <= HeapBlocks
  PROVE  /\ RowsFit(Lists(first, k))
         /\ UNION {On(Row(f)) : f \in Lists(first, k)} = first..(first + k * ListLength - 1)
         /\ first \in Lists(first, k)
         /\ IsFiniteSet(Lists(first, k)) /\ Cardinality(Lists(first, k)) = k
<1> DEFINE at(i) == first + i * ListLength
<1>1. ListLength \in Nat /\ ListLength >= 2 /\ HeapBlocks \in Nat /\ first \in 1..HeapBlocks
  BY DEF AllocatorAssumption, Blocks
<1>2. \A i \in 0..(k - 1) : at(i) \in Nat /\ first <= at(i) /\ at(i) + ListLength <= first + k * ListLength
  <2> SUFFICES ASSUME NEW i \in 0..(k - 1)
               PROVE at(i) \in Nat /\ first <= at(i) /\ at(i) + ListLength <= first + k * ListLength
    OBVIOUS
  <2>1. i * ListLength \in Nat /\ (i + 1) * ListLength = i * ListLength + ListLength
    BY <1>1
  <2>2. (i + 1) * ListLength <= k * ListLength
    BY <1>1
  <2> QED
    BY <1>1, <2>1, <2>2
<1>3. \A i, j \in 0..(k - 1) : i < j => at(i) + ListLength <= at(j)
  <2> SUFFICES ASSUME NEW i \in 0..(k - 1), NEW j \in 0..(k - 1), i < j PROVE at(i) + ListLength <= at(j)
    OBVIOUS
  <2>1. (i + 1) * ListLength = i * ListLength + ListLength
    BY <1>1
  <2>2. (i + 1) * ListLength <= j * ListLength
    BY <1>1
  <2> QED
    BY <1>1, <2>1, <2>2
<1>4. Lists(first, k) = {at(i) : i \in 0..(k - 1)}
  BY DEF Lists
<1>5. k * ListLength \in Nat
  BY <1>1
<1>6. RowsFit(Lists(first, k))
  <2>1. \A f \in Lists(first, k) : f \in Blocks /\ f + ListLength - 1 \in Blocks
    <3> SUFFICES ASSUME NEW i \in 0..(k - 1) PROVE at(i) \in Blocks /\ at(i) + ListLength - 1 \in Blocks
      BY <1>4
    <3> HIDE DEF at
    <3> QED
      BY <1>1, <1>2, <1>5 DEF Blocks
  <2>2. ASSUME NEW i \in 0..(k - 1), NEW j \in 0..(k - 1), at(i) # at(j)
        PROVE  at(i) + ListLength <= at(j) \/ at(j) + ListLength <= at(i)
    <3>1. i < j \/ j < i
      BY <2>2
    <3> HIDE DEF at
    <3> QED
      BY <1>3, <3>1
  <2> HIDE DEF at
  <2> QED
    BY <1>4, <2>1, <2>2 DEF RowsFit
<1>7. ASSUME NEW b \in first..(first + k * ListLength - 1) PROVE \E i \in 0..(k - 1) : b \in at(i)..(at(i) + ListLength - 1)
  <2> DEFINE i == (b - first) \div ListLength
             r == (b - first) % ListLength
  <2>1. b - first \in Nat /\ b - first < k * ListLength
    BY <1>1, <1>5
  <2>2. i \in Nat /\ r \in 0..(ListLength - 1) /\ b - first = i * ListLength + r
    BY <1>1, <2>1
  <2> HIDE DEF i, r
  <2>3. i < k
    <3> SUFFICES ASSUME i >= k PROVE FALSE
      BY <2>2
    <3>1. i * ListLength >= k * ListLength
      BY <1>1, <2>2
    <3> QED
      BY <1>1, <1>5, <2>1, <2>2, <3>1
  <2>4. i \in 0..(k - 1) /\ i * ListLength \in Nat
    BY <1>1, <2>2, <2>3
  <2>5. b \in at(i)..(at(i) + ListLength - 1)
    BY <1>1, <2>2, <2>4
  <2> QED
    BY <2>4, <2>5
<1>8. UNION {On(Row(f)) : f \in Lists(first, k)} = first..(first + k * ListLength - 1)
  <2>1. \A f \in Lists(first, k) : On(Row(f)) = f..(f + ListLength - 1)
    BY <1>6, RowBlocks DEF RowsFit
  <2>2. \A i \in 0..(k - 1) : at(i)..(at(i) + ListLength - 1) \subseteq first..(first + k * ListLength - 1)
    <3> HIDE DEF at
    <3> QED
      BY <1>1, <1>2, <1>5
  <2> DEFINE all == UNION {On(Row(f)) : f \in Lists(first, k)}
  <2>3. ASSUME NEW b \in all PROVE b \in first..(first + k * ListLength - 1)
    <3>1. PICK i \in 0..(k - 1) : b \in On(Row(at(i)))
      <4> HIDE DEF at
      <4> QED
        BY <1>4
    <3> HIDE DEF at
    <3>2. On(Row(at(i))) = at(i)..(at(i) + ListLength - 1)
      BY <1>4, <2>1
    <3> QED
      BY <2>2, <3>1, <3>2
  <2>4. ASSUME NEW b \in first..(first + k * ListLength - 1) PROVE b \in all
    <3>1. PICK i \in 0..(k - 1) : b \in at(i)..(at(i) + ListLength - 1)
      BY <1>7
    <3> HIDE DEF at
    <3>2. at(i) \in Lists(first, k)
      BY <1>4
    <3>3. On(Row(at(i))) = at(i)..(at(i) + ListLength - 1)
      BY <2>1, <3>2
    <3> QED
      BY <3>1, <3>2, <3>3
  <2> HIDE DEF all
  <2>5. all = first..(first + k * ListLength - 1)
    BY <2>3, <2>4
  <2> QED
    BY <2>5 DEF all
<1>9. first \in Lists(first, k)
  <2>1. 0 \in 0..(k - 1) /\ at(0) = first
    BY <1>1
  <2> HIDE DEF at
  <2> QED
    BY <1>4, <2>1
<1>10. IsFiniteSet(Lists(first, k)) /\ Cardinality(Lists(first, k)) = k
  <2> DEFINE f == [i \in 0..(k - 1) |-> at(i)]
  <2>1. \A i, j \in 0..(k - 1) : at(i) = at(j) => i = j
    <3> SUFFICES ASSUME NEW i \in 0..(k - 1), NEW j \in 0..(k - 1), at(i) = at(j), i < j \/ j < i PROVE FALSE
      OBVIOUS
    <3>1. at(i) \in Nat /\ at(j) \in Nat
      BY <1>2
    <3> HIDE DEF at
    <3> QED
      BY <1>1, <1>3, <3>1
  <2> HIDE DEF at
  <2>2. f \in [0..(k - 1) -> Lists(first, k)]
    BY <1>4
  <2>3. f \in Injection(0..(k - 1), Lists(first, k))
    BY <2>1, <2>2 DEF Injection, IsInjective
  <2>4. f \in Surjection(0..(k - 1), Lists(first, k))
    BY <1>4, <2>2 DEF Surjection
  <2>5. ExistsBijection(0..(k - 1), Lists(first, k))
    BY <2>3, <2>4 DEF Bijection, ExistsBijection
  <2>6. IsFiniteSet(0..(k - 1)) /\ Cardinality(0..(k - 1)) = k
    <3>1. 0 \in Int /\ k - 1 \in Int /\ ~(0 > k - 1) /\ k - 1 - 0 + 1 = k
      OBVIOUS
    <3>2. IsFiniteSet(0..(k - 1)) /\ Cardinality(0..(k - 1)) = IF 0 > k - 1 THEN 0 ELSE k - 1 - 0 + 1
      BY <3>1, FS_Interval
    <3> QED
      BY <3>1, <3>2
  <2> QED
    BY <2>5, <2>6, FS_Bijection
<1> QED
  BY <1>6, <1>8, <1>9, <1>10

-----------------------------------------------------------------------------
(* Where each block is.  The lists of the global stack are counted from    *)
(* the bottom, so that a push or a pop leaves the numbers of the others.   *)

Kinds == {"none", "program", "global", "local", "hand"}

Level(gl, j) == gl[Len(gl) - j + 1]

\* G[j] is the list at level j of the stack gl, L[w] that of worker w, of whom lf[w] are
\* rows in its hands; a list that is about to be full has its middle marked.
ListsRight(nx, gl, lo, lf, hd, G, L) ==
  /\ G \in [Nat -> Seq(Blocks)] /\ L \in [Workers -> Seq(Blocks)]
  /\ \A j \in 1..Len(gl) : IsList(nx, Level(gl, j), G[j]) /\ Len(G[j]) = ListLength
  /\ \A w \in Workers :
       /\ IsList(nx, lo[w].head, L[w]) /\ Len(L[w]) = lo[w].sz
       /\ lo[w].sz >= ListLength + 2 => lo[w].mid = L[w][lo[w].sz - ListLength]
  /\ \A w \in Workers : \A f \in lf[w] : IsList(nx, f, Row(f)) /\ On(Row(f)) \subseteq hd[w]

\* Each block is in one place: with the program, on one list, in one worker's hands or
\* in no memory.
InPlace(gl, hd, us, mem, G, L, kind, level, owner) ==
  /\ kind \in [Blocks -> Kinds] /\ level \in [Blocks -> Nat] /\ owner \in [Blocks -> Workers]
  /\ \A b \in Blocks : kind[b] = "none" <=> b \notin mem
  /\ \A b \in Blocks : kind[b] = "program" <=> b \in us
  /\ \A b \in Blocks : kind[b] = "global" => level[b] \in 1..Len(gl)
  /\ \A b \in Blocks : \A j \in 1..Len(gl) : b \in On(G[j]) <=> kind[b] = "global" /\ level[b] = j
  /\ \A b \in Blocks : \A w \in Workers : b \in On(L[w]) <=> kind[b] = "local" /\ owner[b] = w
  /\ \A b \in Blocks : \A w \in Workers : b \in hd[w] <=> kind[b] = "hand" /\ owner[b] = w

Owned(nx, gl, lo, lf, hd, us, mem) ==
  \E G, L, kind, level, owner :
    /\ ListsRight(nx, gl, lo, lf, hd, G, L)
    /\ InPlace(gl, hd, us, mem, G, L, kind, level, owner)

\* The head of a worker's list is not with the program.
LEMMA HeadIsFree ==
  ASSUME NEW nx, NEW gl, NEW lo, NEW lf, NEW hd, NEW us, NEW mem, Owned(nx, gl, lo, lf, hd, us, mem),
         NEW w \in Workers, lo[w].sz \in Nat \ {0}
  PROVE  lo[w].head \in Blocks \ us
<1>1. PICK G, L, kind, level, owner :
        ListsRight(nx, gl, lo, lf, hd, G, L) /\ InPlace(gl, hd, us, mem, G, L, kind, level, owner)
  BY DEF Owned
<1>2. IsList(nx, lo[w].head, L[w]) /\ Len(L[w]) = lo[w].sz
  BY <1>1 DEF ListsRight
<1>3. L[w] # <<>>
  BY <1>2
<1>4. lo[w].head # Null
  BY <1>2, <1>3, NoList
<1>5. lo[w].head \in On(L[w]) /\ lo[w].head \in Blocks
  BY <1>2, <1>4, ListPop
<1> QED
  BY <1>1, <1>5 DEF InPlace

\* The head of a worker's list becomes the program's.
LEMMA TakeHead ==
  ASSUME AllocatorAssumption, NEW nx \in Links, NEW gl, NEW lo, NEW lf, NEW hd, NEW us, us \subseteq Blocks,
         NEW mem, Owned(nx, gl, lo, lf, hd, us, mem), NEW w \in Workers, NEW lo2,
         lo[w].sz \in Nat \ {0}, lo2[w].sz = lo[w].sz - 1, lo2[w].head = nx[lo[w].head],
         lo2[w].mid = lo[w].mid, \A v \in Workers : v # w => lo2[v] = lo[v]
  PROVE  Owned([nx EXCEPT ![lo[w].head] = Null], gl, lo2, lf, hd, us \cup {lo[w].head}, mem)
<1>1. PICK G, L, kind, level, owner :
        ListsRight(nx, gl, lo, lf, hd, G, L) /\ InPlace(gl, hd, us, mem, G, L, kind, level, owner)
  BY DEF Owned
<1>2. PICK h : h = lo[w].head
  OBVIOUS
<1>3. IsList(nx, h, L[w]) /\ Len(L[w]) = lo[w].sz /\ h # Null
  <2>1. IsList(nx, h, L[w]) /\ Len(L[w]) = lo[w].sz
    BY <1>1, <1>2 DEF ListsRight
  <2>2. L[w] # <<>>
    BY <2>1
  <2> QED
    BY <2>1, <2>2, NoList
<1>4. /\ L[w] # <<>> /\ h \in On(L[w]) /\ h \in Blocks
      /\ IsList(nx, nx[h], Tail(L[w])) /\ On(Tail(L[w])) = On(L[w]) \ {h}
      /\ Len(Tail(L[w])) = Len(L[w]) - 1
      /\ \A i \in 1..Len(Tail(L[w])) : Tail(L[w])[i] = L[w][i + 1]
  BY <1>3, ListPop
<1>5. kind[h] = "local" /\ owner[h] = w
  BY <1>1, <1>4 DEF InPlace
<1> DEFINE nx2 == [nx EXCEPT ![h] = Null]
           L2 == [L EXCEPT ![w] = Tail(L[w])]
           kind2 == [kind EXCEPT ![h] = "program"]
<1>6. \A b \in Blocks : b # h => nx2[b] = nx[b]
  BY DEF Links
<1>7. /\ L2 \in [Workers -> Seq(Blocks)] /\ L2[w] = Tail(L[w])
      /\ \A v \in Workers : v # w => L2[v] = L[v]
  BY <1>1, <1>4 DEF ListsRight, IsList
<1>8. /\ kind2 \in [Blocks -> Kinds] /\ kind2[h] = "program"
      /\ \A b \in Blocks : b # h => kind2[b] = kind[b]
  BY <1>1, <1>4 DEF InPlace, Kinds
<1> HIDE DEF nx2, L2, kind2
<1>9. ASSUME NEW n, NEW c, IsList(nx, n, c), h \notin On(c) PROVE IsList(nx2, n, c)
  <2>1. \A b \in On(c) : b \in Blocks
    BY <1>9 DEF IsList, On
  <2> QED
    BY <1>6, <1>9, <2>1, ListFrame
<1>10. ListsRight(nx2, gl, lo2, lf, hd, G, L2)
  <2>1. \A j \in 1..Len(gl) : IsList(nx2, Level(gl, j), G[j]) /\ Len(G[j]) = ListLength
    BY <1>1, <1>4, <1>5, <1>9 DEF ListsRight, InPlace
  <2>2. ASSUME NEW v \in Workers
        PROVE  /\ IsList(nx2, lo2[v].head, L2[v]) /\ Len(L2[v]) = lo2[v].sz
               /\ lo2[v].sz >= ListLength + 2 => lo2[v].mid = L2[v][lo2[v].sz - ListLength]
    <3>1. CASE v = w
      <4>1. IsList(nx2, nx[h], Tail(L[w]))
        BY <1>4, <1>9
      <4>2. lo2[w].sz >= ListLength + 2 => lo2[w].mid = Tail(L[w])[lo2[w].sz - ListLength]
        <5> SUFFICES ASSUME lo[w].sz - 1 >= ListLength + 2 PROVE lo[w].mid = Tail(L[w])[lo[w].sz - 1 - ListLength]
          OBVIOUS
        <5>1. ListLength \in Nat
          BY DEF AllocatorAssumption
        <5>2. lo[w].sz - 1 - ListLength \in 1..Len(Tail(L[w]))
          BY <1>3, <1>4, <5>1
        <5>3. lo[w].mid = L[w][lo[w].sz - ListLength]
          <6>1. lo[w].sz >= ListLength + 2
            BY <5>1
          <6> QED
            BY <1>1, <6>1 DEF ListsRight
        <5>4. (lo[w].sz - 1 - ListLength) + 1 = lo[w].sz - ListLength
          BY <5>1
        <5> QED
          BY <1>4, <5>2, <5>3, <5>4
      <4> QED
        BY <1>2, <1>3, <1>4, <1>7, <3>1, <4>1, <4>2
    <3>2. CASE v # w
      <4>1. IsList(nx, lo[v].head, L[v]) /\ h \notin On(L[v])
        BY <1>1, <1>4, <1>5, <3>2 DEF ListsRight, InPlace
      <4> QED
        BY <1>1, <1>7, <1>9, <3>2, <4>1 DEF ListsRight
    <3> QED
      BY <3>1, <3>2
  <2>3. \A v \in Workers : \A f \in lf[v] : IsList(nx2, f, Row(f)) /\ On(Row(f)) \subseteq hd[v]
    <3> SUFFICES ASSUME NEW v \in Workers, NEW f \in lf[v]
                 PROVE  IsList(nx2, f, Row(f)) /\ On(Row(f)) \subseteq hd[v]
      OBVIOUS
    <3>1. IsList(nx, f, Row(f)) /\ On(Row(f)) \subseteq hd[v]
      BY <1>1 DEF ListsRight
    <3>2. h \notin hd[v]
      BY <1>1, <1>4, <1>5 DEF InPlace
    <3> QED
      BY <1>9, <3>1, <3>2
  <2> QED
    BY <1>1, <1>7, <2>1, <2>2, <2>3 DEF ListsRight
<1>11. InPlace(gl, hd, us \cup {h}, mem, G, L2, kind2, level, owner)
  <2>1. \A b \in Blocks : kind2[b] = "none" <=> b \notin mem
    BY <1>1, <1>5, <1>8 DEF InPlace
  <2>2. \A b \in Blocks : kind2[b] = "program" <=> b \in us \cup {h}
    BY <1>1, <1>8 DEF InPlace
  <2>3. \A b \in Blocks : kind2[b] = "global" => level[b] \in 1..Len(gl)
    BY <1>1, <1>8 DEF InPlace
  <2>4. \A b \in Blocks : \A j \in 1..Len(gl) : b \in On(G[j]) <=> kind2[b] = "global" /\ level[b] = j
    BY <1>1, <1>5, <1>8 DEF InPlace
  <2>5. \A b \in Blocks : \A v \in Workers : b \in On(L2[v]) <=> kind2[b] = "local" /\ owner[b] = v
    <3>1. \A b \in Blocks : b \in On(L2[w]) <=> b \in On(L[w]) /\ b # h
      BY <1>4, <1>7
    <3>2. \A b \in Blocks : \A v \in Workers : b \in On(L[v]) <=> kind[b] = "local" /\ owner[b] = v
      BY <1>1 DEF InPlace
    <3>3. ASSUME NEW b \in Blocks, NEW v \in Workers, v # w
          PROVE  b \in On(L2[v]) <=> kind2[b] = "local" /\ owner[b] = v
      BY <1>5, <1>7, <1>8, <3>2, <3>3
    <3>4. ASSUME NEW b \in Blocks PROVE b \in On(L2[w]) <=> kind2[b] = "local" /\ owner[b] = w
      BY <1>5, <1>8, <3>1, <3>2
    <3> QED
      BY <3>3, <3>4
  <2>6. \A b \in Blocks : \A v \in Workers : b \in hd[v] <=> kind2[b] = "hand" /\ owner[b] = v
    BY <1>1, <1>5, <1>8 DEF InPlace
  <2> QED
    BY <1>1, <1>8, <2>1, <2>2, <2>3, <2>4, <2>5, <2>6 DEF InPlace
<1> QED
  BY <1>2, <1>10, <1>11 DEF Owned, nx2

\* A block that the program frees becomes the head of a worker's list, and the head
\* before it the middle if the list is long enough.
LEMMA PutHead ==
  ASSUME AllocatorAssumption, NEW nx \in Links, NEW gl, NEW lo, NEW lf, NEW hd, NEW us, us \subseteq Blocks,
         NEW mem, Owned(nx, gl, lo, lf, hd, us, mem), NEW w \in Workers, NEW b \in us, NEW lo2,
         lo[w].sz \in Nat, lo2[w].sz = lo[w].sz + 1, lo2[w].head = b,
         lo2[w].mid = (IF lo[w].sz = ListLength + 1 THEN lo[w].head ELSE lo[w].mid),
         \A v \in Workers : v # w => lo2[v] = lo[v]
  PROVE  Owned([nx EXCEPT ![b] = lo[w].head], gl, lo2, lf, hd, us \ {b}, mem)
<1>1. PICK G, L, kind, level, owner :
        ListsRight(nx, gl, lo, lf, hd, G, L) /\ InPlace(gl, hd, us, mem, G, L, kind, level, owner)
  BY DEF Owned
<1>2. b \in Blocks /\ kind[b] = "program"
  BY <1>1 DEF InPlace
<1> DEFINE nx2 == [nx EXCEPT ![b] = lo[w].head]
           L2 == [L EXCEPT ![w] = <<b>> \o L[w]]
           kind2 == [kind EXCEPT ![b] = "local"]
           owner2 == [owner EXCEPT ![b] = w]
<1>3. nx2[b] = lo[w].head /\ \A a \in Blocks : a # b => nx2[a] = nx[a]
  BY <1>2 DEF Links
<1>4. L[w] \in Seq(Blocks) /\ <<b>> \o L[w] \in Seq(Blocks)
  BY <1>1, <1>2 DEF ListsRight
<1>5. /\ L2 \in [Workers -> Seq(Blocks)] /\ L2[w] = <<b>> \o L[w]
      /\ \A v \in Workers : v # w => L2[v] = L[v]
  BY <1>1, <1>4 DEF ListsRight
<1>6. /\ kind2 \in [Blocks -> Kinds] /\ kind2[b] = "local"
      /\ \A a \in Blocks : a # b => kind2[a] = kind[a]
  BY <1>1, <1>2 DEF InPlace, Kinds
<1>7. /\ owner2 \in [Blocks -> Workers] /\ owner2[b] = w
      /\ \A a \in Blocks : a # b => owner2[a] = owner[a]
  BY <1>1, <1>2 DEF InPlace
<1> HIDE DEF nx2, L2, kind2, owner2
<1>8. ASSUME NEW n, NEW c, IsList(nx, n, c), b \notin On(c) PROVE IsList(nx2, n, c)
  <2>1. \A a \in On(c) : a \in Blocks
    BY <1>8 DEF IsList, On
  <2> QED
    BY <1>3, <1>8, <2>1, ListFrame
<1>9. /\ IsList(nx2, b, <<b>> \o L[w]) /\ On(<<b>> \o L[w]) = On(L[w]) \cup {b}
      /\ Len(<<b>> \o L[w]) = Len(L[w]) + 1 /\ \A i \in 1..Len(L[w]) : (<<b>> \o L[w])[i + 1] = L[w][i]
  <2>1. b \notin On(L[w])
    BY <1>1, <1>2 DEF InPlace
  <2>2. IsList(nx2, lo[w].head, L[w])
    BY <1>1, <1>8, <2>1 DEF ListsRight
  <2> QED
    BY <1>2, <1>3, <2>1, <2>2, ListPush
<1>10. ListsRight(nx2, gl, lo2, lf, hd, G, L2)
  <2>1. \A j \in 1..Len(gl) : IsList(nx2, Level(gl, j), G[j]) /\ Len(G[j]) = ListLength
    BY <1>1, <1>2, <1>8 DEF ListsRight, InPlace
  <2>2. ASSUME NEW v \in Workers
        PROVE  /\ IsList(nx2, lo2[v].head, L2[v]) /\ Len(L2[v]) = lo2[v].sz
               /\ lo2[v].sz >= ListLength + 2 => lo2[v].mid = L2[v][lo2[v].sz - ListLength]
    <3>1. CASE v = w
      <4>1. Len(L[w]) = lo[w].sz /\ lo[w].head = IF L[w] = <<>> THEN Null ELSE L[w][1]
        BY <1>1 DEF ListsRight, IsList
      <4>2. lo2[w].sz >= ListLength + 2 => lo2[w].mid = L2[w][lo2[w].sz - ListLength]
        <5> SUFFICES ASSUME lo2[w].sz >= ListLength + 2 PROVE lo2[w].mid = L2[w][lo2[w].sz - ListLength]
          OBVIOUS
        <5>0. lo2[w].sz = lo[w].sz + 1
          OBVIOUS
        <5>1. ListLength \in Nat /\ ListLength >= 2
          BY DEF AllocatorAssumption
        <5>2. lo[w].sz - ListLength \in 1..Len(L[w])
          BY <4>1, <5>0, <5>1
        <5>3. L2[w][lo2[w].sz - ListLength] = L[w][lo[w].sz - ListLength]
          <6>1. (lo[w].sz - ListLength) + 1 = lo2[w].sz - ListLength
            BY <5>0, <5>1
          <6> QED
            BY <1>5, <1>9, <5>2, <6>1
        <5>4. CASE lo[w].sz = ListLength + 1
          <6>1. lo[w].sz - ListLength = 1 /\ L[w] # <<>>
            BY <4>1, <5>1, <5>4
          <6>2. lo2[w].mid = lo[w].head
            BY <5>4
          <6>3. L[w][lo[w].sz - ListLength] = L[w][1] /\ lo[w].head = L[w][1]
            BY <4>1, <6>1
          <6> QED
            BY <5>3, <6>2, <6>3
        <5>5. CASE lo[w].sz # ListLength + 1
          <6>1. lo[w].sz >= ListLength + 2
            BY <5>0, <5>1, <5>5
          <6>2. lo2[w].mid = lo[w].mid
            BY <5>5
          <6>3. lo[w].mid = L[w][lo[w].sz - ListLength]
            BY <1>1, <6>1 DEF ListsRight
          <6> QED
            BY <5>3, <6>2, <6>3
        <5> QED
          BY <5>4, <5>5
      <4> QED
        BY <1>5, <1>9, <3>1, <4>1, <4>2
    <3>2. CASE v # w
      <4>1. IsList(nx, lo[v].head, L[v]) /\ b \notin On(L[v])
        BY <1>1, <1>2 DEF ListsRight, InPlace
      <4> QED
        BY <1>1, <1>5, <1>8, <3>2, <4>1 DEF ListsRight
    <3> QED
      BY <3>1, <3>2
  <2>3. \A v \in Workers : \A f \in lf[v] : IsList(nx2, f, Row(f)) /\ On(Row(f)) \subseteq hd[v]
    <3> SUFFICES ASSUME NEW v \in Workers, NEW f \in lf[v]
                 PROVE  IsList(nx2, f, Row(f)) /\ On(Row(f)) \subseteq hd[v]
      OBVIOUS
    <3>1. IsList(nx, f, Row(f)) /\ On(Row(f)) \subseteq hd[v]
      BY <1>1 DEF ListsRight
    <3>2. b \notin hd[v]
      BY <1>1, <1>2 DEF InPlace
    <3> QED
      BY <1>8, <3>1, <3>2
  <2> QED
    BY <1>1, <1>5, <2>1, <2>2, <2>3 DEF ListsRight
<1>11. InPlace(gl, hd, us \ {b}, mem, G, L2, kind2, level, owner2)
  <2>1. \A a \in Blocks : kind2[a] = "none" <=> a \notin mem
    BY <1>1, <1>2, <1>6 DEF InPlace
  <2>2. \A a \in Blocks : kind2[a] = "program" <=> a \in us \ {b}
    BY <1>1, <1>6 DEF InPlace
  <2>3. \A a \in Blocks : kind2[a] = "global" => level[a] \in 1..Len(gl)
    BY <1>1, <1>6 DEF InPlace
  <2>4. \A a \in Blocks : \A j \in 1..Len(gl) : a \in On(G[j]) <=> kind2[a] = "global" /\ level[a] = j
    BY <1>1, <1>2, <1>6 DEF InPlace
  <2>5. \A a \in Blocks : \A v \in Workers : a \in On(L2[v]) <=> kind2[a] = "local" /\ owner2[a] = v
    <3>1. \A a \in Blocks : a \in On(L2[w]) <=> a \in On(L[w]) \/ a = b
      BY <1>5, <1>9
    <3>2. \A a \in Blocks : \A v \in Workers : a \in On(L[v]) <=> kind[a] = "local" /\ owner[a] = v
      BY <1>1 DEF InPlace
    <3>3. ASSUME NEW a \in Blocks, NEW v \in Workers, v # w
          PROVE  a \in On(L2[v]) <=> kind2[a] = "local" /\ owner2[a] = v
      <4>1. CASE a = b
        <5>1. b \notin On(L[v])
          BY <1>2, <3>2
        <5>2. L2[v] = L[v] /\ owner2[b] # v
          BY <1>5, <1>7, <3>3
        <5>3. b \notin On(L2[v])
          BY <5>1, <5>2
        <5> QED
          BY <4>1, <5>2, <5>3
      <4>2. CASE a # b
        <5>1. L2[v] = L[v] /\ kind2[a] = kind[a] /\ owner2[a] = owner[a]
          BY <1>5, <1>6, <1>7, <3>3, <4>2
        <5>2. a \in On(L[v]) <=> kind[a] = "local" /\ owner[a] = v
          BY <3>2
        <5> QED
          BY <5>1, <5>2
      <4> QED
        BY <4>1, <4>2
    <3>4. ASSUME NEW a \in Blocks PROVE a \in On(L2[w]) <=> kind2[a] = "local" /\ owner2[a] = w
      BY <1>6, <1>7, <3>1, <3>2
    <3> QED
      BY <3>3, <3>4
  <2>6. \A a \in Blocks : \A v \in Workers : a \in hd[v] <=> kind2[a] = "hand" /\ owner2[a] = v
    BY <1>1, <1>2, <1>6, <1>7 DEF InPlace
  <2> QED
    BY <1>1, <1>6, <1>7, <2>1, <2>2, <2>3, <2>4, <2>5, <2>6 DEF InPlace
<1> QED
  BY <1>10, <1>11 DEF Owned, nx2

\* The list on top of the stack becomes a worker's that has none.
LEMMA GlobalToLocal ==
  ASSUME AllocatorAssumption, NEW nx \in Links, NEW gl \in Seq(Blocks), gl # <<>>, NEW lo, NEW lf, NEW hd,
         NEW us, NEW mem, Owned(nx, gl, lo, lf, hd, us, mem), NEW w \in Workers, NEW lo2, lo[w].sz = 0,
         lo2[w].sz = ListLength, lo2[w].head = Head(gl), \A v \in Workers : v # w => lo2[v] = lo[v]
  PROVE  Owned(nx, Tail(gl), lo2, lf, hd, us, mem)
<1>1. PICK G, L, kind, level, owner :
        ListsRight(nx, gl, lo, lf, hd, G, L) /\ InPlace(gl, hd, us, mem, G, L, kind, level, owner)
  BY DEF Owned
<1>2. PICK n : n = Len(gl)
  OBVIOUS
<1>3. /\ n \in Nat \ {0} /\ Len(Tail(gl)) = n - 1 /\ Head(gl) = Level(gl, n)
      /\ \A j \in 1..(n - 1) : Level(Tail(gl), j) = Level(gl, j)
  <2>1. n \in Nat \ {0} /\ Len(Tail(gl)) = n - 1 /\ \A i \in 1..(n - 1) : Tail(gl)[i] = gl[i + 1]
    BY <1>2
  <2>2. \A j \in 1..(n - 1) : (n - 1) - j + 1 \in 1..(n - 1) /\ (n - 1) - j + 1 + 1 = n - j + 1
    BY <2>1
  <2>3. \A j \in 1..(n - 1) : Tail(gl)[(n - 1) - j + 1] = gl[n - j + 1]
    BY <2>1, <2>2
  <2>4. n - n + 1 = 1 /\ Head(gl) = gl[1]
    BY <2>1
  <2> QED
    BY <1>2, <2>1, <2>3, <2>4 DEF Level
<1>4. L[w] = <<>>
  <2>1. L[w] \in Seq(Blocks) /\ Len(L[w]) = 0
    BY <1>1 DEF ListsRight
  <2> QED
    BY <2>1
<1> DEFINE L2 == [L EXCEPT ![w] = G[n]]
           top(b) == kind[b] = "global" /\ level[b] = n
           kind2 == [b \in Blocks |-> IF top(b) THEN "local" ELSE kind[b]]
           owner2 == [b \in Blocks |-> IF top(b) THEN w ELSE owner[b]]
<1>5. /\ L2 \in [Workers -> Seq(Blocks)] /\ L2[w] = G[n] /\ \A v \in Workers : v # w => L2[v] = L[v]
  BY <1>1, <1>3 DEF ListsRight
<1>6. /\ kind2 \in [Blocks -> Kinds] /\ owner2 \in [Blocks -> Workers]
      /\ \A b \in Blocks : top(b) => kind2[b] = "local" /\ owner2[b] = w
      /\ \A b \in Blocks : ~top(b) => kind2[b] = kind[b] /\ owner2[b] = owner[b]
  BY <1>1 DEF InPlace, Kinds
<1>7. \A b \in Blocks : b \in On(G[n]) <=> top(b)
  BY <1>1, <1>2, <1>3 DEF InPlace
<1> HIDE DEF L2, kind2, owner2
<1>8. ListsRight(nx, Tail(gl), lo2, lf, hd, G, L2)
  <2>1. ASSUME NEW j \in 1..Len(Tail(gl)) PROVE IsList(nx, Level(Tail(gl), j), G[j]) /\ Len(G[j]) = ListLength
    <3>1. j \in 1..(n - 1) /\ j \in 1..Len(gl)
      BY <1>2, <1>3
    <3> QED
      BY <1>1, <1>3, <3>1 DEF ListsRight
  <2>2. ASSUME NEW v \in Workers
        PROVE  /\ IsList(nx, lo2[v].head, L2[v]) /\ Len(L2[v]) = lo2[v].sz
               /\ lo2[v].sz >= ListLength + 2 => lo2[v].mid = L2[v][lo2[v].sz - ListLength]
    <3>1. CASE v = w
      <4>1. n \in 1..Len(gl)
        BY <1>2, <1>3
      <4>2. IsList(nx, Head(gl), G[n]) /\ Len(G[n]) = ListLength
        BY <1>1, <1>3, <4>1 DEF ListsRight
      <4>3. ~(ListLength >= ListLength + 2)
        BY DEF AllocatorAssumption
      <4> QED
        BY <1>5, <3>1, <4>2, <4>3
    <3>2. CASE v # w
      BY <1>1, <1>5, <3>2 DEF ListsRight
    <3> QED
      BY <3>1, <3>2
  <2> QED
    BY <1>1, <1>5, <2>1, <2>2 DEF ListsRight
<1>9. InPlace(Tail(gl), hd, us, mem, G, L2, kind2, level, owner2)
  <2>1. \A b \in Blocks : kind2[b] = "none" <=> b \notin mem
    BY <1>1, <1>6 DEF InPlace
  <2>2. \A b \in Blocks : kind2[b] = "program" <=> b \in us
    BY <1>1, <1>6 DEF InPlace
  <2>3. ASSUME NEW b \in Blocks, kind2[b] = "global" PROVE level[b] \in 1..Len(Tail(gl))
    <3>1. ~top(b) /\ kind[b] = "global"
      BY <1>6, <2>3
    <3>2. level[b] \in 1..n
      BY <1>1, <1>2, <3>1 DEF InPlace
    <3> QED
      BY <1>3, <3>1, <3>2
  <2>4. ASSUME NEW b \in Blocks, NEW j \in 1..Len(Tail(gl))
        PROVE  b \in On(G[j]) <=> kind2[b] = "global" /\ level[b] = j
    <3>1. j \in 1..Len(gl) /\ j # n
      BY <1>2, <1>3
    <3>2. b \in On(G[j]) <=> kind[b] = "global" /\ level[b] = j
      BY <1>1, <3>1 DEF InPlace
    <3> QED
      BY <1>6, <3>1, <3>2
  <2>5. ASSUME NEW b \in Blocks, NEW v \in Workers
        PROVE  b \in On(L2[v]) <=> kind2[b] = "local" /\ owner2[b] = v
    <3>1. b \in On(L[v]) <=> kind[b] = "local" /\ owner[b] = v
      BY <1>1 DEF InPlace
    <3>2. b \notin On(L[w])
      BY <1>4, NoList
    <3>3. kind[b] = "local" => owner[b] # w
      BY <1>1, <3>2 DEF InPlace
    <3>4. CASE v = w
      BY <1>5, <1>6, <1>7, <3>3, <3>4
    <3>5. CASE v # w
      BY <1>5, <1>6, <3>1, <3>5
    <3> QED
      BY <3>4, <3>5
  <2>6. ASSUME NEW b \in Blocks, NEW v \in Workers
        PROVE  b \in hd[v] <=> kind2[b] = "hand" /\ owner2[b] = v
    <3>1. b \in hd[v] <=> kind[b] = "hand" /\ owner[b] = v
      BY <1>1 DEF InPlace
    <3> QED
      BY <1>6, <3>1
  <2> QED
    BY <1>1, <1>6, <2>1, <2>2, <2>3, <2>4, <2>5, <2>6 DEF InPlace
<1> QED
  BY <1>8, <1>9 DEF Owned

\* ds and e are the lists that n and x start, ds of k blocks, and together those of c.
Halves(nx, n, x, k, c, ds, e) ==
  /\ IsList(nx, n, ds) /\ Len(ds) = k
  /\ IsList(nx, x, e) /\ Len(e) + k = Len(c)
  /\ On(ds) \cup On(e) = On(c) /\ On(ds) \cap On(e) = {}

\* A list cut behind its k-th block is two lists.
LEMMA CutList ==
  ASSUME NEW nx \in Links, NEW n, NEW c, IsList(nx, n, c), NEW k \in 1..(Len(c) - 1), NEW m, m = c[k]
  PROVE  \E ds, e : Halves([nx EXCEPT ![m] = Null], n, nx[m], k, c, ds, e)
<1> DEFINE ds == SubSeq(c, 1, k)
           e == SubSeq(c, k + 1, Len(c))
           ny == [nx EXCEPT ![m] = Null]
<1>1. /\ c \in Seq(Blocks) /\ Len(c) \in Nat /\ k \in 1..Len(c) /\ k + 1 \in 1..Len(c)
      /\ \A i \in 1..Len(c) : c[i] \in Blocks
  BY DEF IsList
<1>2. n = c[1]
  BY <1>1 DEF IsList
<1>3. \A i \in 1..Len(c) : nx[c[i]] = IF i < Len(c) THEN c[i + 1] ELSE Null
  BY DEF IsList
<1>4. \A i, j \in 1..Len(c) : c[i] = c[j] => i = j
  BY DEF IsList
<1>5. ny[c[k]] = Null /\ \A i \in 1..Len(c) : i # k => ny[c[i]] = nx[c[i]]
  BY <1>1, <1>4 DEF Links
<1>6. ds \in Seq(Blocks) /\ Len(ds) = k /\ \A i \in 1..k : ds[i] = c[i] /\ i \in 1..Len(c)
  BY <1>1
<1>7. /\ e \in Seq(Blocks) /\ Len(e) = Len(c) - k
      /\ \A i \in 1..(Len(c) - k) : e[i] = c[k + i] /\ k + i \in 1..Len(c)
  BY <1>1
<1> HIDE DEF ds, e, ny
<1>8. IsList(ny, n, ds)
  <2>1. ds # <<>> /\ ds[1] = n
    BY <1>1, <1>2, <1>6
  <2>2. ASSUME NEW i \in 1..k PROVE ny[ds[i]] = IF i < k THEN ds[i + 1] ELSE Null
    <3>1. CASE i = k
      BY <1>5, <1>6, <3>1
    <3>2. CASE i # k
      <4>1. i < k /\ i < Len(c) /\ i + 1 \in 1..k
        BY <1>1, <3>2
      <4> QED
        BY <1>3, <1>5, <1>6, <3>2, <4>1
    <3> QED
      BY <3>1, <3>2
  <2>3. \A i, j \in 1..k : ds[i] = ds[j] => i = j
    BY <1>4, <1>6
  <2> QED
    BY <1>6, <2>1, <2>2, <2>3 DEF IsList
<1>9. IsList(ny, c[k + 1], e)
  <2>1. e # <<>> /\ e[1] = c[k + 1]
    <3>1. 1 \in 1..(Len(c) - k)
      BY <1>1
    <3> QED
      BY <1>7, <3>1
  <2>2. ASSUME NEW i \in 1..(Len(c) - k) PROVE ny[e[i]] = IF i < Len(c) - k THEN e[i + 1] ELSE Null
    <3>1. e[i] = c[k + i] /\ k + i \in 1..Len(c) /\ k + i # k
      BY <1>1, <1>7
    <3>2. ny[e[i]] = IF k + i < Len(c) THEN c[k + i + 1] ELSE Null
      BY <1>3, <1>5, <3>1
    <3>3. CASE i < Len(c) - k
      <4>1. k + i < Len(c) /\ i + 1 \in 1..(Len(c) - k) /\ k + i + 1 = k + (i + 1)
        BY <1>1, <3>3
      <4> QED
        BY <1>7, <3>2, <3>3, <4>1
    <3>4. CASE i = Len(c) - k
      <4>1. ~(k + i < Len(c))
        BY <1>1, <3>4
      <4> QED
        BY <3>2, <3>4, <4>1
    <3> QED
      BY <1>1, <3>3, <3>4
  <2>3. ASSUME NEW i \in 1..(Len(c) - k), NEW j \in 1..(Len(c) - k), e[i] = e[j] PROVE i = j
    <3>1. c[k + i] = c[k + j] /\ k + i \in 1..Len(c) /\ k + j \in 1..Len(c)
      BY <1>7, <2>3
    <3>2. k + i = k + j
      BY <1>4, <3>1
    <3> QED
      BY <1>1, <3>2
  <2> QED
    BY <1>7, <2>1, <2>2, <2>3 DEF IsList
<1>10. On(ds) \cup On(e) = On(c)
  <2>1. On(ds) \subseteq On(c)
    BY <1>6 DEF On
  <2>2. On(e) \subseteq On(c)
    BY <1>7 DEF On
  <2>3. ASSUME NEW i \in 1..Len(c) PROVE c[i] \in On(ds) \cup On(e)
    <3>1. CASE i <= k
      <4>1. i \in 1..k
        BY <1>1, <3>1
      <4> QED
        BY <1>6, <4>1 DEF On
    <3>2. CASE i > k
      <4>1. i - k \in 1..(Len(c) - k) /\ k + (i - k) = i
        BY <1>1, <3>2
      <4>2. e[i - k] = c[i]
        BY <1>7, <4>1
      <4> QED
        BY <1>7, <4>1, <4>2 DEF On
    <3> QED
      BY <1>1, <3>1, <3>2
  <2> QED
    BY <2>1, <2>2, <2>3 DEF On
<1>11. On(ds) \cap On(e) = {}
  <2> SUFFICES ASSUME NEW i \in 1..k, NEW j \in 1..(Len(c) - k), ds[i] = e[j] PROVE FALSE
    BY <1>6, <1>7 DEF On
  <2>1. c[i] = c[k + j] /\ i \in 1..Len(c) /\ k + j \in 1..Len(c)
    BY <1>6, <1>7
  <2>2. i = k + j
    BY <1>4, <2>1
  <2> QED
    BY <1>1, <2>2
<1> QED
  <2>1. nx[m] = c[k + 1]
    BY <1>1, <1>3
  <2>2. Len(e) + k = Len(c)
    BY <1>1, <1>7
  <2>3. Halves(ny, n, nx[m], k, c, ds, e)
    BY <1>6, <1>8, <1>9, <1>10, <1>11, <2>1, <2>2 DEF Halves
  <2> QED
    BY <2>3 DEF ny

\* The numbers of the lists on the stack gl2, which is gl with f on top.
OnTop(gl2, gl, f, n) ==
  /\ n \in Nat \ {0} /\ Len(gl2) = n /\ Level(gl2, n) = f
  /\ \A j \in 1..(n - 1) : Level(gl2, j) = Level(gl, j)
  /\ \A j \in Nat : j \in 1..Len(gl) <=> j \in 1..(n - 1)

\* A push leaves the numbers of the other lists.
LEMMA PushLevels ==
  ASSUME NEW gl \in Seq(Blocks), NEW f \in Blocks
  PROVE  \E n : OnTop(<<f>> \o gl, gl, f, n)
<1> DEFINE gl2 == <<f>> \o gl
           n == Len(gl) + 1
<1>1. <<f>> \in Seq(Blocks) /\ Len(<<f>>) = 1 /\ <<f>>[1] = f /\ Len(gl) \in Nat
  OBVIOUS
<1>2. n \in Nat \ {0} /\ Len(gl2) = n /\ gl2[1] = f /\ \A i \in 1..(n - 1) : gl2[i + 1] = gl[i]
  BY <1>1
<1>3. n - n + 1 = 1 /\ n - 1 = Len(gl)
  BY <1>1
<1>4. \A j \in 1..(n - 1) : Len(gl) - j + 1 \in 1..(n - 1) /\ (Len(gl) - j + 1) + 1 = n - j + 1
  BY <1>1, <1>2
<1>5. \A j \in 1..(n - 1) : gl2[n - j + 1] = gl[Len(gl) - j + 1]
  BY <1>2, <1>4
<1>6. \A j \in Nat : j \in 1..Len(gl) <=> j \in 1..(n - 1)
  BY <1>3
<1>7. OnTop(gl2, gl, f, n)
  <2> HIDE DEF gl2, n
  <2> QED
    BY <1>2, <1>3, <1>5, <1>6 DEF Level, OnTop
<1> QED
  BY <1>7

\* The lower half of a full list becomes the list on top of the stack.
LEMMA CutToGlobal ==
  ASSUME AllocatorAssumption, NEW nx \in Links, NEW gl \in Seq(Blocks), NEW lo, NEW lf, NEW hd, NEW us,
         NEW mem, Owned(nx, gl, lo, lf, hd, us, mem), NEW w \in Workers, NEW lo2, lo[w].sz = 2 * ListLength,
         lo2[w].sz = ListLength, lo2[w].head = lo[w].head, \A v \in Workers : v # w => lo2[v] = lo[v]
  PROVE  /\ lo[w].mid \in Blocks \ us /\ nx[lo[w].mid] \in Blocks
         /\ Owned([nx EXCEPT ![lo[w].mid] = Null], <<nx[lo[w].mid]>> \o gl, lo2, lf, hd, us, mem)
<1>1. PICK G, L, kind, level, owner :
        ListsRight(nx, gl, lo, lf, hd, G, L) /\ InPlace(gl, hd, us, mem, G, L, kind, level, owner)
  BY DEF Owned
<1>2. PICK c : c = L[w]
  OBVIOUS
<1>3. ListLength \in Nat /\ ListLength >= 2
  BY DEF AllocatorAssumption
<1>4. IsList(nx, lo[w].head, c) /\ Len(c) = 2 * ListLength /\ lo[w].mid = c[ListLength]
  <2>1. lo[w].sz >= ListLength + 2 /\ lo[w].sz - ListLength = ListLength
    BY <1>3
  <2> QED
    BY <1>1, <1>2, <2>1 DEF ListsRight
<1>5. PICK m : m = lo[w].mid
  OBVIOUS
<1>5a. PICK x : x = nx[m]
  OBVIOUS
<1> DEFINE nx2 == [nx EXCEPT ![m] = Null]
<1>6a. m \in Blocks /\ x \in Blocks
  <2>1. m = c[ListLength]
    BY <1>4, <1>5
  <2>2. ListLength \in 1..Len(c) /\ ListLength + 1 \in 1..Len(c) /\ ListLength < Len(c)
    BY <1>3, <1>4
  <2> QED
    BY <1>4, <1>5a, <2>1, <2>2 DEF IsList
<1>6b. PICK ds, e : Halves(nx2, lo[w].head, nx[m], ListLength, c, ds, e)
  <2>1. ListLength \in 1..(Len(c) - 1)
    BY <1>3, <1>4
  <2>2. m = c[ListLength]
    BY <1>4, <1>5
  <2> QED
    BY <1>4, <2>1, <2>2, CutList
<1>6. /\ m \in Blocks /\ x \in Blocks
      /\ IsList(nx2, lo[w].head, ds) /\ Len(ds) = ListLength
      /\ IsList(nx2, x, e) /\ Len(e) = ListLength
      /\ On(ds) \cup On(e) = On(c) /\ On(ds) \cap On(e) = {}
  <2>1. Len(e) = ListLength
    <3>1. Len(e) \in Nat
      BY <1>6b DEF Halves, IsList
    <3> QED
      BY <1>3, <1>4, <1>6b, <3>1 DEF Halves
  <2> QED
    BY <1>5a, <1>6a, <1>6b, <2>1 DEF Halves
<1>7. m \in On(c) /\ kind[m] = "local" /\ owner[m] = w
  <2>1. ListLength \in 1..Len(c)
    BY <1>3, <1>4
  <2>2. m \in On(c)
    BY <1>4, <1>5, <2>1 DEF On
  <2> QED
    BY <1>1, <1>2, <1>6, <2>2 DEF InPlace
<1>8. \A b \in Blocks : b # m => nx2[b] = nx[b]
  BY DEF Links
<1>9. PICK n : OnTop(<<x>> \o gl, gl, x, n)
  BY <1>6, PushLevels
<1> DEFINE gl2 == <<x>> \o gl
           G2 == [G EXCEPT ![n] = e]
           L2 == [L EXCEPT ![w] = ds]
           kind2 == [b \in Blocks |-> IF b \in On(e) THEN "global" ELSE kind[b]]
           level2 == [b \in Blocks |-> IF b \in On(e) THEN n ELSE level[b]]
<1>10. /\ n \in Nat /\ Len(gl2) = n /\ Level(gl2, n) = x
       /\ \A j \in 1..(n - 1) : Level(gl2, j) = Level(gl, j) /\ j \in 1..Len(gl)
       /\ \A j \in 1..Len(gl) : j # n /\ j \in 1..(n - 1)
       /\ 1..n = 1..(n - 1) \cup {n}
  <2>1. /\ n \in Nat \ {0} /\ Len(gl2) = n /\ Level(gl2, n) = x
        /\ \A j \in 1..(n - 1) : Level(gl2, j) = Level(gl, j)
        /\ \A j \in Nat : j \in 1..Len(gl) <=> j \in 1..(n - 1)
    BY <1>9 DEF OnTop
  <2> HIDE DEF gl2
  <2>2. \A j \in 1..(n - 1) : j \in Nat
    BY <2>1
  <2>3. \A j \in 1..Len(gl) : j \in Nat /\ j # n
    BY <2>1
  <2>4. 1..n = 1..(n - 1) \cup {n}
    BY <2>1
  <2> QED
    BY <2>1, <2>2, <2>3, <2>4
<1>11. /\ G2 \in [Nat -> Seq(Blocks)] /\ G2[n] = e /\ \A j \in 1..(n - 1) : G2[j] = G[j]
  <2>1. e \in Seq(Blocks)
    BY <1>6 DEF IsList
  <2>2. \A j \in 1..(n - 1) : j # n /\ j \in Nat
    BY <1>10
  <2> QED
    BY <1>1, <1>10, <2>1, <2>2 DEF ListsRight
<1>12. /\ L2 \in [Workers -> Seq(Blocks)] /\ L2[w] = ds /\ \A v \in Workers : v # w => L2[v] = L[v]
  <2>1. ds \in Seq(Blocks)
    BY <1>6 DEF IsList
  <2> QED
    BY <1>1, <2>1 DEF ListsRight
<1>13. /\ kind2 \in [Blocks -> Kinds] /\ level2 \in [Blocks -> Nat]
       /\ \A b \in Blocks : b \in On(e) => kind2[b] = "global" /\ level2[b] = n
       /\ \A b \in Blocks : b \notin On(e) => kind2[b] = kind[b] /\ level2[b] = level[b]
  BY <1>1, <1>10 DEF InPlace, Kinds
<1>14. \A b \in Blocks : b \in On(e) => kind[b] = "local" /\ owner[b] = w
  BY <1>1, <1>2, <1>6 DEF InPlace
<1> HIDE DEF nx2, gl2, G2, L2, kind2, level2
<1>15. ASSUME NEW h, NEW a, IsList(nx, h, a), m \notin On(a) PROVE IsList(nx2, h, a)
  <2>1. \A b \in On(a) : b \in Blocks
    BY <1>15 DEF IsList, On
  <2> QED
    BY <1>8, <1>15, <2>1, ListFrame
<1>16. ListsRight(nx2, gl2, lo2, lf, hd, G2, L2)
  <2>1. ASSUME NEW j \in 1..Len(gl2) PROVE IsList(nx2, Level(gl2, j), G2[j]) /\ Len(G2[j]) = ListLength
    <3>1. CASE j = n
      BY <1>6, <1>10, <1>11, <3>1
    <3>2. CASE j # n
      <4>1. j \in 1..(n - 1) /\ j \in 1..Len(gl)
        BY <1>10, <3>2
      <4>2. m \notin On(G[j])
        BY <1>1, <1>6, <1>7, <4>1 DEF InPlace
      <4>3. IsList(nx, Level(gl, j), G[j]) /\ Len(G[j]) = ListLength
        BY <1>1, <4>1 DEF ListsRight
      <4> QED
        BY <1>10, <1>11, <1>15, <4>1, <4>2, <4>3
    <3> QED
      BY <3>1, <3>2
  <2>2. ASSUME NEW v \in Workers
        PROVE  /\ IsList(nx2, lo2[v].head, L2[v]) /\ Len(L2[v]) = lo2[v].sz
               /\ lo2[v].sz >= ListLength + 2 => lo2[v].mid = L2[v][lo2[v].sz - ListLength]
    <3>1. CASE v = w
      <4>1. ~(ListLength >= ListLength + 2)
        BY <1>3
      <4> QED
        BY <1>6, <1>12, <3>1, <4>1
    <3>2. CASE v # w
      <4>1. IsList(nx, lo[v].head, L[v]) /\ m \notin On(L[v])
        BY <1>1, <1>6, <1>7, <3>2 DEF ListsRight, InPlace
      <4> QED
        BY <1>1, <1>12, <1>15, <3>2, <4>1 DEF ListsRight
    <3> QED
      BY <3>1, <3>2
  <2>3. \A v \in Workers : \A f \in lf[v] : IsList(nx2, f, Row(f)) /\ On(Row(f)) \subseteq hd[v]
    <3> SUFFICES ASSUME NEW v \in Workers, NEW f \in lf[v]
                 PROVE  IsList(nx2, f, Row(f)) /\ On(Row(f)) \subseteq hd[v]
      OBVIOUS
    <3>1. IsList(nx, f, Row(f)) /\ On(Row(f)) \subseteq hd[v]
      BY <1>1 DEF ListsRight
    <3>2. m \notin hd[v]
      BY <1>1, <1>6, <1>7 DEF InPlace
    <3> QED
      BY <1>15, <3>1, <3>2
  <2> QED
    BY <1>11, <1>12, <2>1, <2>2, <2>3 DEF ListsRight
<1>17. InPlace(gl2, hd, us, mem, G2, L2, kind2, level2, owner)
  <2>1. \A b \in Blocks : kind2[b] = "none" <=> b \notin mem
    BY <1>1, <1>13, <1>14 DEF InPlace
  <2>2. \A b \in Blocks : kind2[b] = "program" <=> b \in us
    BY <1>1, <1>13, <1>14 DEF InPlace
  <2>3. ASSUME NEW b \in Blocks, kind2[b] = "global" PROVE level2[b] \in 1..Len(gl2)
    <3>1. CASE b \in On(e)
      BY <1>9, <1>10, <1>13, <3>1
    <3>2. CASE b \notin On(e)
      <4>1. level[b] \in 1..Len(gl)
        BY <1>1, <1>13, <2>3, <3>2 DEF InPlace
      <4> QED
        BY <1>10, <1>13, <3>2, <4>1
    <3> QED
      BY <3>1, <3>2
  <2>4. ASSUME NEW b \in Blocks, NEW j \in 1..Len(gl2)
        PROVE  b \in On(G2[j]) <=> kind2[b] = "global" /\ level2[b] = j
    <3>1. CASE j = n
      <4>1. b \notin On(e) /\ kind[b] = "global" => level[b] # n
        BY <1>1, <1>10 DEF InPlace
      <4> QED
        BY <1>11, <1>13, <3>1, <4>1
    <3>2. CASE j # n
      <4>1. j \in 1..(n - 1) /\ j \in 1..Len(gl)
        BY <1>10, <3>2
      <4>2. b \in On(G[j]) <=> kind[b] = "global" /\ level[b] = j
        BY <1>1, <4>1 DEF InPlace
      <4>3. G2[j] = G[j]
        BY <1>11, <4>1
      <4> QED
        BY <1>13, <1>14, <3>2, <4>2, <4>3
    <3> QED
      BY <3>1, <3>2
  <2>5. ASSUME NEW b \in Blocks, NEW v \in Workers
        PROVE  b \in On(L2[v]) <=> kind2[b] = "local" /\ owner[b] = v
    <3>1. b \in On(L[v]) <=> kind[b] = "local" /\ owner[b] = v
      BY <1>1 DEF InPlace
    <3>2. CASE v = w
      <4>1. b \in On(ds) <=> b \in On(c) /\ b \notin On(e)
        BY <1>6
      <4> QED
        BY <1>2, <1>12, <1>13, <3>1, <3>2, <4>1
    <3>3. CASE v # w
      BY <1>12, <1>13, <1>14, <3>1, <3>3
    <3> QED
      BY <3>2, <3>3
  <2>6. ASSUME NEW b \in Blocks, NEW v \in Workers
        PROVE  b \in hd[v] <=> kind2[b] = "hand" /\ owner[b] = v
    <3>1. b \in hd[v] <=> kind[b] = "hand" /\ owner[b] = v
      BY <1>1 DEF InPlace
    <3> QED
      BY <1>13, <1>14, <3>1
  <2> QED
    BY <1>1, <1>13, <2>1, <2>2, <2>3, <2>4, <2>5, <2>6 DEF InPlace
<1>18. m \notin us
  BY <1>1, <1>6, <1>7 DEF InPlace
<1> QED
  BY <1>5, <1>6, <1>5a, <1>16, <1>17, <1>18 DEF Owned, nx2, gl2

\* A worker's hands fill with blocks that were in no memory.
LEMMA GrowHand ==
  ASSUME NEW nx, NEW gl, NEW lo, NEW lf, NEW hd, NEW us, NEW mem, Owned(nx, gl, lo, lf, hd, us, mem),
         NEW w \in Workers, hd[w] = {}, lf[w] = {}, NEW r \in SUBSET Blocks, r \cap mem = {}, NEW hd2,
         hd2[w] = r, \A v \in Workers : v # w => hd2[v] = hd[v]
  PROVE  Owned(nx, gl, lo, lf, hd2, us, mem \cup r)
<1>1. PICK G, L, kind, level, owner :
        ListsRight(nx, gl, lo, lf, hd, G, L) /\ InPlace(gl, hd, us, mem, G, L, kind, level, owner)
  BY DEF Owned
<1> DEFINE kind2 == [b \in Blocks |-> IF b \in r THEN "hand" ELSE kind[b]]
           owner2 == [b \in Blocks |-> IF b \in r THEN w ELSE owner[b]]
<1>2. /\ kind2 \in [Blocks -> Kinds] /\ owner2 \in [Blocks -> Workers]
      /\ \A b \in Blocks : b \in r => kind2[b] = "hand" /\ owner2[b] = w /\ kind[b] = "none"
      /\ \A b \in Blocks : b \notin r => kind2[b] = kind[b] /\ owner2[b] = owner[b]
  BY <1>1 DEF InPlace, Kinds
<1> HIDE DEF kind2, owner2
<1>3. ListsRight(nx, gl, lo, lf, hd2, G, L)
  <2>1. ASSUME NEW v \in Workers, NEW f \in lf[v]
        PROVE  IsList(nx, f, Row(f)) /\ On(Row(f)) \subseteq hd2[v]
    <3>1. v # w
      OBVIOUS
    <3>2. IsList(nx, f, Row(f)) /\ On(Row(f)) \subseteq hd[v] /\ hd2[v] = hd[v]
      BY <1>1, <3>1 DEF ListsRight
    <3> QED
      BY <3>2
  <2> QED
    BY <1>1, <2>1 DEF ListsRight
<1>4. InPlace(gl, hd2, us, mem \cup r, G, L, kind2, level, owner2)
  <2>1. \A b \in Blocks : kind2[b] = "none" <=> b \notin mem \cup r
    BY <1>1, <1>2 DEF InPlace
  <2>2. \A b \in Blocks : kind2[b] = "program" <=> b \in us
    BY <1>1, <1>2 DEF InPlace
  <2>3. \A b \in Blocks : kind2[b] = "global" => level[b] \in 1..Len(gl)
    BY <1>1, <1>2 DEF InPlace
  <2>4. \A b \in Blocks : \A j \in 1..Len(gl) : b \in On(G[j]) <=> kind2[b] = "global" /\ level[b] = j
    BY <1>1, <1>2 DEF InPlace
  <2>5. ASSUME NEW b \in Blocks, NEW v \in Workers
        PROVE  b \in On(L[v]) <=> kind2[b] = "local" /\ owner2[b] = v
    <3>1. b \in On(L[v]) <=> kind[b] = "local" /\ owner[b] = v
      BY <1>1 DEF InPlace
    <3> QED
      BY <1>2, <3>1
  <2>6. ASSUME NEW b \in Blocks, NEW v \in Workers
        PROVE  b \in hd2[v] <=> kind2[b] = "hand" /\ owner2[b] = v
    <3>1. b \in hd[v] <=> kind[b] = "hand" /\ owner[b] = v
      BY <1>1 DEF InPlace
    <3>2. kind[b] = "hand" => owner[b] # w
      BY <1>1 DEF InPlace
    <3>3. CASE v = w
      BY <1>2, <3>2, <3>3
    <3>4. CASE v # w
      BY <1>2, <3>1, <3>4
    <3> QED
      BY <3>3, <3>4
  <2> QED
    BY <1>1, <1>2, <2>1, <2>2, <2>3, <2>4, <2>5, <2>6 DEF InPlace
<1> QED
  BY <1>3, <1>4 DEF Owned

\* Blocks in a worker's hands become rows; no other block is linked again.
LEMMA LinkHand ==
  ASSUME NEW nx, NEW gl, NEW lo, NEW lf, NEW hd, NEW us, NEW mem, Owned(nx, gl, lo, lf, hd, us, mem),
         NEW w \in Workers, NEW firsts, NEW lf2, lf2[w] = firsts, \A v \in Workers : v # w => lf2[v] = lf[v],
         NEW nx2, \A b \in Blocks \ hd[w] : nx2[b] = nx[b],
         \A f \in firsts : IsList(nx2, f, Row(f)) /\ On(Row(f)) \subseteq hd[w]
  PROVE  Owned(nx2, gl, lo, lf2, hd, us, mem)
<1>1. PICK G, L, kind, level, owner :
        ListsRight(nx, gl, lo, lf, hd, G, L) /\ InPlace(gl, hd, us, mem, G, L, kind, level, owner)
  BY DEF Owned
<1>2. ASSUME NEW n, NEW c, IsList(nx, n, c), On(c) \cap hd[w] = {} PROVE IsList(nx2, n, c)
  <2>1. \A b \in On(c) : b \in Blocks
    BY <1>2 DEF IsList, On
  <2> QED
    BY <1>2, <2>1, ListFrame
<1>3. ListsRight(nx2, gl, lo, lf2, hd, G, L)
  <2>1. ASSUME NEW j \in 1..Len(gl) PROVE IsList(nx2, Level(gl, j), G[j]) /\ Len(G[j]) = ListLength
    <3>1. IsList(nx, Level(gl, j), G[j]) /\ Len(G[j]) = ListLength
      BY <1>1 DEF ListsRight
    <3>2. \A b \in On(G[j]) : b \in Blocks
      BY <3>1 DEF IsList, On
    <3>3. \A b \in On(G[j]) : b \notin hd[w]
      BY <1>1, <3>2 DEF InPlace
    <3> QED
      BY <1>2, <3>1, <3>3
  <2>2. ASSUME NEW v \in Workers
        PROVE  /\ IsList(nx2, lo[v].head, L[v]) /\ Len(L[v]) = lo[v].sz
               /\ lo[v].sz >= ListLength + 2 => lo[v].mid = L[v][lo[v].sz - ListLength]
    <3>1. IsList(nx, lo[v].head, L[v])
      BY <1>1 DEF ListsRight
    <3>2. \A b \in On(L[v]) : b \in Blocks
      BY <3>1 DEF IsList, On
    <3>3. \A b \in On(L[v]) : b \notin hd[w]
      BY <1>1, <3>2 DEF InPlace
    <3>4. IsList(nx2, lo[v].head, L[v])
      BY <1>2, <3>1, <3>3
    <3> QED
      BY <1>1, <3>4 DEF ListsRight
  <2>3. ASSUME NEW v \in Workers, NEW f \in lf2[v]
        PROVE  IsList(nx2, f, Row(f)) /\ On(Row(f)) \subseteq hd[v]
    <3>1. CASE v = w
      BY <3>1
    <3>2. CASE v # w
      <4>1. IsList(nx, f, Row(f)) /\ On(Row(f)) \subseteq hd[v]
        BY <1>1, <3>2 DEF ListsRight
      <4>2. \A b \in On(Row(f)) : b \in Blocks
        BY <4>1 DEF IsList, On
      <4>3. \A b \in On(Row(f)) : b \notin hd[w]
        BY <1>1, <3>2, <4>1, <4>2 DEF InPlace
      <4> QED
        BY <1>2, <4>1, <4>3
    <3> QED
      BY <3>1, <3>2
  <2> QED
    BY <1>1, <2>1, <2>2, <2>3 DEF ListsRight
<1> QED
  BY <1>1, <1>3 DEF Owned

\* The only row in a worker's hands becomes its list.
LEMMA HandToLocal ==
  ASSUME AllocatorAssumption, NEW nx, NEW gl, NEW lo, NEW lf, NEW hd, NEW us, NEW mem,
         Owned(nx, gl, lo, lf, hd, us, mem), NEW w \in Workers, NEW f \in Blocks, f + ListLength - 1 \in Blocks,
         lf[w] = {f}, hd[w] = On(Row(f)), lo[w].sz = 0,
         NEW lo2, lo2[w].sz = ListLength, lo2[w].head = f, \A v \in Workers : v # w => lo2[v] = lo[v],
         NEW lf2, lf2[w] = {}, \A v \in Workers : v # w => lf2[v] = lf[v],
         NEW hd2, hd2[w] = {}, \A v \in Workers : v # w => hd2[v] = hd[v]
  PROVE  Owned(nx, gl, lo2, lf2, hd2, us, mem)
<1>1. PICK G, L, kind, level, owner :
        ListsRight(nx, gl, lo, lf, hd, G, L) /\ InPlace(gl, hd, us, mem, G, L, kind, level, owner)
  BY DEF Owned
<1>2. PICK c : c = Row(f)
  OBVIOUS
<1>3. c \in Seq(Blocks) /\ Len(c) = ListLength /\ IsList(nx, f, c)
  BY <1>1, <1>2, RowBlocks DEF ListsRight
<1>4. L[w] = <<>>
  <2>1. L[w] \in Seq(Blocks) /\ Len(L[w]) = 0
    BY <1>1 DEF ListsRight
  <2> QED
    BY <2>1
<1> DEFINE L2 == [L EXCEPT ![w] = c]
           kind2 == [b \in Blocks |-> IF b \in On(c) THEN "local" ELSE kind[b]]
<1>5. L2 \in [Workers -> Seq(Blocks)] /\ L2[w] = c /\ \A v \in Workers : v # w => L2[v] = L[v]
  BY <1>1, <1>3 DEF ListsRight
<1>6. /\ kind2 \in [Blocks -> Kinds]
      /\ \A b \in Blocks : b \in On(c) => kind2[b] = "local" /\ kind[b] = "hand" /\ owner[b] = w
      /\ \A b \in Blocks : b \notin On(c) => kind2[b] = kind[b]
  BY <1>1, <1>2 DEF InPlace, Kinds
<1> HIDE DEF L2, kind2
<1>7. ListsRight(nx, gl, lo2, lf2, hd2, G, L2)
  <2>1. ASSUME NEW v \in Workers
        PROVE  /\ IsList(nx, lo2[v].head, L2[v]) /\ Len(L2[v]) = lo2[v].sz
               /\ lo2[v].sz >= ListLength + 2 => lo2[v].mid = L2[v][lo2[v].sz - ListLength]
    <3>1. CASE v = w
      <4>1. ~(ListLength >= ListLength + 2)
        BY DEF AllocatorAssumption
      <4> QED
        BY <1>3, <1>5, <3>1, <4>1
    <3>2. CASE v # w
      BY <1>1, <1>5, <3>2 DEF ListsRight
    <3> QED
      BY <3>1, <3>2
  <2>2. ASSUME NEW v \in Workers, NEW g \in lf2[v]
        PROVE  IsList(nx, g, Row(g)) /\ On(Row(g)) \subseteq hd2[v]
    <3>1. v # w
      OBVIOUS
    <3>2. IsList(nx, g, Row(g)) /\ On(Row(g)) \subseteq hd[v] /\ hd2[v] = hd[v]
      BY <1>1, <3>1 DEF ListsRight
    <3> QED
      BY <3>2
  <2> QED
    BY <1>1, <1>5, <2>1, <2>2 DEF ListsRight
<1>8. InPlace(gl, hd2, us, mem, G, L2, kind2, level, owner)
  <2>1. \A b \in Blocks : kind2[b] = "none" <=> b \notin mem
    BY <1>1, <1>6 DEF InPlace
  <2>2. \A b \in Blocks : kind2[b] = "program" <=> b \in us
    BY <1>1, <1>6 DEF InPlace
  <2>3. \A b \in Blocks : kind2[b] = "global" => level[b] \in 1..Len(gl)
    BY <1>1, <1>6 DEF InPlace
  <2>4. \A b \in Blocks : \A j \in 1..Len(gl) : b \in On(G[j]) <=> kind2[b] = "global" /\ level[b] = j
    BY <1>1, <1>6 DEF InPlace
  <2>5. ASSUME NEW b \in Blocks, NEW v \in Workers
        PROVE  b \in On(L2[v]) <=> kind2[b] = "local" /\ owner[b] = v
    <3>1. b \in On(L[v]) <=> kind[b] = "local" /\ owner[b] = v
      BY <1>1 DEF InPlace
    <3>2. kind[b] = "local" => owner[b] # w
      <4>1. b \notin On(L[w])
        BY <1>4, NoList
      <4> QED
        BY <1>1, <4>1 DEF InPlace
    <3>3. CASE v = w
      BY <1>5, <1>6, <3>2, <3>3
    <3>4. CASE v # w
      BY <1>5, <1>6, <3>1, <3>4
    <3> QED
      BY <3>3, <3>4
  <2>6. ASSUME NEW b \in Blocks, NEW v \in Workers
        PROVE  b \in hd2[v] <=> kind2[b] = "hand" /\ owner[b] = v
    <3>1. b \in hd[v] <=> kind[b] = "hand" /\ owner[b] = v
      BY <1>1 DEF InPlace
    <3>2. b \in On(c) <=> kind[b] = "hand" /\ owner[b] = w
      BY <1>1, <1>2 DEF InPlace
    <3>3. CASE v = w
      BY <1>6, <3>2, <3>3
    <3>4. CASE v # w
      BY <1>6, <3>1, <3>4
    <3> QED
      BY <3>3, <3>4
  <2> QED
    BY <1>1, <1>6, <2>1, <2>2, <2>3, <2>4, <2>5, <2>6 DEF InPlace
<1> QED
  BY <1>7, <1>8 DEF Owned

\* The worker w takes the row f out of its hands and puts it on the stack.
HandsOver(w, f, gl, lf, hd, gl2, lf2, hd2) ==
  /\ RowsFit(lf[w]) /\ f \in lf[w] /\ gl2 = <<f>> \o gl
  /\ lf2[w] = lf[w] \ {f} /\ \A v \in Workers : v # w => lf2[v] = lf[v]
  /\ hd2[w] = hd[w] \ On(Row(f)) /\ \A v \in Workers : v # w => hd2[v] = hd[v]

\* A row in a worker's hands becomes the list on top of the stack.
LEMMA HandToGlobal ==
  ASSUME AllocatorAssumption, NEW nx, NEW gl \in Seq(Blocks), NEW lo, NEW lf, NEW hd, NEW us, NEW mem,
         Owned(nx, gl, lo, lf, hd, us, mem), NEW w \in Workers, NEW f, NEW gl2, NEW lf2, NEW hd2,
         HandsOver(w, f, gl, lf, hd, gl2, lf2, hd2)
  PROVE  Owned(nx, gl2, lo, lf2, hd2, us, mem)
<1>0. /\ RowsFit(lf[w]) /\ f \in lf[w] /\ gl2 = <<f>> \o gl
      /\ lf2[w] = lf[w] \ {f} /\ (\A v \in Workers : v # w => lf2[v] = lf[v])
      /\ hd2[w] = hd[w] \ On(Row(f)) /\ \A v \in Workers : v # w => hd2[v] = hd[v]
  BY DEF HandsOver
<1>1. PICK G, L, kind, level, owner :
        ListsRight(nx, gl, lo, lf, hd, G, L) /\ InPlace(gl, hd, us, mem, G, L, kind, level, owner)
  BY DEF Owned
<1>2. PICK c : c = Row(f)
  OBVIOUS
<1>3. f \in Blocks /\ c \in Seq(Blocks) /\ Len(c) = ListLength /\ IsList(nx, f, c) /\ On(c) \subseteq hd[w]
  <2>1. f \in Blocks /\ f + ListLength - 1 \in Blocks
    BY <1>0 DEF RowsFit
  <2> QED
    BY <1>0, <1>1, <1>2, <2>1, RowBlocks DEF ListsRight
<1>4. PICK n : OnTop(gl2, gl, f, n)
  BY <1>0, <1>3, PushLevels
<1>5. /\ n \in Nat /\ Len(gl2) = n /\ Level(gl2, n) = f
      /\ \A j \in 1..(n - 1) : Level(gl2, j) = Level(gl, j)
      /\ \A j \in Nat : j \in 1..Len(gl) <=> j \in 1..(n - 1)
  BY <1>4 DEF OnTop
<1>6. \A j \in 1..n : j # n => j \in 1..(n - 1) /\ j \in 1..Len(gl)
  BY <1>5
<1>7. n \notin 1..Len(gl) /\ \A j \in 1..Len(gl) : j \in 1..n
  BY <1>5
<1> DEFINE G2 == [G EXCEPT ![n] = c]
           kind2 == [b \in Blocks |-> IF b \in On(c) THEN "global" ELSE kind[b]]
           level2 == [b \in Blocks |-> IF b \in On(c) THEN n ELSE level[b]]
<1>8. G2 \in [Nat -> Seq(Blocks)] /\ G2[n] = c /\ \A j \in 1..(n - 1) : G2[j] = G[j]
  <2>1. \A j \in 1..(n - 1) : j # n /\ j \in Nat
    BY <1>5
  <2> QED
    BY <1>1, <1>3, <1>5, <2>1 DEF ListsRight
<1>9. /\ kind2 \in [Blocks -> Kinds] /\ level2 \in [Blocks -> Nat]
      /\ \A b \in Blocks : b \in On(c) => /\ kind2[b] = "global" /\ level2[b] = n
                                          /\ kind[b] = "hand" /\ owner[b] = w
      /\ \A b \in Blocks : b \notin On(c) => kind2[b] = kind[b] /\ level2[b] = level[b]
  BY <1>1, <1>3, <1>5 DEF InPlace, Kinds
<1> HIDE DEF G2, kind2, level2
<1>10. ListsRight(nx, gl2, lo, lf2, hd2, G2, L)
  <2>1. ASSUME NEW j \in 1..Len(gl2) PROVE IsList(nx, Level(gl2, j), G2[j]) /\ Len(G2[j]) = ListLength
    <3>1. CASE j = n
      BY <1>3, <1>5, <1>8, <3>1
    <3>2. CASE j # n
      <4>1. j \in 1..(n - 1) /\ j \in 1..Len(gl)
        BY <1>5, <1>6, <3>2
      <4> QED
        BY <1>1, <1>5, <1>8, <4>1 DEF ListsRight
    <3> QED
      BY <3>1, <3>2
  <2>2. ASSUME NEW v \in Workers, NEW g \in lf2[v]
        PROVE  IsList(nx, g, Row(g)) /\ On(Row(g)) \subseteq hd2[v]
    <3>1. CASE v = w
      <4>1. g \in lf[w] /\ g # f
        BY <1>0, <3>1
      <4>2. IsList(nx, g, Row(g)) /\ On(Row(g)) \subseteq hd[w]
        BY <1>1, <4>1 DEF ListsRight
      <4>3. On(Row(g)) \cap On(Row(f)) = {}
        <5>1. /\ f \in Blocks /\ f + ListLength - 1 \in Blocks /\ g \in Blocks /\ g + ListLength - 1 \in Blocks
              /\ f + ListLength <= g \/ g + ListLength <= f
          BY <1>0, <4>1 DEF RowsFit
        <5>2. On(Row(f)) = f..(f + ListLength - 1) /\ On(Row(g)) = g..(g + ListLength - 1)
          BY <5>1, RowBlocks
        <5>3. f \in Nat /\ g \in Nat /\ ListLength \in Nat
          BY <5>1 DEF Blocks, AllocatorAssumption
        <5> QED
          BY <5>1, <5>2, <5>3
      <4> QED
        BY <1>0, <3>1, <4>2, <4>3
    <3>2. CASE v # w
      BY <1>0, <1>1, <3>2 DEF ListsRight
    <3> QED
      BY <3>1, <3>2
  <2> QED
    BY <1>1, <1>8, <2>1, <2>2 DEF ListsRight
<1>11. InPlace(gl2, hd2, us, mem, G2, L, kind2, level2, owner)
  <2>1. \A b \in Blocks : kind2[b] = "none" <=> b \notin mem
    BY <1>1, <1>9 DEF InPlace
  <2>2. \A b \in Blocks : kind2[b] = "program" <=> b \in us
    BY <1>1, <1>9 DEF InPlace
  <2>3. ASSUME NEW b \in Blocks, kind2[b] = "global" PROVE level2[b] \in 1..Len(gl2)
    <3>1. CASE b \in On(c)
      <4>1. level2[b] = n
        BY <1>9, <3>1
      <4>2. n \in 1..Len(gl2)
        BY <1>4 DEF OnTop
      <4> QED
        BY <4>1, <4>2
    <3>2. CASE b \notin On(c)
      <4>1. level[b] \in 1..Len(gl)
        BY <1>1, <1>9, <2>3, <3>2 DEF InPlace
      <4> QED
        BY <1>5, <1>7, <1>9, <3>2, <4>1
    <3> QED
      BY <3>1, <3>2
  <2>4. ASSUME NEW b \in Blocks, NEW j \in 1..Len(gl2)
        PROVE  b \in On(G2[j]) <=> kind2[b] = "global" /\ level2[b] = j
    <3>1. CASE j = n
      <4>1. kind[b] = "global" => level[b] # n
        BY <1>1, <1>7 DEF InPlace
      <4>2. b \in On(G2[j]) <=> b \in On(c)
        BY <1>8, <3>1
      <4>3. CASE b \in On(c)
        BY <1>9, <3>1, <4>2, <4>3
      <4>4. CASE b \notin On(c)
        BY <1>9, <3>1, <4>1, <4>2, <4>4
      <4> QED
        BY <4>3, <4>4
    <3>2. CASE j # n
      <4>1. j \in 1..(n - 1) /\ j \in 1..Len(gl)
        BY <1>5, <1>6, <3>2
      <4>2. b \in On(G[j]) <=> kind[b] = "global" /\ level[b] = j
        BY <1>1, <4>1 DEF InPlace
      <4>3. G2[j] = G[j]
        BY <1>8, <4>1
      <4> QED
        BY <1>9, <3>2, <4>2, <4>3
    <3> QED
      BY <3>1, <3>2
  <2>5. \A b \in Blocks : \A v \in Workers : b \in On(L[v]) <=> kind2[b] = "local" /\ owner[b] = v
    BY <1>1, <1>9 DEF InPlace
  <2>6. ASSUME NEW b \in Blocks, NEW v \in Workers
        PROVE  b \in hd2[v] <=> kind2[b] = "hand" /\ owner[b] = v
    <3>1. b \in hd[v] <=> kind[b] = "hand" /\ owner[b] = v
      BY <1>1 DEF InPlace
    <3>2. b \in hd2[v] <=> b \in hd[v] /\ (v = w => b \notin On(c))
      BY <1>0, <1>2
    <3> QED
      BY <1>9, <3>1, <3>2
  <2> QED
    BY <1>1, <1>9, <2>1, <2>2, <2>3, <2>4, <2>5, <2>6 DEF InPlace
<1> QED
  BY <1>10, <1>11 DEF Owned

\* Without memory nothing is anywhere.
LEMMA NothingOwned ==
  ASSUME AllocatorAssumption, NEW nx, NEW lo, NEW lf, NEW hd, \A w \in Workers : lo[w] = EmptyList /\ lf[w] = {} /\ hd[w] = {}
  PROVE  Owned(nx, <<>>, lo, lf, hd, {}, {})
<1>1. PICK u \in Workers : TRUE
  BY DEF AllocatorAssumption
<1> DEFINE G == [j \in Nat |-> <<>>]
           L == [w \in Workers |-> <<>>]
           kind == [b \in Blocks |-> "none"]
           level == [b \in Blocks |-> 0]
           owner == [b \in Blocks |-> u]
<1>2. \A j \in 1..Len(<<>>) : FALSE
  OBVIOUS
<1>3. \A w \in Workers : lo[w].sz = 0 /\ lo[w].head = Null
  BY DEF EmptyList
<1>4. IsList(nx, Null, <<>>) /\ On(<<>>) = {}
  BY NoList
<1>5. ListsRight(nx, <<>>, lo, lf, hd, G, L)
  <2>1. G \in [Nat -> Seq(Blocks)] /\ L \in [Workers -> Seq(Blocks)] /\ \A w \in Workers : L[w] = <<>>
    OBVIOUS
  <2>2. ~(0 >= ListLength + 2)
    BY DEF AllocatorAssumption
  <2> HIDE DEF G, L
  <2> QED
    BY <1>2, <1>3, <1>4, <2>1, <2>2 DEF ListsRight
<1>6. InPlace(<<>>, hd, {}, {}, G, L, kind, level, owner)
  <2>1. /\ kind \in [Blocks -> Kinds] /\ level \in [Blocks -> Nat] /\ owner \in [Blocks -> Workers]
        /\ \A b \in Blocks : kind[b] = "none"
        /\ \A w \in Workers : L[w] = <<>>
    BY DEF Kinds
  <2> HIDE DEF G, L, kind, level, owner
  <2> QED
    BY <1>2, <1>4, <2>1 DEF InPlace
<1> QED
  BY <1>5, <1>6 DEF Owned

\* All memory is rows on the global stack.
LEMMA StartOwned ==
  ASSUME AllocatorAssumption, NEW nx, NEW gl \in Seq(Blocks), NEW lo, NEW lf, NEW hd, NEW mem,
         \A w \in Workers : lo[w] = EmptyList /\ lf[w] = {} /\ hd[w] = {},
         RowsFit(On(gl)), \A i, j \in 1..Len(gl) : gl[i] = gl[j] => i = j,
         \A f \in On(gl) : IsList(nx, f, Row(f)), mem = UNION {On(Row(f)) : f \in On(gl)}
  PROVE  Owned(nx, gl, lo, lf, hd, {}, mem)
<1>1. PICK u \in Workers : TRUE
  BY DEF AllocatorAssumption
<1>2. PICK n : n = Len(gl)
  OBVIOUS
<1>3. /\ n \in Nat /\ \A j \in 1..n : Level(gl, j) \in On(gl)
      /\ \A i, j \in 1..n : Level(gl, i) = Level(gl, j) => i = j
      /\ \A f \in On(gl) : \E j \in 1..n : Level(gl, j) = f
  <2>1. n \in Nat /\ \A j \in 1..n : n - j + 1 \in 1..n
    BY <1>2
  <2>2. \A i, j \in 1..n : n - i + 1 = n - j + 1 => i = j
    BY <2>1
  <2>3. \A i \in 1..n : n - (n - i + 1) + 1 = i
    BY <2>1
  <2>4. \A j \in 1..n : Level(gl, j) = gl[n - j + 1]
    BY <1>2 DEF Level
  <2>5. \A j \in 1..n : Level(gl, j) \in On(gl)
    BY <1>2, <2>1, <2>4 DEF On
  <2>6. ASSUME NEW i \in 1..n, NEW j \in 1..n, Level(gl, i) = Level(gl, j) PROVE i = j
    <3>1. gl[n - i + 1] = gl[n - j + 1]
      BY <2>4, <2>6
    <3>2. n - i + 1 = n - j + 1
      BY <1>2, <2>1, <3>1
    <3> QED
      BY <2>2, <3>2
  <2>7. ASSUME NEW f \in On(gl) PROVE \E j \in 1..n : Level(gl, j) = f
    <3>1. PICK i \in 1..n : gl[i] = f
      BY <1>2 DEF On
    <3>2. n - i + 1 \in 1..n /\ Level(gl, n - i + 1) = gl[i]
      BY <2>1, <2>3, <2>4
    <3> QED
      BY <3>1, <3>2
  <2> QED
    BY <2>1, <2>5, <2>6, <2>7
<1> DEFINE G == [j \in Nat |-> IF j \in 1..n THEN Row(Level(gl, j)) ELSE <<>>]
           L == [w \in Workers |-> <<>>]
           at(b, j) == j \in 1..n /\ b \in On(Row(Level(gl, j)))
           kind == [b \in Blocks |-> IF b \in mem THEN "global" ELSE "none"]
           level == [b \in Blocks |-> IF b \in mem THEN CHOOSE j \in 1..n : b \in On(Row(Level(gl, j))) ELSE 0]
           owner == [b \in Blocks |-> u]
<1>4. \A f \in On(gl) : Row(f) \in Seq(Blocks) /\ Len(Row(f)) = ListLength /\ On(Row(f)) = f..(f + ListLength - 1)
  BY RowBlocks DEF RowsFit
<1>5. ASSUME NEW b, NEW i \in 1..n, NEW j \in 1..n, b \in On(Row(Level(gl, i))), b \in On(Row(Level(gl, j)))
      PROVE  i = j
  <2>1. PICK f, g : f = Level(gl, i) /\ g = Level(gl, j)
    OBVIOUS
  <2>2. f \in On(gl) /\ g \in On(gl)
    BY <1>3, <2>1
  <2>3. b \in f..(f + ListLength - 1) /\ b \in g..(g + ListLength - 1)
    BY <1>4, <1>5, <2>1, <2>2
  <2>4. f # g => f + ListLength <= g \/ g + ListLength <= f
    BY <2>2 DEF RowsFit
  <2>5. f \in Nat /\ g \in Nat /\ ListLength \in Nat
    BY <2>2 DEF RowsFit, Blocks, AllocatorAssumption
  <2>6. f = g
    BY <2>3, <2>4, <2>5
  <2> QED
    BY <1>3, <2>1, <2>6
<1>6. ASSUME NEW b \in Blocks PROVE b \in mem <=> \E j \in 1..n : b \in On(Row(Level(gl, j)))
  <2>1. b \in mem <=> \E f \in On(gl) : b \in On(Row(f))
    OBVIOUS
  <2> QED
    BY <1>3, <2>1
<1>7. G \in [Nat -> Seq(Blocks)] /\ \A j \in 1..n : G[j] = Row(Level(gl, j))
  BY <1>3, <1>4
<1>8. L \in [Workers -> Seq(Blocks)] /\ \A w \in Workers : L[w] = <<>>
  OBVIOUS
<1>9. /\ kind \in [Blocks -> Kinds] /\ owner \in [Blocks -> Workers]
      /\ \A b \in Blocks : kind[b] = IF b \in mem THEN "global" ELSE "none"
  BY DEF Kinds
<1>10. \A b \in Blocks : b \in mem => level[b] \in 1..n /\ b \in On(Row(Level(gl, level[b])))
  BY <1>6
<1>11. level \in [Blocks -> Nat]
  <2>1. \A b \in Blocks : level[b] \in Nat
    <3>1. \A b \in Blocks : b \notin mem => level[b] = 0
      OBVIOUS
    <3> HIDE DEF level
    <3> QED
      BY <1>3, <1>10, <3>1
  <2>2. level = [b \in Blocks |-> level[b]]
    OBVIOUS
  <2> HIDE DEF level
  <2> QED
    BY <2>1, <2>2
<1> HIDE DEF G, L, kind, level, owner
<1>12. IsList(nx, Null, <<>>) /\ On(<<>>) = {}
  BY NoList
<1>13. ListsRight(nx, gl, lo, lf, hd, G, L)
  <2>1. ASSUME NEW j \in 1..Len(gl) PROVE IsList(nx, Level(gl, j), G[j]) /\ Len(G[j]) = ListLength
    <3>1. j \in 1..n /\ Level(gl, j) \in On(gl)
      BY <1>2, <1>3
    <3> QED
      BY <1>4, <1>7, <3>1
  <2>2. \A w \in Workers : lo[w].sz = 0 /\ lo[w].head = Null
    BY DEF EmptyList
  <2>3. ~(0 >= ListLength + 2)
    BY DEF AllocatorAssumption
  <2> QED
    <3>1. \A w \in Workers : IsList(nx, lo[w].head, L[w]) /\ Len(L[w]) = lo[w].sz /\ ~(lo[w].sz >= ListLength + 2)
      BY <1>8, <1>12, <2>2, <2>3
    <3>2. \A w \in Workers : lf[w] = {}
      OBVIOUS
    <3> QED
      BY <1>7, <1>8, <2>1, <3>1, <3>2 DEF ListsRight
<1>14. InPlace(gl, hd, {}, mem, G, L, kind, level, owner)
  <2>1. \A b \in Blocks : kind[b] = "none" <=> b \notin mem
    BY <1>9
  <2>2. \A b \in Blocks : kind[b] # "program"
    BY <1>9
  <2>3. \A b \in Blocks : kind[b] = "global" => level[b] \in 1..Len(gl)
    BY <1>2, <1>9, <1>10
  <2>4. ASSUME NEW b \in Blocks, NEW j \in 1..Len(gl)
        PROVE  b \in On(G[j]) <=> kind[b] = "global" /\ level[b] = j
    <3>1. j \in 1..n /\ G[j] = Row(Level(gl, j))
      BY <1>2, <1>7
    <3>2. CASE b \in On(G[j])
      <4>1. b \in mem
        BY <1>6, <3>1, <3>2
      <4>2. level[b] = j
        BY <1>5, <1>10, <3>1, <3>2, <4>1
      <4> QED
        BY <1>9, <3>2, <4>1, <4>2
    <3>3. CASE kind[b] = "global" /\ level[b] = j
      BY <1>9, <1>10, <3>1, <3>3
    <3> QED
      BY <3>2, <3>3
  <2>5. \A b \in Blocks : \A w \in Workers : b \in On(L[w]) <=> kind[b] = "local" /\ owner[b] = w
    BY <1>8, <1>9, <1>12
  <2>6. \A b \in Blocks : \A w \in Workers : b \in hd[w] <=> kind[b] = "hand" /\ owner[b] = w
    BY <1>9
  <2> QED
    BY <1>9, <1>11, <2>1, <2>2, <2>3, <2>4, <2>5, <2>6 DEF InPlace
<1> QED
  BY <1>13, <1>14 DEF Owned

-----------------------------------------------------------------------------
(* The inductive invariant.                                                *)

\* The memory of the regions.
Memory == UNION {r.first..r.last : r \in regions}

\* The blocks in the hands of each worker: the region it took, then the rows it has still
\* to push.
Hand(w) ==
  IF pc[w] \in {"test", "root"} THEN start[w]..(start[w] + num_blocks(w) - 1)
  ELSE UNION {On(Row(f)) : f \in left[w]}
hands == [w \in Workers |-> Hand(w)]

\* A worker's control, its new region and what it has still to push.
Control(w) ==
  /\ pc[w] = "idle" => lists[w] = 0
  /\ pc[w] = "push" <=> left[w] # {}
  /\ pc[w] = "push" => lists[w] # 0
  /\ pc[w] \in {"test", "root"} => start[w] \in Blocks /\ start[w] + num_blocks(w) - 1 \in Blocks
  /\ RowsFit(left[w])
  /\ lists[w] = 0 /\ pc[w] # "idle" => local[w].sz = 0

\* What a worker is about to take, has taken or has on its list; what it is about to take;
\* and what it still has to take or to push for reserve.
pending(w) ==
  IF pc[w] \in {"grow", "test", "root"} THEN num_blocks(w) ELSE Cardinality(left[w]) * ListLength
claim == [w \in Workers |-> local[w].sz + pending(w)]
need == [w \in Workers |-> IF pc[w] = "grow" THEN num_blocks(w) ELSE 0]
reserving == [w \in Workers |-> IF lists[w] = 0 THEN 0 ELSE pending(w)]

\* The blocks on the lists of the global stack.
stock == Len(global) * ListLength

\* The bound of MemoryBounded.
Bound(p) == Max({p.used + 2 * ListLength * Cardinality(Workers), p.first}) + p.reserved

\* What is taken or about to be is with the program, on the stack or some worker's claim.
Counted ==
  /\ blocks_allocated = Cardinality(Memory)
  /\ blocks_allocated + Total(need) = Cardinality(used) + stock + Total(claim)
  /\ Total(reserving) <= peak.reserved
  /\ Cardinality(used) <= peak.used
  /\ blocks_allocated + Total(need) <= Bound(peak)

\* A region is a root or on its way to become one.
Rooted ==
  \A r \in regions :
    r.first \in On(pool_roots) \/ \E w \in Workers : pc[w] \in {"test", "root"} /\ start[w] = r.first

\* Before init and after finish there is nothing.
Unused ==
  ~initialized =>
    /\ global = <<>> /\ pool_roots = <<>> /\ regions = {} /\ used = {}
    /\ \A w \in Workers : pc[w] = "idle" /\ local[w] = EmptyList

BlocksPlaced == Owned(next, global, local, left, hands, used, Memory)

AllocatorInv ==
  TypeOK /\ BlocksPlaced /\ (\A w \in Workers : Control(w)) /\ Counted /\ Rooted /\ Unused

-----------------------------------------------------------------------------
(* Counting.                                                               *)

\* Max of two.
LEMMA MaxOfTwo ==
  ASSUME NEW a \in Nat, NEW b \in Nat
  PROVE  Max({a, b}) \in Nat /\ Max({a, b}) >= a /\ Max({a, b}) >= b /\ Max({a, b}) \in {a, b}
<1>1. \E x \in {a, b} : \A y \in {a, b} : x >= y
  <2>1. CASE a >= b
    BY <2>1
  <2>2. CASE b >= a
    BY <2>2
  <2> QED
    BY <2>1, <2>2
<1>2. Max({a, b}) \in {a, b} /\ \A y \in {a, b} : Max({a, b}) >= y
  BY <1>1 DEF Max
<1> QED
  BY <1>2

\* Min is a member.
LEMMA MinIsMember == ASSUME NEW S, S \subseteq Nat, S # {} PROVE Min(S) \in S
<1>1. \E x \in S : \A y \in S : x <= y
  BY LeastElement
<1> QED
  BY <1>1 DEF Min

\* Sets of blocks are finite.
LEMMA BlockSets ==
  ASSUME AllocatorAssumption, NEW s, s \subseteq Blocks
  PROVE  IsFiniteSet(s) /\ Cardinality(s) \in 0..HeapBlocks
<1>1. HeapBlocks \in Nat
  BY DEF AllocatorAssumption
<1>2. IsFiniteSet(Blocks) /\ Cardinality(Blocks) = HeapBlocks
  <2>1. IsFiniteSet(1..HeapBlocks) /\ Cardinality(1..HeapBlocks) = IF 1 > HeapBlocks THEN 0 ELSE HeapBlocks - 1 + 1
    BY <1>1, FS_Interval
  <2> QED
    BY <1>1, <2>1 DEF Blocks
<1>3. IsFiniteSet(s) /\ Cardinality(s) <= Cardinality(Blocks)
  BY <1>2, FS_Subset
<1>4. Cardinality(s) \in Nat
  BY <1>3, FS_CardinalityType
<1> QED
  BY <1>1, <1>2, <1>3, <1>4

\* How many lists reserve makes: at least one.
LEMMA SomeLists == ASSUME AllocatorAssumption, NEW n \in Nat PROVE NumLists(n) \in Nat \ {0}
<1>1. Cardinality(Workers) \in Nat \ {0}
  <2>1. IsFiniteSet(Workers) /\ Workers # {}
    BY DEF AllocatorAssumption
  <2> QED
    BY <2>1, FS_CardinalityType, FS_EmptySet
<1>2. ListLength \in Nat /\ ListLength >= 2
  BY DEF AllocatorAssumption
<1>3. (n + ListLength - 1) \div ListLength \in Nat
  BY <1>2
<1> QED
  BY <1>1, <1>3 DEF NumLists

\* A call of allocate_blocks takes list_length blocks at least.
LEMMA SomeBlocks ==
  ASSUME AllocatorAssumption, TypeOK, NEW w \in Workers
  PROVE  /\ num_blocks(w) \in Nat /\ num_blocks(w) >= ListLength
         /\ ListLength \in Nat /\ ListLength >= 2
         /\ num_blocks(w) = (IF lists[w] = 0 THEN ListLength ELSE lists[w] * ListLength)
<1>1. ListLength \in Nat /\ ListLength >= 2 /\ lists[w] \in Nat
  BY DEF AllocatorAssumption, TypeOK
<1>2. CASE lists[w] = 0
  BY <1>1, <1>2 DEF num_blocks
<1>3. CASE lists[w] # 0
  <2>1. lists[w] * ListLength \in Nat /\ lists[w] * ListLength >= 1 * ListLength
    BY <1>1, <1>3
  <2> QED
    BY <1>1, <1>3, <2>1 DEF num_blocks
<1> QED
  BY <1>2, <1>3

\* The shares are functions to the naturals.
LEMMA ShareTypes ==
  ASSUME AllocatorAssumption, TypeOK
  PROVE  /\ claim \in [Workers -> Nat] /\ need \in [Workers -> Nat] /\ reserving \in [Workers -> Nat]
         /\ \A w \in Workers : pending(w) \in Nat /\ local[w].sz \in 0..(2 * ListLength)
         /\ \A w \in Workers : claim[w] = local[w].sz + pending(w)
         /\ \A w \in Workers : need[w] = IF pc[w] = "grow" THEN num_blocks(w) ELSE 0
         /\ \A w \in Workers : reserving[w] = IF lists[w] = 0 THEN 0 ELSE pending(w)
<1>1. ASSUME NEW w \in Workers PROVE pending(w) \in Nat
  <2>1. num_blocks(w) \in Nat /\ ListLength \in Nat
    BY SomeBlocks
  <2>2. left[w] \subseteq Blocks
    BY DEF TypeOK
  <2>3. Cardinality(left[w]) \in Nat
    BY <2>2, BlockSets
  <2>4. Cardinality(left[w]) * ListLength \in Nat
    BY <2>1, <2>3
  <2> QED
    BY <2>1, <2>4 DEF pending
<1>2. \A w \in Workers : local[w].sz \in 0..(2 * ListLength) /\ local[w].sz \in Nat
  BY DEF TypeOK, AllocatorAssumption
<1>3. \A w \in Workers : num_blocks(w) \in Nat
  BY SomeBlocks
<1>4. claim \in [Workers -> Nat]
  <2>1. \A w \in Workers : local[w].sz + pending(w) \in Nat
    BY <1>1, <1>2
  <2> QED
    BY <2>1 DEF claim
<1>5. need \in [Workers -> Nat]
  BY <1>3 DEF need
<1>6. reserving \in [Workers -> Nat]
  BY <1>1 DEF reserving
<1> QED
  BY <1>1, <1>2, <1>4, <1>5, <1>6 DEF claim, need, reserving

\* Nothing changes for a worker that does not step.
Still(v) ==
  pc'[v] = pc[v] /\ lists'[v] = lists[v] /\ left'[v] = left[v] /\ start'[v] = start[v] /\ local'[v] = local[v]

\* What it has in its hands and its shares stay.
LEMMA StillShares ==
  ASSUME NEW v \in Workers, Still(v), Control(v)
  PROVE  /\ hands'[v] = hands[v] /\ Control(v)'
         /\ claim'[v] = claim[v] /\ need'[v] = need[v] /\ reserving'[v] = reserving[v]
<1>1. num_blocks(v)' = num_blocks(v)
  BY DEF Still, num_blocks
<1>2. pending(v)' = pending(v)
  BY <1>1 DEF Still, pending
<1>3. Hand(v)' = Hand(v)
  BY <1>1 DEF Still, Hand
<1>4. hands'[v] = hands[v]
  BY <1>3 DEF hands
<1>5. Control(v)'
  BY <1>1 DEF Still, Control, RowsFit
<1>6. claim'[v] = claim[v] /\ need'[v] = need[v] /\ reserving'[v] = reserving[v]
  BY <1>1, <1>2 DEF claim, need, reserving, Still
<1> QED
  BY <1>4, <1>5, <1>6

\* Where one worker steps, the sums change by its shares.
LEMMA ShareChange ==
  ASSUME AllocatorAssumption, TypeOK, TypeOK', \A v \in Workers : Control(v), NEW w \in Workers,
         \A v \in Workers : v # w => Still(v)
  PROVE  /\ \A v \in Workers : v # w => hands'[v] = hands[v] /\ Control(v)'
         /\ claim[w] \in Nat /\ claim'[w] \in Nat /\ need[w] \in Nat /\ need'[w] \in Nat
         /\ reserving[w] \in Nat /\ reserving'[w] \in Nat
         /\ Total(claim) \in Nat /\ Total(claim') \in Nat /\ Total(need) \in Nat /\ Total(need') \in Nat
         /\ Total(reserving) \in Nat /\ Total(reserving') \in Nat
         /\ Total(claim') + claim[w] = Total(claim) + claim'[w]
         /\ Total(need') + need[w] = Total(need) + need'[w]
         /\ Total(reserving') + reserving[w] = Total(reserving) + reserving'[w]
<1>1. claim \in [Workers -> Nat] /\ need \in [Workers -> Nat] /\ reserving \in [Workers -> Nat]
  BY ShareTypes
<1>2. claim' \in [Workers -> Nat] /\ need' \in [Workers -> Nat] /\ reserving' \in [Workers -> Nat]
  <2>1. \A v \in Workers : /\ local'[v].sz \in 0..(2 * ListLength) /\ lists'[v] \in Nat
                           /\ left'[v] \in SUBSET Blocks
    BY DEF TypeOK
  <2>2. ListLength \in Nat
    BY DEF AllocatorAssumption
  <2>3. ASSUME NEW v \in Workers PROVE num_blocks(v)' \in Nat
    <3>1. lists'[v] * ListLength \in Nat
      BY <2>1, <2>2
    <3> QED
      BY <2>2, <3>1 DEF num_blocks
  <2>4. ASSUME NEW v \in Workers PROVE pending(v)' \in Nat
    <3>1. Cardinality(left'[v]) \in Nat
      BY <2>1, BlockSets
    <3>2. Cardinality(left'[v]) * ListLength \in Nat
      BY <2>2, <3>1
    <3> QED
      BY <2>3, <3>2 DEF pending
  <2>5. \A v \in Workers : local'[v].sz + pending(v)' \in Nat
    BY <2>1, <2>2, <2>4
  <2> QED
    BY <2>3, <2>4, <2>5 DEF claim, need, reserving
<1>3. \A v \in Workers : v # w => /\ hands'[v] = hands[v] /\ Control(v)'
                                  /\ claim'[v] = claim[v] /\ need'[v] = need[v] /\ reserving'[v] = reserving[v]
  BY StillShares
<1>4. /\ Total(claim) \in Nat /\ Total(claim') \in Nat /\ Total(need) \in Nat /\ Total(need') \in Nat
      /\ Total(reserving) \in Nat /\ Total(reserving') \in Nat
  BY <1>1, <1>2, TotalIsNatural
<1>5. Total(claim') + claim[w] = Total(claim) + claim'[w]
  BY <1>1, <1>2, <1>3, TotalChange
<1>6. Total(need') + need[w] = Total(need) + need'[w]
  BY <1>1, <1>2, <1>3, TotalChange
<1>7. Total(reserving') + reserving[w] = Total(reserving) + reserving'[w]
  BY <1>1, <1>2, <1>3, TotalChange
<1>8. /\ claim[w] \in Nat /\ claim'[w] \in Nat /\ need[w] \in Nat /\ need'[w] \in Nat
      /\ reserving[w] \in Nat /\ reserving'[w] \in Nat
  BY <1>1, <1>2
<1> QED
  BY <1>3, <1>4, <1>5, <1>6, <1>7, <1>8

Peaks == [used : Nat, first : Nat, reserved : Nat]

\* The bound grows with what it is the bound for.
LEMMA BoundGrows ==
  ASSUME AllocatorAssumption, NEW p \in Peaks, NEW q \in Peaks, NEW ds \in Nat,
         q.used >= p.used, q.first = p.first, q.reserved = p.reserved + ds
  PROVE  /\ Bound(p) \in Nat /\ Bound(q) \in Nat /\ Bound(q) >= Bound(p) + ds
         /\ Bound(p) >= p.used + 2 * ListLength * Cardinality(Workers) + p.reserved
         /\ Bound(p) >= p.first + p.reserved
<1>1. ListLength \in Nat /\ Cardinality(Workers) \in Nat
  BY FS_CardinalityType DEF AllocatorAssumption
<1>2. PICK c : c = 2 * ListLength * Cardinality(Workers)
  OBVIOUS
<1>3. c \in Nat
  BY <1>1, <1>2
<1>4. /\ p.used \in Nat /\ p.first \in Nat /\ p.reserved \in Nat
      /\ q.used \in Nat /\ q.first \in Nat /\ q.reserved \in Nat
  BY DEF Peaks
<1> DEFINE x == p.used + c
           y == q.used + c
           m == Max({x, p.first})
           n == Max({y, q.first})
<1>5. x \in Nat /\ y \in Nat /\ y >= x
  BY <1>3, <1>4
<1>6. /\ m \in Nat /\ m >= x /\ m >= p.first /\ m \in {x, p.first}
      /\ n \in Nat /\ n >= y /\ n >= q.first
  <2> HIDE DEF x, y
  <2> QED
    BY <1>4, <1>5, MaxOfTwo
<1>7. n >= m
  <2> HIDE DEF x, y, m, n
  <2> QED
    BY <1>4, <1>5, <1>6
<1>8. Bound(p) = m + p.reserved /\ Bound(q) = n + q.reserved
  BY <1>2 DEF Bound
<1>9. m >= p.used + c
  BY <1>6
<1> HIDE DEF x, y, m, n
<1> QED
  BY <1>2, <1>3, <1>4, <1>6, <1>7, <1>8, <1>9

\* What the end of alloc does: the program holds one block more.
LEMMA TakeOne ==
  ASSUME AllocatorAssumption, TypeOK, NEW w \in Workers, NEW list \in Blocks \ used,
         NEW sz \in 1..(2 * ListLength), NEW links \in Links, Take(w, list, sz, links)
  PROVE  /\ local' \in [Workers -> [sz : 0..(2 * ListLength), head : Blocks \cup {Null}, mid : Blocks \cup {Null}]]
         /\ \A v \in Workers : v # w => local'[v] = local[v]
         /\ local'[w].sz = sz - 1 /\ local'[w].head = links[list] /\ local'[w].mid = local[w].mid
         /\ next' = [links EXCEPT ![list] = Null] /\ next' \in Links
         /\ used' = used \cup {list} /\ used' \subseteq Blocks
         /\ Cardinality(used) \in Nat /\ Cardinality(used') = Cardinality(used) + 1
         /\ peak' \in Peaks /\ peak'.used >= peak.used /\ peak'.used >= Cardinality(used')
         /\ peak'.first = peak.first /\ peak'.reserved = peak.reserved
<1>1. /\ local \in [Workers -> [sz : 0..(2 * ListLength), head : Blocks \cup {Null}, mid : Blocks \cup {Null}]]
      /\ used \subseteq Blocks /\ peak \in Peaks
  BY DEF TypeOK, Peaks
<1>2. /\ local' = [local EXCEPT ![w].sz = sz - 1, ![w].head = links[list]]
      /\ next' = [links EXCEPT ![list] = Null] /\ used' = used \cup {list}
      /\ peak' = [peak EXCEPT !.used = IF Cardinality(used') > @ THEN Cardinality(used') ELSE @]
  BY DEF Take
<1>3. ListLength \in Nat /\ sz - 1 \in 0..(2 * ListLength) /\ links[list] \in Blocks \cup {Null}
  BY DEF AllocatorAssumption, Links
<1>4. /\ local' \in [Workers -> [sz : 0..(2 * ListLength), head : Blocks \cup {Null}, mid : Blocks \cup {Null}]]
      /\ \A v \in Workers : v # w => local'[v] = local[v]
      /\ local'[w].sz = sz - 1 /\ local'[w].head = links[list] /\ local'[w].mid = local[w].mid
  BY <1>1, <1>2, <1>3
<1>5. next' \in Links
  BY <1>2 DEF Links
<1>6. used' \subseteq Blocks
  BY <1>1, <1>2
<1>7. Cardinality(used) \in Nat /\ Cardinality(used') = Cardinality(used) + 1
  <2>1. IsFiniteSet(used) /\ Cardinality(used) \in 0..HeapBlocks
    BY <1>1, BlockSets
  <2>2. HeapBlocks \in Nat
    BY DEF AllocatorAssumption
  <2>3. Cardinality(used \cup {list}) = Cardinality(used) + 1
    BY <2>1, FS_AddElement
  <2> QED
    BY <1>2, <2>1, <2>2, <2>3
<1>8. /\ peak' \in Peaks /\ peak'.used >= peak.used /\ peak'.used >= Cardinality(used')
      /\ peak'.first = peak.first /\ peak'.reserved = peak.reserved
  <2>1. PICK n : n = Cardinality(used')
    OBVIOUS
  <2>2. n \in Nat /\ peak' = [peak EXCEPT !.used = IF n > @ THEN n ELSE @]
    <3>1. n \in Nat
      BY <1>7, <2>1
    <3>2. peak' = [peak EXCEPT !.used = IF n > @ THEN n ELSE @]
      BY <1>2, <2>1, Zenon
    <3> QED
      BY <3>1, <3>2
  <2>3. peak.used \in Nat /\ peak = [used |-> peak.used, first |-> peak.first, reserved |-> peak.reserved]
    BY <1>1 DEF Peaks
  <2>4. CASE n > peak.used
    <3>1. peak' = [peak EXCEPT !.used = n]
      BY <2>2, <2>4
    <3>2. peak' = [used |-> n, first |-> peak.first, reserved |-> peak.reserved]
      BY <2>3, <3>1
    <3>3. peak.first \in Nat /\ peak.reserved \in Nat
      BY <1>1 DEF Peaks
    <3> QED
      BY <2>1, <2>2, <2>3, <2>4, <3>2, <3>3 DEF Peaks
  <2>5. CASE ~(n > peak.used)
    <3>1. peak' = [peak EXCEPT !.used = @]
      BY <2>2, <2>5
    <3>2. peak' = peak
      BY <1>1, <3>1 DEF Peaks
    <3>3. n <= peak.used
      BY <2>2, <2>3, <2>5
    <3> QED
      BY <1>1, <2>1, <2>3, <3>2, <3>3
  <2> QED
    BY <2>4, <2>5
<1> QED
  BY <1>2, <1>4, <1>5, <1>6, <1>7, <1>8

\* The balance of the counts is kept where the stepping worker keeps its own.
LEMMA CountsKept ==
  ASSUME AllocatorAssumption, TypeOK, TypeOK', \A v \in Workers : Control(v), Counted, NEW w \in Workers,
         \A v \in Workers : v # w => Still(v),
         blocks_allocated' = Cardinality(Memory'),
         blocks_allocated' + need'[w] + (Cardinality(used) + stock + claim[w])
           = blocks_allocated + need[w] + (Cardinality(used') + stock' + claim'[w]),
         reserving'[w] + peak.reserved <= reserving[w] + peak'.reserved,
         Cardinality(used') <= peak'.used,
         blocks_allocated' + need'[w] + Bound(peak) <= blocks_allocated + need[w] + Bound(peak')
  PROVE  Counted'
<1>1. /\ Total(claim) \in Nat /\ Total(claim') \in Nat /\ Total(need) \in Nat /\ Total(need') \in Nat
      /\ Total(reserving) \in Nat /\ Total(reserving') \in Nat
      /\ claim[w] \in Nat /\ claim'[w] \in Nat /\ need[w] \in Nat /\ need'[w] \in Nat
      /\ reserving[w] \in Nat /\ reserving'[w] \in Nat
      /\ Total(claim') + claim[w] = Total(claim) + claim'[w]
      /\ Total(need') + need[w] = Total(need) + need'[w]
      /\ Total(reserving') + reserving[w] = Total(reserving) + reserving'[w]
  BY ShareChange
<1>2. /\ blocks_allocated \in Nat /\ stock \in Nat /\ Cardinality(used) \in Nat
      /\ blocks_allocated' \in Nat /\ stock' \in Nat /\ Cardinality(used') \in Nat
  <2>1. /\ blocks_allocated \in Nat /\ Len(global) \in Nat /\ blocks_allocated' \in Nat /\ Len(global') \in Nat
        /\ used \subseteq Blocks /\ used' \subseteq Blocks
    <3>1. /\ blocks_allocated \in 0..HeapBlocks /\ global \in Seq(Blocks) /\ used \subseteq Blocks
      BY DEF TypeOK
    <3>2. /\ blocks_allocated' \in 0..HeapBlocks /\ global' \in Seq(Blocks) /\ used' \subseteq Blocks
      BY DEF TypeOK
    <3>3. HeapBlocks \in Nat
      BY DEF AllocatorAssumption
    <3> QED
      BY <3>1, <3>2, <3>3
  <2>2. ListLength \in Nat /\ HeapBlocks \in Nat
    BY DEF AllocatorAssumption
  <2>3. Cardinality(used) \in Nat /\ Cardinality(used') \in Nat
    BY <2>1, <2>2, BlockSets
  <2>4. stock \in Nat /\ stock' \in Nat
    BY <2>1, <2>2 DEF stock
  <2> QED
    BY <2>1, <2>3, <2>4
<1>3. peak \in Peaks /\ peak' \in Peaks
  BY DEF TypeOK, Peaks
<1>4. /\ peak.reserved \in Nat /\ peak'.reserved \in Nat
  BY <1>3 DEF Peaks
<1>5. Bound(peak) \in Nat /\ Bound(peak') \in Nat
  <2>1. peak.reserved = peak.reserved + 0 /\ peak'.reserved = peak'.reserved + 0
    BY <1>4
  <2>2. peak.used >= peak.used /\ peak'.used >= peak'.used
    BY <1>3 DEF Peaks
  <2> QED
    BY <1>3, <2>1, <2>2, BoundGrows
<1>6. /\ blocks_allocated + Total(need) = Cardinality(used) + stock + Total(claim)
      /\ Total(reserving) <= peak.reserved
      /\ blocks_allocated + Total(need) <= Bound(peak)
  BY DEF Counted
<1>7. blocks_allocated' + Total(need') = Cardinality(used') + stock' + Total(claim')
  <2>1. /\ blocks_allocated' + need'[w] + (Cardinality(used) + stock + claim[w])
             = blocks_allocated + need[w] + (Cardinality(used') + stock' + claim'[w])
        /\ blocks_allocated + Total(need) = Cardinality(used) + stock + Total(claim)
    BY <1>6
  <2> DEFINE b == blocks_allocated    b2 == blocks_allocated'
             n == need[w]             n2 == need'[w]
             c == claim[w]            c2 == claim'[w]
             s == Cardinality(used) + stock
             s2 == Cardinality(used') + stock'
             tn == Total(need)        tn2 == Total(need')
             tc == Total(claim)       tc2 == Total(claim')
  <2>2. /\ b \in Nat /\ b2 \in Nat /\ n \in Nat /\ n2 \in Nat /\ c \in Nat /\ c2 \in Nat
        /\ s \in Nat /\ s2 \in Nat /\ tn \in Nat /\ tn2 \in Nat /\ tc \in Nat /\ tc2 \in Nat
    BY <1>1, <1>2
  <2>3. b2 + n2 + (s + c) = b + n + (s2 + c2) /\ b + tn = s + tc /\ tn2 + n = tn + n2 /\ tc2 + c = tc + c2
    BY <1>1, <1>2, <2>1
  <2>4. b2 + tn2 = s2 + tc2
    <3> HIDE DEF b, b2, n, n2, c, c2, s, s2, tn, tn2, tc, tc2
    <3> QED
      BY <2>2, <2>3
  <2> QED
    BY <2>4
<1>8. Total(reserving') <= peak'.reserved
  BY <1>1, <1>4, <1>6
<1>9. blocks_allocated' + Total(need') <= Bound(peak')
  BY <1>1, <1>2, <1>5, <1>6
<1> QED
  BY <1>7, <1>8, <1>9 DEF Counted

-----------------------------------------------------------------------------
(* What each step does.                                                    *)

\* alloc from the worker's own list.
LEMMA AllocLocalKeeps ==
  ASSUME AllocatorAssumption, AllocatorInv, NEW w \in Workers, AllocLocal(w)
  PROVE  AllocatorInv'
<1>1. /\ TypeOK /\ BlocksPlaced /\ (\A v \in Workers : Control(v)) /\ Counted /\ Rooted /\ Unused
  BY DEF AllocatorInv
<1>2. /\ pc[w] = "idle" /\ initialized /\ local[w].sz > 0
      /\ Take(w, local[w].head, local[w].sz, next)
      /\ UNCHANGED <<initialized, stacks, blocks_allocated, locals, exited, regions>>
  BY DEF AllocLocal, CallsAlloc
<1>3. /\ UNCHANGED <<initialized, global, pool_roots, blocks_allocated, pc, lists, start, left, exited, regions>>
  BY <1>2 DEF stacks, locals
<1>4. local[w].sz \in 1..(2 * ListLength) /\ local[w].sz \in Nat \ {0} /\ ListLength \in Nat
  BY <1>1, <1>2 DEF TypeOK, AllocatorAssumption
<1>5. next \in Links /\ used \subseteq Blocks
  BY <1>1 DEF TypeOK, Links
<1>6. PICK h : h = local[w].head
  OBVIOUS
<1>7. h \in Blocks \ used
  <2>1. Owned(next, global, local, left, hands, used, Memory)
    BY <1>1 DEF BlocksPlaced
  <2> QED
    BY <1>4, <1>6, <2>1, HeadIsFree
<1>8. /\ local' \in [Workers -> [sz : 0..(2 * ListLength), head : Blocks \cup {Null}, mid : Blocks \cup {Null}]]
      /\ \A v \in Workers : v # w => local'[v] = local[v]
      /\ local'[w].sz = local[w].sz - 1 /\ local'[w].head = next[h] /\ local'[w].mid = local[w].mid
      /\ next' = [next EXCEPT ![h] = Null] /\ next' \in Links
      /\ used' = used \cup {h} /\ used' \subseteq Blocks
      /\ Cardinality(used) \in Nat /\ Cardinality(used') = Cardinality(used) + 1
      /\ peak' \in Peaks /\ peak'.used >= peak.used /\ peak'.used >= Cardinality(used')
      /\ peak'.first = peak.first /\ peak'.reserved = peak.reserved
  BY <1>1, <1>2, <1>4, <1>5, <1>6, <1>7, TakeOne
<1>9. TypeOK'
  BY <1>1, <1>3, <1>8 DEF TypeOK, Links, Peaks
<1>10. \A v \in Workers : v # w => Still(v)
  BY <1>3, <1>8 DEF Still
<1>11. /\ hands' = hands /\ Memory' = Memory /\ left' = left /\ global' = global
       /\ pending(w)' = pending(w) /\ Control(w)'
  <2>1. num_blocks(w)' = num_blocks(w)
    BY <1>3 DEF num_blocks
  <2>2. Control(w)'
    BY <1>1, <1>2, <1>3, <2>1 DEF Control, RowsFit
  <2>3. \A v \in Workers : Hand(v)' = Hand(v)
    BY <1>3 DEF Hand, num_blocks
  <2> QED
    BY <1>3, <2>1, <2>2, <2>3 DEF hands, Memory, pending
<1>12. BlocksPlaced'
  <2>1. Owned(next, global, local, left, hands, used, Memory)
    BY <1>1 DEF BlocksPlaced
  <2>2. Owned([next EXCEPT ![h] = Null], global, local', left, hands, used \cup {h}, Memory)
    BY <1>4, <1>5, <1>6, <1>8, <2>1, TakeHead
  <2> QED
    BY <1>8, <1>11, <2>2 DEF BlocksPlaced
<1>13. Counted'
  <2>1. claim'[w] + 1 = claim[w] /\ need'[w] = need[w] /\ reserving'[w] = reserving[w]
    <3>1. claim'[w] = local'[w].sz + pending(w)' /\ claim[w] = local[w].sz + pending(w) /\ pending(w) \in Nat
      BY <1>1, ShareTypes DEF claim
    <3>2. claim'[w] + 1 = claim[w]
      BY <1>4, <1>8, <1>11, <3>1
    <3>3. need'[w] = need[w] /\ reserving'[w] = reserving[w]
      BY <1>3, <1>11 DEF need, reserving, num_blocks
    <3> QED
      BY <3>2, <3>3
  <2>2. Bound(peak) \in Nat /\ Bound(peak') \in Nat /\ Bound(peak') >= Bound(peak) + 0
    <3>1. peak \in Peaks
      BY <1>1 DEF TypeOK, Peaks
    <3>2. peak'.reserved = peak.reserved + 0
      BY <1>8, <3>1 DEF Peaks
    <3> QED
      BY <1>8, <3>1, <3>2, BoundGrows
  <2>3. /\ blocks_allocated \in Nat /\ need[w] \in Nat /\ reserving[w] \in Nat
        /\ claim[w] \in Nat /\ claim'[w] \in Nat /\ stock \in Nat /\ stock' = stock /\ peak.reserved \in Nat
    <3>1. claim'[w] \in Nat
      BY <1>1, <1>9, <1>10, ShareChange
    <3> QED
      BY <1>1, <1>3, <1>4, <3>1, ShareTypes DEF TypeOK, AllocatorAssumption, stock
  <2>4. blocks_allocated' = Cardinality(Memory')
    BY <1>1, <1>3, <1>11 DEF Counted
  <2>5. blocks_allocated' + need'[w] + (Cardinality(used) + stock + claim[w])
           = blocks_allocated + need[w] + (Cardinality(used') + stock' + claim'[w])
    BY <1>3, <1>8, <2>1, <2>3
  <2>6. blocks_allocated' + need'[w] + Bound(peak) <= blocks_allocated + need[w] + Bound(peak')
    BY <1>3, <2>1, <2>2, <2>3
  <2>7. reserving'[w] + peak.reserved <= reserving[w] + peak'.reserved /\ Cardinality(used') <= peak'.used
    BY <1>8, <2>1, <2>3 DEF Peaks
  <2> QED
    BY <1>1, <1>9, <1>10, <2>4, <2>5, <2>6, <2>7, CountsKept
<1>14. Rooted'
  BY <1>1, <1>3 DEF Rooted
<1>15. Unused'
  BY <1>2, <1>3 DEF Unused
<1>16. \A v \in Workers : Control(v)'
  BY <1>1, <1>9, <1>10, <1>11, ShareChange
<1> QED
  BY <1>9, <1>12, <1>13, <1>14, <1>15, <1>16 DEF AllocatorInv

\* free, with the half of a full list that goes back to the stack.
LEMMA FreeKeeps ==
  ASSUME AllocatorAssumption, AllocatorInv, NEW w \in Workers, NEW b \in Blocks, Free(w, b)
  PROVE  AllocatorInv'
<1>1. /\ TypeOK /\ BlocksPlaced /\ (\A v \in Workers : Control(v)) /\ Counted /\ Rooted /\ Unused
  BY DEF AllocatorInv
<1>2. /\ initialized /\ pc[w] = "idle" /\ b \in used
      /\ UNCHANGED <<initialized, pool_roots, blocks_allocated, pc, lists, start, left, exited, regions, peak>>
      /\ used' = used \ {b}
  BY DEF Free, locals
<1>3. PICK list : list = local[w]
  OBVIOUS
<1>4. /\ list \in [sz : 0..(2 * ListLength), head : Blocks \cup {Null}, mid : Blocks \cup {Null}]
      /\ ListLength \in Nat /\ ListLength >= 2 /\ list.sz \in 0..(2 * ListLength) /\ list.sz \in Nat
      /\ list.head \in Blocks \cup {Null}
  BY <1>1, <1>3 DEF TypeOK, AllocatorAssumption
<1>5. next \in Links /\ used \subseteq Blocks /\ global \in Seq(Blocks)
  BY <1>1 DEF TypeOK, Links
<1>6. Owned(next, global, local, left, hands, used, Memory)
  BY <1>1 DEF BlocksPlaced
<1> DEFINE full == list.sz = 2 * ListLength
           linked == [next EXCEPT ![b] = list.head]
<1>7. ASSUME full
      PROVE  /\ global' = <<next[list.mid]>> \o global
             /\ next' = [linked EXCEPT ![list.mid] = Null]
             /\ local' = [local EXCEPT ![w] = [[list EXCEPT !.sz = ListLength] EXCEPT !.head = b, !.sz = @ + 1]]
  BY <1>3, <1>7 DEF Free, FullAt, Half, With
<1>8. ASSUME ~full
      PROVE  /\ global' = global /\ next' = linked
             /\ local' = [local EXCEPT ![w] =
                  [(IF list.sz = ListLength + 1 THEN [list EXCEPT !.mid = list.head] ELSE list)
                     EXCEPT !.head = b, !.sz = @ + 1]]
  BY <1>3, <1>8 DEF Free, FullAt, MidAt, With
<1> HIDE DEF full
<1>9. \A v \in Workers : v # w => local'[v] = local[v]
  BY <1>1, <1>7, <1>8 DEF TypeOK
<1>10. /\ local'[w].head = b
       /\ full => local'[w].sz = ListLength + 1 /\ local'[w].mid = list.mid
       /\ ~full => /\ local'[w].sz = list.sz + 1
                   /\ local'[w].mid = IF list.sz = ListLength + 1 THEN list.head ELSE list.mid
       /\ local'[w] \in [sz : Nat, head : Blocks \cup {Null}, mid : Blocks \cup {Null}]
  <2>1. local \in [Workers -> [sz : 0..(2 * ListLength), head : Blocks \cup {Null}, mid : Blocks \cup {Null}]]
    BY <1>1 DEF TypeOK
  <2>2. CASE full
    <3>1. local'[w] = [sz |-> ListLength + 1, head |-> b, mid |-> list.mid]
      BY <1>4, <1>7, <2>1, <2>2
    <3> QED
      BY <1>4, <2>2, <3>1
  <2>3. CASE ~full /\ list.sz = ListLength + 1
    <3>1. local'[w] = [sz |-> list.sz + 1, head |-> b, mid |-> list.head]
      BY <1>4, <1>8, <2>1, <2>3
    <3> QED
      BY <1>4, <2>3, <3>1
  <2>4. CASE ~full /\ list.sz # ListLength + 1
    <3>1. local'[w] = [sz |-> list.sz + 1, head |-> b, mid |-> list.mid]
      BY <1>4, <1>8, <2>1, <2>4
    <3> QED
      BY <1>4, <2>4, <3>1
  <2> QED
    BY <2>2, <2>3, <2>4
<1>11. local' \in [Workers -> [sz : 0..(2 * ListLength), head : Blocks \cup {Null}, mid : Blocks \cup {Null}]]
  <2>1. local'[w].sz \in 0..(2 * ListLength)
    <3>1. ~full => list.sz # 2 * ListLength
      BY DEF full
    <3> QED
      BY <1>4, <1>10, <3>1
  <2>2. local'[w] \in [sz : 0..(2 * ListLength), head : Blocks \cup {Null}, mid : Blocks \cup {Null}]
    BY <1>10, <2>1
  <2>3. local' = [v \in Workers |-> local'[v]]
    BY <1>1, <1>7, <1>8 DEF TypeOK
  <2>4. \A v \in Workers : local'[v] \in [sz : 0..(2 * ListLength), head : Blocks \cup {Null}, mid : Blocks \cup {Null}]
    BY <1>1, <1>9, <2>2 DEF TypeOK
  <2> QED
    BY <2>3, <2>4
<1>12. /\ hands' = hands /\ Memory' = Memory /\ pending(w)' = pending(w) /\ Control(w)'
       /\ need'[w] = need[w] /\ reserving'[w] = reserving[w]
  <2>1. num_blocks(w)' = num_blocks(w)
    BY <1>2 DEF num_blocks
  <2>2. Control(w)'
    BY <1>1, <1>2, <2>1 DEF Control, RowsFit
  <2>3. \A v \in Workers : Hand(v)' = Hand(v)
    BY <1>2 DEF Hand, num_blocks
  <2>4. pending(w)' = pending(w)
    BY <1>2, <2>1 DEF pending
  <2> QED
    BY <1>2, <2>1, <2>2, <2>3, <2>4 DEF hands, Memory, need, reserving
<1>13. /\ next' \in Links /\ global' \in Seq(Blocks)
       /\ Owned(next', global', local', left, hands, used \ {b}, Memory)
       /\ stock' + claim'[w] = stock + claim[w] + 1
  <2>1. /\ claim'[w] = local'[w].sz + pending(w)' /\ claim[w] = list.sz + pending(w) /\ pending(w) \in Nat
        /\ pending(w)' = pending(w)
    BY <1>1, <1>3, <1>12, ShareTypes DEF claim
  <2>2. CASE full
    <3>1. local[w].sz = 2 * ListLength /\ list.sz = 2 * ListLength
      BY <1>3, <2>2 DEF full
    <3>2. PICK m : m = list.mid
      OBVIOUS
    <3> DEFINE lo == [local EXCEPT ![w] = [list EXCEPT !.sz = ListLength]]
               nx == [next EXCEPT ![m] = Null]
    <3>3. /\ lo[w].sz = ListLength /\ lo[w].head = local[w].head /\ lo[w].mid = list.mid
          /\ \A v \in Workers : v # w => lo[v] = local[v]
      BY <1>1, <1>3, <1>4 DEF TypeOK
    <3> HIDE DEF lo
    <3>4. m \in Blocks \ used /\ next[m] \in Blocks /\ Owned(nx, <<next[m]>> \o global, lo, left, hands, used, Memory)
      BY <1>3, <1>5, <1>6, <3>1, <3>2, <3>3, CutToGlobal
    <3>5. nx \in Links
      BY <1>5 DEF Links
    <3>6. next' = [nx EXCEPT ![b] = list.head]
      <4>1. next' = [[next EXCEPT ![b] = list.head] EXCEPT ![m] = Null]
        BY <1>7, <2>2, <3>2
      <4>2. m # b
        BY <1>2, <3>4
      <4> QED
        BY <1>5, <3>4, <4>1, <4>2 DEF Links
    <3>7. global' = <<next[m]>> \o global /\ global' \in Seq(Blocks) /\ Len(global') = Len(global) + 1
      <4>1. global' = <<next[m]>> \o global
        BY <1>7, <2>2, <3>2
      <4>2. PICK x : x = next[m]
        OBVIOUS
      <4>3. x \in Blocks /\ <<x>> \in Seq(Blocks) /\ Len(<<x>>) = 1
        BY <3>4, <4>2
      <4> QED
        BY <1>5, <4>1, <4>2, <4>3
    <3> HIDE DEF nx
    <3>8. Owned([nx EXCEPT ![b] = lo[w].head], <<next[m]>> \o global, local', left, hands, used \ {b}, Memory)
      <4>1. lo[w].sz \in Nat /\ local'[w].sz = lo[w].sz + 1 /\ local'[w].head = b
        BY <1>4, <1>10, <2>2, <3>3
      <4>2. lo[w].sz # ListLength + 1 /\ local'[w].mid = lo[w].mid
        BY <1>4, <1>10, <2>2, <3>3
      <4>3. \A v \in Workers : v # w => local'[v] = lo[v]
        BY <1>9, <3>3
      <4> QED
        BY <1>2, <1>5, <3>4, <3>5, <4>1, <4>2, <4>3, PutHead
    <3>9. next' \in Links
      BY <1>4, <3>5, <3>6 DEF Links
    <3>10. stock' + claim'[w] = stock + claim[w] + 1
      <4>1. claim'[w] = ListLength + 1 + pending(w) /\ claim[w] = 2 * ListLength + pending(w)
        BY <1>10, <2>1, <2>2, <3>1
      <4>2. (Len(global) + 1) * ListLength = Len(global) * ListLength + ListLength /\ Len(global) * ListLength \in Nat
        BY <1>4, <1>5
      <4>3. stock' = stock + ListLength /\ stock \in Nat
        BY <3>7, <4>2 DEF stock
      <4> QED
        BY <1>4, <2>1, <4>1, <4>3
    <3> QED
      BY <1>3, <3>3, <3>6, <3>7, <3>8, <3>9, <3>10
  <2>3. CASE ~full
    <3>1. next' \in Links
      BY <1>4, <1>5, <1>8, <2>3 DEF Links
    <3>2. Owned([next EXCEPT ![b] = local[w].head], global, local', left, hands, used \ {b}, Memory)
      <4>1. local[w].sz \in Nat /\ local'[w].sz = local[w].sz + 1 /\ local'[w].head = b
        BY <1>3, <1>4, <1>10, <2>3
      <4>2. local'[w].mid = IF local[w].sz = ListLength + 1 THEN local[w].head ELSE local[w].mid
        BY <1>3, <1>10, <2>3
      <4> QED
        BY <1>2, <1>5, <1>6, <1>9, <4>1, <4>2, PutHead
    <3>3. stock' = stock /\ stock \in Nat
      BY <1>4, <1>5, <1>8, <2>3 DEF stock
    <3>4. stock' + claim'[w] = stock + claim[w] + 1
      BY <1>4, <1>10, <2>1, <2>3, <3>3
    <3> QED
      BY <1>3, <1>5, <1>8, <2>3, <3>1, <3>2, <3>4
  <2> QED
    BY <2>2, <2>3
<1>14. TypeOK'
  BY <1>1, <1>2, <1>5, <1>11, <1>13 DEF TypeOK, Links
<1>15. \A v \in Workers : v # w => Still(v)
  BY <1>2, <1>9 DEF Still
<1>16. BlocksPlaced'
  BY <1>2, <1>12, <1>13 DEF BlocksPlaced
<1>17. Counted'
  <2>1. /\ blocks_allocated \in Nat /\ need[w] \in Nat /\ reserving[w] \in Nat
        /\ claim[w] \in Nat /\ claim'[w] \in Nat /\ stock \in Nat /\ stock' \in Nat /\ peak.reserved \in Nat
        /\ peak.used \in Nat
    <3>1. claim'[w] \in Nat /\ claim[w] \in Nat
      BY <1>1, <1>14, <1>15, ShareChange
    <3>2. stock \in Nat /\ stock' \in Nat
      <4>1. global \in Seq(Blocks) /\ global' \in Seq(Blocks)
        BY <1>5, <1>13
      <4> QED
        BY <1>4, <4>1 DEF stock
    <3>3. need[w] \in Nat /\ reserving[w] \in Nat
      BY <1>1, ShareTypes
    <3>4. blocks_allocated \in Nat /\ peak.reserved \in Nat /\ peak.used \in Nat
      BY <1>1 DEF TypeOK, AllocatorAssumption
    <3> QED
      BY <3>1, <3>2, <3>3, <3>4
  <2>2. Cardinality(used) \in Nat /\ Cardinality(used') \in Nat /\ Cardinality(used') + 1 = Cardinality(used)
    <3>1. IsFiniteSet(used) /\ Cardinality(used) \in Nat /\ Cardinality(used') \in Nat
      <4>1. HeapBlocks \in Nat /\ used' \subseteq Blocks
        BY <1>2, <1>5 DEF AllocatorAssumption
      <4> QED
        BY <1>5, <4>1, BlockSets
    <3>2. Cardinality(used') = Cardinality(used) - 1
      BY <1>2, <3>1, FS_RemoveElement
    <3> QED
      BY <3>1, <3>2
  <2>3. /\ blocks_allocated' = Cardinality(Memory') /\ Cardinality(used) <= peak.used
    BY <1>1, <1>2, <1>12 DEF Counted
  <2>4. blocks_allocated' + need'[w] + (Cardinality(used) + stock + claim[w])
           = blocks_allocated + need[w] + (Cardinality(used') + stock' + claim'[w])
    <3>1. Cardinality(used) + stock + claim[w] = Cardinality(used') + stock' + claim'[w]
      <4>1. stock' + claim'[w] = stock + claim[w] + 1
        BY <1>13
      <4> DEFINE u == Cardinality(used)   u2 == Cardinality(used')
      <4>2. u \in Nat /\ u2 \in Nat /\ u2 + 1 = u
        BY <2>2
      <4> HIDE DEF u, u2
      <4>3. u + stock + claim[w] = u2 + stock' + claim'[w]
        BY <2>1, <4>1, <4>2
      <4> QED
        BY <4>3 DEF u, u2
    <3>2. blocks_allocated' = blocks_allocated /\ need'[w] = need[w]
      BY <1>2, <1>12
    <3> QED
      BY <3>1, <3>2
  <2>5. Bound(peak) \in Nat
    <3>1. peak \in Peaks /\ peak.reserved = peak.reserved + 0
      BY <1>1, <2>1 DEF TypeOK, Peaks
    <3> QED
      BY <2>1, <3>1, BoundGrows
  <2>6. blocks_allocated' + need'[w] + Bound(peak) <= blocks_allocated + need[w] + Bound(peak')
    BY <1>2, <1>12, <2>1, <2>5
  <2>7. reserving'[w] + peak.reserved <= reserving[w] + peak'.reserved /\ Cardinality(used') <= peak'.used
    BY <1>2, <1>12, <2>1, <2>2, <2>3
  <2> QED
    BY <1>1, <1>14, <1>15, <2>3, <2>4, <2>6, <2>7, CountsKept
<1>18. Rooted'
  BY <1>1, <1>2 DEF Rooted
<1>19. Unused'
  BY <1>2 DEF Unused
<1>20. \A v \in Workers : Control(v)'
  BY <1>1, <1>12, <1>14, <1>15, ShareChange
<1> QED
  BY <1>14, <1>16, <1>17, <1>18, <1>19, <1>20 DEF AllocatorInv

\* Where only the two flags change, and initialized is not reset.
LEMMA FlagsKeep ==
  ASSUME AllocatorInv, exited' \in BOOLEAN, initialized' \in BOOLEAN, initialized => initialized',
         UNCHANGED <<next, global, pool_roots, local, blocks_allocated, pc, lists, start, left, regions, used, peak>>
  PROVE  AllocatorInv'
<1>1. TypeOK'
  BY DEF AllocatorInv, TypeOK
<1>2. \A v \in Workers : Hand(v)' = Hand(v) /\ pending(v)' = pending(v) /\ num_blocks(v)' = num_blocks(v)
  BY DEF Hand, pending, num_blocks
<1>3. /\ hands' = hands /\ Memory' = Memory /\ claim' = claim /\ need' = need /\ reserving' = reserving
      /\ stock' = stock
  BY <1>2 DEF hands, Memory, claim, need, reserving, stock
<1>4. BlocksPlaced'
  BY <1>3 DEF AllocatorInv, BlocksPlaced
<1>5. Counted'
  BY <1>3 DEF AllocatorInv, Counted
<1>6. \A v \in Workers : Control(v)'
  BY <1>2 DEF AllocatorInv, Control, RowsFit
<1>7. Rooted' /\ Unused'
  BY DEF AllocatorInv, Rooted, Unused
<1> QED
  BY <1>1, <1>4, <1>5, <1>6, <1>7 DEF AllocatorInv

\* alloc with an empty list: a list of the global stack, or none.
LEMMA RefillKeeps ==
  ASSUME AllocatorAssumption, AllocatorInv, NEW w \in Workers, Refill(w)
  PROVE  AllocatorInv'
<1>1. /\ TypeOK /\ BlocksPlaced /\ (\A v \in Workers : Control(v)) /\ Counted /\ Rooted /\ Unused
  BY DEF AllocatorInv
<1>2. /\ pc[w] = "idle" /\ initialized /\ local[w].sz = 0
      /\ UNCHANGED <<initialized, lists, pool_roots, blocks_allocated, start, left, exited, regions>>
  BY DEF Refill, CallsAlloc
<1>3. /\ next \in Links /\ used \subseteq Blocks /\ global \in Seq(Blocks) /\ lists[w] = 0 /\ left[w] = {}
      /\ ListLength \in Nat /\ ListLength >= 2 /\ blocks_allocated \in Nat
      /\ Owned(next, global, local, left, hands, used, Memory)
  BY <1>1, <1>2 DEF TypeOK, Links, Control, BlocksPlaced, AllocatorAssumption
<1>4. pending(w) = 0
  <2>1. Cardinality(left[w]) * ListLength = 0
    BY <1>3, FS_EmptySet
  <2> QED
    BY <1>2, <2>1 DEF pending
<1>5. need[w] = 0 /\ claim[w] = 0 /\ reserving[w] = 0
  BY <1>1, <1>2, <1>3, <1>4, ShareTypes
<1>6. CASE global # <<>>
  <2>1. PICK h : h = Head(global)
    OBVIOUS
  <2>2. /\ h \in Blocks /\ global' = Tail(global) /\ Take(w, h, ListLength, next) /\ pc' = pc
        /\ Tail(global) \in Seq(Blocks) /\ Len(Tail(global)) + 1 = Len(global) /\ Len(Tail(global)) \in Nat
    BY <1>3, <1>6, <2>1 DEF Refill
  <2> DEFINE lo == [local EXCEPT ![w].sz = ListLength, ![w].head = h]
  <2>3. /\ lo[w].sz = ListLength /\ lo[w].head = h /\ lo[w].mid = local[w].mid
        /\ \A v \in Workers : v # w => lo[v] = local[v]
    BY <1>1 DEF TypeOK
  <2> HIDE DEF lo
  <2>4. Owned(next, Tail(global), lo, left, hands, used, Memory)
    BY <1>2, <1>3, <1>6, <2>1, <2>3, GlobalToLocal
  <2>5. h \in Blocks \ used
    BY <1>3, <2>3, <2>4, HeadIsFree
  <2>6. /\ local' \in [Workers -> [sz : 0..(2 * ListLength), head : Blocks \cup {Null}, mid : Blocks \cup {Null}]]
        /\ \A v \in Workers : v # w => local'[v] = local[v]
        /\ local'[w].sz = ListLength - 1 /\ local'[w].head = next[h] /\ local'[w].mid = local[w].mid
        /\ next' = [next EXCEPT ![h] = Null] /\ next' \in Links
        /\ used' = used \cup {h} /\ used' \subseteq Blocks
        /\ Cardinality(used) \in Nat /\ Cardinality(used') = Cardinality(used) + 1
        /\ peak' \in Peaks /\ peak'.used >= peak.used /\ peak'.used >= Cardinality(used')
        /\ peak'.first = peak.first /\ peak'.reserved = peak.reserved
    <3>1. ListLength \in 1..(2 * ListLength)
      BY <1>3
    <3> QED
      BY <1>1, <1>3, <2>2, <2>5, <3>1, TakeOne
  <2>7. TypeOK'
    BY <1>1, <1>2, <2>2, <2>6 DEF TypeOK, Links, Peaks
  <2>8. \A v \in Workers : v # w => Still(v)
    BY <1>2, <2>2, <2>6 DEF Still
  <2>9. /\ hands' = hands /\ Memory' = Memory /\ pending(w)' = pending(w) /\ Control(w)'
        /\ need'[w] = need[w] /\ reserving'[w] = reserving[w]
    <3>1. \A v \in Workers : num_blocks(v)' = num_blocks(v)
      BY <1>2 DEF num_blocks
    <3>2. Control(w)'
      BY <1>1, <1>2, <2>2, <3>1 DEF Control, RowsFit
    <3>3. \A v \in Workers : Hand(v)' = Hand(v)
      BY <1>2, <2>2, <3>1 DEF Hand
    <3>4. pending(w)' = pending(w)
      BY <1>2, <2>2, <3>1 DEF pending
    <3> QED
      BY <1>2, <2>2, <3>1, <3>2, <3>3, <3>4 DEF hands, Memory, need, reserving
  <2>10. BlocksPlaced'
    <3>1. Owned([next EXCEPT ![lo[w].head] = Null], Tail(global), local', left, hands, used \cup {lo[w].head}, Memory)
      <4>1. lo[w].sz \in Nat \ {0} /\ local'[w].sz = lo[w].sz - 1 /\ local'[w].head = next[lo[w].head]
        BY <1>3, <2>3, <2>6
      <4>2. local'[w].mid = lo[w].mid /\ \A v \in Workers : v # w => local'[v] = lo[v]
        BY <2>3, <2>6
      <4> QED
        BY <1>3, <2>4, <4>1, <4>2, TakeHead
    <3>2. left' = left
      BY <1>2
    <3> QED
      BY <2>2, <2>3, <2>6, <2>9, <3>1, <3>2 DEF BlocksPlaced
  <2>11. Counted'
    <3>1. claim'[w] + 1 = ListLength
      <4>1. claim'[w] = local'[w].sz + pending(w)'
        BY DEF claim
      <4> QED
        BY <1>3, <1>4, <2>6, <2>9, <4>1
    <3>2. stock \in Nat /\ stock' \in Nat /\ stock' + ListLength = stock
      <4>1. Len(global) * ListLength = Len(Tail(global)) * ListLength + ListLength
        <5>1. Len(global) = Len(Tail(global)) + 1
          BY <1>3, <2>2
        <5>2. PICK k \in Nat : k = Len(Tail(global)) /\ Len(global) = k + 1
          BY <2>2, <5>1
        <5>3. (k + 1) * ListLength = k * ListLength + ListLength
          BY <1>3
        <5> QED
          BY <5>2, <5>3
      <4>2. stock = Len(global) * ListLength /\ stock' = Len(Tail(global)) * ListLength
        BY <2>2 DEF stock
      <4>3. Len(Tail(global)) * ListLength \in Nat
        BY <1>3, <2>2
      <4> QED
        BY <1>3, <4>1, <4>2, <4>3
    <3>3. blocks_allocated' = Cardinality(Memory')
      BY <1>1, <1>2, <2>9 DEF Counted
    <3>4. Cardinality(used) + stock + claim[w] = Cardinality(used') + stock' + claim'[w]
      <4> DEFINE u == Cardinality(used)   u2 == Cardinality(used')
      <4>1. u \in Nat /\ u2 = u + 1 /\ claim[w] = 0 /\ claim'[w] = ListLength - 1
        <5>1. claim'[w] \in Nat
          BY <1>1, <2>7, <2>8, ShareChange
        <5> QED
          BY <1>3, <1>5, <2>6, <3>1, <5>1
      <4> DEFINE s == stock   s2 == stock'   c == claim[w]   c2 == claim'[w]   l == ListLength
      <4>2. s \in Nat /\ s2 \in Nat /\ s2 + l = s /\ l \in Nat /\ c = 0 /\ c2 = l - 1
        BY <1>3, <3>2, <4>1
      <4> HIDE DEF u, u2, s, s2, c, c2, l
      <4>3. u + s + c = u2 + s2 + c2
        BY <4>1, <4>2
      <4> QED
        BY <4>3 DEF u, u2, s, s2, c, c2
    <3>5. blocks_allocated' = blocks_allocated /\ need'[w] = need[w] /\ need[w] = 0
      BY <1>2, <1>5, <2>9
    <3>6. blocks_allocated' + need'[w] + (Cardinality(used) + stock + claim[w])
             = blocks_allocated + need[w] + (Cardinality(used') + stock' + claim'[w])
      BY <3>4, <3>5
    <3>7. Bound(peak) \in Nat /\ Bound(peak') \in Nat /\ Bound(peak') >= Bound(peak) + 0
      <4>1. peak \in Peaks
        BY <1>1 DEF TypeOK, Peaks
      <4>2. peak'.reserved = peak.reserved + 0
        BY <2>6, <4>1 DEF Peaks
      <4> QED
        BY <2>6, <4>1, <4>2, BoundGrows
    <3>8. blocks_allocated' + need'[w] + Bound(peak) <= blocks_allocated + need[w] + Bound(peak')
      BY <1>3, <3>5, <3>7
    <3>9. reserving'[w] + peak.reserved <= reserving[w] + peak'.reserved /\ Cardinality(used') <= peak'.used
      <4>1. peak.reserved \in Nat /\ peak'.used \in Nat
        BY <1>1, <2>6 DEF TypeOK, Peaks
      <4> QED
        BY <1>5, <2>6, <2>9, <4>1
    <3> QED
      BY <1>1, <2>7, <2>8, <3>3, <3>6, <3>8, <3>9, CountsKept
  <2>12. Rooted' /\ Unused'
    BY <1>1, <1>2, <2>2 DEF Rooted, Unused
  <2>13. \A v \in Workers : Control(v)'
    BY <1>1, <2>7, <2>8, <2>9, ShareChange
  <2> QED
    BY <2>7, <2>10, <2>11, <2>12, <2>13 DEF AllocatorInv
<1>7. CASE global = <<>>
  <2>1. /\ pc' = [pc EXCEPT ![w] = "grow"]
        /\ UNCHANGED <<global, next, local, used, peak>>
    BY <1>7 DEF Refill
  <2>2. pc'[w] = "grow" /\ \A v \in Workers : v # w => pc'[v] = pc[v]
    BY <1>1, <2>1 DEF TypeOK
  <2>3. TypeOK'
    BY <1>1, <1>2, <2>1 DEF TypeOK
  <2>4. \A v \in Workers : v # w => Still(v)
    BY <1>2, <2>1, <2>2 DEF Still
  <2>5. /\ Hand(w) = {} /\ Hand(w)' = {} /\ Control(w)' /\ pending(w)' = ListLength
    BY <1>1, <1>2, <1>3, <2>1, <2>2 DEF Hand, Control, RowsFit, pending, num_blocks
  <2>6. hands' = hands /\ Memory' = Memory
    <3>1. \A v \in Workers : v # w => Hand(v)' = Hand(v)
      BY <2>4 DEF Still, Hand, num_blocks
    <3>2. \A v \in Workers : Hand(v)' = Hand(v)
      BY <2>5, <3>1
    <3> QED
      BY <1>2, <3>2 DEF hands, Memory
  <2>7. BlocksPlaced'
    BY <1>2, <1>3, <2>1, <2>6 DEF BlocksPlaced
  <2>8. Counted'
    <3>1. /\ Total(claim) \in Nat /\ Total(claim') \in Nat /\ Total(need) \in Nat /\ Total(need') \in Nat
          /\ Total(reserving) \in Nat /\ Total(reserving') \in Nat
          /\ Total(claim') + claim[w] = Total(claim) + claim'[w]
          /\ Total(need') + need[w] = Total(need) + need'[w]
          /\ Total(reserving') + reserving[w] = Total(reserving) + reserving'[w]
      BY <1>1, <2>3, <2>4, ShareChange
    <3>2. claim'[w] = ListLength /\ need'[w] = ListLength /\ reserving'[w] = 0
      <4>1. claim'[w] = local'[w].sz + pending(w)' /\ local'[w].sz = 0
        BY <1>2, <2>1 DEF claim
      <4>2. need'[w] = num_blocks(w)' /\ num_blocks(w)' = ListLength /\ lists'[w] = 0
        BY <1>2, <1>3, <2>2 DEF need, num_blocks
      <4>3. reserving'[w] = 0
        BY <4>2 DEF reserving
      <4> QED
        BY <1>3, <2>5, <4>1, <4>2, <4>3
    <3>3. /\ Total(claim') = Total(claim) + ListLength /\ Total(need') = Total(need) + ListLength
          /\ Total(reserving') = Total(reserving)
      BY <1>3, <1>5, <3>1, <3>2
    <3>4. /\ blocks_allocated = Cardinality(Memory)
          /\ blocks_allocated + Total(need) = Cardinality(used) + stock + Total(claim)
          /\ Total(reserving) <= peak.reserved /\ Cardinality(used) <= peak.used
      BY <1>1 DEF Counted
    <3>5. stock = 0 /\ stock' = 0
      BY <1>3, <1>7, <2>1 DEF stock
    <3>6. Cardinality(used) \in Nat
      <4>1. HeapBlocks \in Nat
        BY DEF AllocatorAssumption
      <4> QED
        BY <1>3, <4>1, BlockSets
    <3>7. blocks_allocated + Total(need') = Cardinality(used) + Total(claim')
      <4> DEFINE b == blocks_allocated    u == Cardinality(used)   l == ListLength
                 n == Total(need)         n2 == Total(need')
                 c == Total(claim)        c2 == Total(claim')
      <4>1. b \in Nat /\ u \in Nat /\ l \in Nat
        BY <1>3, <3>6
      <4>2. n \in Nat /\ n2 \in Nat /\ c \in Nat /\ c2 \in Nat
        BY <3>1
      <4>3. c2 = c + l /\ n2 = n + l
        BY <3>3
      <4>4. b + n = u + c
        <5>1. b + n = u + stock + c /\ stock = 0
          BY <3>4, <3>5
        <5> HIDE DEF b, n, u, c
        <5> QED
          BY <4>1, <4>2, <5>1
      <4> HIDE DEF b, u, l, n, n2, c, c2
      <4>5. b + n2 = u + c2
        BY <4>1, <4>2, <4>3, <4>4
      <4> QED
        BY <4>5 DEF b, u, n2, c2
    <3>8. Total(claim') <= 2 * ListLength * Cardinality(Workers) + Total(reserving')
      <4>1. 2 * ListLength \in Nat
        BY <1>3
      <4>2. claim' \in [Workers -> Nat] /\ reserving' \in [Workers -> Nat]
        <5>1. claim \in [Workers -> Nat] /\ reserving \in [Workers -> Nat]
          BY <1>1, ShareTypes
        <5>2. \A v \in Workers : v # w => claim'[v] = claim[v] /\ reserving'[v] = reserving[v]
          BY <1>1, <2>4, StillShares
        <5>3. \A v \in Workers : claim'[v] \in Nat /\ reserving'[v] \in Nat
          BY <1>3, <3>2, <5>1, <5>2
        <5>4. claim' = [v \in Workers |-> claim'[v]] /\ reserving' = [v \in Workers |-> reserving'[v]]
          BY DEF claim, reserving
        <5> QED
          BY <5>3, <5>4
      <4>3. ASSUME NEW v \in Workers PROVE claim'[v] <= 2 * ListLength + reserving'[v]
        <5>1. CASE v = w
          BY <1>3, <3>2, <5>1
        <5>2. CASE v # w
          <6>1. claim'[v] = claim[v] /\ reserving'[v] = reserving[v]
            BY <1>1, <2>4, <5>2, StillShares
          <6>2. /\ claim[v] = local[v].sz + pending(v) /\ local[v].sz \in 0..(2 * ListLength) /\ pending(v) \in Nat
                /\ reserving[v] = IF lists[v] = 0 THEN 0 ELSE pending(v)
            BY <1>1, ShareTypes
          <6>3. CASE lists[v] # 0
            BY <1>3, <6>1, <6>2, <6>3
          <6>4. CASE lists[v] = 0 /\ pc[v] = "idle"
            <7>1. left[v] = {}
              BY <1>1, <6>4 DEF Control
            <7>2. Cardinality(left[v]) * ListLength = 0
              BY <1>3, <7>1, FS_EmptySet
            <7>3. pending(v) = 0
              BY <6>4, <7>2 DEF pending
            <7> QED
              BY <1>3, <6>1, <6>2, <6>4, <7>3
          <6>5. CASE lists[v] = 0 /\ pc[v] # "idle"
            <7>1. local[v].sz = 0 /\ pc[v] # "push" /\ left[v] = {}
              BY <1>1, <6>5 DEF Control
            <7>2. pc[v] \in {"grow", "test", "root"}
              BY <1>1, <6>5, <7>1 DEF TypeOK
            <7>3. pending(v) = ListLength
              BY <6>5, <7>2 DEF pending, num_blocks
            <7> QED
              BY <1>3, <6>1, <6>2, <6>5, <7>1, <7>3
          <6> QED
            BY <6>3, <6>4, <6>5
        <5> QED
          BY <5>1, <5>2
      <4> QED
        BY <4>1, <4>2, <4>3, TotalBound
    <3>9. blocks_allocated + Total(need') <= Bound(peak)
      <4>1. peak \in Peaks /\ peak.reserved \in Nat /\ peak.used \in Nat
        BY <1>1 DEF TypeOK, Peaks
      <4>2. peak.reserved = peak.reserved + 0
        BY <4>1
      <4>3. Bound(peak) \in Nat /\ Bound(peak) >= peak.used + 2 * ListLength * Cardinality(Workers) + peak.reserved
        BY <4>1, <4>2, BoundGrows
      <4>4. PICK c : c = 2 * ListLength * Cardinality(Workers)
        OBVIOUS
      <4>5. c \in Nat
        BY <1>3, <4>4, FS_CardinalityType DEF AllocatorAssumption
      <4>6. Total(claim') <= c + Total(reserving')
        BY <3>8, <4>4
      <4>7. Bound(peak) >= peak.used + c + peak.reserved
        BY <4>3, <4>4
      <4> DEFINE b == blocks_allocated    u == Cardinality(used)   n == Total(need')
                 k == Total(claim')       r == Total(reserving')   m == Bound(peak)
                 p == peak.used           q == peak.reserved
      <4>8. /\ b \in Nat /\ u \in Nat /\ n \in Nat /\ k \in Nat /\ r \in Nat /\ m \in Nat
            /\ p \in Nat /\ q \in Nat
        <5>1. b \in Nat /\ u \in Nat
          BY <1>3, <3>6
        <5>2. n \in Nat /\ k \in Nat /\ r \in Nat
          BY <3>1
        <5> QED
          BY <4>1, <4>3, <5>1, <5>2
      <4>9. b + n = u + k /\ k <= c + r /\ m >= p + c + q /\ u <= p
        BY <3>4, <3>7, <4>6, <4>7
      <4>10. r <= q
        BY <3>3, <3>4
      <4> HIDE DEF b, u, n, k, r, m, p, q
      <4>11. b + n <= m
        BY <4>5, <4>8, <4>9, <4>10
      <4> QED
        BY <4>11 DEF b, n, m
    <3>10. /\ blocks_allocated' = blocks_allocated /\ Memory' = Memory /\ used' = used /\ peak' = peak
      BY <1>2, <2>1, <2>6
    <3>11. blocks_allocated + Total(need') = Cardinality(used) + stock' + Total(claim')
      BY <3>1, <3>5, <3>6, <3>7
    <3> QED
      BY <3>3, <3>4, <3>9, <3>10, <3>11 DEF Counted
  <2>9. Rooted'
    <3>1. \A v \in Workers : pc[v] \in {"test", "root"} => pc'[v] \in {"test", "root"}
      BY <1>2, <2>2
    <3> QED
      BY <1>1, <1>2, <3>1 DEF Rooted
  <2>10. Unused'
    BY <1>2 DEF Unused
  <2>11. \A v \in Workers : Control(v)'
    BY <1>1, <2>3, <2>4, <2>5, ShareChange
  <2> QED
    BY <2>3, <2>7, <2>8, <2>9, <2>10, <2>11 DEF AllocatorInv
<1> QED
  BY <1>6, <1>7

\* An idle worker has nothing in its hands and claims its list.
LEMMA IdleShares ==
  ASSUME AllocatorAssumption, TypeOK, NEW w \in Workers, Control(w), pc[w] = "idle"
  PROVE  /\ lists[w] = 0 /\ left[w] = {} /\ Hand(w) = {}
         /\ need[w] = 0 /\ reserving[w] = 0 /\ claim[w] = local[w].sz
<1>1. lists[w] = 0 /\ left[w] = {}
  BY DEF Control
<1>2. pending(w) = 0
  <2>1. Cardinality(left[w]) * ListLength = 0
    BY <1>1, FS_EmptySet DEF AllocatorAssumption
  <2> QED
    BY <2>1 DEF pending
<1>3. Hand(w) = {}
  BY <1>1 DEF Hand
<1>4. local[w].sz \in Nat
  BY DEF TypeOK, AllocatorAssumption
<1> QED
  BY <1>1, <1>2, <1>3, <1>4, ShareTypes

\* reserve asks for its lists.
LEMMA ReserveKeeps ==
  ASSUME AllocatorAssumption, AllocatorInv, NEW w \in Workers, Reserve(w)
  PROVE  AllocatorInv'
<1>1. /\ TypeOK /\ BlocksPlaced /\ (\A v \in Workers : Control(v)) /\ Counted /\ Rooted /\ Unused
  BY DEF AllocatorInv
<1>2. /\ pc[w] = "idle" /\ initialized
      /\ pc' = [pc EXCEPT ![w] = "grow"]
      /\ UNCHANGED <<initialized, next, global, pool_roots, local, blocks_allocated, start, left, exited,
                     regions, used>>
  BY DEF Reserve, stacks
<1>3. PICK n \in ReserveSizes :
        /\ lists' = [lists EXCEPT ![w] = NumLists(n)]
        /\ peak' = [peak EXCEPT !.reserved = @ + NumLists(n) * ListLength]
  BY DEF Reserve
<1>4. PICK k : k = NumLists(n)
  OBVIOUS
<1>5. k \in Nat \ {0} /\ ListLength \in Nat /\ ListLength >= 2
  <2>1. n \in Nat
    BY DEF AllocatorAssumption
  <2> QED
    BY <1>4, <2>1, SomeLists DEF AllocatorAssumption
<1>6. PICK ds : ds = k * ListLength
  OBVIOUS
<1>7. ds \in Nat
  BY <1>5, <1>6
<1>8. /\ lists' = [lists EXCEPT ![w] = k] /\ lists'[w] = k /\ \A v \in Workers : v # w => lists'[v] = lists[v]
      /\ pc'[w] = "grow" /\ \A v \in Workers : v # w => pc'[v] = pc[v]
  BY <1>1, <1>2, <1>3, <1>4 DEF TypeOK
<1>9. /\ peak \in Peaks /\ peak' \in Peaks /\ peak'.used = peak.used /\ peak'.first = peak.first
      /\ peak'.reserved = peak.reserved + ds /\ peak.used \in Nat /\ peak.reserved \in Nat
  <2>1. peak \in Peaks
    BY <1>1 DEF TypeOK, Peaks
  <2>2. peak' = [peak EXCEPT !.reserved = @ + ds]
    BY <1>3, <1>4, <1>6, Zenon
  <2>3. peak' = [used |-> peak.used, first |-> peak.first, reserved |-> peak.reserved + ds]
    BY <2>1, <2>2 DEF Peaks
  <2> QED
    BY <1>7, <2>1, <2>3 DEF Peaks
<1>10. TypeOK'
  <2>1. lists' \in [Workers -> Nat] /\ pc' \in [Workers -> {"idle", "grow", "test", "root", "push"}]
    BY <1>1, <1>2, <1>5, <1>8 DEF TypeOK
  <2> QED
    BY <1>1, <1>2, <1>9, <2>1 DEF TypeOK, Peaks
<1>11. \A v \in Workers : v # w => Still(v)
  BY <1>2, <1>8 DEF Still
<1>12. /\ left[w] = {} /\ Hand(w) = {} /\ need[w] = 0 /\ reserving[w] = 0 /\ claim[w] = local[w].sz
  BY <1>1, <1>2, IdleShares
<1>13. /\ num_blocks(w)' = ds /\ pending(w)' = ds
  <2>1. num_blocks(w)' = ds
    BY <1>5, <1>6, <1>8 DEF num_blocks
  <2> QED
    BY <1>8, <2>1 DEF pending
<1>14. Control(w)'
  BY <1>1, <1>2, <1>5, <1>8, <1>12 DEF Control, RowsFit
<1>15. hands' = hands /\ Memory' = Memory
  <2>1. Hand(w)' = {}
    BY <1>2, <1>8, <1>12 DEF Hand
  <2>2. \A v \in Workers : Hand(v)' = Hand(v)
    BY <1>11, <1>12, <2>1 DEF Still, Hand, num_blocks
  <2> QED
    BY <1>2, <2>2 DEF hands, Memory
<1>16. BlocksPlaced'
  BY <1>1, <1>2, <1>15 DEF BlocksPlaced
<1>17. Counted'
  <2>1. need'[w] = ds /\ reserving'[w] = ds /\ claim'[w] = local[w].sz + ds
    <3>1. need'[w] = ds
      BY <1>8, <1>13 DEF need
    <3>2. reserving'[w] = ds
      BY <1>5, <1>8, <1>13 DEF reserving
    <3>3. claim'[w] = local[w].sz + ds
      BY <1>2, <1>13 DEF claim
    <3> QED
      BY <3>1, <3>2, <3>3
  <2>2. /\ blocks_allocated \in Nat /\ stock \in Nat /\ stock' = stock /\ local[w].sz \in Nat
        /\ Cardinality(used) \in Nat
    <3>1. global \in Seq(Blocks) /\ used \subseteq Blocks /\ HeapBlocks \in Nat
      BY <1>1 DEF TypeOK, AllocatorAssumption
    <3>2. Cardinality(used) \in Nat
      BY <3>1, BlockSets
    <3> QED
      BY <1>1, <1>2, <1>5, <3>1, <3>2 DEF TypeOK, stock
  <2>3. Bound(peak) \in Nat /\ Bound(peak') \in Nat /\ Bound(peak') >= Bound(peak) + ds
    BY <1>7, <1>9, BoundGrows
  <2>4. blocks_allocated' = Cardinality(Memory') /\ Cardinality(used') <= peak'.used
    BY <1>1, <1>2, <1>9, <1>15 DEF Counted
  <2> DEFINE b == blocks_allocated   u == Cardinality(used)   s == stock   z == local[w].sz
             m == Bound(peak)        m2 == Bound(peak')
  <2>5. blocks_allocated' = b /\ Cardinality(used') = u /\ stock' = s
    BY <1>2, <2>2
  <2>6. b \in Nat /\ u \in Nat /\ s \in Nat /\ z \in Nat /\ m \in Nat /\ m2 \in Nat /\ m2 >= m + ds
    BY <2>2, <2>3
  <2>7. b + ds + (u + s + z) = b + 0 + (u + s + (z + ds)) /\ b + ds + m <= b + 0 + m2
    <3> HIDE DEF b, u, s, z, m, m2
    <3> QED
      BY <1>7, <2>6
  <2>8. blocks_allocated' + need'[w] + (Cardinality(used) + stock + claim[w])
           = blocks_allocated + need[w] + (Cardinality(used') + stock' + claim'[w])
    BY <1>12, <2>1, <2>5, <2>7
  <2>9. blocks_allocated' + need'[w] + Bound(peak) <= blocks_allocated + need[w] + Bound(peak')
    BY <1>12, <2>1, <2>5, <2>7
  <2>10. reserving'[w] + peak.reserved <= reserving[w] + peak'.reserved
    BY <1>7, <1>9, <1>12, <2>1
  <2> QED
    BY <1>1, <1>10, <1>11, <2>4, <2>8, <2>9, <2>10, CountsKept
<1>18. Rooted'
  <2>1. \A v \in Workers : pc[v] \in {"test", "root"} => pc'[v] \in {"test", "root"}
    BY <1>2, <1>8
  <2> QED
    BY <1>1, <1>2, <2>1 DEF Rooted
<1>19. Unused'
  BY <1>2 DEF Unused
<1>20. \A v \in Workers : Control(v)'
  BY <1>1, <1>10, <1>11, <1>14, ShareChange
<1> QED
  BY <1>10, <1>16, <1>17, <1>18, <1>19, <1>20 DEF AllocatorInv

\* aligned_alloc: the blocks of the new region go into the worker's hands.
LEMMA GrowKeeps ==
  ASSUME AllocatorAssumption, AllocatorInv, NEW w \in Workers, Grow(w)
  PROVE  AllocatorInv'
<1>1. /\ TypeOK /\ BlocksPlaced /\ (\A v \in Workers : Control(v)) /\ Counted /\ Rooted /\ Unused
  BY DEF AllocatorInv
<1>2. pc[w] = "grow" /\ UNCHANGED <<initialized, next, global, pool_roots, local, lists, left, used, peak>>
  BY DEF Grow, stacks
<1>3. PICK n : n = num_blocks(w)
  OBVIOUS
<1>4. n \in Nat /\ n >= 2 /\ HeapBlocks \in Nat
  BY <1>1, <1>3, SomeBlocks DEF AllocatorAssumption
<1>5. CASE exited' = TRUE /\ UNCHANGED <<start, regions, blocks_allocated, pc>>
  BY <1>1, <1>2, <1>5, FlagsKeep DEF TypeOK
<1>6. CASE /\ Fits(n) # {}
           /\ start' = [start EXCEPT ![w] = Min(Fits(n))]
           /\ regions' = regions \cup {[first |-> Min(Fits(n)), last |-> Min(Fits(n)) + n - 1]}
           /\ blocks_allocated' = blocks_allocated + n
           /\ pc' = [pc EXCEPT ![w] = "test"]
           /\ UNCHANGED exited
  <2>1. PICK f : f = Min(Fits(n))
    OBVIOUS
  <2>2. f \in Blocks /\ f + n - 1 <= HeapBlocks /\ \A r \in regions : f > r.last \/ f + n - 1 < r.first
    <3>1. Fits(n) \subseteq Nat
      BY <1>4 DEF Fits, Blocks
    <3>2. f \in Fits(n)
      BY <1>6, <2>1, <3>1, MinIsMember
    <3> QED
      BY <3>2 DEF Fits
  <2>3. PICK e : e = f + n - 1
    OBVIOUS
  <2>4. e \in Blocks /\ f \in Nat /\ e \in Nat
    BY <1>4, <2>2, <2>3 DEF Blocks
  <2> DEFINE r == f..e
  <2>5. r \subseteq Blocks /\ IsFiniteSet(r) /\ Cardinality(r) = n
    <3>1. r \subseteq Blocks
      BY <1>4, <2>2, <2>4 DEF Blocks
    <3>2. IsFiniteSet(r) /\ Cardinality(r) = IF f > e THEN 0 ELSE e - f + 1
      BY <2>4, FS_Interval
    <3> QED
      BY <1>4, <2>3, <2>4, <3>1, <3>2
  <2>6. r \cap Memory = {} /\ Memory \subseteq Blocks
    <3>1. \A q \in regions : q.first \in Nat /\ q.last \in Nat /\ q.first..q.last \subseteq Blocks
      BY <1>1, <1>4 DEF TypeOK, Blocks
    <3>2. ASSUME NEW q \in regions, NEW b \in r, b \in q.first..q.last PROVE FALSE
      <4>1. b \in Nat /\ b >= f /\ b <= f + n - 1 /\ b >= q.first /\ b <= q.last
        BY <2>3, <2>4, <3>1, <3>2
      <4>2. f > q.last \/ f + n - 1 < q.first
        BY <2>2
      <4>3. f \in Nat /\ q.first \in Nat /\ q.last \in Nat
        BY <2>4, <3>1
      <4> QED
        BY <1>4, <4>1, <4>2, <4>3
    <3>3. Memory \subseteq Blocks
      BY <3>1 DEF Memory
    <3>4. \A b \in Memory : \E q \in regions : b \in q.first..q.last
      BY DEF Memory
    <3>5. ASSUME NEW b \in r, b \in Memory PROVE FALSE
      <4>1. PICK q \in regions : b \in q.first..q.last
        BY <3>4, <3>5
      <4> QED
        BY <3>2, <4>1
    <3> HIDE DEF r
    <3> QED
      BY <3>3, <3>5
  <2>7. Memory' = Memory \cup r
    <3> DEFINE new == [first |-> f, last |-> e]
    <3>1. regions' = regions \cup {new}
      BY <1>6, <2>1, <2>3
    <3>2. new.first..new.last = r
      OBVIOUS
    <3> HIDE DEF new, r
    <3>3. Memory' = UNION {q.first..q.last : q \in regions \cup {new}}
      BY <3>1 DEF Memory
    <3>4. Memory = UNION {q.first..q.last : q \in regions}
      BY DEF Memory
    <3>5. \A b : b \in Memory' <=> b \in Memory \/ b \in r
      BY <3>2, <3>3, <3>4
    <3> QED
      BY <3>5
  <2> HIDE DEF r
  <2>8. Cardinality(Memory') = Cardinality(Memory) + n /\ Cardinality(Memory') <= HeapBlocks
    <3>1. IsFiniteSet(Memory) /\ Cardinality(Memory) \in Nat
      BY <1>4, <2>6, BlockSets
    <3>2. Cardinality(Memory \cup r) = Cardinality(Memory) + Cardinality(r)
      <4>1. Memory \cap r = {}
        BY <2>6
      <4>2. Cardinality(Memory \cup r) = Cardinality(Memory) + Cardinality(r) - Cardinality(Memory \cap r)
        BY <2>5, <3>1, FS_Union
      <4>3. Cardinality(Memory \cap r) = 0
        BY <4>1, FS_EmptySet
      <4> QED
        BY <1>4, <2>5, <3>1, <4>2, <4>3
    <3>3. Memory' \subseteq Blocks
      BY <2>5, <2>6, <2>7
    <3>4. Cardinality(Memory') <= HeapBlocks
      BY <1>4, <3>3, BlockSets
    <3> QED
      BY <2>5, <2>7, <3>2, <3>4
  <2>9. /\ start' = [start EXCEPT ![w] = f] /\ start'[w] = f /\ \A v \in Workers : v # w => start'[v] = start[v]
        /\ pc'[w] = "test" /\ \A v \in Workers : v # w => pc'[v] = pc[v]
    BY <1>1, <1>6, <2>1 DEF TypeOK
  <2>10. blocks_allocated' = Cardinality(Memory') /\ blocks_allocated' \in 0..HeapBlocks /\ blocks_allocated \in Nat
    <3>1. blocks_allocated \in Nat /\ blocks_allocated = Cardinality(Memory)
      BY <1>1, <1>4 DEF TypeOK, Counted
    <3> QED
      BY <1>4, <1>6, <2>8, <3>1
  <2>11. TypeOK'
    <3>1. regions' \subseteq [first : Blocks, last : Blocks]
      BY <1>1, <1>6, <2>1, <2>2, <2>3, <2>4 DEF TypeOK
    <3>2. start' \in [Workers -> Blocks \cup {Null}] /\ pc' \in [Workers -> {"idle", "grow", "test", "root", "push"}]
      BY <1>1, <1>6, <2>1, <2>2 DEF TypeOK
    <3> QED
      BY <1>1, <1>2, <1>6, <2>10, <3>1, <3>2 DEF TypeOK
  <2>12. \A v \in Workers : v # w => Still(v)
    BY <1>2, <2>9 DEF Still
  <2>13. num_blocks(w)' = n /\ pending(w)' = n /\ pending(w) = n /\ left[w] = {}
    <3>1. num_blocks(w)' = num_blocks(w)
      BY <1>2 DEF num_blocks
    <3> QED
      BY <1>1, <1>2, <1>3, <2>9, <3>1 DEF pending, Control
  <2>14. Control(w)'
    <3>1. start'[w] \in Blocks /\ start'[w] + num_blocks(w)' - 1 \in Blocks
      BY <2>2, <2>3, <2>4, <2>9, <2>13
    <3>2. num_blocks(w)' = num_blocks(w)
      BY <1>3, <2>13
    <3> QED
      BY <1>1, <1>2, <2>9, <2>13, <3>1 DEF Control, RowsFit
  <2>15. hands[w] = {} /\ hands'[w] = r /\ \A v \in Workers : v # w => hands'[v] = hands[v]
    <3>1. Hand(w) = {}
      BY <1>2, <2>13 DEF Hand
    <3>2. Hand(w)' = r
      BY <2>3, <2>9, <2>13 DEF Hand, r
    <3>3. \A v \in Workers : v # w => hands'[v] = hands[v]
      BY <1>1, <2>12, StillShares
    <3> QED
      BY <3>1, <3>2, <3>3 DEF hands
  <2>16. BlocksPlaced'
    <3>1. Owned(next, global, local, left, hands, used, Memory)
      BY <1>1 DEF BlocksPlaced
    <3>2. r \in SUBSET Blocks
      BY <2>5
    <3>3. Owned(next, global, local, left, hands', used, Memory \cup r)
      BY <2>6, <2>13, <2>15, <3>1, <3>2, GrowHand
    <3> QED
      BY <1>2, <2>7, <3>3 DEF BlocksPlaced
  <2>17. Counted'
    <3>1. need[w] = n /\ need'[w] = 0 /\ claim'[w] = claim[w] /\ reserving'[w] = reserving[w]
      <4>1. need[w] = n /\ need'[w] = 0
        BY <1>2, <1>3, <2>9 DEF need
      <4>2. claim'[w] = claim[w]
        BY <1>2, <2>13 DEF claim
      <4>3. reserving'[w] = reserving[w]
        BY <1>2, <2>13 DEF reserving
      <4> QED
        BY <4>1, <4>2, <4>3
    <3>2. /\ stock' = stock /\ used' = used /\ peak' = peak
      BY <1>2 DEF stock
    <3>3. Bound(peak) \in Nat /\ reserving[w] \in Nat /\ peak.reserved \in Nat
      <4>1. peak \in Peaks /\ peak.reserved \in Nat /\ peak.used \in Nat
        BY <1>1 DEF TypeOK, Peaks
      <4>2. peak.reserved = peak.reserved + 0
        BY <4>1
      <4> QED
        BY <1>1, <4>1, <4>2, BoundGrows, ShareTypes
    <3>4. Cardinality(used') <= peak'.used
      BY <1>1, <3>2 DEF Counted
    <3> DEFINE c == Cardinality(used) + stock + claim[w]
    <3>5. blocks_allocated' + need'[w] = blocks_allocated + need[w]
      BY <1>4, <1>6, <2>10, <3>1
    <3>6. blocks_allocated' + need'[w] + c = blocks_allocated + need[w] + (Cardinality(used') + stock' + claim'[w])
      BY <3>1, <3>2, <3>5
    <3>7. blocks_allocated' + need'[w] + Bound(peak) <= blocks_allocated + need[w] + Bound(peak')
      BY <1>4, <2>10, <3>1, <3>2, <3>3, <3>5
    <3>8. reserving'[w] + peak.reserved <= reserving[w] + peak'.reserved
      BY <3>1, <3>2, <3>3
    <3> QED
      BY <1>1, <2>10, <2>11, <2>12, <3>4, <3>6, <3>7, <3>8, CountsKept
  <2>18. Rooted'
    <3>1. ASSUME NEW q \in regions'
          PROVE  q.first \in On(pool_roots') \/ \E v \in Workers : pc'[v] \in {"test", "root"} /\ start'[v] = q.first
      <4>1. CASE q \in regions
        <5>1. \A v \in Workers : pc[v] \in {"test", "root"} => pc'[v] = pc[v] /\ start'[v] = start[v]
          BY <1>2, <2>9
        <5> QED
          BY <1>1, <1>2, <4>1, <5>1 DEF Rooted
      <4>2. CASE q \notin regions
        <5>1. q.first = f
          BY <1>6, <2>1, <4>2
        <5> QED
          BY <2>9, <5>1
      <4> QED
        BY <4>1, <4>2
    <3> QED
      BY <3>1 DEF Rooted
  <2>19. Unused'
    BY <1>1, <1>2 DEF Unused
  <2>20. \A v \in Workers : Control(v)'
    BY <1>1, <2>11, <2>12, <2>14, ShareChange
  <2> QED
    BY <2>11, <2>16, <2>17, <2>18, <2>19, <2>20 DEF AllocatorInv
<1> QED
  BY <1>3, <1>5, <1>6 DEF Grow

\* The test of max_blocks.
LEMMA TestKeeps ==
  ASSUME AllocatorAssumption, AllocatorInv, NEW w \in Workers, Test(w)
  PROVE  AllocatorInv'
<1>1. /\ TypeOK /\ BlocksPlaced /\ (\A v \in Workers : Control(v)) /\ Counted /\ Rooted /\ Unused
  BY DEF AllocatorInv
<1>2. /\ pc[w] = "test"
      /\ UNCHANGED <<initialized, next, global, pool_roots, local, blocks_allocated, lists, start, left,
                     regions, used, peak>>
  BY DEF Test, stacks
<1>3. CASE exited' = TRUE /\ UNCHANGED pc
  BY <1>1, <1>2, <1>3, FlagsKeep DEF TypeOK
<1>4. CASE pc' = [pc EXCEPT ![w] = "root"] /\ UNCHANGED exited
  <2>1. pc'[w] = "root" /\ \A v \in Workers : v # w => pc'[v] = pc[v]
    BY <1>1, <1>4 DEF TypeOK
  <2>2. TypeOK'
    <3>1. pc' \in [Workers -> {"idle", "grow", "test", "root", "push"}]
      BY <1>1, <1>4 DEF TypeOK
    <3> QED
      BY <1>1, <1>2, <1>4, <3>1 DEF TypeOK
  <2>3. \A v \in Workers : num_blocks(v)' = num_blocks(v)
    BY <1>2 DEF num_blocks
  <2>4. \A v \in Workers : Hand(v)' = Hand(v) /\ pending(v)' = pending(v)
    BY <1>2, <2>1, <2>3 DEF Hand, pending
  <2>5. \A v \in Workers : pc[v] = "grow" <=> pc'[v] = "grow"
    BY <1>2, <2>1
  <2>6. /\ hands' = hands /\ Memory' = Memory /\ claim' = claim /\ need' = need /\ reserving' = reserving
        /\ stock' = stock
    BY <1>2, <2>3, <2>4, <2>5 DEF hands, Memory, claim, need, reserving, stock
  <2>7. BlocksPlaced'
    BY <1>1, <1>2, <2>6 DEF BlocksPlaced
  <2>8. Counted'
    BY <1>1, <1>2, <2>6 DEF Counted
  <2>9. Control(w)'
    BY <1>1, <1>2, <2>1, <2>3 DEF Control, RowsFit
  <2>10. \A v \in Workers : v # w => Still(v)
    BY <1>2, <2>1 DEF Still
  <2>11. \A v \in Workers : Control(v)'
    BY <1>1, <2>2, <2>9, <2>10, ShareChange
  <2>12. Rooted'
    <3>1. \A v \in Workers : pc[v] \in {"test", "root"} => pc'[v] \in {"test", "root"}
      BY <1>2, <2>1
    <3> QED
      BY <1>1, <1>2, <3>1 DEF Rooted
  <2>13. Unused'
    <3>1. initialized
      BY <1>1, <1>2 DEF Unused
    <3> QED
      BY <1>2, <3>1 DEF Unused
  <2> QED
    BY <2>2, <2>7, <2>8, <2>11, <2>12, <2>13 DEF AllocatorInv
<1> QED
  BY <1>3, <1>4 DEF Test

\* A push puts one block more on a stack.
LEMMA OnPush ==
  ASSUME NEW p \in Seq(Blocks), NEW x \in Blocks
  PROVE  /\ <<x>> \o p \in Seq(Blocks) /\ Len(<<x>> \o p) = Len(p) + 1
         /\ On(<<x>> \o p) = On(p) \cup {x}
<1> DEFINE q == <<x>> \o p
<1>1. <<x>> \in Seq(Blocks) /\ Len(<<x>>) = 1
  OBVIOUS
<1>2. /\ q \in Seq(Blocks) /\ Len(q) = Len(p) + 1 /\ Len(p) \in Nat
      /\ q[1] = x /\ \A i \in 1..Len(p) : q[i + 1] = p[i]
  BY <1>1
<1> HIDE DEF q
<1>3. ASSUME NEW i \in 1..Len(q), i # 1 PROVE i - 1 \in 1..Len(p) /\ q[i] = p[i - 1]
  <2>1. i - 1 \in 1..Len(p) /\ (i - 1) + 1 = i
    BY <1>2, <1>3
  <2>2. q[(i - 1) + 1] = p[i - 1]
    BY <1>2, <2>1
  <2> QED
    BY <2>1, <2>2
<1>4. \A i \in 1..Len(p) : i + 1 \in 1..Len(q)
  BY <1>2
<1>5. 1 \in 1..Len(q)
  BY <1>2
<1>6. On(q) \subseteq On(p) \cup {x}
  <2>1. \A i \in 1..Len(q) : q[i] = x \/ \E j \in 1..Len(p) : q[i] = p[j]
    BY <1>2, <1>3
  <2> QED
    BY <2>1 DEF On
<1>7. x \in On(q)
  BY <1>2, <1>5 DEF On
<1>8. On(p) \subseteq On(q)
  BY <1>2, <1>4 DEF On
<1> QED
  BY <1>2, <1>6, <1>7, <1>8 DEF q

\* The new region becomes a root: alloc takes its first block, reserve makes its lists.
LEMMA PushRootKeeps ==
  ASSUME AllocatorAssumption, AllocatorInv, NEW w \in Workers, PushRoot(w)
  PROVE  AllocatorInv'
<1>1. /\ TypeOK /\ BlocksPlaced /\ (\A v \in Workers : Control(v)) /\ Counted /\ Rooted /\ Unused
  BY DEF AllocatorInv
<1>2. /\ pc[w] = "root" /\ pool_roots' = <<start[w]>> \o pool_roots
      /\ start' = [start EXCEPT ![w] = Null]
      /\ UNCHANGED <<initialized, lists, global, blocks_allocated, exited, regions>>
  BY DEF PushRoot, AddRoot
<1>3. PICK f : f = start[w]
  OBVIOUS
<1>4. PICK n : n = num_blocks(w)
  OBVIOUS
<1>5. /\ f \in Blocks /\ f + n - 1 \in Blocks /\ left[w] = {} /\ pc[w] # "idle"
      /\ hands[w] = f..(f + n - 1) /\ pending(w) = n
  <2>1. f \in Blocks /\ f + n - 1 \in Blocks /\ left[w] = {}
    BY <1>1, <1>2, <1>3, <1>4 DEF Control
  <2>2. hands[w] = f..(f + n - 1)
    BY <1>2, <1>3, <1>4 DEF hands, Hand
  <2>3. pending(w) = n
    BY <1>2, <1>4 DEF pending
  <2> QED
    BY <1>2, <2>1, <2>2, <2>3
<1>6. /\ next \in Links /\ used \subseteq Blocks /\ global \in Seq(Blocks) /\ ListLength \in Nat /\ ListLength >= 2
      /\ HeapBlocks \in Nat /\ blocks_allocated \in Nat /\ lists[w] \in Nat
  BY <1>1 DEF TypeOK, Links, AllocatorAssumption
<1>7. Owned(next, global, local, left, hands, used, Memory)
  BY <1>1 DEF BlocksPlaced
<1>8. /\ pool_roots' \in Seq(Blocks) /\ On(pool_roots') = On(pool_roots) \cup {f}
  BY <1>1, <1>2, <1>3, <1>5, OnPush DEF TypeOK
<1>9. \A v \in Workers : v # w => start'[v] = start[v]
  BY <1>1, <1>2 DEF TypeOK
<1>10. start' \in [Workers -> Blocks \cup {Null}]
  BY <1>1, <1>2 DEF TypeOK
<1>11. Memory' = Memory /\ Unused'
  BY <1>1, <1>2 DEF Memory, Unused
<1>12. stock' = stock /\ stock \in Nat
  BY <1>2, <1>6 DEF stock
<1>13. ASSUME \A v \in Workers : v # w => pc'[v] = pc[v] PROVE Rooted'
  <2>1. ASSUME NEW q \in regions
        PROVE  q.first \in On(pool_roots') \/ \E v \in Workers : pc'[v] \in {"test", "root"} /\ start'[v] = q.first
    <3>1. CASE q.first \in On(pool_roots)
      BY <1>8, <3>1
    <3>2. CASE q.first \notin On(pool_roots)
      <4>1. PICK v \in Workers : pc[v] \in {"test", "root"} /\ start[v] = q.first
        BY <1>1, <3>2 DEF Rooted
      <4>2. CASE v = w
        BY <1>3, <1>8, <4>1, <4>2
      <4>3. CASE v # w
        BY <1>9, <1>13, <4>1, <4>3
      <4> QED
        BY <4>2, <4>3
    <3> QED
      BY <3>1, <3>2
  <2> QED
    BY <1>2, <2>1 DEF Rooted
<1>14. CASE lists[w] = 0
  <2>1. /\ n = ListLength /\ local[w].sz = 0
    BY <1>1, <1>4, <1>5, <1>14 DEF num_blocks, Control
  <2>2. PICK links : links = Linked({f})
    OBVIOUS
  <2>3. /\ Take(w, f, ListLength, links) /\ pc' = [pc EXCEPT ![w] = "idle"] /\ left' = left
    BY <1>3, <1>14, <2>2 DEF PushRoot
  <2>4. RowsFit({f}) /\ On(Row(f)) = hands[w]
    <3>1. f \in Blocks /\ f + ListLength - 1 \in Blocks
      BY <1>5, <2>1
    <3> QED
      BY <1>5, <2>1, <3>1, RowBlocks DEF RowsFit
  <2>5. /\ links \in Links /\ IsList(links, f, Row(f))
        /\ \A b \in Blocks \ hands[w] : links[b] = next[b]
    BY <1>6, <2>2, <2>4, LinkedRows
  <2> DEFINE lf == [left EXCEPT ![w] = {f}]
             lo == [local EXCEPT ![w].sz = ListLength, ![w].head = f]
  <2>6. /\ lf[w] = {f} /\ \A v \in Workers : v # w => lf[v] = left[v]
    BY <1>1 DEF TypeOK
  <2>7. /\ lo[w].sz = ListLength /\ lo[w].head = f /\ lo[w].mid = local[w].mid
        /\ \A v \in Workers : v # w => lo[v] = local[v]
    BY <1>1 DEF TypeOK
  <2> HIDE DEF lf, lo
  <2>8. /\ pc'[w] = "idle" /\ \A v \in Workers : v # w => pc'[v] = pc[v]
    BY <1>1, <2>3 DEF TypeOK
  <2>9. hands'[w] = {}
    <3>1. Hand(w)' = {}
      BY <1>5, <2>3, <2>8 DEF Hand
    <3> QED
      BY <3>1 DEF hands
  <2>10. ASSUME NEW v \in Workers, v # w PROVE hands'[v] = hands[v]
    <3>1. Hand(v)' = Hand(v)
      BY <1>2, <1>9, <2>3, <2>8, <2>10 DEF Hand, num_blocks
    <3> QED
      BY <3>1 DEF hands
  <2>11. Owned(links, global, lo, left, hands', used, Memory)
    <3>1. Owned(links, global, local, lf, hands, used, Memory)
      BY <1>7, <2>4, <2>5, <2>6, LinkHand
    <3>2. f + ListLength - 1 \in Blocks
      BY <1>5, <2>1
    <3>3. \A v \in Workers : v # w => left[v] = lf[v]
      BY <2>6
    <3> QED
      BY <1>5, <2>1, <2>4, <2>6, <2>7, <2>9, <2>10, <3>1, <3>2, <3>3, HandToLocal
  <2>12. f \in Blocks \ used
    BY <1>6, <2>7, <2>11, HeadIsFree
  <2>13. /\ local' \in [Workers -> [sz : 0..(2 * ListLength), head : Blocks \cup {Null}, mid : Blocks \cup {Null}]]
         /\ \A v \in Workers : v # w => local'[v] = local[v]
         /\ local'[w].sz = ListLength - 1 /\ local'[w].head = links[f] /\ local'[w].mid = local[w].mid
         /\ next' = [links EXCEPT ![f] = Null] /\ next' \in Links
         /\ used' = used \cup {f} /\ used' \subseteq Blocks
         /\ Cardinality(used) \in Nat /\ Cardinality(used') = Cardinality(used) + 1
         /\ peak' \in Peaks /\ peak'.used >= peak.used /\ peak'.used >= Cardinality(used')
         /\ peak'.first = peak.first /\ peak'.reserved = peak.reserved
    <3>1. ListLength \in 1..(2 * ListLength)
      BY <1>6
    <3> QED
      BY <1>1, <2>3, <2>5, <2>12, <3>1, TakeOne
  <2>14. TypeOK'
    <3>1. pc' \in [Workers -> {"idle", "grow", "test", "root", "push"}]
      BY <1>1, <2>3 DEF TypeOK
    <3> QED
      BY <1>1, <1>2, <1>8, <1>10, <2>3, <2>13, <3>1 DEF TypeOK, Links, Peaks
  <2>15. \A v \in Workers : v # w => Still(v)
    BY <1>2, <1>9, <2>3, <2>8, <2>13 DEF Still
  <2>16. BlocksPlaced'
    <3>1. Owned([links EXCEPT ![lo[w].head] = Null], global, local', left, hands', used \cup {lo[w].head}, Memory)
      <4>1. lo[w].sz \in Nat \ {0} /\ local'[w].sz = lo[w].sz - 1 /\ local'[w].head = links[lo[w].head]
        BY <1>6, <2>7, <2>13
      <4>2. local'[w].mid = lo[w].mid /\ \A v \in Workers : v # w => local'[v] = lo[v]
        BY <2>7, <2>13
      <4> QED
        BY <1>6, <2>5, <2>11, <4>1, <4>2, TakeHead
    <3> QED
      BY <1>2, <1>11, <2>3, <2>7, <2>13, <3>1 DEF BlocksPlaced
  <2>17. Control(w)'
    BY <1>1, <1>2, <1>5, <1>14, <2>3, <2>8 DEF Control, RowsFit
  <2>18. Counted'
    <3>1. /\ need[w] = 0 /\ need'[w] = 0 /\ reserving[w] = 0 /\ reserving'[w] = 0
          /\ claim[w] = ListLength /\ claim'[w] = ListLength - 1
      <4>1. need[w] = 0 /\ need'[w] = 0
        BY <1>2, <2>8 DEF need
      <4>2. reserving[w] = 0 /\ reserving'[w] = 0
        BY <1>2, <1>14 DEF reserving
      <4>3. claim[w] = ListLength
        BY <1>5, <1>6, <2>1 DEF claim
      <4>4. pending(w)' = 0
        <5>1. Cardinality(left'[w]) * ListLength = 0
          <6>1. left'[w] = {}
            BY <1>5, <2>3
          <6> QED
            BY <1>6, <6>1, FS_EmptySet
        <5> QED
          BY <2>8, <5>1 DEF pending
      <4>5. claim'[w] = ListLength - 1
        BY <1>6, <2>13, <4>4 DEF claim
      <4> QED
        BY <4>1, <4>2, <4>3, <4>5
    <3>2. Bound(peak) \in Nat /\ Bound(peak') \in Nat /\ Bound(peak') >= Bound(peak) + 0
      <4>1. peak \in Peaks
        BY <1>1 DEF TypeOK, Peaks
      <4>2. peak'.reserved = peak.reserved + 0
        BY <2>13, <4>1 DEF Peaks
      <4> QED
        BY <2>13, <4>1, <4>2, BoundGrows
    <3>3. blocks_allocated' = Cardinality(Memory')
      BY <1>1, <1>2, <1>11 DEF Counted
    <3> DEFINE b == blocks_allocated   u == Cardinality(used)   u2 == Cardinality(used')   s == stock
               l == ListLength         m == Bound(peak)         m2 == Bound(peak')
    <3>4. b \in Nat /\ u \in Nat /\ u2 = u + 1 /\ s \in Nat /\ l \in Nat /\ m \in Nat /\ m2 \in Nat /\ m2 >= m + 0
      BY <1>6, <1>12, <2>13, <3>2
    <3>5. b + 0 + (u + s + l) = b + 0 + (u2 + s + (l - 1)) /\ b + 0 + m <= b + 0 + m2
      <4> HIDE DEF b, u, u2, s, l, m, m2
      <4> QED
        BY <3>4
    <3>6. blocks_allocated' + need'[w] + (Cardinality(used) + stock + claim[w])
             = blocks_allocated + need[w] + (Cardinality(used') + stock' + claim'[w])
      BY <1>2, <1>12, <3>1, <3>5
    <3>7. blocks_allocated' + need'[w] + Bound(peak) <= blocks_allocated + need[w] + Bound(peak')
      BY <1>2, <3>1, <3>5
    <3>8. reserving'[w] + peak.reserved <= reserving[w] + peak'.reserved /\ Cardinality(used') <= peak'.used
      <4>1. peak.reserved \in Nat /\ peak'.used \in Nat /\ Cardinality(used') \in Nat
        BY <1>1, <2>13 DEF TypeOK, Peaks
      <4> QED
        BY <2>13, <3>1, <4>1
    <3> QED
      BY <1>1, <2>14, <2>15, <3>3, <3>6, <3>7, <3>8, CountsKept
  <2>19. \A v \in Workers : Control(v)'
    BY <1>1, <2>14, <2>15, <2>17, ShareChange
  <2> QED
    BY <1>11, <1>13, <2>8, <2>14, <2>16, <2>18, <2>19 DEF AllocatorInv
<1>15. CASE lists[w] # 0
  <2>1. PICK k : k = lists[w]
    OBVIOUS
  <2>2. PICK firsts : firsts = Lists(f, k)
    OBVIOUS
  <2>3. /\ next' = Linked(firsts) /\ left' = [left EXCEPT ![w] = firsts]
        /\ pc' = [pc EXCEPT ![w] = "push"] /\ UNCHANGED <<local, used, peak>>
    BY <1>3, <1>15, <2>1, <2>2 DEF PushRoot
  <2>4. k \in Nat \ {0} /\ n = k * ListLength /\ f + k * ListLength - 1 <= HeapBlocks
    <3>1. n = k * ListLength
      BY <1>4, <1>15, <2>1 DEF num_blocks
    <3>2. f + n - 1 <= HeapBlocks
      BY <1>5, <1>6 DEF Blocks
    <3> QED
      BY <1>6, <1>15, <2>1, <3>1, <3>2
  <2>5. /\ RowsFit(firsts) /\ UNION {On(Row(g)) : g \in firsts} = hands[w] /\ f \in firsts
        /\ Cardinality(firsts) = k
    BY <1>5, <2>2, <2>4, RegionRows
  <2>6. /\ next' \in Links /\ \A g \in firsts : IsList(next', g, Row(g)) /\ On(Row(g)) \subseteq hands[w]
        /\ \A b \in Blocks \ hands[w] : next'[b] = next[b]
    <3>1. \A g \in firsts : On(Row(g)) \subseteq hands[w]
      BY <2>5
    <3> QED
      BY <1>6, <2>3, <2>5, <3>1, LinkedRows
  <2>7. /\ left'[w] = firsts /\ \A v \in Workers : v # w => left'[v] = left[v]
        /\ pc'[w] = "push" /\ \A v \in Workers : v # w => pc'[v] = pc[v]
    BY <1>1, <2>3 DEF TypeOK
  <2>8. TypeOK'
    <3>1. firsts \in SUBSET Blocks
      BY <2>5 DEF RowsFit
    <3>2. left' \in [Workers -> SUBSET Blocks] /\ pc' \in [Workers -> {"idle", "grow", "test", "root", "push"}]
      BY <1>1, <2>3, <3>1 DEF TypeOK
    <3> QED
      BY <1>1, <1>2, <1>8, <1>10, <2>3, <2>6, <3>2 DEF TypeOK, Links
  <2>9. \A v \in Workers : num_blocks(v)' = num_blocks(v)
    BY <1>2 DEF num_blocks
  <2>10. pending(w)' = n
    BY <2>4, <2>5, <2>7 DEF pending
  <2>11. \A v \in Workers : pending(v)' = pending(v)
    <3>1. \A v \in Workers : v # w => pending(v)' = pending(v)
      BY <2>7, <2>9 DEF pending
    <3> QED
      BY <1>5, <2>10, <3>1
  <2>12. \A v \in Workers : Hand(v)' = Hand(v)
    <3>1. Hand(w)' = Hand(w)
      <4>1. Hand(w)' = hands[w]
        BY <2>5, <2>7 DEF Hand
      <4> QED
        BY <4>1 DEF hands
    <3>2. ASSUME NEW v \in Workers, v # w PROVE Hand(v)' = Hand(v)
      BY <1>9, <2>7, <2>9, <3>2 DEF Hand
    <3> QED
      BY <3>1, <3>2
  <2>13. \A v \in Workers : pc[v] = "grow" <=> pc'[v] = "grow"
    BY <1>2, <2>7
  <2>14. hands' = hands /\ claim' = claim /\ need' = need /\ reserving' = reserving
    BY <1>2, <2>3, <2>9, <2>11, <2>12, <2>13 DEF hands, claim, need, reserving
  <2>15. BlocksPlaced'
    <3>1. Owned(next', global, local, left', hands, used, Memory)
      BY <1>7, <2>6, <2>7, LinkHand
    <3> QED
      BY <1>2, <1>11, <2>3, <2>14, <3>1 DEF BlocksPlaced
  <2>16. Counted'
    BY <1>1, <1>2, <1>11, <1>12, <2>3, <2>14 DEF Counted
  <2>17. Control(w)'
    <3>1. RowsFit(left'[w])
      BY <2>5, <2>7
    <3>2. RowsFit(left[w])'
      BY <3>1 DEF RowsFit
    <3> QED
      BY <1>2, <1>15, <2>5, <2>7, <3>2 DEF Control
  <2>18. \A v \in Workers : v # w => Still(v)
    BY <1>2, <1>9, <2>3, <2>7 DEF Still
  <2>19. \A v \in Workers : Control(v)'
    BY <1>1, <2>8, <2>17, <2>18, ShareChange
  <2> QED
    BY <1>11, <1>13, <2>7, <2>8, <2>15, <2>16, <2>19 DEF AllocatorInv
<1> QED
  BY <1>14, <1>15

\* One round of reserve's loop: a new list goes to the global stack.
LEMMA PushListKeeps ==
  ASSUME AllocatorAssumption, AllocatorInv, NEW w \in Workers, PushList(w)
  PROVE  AllocatorInv'
<1>1. /\ TypeOK /\ BlocksPlaced /\ (\A v \in Workers : Control(v)) /\ Counted /\ Rooted /\ Unused
  BY DEF AllocatorInv
<1>2. /\ pc[w] = "push"
      /\ UNCHANGED <<initialized, next, pool_roots, local, blocks_allocated, start, exited, regions, used, peak>>
  BY DEF PushList
<1>3. PICK f \in left[w] : global' = <<f>> \o global /\ left' = [left EXCEPT ![w] = @ \ {f}]
  BY DEF PushList
<1>4. \/ left'[w] # {} /\ UNCHANGED <<pc, lists>>
      \/ left'[w] = {} /\ pc' = [pc EXCEPT ![w] = "idle"] /\ lists' = [lists EXCEPT ![w] = 0]
  BY DEF PushList
<1>5. /\ left'[w] = left[w] \ {f} /\ (\A v \in Workers : v # w => left'[v] = left[v])
      /\ left' \in [Workers -> SUBSET Blocks] /\ left[w] \subseteq Blocks /\ f \in Blocks
  BY <1>1, <1>3 DEF TypeOK
<1>6. /\ \A v \in Workers : v # w => pc'[v] = pc[v] /\ lists'[v] = lists[v]
      /\ pc'[w] \in {"idle", "push"} /\ (pc'[w] = "push" <=> left'[w] # {})
      /\ (pc'[w] = "push" => lists'[w] = lists[w]) /\ (pc'[w] = "idle" => lists'[w] = 0)
  BY <1>1, <1>2, <1>4 DEF TypeOK
<1>7. pc' \in [Workers -> {"idle", "grow", "test", "root", "push"}] /\ lists' \in [Workers -> Nat]
  <2>1. pc \in [Workers -> {"idle", "grow", "test", "root", "push"}] /\ lists \in [Workers -> Nat]
    BY <1>1 DEF TypeOK
  <2>2. CASE UNCHANGED <<pc, lists>>
    BY <2>1, <2>2
  <2>3. CASE pc' = [pc EXCEPT ![w] = "idle"] /\ lists' = [lists EXCEPT ![w] = 0]
    BY <2>1, <2>3
  <2> QED
    BY <1>4, <2>2, <2>3
<1>8. /\ RowsFit(left[w]) /\ lists[w] # 0
  BY <1>1, <1>2 DEF Control
<1>9. /\ global \in Seq(Blocks) /\ global' \in Seq(Blocks) /\ Len(global') = Len(global) + 1
      /\ ListLength \in Nat /\ ListLength >= 2 /\ HeapBlocks \in Nat
  <2>1. global \in Seq(Blocks)
    BY <1>1 DEF TypeOK
  <2> QED
    BY <1>3, <1>5, <2>1, OnPush DEF AllocatorAssumption
<1>10. TypeOK'
  BY <1>1, <1>2, <1>5, <1>7, <1>9 DEF TypeOK
<1>11. \A v \in Workers : v # w => Still(v)
  BY <1>2, <1>5, <1>6 DEF Still
<1>12. Control(w)'
  <2>1. RowsFit(left[w])'
    BY <1>5, <1>8 DEF RowsFit
  <2> QED
    BY <1>6, <1>8, <2>1 DEF Control
<1>13. hands'[w] = hands[w] \ On(Row(f)) /\ \A v \in Workers : v # w => hands'[v] = hands[v]
  <2>1. Hand(w) = UNION {On(Row(g)) : g \in left[w]}
    BY <1>2 DEF Hand
  <2>2. Hand(w)' = UNION {On(Row(g)) : g \in left[w] \ {f}}
    BY <1>5, <1>6 DEF Hand
  <2>3. ASSUME NEW g \in left[w], g # f PROVE On(Row(g)) \cap On(Row(f)) = {}
    <3>1. /\ On(Row(f)) = f..(f + ListLength - 1) /\ On(Row(g)) = g..(g + ListLength - 1)
      BY <1>8, RowBlocks DEF RowsFit
    <3>2. f + ListLength <= g \/ g + ListLength <= f
      BY <1>8, <2>3 DEF RowsFit
    <3>3. f \in Nat /\ g \in Nat
      BY <1>5, <1>9 DEF Blocks
    <3> QED
      BY <1>9, <3>1, <3>2, <3>3
  <2>4. Hand(w)' = Hand(w) \ On(Row(f))
    BY <2>1, <2>2, <2>3
  <2>5. \A v \in Workers : v # w => hands'[v] = hands[v]
    BY <1>1, <1>11, StillShares
  <2> QED
    BY <2>4, <2>5 DEF hands
<1>14. Memory' = Memory
  BY <1>2 DEF Memory
<1>15. BlocksPlaced'
  <2>1. Owned(next, global, local, left, hands, used, Memory)
    BY <1>1 DEF BlocksPlaced
  <2>2. HandsOver(w, f, global, left, hands, global', left', hands')
    BY <1>3, <1>5, <1>8, <1>13 DEF HandsOver
  <2>3. Owned(next, global', local, left', hands', used, Memory)
    BY <1>9, <2>1, <2>2, HandToGlobal
  <2> QED
    BY <1>2, <1>14, <2>3 DEF BlocksPlaced
<1>16. Counted'
  <2>1. PICK c : c = Cardinality(left'[w])
    OBVIOUS
  <2>2. c \in Nat /\ Cardinality(left[w]) = c + 1
    <3>1. IsFiniteSet(left[w]) /\ Cardinality(left[w]) \in Nat
      BY <1>5, <1>9, BlockSets
    <3>2. Cardinality(left[w] \ {f}) = Cardinality(left[w]) - 1
      BY <3>1, FS_RemoveElement
    <3>3. c \in Nat
      BY <1>5, <1>9, <2>1, BlockSets
    <3> QED
      BY <1>5, <2>1, <3>1, <3>2, <3>3
  <2>3. PICK ds : ds = c * ListLength
    OBVIOUS
  <2>4. ds \in Nat /\ (c + 1) * ListLength = ds + ListLength
    BY <1>9, <2>2, <2>3
  <2>5. pending(w)' = ds /\ pending(w) = ds + ListLength
    BY <1>2, <1>6, <2>1, <2>2, <2>3, <2>4 DEF pending
  <2>6. need[w] = 0 /\ need'[w] = 0
    BY <1>2, <1>6 DEF need
  <2>7. /\ claim[w] = local[w].sz + (ds + ListLength) /\ claim'[w] = local[w].sz + ds /\ local[w].sz \in Nat
    BY <1>1, <1>2, <2>5 DEF claim, TypeOK, AllocatorAssumption
  <2>8. reserving[w] = ds + ListLength /\ (reserving'[w] = 0 \/ reserving'[w] = ds)
    BY <1>8, <2>5 DEF reserving
  <2>9. stock \in Nat /\ stock' = stock + ListLength
    <3>1. PICK k \in Nat : k = Len(global)
      BY <1>9
    <3>2. (k + 1) * ListLength = k * ListLength + ListLength /\ k * ListLength \in Nat
      BY <1>9
    <3> QED
      BY <1>9, <3>1, <3>2 DEF stock
  <2>10. /\ blocks_allocated \in Nat /\ Cardinality(used) \in Nat /\ peak.reserved \in Nat /\ peak.used \in Nat
    <3>1. used \subseteq Blocks
      BY <1>1 DEF TypeOK
    <3>2. Cardinality(used) \in Nat
      BY <1>9, <3>1, BlockSets
    <3> QED
      BY <1>1, <1>9, <3>2 DEF TypeOK
  <2>11. Bound(peak) \in Nat
    <3>1. peak \in Peaks /\ peak.reserved = peak.reserved + 0
      BY <1>1, <2>10 DEF TypeOK, Peaks
    <3> QED
      BY <2>10, <3>1, BoundGrows
  <2>12. blocks_allocated' = Cardinality(Memory') /\ Cardinality(used') <= peak'.used
    BY <1>1, <1>2, <1>14 DEF Counted
  <2> DEFINE b == blocks_allocated   u == Cardinality(used)   s == stock   z == local[w].sz
             l == ListLength         m == Bound(peak)
  <2>13. b \in Nat /\ u \in Nat /\ s \in Nat /\ z \in Nat /\ l \in Nat /\ m \in Nat
    BY <1>9, <2>7, <2>9, <2>10, <2>11
  <2>14. b + 0 + (u + s + (z + (ds + l))) = b + 0 + (u + (s + l) + (z + ds)) /\ b + 0 + m <= b + 0 + m
    <3> HIDE DEF b, u, s, z, l, m
    <3> QED
      BY <2>4, <2>13
  <2>15. blocks_allocated' + need'[w] + (Cardinality(used) + stock + claim[w])
           = blocks_allocated + need[w] + (Cardinality(used') + stock' + claim'[w])
    BY <1>2, <2>6, <2>7, <2>9, <2>14
  <2>16. blocks_allocated' + need'[w] + Bound(peak) <= blocks_allocated + need[w] + Bound(peak')
    BY <1>2, <2>6, <2>14
  <2>17. reserving'[w] + peak.reserved <= reserving[w] + peak'.reserved
    BY <1>2, <1>9, <2>4, <2>8, <2>10
  <2> QED
    BY <1>1, <1>10, <1>11, <2>12, <2>15, <2>16, <2>17, CountsKept
<1>17. Rooted'
  <2>1. \A v \in Workers : pc[v] \in {"test", "root"} => pc'[v] = pc[v]
    BY <1>2, <1>6
  <2> QED
    BY <1>1, <1>2, <2>1 DEF Rooted
<1>18. Unused'
  BY <1>1, <1>2 DEF Unused
<1>19. \A v \in Workers : Control(v)'
  BY <1>1, <1>10, <1>11, <1>12, ShareChange
<1> QED
  BY <1>10, <1>15, <1>16, <1>17, <1>18, <1>19 DEF AllocatorInv

\* Nothing adds up to nothing.
LEMMA TotalZero ==
  ASSUME AllocatorAssumption, NEW f \in [Workers -> Nat], \A w \in Workers : f[w] = 0
  PROVE  Total(f) = 0
<1> DEFINE F == Partial(f)
           S == {s \in SUBSET Workers : F[s] = 0}
<1>1. /\ Total(f) = F[Workers] /\ F[{}] = 0
      /\ \A s \in SUBSET Workers : \A v \in Workers : v \notin s => F[s \cup {v}] = F[s] + f[v]
  BY PartialSums
<1> HIDE DEF F
<1>2. {} \in S
  BY <1>1
<1>3. ASSUME NEW s \in SUBSET Workers, NEW v \in Workers, s \in S PROVE s \cup {v} \in S
  <2>1. CASE v \in s
    <3>1. s \cup {v} = s
      BY <2>1
    <3> QED
      BY <1>3, <3>1
  <2>2. CASE v \notin s
    <3>1. F[s \cup {v}] = F[s] + f[v] /\ F[s] = 0 /\ f[v] = 0
      BY <1>1, <1>3, <2>2
    <3> QED
      BY <3>1
  <2> QED
    BY <2>1, <2>2
<1> HIDE DEF S
<1>4. \A s \in SUBSET Workers : s \in S
  BY <1>2, <1>3, SubsetInduction
<1>5. Workers \in S
  BY <1>4
<1> QED
  BY <1>1, <1>5 DEF S

\* A worker between two calls that has no list.
Resting(v) == pc[v] = "idle" /\ lists[v] = 0 /\ left[v] = {} /\ local[v] = EmptyList

\* Where all workers are, nothing is claimed or in their hands.
LEMMA RestingShares ==
  ASSUME AllocatorAssumption, \A v \in Workers : Resting(v)
  PROVE  /\ Total(claim) = 0 /\ Total(need) = 0 /\ Total(reserving) = 0
         /\ \A v \in Workers : hands[v] = {} /\ Control(v)
<1>1. ASSUME NEW v \in Workers PROVE pending(v) = 0
  <2>1. left[v] = {} /\ pc[v] = "idle"
    BY DEF Resting
  <2>2. Cardinality(left[v]) * ListLength = 0
    BY <2>1, FS_EmptySet DEF AllocatorAssumption
  <2> QED
    BY <2>1, <2>2 DEF pending
<1>2. \A v \in Workers : local[v].sz = 0
  BY DEF Resting, EmptyList
<1>3. \A v \in Workers : claim[v] = 0 /\ need[v] = 0 /\ reserving[v] = 0
  BY <1>1, <1>2 DEF Resting, claim, need, reserving
<1>4. claim \in [Workers -> Nat] /\ need \in [Workers -> Nat] /\ reserving \in [Workers -> Nat]
  <2>1. /\ claim = [v \in Workers |-> claim[v]] /\ need = [v \in Workers |-> need[v]]
        /\ reserving = [v \in Workers |-> reserving[v]]
    BY DEF claim, need, reserving
  <2> QED
    BY <1>3, <2>1
<1>5. Total(claim) = 0 /\ Total(need) = 0 /\ Total(reserving) = 0
  BY <1>3, <1>4, TotalZero
<1>6. \A v \in Workers : hands[v] = {} /\ Control(v)
  BY <1>2 DEF Resting, hands, Hand, Control, RowsFit
<1> QED
  BY <1>5, <1>6

\* The same of the next state.
LEMMA RestingSharesThen ==
  ASSUME AllocatorAssumption, \A v \in Workers : Resting(v)'
  PROVE  /\ Total(claim') = 0 /\ Total(need') = 0 /\ Total(reserving') = 0
         /\ \A v \in Workers : hands'[v] = {} /\ Control(v)'
<1>1. ASSUME NEW v \in Workers PROVE pending(v)' = 0
  <2>1. left'[v] = {} /\ pc'[v] = "idle"
    BY DEF Resting
  <2>2. Cardinality(left'[v]) * ListLength = 0
    BY <2>1, FS_EmptySet DEF AllocatorAssumption
  <2> QED
    BY <2>1, <2>2 DEF pending
<1>2. \A v \in Workers : local'[v].sz = 0
  BY DEF Resting, EmptyList
<1>3. \A v \in Workers : claim'[v] = 0 /\ need'[v] = 0 /\ reserving'[v] = 0
  BY <1>1, <1>2 DEF Resting, claim, need, reserving
<1>4. claim' \in [Workers -> Nat] /\ need' \in [Workers -> Nat] /\ reserving' \in [Workers -> Nat]
  <2>1. /\ claim' = [v \in Workers |-> claim'[v]] /\ need' = [v \in Workers |-> need'[v]]
        /\ reserving' = [v \in Workers |-> reserving'[v]]
    BY DEF claim, need, reserving
  <2> QED
    BY <1>3, <2>1
<1>5. Total(claim') = 0 /\ Total(need') = 0 /\ Total(reserving') = 0
  BY <1>3, <1>4, TotalZero
<1>6. \A v \in Workers : hands'[v] = {} /\ Control(v)'
  BY <1>2 DEF Resting, hands, Hand, Control, RowsFit
<1> QED
  BY <1>5, <1>6

\* The bound is at least what init and the reserves took.
LEMMA BoundAtLeast ==
  ASSUME AllocatorAssumption, NEW p \in Peaks
  PROVE  p.first \in Nat /\ p.reserved \in Nat /\ Bound(p) \in Nat /\ Bound(p) >= p.first + p.reserved
<1>1. p.used \in Nat /\ p.first \in Nat /\ p.reserved \in Nat
  BY DEF Peaks
<1>2. p.used >= p.used /\ p.reserved = p.reserved + 0
  BY <1>1
<1> QED
  BY <1>1, <1>2, BoundGrows

\* A new allocator has nothing.
LEMMA InitRight == ASSUME AllocatorAssumption, Init PROVE AllocatorInv
<1>1. ListLength \in Nat /\ HeapBlocks \in Nat
  BY DEF AllocatorAssumption
<1>2. TypeOK
  <2>1. EmptyList \in [sz : 0..(2 * ListLength), head : Blocks \cup {Null}, mid : Blocks \cup {Null}]
    BY <1>1 DEF EmptyList
  <2>2. local \in [Workers -> [sz : 0..(2 * ListLength), head : Blocks \cup {Null}, mid : Blocks \cup {Null}]]
    BY <2>1 DEF Init
  <2>3. /\ global \in Seq(Blocks) /\ pool_roots \in Seq(Blocks) /\ blocks_allocated \in 0..HeapBlocks
        /\ pc \in [Workers -> {"idle", "grow", "test", "root", "push"}]
        /\ lists \in [Workers -> Nat] /\ start \in [Workers -> Blocks \cup {Null}]
        /\ left \in [Workers -> SUBSET Blocks] /\ next \in [Blocks -> Blocks \cup {Null}]
    BY <1>1 DEF Init
  <2>4. peak \in [used : Nat, first : Nat, reserved : Nat]
    BY DEF Init
  <2> QED
    BY <2>2, <2>3, <2>4 DEF Init, TypeOK
<1>3. \A v \in Workers : Resting(v)
  BY DEF Init, Resting
<1>4. /\ Total(claim) = 0 /\ Total(need) = 0 /\ Total(reserving) = 0
      /\ \A v \in Workers : hands[v] = {} /\ Control(v)
  BY <1>3, RestingShares
<1>5. global = <<>> /\ used = {} /\ Memory = {} /\ blocks_allocated = 0 /\ peak \in Peaks
      /\ peak.used = 0 /\ peak.reserved = 0
  BY DEF Init, Memory, Peaks
<1>6. BlocksPlaced
  <2>1. \A v \in Workers : local[v] = EmptyList /\ left[v] = {} /\ hands[v] = {}
    BY <1>3, <1>4 DEF Resting
  <2>2. Owned(next, <<>>, local, left, hands, {}, {})
    BY <2>1, NothingOwned
  <2> QED
    BY <1>5, <2>2 DEF BlocksPlaced
<1>7. Counted
  <2>1. stock = 0
    BY <1>1, <1>5 DEF stock
  <2>2. Cardinality(Memory) = 0 /\ Cardinality(used) = 0
    BY <1>5, FS_EmptySet
  <2>3. Bound(peak) \in Nat
    BY <1>5, BoundAtLeast
  <2> QED
    BY <1>4, <1>5, <2>1, <2>2, <2>3 DEF Counted
<1>8. Rooted /\ Unused
  BY DEF Init, Rooted, Unused
<1> QED
  BY <1>2, <1>4, <1>6, <1>7, <1>8 DEF AllocatorInv

\* The orders of a set of blocks are the sequences that hold each of them once.
LEMMA OrdersOfSet ==
  ASSUME NEW s, s \subseteq Blocks, IsFiniteSet(s), NEW c \in SetToSeqs(s)
  PROVE  /\ c \in Seq(Blocks) /\ Len(c) = Cardinality(s) /\ On(c) = s
         /\ \A i, j \in 1..Len(c) : c[i] = c[j] => i = j
<1>1. PICK n : n = Cardinality(s)
  OBVIOUS
<1>2. n \in Nat
  BY <1>1, FS_CardinalityType
<1>3. c \in [1..n -> s] /\ \A i, j \in 1..n : c[i] = c[j] => i = j
  BY <1>1 DEF SetToSeqs
<1>4. c \in Seq(Blocks) /\ Len(c) = n
  BY <1>2, <1>3
<1>5. On(c) \subseteq s
  BY <1>3, <1>4 DEF On
<1>6. IsFiniteSet(On(c)) /\ Cardinality(On(c)) = n
  <2>1. ExistsBijection(1..n, On(c))
    <3>1. c \in [1..n -> On(c)]
      BY <1>3, <1>4 DEF On
    <3>2. c \in Injection(1..n, On(c))
      BY <1>3, <3>1 DEF Injection, IsInjective
    <3>3. \A x \in On(c) : \E i \in 1..n : c[i] = x
      BY <1>4 DEF On
    <3>4. c \in Bijection(1..n, On(c))
      BY <3>1, <3>2, <3>3 DEF Bijection, Surjection
    <3> QED
      BY <3>4 DEF ExistsBijection
  <2> QED
    BY <1>2, <2>1, FS_CountingElements, FS_NatBijection
<1>7. On(c) = s
  BY <1>1, <1>5, <1>6, FS_Subset
<1> QED
  BY <1>1, <1>3, <1>4, <1>7

\* init makes its lists of the new memory and puts them on the stack.
LEMMA InitializeKeeps ==
  ASSUME AllocatorAssumption, AllocatorInv, Initialize
  PROVE  AllocatorInv'
<1>1. /\ TypeOK /\ (\A v \in Workers : Control(v)) /\ Unused
  BY DEF AllocatorInv
<1>2. /\ initialized' = TRUE /\ UNCHANGED <<pc, lists, start, left, used>>
      /\ ~initialized /\ ~exited /\ \A v \in Workers : pc[v] = "idle"
  BY DEF Initialize, Quiet, locals
<1>3. /\ regions = {} /\ used = {} /\ \A v \in Workers : lists[v] = 0 /\ left[v] = {}
  BY <1>1, <1>2 DEF Unused, Control
<1>4. PICK size \in AllocSizes :
        LET k == NumLists(size) n == k * ListLength first == Min(Fits(n)) IN
        \/ /\ exited' = TRUE
           /\ UNCHANGED <<next, stacks, local, blocks_allocated, regions, peak>>
        \/ /\ Fits(n) # {}
           /\ blocks_allocated' = n
           /\ regions' = {[first |-> first, last |-> first + n - 1]}
           /\ pool_roots' = <<first>>
           /\ next' = Linked(Lists(first, k))
           /\ global' \in SetToSeqs(Lists(first, k))
           /\ local' = [w \in Workers |-> EmptyList]
           /\ peak' = [used |-> 0, first |-> n, reserved |-> 0]
           /\ UNCHANGED exited
  BY DEF Initialize
<1>5. PICK k : k = NumLists(size)
  OBVIOUS
<1>6. PICK n : n = k * ListLength
  OBVIOUS
<1>7. PICK f : f = Min(Fits(n))
  OBVIOUS
<1>8. CASE exited' = TRUE /\ UNCHANGED <<next, stacks, local, blocks_allocated, regions, peak>>
  <2>1. UNCHANGED <<next, global, pool_roots, local, blocks_allocated, pc, lists, start, left, regions, used, peak>>
    BY <1>2, <1>8 DEF stacks
  <2>2. exited' \in BOOLEAN /\ initialized' \in BOOLEAN /\ (initialized => initialized')
    BY <1>2, <1>8
  <2> QED
    BY <2>1, <2>2, FlagsKeep
<1>9. CASE /\ Fits(n) # {}
           /\ blocks_allocated' = n
           /\ regions' = {[first |-> f, last |-> f + n - 1]}
           /\ pool_roots' = <<f>>
           /\ next' = Linked(Lists(f, k))
           /\ global' \in SetToSeqs(Lists(f, k))
           /\ local' = [w \in Workers |-> EmptyList]
           /\ peak' = [used |-> 0, first |-> n, reserved |-> 0]
           /\ UNCHANGED exited
  <2>1. k \in Nat \ {0} /\ ListLength \in Nat /\ ListLength >= 2 /\ HeapBlocks \in Nat
    <3>1. size \in Nat
      BY DEF AllocatorAssumption
    <3> QED
      BY <1>5, <3>1, SomeLists DEF AllocatorAssumption
  <2>2. n \in Nat /\ n >= 2
    <3>1. k * ListLength \in Nat /\ k * ListLength >= 1 * ListLength
      BY <2>1
    <3> QED
      BY <1>6, <2>1, <3>1
  <2>3. f \in Blocks /\ f + n - 1 <= HeapBlocks
    <3>1. Fits(n) \subseteq Nat
      BY <2>1 DEF Fits, Blocks
    <3>2. f \in Fits(n)
      BY <1>7, <1>9, <3>1, MinIsMember
    <3> QED
      BY <3>2 DEF Fits
  <2>4. PICK e : e = f + n - 1
    OBVIOUS
  <2>5. f \in Nat /\ f >= 1 /\ e \in Blocks /\ e \in Nat /\ n <= HeapBlocks
    BY <2>1, <2>2, <2>3, <2>4 DEF Blocks
  <2>6. PICK s : s = Lists(f, k)
    OBVIOUS
  <2>7. /\ RowsFit(s) /\ UNION {On(Row(g)) : g \in s} = f..e /\ IsFiniteSet(s) /\ Cardinality(s) = k
    BY <1>6, <2>1, <2>3, <2>4, <2>6, RegionRows
  <2>8. s \subseteq Blocks
    BY <2>7 DEF RowsFit
  <2>9. /\ global' \in Seq(Blocks) /\ Len(global') = k /\ On(global') = s
        /\ \A i, j \in 1..Len(global') : global'[i] = global'[j] => i = j
    <3>1. global' \in SetToSeqs(s)
      BY <1>9, <2>6
    <3> QED
      BY <2>7, <2>8, <3>1, OrdersOfSet
  <2>10. next' \in Links /\ \A g \in s : IsList(next', g, Row(g))
    <3>1. next \in Links
      BY <1>1 DEF TypeOK, Links
    <3> QED
      BY <1>9, <2>6, <2>7, <3>1, LinkedRows
  <2>11. Memory' = f..e /\ Cardinality(Memory') = n
    <3> DEFINE new == [first |-> f, last |-> e]
    <3>1. regions' = {new} /\ new.first..new.last = f..e
      BY <1>9, <2>4
    <3>2. Memory' = f..e
      <4> HIDE DEF new
      <4> QED
        BY <3>1 DEF Memory
    <3>3. Cardinality(f..e) = IF f > e THEN 0 ELSE e - f + 1
      BY <2>5, FS_Interval
    <3> QED
      BY <2>2, <2>4, <2>5, <3>2, <3>3
  <2>12. peak' \in Peaks /\ peak'.first = n /\ peak'.reserved = 0 /\ peak'.used = 0
    BY <1>9, <2>2 DEF Peaks
  <2>13. \A v \in Workers : Resting(v)'
    BY <1>2, <1>3, <1>9 DEF Resting
  <2>14. /\ Total(claim') = 0 /\ Total(need') = 0 /\ Total(reserving') = 0
         /\ \A v \in Workers : hands'[v] = {} /\ Control(v)'
    BY <2>13, RestingSharesThen
  <2>15. TypeOK'
    <3>1. EmptyList \in [sz : 0..(2 * ListLength), head : Blocks \cup {Null}, mid : Blocks \cup {Null}]
      BY <2>1 DEF EmptyList
    <3>2. local' \in [Workers -> [sz : 0..(2 * ListLength), head : Blocks \cup {Null}, mid : Blocks \cup {Null}]]
      BY <1>9, <3>1
    <3>3. blocks_allocated' \in 0..HeapBlocks /\ pool_roots' \in Seq(Blocks)
      BY <1>9, <2>1, <2>2, <2>3, <2>5
    <3>4. regions' \subseteq [first : Blocks, last : Blocks]
      BY <1>9, <2>3, <2>4, <2>5
    <3> QED
      BY <1>1, <1>2, <1>9, <2>9, <2>10, <2>12, <3>2, <3>3, <3>4 DEF TypeOK, Links, Peaks
  <2>16. BlocksPlaced'
    <3>1. \A v \in Workers : local'[v] = EmptyList /\ left'[v] = {} /\ hands'[v] = {}
      BY <2>13, <2>14 DEF Resting
    <3>2. Memory' = UNION {On(Row(g)) : g \in On(global')}
      BY <2>7, <2>9, <2>11
    <3>3. RowsFit(On(global')) /\ \A g \in On(global') : IsList(next', g, Row(g))
      BY <2>7, <2>9, <2>10
    <3>4. Owned(next', global', local', left', hands', {}, Memory')
      BY <2>9, <3>1, <3>2, <3>3, StartOwned
    <3> QED
      BY <1>2, <1>3, <3>4 DEF BlocksPlaced
  <2>17. Counted'
    <3>1. stock' = n
      BY <1>6, <2>9 DEF stock
    <3>2. Cardinality(used') = 0
      BY <1>2, <1>3, FS_EmptySet
    <3>3. Bound(peak') \in Nat /\ Bound(peak') >= n + 0
      BY <2>12, BoundAtLeast
    <3> QED
      BY <1>9, <2>2, <2>11, <2>12, <2>14, <3>1, <3>2, <3>3 DEF Counted
  <2>18. Rooted'
    <3>1. f \in On(<<f>>)
      BY DEF On
    <3>2. \A r \in regions' : r.first = f
      BY <1>9
    <3> QED
      BY <1>9, <3>1, <3>2 DEF Rooted
  <2>19. Unused'
    BY <1>2 DEF Unused
  <2> QED
    BY <2>14, <2>15, <2>16, <2>17, <2>18, <2>19 DEF AllocatorInv
<1> QED
  BY <1>4, <1>5, <1>6, <1>7, <1>8, <1>9

\* finish gives the memory of every root back: that is all of it.
LEMMA FinishKeeps ==
  ASSUME AllocatorAssumption, AllocatorInv, Finish
  PROVE  AllocatorInv'
<1>1. /\ TypeOK /\ (\A v \in Workers : Control(v)) /\ Rooted
  BY DEF AllocatorInv
<1>2. /\ initialized' = FALSE /\ UNCHANGED <<pc, lists, start, left, exited, peak>>
      /\ \A v \in Workers : pc[v] = "idle"
      /\ pool_roots' = <<>> /\ global' = <<>> /\ local' = [w \in Workers |-> EmptyList]
      /\ blocks_allocated' = 0 /\ next' = [b \in Blocks |-> Null] /\ used' = {}
      /\ regions' = {r \in regions : r.first \notin Range(pool_roots)}
  BY DEF Finish, Quiet, locals
<1>3. regions' = {} /\ Memory' = {}
  <2>1. \A r \in regions : r.first \in On(pool_roots)
    BY <1>1, <1>2 DEF Rooted
  <2>2. On(pool_roots) = Range(pool_roots)
    BY <1>1, OnIsRange DEF TypeOK
  <2>3. regions' = {}
    BY <1>2, <2>1, <2>2
  <2> QED
    BY <2>3 DEF Memory
<1>4. \A v \in Workers : Resting(v)'
  BY <1>1, <1>2 DEF Resting, Control
<1>5. /\ Total(claim') = 0 /\ Total(need') = 0 /\ Total(reserving') = 0
      /\ \A v \in Workers : hands'[v] = {} /\ Control(v)'
  BY <1>4, RestingSharesThen
<1>6. ListLength \in Nat /\ HeapBlocks \in Nat
  BY DEF AllocatorAssumption
<1>7. TypeOK'
  <2>1. EmptyList \in [sz : 0..(2 * ListLength), head : Blocks \cup {Null}, mid : Blocks \cup {Null}]
    BY <1>6 DEF EmptyList
  <2>2. local' \in [Workers -> [sz : 0..(2 * ListLength), head : Blocks \cup {Null}, mid : Blocks \cup {Null}]]
    BY <1>2, <2>1
  <2>3. /\ global' \in Seq(Blocks) /\ pool_roots' \in Seq(Blocks) /\ blocks_allocated' \in 0..HeapBlocks
        /\ next' \in [Blocks -> Blocks \cup {Null}]
    BY <1>2, <1>6
  <2> QED
    BY <1>1, <1>2, <1>3, <2>2, <2>3 DEF TypeOK
<1>8. BlocksPlaced'
  <2>1. \A v \in Workers : local'[v] = EmptyList /\ left'[v] = {} /\ hands'[v] = {}
    BY <1>4, <1>5 DEF Resting
  <2>2. Owned(next', <<>>, local', left', hands', {}, {})
    BY <2>1, NothingOwned
  <2> QED
    BY <1>2, <1>3, <2>2 DEF BlocksPlaced
<1>9. Counted'
  <2>1. stock' = 0
    BY <1>2, <1>6 DEF stock
  <2>2. Cardinality(Memory') = 0 /\ Cardinality(used') = 0
    BY <1>2, <1>3, FS_EmptySet
  <2>3. peak' \in Peaks
    BY <1>7 DEF TypeOK, Peaks
  <2>4. Bound(peak') \in Nat /\ peak'.reserved \in Nat /\ peak'.used \in Nat
    BY <2>3, BoundAtLeast DEF Peaks
  <2> QED
    BY <1>2, <1>5, <2>1, <2>2, <2>4 DEF Counted
<1>10. Rooted' /\ Unused'
  BY <1>2, <1>3, <1>4 DEF Rooted, Unused, Resting
<1> QED
  BY <1>5, <1>7, <1>8, <1>9, <1>10 DEF AllocatorInv

\* The invariant holds always.
LEMMA AllocatorInvariance == ASSUME AllocatorAssumption PROVE Spec => []AllocatorInv
<1>1. Init => AllocatorInv
  BY InitRight
<1>2. AllocatorInv /\ [Next]_vars => AllocatorInv'
  <2> SUFFICES ASSUME AllocatorInv, [Next]_vars PROVE AllocatorInv'
    OBVIOUS
  <2>1. CASE Initialize
    BY <2>1, InitializeKeeps
  <2>2. CASE Finish
    BY <2>2, FinishKeeps
  <2>3. CASE UNCHANGED vars
    <3>1. UNCHANGED <<next, global, pool_roots, local, blocks_allocated, pc, lists, start, left, regions, used, peak>>
      BY <2>3 DEF vars, stacks, locals
    <3>2. exited' \in BOOLEAN /\ initialized' \in BOOLEAN /\ (initialized => initialized')
      BY <2>3 DEF vars, AllocatorInv, TypeOK
    <3> QED
      BY <3>1, <3>2, FlagsKeep
  <2>4. ASSUME NEW w \in Workers, Step(w) PROVE AllocatorInv'
    <3>1. CASE Refill(w)
      BY <3>1, RefillKeeps
    <3>2. CASE AllocLocal(w)
      BY <3>2, AllocLocalKeeps
    <3>3. ASSUME NEW b \in Blocks, Free(w, b) PROVE AllocatorInv'
      BY <3>3, FreeKeeps
    <3>4. CASE Reserve(w)
      BY <3>4, ReserveKeeps
    <3>5. CASE Grow(w)
      BY <3>5, GrowKeeps
    <3>6. CASE Test(w)
      BY <3>6, TestKeeps
    <3>7. CASE PushRoot(w)
      BY <3>7, PushRootKeeps
    <3>8. CASE PushList(w)
      BY <3>8, PushListKeeps
    <3> QED
      BY <2>4, <3>1, <3>2, <3>3, <3>4, <3>5, <3>6, <3>7, <3>8 DEF Step
  <2> QED
    BY <2>1, <2>2, <2>3, <2>4 DEF Next, Exited
<1> QED
  BY <1>1, <1>2, PTL DEF Spec

-----------------------------------------------------------------------------
(* What the invariant gives.                                               *)

\* Where a block of the given kind, level and owner is.
Here(p, kind, level, owner, b) ==
  /\ kind[b] = p[1]
  /\ p[1] = "global" => level[b] = Len(global) - p[2] + 1
  /\ p[1] \in {"local", "hand"} => owner[b] = p[2]

\* A block is at the place its kind, level and owner name.
LEMMA PlacesOfBlocks ==
  ASSUME AllocatorAssumption, TypeOK, \A w \in Workers : Control(w),
         NEW G, NEW L, NEW kind, NEW level, NEW owner,
         ListsRight(next, global, local, left, hands, G, L),
         InPlace(global, hands, used, Memory, G, L, kind, level, owner)
  PROVE  /\ \A k \in DOMAIN global : /\ Len(global) - k + 1 \in 1..Len(global)
                                     /\ Chain(global[k]) = G[Len(global) - k + 1]
         /\ \A w \in Workers : Chain(local[w].head) = L[w]
         /\ \A p \in Places : /\ BlocksAt(p) \subseteq Blocks
                              /\ \A b \in Blocks : b \in BlocksAt(p) <=> Here(p, kind, level, owner, b)
<1>1. global \in Seq(Blocks) /\ Len(global) \in Nat /\ DOMAIN global = 1..Len(global) /\ used \subseteq Blocks
  BY DEF TypeOK
<1>2. ASSUME NEW k \in DOMAIN global
      PROVE  /\ Len(global) - k + 1 \in 1..Len(global) /\ Chain(global[k]) = G[Len(global) - k + 1]
             /\ G[Len(global) - k + 1] \in Seq(Blocks)
  <2>1. PICK j : j = Len(global) - k + 1
    OBVIOUS
  <2>2. j \in 1..Len(global) /\ Len(global) - j + 1 = k
    BY <1>1, <2>1
  <2>3. IsList(next, global[k], G[j])
    BY <2>2 DEF ListsRight, Level
  <2>4. Below(next, global[k]) = G[j]
    BY <2>3, BelowIsList
  <2>5. G[j] \in Seq(Blocks)
    BY <2>3 DEF IsList
  <2> QED
    BY <2>1, <2>2, <2>4, <2>5 DEF Chain
<1>3. ASSUME NEW w \in Workers PROVE Chain(local[w].head) = L[w] /\ L[w] \in Seq(Blocks)
  <2>1. IsList(next, local[w].head, L[w])
    BY DEF ListsRight
  <2>2. Below(next, local[w].head) = L[w]
    BY <2>1, BelowIsList
  <2> QED
    BY <2>1, <2>2 DEF Chain, IsList
<1>4. ASSUME NEW w \in Workers PROVE InHand(w) = hands[w]
  <2>1. CASE pc[w] \in {"test", "root"}
    BY <2>1 DEF InHand, Hand, hands
  <2>2. CASE pc[w] \notin {"test", "root"}
    <3>1. ASSUME NEW f \in left[w] PROVE Range(Chain(f)) = On(Row(f))
      <4>1. IsList(next, f, Row(f))
        BY DEF ListsRight
      <4>2. Chain(f) = Row(f) /\ Row(f) \in Seq(Blocks)
        BY <4>1, BelowIsList DEF Chain, IsList
      <4> QED
        BY <4>2, OnIsRange
    <3>2. UNION {Range(Chain(f)) : f \in left[w]} = UNION {On(Row(f)) : f \in left[w]}
      BY <3>1
    <3> QED
      BY <2>2, <3>2 DEF InHand, Hand, hands
  <2> QED
    BY <2>1, <2>2
<1>5. ASSUME NEW p \in Places
      PROVE  /\ BlocksAt(p) \subseteq Blocks
             /\ \A b \in Blocks : b \in BlocksAt(p) <=> Here(p, kind, level, owner, b)
  <2>1. CASE p = <<"program", 0>>
    <3>1. BlocksAt(p) = used
      BY <2>1 DEF BlocksAt
    <3>2. \A b \in Blocks : b \in used <=> kind[b] = "program"
      BY DEF InPlace
    <3> QED
      BY <1>1, <2>1, <3>1, <3>2 DEF Here
  <2>2. ASSUME NEW k \in DOMAIN global, p = <<"global", k>>
        PROVE  /\ BlocksAt(p) \subseteq Blocks
               /\ \A b \in Blocks : b \in BlocksAt(p) <=> Here(p, kind, level, owner, b)
    <3>1. PICK j : j = Len(global) - k + 1
      OBVIOUS
    <3>2. BlocksAt(p) = On(G[j])
      <4>1. BlocksAt(p) = Range(Chain(global[k]))
        BY <2>2 DEF BlocksAt
      <4>2. Chain(global[k]) = G[j] /\ G[j] \in Seq(Blocks)
        BY <1>2, <3>1
      <4> QED
        BY <4>1, <4>2, OnIsRange
    <3>3. \A b \in Blocks : b \in On(G[j]) <=> kind[b] = "global" /\ level[b] = j
      BY <1>2, <3>1 DEF InPlace
    <3>4. On(G[j]) \subseteq Blocks
      <4>1. G[j] \in Seq(Blocks)
        BY <1>2, <3>1
      <4> QED
        BY <4>1 DEF On
    <3> QED
      BY <2>2, <3>1, <3>2, <3>3, <3>4 DEF Here
  <2>3. ASSUME NEW w \in Workers, p = <<"local", w>>
        PROVE  /\ BlocksAt(p) \subseteq Blocks
               /\ \A b \in Blocks : b \in BlocksAt(p) <=> Here(p, kind, level, owner, b)
    <3>1. BlocksAt(p) = On(L[w])
      <4>1. BlocksAt(p) = Range(Chain(local[w].head))
        BY <2>3 DEF BlocksAt
      <4> QED
        BY <1>3, <4>1, OnIsRange
    <3>2. \A b \in Blocks : b \in On(L[w]) <=> kind[b] = "local" /\ owner[b] = w
      BY DEF InPlace
    <3>3. On(L[w]) \subseteq Blocks
      BY <1>3 DEF On
    <3> QED
      BY <2>3, <3>1, <3>2, <3>3 DEF Here
  <2>4. ASSUME NEW w \in Workers, p = <<"hand", w>>
        PROVE  /\ BlocksAt(p) \subseteq Blocks
               /\ \A b \in Blocks : b \in BlocksAt(p) <=> Here(p, kind, level, owner, b)
    <3>1. BlocksAt(p) = hands[w]
      <4>1. BlocksAt(p) = InHand(w)
        BY <2>4 DEF BlocksAt
      <4> QED
        BY <1>4, <4>1
    <3>2. \A b \in Blocks : b \in hands[w] <=> kind[b] = "hand" /\ owner[b] = w
      BY DEF InPlace
    <3>3. hands[w] \subseteq Blocks
      <4>1. CASE pc[w] \in {"test", "root"}
        <5>1. start[w] \in 1..HeapBlocks /\ start[w] + num_blocks(w) - 1 \in 1..HeapBlocks /\ HeapBlocks \in Nat
          BY <4>1 DEF Control, Blocks, AllocatorAssumption
        <5>2. hands[w] = start[w]..(start[w] + num_blocks(w) - 1)
          BY <4>1 DEF hands, Hand
        <5> QED
          BY <5>1, <5>2 DEF Blocks
      <4>2. CASE pc[w] \notin {"test", "root"}
        <5>1. \A f \in left[w] : Row(f) \in Seq(Blocks)
          BY DEF ListsRight, IsList
        <5>2. \A f \in left[w] : On(Row(f)) \subseteq Blocks
          BY <5>1 DEF On
        <5>3. hands[w] = UNION {On(Row(f)) : f \in left[w]}
          BY <4>2 DEF hands, Hand
        <5> QED
          BY <5>2, <5>3
      <4> QED
        BY <4>1, <4>2
    <3> QED
      BY <2>4, <3>1, <3>2, <3>3 DEF Here
  <2> QED
    BY <2>1, <2>2, <2>3, <2>4 DEF Places
<1> QED
  BY <1>2, <1>3, <1>5

\* Every block of the memory is in one place.
LEMMA AccountedBlocks == ASSUME AllocatorAssumption, AllocatorInv PROVE BlocksAccounted /\ ListsHaveLength
<1>1. TypeOK /\ BlocksPlaced /\ \A w \in Workers : Control(w)
  BY DEF AllocatorInv
<1>2. PICK G, L, kind, level, owner :
        /\ ListsRight(next, global, local, left, hands, G, L)
        /\ InPlace(global, hands, used, Memory, G, L, kind, level, owner)
  BY <1>1 DEF BlocksPlaced, Owned
<1> DEFINE n == Len(global)
<1>3. /\ \A k \in DOMAIN global : n - k + 1 \in 1..n /\ Chain(global[k]) = G[n - k + 1]
      /\ \A w \in Workers : Chain(local[w].head) = L[w]
      /\ \A p \in Places : /\ BlocksAt(p) \subseteq Blocks
                           /\ \A b \in Blocks : b \in BlocksAt(p) <=> Here(p, kind, level, owner, b)
  BY <1>1, <1>2, PlacesOfBlocks
<1>4. n \in Nat /\ DOMAIN global = 1..n
  BY <1>1 DEF TypeOK
<1>5. /\ \A j \in 1..n : Len(G[j]) = ListLength /\ IsInjective(G[j])
      /\ \A w \in Workers : Len(L[w]) = local[w].sz /\ IsInjective(L[w])
  <2>1. ASSUME NEW m, NEW c, IsList(next, m, c) PROVE IsInjective(c)
    BY <2>1 DEF IsList, IsInjective
  <2>2. /\ \A j \in 1..n : IsList(next, Level(global, j), G[j]) /\ Len(G[j]) = ListLength
        /\ \A w \in Workers : IsList(next, local[w].head, L[w]) /\ Len(L[w]) = local[w].sz
    BY <1>2 DEF ListsRight
  <2> QED
    BY <2>1, <2>2
<1>6. ListsHaveLength
  BY <1>3, <1>5 DEF ListsHaveLength
<1>7. (\A k \in DOMAIN global : IsInjective(Chain(global[k]))) /\ \A w \in Workers : IsInjective(Chain(local[w].head))
  BY <1>3, <1>5
<1>8. ASSUME NEW p \in Places, NEW q \in Places, NEW b \in BlocksAt(p) \cap BlocksAt(q) PROVE p = q
  <2>1. Here(p, kind, level, owner, b) /\ Here(q, kind, level, owner, b)
    BY <1>3
  <2>2. p[1] = q[1] /\ p = <<p[1], p[2]>> /\ q = <<q[1], q[2]>>
    <3>1. \A r \in Places : r = <<r[1], r[2]>>
      <4>1. ASSUME NEW x, NEW y PROVE <<x, y>> = <<<<x, y>>[1], <<x, y>>[2]>>
        OBVIOUS
      <4>2. ASSUME NEW r \in Places PROVE \E x, y : r = <<x, y>>
        BY Zenon DEF Places
      <4> QED
        BY <4>1, <4>2
    <3>2. p[1] = q[1]
      BY <2>1 DEF Here
    <3> QED
      BY <3>1, <3>2
  <2>3. CASE p[1] = "program"
    BY <2>2, <2>3 DEF Places
  <2>4. CASE p[1] = "global"
    <3>1. p[2] \in 1..n /\ q[2] \in 1..n
      BY <1>4, <2>2, <2>4 DEF Places
    <3>2. n - p[2] + 1 = n - q[2] + 1
      BY <2>1, <2>2, <2>4 DEF Here
    <3>3. p[2] = q[2]
      BY <1>4, <3>1, <3>2
    <3> QED
      BY <2>2, <3>3
  <2>5. CASE p[1] \in {"local", "hand"}
    <3>1. p[2] = q[2]
      BY <2>1, <2>2, <2>5 DEF Here
    <3> QED
      BY <2>2, <3>1
  <2> QED
    BY <2>3, <2>4, <2>5 DEF Places
<1>9. UNION {BlocksAt(p) : p \in Places} = Memory
  <2>1. ASSUME NEW p \in Places, NEW b \in BlocksAt(p) PROVE b \in Memory
    <3>1. b \in Blocks /\ kind[b] = p[1]
      BY <1>3 DEF Here
    <3>2. p[1] # "none"
      BY DEF Places
    <3> QED
      BY <1>2, <3>1, <3>2 DEF InPlace
  <2>2. ASSUME NEW b \in Memory PROVE \E p \in Places : b \in BlocksAt(p)
    <3>1. b \in Blocks
      <4>1. \A r \in regions : r.first..r.last \subseteq Blocks
        <5>1. \A r \in regions : r.first \in 1..HeapBlocks /\ r.last \in 1..HeapBlocks
          BY <1>1 DEF TypeOK, Blocks
        <5>2. HeapBlocks \in Nat
          BY DEF AllocatorAssumption
        <5> QED
          BY <5>1, <5>2 DEF Blocks
      <4> QED
        BY <4>1 DEF Memory
    <3>2. kind[b] \in {"program", "global", "local", "hand"} /\ owner[b] \in Workers
      BY <1>2, <3>1 DEF InPlace, Kinds
    <3>3. CASE kind[b] = "program"
      <4>1. <<"program", 0>> \in Places
        BY DEF Places
      <4>2. Here(<<"program", 0>>, kind, level, owner, b)
        BY <3>3 DEF Here
      <4> QED
        BY <1>3, <3>1, <4>1, <4>2
    <3>4. CASE kind[b] = "global"
      <4>1. PICK k : k = n - level[b] + 1
        OBVIOUS
      <4>2. k \in 1..n /\ level[b] = n - k + 1
        <5>1. level[b] \in 1..n
          BY <1>2, <3>1, <3>4 DEF InPlace
        <5> QED
          BY <1>4, <4>1, <5>1
      <4>3. <<"global", k>> \in Places
        BY <1>4, <4>2 DEF Places
      <4>4. Here(<<"global", k>>, kind, level, owner, b)
        BY <3>4, <4>2 DEF Here
      <4> QED
        BY <1>3, <3>1, <4>3, <4>4
    <3>5. CASE kind[b] \in {"local", "hand"}
      <4>1. <<kind[b], owner[b]>> \in Places
        BY <3>2, <3>5 DEF Places
      <4>2. Here(<<kind[b], owner[b]>>, kind, level, owner, b)
        BY <3>5 DEF Here
      <4> QED
        BY <1>3, <3>1, <4>1, <4>2
    <3> QED
      BY <3>2, <3>3, <3>4, <3>5
  <2> QED
    BY <2>1, <2>2
<1>10. BlocksAccounted
  <2>1. \A p, q \in Places : p # q => BlocksAt(p) \cap BlocksAt(q) = {}
    BY <1>8
  <2>2. UNION {BlocksAt(p) : p \in Places} = UNION {r.first..r.last : r \in regions}
    BY <1>9 DEF Memory
  <2> QED
    BY <1>7, <2>1, <2>2 DEF BlocksAccounted
<1> QED
  BY <1>6, <1>10

\* The counts follow the blocks.
LEMMA CountedBlocks == ASSUME AllocatorAssumption, AllocatorInv PROVE NumUsedRight /\ MemoryBounded
<1>1. TypeOK /\ Counted /\ \A w \in Workers : Control(w)
  BY DEF AllocatorInv
<1>2. /\ blocks_allocated \in Nat /\ Cardinality(used) \in Nat /\ stock \in Nat
      /\ Total(claim) \in Nat /\ Total(need) \in Nat /\ Bound(peak) \in Nat
  <2>1. HeapBlocks \in Nat /\ ListLength \in Nat /\ global \in Seq(Blocks) /\ used \subseteq Blocks /\ peak \in Peaks
    BY <1>1 DEF AllocatorAssumption, TypeOK, Peaks
  <2>2. blocks_allocated \in Nat
    BY <1>1, <2>1 DEF TypeOK
  <2>3. Cardinality(used) \in Nat
    BY <2>1, BlockSets
  <2>4. stock \in Nat
    BY <2>1 DEF stock
  <2>5. Total(claim) \in Nat /\ Total(need) \in Nat
    BY <1>1, ShareTypes, TotalIsNatural
  <2> QED
    BY <2>1, <2>2, <2>3, <2>4, <2>5, BoundAtLeast
<1>3. /\ blocks_allocated + Total(need) = Cardinality(used) + stock + Total(claim)
      /\ blocks_allocated + Total(need) <= Bound(peak)
  BY <1>1 DEF Counted
<1>4. NumUsedRight
  <2> SUFFICES ASSUME Quiet PROVE num_used_blocks = Cardinality(used)
    BY DEF NumUsedRight
  <2> DEFINE sizes == [w \in Workers |-> local[w].sz]
  <2>1. \A w \in Workers : need[w] = 0 /\ claim[w] = local[w].sz
    BY <1>1, IdleShares DEF Quiet
  <2>2. Total(need) = 0
    BY <1>1, <2>1, ShareTypes, TotalZero
  <2>3. claim = sizes
    <3>1. claim = [w \in Workers |-> claim[w]]
      BY DEF claim
    <3> QED
      BY <2>1, <3>1
  <2>4. num_used_blocks = blocks_allocated - (Len(global) * ListLength + Total(sizes))
    BY DEF num_used_blocks, Total, MapThenSumSet, MapThenFoldSet
  <2>5. num_used_blocks = blocks_allocated - (stock + Total(claim))
    <3> HIDE DEF sizes
    <3> QED
      BY <2>3, <2>4 DEF stock
  <2> QED
    BY <1>2, <1>3, <2>2, <2>5
<1>5. MemoryBounded
  BY <1>2, <1>3 DEF MemoryBounded, Bound
<1> QED
  BY <1>4, <1>5

\* list_allocator in any schedule: every block of its memory is in one place, the lists
\* that workers exchange have their length, num_used_blocks counts the blocks the program
\* holds, memory is taken only when it is needed, and finish gives all of it back.
THEOREM AllocatorStaysRight == ASSUME AllocatorAssumption PROVE Spec => []BlocksRight
<1>1. AllocatorInv => BlocksRight
  <2> SUFFICES ASSUME AllocatorInv PROVE BlocksRight
    OBVIOUS
  <2>1. TypeOK /\ FinishFreesAll
    BY DEF AllocatorInv, Unused, FinishFreesAll
  <2> QED
    BY <2>1, AccountedBlocks, CountedBlocks DEF BlocksRight
<1> QED
  BY <1>1, AllocatorInvariance, PTL

-----------------------------------------------------------------------------
(* Buckets: positions.                                                     *)

Pos(inc, x) == IF inc THEN x ELSE -x - 1
Base(inc, r) == IF inc THEN r * open_buckets ELSE -(r * open_buckets)
\* The bucket of position p in the range whose base is b.
Slot(b, p) ==
  IF p < b THEN null_bkt ELSE IF p < b + open_buckets THEN p - b ELSE open_buckets
-----------------------------------------------------------------------------
(* Arithmetic.                                                             *)

\* Multiplying by a positive number keeps the order.
LEMMA Monotone ==
  ASSUME NEW a \in Int, NEW b \in Int, NEW n \in Nat, a <= b
  PROVE  a * n <= b * n
<1>1. PICK k \in Nat : b = a + k
  <2>1. b - a \in Nat /\ b = a + (b - a)
    OBVIOUS
  <2> QED
    BY <2>1
<1>2. k * n \in Nat /\ (a + k) * n = a * n + k * n
  OBVIOUS
<1> QED
  BY <1>1, <1>2

\* Quotient and remainder.
LEMMA DivMod ==
  ASSUME NEW x \in Nat, NEW n \in Nat \ {0}
  PROVE  /\ x \div n \in Nat /\ x % n \in 0..(n - 1)
         /\ x = (x \div n) * n + (x % n)
  OBVIOUS

\* The multiple of n at or before x, and the one after it.
LEMMA Quotient ==
  ASSUME NEW x \in Nat, NEW n \in Nat \ {0}
  PROVE  /\ x \div n \in Nat /\ (x \div n) * n \in Nat
         /\ (x \div n) * n <= x /\ x < (x \div n) * n + n
<1> DEFINE q == x \div n
           t == q * n
<1>1. q \in Nat /\ x % n \in 0..(n - 1) /\ x = t + (x % n)
  BY DivMod
<1>2. t \in Nat
  <2> HIDE DEF q
  <2> QED
    BY <1>1
<1>3. t <= x /\ x < t + n
  <2> HIDE DEF t, q
  <2> QED
    BY <1>1, <1>2
<1> QED
  BY <1>1, <1>2, <1>3

\* The multiple of n at or before x tells the remainder and the quotient.
LEMMA Remainder ==
  ASSUME NEW x \in Nat, NEW n \in Nat \ {0}, NEW r \in Int,
         r * n <= x, x < r * n + n
  PROVE  x % n = x - r * n /\ x \div n = r
<1> DEFINE q == x \div n
<1>1. q \in Nat /\ x % n \in 0..(n - 1) /\ x = q * n + (x % n)
  BY DivMod
<1> HIDE DEF q
<1>2. ~(q <= r - 1)
  <2> SUFFICES ASSUME q <= r - 1 PROVE FALSE
    OBVIOUS
  <2>1. q * n <= (r - 1) * n
    BY <1>1, Monotone
  <2>2. (r - 1) * n = r * n - n
    OBVIOUS
  <2> QED
    BY <1>1, <2>1, <2>2
<1>3. ~(r + 1 <= q)
  <2> SUFFICES ASSUME r + 1 <= q PROVE FALSE
    OBVIOUS
  <2>1. (r + 1) * n <= q * n
    BY <1>1, Monotone
  <2>2. (r + 1) * n = r * n + n
    OBVIOUS
  <2> QED
    BY <1>1, <2>1, <2>2
<1>4. q = r
  BY <1>1, <1>2, <1>3
<1> QED
  BY <1>1, <1>4 DEF q

\* A sharper order: multiples that are less than n apart.
LEMMA Cancel ==
  ASSUME NEW a \in Int, NEW b \in Int, NEW n \in Nat \ {0}, a * n < b * n + n
  PROVE  a <= b
<1> SUFFICES ASSUME b + 1 <= a PROVE FALSE
  OBVIOUS
<1>1. (b + 1) * n <= a * n
  BY Monotone
<1>2. (b + 1) * n = b * n + n
  OBVIOUS
<1> QED
  BY <1>1, <1>2

\* A set of naturals that is not empty has a least element.
LEMMA LeastIs ==
  ASSUME NEW S, S \subseteq Nat, S # {}
  PROVE  Least(S) \in S /\ \A k \in S : Least(S) <= k
<1> DEFINE R == OpToRel(<, Nat)
<1>1. IsWellFoundedOn(R, Nat)
  BY NatLessThanWellFounded
<1>2. \A k, m \in Nat : m < k => <<m, k>> \in R
  BY DEF OpToRel
<1> HIDE DEF R
<1>3. PICK m \in S : \A k \in S : ~(<<k, m>> \in R)
  BY <1>1, WFMin
<1>4. ASSUME NEW k \in S PROVE m <= k
  <2>1. k \in Nat /\ m \in Nat
    OBVIOUS
  <2>2. ~(<<k, m>> \in R)
    BY <1>3
  <2>3. ~(k < m)
    BY <1>2, <2>1, <2>2, Zenon
  <2> QED
    BY <2>1, <2>3
<1> QED
  BY <1>4 DEF Least

\* A set of priorities that is not empty has a greatest element.
LEMMA GreatestIs ==
  ASSUME NEW n \in Nat, NEW S, S \subseteq 0..n, S # {}
  PROVE  Greatest(S) \in S /\ \A k \in S : k <= Greatest(S)
<1> DEFINE T == {n - k : k \in S}
<1>1. T \subseteq Nat /\ T # {}
  <2>1. \A k \in S : n - k \in Nat
    OBVIOUS
  <2>2. PICK k \in S : TRUE
    OBVIOUS
  <2>3. n - k \in T
    OBVIOUS
  <2>4. \A t \in T : \E j \in S : t = n - j
    OBVIOUS
  <2> HIDE DEF T
  <2> QED
    BY <2>1, <2>3, <2>4
<1>2. Least(T) \in T /\ \A t \in T : Least(T) <= t
  BY <1>1, LeastIs
<1>3. PICK m \in S : Least(T) = n - m
  BY <1>2
<1>4. \A k \in S : n - k \in T
  BY Zenon
<1> HIDE DEF T
<1>5. ASSUME NEW k \in S PROVE k <= m
  <2>1. n - m <= n - k
    BY <1>2, <1>3, <1>4
  <2>2. k \in Nat /\ m \in Nat
    OBVIOUS
  <2> QED
    BY <2>1, <2>2
<1> QED
  BY <1>5 DEF Greatest
-----------------------------------------------------------------------------
(* Ranges and positions.                                                   *)

\* to_range: with increasing priorities.
LEMMA RangeUp ==
  ASSUME NEW x \in Nat, NEW r \in Nat, BucketsAssumption
  PROVE  (IF x < r * open_buckets THEN null_bkt
          ELSE IF x < (r + 1) * open_buckets THEN x % open_buckets ELSE open_buckets)
         = Slot(Base(TRUE, r), Pos(TRUE, x))
<1>1. open_buckets \in Nat \ {0}
  BY DEF BucketsAssumption
<1>2. r * open_buckets \in Nat /\ (r + 1) * open_buckets = r * open_buckets + open_buckets
  BY <1>1
<1>3. r * open_buckets <= x /\ x < (r + 1) * open_buckets
        => x % open_buckets = x - r * open_buckets
  <2> SUFFICES ASSUME r * open_buckets <= x, x < (r + 1) * open_buckets
               PROVE  x % open_buckets = x - r * open_buckets
    OBVIOUS
  <2>1. r \in Int /\ x < r * open_buckets + open_buckets
    BY <1>2
  <2> QED
    BY <1>1, <2>1, Remainder
<1> QED
  BY <1>1, <1>2, <1>3 DEF Slot, Base, Pos

\* to_range: with decreasing priorities.
LEMMA RangeDown ==
  ASSUME NEW x \in Nat, NEW r \in Nat \ {0}, BucketsAssumption
  PROVE  (IF x >= r * open_buckets THEN null_bkt
          ELSE IF x >= (r - 1) * open_buckets
          THEN (open_buckets - (x % open_buckets)) - 1 ELSE open_buckets)
         = Slot(Base(FALSE, r), Pos(FALSE, x))
<1>1. open_buckets \in Nat \ {0}
  BY DEF BucketsAssumption
<1>2. r * open_buckets \in Nat /\ (r - 1) * open_buckets = r * open_buckets - open_buckets
  BY <1>1
<1>3. (r - 1) * open_buckets <= x /\ x < r * open_buckets
        => x % open_buckets = x - (r - 1) * open_buckets
  <2> SUFFICES ASSUME (r - 1) * open_buckets <= x, x < r * open_buckets
               PROVE  x % open_buckets = x - (r - 1) * open_buckets
    OBVIOUS
  <2>1. r - 1 \in Int /\ x < (r - 1) * open_buckets + open_buckets
    BY <1>1, <1>2
  <2> QED
    BY <1>1, <2>1, Remainder
<1> DEFINE t == r * open_buckets
           s == (r - 1) * open_buckets
           m == x % open_buckets
<1>4. t \in Nat /\ s = t - open_buckets
  BY <1>2
<1>5. s <= x /\ x < t => m = x - s
  BY <1>3
<1> SUFFICES (IF x >= t THEN null_bkt
              ELSE IF x >= s THEN (open_buckets - m) - 1 ELSE open_buckets)
             = Slot(-t, -x - 1)
  BY DEF Base, Pos
<1> HIDE DEF t, s, m
<1> QED
  BY <1>1, <1>4, <1>5 DEF Slot

\* The base moves with the range, by open_buckets positions.
LEMMA BaseMoves ==
  ASSUME NEW r \in Int, BucketsAssumption
  PROVE  /\ Base(TRUE, r) \in Int /\ Base(FALSE, r) \in Int
         /\ Base(TRUE, r + 1) = Base(TRUE, r) + open_buckets
         /\ Base(FALSE, r - 1) = Base(FALSE, r) + open_buckets
<1>1. open_buckets \in Nat \ {0}
  BY DEF BucketsAssumption
<1>2. /\ r * open_buckets \in Int
      /\ (r + 1) * open_buckets = r * open_buckets + open_buckets
      /\ (r - 1) * open_buckets = r * open_buckets - open_buckets
  BY <1>1
<1> QED
  BY <1>1, <1>2 DEF Base

\* unpack, with increasing priorities: the range that the jump leaves is the one
\* before that of the least priority l, and not before the range r of the unpack.
LEMMA JumpUp ==
  ASSUME NEW r \in Nat, NEW l \in Nat, BucketsAssumption,
         Base(TRUE, r) + open_buckets <= Pos(TRUE, l)
  PROVE  LET q == l \div open_buckets - 1 IN
         /\ q \in Nat /\ r <= q /\ q < l
         /\ Base(TRUE, r) <= Base(TRUE, q)
         /\ Base(TRUE, q) + open_buckets <= Pos(TRUE, l)
<1>1. open_buckets \in Nat \ {0}
  BY DEF BucketsAssumption
<1> DEFINE q == l \div open_buckets
<1>2. q \in Nat /\ q * open_buckets <= l /\ l < q * open_buckets + open_buckets
  BY <1>1, DivMod
<1> HIDE DEF q
<1>3. r * open_buckets + open_buckets <= l
  BY DEF Base, Pos
<1>4. r + 1 <= q
  <2>1. (r + 1) * open_buckets = r * open_buckets + open_buckets /\ q * open_buckets \in Nat
    BY <1>1, <1>2
  <2>2. (r + 1) * open_buckets < q * open_buckets + open_buckets
    BY <1>1, <1>2, <1>3, <2>1
  <2> QED
    BY <1>1, <1>2, <2>2, Cancel
<1>5. r * open_buckets <= (q - 1) * open_buckets
  BY <1>1, <1>2, <1>4, Monotone
<1>6. (q - 1) * open_buckets = q * open_buckets - open_buckets
  BY <1>1, <1>2
<1>7. q <= l
  <2>1. q * 1 <= q * open_buckets
    BY <1>1, <1>2
  <2> QED
    BY <1>1, <1>2, <2>1
<1>8. /\ q - 1 \in Nat /\ r <= q - 1 /\ q - 1 < l
      /\ Base(TRUE, r) <= Base(TRUE, q - 1)
      /\ Base(TRUE, q - 1) + open_buckets <= Pos(TRUE, l)
  BY <1>1, <1>2, <1>4, <1>5, <1>6, <1>7 DEF Base, Pos
<1> QED
  BY <1>8 DEF q

\* The same with decreasing priorities.
LEMMA JumpDown ==
  ASSUME NEW r \in Nat, NEW l \in Nat, BucketsAssumption,
         Base(FALSE, r) + open_buckets <= Pos(FALSE, l)
  PROVE  LET q == (open_buckets + l) \div open_buckets + 1 IN
         /\ q \in Nat \ {0} /\ q <= r
         /\ Base(FALSE, r) <= Base(FALSE, q)
         /\ Base(FALSE, q) + open_buckets <= Pos(FALSE, l)
<1>1. open_buckets \in Nat \ {0}
  BY DEF BucketsAssumption
<1> DEFINE q == (open_buckets + l) \div open_buckets
<1>2. /\ q \in Nat /\ q * open_buckets <= open_buckets + l
      /\ open_buckets + l < q * open_buckets + open_buckets
  BY <1>1, Quotient
<1> HIDE DEF q
<1>3. l + 1 <= r * open_buckets - open_buckets /\ r * open_buckets \in Nat
  BY <1>1 DEF Base, Pos
<1>4. q * open_buckets \in Nat /\ (r - 1) * open_buckets = r * open_buckets - open_buckets
  BY <1>1, <1>2
<1>5. q <= r - 1
  <2>1. q * open_buckets < (r - 1) * open_buckets + open_buckets
    BY <1>1, <1>2, <1>3, <1>4
  <2> QED
    BY <1>1, <1>2, <2>1, Cancel
<1>6. (q + 1) * open_buckets <= r * open_buckets
  BY <1>1, <1>2, <1>5, Monotone
<1>7. (q + 1) * open_buckets = q * open_buckets + open_buckets
  BY <1>1, <1>2
<1>8. /\ q + 1 \in Nat \ {0} /\ q + 1 <= r
      /\ Base(FALSE, r) <= Base(FALSE, q + 1)
      /\ Base(FALSE, q + 1) + open_buckets <= Pos(FALSE, l)
  BY <1>1, <1>2, <1>3, <1>4, <1>5, <1>6, <1>7 DEF Base, Pos
<1> QED
  BY <1>8 DEF q
-----------------------------------------------------------------------------
(* Counting copies, when no bucket has two of the same identifier.         *)

Buckets01 == [0..open_buckets -> [Ids -> {0, 1}]]
Ones(f) == {i \in Ids : f[i] = 1}
\* The copies in all the buckets, and those of one bucket.
Cells(b) == {c \in (0..open_buckets) \X Ids : b[c[1]][c[2]] = 1}
CopyCount(b) == Cardinality(UNION {{k} \X Copies(b[k]) : k \in 0..open_buckets})

\* Sets in a one-to-one correspondence are as large.
LEMMA SameCount ==
  ASSUME NEW S, NEW T, IsFiniteSet(S), NEW f \in [S -> T],
         \A x, y \in S : f[x] = f[y] => x = y,
         \A t \in T : \E x \in S : f[x] = t
  PROVE  IsFiniteSet(T) /\ Cardinality(T) = Cardinality(S)
<1>1. f \in Bijection(S, T)
  BY Zenon DEF Bijection, Injection, Surjection, IsInjective
<1>2. ExistsBijection(S, T)
  BY <1>1 DEF ExistsBijection
<1> QED
  BY <1>2, FS_Bijection

\* A bag with at most one copy of each is as large as the set of those it has.
LEMMA SizeOn ==
  ASSUME NEW f \in [Ids -> {0, 1}], IsFiniteSet(Ids)
  PROVE  /\ Copies(f) = {<<i, 1>> : i \in Ones(f)}
         /\ IsFiniteSet(Ones(f)) /\ Size(f) = Cardinality(Ones(f))
<1>1. ASSUME NEW c PROVE c \in Copies(f) <=> \E i \in Ones(f) : c = <<i, 1>>
  <2>1. c \in Copies(f) <=> \E i \in Ids : \E j \in 1..f[i] : c = <<i, j>>
    BY DEF Copies
  <2>2. \A i \in Ids : 1..f[i] = IF f[i] = 1 THEN {1} ELSE {}
    <3> TAKE i \in Ids
    <3>1. CASE f[i] = 1
      <4>1. 1..1 = {1}
        OBVIOUS
      <4> QED
        BY <3>1, <4>1
    <3>2. CASE f[i] = 0
      <4>1. 1..0 = {}
        OBVIOUS
      <4> QED
        BY <3>2, <4>1
    <3> QED
      BY <3>1, <3>2
  <2> QED
    BY <2>1, <2>2 DEF Ones
<1>2. Copies(f) = {<<i, 1>> : i \in Ones(f)}
  BY <1>1
<1>3. IsFiniteSet(Ones(f))
  BY FS_Subset DEF Ones
<1> DEFINE g == [i \in Ones(f) |-> <<i, 1>>]
<1>4. /\ g \in [Ones(f) -> Copies(f)]
      /\ \A x, y \in Ones(f) : g[x] = g[y] => x = y
      /\ \A t \in Copies(f) : \E x \in Ones(f) : g[x] = t
  BY <1>2
<1> HIDE DEF g
<1> QED
  BY <1>2, <1>3, <1>4, SameCount DEF Size

\* The copies in all buckets are as many as the pairs of a bucket and an
\* identifier in it.
LEMMA TotalCells ==
  ASSUME NEW b \in Buckets01, IsFiniteSet(Ids), BucketsAssumption
  PROVE  IsFiniteSet(Cells(b)) /\ CopyCount(b) = Cardinality(Cells(b))
<1>1. open_buckets \in Nat
  BY DEF BucketsAssumption
<1>2. IsFiniteSet(0..open_buckets)
  BY <1>1, FS_Interval
<1>3. IsFiniteSet((0..open_buckets) \X Ids)
  BY <1>2, FS_Product
<1>4. IsFiniteSet(Cells(b))
  BY <1>3, FS_Subset DEF Cells
<1> DEFINE P == UNION {{k} \X Copies(b[k]) : k \in 0..open_buckets}
           g == [c \in Cells(b) |-> <<c[1], <<c[2], 1>>>>]
<1>5. \A k \in 0..open_buckets : b[k] \in [Ids -> {0, 1}]
  BY DEF Buckets01
<1>6. \A k \in 0..open_buckets : Copies(b[k]) = {<<i, 1>> : i \in Ones(b[k])}
  BY <1>5, SizeOn
<1>7. \A x : x \in P <=> \E k \in 0..open_buckets : \E y \in Copies(b[k]) : x = <<k, y>>
  OBVIOUS
<1>8. \A x : x \in P <=> \E k \in 0..open_buckets : \E i \in Ones(b[k]) : x = <<k, <<i, 1>>>>
  BY <1>6, <1>7
<1>9. \A k \in 0..open_buckets : \A i \in Ones(b[k]) : <<k, i>> \in Cells(b)
  BY DEF Cells, Ones
<1>10. ASSUME NEW c \in Cells(b)
       PROVE  /\ c[1] \in 0..open_buckets /\ c[2] \in Ones(b[c[1]])
              /\ c = <<c[1], c[2]>>
  BY DEF Cells, Ones
<1> HIDE DEF P
<1>11. g \in [Cells(b) -> P]
  BY <1>8, <1>10
<1>12. \A x, y \in Cells(b) : g[x] = g[y] => x = y
  <2> TAKE x, y \in Cells(b)
  <2> HAVE g[x] = g[y]
  <2>1. <<x[1], <<x[2], 1>>>> = <<y[1], <<y[2], 1>>>>
    OBVIOUS
  <2> QED
    BY <2>1, <1>10
<1>13. ASSUME NEW t \in P PROVE \E x \in Cells(b) : g[x] = t
  <2>1. PICK k \in 0..open_buckets : \E i \in Ones(b[k]) : t = <<k, <<i, 1>>>>
    BY <1>8
  <2>4. PICK i \in Ones(b[k]) : t = <<k, <<i, 1>>>>
    BY <2>1
  <2>2. <<k, i>> \in Cells(b)
    BY <1>9
  <2>3. g[<<k, i>>] = <<k, <<i, 1>>>>
    BY <2>2
  <2> QED
    BY <2>4, <2>2, <2>3
<1> HIDE DEF g
<1> QED
  BY <1>4, <1>11, <1>12, <1>13, SameCount DEF CopyCount, P

\* The cells of two families of buckets that have the same copies.
LEMMA CellsAre ==
  ASSUME NEW b \in Buckets01, NEW k \in 0..open_buckets, NEW i \in Ids
  PROVE  <<k, i>> \in Cells(b) <=> b[k][i] = 1
  BY DEF Cells

\* Nothing is counted when the buckets are empty, and no bucket has a copy when
\* nothing is counted.
LEMMA NothingCounted ==
  ASSUME NEW b \in Buckets01, IsFiniteSet(Ids), BucketsAssumption
  PROVE  /\ CopyCount(b) \in Nat
         /\ (CopyCount(b) = 0 <=> \A k \in 0..open_buckets, i \in Ids : b[k][i] # 1)
<1>1. IsFiniteSet(Cells(b)) /\ CopyCount(b) = Cardinality(Cells(b))
  BY TotalCells
<1>2. Cells(b) = {} <=> \A k \in 0..open_buckets, i \in Ids : b[k][i] # 1
  <2>1. \A k \in 0..open_buckets, i \in Ids : <<k, i>> \in Cells(b) <=> b[k][i] = 1
    BY CellsAre
  <2>2. \A x \in Cells(b) : \E k \in 0..open_buckets, i \in Ids : x = <<k, i>>
    BY DEF Cells
  <2>3. ASSUME Cells(b) = {} PROVE \A k \in 0..open_buckets, i \in Ids : b[k][i] # 1
    BY <2>1, <2>3, Zenon
  <2>4. ASSUME \A k \in 0..open_buckets, i \in Ids : b[k][i] # 1 PROVE Cells(b) = {}
    <3>1. \A x : x \notin Cells(b)
      BY <2>1, <2>2, <2>4
    <3> QED
      BY <3>1
  <2> QED
    BY <2>3, <2>4
<1> QED
  BY <1>1, <1>2, FS_EmptySet, FS_CardinalityType

\* Taking a bucket's copies out of the count.
LEMMA DropBucket ==
  ASSUME NEW b \in Buckets01, NEW c \in 0..open_buckets, IsFiniteSet(Ids), BucketsAssumption
  PROVE  LET nb == [b EXCEPT ![c] = NoCopies] IN
         /\ nb \in Buckets01
         /\ \A k \in 0..open_buckets, i \in Ids : nb[k][i] = 1 <=> k # c /\ b[k][i] = 1
         /\ CopyCount(nb) = CopyCount(b) - Size(b[c])
<1> DEFINE nb == [b EXCEPT ![c] = NoCopies]
           S == {<<c, i>> : i \in Ones(b[c])}
           g == [i \in Ones(b[c]) |-> <<c, i>>]
<1>1. nb \in Buckets01
  BY DEF Buckets01, NoCopies
<1>2. \A k \in 0..open_buckets, i \in Ids : nb[k][i] = 1 <=> k # c /\ b[k][i] = 1
  BY DEF Buckets01, NoCopies
<1> HIDE DEF nb
<1>3. b[c] \in [Ids -> {0, 1}]
  BY DEF Buckets01
<1>4. IsFiniteSet(Ones(b[c])) /\ Size(b[c]) = Cardinality(Ones(b[c]))
  BY <1>3, SizeOn
<1>5. IsFiniteSet(S) /\ Cardinality(S) = Cardinality(Ones(b[c]))
  <2>1. /\ g \in [Ones(b[c]) -> S]
        /\ \A x, y \in Ones(b[c]) : g[x] = g[y] => x = y
        /\ \A t \in S : \E x \in Ones(b[c]) : g[x] = t
    OBVIOUS
  <2> HIDE DEF g, S
  <2> QED
    BY <1>4, <2>1, SameCount
<1>6. Cells(b) = Cells(nb) \cup S /\ Cells(nb) \cap S = {}
  <2>1. ASSUME NEW x PROVE x \in Cells(b) <=> x \in Cells(nb) \/ x \in S
    BY <1>2 DEF Cells, Ones
  <2>2. ASSUME NEW x \in Cells(nb) PROVE x \notin S
    BY <1>2 DEF Cells
  <2> QED
    BY <2>1, <2>2
<1>7. /\ IsFiniteSet(Cells(b)) /\ CopyCount(b) = Cardinality(Cells(b))
      /\ IsFiniteSet(Cells(nb)) /\ CopyCount(nb) = Cardinality(Cells(nb))
  BY <1>1, TotalCells
<1> HIDE DEF S
<1>8. Cardinality(Cells(b)) = Cardinality(Cells(nb)) + Cardinality(S)
  <2>1. Cardinality(Cells(b)) = Cardinality(Cells(nb)) + Cardinality(S) - Cardinality({})
    BY <1>5, <1>6, <1>7, FS_Union
  <2>2. Cardinality(Cells(nb)) \in Nat /\ Cardinality(S) \in Nat /\ Cardinality({}) = 0
    BY <1>5, <1>7, FS_CardinalityType, FS_EmptySet
  <2> QED
    BY <2>1, <2>2
<1>9. CopyCount(nb) = CopyCount(b) - Size(b[c])
  <2>1. Cardinality(Cells(nb)) \in Nat /\ Cardinality(S) \in Nat
    BY <1>5, <1>7, FS_CardinalityType
  <2> QED
    BY <1>4, <1>5, <1>7, <1>8, <2>1
<1> QED
  BY <1>1, <1>2, <1>9 DEF nb

\* The identifiers M have destinations where they are not yet.
Suits(b, M, dest) ==
  /\ b \in Buckets01 /\ M \in SUBSET Ids
  /\ dest \in [Ids -> (0..open_buckets) \cup {null_bkt}]
  /\ \A i \in M : dest[i] # null_bkt => b[dest[i]][i] # 1

\* The buckets nb are the buckets b with copies of M at dest.
HaveMoved(b, M, dest, nb) ==
  /\ nb \in Buckets01
  /\ \A k \in 0..open_buckets, i \in Ids :
       nb[k][i] = 1 <=> b[k][i] = 1 \/ (i \in M /\ dest[i] = k)

\* update_buckets, when none of the copies it is given is there already.
LEMMA PlaceCopies ==
  ASSUME NEW b, NEW M, NEW dest, Suits(b, M, dest), IsFiniteSet(Ids), BucketsAssumption
  PROVE  LET nb == UpdateBkts(b, Once(M), dest) IN
         /\ HaveMoved(b, M, dest, nb)
         /\ CopyCount(nb) = CopyCount(b) + Placed(Once(M), dest)
<1> DEFINE nb == UpdateBkts(b, Once(M), dest)
           P == {i \in M : dest[i] # null_bkt}
           S == {<<dest[i], i>> : i \in P}
           g == [i \in P |-> <<dest[i], i>>]
           f == [i \in Ids |-> IF dest[i] = null_bkt THEN 0 ELSE Once(M)[i]]
<1>0. open_buckets \in Nat /\ null_bkt \notin 0..open_buckets
  BY DEF BucketsAssumption
<1>f. /\ b \in Buckets01 /\ M \in SUBSET Ids
      /\ dest \in [Ids -> (0..open_buckets) \cup {null_bkt}]
      /\ \A i \in M : dest[i] # null_bkt => b[dest[i]][i] # 1
  BY DEF Suits
<1>1. ASSUME NEW k \in 0..open_buckets, NEW i \in Ids
      PROVE  /\ nb[k][i] = b[k][i] + IF i \in M /\ dest[i] = k THEN 1 ELSE 0
             /\ b[k][i] \in {0, 1}
             /\ i \in M /\ dest[i] = k => b[k][i] = 0
  <2>1. nb[k][i] = b[k][i] + IF dest[i] = k THEN Once(M)[i] ELSE 0
    BY <1>f DEF UpdateBkts
  <2>2. b[k][i] \in {0, 1}
    BY <1>f DEF Buckets01
  <2>3. i \in M /\ dest[i] = k => b[k][i] = 0
    BY <1>0, <1>f, <2>2
  <2> QED
    BY <2>1, <2>2, <2>3 DEF Once
<1>2. nb \in Buckets01
  <2>1. ASSUME NEW k \in 0..open_buckets PROVE nb[k] \in [Ids -> {0, 1}]
    <3>1. nb[k] = [i \in Ids |-> nb[k][i]]
      BY DEF UpdateBkts
    <3>2. \A i \in Ids : nb[k][i] \in {0, 1}
      BY <1>1
    <3> HIDE DEF nb
    <3> QED
      BY <3>1, <3>2
  <2>2. nb = [k \in 0..open_buckets |-> nb[k]]
    BY DEF UpdateBkts
  <2> HIDE DEF nb
  <2> QED
    BY <2>1, <2>2 DEF Buckets01
<1>3. \A k \in 0..open_buckets, i \in Ids :
        nb[k][i] = 1 <=> b[k][i] = 1 \/ (i \in M /\ dest[i] = k)
  <2> TAKE k \in 0..open_buckets, i \in Ids
  <2> HIDE DEF nb
  <2> QED
    BY <1>1
<1> HIDE DEF nb
<1>4. f \in [Ids -> {0, 1}] /\ Ones(f) = P
  BY <1>f DEF Once, Ones
<1>5. /\ Size(f) = Cardinality(P) /\ IsFiniteSet(P)
  BY <1>4, SizeOn
<1>6. Placed(Once(M), dest) = Cardinality(P)
  BY <1>5 DEF Placed
<1>7. IsFiniteSet(S) /\ Cardinality(S) = Cardinality(P)
  <2>1. /\ g \in [P -> S]
        /\ \A x, y \in P : g[x] = g[y] => x = y
        /\ \A t \in S : \E x \in P : g[x] = t
    OBVIOUS
  <2> HIDE DEF g, S, P
  <2> QED
    BY <1>5, <2>1, SameCount
<1>8. Cells(nb) = Cells(b) \cup S /\ Cells(b) \cap S = {}
  <2>1. ASSUME NEW k \in 0..open_buckets, NEW i \in Ids
        PROVE  <<k, i>> \in S <=> i \in M /\ dest[i] = k
    BY <1>0
  <2>2. \A x \in S : x \in (0..open_buckets) \X Ids
    BY <1>f
  <2> HIDE DEF S
  <2>3. ASSUME NEW x PROVE x \in Cells(nb) <=> x \in Cells(b) \/ x \in S
    BY <1>3, <2>1, <2>2 DEF Cells
  <2>4. ASSUME NEW x \in Cells(b) PROVE x \notin S
    <3>1. x[1] \in 0..open_buckets /\ x[2] \in Ids /\ x = <<x[1], x[2]>> /\ b[x[1]][x[2]] = 1
      BY DEF Cells
    <3>2. ~(x[2] \in M /\ dest[x[2]] = x[1])
      BY <1>1, <3>1
    <3> QED
      BY <2>1, <3>1, <3>2
  <2> QED
    BY <2>3, <2>4
<1>9. /\ IsFiniteSet(Cells(b)) /\ CopyCount(b) = Cardinality(Cells(b))
      /\ IsFiniteSet(Cells(nb)) /\ CopyCount(nb) = Cardinality(Cells(nb))
  BY <1>f, <1>2, TotalCells
<1> HIDE DEF S
<1>10. CopyCount(nb) = CopyCount(b) + Cardinality(P)
  <2>1. Cardinality(Cells(nb)) = Cardinality(Cells(b)) + Cardinality(S) - Cardinality({})
    BY <1>7, <1>8, <1>9, FS_Union
  <2>2. Cardinality(Cells(b)) \in Nat /\ Cardinality(S) \in Nat /\ Cardinality({}) = 0
    BY <1>7, <1>9, FS_CardinalityType, FS_EmptySet
  <2> QED
    BY <1>7, <1>9, <2>1, <2>2
<1> QED
  BY <1>2, <1>3, <1>6, <1>10 DEF nb, P, HaveMoved
-----------------------------------------------------------------------------
(* Where copies are, in the range whose base is b with bucket c current,   *)
(* when the identifiers have the priorities D, the buckets are bk and h is *)
(* held.  What is held has a copy where its priority will be looked up; a  *)
(* copy is of an identifier that has not been passed, or that has moved on *)
(* to an earlier place; with increasing priorities nothing that was taken  *)
(* out lies ahead, so that a copy of it cannot be met again.               *)
Filing(inc, b, c, D, bk, h) ==
  /\ \A i \in h : /\ D[i] # null_bkt /\ b + c <= Pos(inc, D[i])
                  /\ bk[Slot(b, Pos(inc, D[i]))][i] = 1
  /\ \A k \in 0..open_buckets, i \in Ids : bk[k][i] = 1 =>
       /\ D[i] # null_bkt /\ c <= k
       /\ k < open_buckets => Pos(inc, D[i]) <= b + k
       /\ k = Slot(b, Pos(inc, D[i])) => i \in h
       /\ ~inc => k = Slot(b, Pos(inc, D[i]))
  /\ inc => \A i \in Ids \ h : D[i] # null_bkt => D[i] <= b + c

Filed(inc, b, c, D, bk, h) ==
  /\ inc \in BOOLEAN /\ b \in Int /\ c \in 0..(open_buckets - 1)
  /\ D \in [Ids -> Keys \cup {null_bkt}] /\ bk \in Buckets01 /\ h \in SUBSET Ids

\* The positions of a range have its open buckets, those after it overflow.
LEMMA Slots ==
  ASSUME NEW b \in Int, NEW p \in Int, BucketsAssumption
  PROVE  /\ b <= p => Slot(b, p) \in 0..open_buckets
         /\ b <= p /\ p < b + open_buckets => Slot(b, p) = p - b
         /\ b + open_buckets <= p => Slot(b, p) = open_buckets
         /\ p < b => Slot(b, p) = null_bkt
         /\ null_bkt \notin 0..open_buckets
         /\ Slot(b, p) = open_buckets => b + open_buckets <= p
  BY DEF Slot, BucketsAssumption

\* An open bucket is of one position.
LEMMA SlotIs ==
  ASSUME NEW b \in Int, NEW p \in Int, NEW k \in 0..(open_buckets - 1), BucketsAssumption
  PROVE  Slot(b, p) = k <=> p = b + k
  BY DEF Slot, BucketsAssumption

\* A priority's position is at most that of the last one.
LEMMA Positions ==
  ASSUME NEW inc \in BOOLEAN, NEW x \in Keys \cup {null_bkt}, BucketsAssumption
  PROVE  /\ Pos(inc, x) \in Int
         /\ x # null_bkt => x \in Keys /\ Pos(inc, x) <= Pos(inc, IF inc THEN MaxKey ELSE 0)
         /\ inc => Pos(inc, x) = x
  BY DEF Pos, BucketsAssumption, Keys

\* On to the next bucket of the range.
LEMMA FilingNext ==
  ASSUME NEW inc, NEW b, NEW c, NEW D, NEW bk, NEW h, BucketsAssumption,
         Filed(inc, b, c, D, bk, h), Filing(inc, b, c, D, bk, h),
         c + 1 # open_buckets, \A i \in Ids : bk[c][i] # 1
  PROVE  Filed(inc, b, c + 1, D, bk, h) /\ Filing(inc, b, c + 1, D, bk, h)
<1>0. open_buckets \in Nat \ {0} /\ b \in Int /\ c \in 0..(open_buckets - 1)
      /\ c + 1 \in 0..(open_buckets - 1)
  BY DEF BucketsAssumption, Filed
<1>1. Filed(inc, b, c + 1, D, bk, h)
  BY <1>0 DEF Filed
<1>2. ASSUME NEW i \in h PROVE b + (c + 1) <= Pos(inc, D[i])
  <2>1. i \in Ids /\ D[i] \in Keys \cup {null_bkt}
    BY DEF Filed
  <2>2. Pos(inc, D[i]) \in Int
    BY <2>1, Positions DEF Filed
  <2>3. b + c <= Pos(inc, D[i]) /\ bk[Slot(b, Pos(inc, D[i]))][i] = 1
    BY DEF Filing
  <2>4. Slot(b, Pos(inc, D[i])) # c
    BY <2>1, <2>3
  <2>5. Pos(inc, D[i]) # b + c
    BY <1>0, <2>2, <2>4, SlotIs
  <2> QED
    BY <1>0, <2>2, <2>3, <2>5
<1>3. ASSUME NEW k \in 0..open_buckets, NEW i \in Ids, bk[k][i] = 1 PROVE c + 1 <= k
  <2>1. c <= k /\ k # c
    BY <1>3 DEF Filing
  <2> QED
    BY <1>0, <2>1
<1>4. ASSUME inc, NEW i \in Ids \ h, D[i] # null_bkt PROVE D[i] <= b + (c + 1)
  <2>1. D[i] <= b + c /\ D[i] \in Int
    BY <1>4, Positions DEF Filing, Filed, Pos
  <2> QED
    BY <1>0, <2>1
<1> QED
  BY <1>1, <1>2, <1>3, <1>4, Zenon DEF Filing

\* The overflow bucket, spread over the next range.
LEMMA FilingUnpack ==
  ASSUME NEW inc, NEW b, NEW c, NEW D, NEW bk, NEW h, NEW nb, BucketsAssumption,
         Filed(inc, b, c, D, bk, h), Filing(inc, b, c, D, bk, h),
         c + 1 = open_buckets, \A i \in Ids : bk[c][i] # 1,
         nb \in Buckets01,
         \A k \in 0..open_buckets, i \in Ids :
           nb[k][i] = 1 <=> /\ bk[open_buckets][i] = 1
                            /\ k = Slot(b + open_buckets, Pos(inc, D[i]))
  PROVE  /\ Filed(inc, b + open_buckets, 0, D, nb, h)
         /\ Filing(inc, b + open_buckets, 0, D, nb, h)
<1>0. open_buckets \in Nat \ {0} /\ b \in Int /\ c = open_buckets - 1
      /\ 0 \in 0..(open_buckets - 1) /\ open_buckets \in 0..open_buckets
  BY DEF BucketsAssumption, Filed
<1> DEFINE b1 == b + open_buckets
<1>b. b1 \in Int /\ b1 = b + open_buckets /\ b + c + 1 = b1 /\ b1 + 0 = b1
  BY <1>0
<1>1. Filed(inc, b1, 0, D, nb, h)
  BY <1>0, <1>b DEF Filed
<1>t. \A k \in 0..open_buckets, i \in Ids :
        nb[k][i] = 1 <=> bk[open_buckets][i] = 1 /\ k = Slot(b1, Pos(inc, D[i]))
  OBVIOUS
<1> HIDE DEF b1
<1>2. ASSUME NEW i \in Ids
      PROVE  Pos(inc, D[i]) \in Int
  BY Positions DEF Filed
<1>3. ASSUME NEW i \in h
      PROVE  /\ D[i] # null_bkt /\ b1 + 0 <= Pos(inc, D[i])
             /\ nb[Slot(b1, Pos(inc, D[i]))][i] = 1
  <2>1. i \in Ids
    BY DEF Filed
  <2>3. D[i] # null_bkt /\ b + c <= Pos(inc, D[i]) /\ bk[Slot(b, Pos(inc, D[i]))][i] = 1
    BY DEF Filing
  <2>4. Slot(b, Pos(inc, D[i])) # c
    BY <2>1, <2>3
  <2>5. Pos(inc, D[i]) # b + c
    BY <1>0, <1>2, <2>1, <2>4, SlotIs
  <2>6. b1 <= Pos(inc, D[i])
    BY <1>0, <1>b, <1>2, <2>1, <2>3, <2>5
  <2>7. Slot(b, Pos(inc, D[i])) = open_buckets
    BY <1>0, <1>b, <1>2, <2>1, <2>6, Slots
  <2>8. Slot(b1, Pos(inc, D[i])) \in 0..open_buckets
    BY <1>b, <1>2, <2>1, <2>6, Slots
  <2> QED
    BY <1>b, <1>t, <2>1, <2>3, <2>6, <2>7, <2>8
<1>4. ASSUME NEW k \in 0..open_buckets, NEW i \in Ids, nb[k][i] = 1
      PROVE  /\ D[i] # null_bkt /\ 0 <= k
             /\ k < open_buckets => Pos(inc, D[i]) <= b1 + k
             /\ i \in h /\ k = Slot(b1, Pos(inc, D[i]))
  <2>1. bk[open_buckets][i] = 1 /\ k = Slot(b1, Pos(inc, D[i]))
    BY <1>4, <1>t
  <2>2. D[i] # null_bkt /\ (open_buckets = Slot(b, Pos(inc, D[i])) => i \in h)
    BY <1>0, <2>1 DEF Filing
  <2>3. b1 <= Pos(inc, D[i])
    BY <1>b, <1>2, <2>1, Slots
  <2>4. Slot(b, Pos(inc, D[i])) = open_buckets
    BY <1>0, <1>b, <1>2, <2>3, Slots
  <2>5. k < open_buckets => Pos(inc, D[i]) = b1 + k
    <3>1. k < open_buckets => k \in 0..(open_buckets - 1)
      BY <1>0
    <3> QED
      BY <1>b, <1>2, <2>1, <3>1, SlotIs
  <2> QED
    BY <1>0, <1>b, <1>2, <2>1, <2>2, <2>4, <2>5
<1>5. ASSUME inc, NEW i \in Ids \ h, D[i] # null_bkt PROVE D[i] <= b1 + 0
  <2>1. D[i] <= b + c /\ D[i] \in Int
    BY <1>5, Positions DEF Filing, Filed, Pos
  <2> QED
    BY <1>0, <1>b, <2>1
<1>6. Filing(inc, b1, 0, D, nb, h)
  BY <1>3, <1>4, <1>5, Zenon DEF Filing
<1> QED
  BY <1>1, <1>6 DEF b1

\* The range set further ahead, when all that is left lies beyond it.
LEMMA FilingJump ==
  ASSUME NEW inc, NEW b, NEW D, NEW bk, NEW h, NEW b1, BucketsAssumption,
         Filed(inc, b, 0, D, bk, h), Filing(inc, b, 0, D, bk, h),
         \A k \in 0..open_buckets, i \in Ids : bk[k][i] = 1 =>
           k = open_buckets /\ b1 + open_buckets <= Pos(inc, D[i]),
         b1 \in Int, b <= b1
  PROVE  Filed(inc, b1, 0, D, bk, h) /\ Filing(inc, b1, 0, D, bk, h)
<1>0. open_buckets \in Nat \ {0} /\ b \in Int /\ open_buckets \in 0..open_buckets
  BY DEF BucketsAssumption, Filed
<1>1. Filed(inc, b1, 0, D, bk, h)
  BY DEF Filed
<1>2. ASSUME NEW i \in Ids
      PROVE  Pos(inc, D[i]) \in Int
  BY Positions DEF Filed
<1>3. ASSUME NEW k \in 0..open_buckets, NEW i \in Ids, bk[k][i] = 1
      PROVE  /\ D[i] # null_bkt /\ 0 <= k /\ k = open_buckets
             /\ i \in h /\ k = Slot(b1, Pos(inc, D[i]))
  <2>1. k = open_buckets /\ b1 + open_buckets <= Pos(inc, D[i])
    BY <1>3
  <2>2. b + open_buckets <= Pos(inc, D[i])
    BY <1>0, <1>2, <2>1
  <2>3. Slot(b, Pos(inc, D[i])) = open_buckets /\ Slot(b1, Pos(inc, D[i])) = open_buckets
    BY <1>0, <1>2, <2>1, <2>2, Slots
  <2>4. D[i] # null_bkt /\ (k = Slot(b, Pos(inc, D[i])) => i \in h)
    BY <1>3 DEF Filing
  <2> QED
    BY <2>1, <2>3, <2>4
<1>4. ASSUME NEW i \in h
      PROVE  /\ D[i] # null_bkt /\ b1 + 0 <= Pos(inc, D[i])
             /\ bk[Slot(b1, Pos(inc, D[i]))][i] = 1
  <2>1. i \in Ids
    BY DEF Filed
  <2>2. /\ D[i] # null_bkt /\ b + 0 <= Pos(inc, D[i])
        /\ bk[Slot(b, Pos(inc, D[i]))][i] = 1
    BY DEF Filing
  <2>3. b <= Pos(inc, D[i])
    BY <1>0, <2>2
  <2>4. Slot(b, Pos(inc, D[i])) \in 0..open_buckets
    BY <1>0, <1>2, <2>1, <2>3, Slots
  <2>5. /\ Slot(b, Pos(inc, D[i])) = open_buckets
        /\ Slot(b, Pos(inc, D[i])) = Slot(b1, Pos(inc, D[i]))
        /\ b1 + open_buckets <= Pos(inc, D[i])
    BY <1>3, <2>1, <2>2, <2>4
  <2> QED
    BY <1>0, <1>2, <2>1, <2>2, <2>5
<1>5. ASSUME inc, NEW i \in Ids \ h, D[i] # null_bkt PROVE D[i] <= b1 + 0
  <2>1. D[i] <= b + 0 /\ D[i] \in Int
    BY <1>5, Positions DEF Filing, Filed, Pos
  <2> QED
    BY <1>0, <2>1
<1>6. ~(open_buckets < open_buckets)
  BY <1>0
<1> QED
  BY <1>1, <1>3, <1>4, <1>5, <1>6, Zenon DEF Filing

\* The current bucket is taken: its copies that are current are those of the held
\* identifiers of that priority, and they are the first.
LEMMA FilingTake ==
  ASSUME NEW inc, NEW b, NEW c, NEW D, NEW bk, NEW h, NEW nb, NEW out, BucketsAssumption,
         Filed(inc, b, c, D, bk, h), Filing(inc, b, c, D, bk, h),
         nb \in Buckets01,
         \A k \in 0..open_buckets, i \in Ids : nb[k][i] = 1 <=> k # c /\ bk[k][i] = 1,
         out = {i \in Ids : bk[c][i] = 1 /\ Pos(inc, D[i]) = b + c}
  PROVE  /\ Filed(inc, b, c, D, nb, h \ out) /\ Filing(inc, b, c, D, nb, h \ out)
         /\ out = {i \in h : Pos(inc, D[i]) = b + c}
<1>0. open_buckets \in Nat \ {0} /\ b \in Int /\ c \in 0..(open_buckets - 1)
      /\ c \in 0..open_buckets
  BY DEF BucketsAssumption, Filed
<1>1. Filed(inc, b, c, D, nb, h \ out)
  BY DEF Filed
<1>2. ASSUME NEW i \in Ids
      PROVE  /\ Pos(inc, D[i]) \in Int
             /\ b <= Pos(inc, D[i]) => Slot(b, Pos(inc, D[i])) \in 0..open_buckets
             /\ Slot(b, Pos(inc, D[i])) = c <=> Pos(inc, D[i]) = b + c
  <2>1. Pos(inc, D[i]) \in Int
    BY Positions DEF Filed
  <2>2. Slot(b, Pos(inc, D[i])) = c <=> Pos(inc, D[i]) = b + c
    BY <1>0, <2>1, SlotIs
  <2>3. b <= Pos(inc, D[i]) => Slot(b, Pos(inc, D[i])) \in 0..open_buckets
    BY <1>0, <2>1, Slots
  <2> QED
    BY <2>1, <2>2, <2>3
<1>3. ASSUME NEW i \in h
      PROVE  /\ i \in Ids /\ D[i] # null_bkt /\ b + c <= Pos(inc, D[i])
             /\ bk[Slot(b, Pos(inc, D[i]))][i] = 1
  BY DEF Filing, Filed
<1>4. out = {i \in h : Pos(inc, D[i]) = b + c}
  <2>1. ASSUME NEW i \in out PROVE i \in h
    <3>1. i \in Ids /\ bk[c][i] = 1 /\ c = Slot(b, Pos(inc, D[i]))
      BY <1>2
    <3> QED
      BY <1>0, <3>1 DEF Filing
  <2>2. ASSUME NEW i \in h, Pos(inc, D[i]) = b + c PROVE i \in out
    BY <1>2, <1>3, <2>2
  <2> QED
    BY <2>1, <2>2
<1>5. ASSUME NEW i \in h \ out
      PROVE  /\ D[i] # null_bkt /\ b + c <= Pos(inc, D[i])
             /\ nb[Slot(b, Pos(inc, D[i]))][i] = 1
  <2>1. b <= Pos(inc, D[i])
    BY <1>0, <1>2, <1>3
  <2>2. Slot(b, Pos(inc, D[i])) # c
    BY <1>2, <1>3, <1>4
  <2> QED
    BY <1>2, <1>3, <2>1, <2>2
<1>6. ASSUME NEW k \in 0..open_buckets, NEW i \in Ids, nb[k][i] = 1
      PROVE  /\ D[i] # null_bkt /\ c <= k
             /\ k < open_buckets => Pos(inc, D[i]) <= b + k
             /\ k = Slot(b, Pos(inc, D[i])) => i \in h \ out
             /\ ~inc => k = Slot(b, Pos(inc, D[i]))
  <2>1. k # c /\ bk[k][i] = 1
    BY <1>6
  <2>2. k = Slot(b, Pos(inc, D[i])) => i \notin out
    BY <1>2, <2>1
  <2> QED
    BY <2>1, <2>2 DEF Filing
<1>7. ASSUME inc, NEW i \in Ids \ (h \ out), D[i] # null_bkt PROVE D[i] <= b + c
  <2>1. CASE i \in out
    <3>1. Pos(inc, D[i]) = b + c /\ i \in Ids
      BY <2>1
    <3>2. D[i] = b + c
      BY <1>7, <3>1 DEF Pos
    <3> QED
      BY <1>0, <3>2
  <2>2. CASE i \notin out
    BY <1>7, <2>2 DEF Filing
  <2> QED
    BY <2>1, <2>2
<1> QED
  BY <1>1, <1>4, <1>5, <1>6, <1>7, Zenon DEF Filing

\* The copies that are placed are those with a destination.
LEMMA PlacedIs ==
  ASSUME NEW M \in SUBSET Ids, NEW dest, IsFiniteSet(Ids)
  PROVE  /\ Placed(Once(M), dest) = Cardinality({i \in M : dest[i] # null_bkt})
         /\ Size(Once(M)) = Cardinality(M)
<1> DEFINE f == [i \in Ids |-> IF dest[i] = null_bkt THEN 0 ELSE Once(M)[i]]
<1>1. f \in [Ids -> {0, 1}] /\ Ones(f) = {i \in M : dest[i] # null_bkt}
  BY DEF Once, Ones
<1>2. Once(M) \in [Ids -> {0, 1}] /\ Ones(Once(M)) = M
  BY DEF Once, Ones
<1> HIDE DEF f
<1>3. Size(f) = Cardinality(Ones(f))
  BY <1>1, SizeOn
<1>4. Placed(Once(M), dest) = Size(f)
  BY DEF Placed, f
<1> QED
  BY <1>1, <1>2, <1>3, <1>4, SizeOn

\* The identifiers M get the priorities E and copies at dest: enough for this to
\* keep the copies where they are looked up.
CanMove(inc, b, c, D, bk, E, M, dest) ==
  /\ M \in SUBSET Ids /\ E \in [Ids -> Keys \cup {null_bkt}]
  /\ \A i \in Ids \ M : E[i] = D[i]
  /\ \A i \in M : E[i] # null_bkt =>
       /\ b + c <= Pos(inc, E[i])
       /\ LET s == Slot(b, Pos(inc, E[i])) IN dest[i] = s \/ bk[s][i] = 1
  /\ \A i \in M : dest[i] \in 0..open_buckets =>
       E[i] # null_bkt /\ dest[i] = Slot(b, Pos(inc, E[i]))
  /\ \A k \in 0..open_buckets, i \in M : bk[k][i] = 1 =>
       inc /\ E[i] # null_bkt /\ Pos(inc, E[i]) <= Pos(inc, D[i])
\* Such a move keeps the copies where they are looked up.
LEMMA FilingMoves ==
  ASSUME NEW inc, NEW b, NEW c, NEW D, NEW bk, NEW h, NEW E, NEW M, NEW dest, NEW nb,
         BucketsAssumption, Filed(inc, b, c, D, bk, h), Filing(inc, b, c, D, bk, h),
         CanMove(inc, b, c, D, bk, E, M, dest), HaveMoved(bk, M, dest, nb)
  PROVE  /\ Filed(inc, b, c, E, nb, h \cup {i \in M : E[i] # null_bkt})
         /\ Filing(inc, b, c, E, nb, h \cup {i \in M : E[i] # null_bkt})
<1> DEFINE g == h \cup {i \in M : E[i] # null_bkt}
<1> USE DEF CanMove, HaveMoved
<1>0. open_buckets \in Nat \ {0} /\ b \in Int /\ c \in 0..(open_buckets - 1)
      /\ c \in 0..open_buckets
  BY DEF BucketsAssumption, Filed
<1>1. Filed(inc, b, c, E, nb, g)
  BY DEF Filed
<1>2. ASSUME NEW i \in Ids
      PROVE  /\ Pos(inc, D[i]) \in Int /\ Pos(inc, E[i]) \in Int
             /\ b <= Pos(inc, D[i]) => Slot(b, Pos(inc, D[i])) \in 0..open_buckets
             /\ b <= Pos(inc, E[i]) => Slot(b, Pos(inc, E[i])) \in 0..open_buckets
  <2>1. Pos(inc, D[i]) \in Int /\ Pos(inc, E[i]) \in Int
    BY Positions DEF Filed
  <2> QED
    BY <1>0, <2>1, Slots
<1>3. ASSUME NEW i \in g
      PROVE  /\ E[i] # null_bkt /\ b + c <= Pos(inc, E[i])
             /\ nb[Slot(b, Pos(inc, E[i]))][i] = 1
  <2>0. i \in Ids
    BY DEF Filed
  <2>1. CASE i \in M
    <3>1. E[i] # null_bkt
      <4>1. CASE i \in h
        <5>1. b + c <= Pos(inc, D[i]) /\ bk[Slot(b, Pos(inc, D[i]))][i] = 1
          BY <4>1 DEF Filing
        <5>2. b <= Pos(inc, D[i])
          BY <1>0, <1>2, <2>0, <5>1
        <5> QED
          BY <1>2, <2>0, <2>1, <5>1, <5>2
      <4> QED
        BY <2>1, <4>1
    <3> DEFINE s == Slot(b, Pos(inc, E[i]))
    <3>2. b + c <= Pos(inc, E[i]) /\ (dest[i] = s \/ bk[s][i] = 1)
      BY <2>1, <3>1
    <3>3. b <= Pos(inc, E[i])
      BY <1>0, <1>2, <2>0, <3>2
    <3>4. s \in 0..open_buckets
      BY <1>2, <2>0, <3>3
    <3> HIDE DEF s
    <3>5. nb[s][i] = 1
      BY <2>0, <2>1, <3>2, <3>4
    <3> QED
      BY <3>1, <3>2, <3>5 DEF s
  <2>2. CASE i \notin M
    <3>1. i \in h /\ E[i] = D[i]
      BY <2>0, <2>2
    <3>2. /\ D[i] # null_bkt /\ b + c <= Pos(inc, D[i])
          /\ bk[Slot(b, Pos(inc, D[i]))][i] = 1
      BY <3>1 DEF Filing
    <3>3. b <= Pos(inc, D[i])
      BY <1>0, <1>2, <2>0, <3>2
    <3> QED
      BY <1>2, <2>0, <3>1, <3>2, <3>3
  <2> QED
    BY <2>1, <2>2
<1>4. ASSUME NEW k \in 0..open_buckets, NEW i \in Ids, nb[k][i] = 1
      PROVE  /\ E[i] # null_bkt /\ c <= k
             /\ k < open_buckets => Pos(inc, E[i]) <= b + k
             /\ k = Slot(b, Pos(inc, E[i])) => i \in g
             /\ ~inc => k = Slot(b, Pos(inc, E[i]))
  <2>1. CASE bk[k][i] = 1 /\ i \notin M
    <3>1. E[i] = D[i]
      BY <2>1
    <3> QED
      BY <2>1, <3>1 DEF Filing
  <2>2. CASE bk[k][i] = 1 /\ i \in M
    <3>1. inc /\ E[i] # null_bkt /\ Pos(inc, E[i]) <= Pos(inc, D[i])
      BY <2>2
    <3>2. c <= k /\ (k < open_buckets => Pos(inc, D[i]) <= b + k)
      BY <2>2 DEF Filing
    <3>3. ASSUME k < open_buckets PROVE Pos(inc, E[i]) <= b + k
      <4>1. Pos(inc, D[i]) <= b + k /\ Pos(inc, E[i]) <= Pos(inc, D[i])
        BY <3>1, <3>2, <3>3
      <4>2. Pos(inc, D[i]) \in Int /\ Pos(inc, E[i]) \in Int /\ k \in Int /\ b \in Int
        BY <1>0, <1>2
      <4> QED
        BY <4>1, <4>2
    <3> QED
      BY <2>2, <3>1, <3>2, <3>3
  <2>3. CASE i \in M /\ dest[i] = k
    <3>1. E[i] # null_bkt /\ k = Slot(b, Pos(inc, E[i]))
      BY <2>3
    <3>2. b + c <= Pos(inc, E[i])
      BY <2>3, <3>1
    <3>3. k < open_buckets => Pos(inc, E[i]) = b + k
      <4>1. k < open_buckets => k \in 0..(open_buckets - 1)
        BY <1>0
      <4> QED
        BY <1>0, <1>2, <3>1, <4>1, SlotIs
    <3>4. c <= k
      BY <1>0, <1>2, <3>2, <3>3
    <3>5. k < open_buckets => Pos(inc, E[i]) <= b + k
      BY <1>0, <1>2, <3>3
    <3> QED
      BY <2>3, <3>1, <3>4, <3>5
  <2> QED
    BY <1>4, <2>1, <2>2, <2>3
<1>5. ASSUME inc, NEW i \in Ids \ g, E[i] # null_bkt PROVE E[i] <= b + c
  <2>1. i \notin M /\ i \notin h /\ E[i] = D[i]
    BY <1>5
  <2> QED
    BY <1>5, <2>1 DEF Filing
<1> HIDE DEF g
<1>6. Filing(inc, b, c, E, nb, g)
  BY <1>3, <1>4, <1>5, Zenon DEF Filing
<1> QED
  BY <1>1, <1>6 DEF g

\* Falling priorities: of what is held, and of what comes in for the first time.
Falls(b, c, D, h, E, M, dest) ==
  /\ M \in SUBSET Ids /\ E \in [Ids -> Keys \cup {null_bkt}]
  /\ dest \in [Ids -> (0..open_buckets) \cup {null_bkt}]
  /\ \A i \in Ids \ M : E[i] = D[i]
  /\ \A i \in M : /\ E[i] # null_bkt /\ b + c <= E[i]
                  /\ D[i] = null_bkt \/ (i \in h /\ E[i] < D[i])
                  /\ \/ dest[i] = Slot(b, E[i])
                     \/ i \in h /\ Slot(b, D[i]) = Slot(b, E[i])
                  /\ dest[i] # null_bkt =>
                       /\ dest[i] = Slot(b, E[i])
                       /\ dest[i] = open_buckets /\ i \in h =>
                            Slot(b, D[i]) # open_buckets

\* They are given no second copy in a bucket.
LEMMA FallsFits ==
  ASSUME NEW inc, inc = TRUE, NEW b, NEW c, NEW D, NEW bk, NEW h, NEW E, NEW M, NEW dest,
         BucketsAssumption, Filed(inc, b, c, D, bk, h), Filing(inc, b, c, D, bk, h),
         Falls(b, c, D, h, E, M, dest)
  PROVE  Suits(bk, M, dest) /\ CanMove(inc, b, c, D, bk, E, M, dest)
<1>0. open_buckets \in Nat \ {0} /\ b \in Int /\ c \in 0..(open_buckets - 1)
      /\ null_bkt \notin 0..open_buckets /\ bk \in Buckets01
  BY DEF BucketsAssumption, Filed
<1>1. ASSUME NEW x PROVE Pos(inc, x) = x
  BY DEF Pos
<1>f. /\ M \in SUBSET Ids /\ E \in [Ids -> Keys \cup {null_bkt}]
      /\ dest \in [Ids -> (0..open_buckets) \cup {null_bkt}]
      /\ \A i \in Ids \ M : E[i] = D[i]
  BY DEF Falls
<1>m. ASSUME NEW i \in M
      PROVE  /\ E[i] # null_bkt /\ b + c <= E[i]
             /\ D[i] = null_bkt \/ (i \in h /\ E[i] < D[i])
             /\ \/ dest[i] = Slot(b, E[i])
                \/ i \in h /\ Slot(b, D[i]) = Slot(b, E[i])
             /\ dest[i] # null_bkt =>
                  /\ dest[i] = Slot(b, E[i])
                  /\ dest[i] = open_buckets /\ i \in h => Slot(b, D[i]) # open_buckets
  BY DEF Falls
<1>2. ASSUME NEW i \in Ids PROVE D[i] \in Int /\ E[i] \in Int
  <2>1. D[i] \in Keys \cup {null_bkt} /\ E[i] \in Keys \cup {null_bkt}
    BY <1>f DEF Filed
  <2> QED
    BY <2>1 DEF BucketsAssumption, Keys
<1>3. ASSUME NEW i \in M, NEW k \in 0..open_buckets, bk[k][i] = 1
      PROVE  /\ D[i] # null_bkt /\ i \in h /\ E[i] < D[i]
             /\ k < open_buckets => D[i] <= b + k
  <2>1. D[i] # null_bkt /\ (k < open_buckets => D[i] <= b + k)
    BY <1>1, <1>3, <1>f DEF Filing
  <2> QED
    BY <2>1, <1>m
<1>4. ASSUME NEW i \in M, dest[i] # null_bkt PROVE bk[dest[i]][i] # 1
  <2> SUFFICES ASSUME bk[dest[i]][i] = 1 PROVE FALSE
    OBVIOUS
  <2>1. dest[i] \in 0..open_buckets
    BY <1>4, <1>f
  <2>2. /\ i \in h /\ E[i] < D[i]
        /\ dest[i] < open_buckets => D[i] <= b + dest[i]
    BY <1>3, <2>1
  <2>3. dest[i] = Slot(b, E[i]) /\ b + c <= E[i] /\ D[i] \in Int /\ E[i] \in Int
    BY <1>2, <1>4, <1>m, <1>f
  <2>4. CASE dest[i] = open_buckets
    <3>1. Slot(b, D[i]) # open_buckets
      BY <1>4, <1>m, <2>2, <2>4
    <3>2. b + open_buckets <= E[i]
      BY <1>0, <2>3, <2>4, Slots
    <3>3. b + open_buckets <= D[i]
      BY <1>0, <2>2, <2>3, <3>2
    <3> QED
      BY <1>0, <2>3, <3>1, <3>3, Slots
  <2>5. CASE dest[i] # open_buckets
    <3>1. dest[i] \in 0..(open_buckets - 1) /\ dest[i] < open_buckets
      BY <1>0, <2>1, <2>5
    <3>2. E[i] = b + dest[i]
      BY <1>0, <2>3, <3>1, SlotIs
    <3> QED
      BY <1>0, <2>2, <2>3, <3>1, <3>2
  <2> QED
    BY <2>4, <2>5
<1>5. Suits(bk, M, dest)
  BY <1>0, <1>f, <1>4 DEF Suits
<1>6. ASSUME NEW i \in M
      PROVE  /\ b + c <= Pos(inc, E[i])
             /\ LET s == Slot(b, Pos(inc, E[i])) IN dest[i] = s \/ bk[s][i] = 1
  <2>1. Pos(inc, E[i]) = E[i] /\ Pos(inc, D[i]) = D[i]
    BY <1>1
  <2>2. i \in h => bk[Slot(b, D[i])][i] = 1
    BY <2>1 DEF Filing
  <2> QED
    BY <2>1, <2>2, <1>m
<1>7. ASSUME NEW i \in M, dest[i] \in 0..open_buckets
      PROVE  E[i] # null_bkt /\ dest[i] = Slot(b, Pos(inc, E[i]))
  BY <1>0, <1>1, <1>7, <1>m
<1>8. ASSUME NEW k \in 0..open_buckets, NEW i \in M, bk[k][i] = 1
      PROVE  inc /\ E[i] # null_bkt /\ Pos(inc, E[i]) <= Pos(inc, D[i])
  <2>1. E[i] < D[i] /\ E[i] \in Int /\ D[i] \in Int
    BY <1>2, <1>3, <1>8, <1>f
  <2>2. Pos(inc, E[i]) = E[i] /\ Pos(inc, D[i]) = D[i]
    BY <1>1
  <2>3. E[i] <= D[i]
    BY <2>1
  <2>4. E[i] # null_bkt
    BY <1>m
  <2> QED
    BY <2>2, <2>3, <2>4
<1>9. CanMove(inc, b, c, D, bk, E, M, dest)
  BY <1>f, <1>6, <1>7, <1>8, Zenon DEF CanMove
<1> QED
  BY <1>5, <1>9

\* With decreasing priorities, what was taken out comes back or leaves for good.
Returns(b, c, D, h, E, M, dest) ==
  /\ M \in SUBSET Ids /\ M \cap h = {} /\ E \in [Ids -> Keys \cup {null_bkt}]
  /\ dest \in [Ids -> (0..open_buckets) \cup {null_bkt}]
  /\ \A i \in Ids \ M : E[i] = D[i]
  /\ \A i \in M : IF E[i] = null_bkt THEN dest[i] = null_bkt
                  ELSE /\ b + c <= Pos(FALSE, E[i])
                       /\ dest[i] = Slot(b, Pos(FALSE, E[i]))

\* It has no copies left to collide with.
LEMMA ReturnsFits ==
  ASSUME NEW inc, inc = FALSE, NEW b, NEW c, NEW D, NEW bk, NEW h, NEW E, NEW M, NEW dest,
         BucketsAssumption, Filed(inc, b, c, D, bk, h), Filing(inc, b, c, D, bk, h),
         Returns(b, c, D, h, E, M, dest)
  PROVE  Suits(bk, M, dest) /\ CanMove(inc, b, c, D, bk, E, M, dest)
<1>0. null_bkt \notin 0..open_buckets /\ bk \in Buckets01
  BY DEF BucketsAssumption, Filed
<1>f. /\ M \in SUBSET Ids /\ M \cap h = {} /\ E \in [Ids -> Keys \cup {null_bkt}]
      /\ dest \in [Ids -> (0..open_buckets) \cup {null_bkt}]
      /\ \A i \in Ids \ M : E[i] = D[i]
      /\ \A x : Pos(FALSE, x) = Pos(inc, x)
  BY DEF Returns, Pos
<1>m. ASSUME NEW i \in M
      PROVE  IF E[i] = null_bkt THEN dest[i] = null_bkt
             ELSE /\ b + c <= Pos(inc, E[i])
                  /\ dest[i] = Slot(b, Pos(inc, E[i]))
  <2>1. Pos(FALSE, E[i]) = Pos(inc, E[i])
    BY DEF Pos
  <2> QED
    BY <2>1 DEF Returns
<1>1. ASSUME NEW i \in M, NEW k \in 0..open_buckets PROVE bk[k][i] # 1
  BY <1>f DEF Filing
<1>2. \A i \in M : dest[i] # null_bkt => bk[dest[i]][i] # 1
  BY <1>1, <1>f
<1>3. Suits(bk, M, dest)
  BY <1>0, <1>f, <1>2 DEF Suits
<1>4. ASSUME NEW i \in M, E[i] # null_bkt
      PROVE  /\ b + c <= Pos(inc, E[i])
             /\ LET s == Slot(b, Pos(inc, E[i])) IN dest[i] = s \/ bk[s][i] = 1
  BY <1>4, <1>m
<1>5. ASSUME NEW i \in M, dest[i] \in 0..open_buckets
      PROVE  E[i] # null_bkt /\ dest[i] = Slot(b, Pos(inc, E[i]))
  BY <1>0, <1>5, <1>m
<1>6. CanMove(inc, b, c, D, bk, E, M, dest)
  BY <1>f, <1>1, <1>4, <1>5, Zenon DEF CanMove
<1> QED
  BY <1>3, <1>6

\* update_buckets with such moves.
LEMMA UpdateFiles ==
  ASSUME NEW inc, NEW b, NEW c, NEW D, NEW bk, NEW h, NEW E, NEW M, NEW dest,
         BucketsAssumption, IsFiniteSet(Ids),
         Filed(inc, b, c, D, bk, h), Filing(inc, b, c, D, bk, h),
         Suits(bk, M, dest), CanMove(inc, b, c, D, bk, E, M, dest)
  PROVE  LET nb == UpdateBkts(bk, Once(M), dest) IN
         /\ Filed(inc, b, c, E, nb, h \cup {i \in M : E[i] # null_bkt})
         /\ Filing(inc, b, c, E, nb, h \cup {i \in M : E[i] # null_bkt})
         /\ CopyCount(nb) = CopyCount(bk) + Placed(Once(M), dest)
<1> DEFINE nb == UpdateBkts(bk, Once(M), dest)
<1>1. /\ HaveMoved(bk, M, dest, nb)
      /\ CopyCount(nb) = CopyCount(bk) + Placed(Once(M), dest)
  BY PlaceCopies
<1> HIDE DEF nb
<1> QED
  BY <1>1, FilingMoves DEF nb
-----------------------------------------------------------------------------
(* The inductive invariant.                                                *)

base == Base(increasing, cur_range)
BucketsTyped ==
  /\ client \in Clients
  /\ Filed(increasing, base, cur_bkt, d, bkts, held)
  /\ cur_range \in 0..(Width - 1) /\ (increasing \/ cur_range >= 1)
  /\ ret \in [id : Nat, ids : SUBSET Ids]
  /\ phase \in {"next", "update", "done"}
\* What overflows belongs to a range that comes before the last priority.
Ranged(inc, b, bk) ==
  \A i \in Ids : bk[open_buckets][i] = 1 =>
    b + open_buckets <= Pos(inc, IF inc THEN MaxKey ELSE 0)
\* The caller of next_bucket has what the current bucket held.
Returned ==
  phase = "update" => /\ ret.id \in Keys /\ Pos(increasing, ret.id) = base + cur_bkt
                      /\ ret.ids \cap held = {}
IInv ==
  /\ BucketsTyped
  /\ Filing(increasing, base, cur_bkt, d, bkts, held)
  /\ num_elms = CopyCount(bkts)
  /\ Ranged(increasing, base, bkts)
  /\ Returned

\* to_range tells the slot of a priority's position.
LEMMA ToRangeIs ==
  ASSUME BucketsAssumption, NEW x \in Nat, NEW r \in Nat, increasing \/ r >= 1
  PROVE  ToRange(x, r) = Slot(Base(increasing, r), Pos(increasing, x))
<1>1. CASE increasing
  <2>1. ToRange(x, r) = Slot(Base(TRUE, r), Pos(TRUE, x))
    BY <1>1, RangeUp DEF ToRange
  <2> QED
    BY <1>1, <2>1 DEF Base, Pos
<1>2. CASE ~increasing
  <2>1. r \in Nat \ {0}
    BY <1>2
  <2>2. ToRange(x, r) = Slot(Base(FALSE, r), Pos(FALSE, x))
    BY <1>2, <2>1, RangeDown DEF ToRange
  <2> QED
    BY <1>2, <2>2 DEF Base, Pos
<1> QED
  BY <1>1, <1>2

\* The bases of ranges are integers, and consecutive ranges are next to each other.
LEMMA Bases ==
  ASSUME BucketsAssumption, NEW inc \in BOOLEAN, NEW r \in Int
  PROVE  /\ Base(inc, r) \in Int
         /\ Base(inc, IF inc THEN r + 1 ELSE r - 1) = Base(inc, r) + open_buckets
<1>1. /\ Base(TRUE, r) \in Int /\ Base(FALSE, r) \in Int
      /\ Base(TRUE, r + 1) = Base(TRUE, r) + open_buckets
      /\ Base(FALSE, r - 1) = Base(FALSE, r) + open_buckets
  BY BaseMoves
<1>2. inc = TRUE \/ inc = FALSE
  OBVIOUS
<1> QED
  BY <1>1, <1>2

\* Where everyone belongs in a range.
LEMMA HomesAre ==
  ASSUME BucketsAssumption, d \in [Ids -> Keys \cup {null_bkt}],
         NEW r \in Nat, increasing \/ r >= 1
  PROVE  /\ Homes(r) \in [Ids -> (0..open_buckets) \cup {null_bkt}]
         /\ \A i \in Ids : Homes(r)[i] =
              IF d[i] = null_bkt THEN null_bkt
              ELSE Slot(Base(increasing, r), Pos(increasing, d[i]))
<1>1. increasing \in BOOLEAN
  BY DEF increasing
<1>2. Base(increasing, r) \in Int
  BY <1>1, Bases
<1>3. ASSUME NEW i \in Ids
      PROVE  Homes(r)[i] = IF d[i] = null_bkt THEN null_bkt
                           ELSE Slot(Base(increasing, r), Pos(increasing, d[i]))
  <2>1. Homes(r)[i] = IF d[i] = null_bkt THEN null_bkt ELSE ToRange(d[i], r)
    BY DEF Homes
  <2>2. d[i] \in Nat
    BY DEF BucketsAssumption, Keys
  <2>3. ToRange(d[i], r) = Slot(Base(increasing, r), Pos(increasing, d[i]))
    BY <2>2, ToRangeIs
  <2> QED
    BY <2>1, <2>3
<1>4. ASSUME NEW i \in Ids PROVE Homes(r)[i] \in (0..open_buckets) \cup {null_bkt}
  <2>1. Pos(increasing, d[i]) \in Int
    BY <1>1, Positions
  <2> DEFINE b == Base(increasing, r)
             p == Pos(increasing, d[i])
  <2> HIDE DEF b, p
  <2>2. b \in Int /\ p \in Int
    BY <1>2, <2>1 DEF b, p
  <2>3. Slot(b, p) \in (0..open_buckets) \cup {null_bkt}
    BY <2>2 DEF Slot, BucketsAssumption
  <2> QED
    BY <1>3, <2>3 DEF b, p
<1>5. Homes(r) = [i \in Ids |-> Homes(r)[i]]
  BY DEF Homes
<1> QED
  BY <1>3, <1>4, <1>5

\* The range of next_bucket's first call covers the first priority.
LEMMA FirstRange ==
  ASSUME BucketsAssumption, NEW inc \in BOOLEAN, NEW keys, keys \subseteq Keys, keys # {}
  PROVE  LET r == IF inc THEN Least(keys) \div open_buckets
                  ELSE (Greatest(keys) + open_buckets) \div open_buckets
         IN /\ r \in 0..(Width - 1) /\ (inc \/ r >= 1)
            /\ \A x \in keys : Base(inc, r) <= Pos(inc, x)
<1>0. open_buckets \in Nat \ {0} /\ MaxKey \in Nat /\ Width \in Nat /\ Width > MaxKey + 2
  BY DEF BucketsAssumption
<1>1. CASE inc
  <2> DEFINE l == Least(keys)
             q == l \div open_buckets
  <2>1. l \in Nat /\ l <= MaxKey /\ \A x \in keys : x \in Nat /\ l <= x
    <3>1. keys \subseteq Nat
      BY <1>0 DEF Keys
    <3>2. l \in keys /\ \A x \in keys : l <= x
      BY <3>1, LeastIs
    <3>3. \A x \in keys : x \in Nat /\ x <= MaxKey
      BY <1>0 DEF Keys
    <3> HIDE DEF l
    <3> QED
      BY <3>2, <3>3
  <2> HIDE DEF l
  <2>2. q \in Nat /\ q * open_buckets <= l /\ q * open_buckets \in Nat
    BY <1>0, <2>1, Quotient
  <2> HIDE DEF q
  <2>3. q <= l
    <3>1. q * 1 <= q * open_buckets
      BY <1>0, <2>2
    <3> QED
      BY <1>0, <2>1, <2>2, <3>1
  <2>4. \A x \in keys : q * open_buckets <= x
    BY <2>1, <2>2
  <2>5. q \in 0..(Width - 1)
    BY <1>0, <2>1, <2>2, <2>3
  <2>6. \A x \in keys : Base(inc, q) <= Pos(inc, x)
    BY <1>1, <2>4 DEF Base, Pos
  <2> QED
    BY <1>1, <2>5, <2>6 DEF q, l
<1>2. CASE ~inc
  <2> DEFINE l == Greatest(keys)
             m == l + open_buckets
             q == m \div open_buckets
             t == q * open_buckets
  <2>1. l \in Nat /\ l <= MaxKey /\ \A x \in keys : x \in Nat /\ x <= l
    <3>1. l \in keys /\ \A x \in keys : x <= l
      BY <1>0, GreatestIs DEF Keys
    <3>3. \A x \in keys : x \in Nat /\ x <= MaxKey
      BY <1>0 DEF Keys
    <3> HIDE DEF l
    <3> QED
      BY <3>1, <3>3
  <2> HIDE DEF l
  <2>2. m \in Nat /\ m = l + open_buckets
    BY <1>0, <2>1
  <2> HIDE DEF m
  <2>3. q \in Nat /\ t \in Nat
    BY <1>0, <2>2, Quotient
  <2>4. t <= m /\ m < t + open_buckets
    BY <1>0, <2>2, Quotient
  <2>5. l + 1 <= t /\ t <= l + open_buckets
    <3> HIDE DEF t, q
    <3> QED
      BY <1>0, <2>1, <2>2, <2>3, <2>4
  <2>6. q >= 1
    <3>1. q = 0 => t = 0
      BY <1>0
    <3> HIDE DEF t, q
    <3> QED
      BY <2>1, <2>3, <2>5, <3>1
  <2>7. q <= l + 1
    <3>1. (q - 1) * open_buckets = t - open_buckets
      BY <1>0, <2>3
    <3>2. (q - 1) * 1 <= (q - 1) * open_buckets
      <4> HIDE DEF q
      <4>1. q - 1 \in Nat
        BY <2>3, <2>6
      <4>2. 1 * (q - 1) <= open_buckets * (q - 1)
        BY <1>0, <4>1, Monotone
      <4> QED
        BY <1>0, <4>1, <4>2
    <3> HIDE DEF t, q
    <3>3. (q - 1) * 1 = q - 1
      BY <2>3
    <3> QED
      BY <1>0, <2>1, <2>3, <2>5, <3>1, <3>2, <3>3
  <2>8. \A x \in keys : -t <= -x - 1
    <3> HIDE DEF t, q
    <3> QED
      BY <2>1, <2>3, <2>5
  <2>9. \A x \in keys : Base(inc, q) <= Pos(inc, x)
    BY <1>2, <2>8 DEF Base, Pos
  <2> HIDE DEF t, q
  <2>10. q \in 0..(Width - 1)
    BY <1>0, <2>1, <2>3, <2>7
  <2> QED
    BY <1>2, <2>6, <2>9, <2>10 DEF q, m, l
<1> QED
  BY <1>1, <1>2

\* The constructor files everyone under its first priority.
LEMMA InitIInv ==
  ASSUME BucketsAssumption, BucketsInit
  PROVE  IInv
<1>0. /\ open_buckets \in Nat \ {0} /\ MaxKey \in Nat /\ null_bkt \in Nat
      /\ IsFiniteSet(Ids) /\ null_bkt \notin 0..open_buckets /\ null_bkt \notin Keys
  BY DEF BucketsAssumption, Keys
<1>1. increasing \in BOOLEAN
  BY DEF increasing
<1> DEFINE keys == {d[i] : i \in Ids} \ {null_bkt}
           inc == increasing
           none == [k \in 0..open_buckets |-> NoCopies]
           r == cur_range
           home == Homes(r)
<1>2. d \in [Ids -> Keys \cup {null_bkt}]
  BY DEF BucketsInit
<1>3. keys \subseteq Keys /\ keys # {} /\ \A i \in Ids : d[i] # null_bkt => d[i] \in keys
  <2>1. PICK i \in Ids : d[i] # null_bkt
    BY DEF BucketsInit
  <2>2. \A j \in Ids : d[j] \in Keys \cup {null_bkt}
    BY <1>2
  <2> QED
    BY <2>1, <2>2
<1>4. r = IF inc THEN Least(keys) \div open_buckets
          ELSE (Greatest(keys) + open_buckets) \div open_buckets
  BY Zenon DEF BucketsInit
<1>5. r \in 0..(Width - 1) /\ (inc \/ r >= 1) /\ \A x \in keys : Base(inc, r) <= Pos(inc, x)
  <2> HIDE DEF keys
  <2> QED
    BY <1>1, <1>3, <1>4, FirstRange
<1>6. /\ bkts = UpdateBkts(none, Once(Ids), home) /\ num_elms = Placed(Once(Ids), home)
      /\ cur_bkt = 0 /\ phase = "next" /\ ret = [id |-> null_bkt, ids |-> {}]
      /\ held = {i \in Ids : d[i] # null_bkt} /\ client \in Clients
  BY Zenon DEF BucketsInit
<1>7. r \in Nat /\ r \in Int
  BY <1>5 DEF BucketsAssumption
<1>8. /\ home \in [Ids -> (0..open_buckets) \cup {null_bkt}]
      /\ \A i \in Ids : home[i] = IF d[i] = null_bkt THEN null_bkt
                                  ELSE Slot(Base(inc, r), Pos(inc, d[i]))
  BY <1>2, <1>5, <1>7, HomesAre
<1>9. Base(inc, r) \in Int
  BY <1>1, <1>7, Bases
<1> DEFINE b == Base(inc, r)
<1>10. b \in Int /\ base = b
  BY <1>9 DEF base
<1>11. ASSUME NEW i \in Ids, d[i] # null_bkt
       PROVE  /\ Pos(inc, d[i]) \in Int /\ b <= Pos(inc, d[i])
              /\ home[i] = Slot(b, Pos(inc, d[i])) /\ home[i] \in 0..open_buckets
              /\ Pos(inc, d[i]) <= Pos(inc, IF inc THEN MaxKey ELSE 0)
  <2>1. d[i] \in keys /\ d[i] \in Keys \cup {null_bkt}
    BY <1>2, <1>3, <1>11
  <2>2. Pos(inc, d[i]) \in Int /\ Pos(inc, d[i]) <= Pos(inc, IF inc THEN MaxKey ELSE 0)
    BY <1>1, <1>11, <2>1, Positions
  <2>3. b <= Pos(inc, d[i])
    BY <1>5, <2>1
  <2>4. home[i] = Slot(b, Pos(inc, d[i]))
    BY <1>8, <1>11
  <2> HIDE DEF b
  <2>5. Slot(b, Pos(inc, d[i])) \in 0..open_buckets
    BY <1>10, <2>2, <2>3, Slots
  <2> QED
    BY <2>2, <2>3, <2>4, <2>5
<1>12. none \in Buckets01 /\ \A k \in 0..open_buckets, i \in Ids : none[k][i] # 1
  BY DEF Buckets01, NoCopies
<1> HIDE DEF none, home, b, keys, inc, r
<1>13. CopyCount(none) = 0
  BY <1>0, <1>12, NothingCounted
<1>14. Suits(none, Ids, home)
  BY <1>8, <1>12 DEF Suits
<1>15. HaveMoved(none, Ids, home, bkts) /\ num_elms = CopyCount(bkts)
  <2>1. /\ HaveMoved(none, Ids, home, bkts)
        /\ CopyCount(bkts) = CopyCount(none) + Placed(Once(Ids), home)
    BY <1>0, <1>6, <1>14, PlaceCopies
  <2>2. Placed(Once(Ids), home) = Cardinality({i \in Ids : home[i] # null_bkt})
    BY <1>0, PlacedIs
  <2>3. Placed(Once(Ids), home) \in Nat
    <3>1. IsFiniteSet({i \in Ids : home[i] # null_bkt})
      BY <1>0, FS_Subset
    <3> QED
      BY <2>2, <3>1, FS_CardinalityType
  <2> QED
    BY <1>6, <1>13, <2>1, <2>3
<1>16. bkts \in Buckets01 /\ \A k \in 0..open_buckets, i \in Ids : bkts[k][i] = 1 <=> home[i] = k
  BY <1>12, <1>15 DEF HaveMoved
<1>17. ASSUME NEW k \in 0..open_buckets, NEW i \in Ids, bkts[k][i] = 1
       PROVE  d[i] # null_bkt /\ k = Slot(b, Pos(inc, d[i])) /\ i \in held
  <2>1. home[i] = k
    BY <1>16, <1>17
  <2>2. d[i] # null_bkt
    BY <1>0, <1>8, <2>1
  <2> QED
    BY <1>6, <1>11, <2>1, <2>2
<1>18. Filed(inc, b, 0, d, bkts, held)
  <2>1. 0 \in 0..(open_buckets - 1)
    BY <1>0
  <2> QED
    BY <1>1, <1>2, <1>6, <1>10, <1>16, <2>1 DEF Filed, inc
<1>19. Filing(inc, b, 0, d, bkts, held)
  <2>1. ASSUME NEW i \in held
        PROVE  /\ d[i] # null_bkt /\ b + 0 <= Pos(inc, d[i])
               /\ bkts[Slot(b, Pos(inc, d[i]))][i] = 1
    <3>1. i \in Ids /\ d[i] # null_bkt
      BY <1>6
    <3>2. b <= Pos(inc, d[i]) /\ home[i] = Slot(b, Pos(inc, d[i])) /\ home[i] \in 0..open_buckets
      BY <1>11, <3>1
    <3> QED
      BY <1>10, <1>16, <3>1, <3>2
  <2>2. ASSUME NEW k \in 0..open_buckets, NEW i \in Ids, bkts[k][i] = 1
        PROVE  /\ d[i] # null_bkt /\ 0 <= k
               /\ k < open_buckets => Pos(inc, d[i]) <= b + k
               /\ k = Slot(b, Pos(inc, d[i])) => i \in held
               /\ ~inc => k = Slot(b, Pos(inc, d[i]))
    <3>1. d[i] # null_bkt /\ k = Slot(b, Pos(inc, d[i])) /\ i \in held
      BY <1>17, <2>2
    <3>2. Pos(inc, d[i]) \in Int
      BY <1>11, <3>1
    <3>3. k < open_buckets => Pos(inc, d[i]) = b + k
      <4>1. k < open_buckets => k \in 0..(open_buckets - 1)
        BY <1>0
      <4> QED
        BY <1>10, <3>1, <3>2, <4>1, SlotIs
    <3>4. k < open_buckets => Pos(inc, d[i]) <= b + k
      BY <1>10, <3>2, <3>3
    <3> QED
      BY <1>0, <3>1, <3>4
  <2>3. \A i \in Ids \ held : d[i] = null_bkt
    BY <1>6
  <2> QED
    BY <2>1, <2>2, <2>3, Zenon DEF Filing
<1>20. Ranged(inc, b, bkts)
  <2> SUFFICES ASSUME NEW i \in Ids, bkts[open_buckets][i] = 1
               PROVE  b + open_buckets <= Pos(inc, IF inc THEN MaxKey ELSE 0)
    BY DEF Ranged
  <2>0. open_buckets \in 0..open_buckets
    BY <1>0
  <2>1. d[i] # null_bkt /\ open_buckets = Slot(b, Pos(inc, d[i]))
    BY <1>17, <2>0
  <2>2. Pos(inc, d[i]) \in Int /\ Pos(inc, d[i]) <= Pos(inc, IF inc THEN MaxKey ELSE 0)
    BY <1>11, <2>1
  <2>3. b + open_buckets <= Pos(inc, d[i])
    BY <1>10, <2>1, <2>2, Slots
  <2>4. Pos(inc, IF inc THEN MaxKey ELSE 0) \in Int
    BY <1>0 DEF Pos
  <2> QED
    BY <1>0, <1>10, <2>2, <2>3, <2>4
<1>21. BucketsTyped
  BY <1>0, <1>5, <1>6, <1>10, <1>18 DEF BucketsTyped, inc, r
<1>22. Returned
  BY <1>6 DEF Returned
<1> QED
  BY <1>6, <1>10, <1>15, <1>19, <1>20, <1>21, <1>22 DEF IInv, inc

\* The jump of unpack goes ahead, and not beyond anything that is left.
LEMMA JumpIs ==
  ASSUME BucketsAssumption, d \in [Ids -> Keys \cup {null_bkt}],
         NEW f \in [Ids -> {0, 1}], f # NoCopies,
         NEW r \in 0..(Width - 1),
         \A i \in Ids : f[i] = 1 =>
           d[i] # null_bkt /\ Base(increasing, r) + open_buckets <= Pos(increasing, d[i])
  PROVE  LET q == JumpBefore(f) IN
         /\ q \in 0..(Width - 1) /\ (increasing \/ q >= 1)
         /\ Base(increasing, r) <= Base(increasing, q)
         /\ \A i \in Ids : f[i] = 1 => Base(increasing, q) + open_buckets <= Pos(increasing, d[i])
<1>0. /\ open_buckets \in Nat \ {0} /\ MaxKey \in Nat /\ Width \in Nat /\ Width > MaxKey + 2
      /\ null_bkt \notin Keys /\ r \in Nat /\ r < Width
  BY DEF BucketsAssumption, Keys
<1> DEFINE keys == KeysIn(f)
<1>1. /\ \A x \in keys : \E i \in Ids : f[i] = 1 /\ x = d[i]
      /\ \A i \in Ids : f[i] = 1 => d[i] \in keys
  BY DEF KeysIn
<1>2. keys # {}
  <2>1. \E i \in Ids : f[i] # 0
    <3> SUFFICES ASSUME \A i \in Ids : f[i] = 0 PROVE FALSE
      OBVIOUS
    <3>1. f = [i \in Ids |-> f[i]]
      OBVIOUS
    <3> QED
      BY <3>1 DEF NoCopies
  <2> QED
    BY <1>1, <2>1
<1> HIDE DEF keys
<1>3. ASSUME NEW x \in keys
      PROVE  /\ x \in Keys /\ x \in Nat /\ x <= MaxKey
             /\ Base(increasing, r) + open_buckets <= Pos(increasing, x)
  <2>1. PICK i \in Ids : f[i] = 1 /\ x = d[i]
    BY <1>1
  <2>2. x \in Keys /\ Base(increasing, r) + open_buckets <= Pos(increasing, x)
    BY <1>0, <2>1
  <2> QED
    BY <1>0, <2>2 DEF Keys
<1>4. CASE increasing
  <2> DEFINE l == Least(keys)
             q == l \div open_buckets - 1
  <2>1. l \in keys /\ \A x \in keys : l <= x
    BY <1>2, <1>3, LeastIs
  <2> HIDE DEF l
  <2>2. /\ l \in Nat /\ l <= MaxKey /\ Base(TRUE, r) + open_buckets <= Pos(TRUE, l)
    BY <1>3, <1>4, <2>1 DEF Base, Pos
  <2>3. /\ q \in Nat /\ r <= q /\ q < l /\ Base(TRUE, r) <= Base(TRUE, q)
        /\ Base(TRUE, q) + open_buckets <= Pos(TRUE, l)
    BY <1>0, <2>2, JumpUp
  <2>4. q < Width /\ q \in 0..(Width - 1)
    <3> HIDE DEF q
    <3> QED
      BY <1>0, <2>2, <2>3
  <2>5. JumpBefore(f) = q % Width
    BY <1>4 DEF JumpBefore, l, keys
  <2> HIDE DEF q
  <2>6. q % Width = q
    BY <1>0, <2>3, <2>4
  <2>7. Base(TRUE, q) \in Int
    BY <1>0, <2>3 DEF Base
  <2>8. ASSUME NEW i \in Ids, f[i] = 1 PROVE Base(TRUE, q) + open_buckets <= Pos(TRUE, d[i])
    <3>1. d[i] \in keys
      BY <1>1, <2>8
    <3>2. l <= d[i] /\ d[i] \in Nat
      BY <1>3, <2>1, <3>1
    <3>3. Pos(TRUE, l) = l /\ Pos(TRUE, d[i]) = d[i]
      BY DEF Pos
    <3> DEFINE t == Base(TRUE, q) + open_buckets
               x == d[i]
    <3>4. t \in Int /\ t <= l /\ x \in Nat /\ l <= x
      <4>1. t \in Int
        <5> DEFINE u == Base(TRUE, q)
        <5>1. u \in Int
          BY <2>7
        <5> HIDE DEF u
        <5>2. u + open_buckets \in Int
          BY <1>0, <5>1
        <5> QED
          BY <5>2 DEF u
      <4>2. t <= Pos(TRUE, l)
        BY <2>3
      <4> HIDE DEF t
      <4> QED
        BY <4>1, <4>2, <3>2, <3>3
    <3> HIDE DEF t, x
    <3>5. t <= x
      BY <2>2, <3>4
    <3> QED
      BY <3>3, <3>5 DEF t, x
  <2>9. \A x : Base(increasing, x) = Base(TRUE, x) /\ Pos(increasing, x) = Pos(TRUE, x)
    BY <1>4 DEF Base, Pos
  <2> QED
    BY <1>4, <2>3, <2>4, <2>5, <2>6, <2>8, <2>9
<1>5. CASE ~increasing
  <2> DEFINE l == Greatest(keys)
             q == (open_buckets + l) \div open_buckets + 1
  <2>1. l \in keys /\ \A x \in keys : x <= l
    <3>1. keys \subseteq 0..MaxKey
      BY <1>3 DEF Keys
    <3> QED
      BY <1>0, <1>2, <3>1, GreatestIs
  <2> HIDE DEF l
  <2>2. /\ l \in Nat /\ Base(FALSE, r) + open_buckets <= Pos(FALSE, l)
    BY <1>3, <1>5, <2>1 DEF Base, Pos
  <2>3. /\ q \in Nat \ {0} /\ q <= r /\ Base(FALSE, r) <= Base(FALSE, q)
        /\ Base(FALSE, q) + open_buckets <= Pos(FALSE, l)
    BY <1>0, <2>2, JumpDown
  <2>4. q \in 0..(Width - 1) /\ q >= 1
    <3> HIDE DEF q
    <3> QED
      BY <1>0, <2>2, <2>3
  <2>5. JumpBefore(f) = q
    BY <1>5 DEF JumpBefore, l, keys
  <2> HIDE DEF q
  <2>7. Base(FALSE, q) \in Int
    BY <1>0, <2>3 DEF Base
  <2>8. ASSUME NEW i \in Ids, f[i] = 1 PROVE Base(FALSE, q) + open_buckets <= Pos(FALSE, d[i])
    <3>1. d[i] \in keys
      BY <1>1, <2>8
    <3>2. d[i] <= l /\ d[i] \in Nat
      BY <1>3, <2>1, <3>1
    <3>3. Pos(FALSE, l) = -l - 1 /\ Pos(FALSE, d[i]) = -d[i] - 1
      BY DEF Pos
    <3> DEFINE t == Base(FALSE, q) + open_buckets
               x == d[i]
    <3>4. t \in Int /\ t <= -l - 1 /\ x \in Nat /\ x <= l
      <4>1. t \in Int
        <5> DEFINE u == Base(FALSE, q)
        <5>1. u \in Int
          BY <2>7
        <5> HIDE DEF u
        <5>2. u + open_buckets \in Int
          BY <1>0, <5>1
        <5> QED
          BY <5>2 DEF u
      <4>2. t <= Pos(FALSE, l)
        BY <2>3
      <4> HIDE DEF t
      <4> QED
        BY <4>1, <4>2, <3>2, <3>3
    <3> HIDE DEF t, x
    <3>5. t <= -x - 1
      BY <2>2, <3>4
    <3> QED
      BY <3>3, <3>5 DEF t, x
  <2>9. \A x : Base(increasing, x) = Base(FALSE, x) /\ Pos(increasing, x) = Pos(FALSE, x)
    BY <1>5 DEF Base, Pos
  <2> QED
    BY <1>5, <2>3, <2>4, <2>5, <2>8, <2>9
<1> QED
  BY <1>4, <1>5

\* unpack: the overflow bucket is spread over the next range, or over none when
\* all of it lies beyond that range.
LEMMA UnpackIInv ==
  ASSUME BucketsAssumption, IInv, phase = "next", \A i \in Ids : bkts[cur_bkt][i] # 1,
         num_elms > 0, cur_bkt + 1 = open_buckets, Unpack,
         UNCHANGED <<client, d, ret, phase, held>>
  PROVE  IInv'
<1>0. /\ open_buckets \in Nat \ {0} /\ MaxKey \in Nat /\ null_bkt \in Nat
      /\ Width \in Nat /\ Width > MaxKey + 2
      /\ IsFiniteSet(Ids) /\ null_bkt \notin 0..open_buckets /\ null_bkt \notin Keys
      /\ open_buckets \in 0..open_buckets
  BY DEF BucketsAssumption, Keys
<1>1. increasing \in BOOLEAN /\ increasing' = increasing
  BY DEF increasing
<1> DEFINE inc == increasing
           b == base
           r == cur_range
           tmp == bkts[open_buckets]
           M == Ones(tmp)
           rest == [bkts EXCEPT ![open_buckets] = NoCopies]
           range == IF inc THEN (r + 1) % Width ELSE (r - 1) % Width
           home == Homes(range)
           b1 == b + open_buckets
           nb == bkts'
<1>2. /\ Filed(inc, b, cur_bkt, d, bkts, held) /\ Filing(inc, b, cur_bkt, d, bkts, held)
      /\ num_elms = CopyCount(bkts) /\ Ranged(inc, b, bkts) /\ b = Base(inc, r)
      /\ r \in 0..(Width - 1) /\ (inc \/ r >= 1) /\ client \in Clients
      /\ ret \in [id : Nat, ids : SUBSET Ids]
  BY DEF IInv, BucketsTyped, base
<1>3. /\ b \in Int /\ d \in [Ids -> Keys \cup {null_bkt}] /\ bkts \in Buckets01
      /\ r \in Int /\ tmp \in [Ids -> {0, 1}] /\ held \in SUBSET Ids
  <2>1. b \in Int /\ d \in [Ids -> Keys \cup {null_bkt}] /\ bkts \in Buckets01 /\ held \in SUBSET Ids
    BY <1>2 DEF Filed
  <2> HIDE DEF b
  <2> QED
    BY <1>0, <1>2, <2>1 DEF Buckets01
<1>4. Base(inc, IF inc THEN r + 1 ELSE r - 1) = b1
  BY <1>1, <1>2, <1>3, Bases
<1>5. tmp = Once(M) /\ M \in SUBSET Ids
  <2>1. tmp = [i \in Ids |-> tmp[i]]
    BY <1>3
  <2>2. \A i \in Ids : tmp[i] = IF i \in M THEN 1 ELSE 0
    BY <1>3 DEF Ones
  <2>3. M \in SUBSET Ids
    BY DEF Ones
  <2> HIDE DEF tmp, M
  <2> QED
    BY <2>1, <2>2, <2>3 DEF Once
\* All that is left overflows, so that there is a range to go to.
<1>6. \E i \in Ids : bkts[open_buckets][i] = 1
  <2>1. PICK k \in 0..open_buckets, i \in Ids : bkts[k][i] = 1
    BY <1>0, <1>2, <1>3, NothingCounted
  <2>2. cur_bkt <= k /\ k # cur_bkt
    BY <1>2, <2>1 DEF Filing
  <2>3. k = open_buckets
    BY <1>0, <1>2, <2>2 DEF Filed
  <2> QED
    BY <2>1, <2>3
<1>7. b1 <= Pos(inc, IF inc THEN MaxKey ELSE 0)
  BY <1>2, <1>6 DEF Ranged
<1>8. /\ range = IF inc THEN r + 1 ELSE r - 1
      /\ range \in 0..(Width - 1) /\ (inc \/ range >= 1)
  <2>1. CASE inc
    <3>1. Base(TRUE, r + 1) = Base(inc, r + 1) /\ Pos(inc, MaxKey) = MaxKey
      BY <2>1 DEF Base, Pos
    <3>2. (r + 1) * open_buckets <= MaxKey
      BY <1>4, <1>7, <2>1, <3>1 DEF Base
    <3>3. (r + 1) * 1 <= (r + 1) * open_buckets
      <4>1. 1 * (r + 1) <= open_buckets * (r + 1)
        <5>1. r + 1 \in Nat
          BY <1>0, <1>2
        <5> QED
          BY <1>0, <5>1, Monotone
      <4> QED
        BY <1>0, <1>3, <4>1
    <3>4. r + 1 <= MaxKey
      <4>1. (r + 1) * 1 = r + 1 /\ (r + 1) * open_buckets \in Int
        BY <1>0, <1>3
      <4> QED
        BY <1>0, <1>3, <3>2, <3>3, <4>1
    <3>5. r + 1 \in Nat /\ r + 1 < Width
      BY <1>0, <1>2, <3>4
    <3>6. (r + 1) % Width = r + 1
      BY <1>0, <3>5
    <3> QED
      BY <1>0, <2>1, <3>5, <3>6
  <2>2. CASE ~inc
    <3>1. Base(FALSE, r - 1) = Base(inc, r - 1) /\ Pos(inc, 0) = -1
      BY <2>2 DEF Base, Pos
    <3> DEFINE t == (r - 1) * open_buckets
    <3>2. -t <= -1 /\ t \in Int
      BY <1>0, <1>3, <1>4, <1>7, <2>2, <3>1 DEF Base
    <3>3. r - 1 # 0
      <4>1. r - 1 = 0 => t = 0
        BY <1>0
      <4> HIDE DEF t
      <4> QED
        BY <3>2, <4>1
    <3>4. r - 1 \in Nat /\ r - 1 >= 1 /\ r - 1 < Width
      BY <1>0, <1>2, <2>2, <3>3
    <3>5. (r - 1) % Width = r - 1
      BY <1>0, <3>4
    <3> QED
      BY <1>0, <2>2, <3>4, <3>5
  <2> QED
    BY <2>1, <2>2
<1>9. b1 = Base(inc, range) /\ range \in Nat /\ b1 \in Int
  <2>1. range \in Nat
    BY <1>0, <1>8
  <2>2. b1 \in Int
    BY <1>0, <1>3
  <2> QED
    BY <1>4, <1>8, <2>1, <2>2
<1>10. /\ home \in [Ids -> (0..open_buckets) \cup {null_bkt}]
       /\ \A i \in Ids : home[i] = IF d[i] = null_bkt THEN null_bkt
                                   ELSE Slot(b1, Pos(inc, d[i]))
  <2> HIDE DEF range, b1
  <2> QED
    BY <1>3, <1>8, <1>9, HomesAre
<1>11. ASSUME NEW k \in 0..open_buckets, NEW i \in Ids, bkts[k][i] = 1
       PROVE  k = open_buckets /\ d[i] # null_bkt
  <2>1. cur_bkt <= k /\ k # cur_bkt /\ d[i] # null_bkt
    BY <1>2, <1>11 DEF Filing
  <2> QED
    BY <1>0, <1>2, <2>1 DEF Filed
<1>12. /\ rest \in Buckets01 /\ \A k \in 0..open_buckets, i \in Ids : rest[k][i] # 1
       /\ CopyCount(rest) = CopyCount(bkts) - Size(tmp)
  <2>1. /\ rest \in Buckets01
        /\ \A k \in 0..open_buckets, i \in Ids :
             rest[k][i] = 1 <=> k # open_buckets /\ bkts[k][i] = 1
        /\ CopyCount(rest) = CopyCount(bkts) - Size(tmp)
    BY <1>0, <1>3, DropBucket
  <2> HIDE DEF rest
  <2> QED
    BY <1>11, <2>1
<1>13. /\ nb = UpdateBkts(rest, tmp, home)
       /\ num_elms' = num_elms + Placed(tmp, home) - Size(tmp)
       /\ cur_bkt' = 0
       /\ cur_range' = IF /\ Placed(tmp, home) - Size(nb[open_buckets]) = 0
                          /\ nb[open_buckets] # NoCopies
                       THEN JumpBefore(nb[open_buckets]) ELSE range
  BY Zenon DEF Unpack
<1> DEFINE P == {i \in M : home[i] # null_bkt}
<1>14. Placed(Once(M), home) = Cardinality(P) /\ Size(Once(M)) = Cardinality(M)
  <2> HIDE DEF M, home
  <2> QED
    BY <1>0, <1>5, PlacedIs
<1>15. Suits(rest, M, home)
  <2> HIDE DEF rest, M, home
  <2> QED
    BY <1>5, <1>10, <1>12 DEF Suits
<1>16. /\ HaveMoved(rest, M, home, nb)
       /\ CopyCount(nb) = CopyCount(rest) + Placed(tmp, home)
  <2>1. nb = UpdateBkts(rest, Once(M), home) /\ tmp = Once(M)
    BY <1>5, <1>13
  <2> HIDE DEF rest, M, home, tmp
  <2> QED
    BY <1>0, <1>15, <2>1, PlaceCopies
<1>17. IsFiniteSet(M) /\ IsFiniteSet(P) /\ P \subseteq M
  <2>1. IsFiniteSet(M)
    BY <1>0, <1>5, FS_Subset
  <2> HIDE DEF M
  <2> QED
    BY <2>1, FS_Subset
<1>18. num_elms' = CopyCount(nb)
  <2> DEFINE n == CopyCount(bkts)
             p == Placed(tmp, home)
             z == Size(tmp)
  <2>1. p \in Nat /\ z \in Nat
    BY <1>5, <1>14, <1>17, FS_CardinalityType
  <2>2. n \in Nat
    BY <1>0, <1>3, NothingCounted
  <2>3. num_elms = n /\ num_elms' = num_elms + p - z /\ CopyCount(nb) = n - z + p
    BY <1>2, <1>12, <1>13, <1>16
  <2> HIDE DEF n, p, z
  <2> QED
    BY <2>1, <2>2, <2>3
<1> HIDE DEF rest
<1>19. ASSUME NEW k \in 0..open_buckets, NEW i \in Ids
       PROVE  nb[k][i] = 1 <=> /\ bkts[open_buckets][i] = 1
                               /\ k = Slot(b1, Pos(inc, d[i]))
  <2>1. nb[k][i] = 1 <=> i \in M /\ home[i] = k
    BY <1>12, <1>16 DEF HaveMoved
  <2>2. i \in M <=> bkts[open_buckets][i] = 1
    BY DEF Ones
  <2>3. bkts[open_buckets][i] = 1 => d[i] # null_bkt /\ home[i] = Slot(b1, Pos(inc, d[i]))
    BY <1>0, <1>10, <1>11
  <2> HIDE DEF M, home, b1, nb
  <2> QED
    BY <2>1, <2>2, <2>3
<1>20. nb \in Buckets01
  BY <1>16 DEF HaveMoved
<1>21. Filed(inc, b1, 0, d, nb, held) /\ Filing(inc, b1, 0, d, nb, held)
  <2> HIDE DEF inc, b, nb
  <2> QED
    BY <1>2, <1>19, <1>20, FilingUnpack
<1>22. ASSUME NEW i \in Ids, nb[open_buckets][i] = 1
       PROVE  d[i] # null_bkt /\ b1 + open_buckets <= Pos(inc, d[i])
  <2>1. bkts[open_buckets][i] = 1 /\ open_buckets = Slot(b1, Pos(inc, d[i]))
    BY <1>0, <1>19, <1>22
  <2>2. d[i] # null_bkt /\ Pos(inc, d[i]) \in Int
    BY <1>0, <1>1, <1>3, <1>11, <2>1, Positions
  <2> HIDE DEF b1
  <2> QED
    BY <1>9, <2>1, <2>2, Slots
<1>23. ASSUME NEW x \in Int, NEW i \in Ids, d[i] # null_bkt, x <= Pos(inc, d[i])
       PROVE  x <= Pos(inc, IF inc THEN MaxKey ELSE 0)
  <2>1. /\ Pos(inc, d[i]) \in Int
        /\ Pos(inc, d[i]) <= Pos(inc, IF inc THEN MaxKey ELSE 0)
    BY <1>1, <1>3, <1>23, Positions
  <2>2. Pos(inc, IF inc THEN MaxKey ELSE 0) \in Int
    BY <1>0 DEF Pos
  <2> QED
    BY <1>23, <2>1, <2>2
<1>24. \E q \in 0..(Width - 1) :
         /\ cur_range' = q /\ (inc \/ q >= 1)
         /\ Filed(inc, Base(inc, q), 0, d, nb, held)
         /\ Filing(inc, Base(inc, q), 0, d, nb, held)
         /\ Ranged(inc, Base(inc, q), nb)
  <2>1. CASE cur_range' = range
    <3>1. b1 + open_buckets \in Int
      BY <1>0, <1>9
    <3>2. Ranged(inc, b1, nb)
      BY <1>22, <1>23, <3>1 DEF Ranged
    <3> HIDE DEF range, b1
    <3> QED
      BY <1>8, <1>9, <1>21, <2>1, <3>2
  <2>2. CASE /\ Placed(tmp, home) - Size(nb[open_buckets]) = 0
             /\ nb[open_buckets] # NoCopies
             /\ cur_range' = JumpBefore(nb[open_buckets])
    <3> DEFINE f == nb[open_buckets]
               q == JumpBefore(f)
               b2 == Base(inc, q)
    <3>1. f \in [Ids -> {0, 1}] /\ f # NoCopies
      BY <1>0, <1>20, <2>2 DEF Buckets01
    <3>2. \A i \in Ids : f[i] = 1 =>
            d[i] # null_bkt /\ Base(increasing, range) + open_buckets <= Pos(increasing, d[i])
      BY <1>9, <1>22
    <3>3. /\ q \in 0..(Width - 1) /\ (inc \/ q >= 1)
          /\ Base(inc, range) <= b2
          /\ \A i \in Ids : f[i] = 1 => b2 + open_buckets <= Pos(inc, d[i])
      <4> HIDE DEF f, range
      <4> QED
        BY <1>3, <1>8, <3>1, <3>2, JumpIs
    <3>4. b2 \in Int
      <4> HIDE DEF q
      <4>1. q \in Int
        BY <1>0, <3>3
      <4> QED
        BY <1>1, <4>1, Bases
    <3>5. Cardinality(P) = Cardinality(Ones(f))
      <4>1. Size(f) = Cardinality(Ones(f)) /\ IsFiniteSet(Ones(f))
        BY <1>0, <3>1, SizeOn
      <4>2. Placed(tmp, home) = Cardinality(P)
        BY <1>5, <1>14
      <4>3. Cardinality(P) - Cardinality(Ones(f)) = 0
        BY <2>2, <4>1, <4>2
      <4> HIDE DEF P, f
      <4> QED
        BY <1>17, <4>1, <4>3, FS_CardinalityType
    <3>6. Ones(f) \subseteq P
      BY <1>0, <1>12, <1>16 DEF Ones, HaveMoved
    <3>7. Ones(f) = P
      <4> HIDE DEF P, f
      <4> QED
        BY <1>17, <3>5, <3>6, FS_Subset
    <3>8. ASSUME NEW k \in 0..open_buckets, NEW i \in Ids, nb[k][i] = 1
          PROVE  k = open_buckets /\ b2 + open_buckets <= Pos(inc, d[i])
      <4>1. i \in M /\ home[i] = k
        BY <1>12, <1>16, <3>8 DEF HaveMoved
      <4>2. i \in P
        <5> HIDE DEF M, home
        <5> QED
          BY <1>0, <4>1
      <4>3. f[i] = 1
        BY <3>7, <4>2 DEF Ones
      <4>4. home[i] = open_buckets
        BY <1>0, <1>12, <1>16, <4>3 DEF HaveMoved
      <4> QED
        BY <3>3, <4>1, <4>3, <4>4
    <3>9. b1 <= b2
      BY <1>9, <3>3
    <3>10. Filed(inc, b2, 0, d, nb, held) /\ Filing(inc, b2, 0, d, nb, held)
      <4> HIDE DEF b1, b2, nb, inc
      <4> QED
        BY <1>21, <3>4, <3>8, <3>9, FilingJump
    <3>11. Ranged(inc, b2, nb)
      <4>1. b2 + open_buckets \in Int
        BY <1>0, <3>4
      <4> HIDE DEF b2
      <4> QED
        BY <1>22, <1>23, <3>3, <4>1 DEF Ranged
    <3> QED
      BY <2>2, <3>3, <3>10, <3>11
  <2> QED
    BY <1>13, <2>1, <2>2
<1>25. base' = Base(inc, cur_range')
  BY <1>1 DEF base
<1>26. BucketsTyped'
  <2>1. client' \in Clients /\ ret' \in [id : Nat, ids : SUBSET Ids] /\ phase' = "next"
    BY <1>2
  <2>2. cur_range' \in 0..(Width - 1) /\ (inc \/ cur_range' >= 1)
    BY <1>24
  <2>3. Filed(inc, base', cur_bkt', d', bkts', held')
    BY <1>13, <1>24, <1>25
  <2> QED
    BY <1>1, <2>1, <2>2, <2>3 DEF BucketsTyped
<1>27. Filing(inc, base', cur_bkt', d', bkts', held') /\ Ranged(inc, base', bkts')
  BY <1>13, <1>24, <1>25
<1>28. Returned'
  BY DEF Returned
<1> QED
  BY <1>1, <1>18, <1>26, <1>27, <1>28 DEF IInv

\* _next_bucket keeps the invariant.
LEMMA AdvanceIInv ==
  ASSUME BucketsAssumption, IInv, Advance
  PROVE  IInv'
<1>0. open_buckets \in Nat \ {0}
  BY DEF BucketsAssumption
<1>1. \A i \in Ids : bkts[cur_bkt][i] # 1
  BY DEF Advance, NoCopies
<1>2. CASE cur_bkt + 1 = open_buckets /\ Unpack
  <2>1. /\ phase = "next" /\ num_elms > 0
        /\ UNCHANGED <<client, d, ret, phase, held>>
    BY DEF Advance
  <2> QED
    BY <1>1, <1>2, <2>1, UnpackIInv
<1>3. CASE /\ cur_bkt + 1 # open_buckets /\ cur_bkt' = cur_bkt + 1
           /\ UNCHANGED <<bkts, cur_range, num_elms>>
  <2>1. UNCHANGED <<client, d, ret, phase, held>> /\ phase = "next"
    BY DEF Advance
  <2>2. increasing' = increasing /\ base' = base
    BY <1>3, <2>1 DEF increasing, base
  <2>3. /\ Filed(increasing, base, cur_bkt, d, bkts, held)
        /\ Filing(increasing, base, cur_bkt, d, bkts, held)
    BY DEF IInv, BucketsTyped
  <2>4. /\ Filed(increasing, base, cur_bkt + 1, d, bkts, held)
        /\ Filing(increasing, base, cur_bkt + 1, d, bkts, held)
    BY <1>1, <1>3, <2>3, FilingNext
  <2>5. BucketsTyped'
    BY <1>3, <2>1, <2>2, <2>4 DEF IInv, BucketsTyped
  <2>6. Returned'
    BY <2>1 DEF Returned
  <2> QED
    BY <1>3, <2>1, <2>2, <2>4, <2>5, <2>6 DEF IInv
<1> QED
  BY <1>2, <1>3 DEF Advance

\* get_cur_bucket_num is the priority of the current bucket's position.
LEMMA CurrentIs ==
  ASSUME BucketsAssumption, NEW x \in Keys, cur_range \in Nat, cur_bkt \in Nat
  PROVE  x = GetCurBucketNum <=> Pos(increasing, x) = base + cur_bkt
<1>0. open_buckets \in Nat \ {0} /\ x \in Nat
  BY DEF BucketsAssumption, Keys
<1> DEFINE t == cur_range * open_buckets
<1>1. t \in Nat
  BY <1>0
<1>2. /\ GetCurBucketNum = IF increasing THEN t + cur_bkt ELSE t - cur_bkt - 1
      /\ base = IF increasing THEN t ELSE -t
  BY DEF GetCurBucketNum, base, Base
<1> HIDE DEF t
<1>3. CASE increasing
  <2>1. GetCurBucketNum = t + cur_bkt /\ base = t /\ Pos(increasing, x) = x
    BY <1>2, <1>3 DEF Pos
  <2> QED
    BY <1>0, <1>1, <2>1
<1>4. CASE ~increasing
  <2>1. GetCurBucketNum = t - cur_bkt - 1 /\ base = -t /\ Pos(increasing, x) = -x - 1
    BY <1>2, <1>4 DEF Pos
  <2> QED
    BY <1>0, <1>1, <2>1
<1> QED
  BY <1>3, <1>4

\* The order of the abstract specification is that of positions.
LEMMA OrderIs ==
  ASSUME BucketsAssumption, NEW x \in Keys, NEW y \in Keys
  PROVE  ~Promise!Before(x, y) <=> Pos(increasing, y) <= Pos(increasing, x)
<1>1. x \in Int /\ y \in Int
  BY DEF BucketsAssumption, Keys
<1> QED
  BY <1>1 DEF Promise!Before, Pos

\* get_cur_bucket takes all identifiers of the first priority, or drops copies that
\* have moved on.
LEMMA TakeIInv ==
  ASSUME BucketsAssumption, IInv, GetCurBucket
  PROVE  IInv' /\ [Promise!NextBucket]_(Promise!abstractVars)
<1>0. /\ open_buckets \in Nat \ {0} /\ MaxKey \in Nat /\ null_bkt \in Nat
      /\ Width \in Nat /\ IsFiniteSet(Ids) /\ null_bkt \notin Keys
  BY DEF BucketsAssumption, Keys
<1> DEFINE inc == increasing
           b == base
           nb == [bkts EXCEPT ![cur_bkt] = NoCopies]
           out == {i \in Ids : bkts[cur_bkt][i] > 0 /\ Current(i)}
<1>1. /\ Filed(inc, b, cur_bkt, d, bkts, held) /\ Filing(inc, b, cur_bkt, d, bkts, held)
      /\ num_elms = CopyCount(bkts) /\ Ranged(inc, b, bkts)
      /\ cur_range \in 0..(Width - 1) /\ (inc \/ cur_range >= 1) /\ client \in Clients
      /\ ret \in [id : Nat, ids : SUBSET Ids]
  BY DEF IInv, BucketsTyped
<1>2. /\ b \in Int /\ d \in [Ids -> Keys \cup {null_bkt}] /\ bkts \in Buckets01
      /\ held \in SUBSET Ids /\ cur_bkt \in 0..(open_buckets - 1)
      /\ cur_bkt \in 0..open_buckets /\ cur_bkt \in Nat /\ cur_range \in Nat /\ inc \in BOOLEAN
  <2>1. /\ b \in Int /\ d \in [Ids -> Keys \cup {null_bkt}] /\ bkts \in Buckets01
        /\ held \in SUBSET Ids /\ cur_bkt \in 0..(open_buckets - 1) /\ inc \in BOOLEAN
    BY <1>1 DEF Filed
  <2> HIDE DEF b, inc
  <2> QED
    BY <1>0, <1>1, <2>1
<1>3. /\ phase = "next" /\ num_elms' = num_elms - Size(bkts[cur_bkt]) /\ bkts' = nb
      /\ UNCHANGED <<client, d, cur_bkt, cur_range>>
      /\ \/ out = {} /\ UNCHANGED <<ret, phase, held>>
         \/ /\ out # {}
            /\ ret' = [id |-> GetCurBucketNum, ids |-> out]
            /\ held' = held \ out
            /\ phase' = IF \A i \in out : bkts[cur_bkt][i] = 1 THEN "update" ELSE "twice"
  BY Zenon DEF GetCurBucket
<1>4. inc' = inc /\ base' = b
  BY <1>3 DEF increasing, base
<1>5. /\ nb \in Buckets01 /\ CopyCount(nb) = CopyCount(bkts) - Size(bkts[cur_bkt])
      /\ \A k \in 0..open_buckets, i \in Ids : nb[k][i] = 1 <=> k # cur_bkt /\ bkts[k][i] = 1
  BY <1>0, <1>2, DropBucket
<1>6. ASSUME NEW i \in Ids
      PROVE  /\ bkts[cur_bkt][i] \in {0, 1}
             /\ bkts[cur_bkt][i] = 1 => d[i] \in Keys
             /\ d[i] \in Keys => (Current(i) <=> Pos(inc, d[i]) = b + cur_bkt)
  <2>1. bkts[cur_bkt][i] \in {0, 1}
    BY <1>2 DEF Buckets01
  <2>2. bkts[cur_bkt][i] = 1 => d[i] # null_bkt
    BY <1>1, <1>2 DEF Filing
  <2>3. bkts[cur_bkt][i] = 1 => d[i] \in Keys
    BY <1>2, <2>2
  <2>4. d[i] \in Keys => (Current(i) <=> Pos(inc, d[i]) = b + cur_bkt)
    BY <1>2, CurrentIs DEF Current
  <2> QED
    BY <2>1, <2>3, <2>4
<1>7. out = {i \in Ids : bkts[cur_bkt][i] = 1 /\ Pos(inc, d[i]) = b + cur_bkt}
  <2>1. ASSUME NEW i \in Ids
        PROVE  bkts[cur_bkt][i] > 0 /\ Current(i)
                 <=> bkts[cur_bkt][i] = 1 /\ Pos(inc, d[i]) = b + cur_bkt
    <3>1. bkts[cur_bkt][i] > 0 <=> bkts[cur_bkt][i] = 1
      BY <1>6
    <3> QED
      BY <1>6, <3>1
  <2> HIDE DEF inc, b
  <2> QED
    BY <2>1
<1> HIDE DEF nb, out
<1>8. /\ Filed(inc, b, cur_bkt, d, nb, held \ out) /\ Filing(inc, b, cur_bkt, d, nb, held \ out)
      /\ out = {i \in held : Pos(inc, d[i]) = b + cur_bkt}
  <2> HIDE DEF inc, b
  <2> QED
    BY <1>1, <1>5, <1>7, FilingTake
<1>9. held' = held \ out
  BY <1>3
<1>10. num_elms' = CopyCount(bkts')
  BY <1>1, <1>3, <1>5
<1>11. Ranged(inc, b, nb)
  <2>1. open_buckets \in 0..open_buckets
    BY <1>0
  <2> QED
    BY <1>1, <1>5, <2>1 DEF Ranged
<1>12. \A i \in out : bkts[cur_bkt][i] = 1 /\ i \in Ids
  BY <1>7
<1>13. out # {} =>
         /\ GetCurBucketNum \in Keys /\ Pos(inc, GetCurBucketNum) = b + cur_bkt
         /\ out = {i \in held : d[i] = GetCurBucketNum}
         /\ \E i \in held : d[i] = GetCurBucketNum
  <2> SUFFICES ASSUME out # {}
               PROVE  /\ GetCurBucketNum \in Keys /\ Pos(inc, GetCurBucketNum) = b + cur_bkt
                      /\ out = {i \in held : d[i] = GetCurBucketNum}
                      /\ \E i \in held : d[i] = GetCurBucketNum
    OBVIOUS
  <2>1. PICK i \in out : TRUE
    OBVIOUS
  <2>2. i \in Ids /\ i \in held /\ d[i] \in Keys /\ Pos(inc, d[i]) = b + cur_bkt
    BY <1>6, <1>8, <1>12
  <2>3. d[i] = GetCurBucketNum
    BY <1>2, <2>2, CurrentIs
  <2>4. ASSUME NEW j \in held PROVE Pos(inc, d[j]) = b + cur_bkt <=> d[j] = GetCurBucketNum
    <3>1. j \in Ids /\ d[j] # null_bkt
      BY <1>1, <1>2 DEF Filing
    <3>2. d[j] \in Keys
      BY <1>2, <3>1
    <3> QED
      BY <1>2, <3>2, CurrentIs
  <2>5. out = {j \in held : d[j] = GetCurBucketNum}
    <3> HIDE DEF inc, b
    <3> QED
      BY <1>8, <2>4
  <2> QED
    BY <2>2, <2>3, <2>5
<1>14. phase' = IF out = {} THEN "next" ELSE "update"
  BY <1>3, <1>12
<1>15. ret' \in [id : Nat, ids : SUBSET Ids]
  <2>1. CASE out = {}
    BY <1>1, <1>3, <2>1
  <2>2. CASE out # {}
    <3>1. GetCurBucketNum \in Nat
      BY <1>0, <1>13, <2>2 DEF Keys
    <3>2. out \in SUBSET Ids
      BY <1>12
    <3> QED
      BY <1>3, <2>2, <3>1, <3>2
  <2> QED
    BY <2>1, <2>2
<1>16. BucketsTyped'
  <2>1. Filed(inc, base', cur_bkt', d', bkts', held')
    BY <1>3, <1>4, <1>8, <1>9
  <2> QED
    BY <1>1, <1>3, <1>4, <1>14, <1>15, <2>1 DEF BucketsTyped
<1>17. Returned'
  <2>1. CASE out = {}
    BY <1>14, <2>1 DEF Returned
  <2>2. CASE out # {}
    <3>1. ret'.id = GetCurBucketNum /\ ret'.ids = out
      BY <1>3, <2>2
    <3>2. ret'.ids \cap held' = {}
      BY <1>9, <3>1
    <3> QED
      BY <1>3, <1>4, <1>13, <2>2, <3>1, <3>2 DEF Returned
  <2> QED
    BY <2>1, <2>2
<1>18. IInv'
  BY <1>3, <1>4, <1>8, <1>9, <1>10, <1>11, <1>16, <1>17 DEF IInv
<1>19. [Promise!NextBucket]_(Promise!abstractVars)
  <2>1. CASE out = {}
    BY <1>3, <1>4, <2>1 DEF Promise!abstractVars
  <2>2. CASE out # {}
    <3>1. PICK i \in held : d[i] = GetCurBucketNum
      BY <1>13, <2>2
    <3>2. ret' = [id |-> d[i], ids |-> {j \in held : d[j] = d[i]}] /\ held' = held \ ret'.ids
      BY <1>3, <1>9, <1>13, <2>2, <3>1
    <3>3. ASSUME NEW j \in held PROVE ~Promise!Before(d[j], d[i])
      <4>1. /\ j \in Ids /\ d[j] # null_bkt /\ b + cur_bkt <= Pos(inc, d[j])
        BY <1>1, <1>2 DEF Filing
      <4>2. d[j] \in Keys /\ d[i] \in Keys /\ Pos(inc, d[i]) = b + cur_bkt
        BY <1>2, <1>13, <2>2, <3>1, <4>1
      <4> QED
        BY <4>1, <4>2, OrderIs
    <3>4. Promise!First(d[i])
      BY <3>3 DEF Promise!First
    <3>5. UNCHANGED <<increasing, d>>
      BY <1>3, <1>4
    <3> QED
      BY <3>2, <3>4, <3>5, Zenon DEF Promise!NextBucket
  <2> QED
    BY <2>1, <2>2
<1> QED
  BY <1>18, <1>19

\* next_bucket says that no bucket remains when nothing is held.
LEMMA NoBucketsIInv ==
  ASSUME BucketsAssumption, IInv, NoBuckets
  PROVE  IInv' /\ Promise!NextBucket
<1>0. open_buckets \in Nat \ {0} /\ null_bkt \in Nat /\ IsFiniteSet(Ids)
  BY DEF BucketsAssumption
<1>1. /\ num_elms = 0 /\ ret' = [id |-> null_bkt, ids |-> {}] /\ phase' = "done"
      /\ UNCHANGED <<client, d, bkts, cur_bkt, cur_range, num_elms, held>>
  BY DEF NoBuckets
<1>2. increasing' = increasing /\ base' = base
  BY <1>1 DEF increasing, base
<1>3. /\ Filed(increasing, base, cur_bkt, d, bkts, held)
      /\ Filing(increasing, base, cur_bkt, d, bkts, held)
      /\ num_elms = CopyCount(bkts)
  BY DEF IInv, BucketsTyped
<1>4. /\ base \in Int /\ d \in [Ids -> Keys \cup {null_bkt}] /\ bkts \in Buckets01
      /\ held \in SUBSET Ids /\ cur_bkt \in 0..(open_buckets - 1) /\ increasing \in BOOLEAN
  BY <1>3 DEF Filed
<1>5. held = {}
  <2> SUFFICES ASSUME NEW i \in held PROVE FALSE
    OBVIOUS
  <2>1. i \in Ids /\ base + cur_bkt <= Pos(increasing, d[i])
        /\ bkts[Slot(base, Pos(increasing, d[i]))][i] = 1
    BY <1>3, <1>4 DEF Filing
  <2>2. Pos(increasing, d[i]) \in Int
    BY <1>4, <2>1, Positions
  <2>3. base <= Pos(increasing, d[i])
    BY <1>0, <1>4, <2>1, <2>2
  <2>4. Slot(base, Pos(increasing, d[i])) \in 0..open_buckets
    BY <1>4, <2>2, <2>3, Slots
  <2> QED
    BY <1>0, <1>1, <1>3, <1>4, <2>1, <2>4, NothingCounted
<1>6. BucketsTyped'
  BY <1>0, <1>1, <1>2 DEF IInv, BucketsTyped
<1>7. Returned'
  BY <1>1 DEF Returned
<1>8. IInv'
  BY <1>1, <1>2, <1>6, <1>7 DEF IInv
<1>9. Promise!NextBucket
  BY <1>1, <1>2, <1>5 DEF Promise!NextBucket
<1> QED
  BY <1>8, <1>9

\* The clients' moves: of a client with increasing priorities they are falls, of set
\* cover returns.
LEMMA MovesAre ==
  ASSUME BucketsAssumption, IInv, phase = "update", NEW new \in Moves
  PROVE  LET moved == IF client = "cover" THEN ret.ids ELSE {i \in Ids : new[i] # d[i]}
             dest == [i \in Ids |-> Destination(i, new[i])]
         IN /\ Suits(bkts, moved, dest)
            /\ CanMove(increasing, base, cur_bkt, d, bkts, new, moved, dest)
            /\ \A i \in moved \cap held : new[i] # null_bkt
            /\ \A i \in moved : new[i] # null_bkt => ~Promise!Before(new[i], ret.id)
<1>0. /\ open_buckets \in Nat \ {0} /\ MaxKey \in Nat /\ null_bkt \in Nat
      /\ null_bkt > MaxKey /\ null_bkt > open_buckets
      /\ Width \in Nat /\ IsFiniteSet(Ids) /\ null_bkt \notin Keys
      /\ client \in {"kcore", "wbfs", "cover"}
  BY DEF BucketsAssumption, Keys, IInv, BucketsTyped
<1> DEFINE inc == increasing
           b == base
           moved == IF client = "cover" THEN ret.ids ELSE {i \in Ids : new[i] # d[i]}
           dest == [i \in Ids |-> Destination(i, new[i])]
           k == ret.id
<1>1. /\ Filed(inc, b, cur_bkt, d, bkts, held) /\ Filing(inc, b, cur_bkt, d, bkts, held)
      /\ cur_range \in 0..(Width - 1) /\ (inc \/ cur_range >= 1)
      /\ ret \in [id : Nat, ids : SUBSET Ids]
      /\ k \in Keys /\ Pos(inc, k) = b + cur_bkt /\ ret.ids \cap held = {}
  BY DEF IInv, BucketsTyped, Returned
<1>2. /\ b \in Int /\ d \in [Ids -> Keys \cup {null_bkt}] /\ bkts \in Buckets01
      /\ held \in SUBSET Ids /\ cur_bkt \in 0..(open_buckets - 1)
      /\ inc \in BOOLEAN /\ cur_range \in Nat /\ b = Base(inc, cur_range)
  <2>1. /\ b \in Int /\ d \in [Ids -> Keys \cup {null_bkt}] /\ bkts \in Buckets01
        /\ held \in SUBSET Ids /\ cur_bkt \in 0..(open_buckets - 1) /\ inc \in BOOLEAN
    BY <1>1 DEF Filed
  <2>2. b = Base(inc, cur_range)
    BY DEF base
  <2> HIDE DEF b, inc
  <2> QED
    BY <1>0, <1>1, <2>1, <2>2
<1>3. new \in [Ids -> Keys \cup {null_bkt}] /\ \A i \in Ids : new[i] \in May(i)
  BY DEF Moves
<1>4. moved \in SUBSET Ids
  BY <1>1
<1>5. ASSUME NEW i \in Ids
      PROVE  /\ d[i] \in Keys \cup {null_bkt} /\ d[i] \in Nat
             /\ new[i] \in Keys \cup {null_bkt} /\ new[i] \in Nat
             /\ ToRange(d[i], cur_range) = Slot(b, Pos(inc, d[i]))
             /\ ToRange(new[i], cur_range) = Slot(b, Pos(inc, new[i]))
             /\ dest[i] = Destination(i, new[i])
  <2>1. d[i] \in Keys \cup {null_bkt} /\ new[i] \in Keys \cup {null_bkt}
    BY <1>2, <1>3
  <2>2. d[i] \in Nat /\ new[i] \in Nat
    BY <1>0, <2>1 DEF Keys
  <2> HIDE DEF b
  <2>3. ToRange(d[i], cur_range) = Slot(b, Pos(inc, d[i]))
    BY <1>1, <1>2, <2>2, ToRangeIs
  <2>4. ToRange(new[i], cur_range) = Slot(b, Pos(inc, new[i]))
    BY <1>1, <1>2, <2>2, ToRangeIs
  <2> QED
    BY <2>1, <2>2, <2>3, <2>4
<1> DEFINE s(i) == Slot(b, Pos(inc, new[i]))
           t(i) == Slot(b, Pos(inc, d[i]))
<1>6. ASSUME NEW i \in Ids
      PROVE  s(i) \in (0..open_buckets) \cup {null_bkt}
  <2>1. Pos(inc, new[i]) \in Int
    BY <1>2, <1>5, Positions
  <2> HIDE DEF b, inc
  <2> QED
    BY <1>2, <2>1 DEF Slot, BucketsAssumption
<1>7. ASSUME NEW i \in Ids
      PROVE  dest[i] = IF new[i] = null_bkt THEN null_bkt
                       ELSE IF client = "wbfs"
                       THEN IF s(i) # null_bkt
                               /\ (d[i] = null_bkt \/ t(i) # s(i) \/ s(i) = cur_bkt)
                            THEN s(i) ELSE null_bkt
                       ELSE IF inc /\ s(i) = open_buckets THEN null_bkt ELSE s(i)
  BY <1>5 DEF Destination, GetBucket, GetBucket2
<1>8. dest \in [Ids -> (0..open_buckets) \cup {null_bkt}]
  <2>1. \A i \in Ids : dest[i] \in (0..open_buckets) \cup {null_bkt}
    <3> HIDE DEF dest, s, t
    <3> QED
      BY <1>6, <1>7
  <2> QED
    BY <2>1
<1>9. CASE inc
  <2>1. client # "cover" /\ moved = {i \in Ids : new[i] # d[i]} /\ client \in {"kcore", "wbfs"}
    BY <1>0, <1>9 DEF increasing
  <2>2. k = b + cur_bkt /\ \A x : Pos(inc, x) = x
    BY <1>1, <1>9 DEF Pos
  <2>3. ASSUME NEW i \in moved
        PROVE  /\ i \in Ids /\ new[i] \in Keys /\ k <= new[i] /\ new[i] < d[i]
               /\ client = "kcore" => i \in held
    <3>1. i \in Ids /\ new[i] # d[i] /\ new[i] \in May(i)
      BY <1>3, <2>1
    <3> QED
      BY <2>1, <3>1 DEF May
  <2>4. ASSUME NEW i \in moved
        PROVE  d[i] = null_bkt \/ i \in held
    <3> SUFFICES ASSUME d[i] # null_bkt, i \notin held PROVE FALSE
      OBVIOUS
    <3>1. d[i] <= b + cur_bkt
      BY <1>1, <1>9, <2>3 DEF Filing
    <3> QED
      BY <1>2, <1>5, <2>2, <2>3, <3>1
  <2>5. ASSUME NEW i \in moved
        PROVE  /\ new[i] # null_bkt /\ b + cur_bkt <= new[i]
               /\ d[i] = null_bkt \/ (i \in held /\ new[i] < d[i])
               /\ \/ dest[i] = Slot(b, new[i])
                  \/ i \in held /\ Slot(b, d[i]) = Slot(b, new[i])
               /\ dest[i] # null_bkt =>
                    /\ dest[i] = Slot(b, new[i])
                    /\ dest[i] = open_buckets /\ i \in held => Slot(b, d[i]) # open_buckets
    <3>1. i \in Ids /\ new[i] # null_bkt
      BY <1>0, <2>3
    <3>2. b + cur_bkt <= new[i] /\ new[i] \in Nat /\ d[i] \in Nat /\ new[i] < d[i]
      BY <1>5, <2>2, <2>3, <3>1
    <3>3. d[i] = null_bkt \/ i \in held
      BY <2>4
    <3>4. s(i) = Slot(b, new[i]) /\ t(i) = Slot(b, d[i])
      BY <2>2
    <3>5. b <= new[i] /\ new[i] \in Int /\ d[i] \in Int
      <4> HIDE DEF b
      <4> QED
        BY <1>2, <3>2
    <3>6. s(i) \in 0..open_buckets /\ (s(i) = open_buckets => t(i) = open_buckets)
      <4> HIDE DEF b, s, t
      <4>1. s(i) \in 0..open_buckets
        BY <1>2, <3>4, <3>5, Slots
      <4>2. s(i) = open_buckets => b + open_buckets <= new[i]
        BY <1>2, <3>4, <3>5, Slots
      <4>3. s(i) = open_buckets => b + open_buckets <= d[i]
        BY <1>0, <1>2, <3>2, <3>5, <4>2
      <4> QED
        BY <1>2, <3>4, <3>5, <4>1, <4>3, Slots
    <3>7. s(i) # null_bkt
      BY <1>0, <3>6
    <3>8. CASE client = "kcore"
      <4>1. i \in held
        BY <2>3, <3>8
      <4>2. dest[i] = IF s(i) = open_buckets THEN null_bkt ELSE s(i)
        BY <1>7, <1>9, <3>1, <3>8
      <4> HIDE DEF dest, s, t, b
      <4> QED
        BY <1>0, <3>1, <3>2, <3>4, <3>6, <3>7, <4>1, <4>2
    <3>9. CASE client = "wbfs"
      <4>1. dest[i] = IF d[i] = null_bkt \/ t(i) # s(i) \/ s(i) = cur_bkt
                      THEN s(i) ELSE null_bkt
        BY <1>7, <3>1, <3>7, <3>9
      <4>2. cur_bkt # open_buckets
        BY <1>0, <1>2
      <4>3. i \in held => d[i] # null_bkt
        BY <1>1 DEF Filing
      <4> HIDE DEF dest, s, t, b
      <4>4. dest[i] = open_buckets /\ i \in held => t(i) # open_buckets
        BY <1>0, <3>7, <4>1, <4>2, <4>3
      <4> QED
        BY <3>1, <3>2, <3>3, <3>4, <3>7, <4>1, <4>4
    <3> QED
      BY <2>1, <3>8, <3>9
  <2>6. \A i \in Ids \ moved : new[i] = d[i]
    BY <2>1
  <2> HIDE DEF moved, dest, s, t
  <2>7. Falls(b, cur_bkt, d, held, new, moved, dest)
    BY <1>3, <1>4, <1>8, <2>5, <2>6, Zenon DEF Falls
  <2>8. Suits(bkts, moved, dest) /\ CanMove(inc, b, cur_bkt, d, bkts, new, moved, dest)
    <3>1. inc = TRUE
      BY <1>9
    <3> HIDE DEF inc, b
    <3> QED
      BY <1>1, <2>7, <3>1, FallsFits
  <2>9. ASSUME NEW i \in moved PROVE new[i] # null_bkt /\ ~Promise!Before(new[i], k)
    <3>1. new[i] \in Keys /\ k <= new[i]
      BY <2>3
    <3>2. Pos(inc, k) <= Pos(inc, new[i])
      BY <2>2, <3>1
    <3> QED
      BY <1>0, <1>1, <3>1, <3>2, OrderIs
  <2> QED
    BY <2>8, <2>9 DEF moved, dest
<1>10. CASE ~inc
  <2>1. client = "cover" /\ moved = ret.ids
    BY <1>10 DEF increasing
  <2>2. ASSUME NEW i \in moved
        PROVE  i \in Ids /\ (new[i] = null_bkt \/ (new[i] \in Keys /\ new[i] <= k))
    <3>1. i \in Ids /\ i \in ret.ids /\ new[i] \in May(i)
      BY <1>3, <1>4, <2>1
    <3> QED
      BY <2>1, <3>1 DEF May
  <2>3. ASSUME NEW i \in Ids \ moved PROVE new[i] = d[i]
    <3>1. i \notin ret.ids /\ new[i] \in May(i)
      BY <1>3, <2>1, <2>3
    <3> QED
      BY <2>1, <3>1 DEF May
  <2>4. ASSUME NEW i \in moved, new[i] # null_bkt
        PROVE  /\ b + cur_bkt <= Pos(inc, new[i]) /\ dest[i] = s(i)
               /\ ~Promise!Before(new[i], k)
    <3>1. i \in Ids /\ new[i] \in Keys /\ new[i] <= k /\ new[i] \in Nat /\ k \in Nat
      BY <1>1, <1>5, <2>2, <2>4
    <3>2. Pos(inc, new[i]) = -new[i] - 1 /\ Pos(inc, k) = -k - 1
      BY <1>10 DEF Pos
    <3>3. Pos(inc, k) <= Pos(inc, new[i])
      BY <3>1, <3>2
    <3>4. dest[i] = s(i)
      BY <1>7, <1>10, <2>1, <2>4, <3>1
    <3> QED
      BY <1>1, <3>1, <3>3, <3>4, OrderIs
  <2>5. ASSUME NEW i \in moved
        PROVE  IF new[i] = null_bkt THEN dest[i] = null_bkt
               ELSE /\ b + cur_bkt <= Pos(FALSE, new[i])
                    /\ dest[i] = Slot(b, Pos(FALSE, new[i]))
    <3>1. CASE new[i] = null_bkt
      BY <1>7, <2>2, <3>1
    <3>2. CASE new[i] # null_bkt
      <4>1. Pos(FALSE, new[i]) = Pos(inc, new[i])
        BY <1>10 DEF Pos
      <4> HIDE DEF dest
      <4> QED
        BY <2>4, <3>2, <4>1
    <3> QED
      BY <3>1, <3>2
  <2>6. moved \cap held = {}
    BY <1>1, <2>1
  <2> HIDE DEF moved, dest, s, t
  <2>7. Returns(b, cur_bkt, d, held, new, moved, dest)
    BY <1>3, <1>4, <1>8, <2>3, <2>5, <2>6, Zenon DEF Returns
  <2>8. Suits(bkts, moved, dest) /\ CanMove(inc, b, cur_bkt, d, bkts, new, moved, dest)
    <3>1. inc = FALSE
      BY <1>10
    <3> HIDE DEF inc, b
    <3> QED
      BY <1>1, <2>7, <3>1, ReturnsFits
  <2> QED
    BY <2>4, <2>6, <2>8 DEF moved, dest
<1> QED
  BY <1>9, <1>10

\* update_buckets by a client keeps the invariant, and moves identifiers as the
\* abstract specification allows.
LEMMA UpdateIInv ==
  ASSUME BucketsAssumption, IInv, UpdateBuckets
  PROVE  IInv' /\ Promise!UpdateBuckets
<1>0. /\ open_buckets \in Nat \ {0} /\ MaxKey \in Nat /\ null_bkt \in Nat
      /\ IsFiniteSet(Ids) /\ null_bkt \notin Keys /\ open_buckets \in 0..open_buckets
  BY DEF BucketsAssumption, Keys
<1>1. /\ phase = "update" /\ phase' = "next"
      /\ UNCHANGED <<client, cur_bkt, cur_range, ret>>
  BY DEF UpdateBuckets
<1>2. PICK new \in Moves :
        LET moved == IF client = "cover" THEN ret.ids ELSE {i \in Ids : new[i] # d[i]}
            dest == [i \in Ids |-> Destination(i, new[i])]
        IN /\ d' = new
           /\ bkts' = UpdateBkts(bkts, Once(moved), dest)
           /\ num_elms' = num_elms + Placed(Once(moved), dest)
           /\ held' = held \cup {i \in moved : new[i] # null_bkt}
  BY Zenon DEF UpdateBuckets
<1> DEFINE inc == increasing
           b == base
           moved == IF client = "cover" THEN ret.ids ELSE {i \in Ids : new[i] # d[i]}
           dest == [i \in Ids |-> Destination(i, new[i])]
           g == held \cup {i \in moved : new[i] # null_bkt}
           nb == UpdateBkts(bkts, Once(moved), dest)
<1>3. /\ Suits(bkts, moved, dest)
      /\ CanMove(inc, b, cur_bkt, d, bkts, new, moved, dest)
      /\ \A i \in moved \cap held : new[i] # null_bkt
      /\ \A i \in moved : new[i] # null_bkt => ~Promise!Before(new[i], ret.id)
  BY <1>1, MovesAre
<1>4. /\ d' = new /\ bkts' = nb /\ held' = g
      /\ num_elms' = num_elms + Placed(Once(moved), dest)
  BY <1>2
<1>5. inc' = inc /\ base' = b
  BY <1>1 DEF increasing, base
<1>6. /\ Filed(inc, b, cur_bkt, d, bkts, held) /\ Filing(inc, b, cur_bkt, d, bkts, held)
      /\ num_elms = CopyCount(bkts) /\ Ranged(inc, b, bkts) /\ BucketsTyped /\ Returned
  BY DEF IInv, BucketsTyped
<1>7. b \in Int /\ inc \in BOOLEAN /\ bkts \in Buckets01
  BY <1>6 DEF Filed
<1> HIDE DEF moved, dest
<1>8. /\ Filed(inc, b, cur_bkt, new, nb, g) /\ Filing(inc, b, cur_bkt, new, nb, g)
      /\ CopyCount(nb) = CopyCount(bkts) + Placed(Once(moved), dest)
  <2> HIDE DEF inc, b
  <2> QED
    BY <1>0, <1>3, <1>6, UpdateFiles
<1>9. HaveMoved(bkts, moved, dest, nb)
  BY <1>0, <1>3, PlaceCopies
<1> HIDE DEF nb
<1>10. Ranged(inc, b, nb)
  <2> SUFFICES ASSUME NEW i \in Ids, nb[open_buckets][i] = 1
               PROVE  b + open_buckets <= Pos(inc, IF inc THEN MaxKey ELSE 0)
    BY DEF Ranged
  <2>1. CASE bkts[open_buckets][i] = 1
    BY <1>6, <2>1 DEF Ranged
  <2>2. CASE i \in moved /\ dest[i] = open_buckets
    <3>1. new[i] # null_bkt /\ open_buckets = Slot(b, Pos(inc, new[i]))
      BY <1>0, <1>3, <2>2 DEF CanMove
    <3>2. new[i] \in Keys \cup {null_bkt}
      BY <1>3 DEF CanMove
    <3>3. /\ Pos(inc, new[i]) \in Int
          /\ Pos(inc, new[i]) <= Pos(inc, IF inc THEN MaxKey ELSE 0)
      BY <1>7, <3>1, <3>2, Positions
    <3>4. Pos(inc, IF inc THEN MaxKey ELSE 0) \in Int
      BY <1>0 DEF Pos
    <3> HIDE DEF b, inc
    <3>5. b + open_buckets <= Pos(inc, new[i])
      BY <1>7, <3>1, <3>3, Slots
    <3> QED
      BY <1>0, <1>7, <3>3, <3>4, <3>5
  <2> QED
    BY <1>0, <1>9, <2>1, <2>2 DEF HaveMoved
<1>11. BucketsTyped'
  <2>1. Filed(inc, base', cur_bkt', d', bkts', held')
    BY <1>1, <1>4, <1>5, <1>8
  <2> QED
    BY <1>1, <1>5, <1>6, <2>1 DEF BucketsTyped
<1>12. Returned'
  BY <1>1 DEF Returned
<1>13. num_elms' = CopyCount(bkts')
  BY <1>4, <1>6, <1>8
<1>14. IInv'
  BY <1>1, <1>4, <1>5, <1>8, <1>10, <1>11, <1>12, <1>13 DEF IInv
<1>15. Promise!UpdateBuckets
  <2>1. moved \in SUBSET Ids /\ \A i \in Ids \ moved : d'[i] = d[i]
    BY <1>3, <1>4 DEF CanMove
  <2>2. held' = (held \ moved) \cup {i \in moved : d'[i] # null_bkt}
    BY <1>3, <1>4
  <2>3. ASSUME NEW i \in held' \cap moved
        PROVE  ret.id # null_bkt /\ ~Promise!Before(d'[i], ret.id)
    <3>1. d'[i] # null_bkt
      BY <2>2
    <3>2. ret.id # null_bkt
      BY <1>0, <1>1, <1>6 DEF Returned
    <3> QED
      BY <1>3, <1>4, <3>1, <3>2
  <2>4. UNCHANGED <<increasing, ret>>
    BY <1>1, <1>5
  <2> QED
    BY <2>1, <2>2, <2>3, <2>4, Zenon DEF Promise!UpdateBuckets
<1> QED
  BY <1>14, <1>15

\* Every step keeps the invariant, and is one of the abstract specification or of
\* its stutters.
LEMMA StepIInv ==
  ASSUME BucketsAssumption, IInv, [BucketsNext]_bucketVars
  PROVE  IInv' /\ [Promise!Next]_(Promise!abstractVars)
<1>1. CASE Advance
  <2>1. IInv'
    BY <1>1, AdvanceIInv
  <2>2. UNCHANGED <<client, d, ret, held>>
    BY <1>1 DEF Advance
  <2> QED
    BY <2>1, <2>2 DEF Promise!abstractVars, increasing
<1>2. CASE GetCurBucket
  BY <1>2, TakeIInv DEF Promise!Next
<1>3. CASE NoBuckets
  BY <1>3, NoBucketsIInv DEF Promise!Next
<1>4. CASE UpdateBuckets
  BY <1>4, UpdateIInv DEF Promise!Next
<1>5. CASE UNCHANGED bucketVars
  <2>1. UNCHANGED <<client, d, bkts, cur_bkt, cur_range, num_elms, ret, phase, held>>
    BY <1>5 DEF bucketVars
  <2>2. increasing' = increasing /\ base' = base
    BY <2>1 DEF increasing, base
  <2>3. IInv'
    BY <2>1, <2>2 DEF IInv, BucketsTyped, Returned
  <2> QED
    BY <2>1, <2>2, <2>3 DEF Promise!abstractVars
<1> QED
  BY <1>1, <1>2, <1>3, <1>4, <1>5 DEF BucketsNext

\* The copies and the range are always as the invariant says.
THEOREM BucketsInvariance == ASSUME BucketsAssumption PROVE BucketsSpec => []IInv
<1>1. BucketsInit => IInv
  BY InitIInv
<1>2. IInv /\ [BucketsNext]_bucketVars => IInv'
  BY StepIInv
<1> QED
  BY <1>1, <1>2, PTL DEF BucketsSpec

\* bucket.h: next_bucket returns every identifier of the first priority that is left
\* and no other, however lazily they were moved and whatever the clients' order.
THEOREM BucketsImplementPriorities ==
  ASSUME BucketsAssumption PROVE BucketsSpec => ImplementsPriorityBuckets
<1>1. BucketsInit => Promise!Init
  BY DEF BucketsInit, Promise!Init, increasing
<1>2. IInv /\ [BucketsNext]_bucketVars => [Promise!Next]_(Promise!abstractVars)
  BY StepIInv
<1> QED
  BY <1>1, <1>2, BucketsInvariance, PTL
  DEF BucketsSpec, ImplementsPriorityBuckets, Promise!Spec

\* bucket.h: num_elms is the number of copies in all buckets, all of them are in the
\* overflow bucket when unpack() asserts so, and none is returned twice.
THEOREM CopiesStayAccounted ==
  ASSUME BucketsAssumption PROVE BucketsSpec => []CopiesAccounted
<1>1. IInv => CopiesAccounted
  <2> SUFFICES ASSUME IInv PROVE CopiesAccounted
    OBVIOUS
  <2>0. open_buckets \in Nat \ {0} /\ IsFiniteSet(Ids) /\ open_buckets \in 0..open_buckets
    BY DEF BucketsAssumption
  <2>1. /\ bkts \in Buckets01 /\ num_elms = CopyCount(bkts) /\ phase # "twice"
        /\ Filing(increasing, base, cur_bkt, d, bkts, held)
        /\ cur_bkt \in 0..(open_buckets - 1)
    BY DEF IInv, BucketsTyped, Filed
  <2>2. num_elms = Cardinality(UNION {{k} \X Copies(bkts[k]) : k \in 0..open_buckets})
    BY <2>1 DEF CopyCount
  <2>3. ASSUME cur_bkt + 1 = open_buckets, bkts[cur_bkt] = NoCopies
        PROVE  num_elms = Size(bkts[open_buckets])
    <3> DEFINE rest == [bkts EXCEPT ![open_buckets] = NoCopies]
    <3>1. /\ rest \in Buckets01 /\ CopyCount(rest) = CopyCount(bkts) - Size(bkts[open_buckets])
          /\ \A k \in 0..open_buckets, i \in Ids :
               rest[k][i] = 1 <=> k # open_buckets /\ bkts[k][i] = 1
      BY <2>0, <2>1, DropBucket
    <3> HIDE DEF rest
    <3>2. ASSUME NEW k \in 0..open_buckets, NEW i \in Ids, rest[k][i] = 1 PROVE FALSE
      <4>1. k # open_buckets /\ bkts[k][i] = 1
        BY <3>1, <3>2
      <4>2. cur_bkt <= k
        BY <2>1, <4>1 DEF Filing
      <4>3. k = cur_bkt
        BY <2>0, <2>1, <2>3, <4>1, <4>2
      <4> QED
        BY <2>3, <4>1, <4>3 DEF NoCopies
    <3>3. CopyCount(rest) = 0
      BY <2>0, <3>1, <3>2, NothingCounted
    <3>4. CopyCount(bkts) \in Nat
      BY <2>0, <2>1, NothingCounted
    <3>5. bkts[open_buckets] \in [Ids -> {0, 1}]
      BY <2>0, <2>1 DEF Buckets01
    <3>6. Size(bkts[open_buckets]) \in Nat
      BY <2>0, <3>5, SizeOn, FS_CardinalityType
    <3> QED
      BY <2>1, <3>1, <3>3, <3>4, <3>6
  <2> QED
    BY <2>1, <2>2, <2>3 DEF CopiesAccounted
<1> QED
  BY <1>1, BucketsInvariance, PTL
=============================================================================
