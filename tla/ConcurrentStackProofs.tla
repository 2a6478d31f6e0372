------------------------- MODULE ConcurrentStackProofs -------------------------
(***************************************************************************)
(* Proofs about ConcurrentStack for every number of nodes and threads and  *)
(* all programs: no schedule loses a node or has one in two places, the    *)
(* memory stays proportional to the stack, and push and pop are            *)
(* linearizable.  The lists first, then the inductive invariant, then what *)
(* each kind of step does to it.                                           *)
(***************************************************************************)
EXTENDS ConcurrentStack, FunctionTheorems, FiniteSetTheorems, SequenceTheorems, WellFoundedInduction, TLAPS

USE DEF At, Goto

-----------------------------------------------------------------------------
(* Induction, with the predicate as a set: the backends cannot instantiate *)
(* the library's theorems, whose predicate is an operator.                 *)

\* A set of naturals that is not empty has a least element.
LEMMA LeastElement ==
  ASSUME NEW S, S \subseteq Nat, S # {}
  PROVE  \E m \in S : \A k \in S : m <= k
<1> DEFINE R == OpToRel(<, Nat)
<1>1. IsWellFoundedOn(R, Nat)
  BY NatLessThanWellFounded
<1>2. \A k, m \in Nat : m < k => <<m, k>> \in R
  BY DEF OpToRel
<1> HIDE DEF R
<1>3. PICK m \in S : \A k \in S : ~(<<k, m>> \in R)
  BY <1>1, WFMin
<1>4. ASSUME NEW k \in S PROVE m <= k
  <2>1. k \in Nat /\ m \in Nat
    OBVIOUS
  <2>2. ~(<<k, m>> \in R)
    BY <1>3
  <2>3. ~(k < m)
    BY <1>2, <2>1, <2>2, Zenon
  <2> QED
    BY <2>1, <2>3
<1> QED
  BY <1>4

\* A set with 0 and the successor of each member holds every natural.
LEMMA SetInduction ==
  ASSUME NEW S, 0 \in S, \A n \in Nat : n \in S => n + 1 \in S
  PROVE  \A n \in Nat : n \in S
<1> SUFFICES ASSUME NEW n \in Nat, n \notin S PROVE FALSE
  OBVIOUS
<1> DEFINE T == {k \in Nat : k \notin S}
<1>1. PICK m \in T : \A k \in T : m <= k
  <2>1. T \subseteq Nat /\ T # {}
    OBVIOUS
  <2> HIDE DEF T
  <2> QED
    BY <2>1, LeastElement
<1>2. m # 0 /\ m - 1 \in Nat
  BY <1>1
<1>3. m - 1 \in S
  BY <1>1, <1>2
<1> QED
  BY <1>1, <1>2, <1>3


-----------------------------------------------------------------------------
(* Linked lists.                                                           *)

Links == [Nodes -> Nodes \cup {Null}]

\* c is what nx links below n: every node once, and the last one has none below.
IsList(nx, n, c) ==
  /\ c \in Seq(Nodes)
  /\ n = IF c = <<>> THEN Null ELSE c[1]
  /\ \A i \in 1..Len(c) : nx[c[i]] = IF i < Len(c) THEN c[i + 1] ELSE Null
  /\ \A i, j \in 1..Len(c) : c[i] = c[j] => i = j

On(c) == {c[i] : i \in 1..Len(c)}

\* On is the library's Range.
LEMMA OnIsRange == ASSUME NEW c \in Seq(Nodes) PROVE On(c) = Range(c)
  BY DEF On, Range

\* A list has as many nodes as places, and no more than there are.
LEMMA ListSize ==
  ASSUME NEW nx, NEW n, NEW c, IsList(nx, n, c)
  PROVE  /\ IsFiniteSet(On(c)) /\ Cardinality(On(c)) = Len(c)
         /\ Len(c) \in 0..NumNodes /\ On(c) \subseteq Nodes
<1>1. c \in Seq(Nodes) /\ Len(c) \in Nat /\ \A i \in 1..Len(c) : c[i] \in Nodes
  BY DEF IsList
<1>2. ExistsBijection(1..Len(c), On(c))
  <2> DEFINE f == [i \in 1..Len(c) |-> c[i]]
  <2>1. f \in [1..Len(c) -> On(c)]
    BY DEF On
  <2>2. f \in Injection(1..Len(c), On(c))
    BY <2>1 DEF IsList, Injection, IsInjective
  <2>3. f \in Surjection(1..Len(c), On(c))
    BY <2>1 DEF On, Surjection
  <2>4. f \in Bijection(1..Len(c), On(c))
    BY <2>2, <2>3 DEF Bijection
  <2> QED
    BY <2>4 DEF ExistsBijection
<1>3. IsFiniteSet(1..Len(c)) /\ Cardinality(1..Len(c)) = Len(c)
  <2>1. 1 \in Int /\ Len(c) \in Int /\ (1 > Len(c) => Len(c) = 0)
    BY <1>1
  <2>2. IsFiniteSet(1..Len(c)) /\ Cardinality(1..Len(c)) = IF 1 > Len(c) THEN 0 ELSE Len(c) - 1 + 1
    BY <2>1, FS_Interval
  <2> QED
    BY <2>1, <2>2
<1>4. IsFiniteSet(On(c)) /\ Cardinality(On(c)) = Len(c)
  BY <1>2, <1>3, FS_Bijection
<1>5. NumNodes \in Nat /\ IsFiniteSet(Nodes) /\ Cardinality(Nodes) = NumNodes
  BY StackAssumption, FS_Interval DEF Nodes
<1>6. On(c) \subseteq Nodes
  BY <1>1 DEF On
<1>7. Cardinality(On(c)) <= Cardinality(Nodes)
  BY <1>5, <1>6, FS_Subset
<1> QED
  BY <1>1, <1>4, <1>5, <1>6, <1>7

\* f gives the first k nodes below each node, for k up to n, as Linked does.
Follows(nx, n, f) ==
  f = [k \in 0..n |->
         [m \in Nodes \cup {Null} |-> IF k = 0 \/ m = Null THEN <<>> ELSE <<m>> \o f[k - 1][nx[m]]]]

\* It exists: CHOOSE takes it, and no recursive definition is expanded.
LEMMA FollowsExist == ASSUME NEW nx, NEW n \in Nat PROVE \E f : Follows(nx, n, f)
<1> DEFINE S == {k \in Nat : \E f : Follows(nx, k, f)}
           Down(k, m, g) == IF k = 0 \/ m = Null THEN <<>> ELSE <<m>> \o g[nx[m]]
<1>1. 0 \in S
  <2> DEFINE f == [k \in 0..0 |-> [m \in Nodes \cup {Null} |-> <<>>]]
  <2>1. Follows(nx, 0, f)
    BY DEF Follows
  <2> QED
    BY <2>1
<1>2. ASSUME NEW k \in Nat, k \in S PROVE k + 1 \in S
  <2>1. PICK f : Follows(nx, k, f)
    BY <1>2
  <2> DEFINE new == [m \in Nodes \cup {Null} |-> IF m = Null THEN <<>> ELSE <<m>> \o f[k][nx[m]]]
             g == [l \in 0..(k + 1) |-> IF l = k + 1 THEN new ELSE f[l]]
  <2>2. ASSUME NEW l \in 0..(k + 1)
        PROVE  g[l] = [m \in Nodes \cup {Null} |-> IF l = 0 \/ m = Null THEN <<>> ELSE <<m>> \o g[l - 1][nx[m]]]
    <3>1. CASE l = k + 1
      <4>1. l # 0 /\ l - 1 = k /\ k # k + 1 /\ k \in 0..(k + 1)
        BY <3>1
      <4>2. g[l - 1] = f[k]
        BY <4>1
      <4>3. g[l] = new
        BY <3>1
      <4> HIDE DEF g
      <4> QED
        BY <4>1, <4>2, <4>3
    <3>2. CASE l \in 0..k
      <4>1. f[l] = [m \in Nodes \cup {Null} |-> IF l = 0 \/ m = Null THEN <<>> ELSE <<m>> \o f[l - 1][nx[m]]]
        BY <2>1, <3>2 DEF Follows
      <4>2. g[l] = f[l] /\ (l # 0 => g[l - 1] = f[l - 1])
        BY <3>2
      <4> HIDE DEF g
      <4> QED
        BY <4>1, <4>2
    <3> QED
      BY <3>1, <3>2
  <2>3. Follows(nx, k + 1, g)
    <3> HIDE DEF new
    <3> QED
      BY <2>2 DEF Follows
  <2> QED
    BY <2>3
<1> HIDE DEF S
<1>3. n \in S
  BY <1>1, <1>2, SetInduction
<1> QED
  BY <1>3 DEF S

Below(nx) == CHOOSE f : Follows(nx, NumNodes, f)

\* Following nx from n gives the list.
LEMMA LinkedIsList ==
  ASSUME NEW nx, NEW n, NEW c, IsList(nx, n, c) PROVE Linked(nx, n) = c
<1> DEFINE f == Below(nx)
<1>1. Linked(nx, n) = f[NumNodes][n]
  BY DEF Linked, Below, Follows
<1>2. NumNodes \in Nat
  BY StackAssumption
<1>3. Follows(nx, NumNodes, f)
  BY <1>2, FollowsExist DEF Below
<1> HIDE DEF f
<1>4. ASSUME NEW k \in 0..NumNodes, NEW m \in Nodes \cup {Null}
      PROVE  f[k][m] = IF k = 0 \/ m = Null THEN <<>> ELSE <<m>> \o f[k - 1][nx[m]]
  <2>1. f[k] = [l \in Nodes \cup {Null} |-> IF k = 0 \/ l = Null THEN <<>> ELSE <<l>> \o f[k - 1][nx[l]]]
    BY <1>3 DEF Follows
  <2> QED
    BY <2>1
<1>5. Len(c) \in 0..NumNodes /\ c \in Seq(Nodes) /\ \A i \in 1..Len(c) : c[i] \in Nodes
  <2>1. c \in Seq(Nodes)
    BY DEF IsList
  <2>2. Len(c) \in 0..NumNodes
    BY ListSize
  <2> QED
    BY <2>1, <2>2
\* From the place j above the end, k steps find the rest of the list.
<1> DEFINE at(j) == IF j = 0 THEN Null ELSE c[Len(c) - j + 1]
           S == {j \in Nat : j <= Len(c) => \A k \in j..NumNodes : f[k][at(j)] = SubSeq(c, Len(c) - j + 1, Len(c))}
<1>6. 0 \in S
  <2>1. \A k \in 0..NumNodes : f[k][Null] = <<>>
    BY <1>4
  <2>2. SubSeq(c, Len(c) + 1, Len(c)) = <<>>
    BY <1>5, SubSeqEmpty
  <2>3. Len(c) - 0 + 1 = Len(c) + 1
    BY <1>5
  <2> QED
    BY <2>1, <2>2, <2>3
<1>7. ASSUME NEW j \in Nat, j \in S PROVE j + 1 \in S
  <2> SUFFICES ASSUME j + 1 <= Len(c), NEW k \in (j + 1)..NumNodes
               PROVE  f[k][at(j + 1)] = SubSeq(c, Len(c) - j, Len(c))
    BY <1>5
  <2>1. /\ k \in 0..NumNodes /\ k # 0 /\ k - 1 \in j..NumNodes /\ j + 1 # 0
        /\ Len(c) - j \in 1..Len(c) /\ j <= Len(c) /\ Len(c) - (j + 1) + 1 = Len(c) - j
    BY <1>2, <1>5
  <2>2. at(j + 1) = c[Len(c) - j] /\ c[Len(c) - j] \in Nodes /\ c[Len(c) - j] # Null
    BY <1>5, <2>1 DEF Nodes, Null
  <2>3. nx[c[Len(c) - j]] = at(j)
    <3>1. nx[c[Len(c) - j]] = IF Len(c) - j < Len(c) THEN c[Len(c) - j + 1] ELSE Null
      BY <2>1 DEF IsList
    <3> QED
      BY <1>5, <3>1
  <2>4. f[k][at(j + 1)] = <<c[Len(c) - j]>> \o f[k - 1][at(j)]
    <3>1. at(j + 1) \in Nodes \cup {Null} /\ at(j + 1) # Null
      BY <2>2
    <3> HIDE DEF at
    <3> QED
      BY <1>4, <2>1, <2>2, <2>3, <3>1
  <2>5. f[k - 1][at(j)] = SubSeq(c, Len(c) - j + 1, Len(c))
    BY <1>7, <2>1
  <2>6. <<c[Len(c) - j]>> \o SubSeq(c, Len(c) - j + 1, Len(c)) = SubSeq(c, Len(c) - j, Len(c))
    BY <1>5, <2>1
  <2> QED
    BY <2>4, <2>5, <2>6
<1>8. Len(c) \in S
  <2> HIDE DEF S
  <2> QED
    BY <1>5, <1>6, <1>7, SetInduction
<1>9. f[NumNodes][at(Len(c))] = SubSeq(c, 1, Len(c))
  BY <1>2, <1>5, <1>8
<1>10. at(Len(c)) = n
  BY <1>5 DEF IsList
<1> QED
  BY <1>1, <1>5, <1>9, <1>10

\* The empty list.
LEMMA EmptyList ==
  ASSUME NEW nx
  PROVE  /\ IsList(nx, Null, <<>>) /\ On(<<>>) = {}
         /\ \A c : IsList(nx, Null, c) => c = <<>>
<1>1. IsList(nx, Null, <<>>) /\ On(<<>>) = {}
  BY DEF IsList, On
<1>2. ASSUME NEW c, IsList(nx, Null, c), c # <<>> PROVE FALSE
  <2>1. c \in Seq(Nodes) /\ c[1] = Null
    BY <1>2 DEF IsList
  <2>2. c[1] \in Nodes
    BY <1>2, <2>1
  <2> QED
    BY <2>1, <2>2 DEF Nodes, Null
<1> QED
  BY <1>1, <1>2

\* Taking the top off a list.
LEMMA ListPop ==
  ASSUME NEW nx, NEW n, NEW c, IsList(nx, n, c), n # Null
  PROVE  /\ c # <<>> /\ Head(c) = n /\ n \in On(c) /\ n \in Nodes
         /\ IsList(nx, nx[n], Tail(c))
         /\ On(Tail(c)) = On(c) \ {n}
         /\ Len(Tail(c)) = Len(c) - 1
         /\ \A i \in 1..Len(Tail(c)) : Tail(c)[i] = c[i + 1]
<1>1. c \in Seq(Nodes) /\ c # <<>> /\ n = c[1] /\ Len(c) \in Nat /\ Len(c) >= 1
  BY DEF IsList
<1>2. Head(c) = n /\ n \in Nodes /\ n \in On(c)
  BY <1>1 DEF On
<1>3. /\ Tail(c) \in Seq(Nodes) /\ Len(Tail(c)) = Len(c) - 1
      /\ \A i \in 1..Len(Tail(c)) : Tail(c)[i] = c[i + 1]
  BY <1>1, HeadTailProperties
<1>4. nx[n] = IF Tail(c) = <<>> THEN Null ELSE Tail(c)[1]
  <2>1. nx[n] = IF 1 < Len(c) THEN c[2] ELSE Null
    BY <1>1 DEF IsList
  <2>2. Tail(c) = <<>> <=> Len(Tail(c)) = 0
    BY <1>3, EmptySeq
  <2>3. 1 < Len(c) => 1 \in 1..Len(Tail(c)) /\ Tail(c)[1] = c[1 + 1]
    BY <1>1, <1>3
  <2> QED
    BY <1>1, <1>3, <2>1, <2>2, <2>3
<1>5. ASSUME NEW i \in 1..Len(Tail(c))
      PROVE  nx[Tail(c)[i]] = IF i < Len(Tail(c)) THEN Tail(c)[i + 1] ELSE Null
  <2>1. i + 1 \in 1..Len(c) /\ Tail(c)[i] = c[i + 1]
    BY <1>1, <1>3
  <2>2. nx[c[i + 1]] = IF i + 1 < Len(c) THEN c[i + 2] ELSE Null
    BY <2>1 DEF IsList
  <2> QED
    BY <1>1, <1>3, <2>1, <2>2
<1>6. \A i, j \in 1..Len(Tail(c)) : Tail(c)[i] = Tail(c)[j] => i = j
  BY <1>1, <1>3 DEF IsList
<1>7. On(Tail(c)) = On(c) \ {n}
  <2>1. \A i \in 1..Len(Tail(c)) : Tail(c)[i] \in On(c) /\ Tail(c)[i] # n
    BY <1>1, <1>3 DEF IsList, On
  <2>2. ASSUME NEW i \in 1..Len(c), c[i] # n PROVE c[i] \in On(Tail(c))
    <3>1. i - 1 \in 1..Len(Tail(c)) /\ Tail(c)[i - 1] = c[i]
      BY <1>1, <1>3, <2>2
    <3> QED
      BY <3>1 DEF On
  <2> QED
    BY <2>1, <2>2 DEF On
<1> QED
  BY <1>1, <1>2, <1>3, <1>4, <1>5, <1>6, <1>7 DEF IsList

\* Putting a node on top.
LEMMA ListPush ==
  ASSUME NEW nx, NEW n, NEW c, IsList(nx, n, c), NEW m \in Nodes, m \notin On(c), nx[m] = n
  PROVE  /\ IsList(nx, m, <<m>> \o c)
         /\ On(<<m>> \o c) = On(c) \cup {m}
         /\ Len(<<m>> \o c) = Len(c) + 1
         /\ (<<m>> \o c)[1] = m /\ \A i \in 1..Len(c) : (<<m>> \o c)[i + 1] = c[i]
<1> DEFINE d == <<m>> \o c
<1>1. c \in Seq(Nodes) /\ Len(c) \in Nat
  BY DEF IsList
<1>2. d \in Seq(Nodes) /\ Len(d) = Len(c) + 1 /\ d[1] = m /\ d # <<>>
  BY <1>1
<1>3. \A i \in 1..Len(c) : d[i + 1] = c[i]
  BY <1>1
<1> HIDE DEF d
<1>4. \A i \in 2..Len(d) : i - 1 \in 1..Len(c) /\ d[i] = c[i - 1]
  <2> SUFFICES ASSUME NEW i \in 2..Len(d) PROVE i - 1 \in 1..Len(c) /\ d[i] = c[i - 1]
    OBVIOUS
  <2>1. i - 1 \in 1..Len(c) /\ (i - 1) + 1 = i
    BY <1>1, <1>2
  <2> QED
    BY <1>3, <2>1
<1>5. ASSUME NEW i \in 1..Len(d) PROVE nx[d[i]] = IF i < Len(d) THEN d[i + 1] ELSE Null
  <2>1. CASE i = 1
    <3>1. n = IF c = <<>> THEN Null ELSE c[1]
      BY DEF IsList
    <3>2. c # <<>> => 1 \in 1..Len(c) /\ d[1 + 1] = c[1]
      BY <1>1, <1>3
    <3> QED
      BY <1>1, <1>2, <2>1, <3>1, <3>2
  <2>2. CASE i # 1
    <3>1. i \in 2..Len(d) /\ i - 1 \in 1..Len(c) /\ d[i] = c[i - 1]
      BY <1>1, <1>2, <1>4, <2>2
    <3>2. nx[c[i - 1]] = IF i - 1 < Len(c) THEN c[i - 1 + 1] ELSE Null
      BY <3>1 DEF IsList
    <3>3. i < Len(d) => i \in 1..Len(c) /\ d[i + 1] = c[i] /\ i - 1 + 1 = i
      BY <1>1, <1>2, <1>3, <3>1
    <3>4. (i < Len(d)) <=> (i - 1 < Len(c))
      BY <1>1, <1>2
    <3> QED
      BY <3>1, <3>2, <3>3, <3>4
  <2> QED
    BY <2>1, <2>2
<1>6. ASSUME NEW i \in 1..Len(d), NEW j \in 1..Len(d), d[i] = d[j] PROVE i = j
  <2>1. \A k \in 2..Len(d) : d[k] # m
    BY <1>4 DEF On
  <2>2. CASE i = 1 \/ j = 1
    BY <1>1, <1>2, <1>6, <2>1, <2>2
  <2>3. CASE i # 1 /\ j # 1
    <3>1. i \in 2..Len(d) /\ j \in 2..Len(d)
      BY <1>1, <1>2, <2>3
    <3>2. c[i - 1] = c[j - 1] /\ i - 1 \in 1..Len(c) /\ j - 1 \in 1..Len(c)
      BY <1>4, <1>6, <3>1
    <3>3. i - 1 = j - 1
      BY <3>2 DEF IsList
    <3> QED
      BY <3>3
  <2> QED
    BY <2>2, <2>3
<1>7. On(d) = On(c) \cup {m}
  <2>1. \A i \in 1..Len(d) : d[i] = m \/ d[i] \in On(c)
    <3> SUFFICES ASSUME NEW i \in 1..Len(d), i # 1 PROVE d[i] \in On(c)
      BY <1>2
    <3>1. i \in 2..Len(d)
      BY <1>1, <1>2
    <3> QED
      BY <1>4, <3>1 DEF On
  <2>2. m \in On(d)
    <3>1. 1 \in 1..Len(d)
      BY <1>1, <1>2
    <3> QED
      BY <1>2, <3>1 DEF On
  <2>3. ASSUME NEW i \in 1..Len(c) PROVE c[i] \in On(d)
    <3>1. i + 1 \in 1..Len(d) /\ d[i + 1] = c[i]
      BY <1>1, <1>2, <1>3
    <3> QED
      BY <3>1 DEF On
  <2> QED
    BY <2>1, <2>2, <2>3 DEF On
<1>8. IsList(nx, m, d)
  BY <1>2, <1>5, <1>6 DEF IsList
<1> QED
  BY <1>2, <1>3, <1>7, <1>8 DEF d

\* Changing other nodes.
LEMMA ListFrame ==
  ASSUME NEW nx, NEW ny, NEW n, NEW c, IsList(nx, n, c), \A m \in On(c) : ny[m] = nx[m]
  PROVE  IsList(ny, n, c)
<1>1. \A i \in 1..Len(c) : ny[c[i]] = nx[c[i]]
  BY DEF On
<1> QED
  BY <1>1 DEF IsList

-----------------------------------------------------------------------------
(* The inductive invariant.                                                *)

\* Where a thread is in its call, and which of its locals are in use.
Control(t) ==
  /\ pc[t] = "idle" <=> op[t] = Nothing
  /\ op[t] = "size" => pc[t] \in {"size", "size_length", "done"}
  /\ pc[t] \in {"size", "size_length"} => op[t] = "size"
  /\ pc[t] = "fill" => Pushing(t) /\ on[t] = "b"
  /\ pc[t] = "take" => op[t] = "pop" /\ on[t] = "a"
  /\ pc[t] \in {"pop_read", "pop_test", "pop_cas"} => Popping(t)
  /\ pc[t] \in {"push_read", "push_link", "push_cas"} => ~Popping(t)
  /\ pc[t] \in {"pop_read", "push_read", "node_left", "counter_left", "pop_test", "pop_cas",
               "push_link", "push_cas"} => (x[t] = Null <=> Popping(t))
  /\ pc[t] \in {"idle", "done", "size"} => x[t] = Null
  /\ pc[t] \notin {"node_left", "counter_left", "pop_test", "pop_cas", "push_link", "push_cas"} =>
       old[t] = NoHead
  /\ pc[t] = "node_left" => old[t].node = Null
  /\ pc[t] = "counter_left" => old[t].counter = 0
  /\ pc[t] = "pop_cas" => old[t].node # Null
  /\ pc[t] = "idle" \/ (op[t] = "pop" /\ on[t] = "a" /\ pc[t] # "done") => res[t] = Nothing

\* What a thread read is right as long as the head has the counter that it read
\* before the rest or after it: its compare-and-swap will tell.
Snapshot(t) ==
  /\ old[t].counter <= head[on[t]].counter
  /\ pc[t] = "pop_cas" /\ old[t] = head[on[t]] => below[t] = next[old[t].node]
  /\ pc[t] = "push_cas" => next[x[t]] = old[t].node
  /\ pc[t] = "push_cas" /\ old[t] = head[on[t]] => length[x[t]] = LengthOf(old[t].node) + 1
  /\ Pushing(t) /\ on[t] = "a" /\ x[t] # Null => value[x[t]] = op[t]

\* A stack is a list, whose nodes know how many there are from them on.
Right(s) ==
  /\ IsList(next, head[s].node, Chain(s))
  /\ \A k \in 1..Len(Chain(s)) : length[Chain(s)[k]] = Len(Chain(s)) - k + 1

\* Each allocated node is on one stack or with one thread.
Owned ==
  /\ On(Chain("a")) \cap On(Chain("b")) = {}
  /\ \A t \in Threads : Held(t) \cap (On(Chain("a")) \cup On(Chain("b"))) = {}
  /\ \A s, t \in Threads : s # t => Held(s) \cap Held(t) = {}
  /\ allocated = On(Chain("a")) \cup On(Chain("b")) \cup UNION {Held(t) : t \in Threads}

\* The threads that found b empty, and are going to call malloc.
Committed ==
  {t \in Threads :
     /\ Pushing(t) /\ on[t] = "b" /\ x[t] = Null
     /\ pc[t] = "fill" \/ (pc[t] \in {"counter_left", "pop_test"} /\ old[t].node = Null)}

\* What is on a, held, or going to be asked for is within the bound: b was empty
\* when they found it so.
MemoryInv ==
  /\ Len(Chain("a")) <= largest
  /\ Cardinality(allocated) + Cardinality(Committed) <= largest + Cardinality(Threads)

\* Nothing is left after the destructor, and nobody comes.
GoneInv ==
  destroyed => /\ allocated = {}
               /\ \A t \in Threads : pc[t] = "idle" /\ todo[t] = <<>>

IInv ==
  /\ TypeOK /\ Right("a") /\ Right("b") /\ Owned /\ MemoryInv /\ GoneInv
  /\ \A t \in Threads : Control(t) /\ Snapshot(t)

-----------------------------------------------------------------------------
(* What a step may do to the stacks.                                       *)

\* The head's node knows the length of its stack, and the chain has every node once.
LEMMA RightKnows ==
  ASSUME TypeOK, NEW s \in {"a", "b"}, Right(s)
  PROVE  /\ LengthOf(head[s].node) = Len(Chain(s))
         /\ Chain(s) \in Seq(Nodes) /\ Len(Chain(s)) \in 0..NumNodes
         /\ IsFiniteSet(On(Chain(s))) /\ Cardinality(On(Chain(s))) = Len(Chain(s))
         /\ On(Chain(s)) \subseteq Nodes
         /\ head[s].node # Null => head[s].node \in On(Chain(s))
         /\ head[s].node = Null => Chain(s) = <<>>
<1> DEFINE c == Chain(s)
<1>1. IsList(next, head[s].node, c) /\ \A k \in 1..Len(c) : length[c[k]] = Len(c) - k + 1
  BY DEF Right
<1> HIDE DEF c
<1>2. IsFiniteSet(On(c)) /\ Cardinality(On(c)) = Len(c) /\ Len(c) \in 0..NumNodes /\ On(c) \subseteq Nodes
  BY <1>1, ListSize
<1>3. c \in Seq(Nodes)
  BY <1>1 DEF IsList
<1>e. head[s].node = Null => c = <<>>
  BY <1>1, EmptyList
<1>4. LengthOf(head[s].node) = Len(c)
  <2>1. CASE head[s].node = Null
    BY <1>e, <2>1 DEF LengthOf
  <2>2. CASE head[s].node # Null
    <3>1. head[s].node = c[1] /\ 1 \in 1..Len(c)
      BY <1>1, <1>2, <1>3, <2>2 DEF IsList
    <3>2. length[c[1]] = Len(c) - 1 + 1
      BY <1>1, <3>1
    <3> QED
      BY <1>2, <2>2, <3>1, <3>2 DEF LengthOf
  <2> QED
    BY <2>1, <2>2
<1>5. head[s].node # Null => head[s].node \in On(c)
  BY <1>1, ListPop
<1> QED
  BY <1>2, <1>3, <1>4, <1>5, <1>e DEF c

\* Nothing that the stack is made of changes.
LEMMA StackStays ==
  ASSUME NEW s \in {"a", "b"}, Right(s), head'[s].node = head[s].node,
         \A m \in On(Chain(s)) : next'[m] = next[m] /\ length'[m] = length[m]
  PROVE  Right(s)' /\ Chain(s)' = Chain(s)
<1> DEFINE c == Chain(s)
<1>1. IsList(next, head[s].node, c) /\ \A k \in 1..Len(c) : length[c[k]] = Len(c) - k + 1
  BY DEF Right
<1>0. \A m \in On(c) : next'[m] = next[m] /\ length'[m] = length[m]
  OBVIOUS
<1>5. Chain(s)' = Linked(next', head'[s].node)
  BY DEF Chain
<1> HIDE DEF c
<1>2. IsList(next', head[s].node, c)
  BY <1>0, <1>1, ListFrame
<1>3. Chain(s)' = c
  BY <1>2, <1>5, LinkedIsList
<1>4. \A k \in 1..Len(c) : length'[c[k]] = Len(c) - k + 1
  BY <1>0, <1>1 DEF On
<1>6. Right(s)'
  BY <1>2, <1>3, <1>4 DEF Right
<1> QED
  BY <1>3, <1>6 DEF c

\* The top is taken off.
LEMMA StackPops ==
  ASSUME NEW s \in {"a", "b"}, Right(s), head[s].node # Null, head'[s].node = next[head[s].node],
         next' = next, length' = length
  PROVE  /\ Right(s)' /\ Chain(s) # <<>> /\ Chain(s)' = Tail(Chain(s))
         /\ On(Chain(s))' = On(Chain(s)) \ {head[s].node}
         /\ Head(Chain(s)) = head[s].node
         /\ Len(Chain(s))' = Len(Chain(s)) - 1
<1> DEFINE c == Chain(s)
<1>1. IsList(next, head[s].node, c) /\ \A k \in 1..Len(c) : length[c[k]] = Len(c) - k + 1
  BY DEF Right
<1>5. Chain(s)' = Linked(next', head'[s].node)
  BY DEF Chain
<1> HIDE DEF c
<1>2. /\ c # <<>> /\ Head(c) = head[s].node
      /\ IsList(next, next[head[s].node], Tail(c))
      /\ On(Tail(c)) = On(c) \ {head[s].node}
      /\ Len(Tail(c)) = Len(c) - 1
      /\ \A k \in 1..Len(Tail(c)) : Tail(c)[k] = c[k + 1]
  BY <1>1, ListPop
<1>3. Chain(s)' = Tail(c)
  BY <1>2, <1>5, LinkedIsList
<1>4. ASSUME NEW k \in 1..Len(Tail(c)) PROVE length'[Tail(c)[k]] = Len(Tail(c)) - k + 1
  <2>1. Len(c) \in Nat
    BY <1>1 DEF IsList
  <2>2. k + 1 \in 1..Len(c) /\ Tail(c)[k] = c[k + 1]
    BY <1>2, <2>1
  <2>3. length[c[k + 1]] = Len(c) - (k + 1) + 1
    BY <1>1, <2>2
  <2> QED
    BY <1>2, <2>1, <2>2, <2>3
<1>6. Right(s)'
  BY <1>2, <1>3, <1>4 DEF Right
<1> QED
  BY <1>2, <1>3, <1>6 DEF c

\* A node that links to the top, and knows the new length, is put on.
LEMMA StackPushes ==
  ASSUME NEW s \in {"a", "b"}, Right(s), NEW m \in Nodes, m \notin On(Chain(s)), head'[s].node = m,
         next[m] = head[s].node, length[m] = Len(Chain(s)) + 1, next' = next, length' = length
  PROVE  /\ Right(s)' /\ Chain(s)' = <<m>> \o Chain(s)
         /\ On(Chain(s))' = On(Chain(s)) \cup {m}
         /\ Len(Chain(s))' = Len(Chain(s)) + 1
<1> DEFINE c == Chain(s)
<1>1. /\ IsList(next, head[s].node, c) /\ \A k \in 1..Len(c) : length[c[k]] = Len(c) - k + 1
      /\ m \notin On(c) /\ length[m] = Len(c) + 1
  BY DEF Right
<1>5. Chain(s)' = Linked(next', head'[s].node)
  BY DEF Chain
<1> HIDE DEF c
<1> DEFINE d == <<m>> \o c
<1>2. /\ IsList(next, m, d) /\ On(d) = On(c) \cup {m} /\ Len(d) = Len(c) + 1
      /\ d[1] = m /\ \A k \in 1..Len(c) : d[k + 1] = c[k]
  BY <1>1, ListPush
<1> HIDE DEF d
<1>3. Chain(s)' = d
  BY <1>2, <1>5, LinkedIsList
<1>4. ASSUME NEW k \in 1..Len(d) PROVE length'[d[k]] = Len(d) - k + 1
  <2>1. Len(c) \in Nat
    BY <1>1 DEF IsList
  <2>2. CASE k = 1
    BY <1>1, <1>2, <2>1, <2>2
  <2>3. CASE k # 1
    <3>1. k - 1 \in 1..Len(c) /\ (k - 1) + 1 = k
      BY <1>2, <2>1, <2>3
    <3>2. d[k] = c[k - 1] /\ length[c[k - 1]] = Len(c) - (k - 1) + 1
      BY <1>1, <1>2, <3>1
    <3> QED
      BY <1>2, <2>1, <3>2
  <2> QED
    BY <2>2, <2>3
<1>6. Right(s)'
  BY <1>2, <1>3, <1>4 DEF Right
<1> QED
  BY <1>2, <1>3, <1>6 DEF c, d

-----------------------------------------------------------------------------
(* The types, and the locals of the thread that steps.                     *)

\* The locals of one thread, in every step of another.
Elsewhere(t) ==
  /\ pc'[t] = pc[t] /\ op'[t] = op[t] /\ on'[t] = on[t] /\ old'[t] = old[t]
  /\ x'[t] = x[t] /\ below'[t] = below[t] /\ res'[t] = res[t] /\ todo'[t] = todo[t]

\* The locals have a value for every thread.
Locals ==
  /\ (\E S : pc \in [Threads -> S]) /\ (\E S : op \in [Threads -> S]) /\ (\E S : on \in [Threads -> S])
  /\ (\E S : old \in [Threads -> S]) /\ (\E S : x \in [Threads -> S]) /\ (\E S : below \in [Threads -> S])
  /\ (\E S : res \in [Threads -> S]) /\ (\E S : todo \in [Threads -> S]) /\ (\E S : sizes \in [Threads -> S])

\* A step touches the locals of its own thread.
LEMMA StepsApart ==
  ASSUME TypeOK, NEW t \in Threads, Step(t), NEW s \in Threads, s # t PROVE Elsewhere(s)
<1>1. Locals
  BY DEF TypeOK, Locals
<1> USE <1>1 DEF Elsewhere, Locals, locals, heap, history
<1>2. CASE Call(t) \/ Fill(t) \/ Take(t) \/ Return(t)
  BY <1>2 DEF Call, Fill, Take, Return
<1>3. CASE SizeHead(t) \/ SizeLength(t) \/ PopNext(t)
  BY <1>3 DEF SizeHead, SizeLength, PopNext
<1>4. CASE Read(t)
  BY <1>4 DEF Read, ReadHalf
<1>5. CASE PopCas(t) \/ PushLink(t) \/ PushCas(t)
  BY <1>5 DEF PopCas, PushLink, PushCas
<1> QED
  BY <1>2, <1>3, <1>4, <1>5 DEF Step

\* The size of a is a number, and one less when it is not empty.
LEMMA SizeIsNatural ==
  ASSUME TypeOK, Right("a")
  PROVE  /\ Size \in Nat
         /\ head["a"].node # Null => Size - 1 \in Nat
<1>1. Size \in Nat
  BY RightKnows DEF Size
<1>2. head["a"].node # Null => Chain("a") # <<>> /\ Len(Tail(Chain("a"))) = Len(Chain("a")) - 1
  BY ListPop DEF Right
<1>3. Chain("a") # <<>> => Len(Chain("a")) \in Nat \ {0}
  BY RightKnows, EmptySeq
<1> QED
  BY <1>1, <1>2, <1>3 DEF Size

\* The types, with the sets of values by name.
MaybeNode == Nodes \cup {Null}
HeadValues == [node : Nodes \cup {Null}, counter : Nat]
AllCalls == Calls \cup {Nothing}
Results == Values \cup Nat \cup {Nothing}
LocalsTyped ==
  /\ todo \in [Threads -> Seq(Calls)] /\ pc \in [Threads -> Labels] /\ op \in [Threads -> AllCalls]
  /\ on \in [Threads -> {"a", "b"}] /\ old \in [Threads -> HeadValues]
  /\ x \in [Threads -> MaybeNode] /\ below \in [Threads -> MaybeNode] /\ res \in [Threads -> Results]
SharedTyped ==
  /\ head \in [{"a", "b"} -> HeadValues]
  /\ next \in [Nodes -> MaybeNode] /\ length \in [Nodes -> Nat] /\ value \in [Nodes -> Values]
  /\ allocated \subseteq Nodes /\ largest \in Nat /\ sizes \in [Threads -> SUBSET Nat]

\* Every step keeps the types.
LEMMA StepTyped ==
  ASSUME IInv, NEW t \in Threads, Step(t), UNCHANGED destroyed PROVE TypeOK'
<1>0. /\ TypeOK /\ Right("a") /\ Control(t)
      /\ Size \in Nat /\ (head["a"].node # Null => Size - 1 \in Nat)
  BY SizeIsNatural DEF IInv
<1>a. LocalsTyped /\ SharedTyped
  BY <1>0 DEF TypeOK, LocalsTyped, SharedTyped, MaybeNode, HeadValues, AllCalls, Results
<1> SUFFICES LocalsTyped' /\ SharedTyped'
  BY <1>0 DEF TypeOK, LocalsTyped, SharedTyped, MaybeNode, HeadValues, AllCalls, Results
<1>1. /\ head[on[t]] \in HeadValues /\ old[t] \in HeadValues /\ NoHead \in HeadValues
      /\ x[t] \in MaybeNode /\ below[t] \in MaybeNode /\ on[t] \in {"a", "b"} /\ Null \in MaybeNode
      /\ \A h \in HeadValues : h.node \in MaybeNode /\ h.counter \in Nat
      /\ \A n \in MaybeNode, k \in Nat : [node |-> n, counter |-> k] \in HeadValues
      /\ \A n \in MaybeNode : n # Null => n \in Nodes
      /\ Values \subseteq Results /\ Nat \subseteq Results /\ Nothing \in Results
      /\ Calls \subseteq AllCalls /\ Nothing \in AllCalls /\ Nodes \subseteq MaybeNode
  BY <1>a DEF MaybeNode, HeadValues, AllCalls, Results, NoHead, LocalsTyped, SharedTyped
<1>n. \A n \in MaybeNode : LengthOf(n) \in Nat
  BY <1>a, <1>1 DEF LengthOf, SharedTyped
<1>2. CASE Call(t)
  <2>1. todo[t] \in Seq(Calls) /\ todo[t] # <<>>
    BY <1>a, <1>2 DEF Call, LocalsTyped
  <2>2. Head(todo[t]) \in Calls /\ Tail(todo[t]) \in Seq(Calls)
    BY <2>1, HeadTailProperties
  <2>3. todo' = [todo EXCEPT ![t] = Tail(todo[t])] /\ op' = [op EXCEPT ![t] = Head(todo[t])]
    BY <1>2 DEF Call
  <2>4. todo' \in [Threads -> Seq(Calls)] /\ op' \in [Threads -> AllCalls]
    BY <1>a, <1>1, <2>2, <2>3 DEF LocalsTyped
  <2>5. pc' \in [Threads -> Labels] /\ on' \in [Threads -> {"a", "b"}]
    BY <1>a, <1>2 DEF LocalsTyped, Call, Labels
  <2>6. sizes' \in [Threads -> SUBSET Nat]
    BY <1>0, <1>a, <1>2 DEF SharedTyped, Call
  <2> QED
    BY <1>a, <1>2, <2>4, <2>5, <2>6 DEF LocalsTyped, SharedTyped, Call, heap
<1>3. CASE Fill(t)
  <2>1. op[t] \in Values
    BY <1>0, <1>3 DEF Fill, Control, Pushing
  <2>2. "push_read" \in Labels
    BY DEF Labels
  <2> QED
    BY <1>a, <1>1, <1>3, <2>1, <2>2 DEF LocalsTyped, SharedTyped, Fill, history
<1>4. CASE Take(t)
  <2>1. "push_read" \in Labels /\ "done" \in Labels
    BY DEF Labels
  <2>2. x[t] # Null => value[x[t]] \in Results
    BY <1>a, <1>1 DEF SharedTyped
  <2>3. /\ UNCHANGED <<head, heap, todo, op, old, x, below, history>>
        /\ res' = res \/ (x[t] # Null /\ res' = [res EXCEPT ![t] = value[x[t]]])
        /\ on' = on \/ on' = [on EXCEPT ![t] = "b"]
        /\ pc' = [pc EXCEPT ![t] = "done"] \/ pc' = [pc EXCEPT ![t] = "push_read"]
    BY <1>4 DEF Take
  <2>4. /\ res' \in [Threads -> Results] /\ on' \in [Threads -> {"a", "b"}]
        /\ pc' \in [Threads -> Labels]
    <3>1. res' \in [Threads -> Results]
      BY <1>a, <2>2, <2>3 DEF LocalsTyped
    <3>2. on' \in [Threads -> {"a", "b"}]
      BY <1>a, <2>3 DEF LocalsTyped
    <3>3. pc' \in [Threads -> Labels]
      BY <1>a, <2>1, <2>3 DEF LocalsTyped
    <3> QED
      BY <3>1, <3>2, <3>3
  <2>5. LocalsTyped'
    BY <1>a, <2>3, <2>4 DEF LocalsTyped
  <2> QED
    BY <1>a, <2>3, <2>5 DEF SharedTyped, heap, history
<1>5. CASE SizeHead(t)
  <2>1. "size_length" \in Labels /\ head["a"].node \in MaybeNode
    BY <1>a, <1>1 DEF Labels, SharedTyped
  <2> QED
    BY <1>a, <1>5, <2>1 DEF LocalsTyped, SharedTyped, SizeHead, heap, history
<1>6. CASE SizeLength(t)
  <2>1. "done" \in Labels /\ LengthOf(x[t]) \in Results
    BY <1>n, <1>1 DEF Labels
  <2> QED
    BY <1>a, <1>1, <1>6, <2>1 DEF LocalsTyped, SharedTyped, SizeLength, heap, history
<1>7. CASE Return(t)
  <2>1. "idle" \in Labels
    BY DEF Labels
  <2> QED
    BY <1>a, <1>1, <1>7, <2>1 DEF LocalsTyped, SharedTyped, Return, heap
<1>8. CASE Read(t)
  <2>1. old' \in [Threads -> HeadValues]
    <3> DEFINE n == [old[t] EXCEPT !.node = head[on[t]].node]
               c == [old[t] EXCEPT !.counter = head[on[t]].counter]
    <3>1. old' = [old EXCEPT ![t] = n] \/ old' = [old EXCEPT ![t] = c]
      BY <1>8 DEF Read, ReadHalf
    <3>2. n \in HeadValues /\ c \in HeadValues
      BY <1>1 DEF HeadValues
    <3> HIDE DEF n, c
    <3> QED
      BY <1>a, <3>1, <3>2 DEF LocalsTyped
  <2>2. pc' \in [Threads -> Labels]
    <3>1. \E l \in Labels : pc' = [pc EXCEPT ![t] = l]
      BY <1>8 DEF Read, Labels
    <3> QED
      BY <1>a, <3>1 DEF LocalsTyped
  <2> QED
    BY <1>a, <1>8, <2>1, <2>2 DEF LocalsTyped, SharedTyped, Read, heap, history
<1>9. CASE PopNext(t)
  <2>1. Popped(t) \in Labels /\ "pop_cas" \in Labels
    BY DEF Popped, Labels
  <2>2. old[t].node # Null => next[old[t].node] \in MaybeNode
    BY <1>a, <1>1 DEF SharedTyped
  <2>3. /\ UNCHANGED <<head, heap, todo, op, on, res, history>>
        /\ x' = x \/ x' = [x EXCEPT ![t] = Null]
        /\ old' = old \/ old' = [old EXCEPT ![t] = NoHead]
        /\ below' = below \/ (old[t].node # Null /\ below' = [below EXCEPT ![t] = next[old[t].node]])
        /\ pc' = [pc EXCEPT ![t] = Popped(t)] \/ pc' = [pc EXCEPT ![t] = "pop_cas"]
    BY <1>9 DEF PopNext
  <2>4. /\ x' \in [Threads -> MaybeNode] /\ below' \in [Threads -> MaybeNode]
        /\ old' \in [Threads -> HeadValues] /\ pc' \in [Threads -> Labels]
    <3>1. x' \in [Threads -> MaybeNode] /\ below' \in [Threads -> MaybeNode]
      <4>1. x' \in [Threads -> MaybeNode]
        BY <1>a, <1>1, <2>3 DEF LocalsTyped
      <4>2. CASE below' = below
        BY <1>a, <4>1, <4>2 DEF LocalsTyped
      <4>3. CASE old[t].node # Null /\ below' = [below EXCEPT ![t] = next[old[t].node]]
        BY <1>a, <2>2, <4>1, <4>3 DEF LocalsTyped
      <4> QED
        BY <2>3, <4>2, <4>3
    <3>2. old' \in [Threads -> HeadValues]
      BY <1>a, <1>1, <2>3 DEF LocalsTyped
    <3>3. pc' \in [Threads -> Labels]
      BY <1>a, <2>1, <2>3 DEF LocalsTyped
    <3> QED
      BY <3>1, <3>2, <3>3
  <2>5. LocalsTyped'
    BY <1>a, <2>3, <2>4 DEF LocalsTyped
  <2> QED
    BY <1>a, <2>3, <2>5 DEF SharedTyped, heap, history
<1>10. CASE PopCas(t)
  <2>1. Popped(t) \in Labels /\ "pop_read" \in Labels
    BY DEF Popped, Labels
  <2>2. head' \in [{"a", "b"} -> HeadValues]
    <3> DEFINE h == [node |-> below[t], counter |-> old[t].counter + 1]
    <3>1. h \in HeadValues
      BY <1>1
    <3>2. head' = head \/ head' = [head EXCEPT ![on[t]] = h]
      BY <1>10 DEF PopCas, Swap
    <3> HIDE DEF h
    <3> QED
      BY <1>a, <3>1, <3>2 DEF SharedTyped
  <2>3. largest' \in Nat /\ sizes' \in [Threads -> SUBSET Nat]
    <3>1. on[t] = "a" /\ Same(t) => Size - 1 \in Nat
      BY <1>0, <1>10 DEF Same, PopCas, Control
    <3>2. (on[t] = "a" /\ Same(t) /\ Note(Size - 1)) \/ UNCHANGED history
      BY <1>10 DEF PopCas
    <3> QED
      BY <1>a, <3>1, <3>2 DEF SharedTyped, history, Note
  <2>4. /\ UNCHANGED <<heap, todo, op, on, res>>
        /\ old' = [old EXCEPT ![t] = NoHead] /\ below' = [below EXCEPT ![t] = Null]
        /\ x' = x \/ x' = [x EXCEPT ![t] = old[t].node]
        /\ pc' = [pc EXCEPT ![t] = Popped(t)] \/ pc' = [pc EXCEPT ![t] = "pop_read"]
    BY <1>10 DEF PopCas
  <2>5. old[t].node \in MaybeNode
    BY <1>1
  <2>6. LocalsTyped'
    BY <1>a, <1>1, <2>1, <2>4, <2>5 DEF LocalsTyped
  <2> QED
    BY <1>a, <2>2, <2>3, <2>4, <2>6 DEF SharedTyped, heap
<1>11. CASE PushLink(t)
  <2>1. LengthOf(old[t].node) + 1 \in Nat /\ "push_cas" \in Labels
    BY <1>n, <1>1 DEF Labels
  <2>2. /\ next' = [next EXCEPT ![x[t]] = old[t].node]
        /\ length' = [length EXCEPT ![x[t]] = LengthOf(old[t].node) + 1]
    BY <1>11 DEF PushLink
  <2>3. old[t].node \in MaybeNode
    BY <1>1
  <2>4. LocalsTyped'
    BY <1>a, <1>11, <2>1 DEF LocalsTyped, PushLink, locals
  <2>5. next' \in [Nodes -> MaybeNode] /\ length' \in [Nodes -> Nat]
    BY <1>a, <2>1, <2>2, <2>3 DEF SharedTyped
  <2> QED
    BY <1>a, <1>11, <2>4, <2>5 DEF SharedTyped, PushLink, history
<1>12. CASE PushCas(t)
  <2>1. "done" \in Labels /\ "push_read" \in Labels
    BY DEF Labels
  <2>2. head' \in [{"a", "b"} -> HeadValues]
    <3> DEFINE h == [node |-> x[t], counter |-> old[t].counter + 1]
    <3>1. h \in HeadValues
      BY <1>1
    <3>2. head' = head \/ head' = [head EXCEPT ![on[t]] = h]
      BY <1>12 DEF PushCas, Swap
    <3> HIDE DEF h
    <3> QED
      BY <1>a, <3>1, <3>2 DEF SharedTyped
  <2>3. largest' \in Nat /\ sizes' \in [Threads -> SUBSET Nat]
    <3>1. Note(Size + 1) \/ UNCHANGED history
      BY <1>12 DEF PushCas
    <3> QED
      BY <1>0, <1>a, <3>1 DEF SharedTyped, history, Note
  <2>4. /\ UNCHANGED <<heap, todo, op, on, below, res>>
        /\ old' = [old EXCEPT ![t] = NoHead]
        /\ x' = x \/ x' = [x EXCEPT ![t] = Null]
        /\ pc' = [pc EXCEPT ![t] = "done"] \/ pc' = [pc EXCEPT ![t] = "push_read"]
    BY <1>12 DEF PushCas
  <2>5. LocalsTyped'
    BY <1>a, <1>1, <2>1, <2>4 DEF LocalsTyped
  <2> QED
    BY <1>a, <2>2, <2>3, <2>4, <2>5 DEF SharedTyped, heap
<1> QED
  BY <1>2, <1>3, <1>4, <1>5, <1>6, <1>7, <1>8, <1>9, <1>10, <1>11, <1>12 DEF Step

\* A read of half a head: before it or after it the other half.
LEMMA ReadDoes ==
  ASSUME TypeOK, NEW t \in Threads, Read(t)
  PROVE  LET nodeRead == old'[t].node = head[on[t]].node /\ old'[t].counter = old[t].counter
             counterRead == old'[t].counter = head[on[t]].counter /\ old'[t].node = old[t].node
             ready == IF Popping(t) THEN "pop_test" ELSE "push_link"
         IN /\ \/ pc[t] \in {"pop_read", "push_read"} /\ nodeRead /\ pc'[t] = "counter_left"
               \/ pc[t] \in {"pop_read", "push_read"} /\ counterRead /\ pc'[t] = "node_left"
               \/ pc[t] = "counter_left" /\ counterRead /\ pc'[t] = ready
               \/ pc[t] = "node_left" /\ nodeRead /\ pc'[t] = ready
            /\ UNCHANGED <<head, heap, todo, op, on, x, below, res, history>>
<1> DEFINE n == [old[t] EXCEPT !.node = head[on[t]].node]
           c == [old[t] EXCEPT !.counter = head[on[t]].counter]
           ready == IF Popping(t) THEN "pop_test" ELSE "push_link"
<1>1. /\ \/ pc[t] \in {"pop_read", "push_read"} /\ old' = [old EXCEPT ![t] = n] /\ Goto(t, "counter_left")
         \/ pc[t] \in {"pop_read", "push_read"} /\ old' = [old EXCEPT ![t] = c] /\ Goto(t, "node_left")
         \/ pc[t] = "counter_left" /\ old' = [old EXCEPT ![t] = c] /\ Goto(t, ready)
         \/ pc[t] = "node_left" /\ old' = [old EXCEPT ![t] = n] /\ Goto(t, ready)
      /\ UNCHANGED <<head, heap, todo, op, on, x, below, res, history>>
  BY DEF Read, ReadHalf
<1>2. /\ n.node = head[on[t]].node /\ n.counter = old[t].counter
      /\ c.counter = head[on[t]].counter /\ c.node = old[t].node
  BY DEF TypeOK
<1>3. pc \in [Threads -> Labels] /\ (\E S : old \in [Threads -> S])
  BY DEF TypeOK
<1> HIDE DEF n, c
<1> QED
  BY <1>1, <1>2, <1>3

\* ... and leaves its thread where its call may be.
LEMMA StepControl ==
  ASSUME IInv, NEW t \in Threads, Step(t) PROVE Control(t)'
<1>0. TypeOK /\ Control(t) /\ Locals
  BY DEF IInv, TypeOK, Locals
<1>1. /\ {"pop", "size"} \cap Values = {} /\ Nothing \notin Values \cup {"pop", "size"}
      /\ op[t] \in Values \cup {"pop", "size", Nothing} /\ pc[t] \in Labels /\ on[t] \in {"a", "b"}
  BY <1>0, StackAssumption DEF TypeOK, Calls
<1> USE <1>0, <1>1 DEF Control, Locals, locals, heap, history, Pushing, Popping
<1>2. CASE Call(t)
  <2>1. Head(todo[t]) \in Values \cup {"pop", "size"}
    <3>1. todo[t] \in Seq(Calls) /\ todo[t] # <<>>
      BY <1>2 DEF Call, TypeOK
    <3> QED
      BY <3>1, HeadTailProperties DEF Calls
  <2> QED
    BY <1>2, <2>1 DEF Call
<1>3. CASE Fill(t)
  BY <1>3 DEF Fill, Nodes, Null
<1>4. CASE Take(t)
  BY <1>4 DEF Take
<1>5. CASE SizeHead(t)
  BY <1>5 DEF SizeHead
<1>6. CASE SizeLength(t)
  BY <1>6 DEF SizeLength
<1>7. CASE Return(t)
  BY <1>7 DEF Return
<1>8. CASE Read(t)
  <2>1. /\ \/ pc[t] \in {"pop_read", "push_read"} /\ pc'[t] = "counter_left" /\ old'[t].counter = old[t].counter
           \/ pc[t] \in {"pop_read", "push_read"} /\ pc'[t] = "node_left" /\ old'[t].node = old[t].node
           \/ pc[t] = "counter_left" /\ pc'[t] = IF Popping(t) THEN "pop_test" ELSE "push_link"
           \/ pc[t] = "node_left" /\ pc'[t] = IF Popping(t) THEN "pop_test" ELSE "push_link"
        /\ UNCHANGED <<op, on, x, below, res>>
    BY <1>8, ReadDoes
  <2>2. pc[t] \in {"pop_read", "push_read"} => old[t].node = Null /\ old[t].counter = 0
    BY DEF NoHead
  <2> QED
    BY <2>1, <2>2
<1>9. CASE PopNext(t)
  BY <1>9 DEF PopNext, Popped
<1>10. CASE PopCas(t)
  BY <1>10 DEF PopCas, Popped
<1>11. CASE PushLink(t)
  BY <1>11 DEF PushLink
<1>12. CASE PushCas(t)
  BY <1>12 DEF PushCas
<1> QED
  BY <1>2, <1>3, <1>4, <1>5, <1>6, <1>7, <1>8, <1>9, <1>10, <1>11, <1>12 DEF Step

-----------------------------------------------------------------------------
(* What a step changes of what threads share.                              *)

\* A thread writes only to the node it holds, or to the one malloc gives it.
LEMMA WritesOwn ==
  ASSUME IInv, NEW t \in Threads, Step(t), NEW m \in Nodes, m \in allocated, m \notin Held(t)
  PROVE  next'[m] = next[m] /\ length'[m] = length[m] /\ value'[m] = value[m]
<1>0. TypeOK /\ Control(t)
  BY DEF IInv
<1>1. /\ next \in [Nodes -> Nodes \cup {Null}] /\ length \in [Nodes -> Nat] /\ value \in [Nodes -> Values]
      /\ x[t] \in Nodes \cup {Null}
  BY <1>0 DEF TypeOK
<1>2. CASE Fill(t)
  <2>1. PICK n \in Nodes :
          /\ IF x[t] # Null THEN n = x[t] ELSE n \notin allocated
          /\ value' = [value EXCEPT ![n] = op[t]]
    BY <1>2 DEF Fill
  <2>2. m # n
    BY <1>2, <2>1 DEF Held, Fill
  <2> QED
    BY <1>1, <1>2, <2>1, <2>2 DEF Fill
<1>3. CASE PushLink(t)
  <2>1. pc[t] = "push_link" /\ x[t] # Null
    BY <1>0, <1>3 DEF PushLink, Control
  <2>2. m # x[t]
    BY <2>1 DEF Held
  <2> QED
    BY <1>1, <1>3, <2>2 DEF PushLink
<1>4. CASE ~Fill(t) /\ ~PushLink(t)
  BY <1>4 DEF Step, Call, Take, SizeHead, SizeLength, Return, Read, PopNext, PopCas, PushCas, heap
<1> QED
  BY <1>2, <1>3, <1>4

\* A head that changes has a counter that no thread has read.
LEMMA CountersGrow ==
  ASSUME IInv, NEW t \in Threads, Step(t), NEW s \in {"a", "b"}
  PROVE  /\ head'[s] = head[s] \/ head'[s].counter > head[s].counter
         /\ head[s].counter \in Nat /\ head'[s].counter \in Nat
<1>0. TypeOK
  BY DEF IInv
<1>1. /\ head \in [{"a", "b"} -> HeadValues] /\ head[s].counter \in Nat /\ head[on[t]] \in HeadValues
      /\ on[t] \in {"a", "b"} /\ head[on[t]].counter \in Nat
  BY <1>0 DEF TypeOK, HeadValues
<1>2. ASSUME NEW n, Same(t), Swap(t, n)
      PROVE  /\ head'[s] = head[s] \/ head'[s].counter > head[s].counter
             /\ head'[s].counter \in Nat
  <2>1. old[t].counter = head[on[t]].counter
    BY <1>2 DEF Same
  <2>2. head' = [head EXCEPT ![on[t]] = [node |-> n, counter |-> head[on[t]].counter + 1]]
    BY <1>2, <2>1 DEF Swap
  <2>3. head'[on[t]].counter = head[on[t]].counter + 1 /\ (s # on[t] => head'[s] = head[s])
    BY <1>1, <2>2
  <2> QED
    BY <1>1, <2>3
<1>3. CASE head' = head
  BY <1>1, <1>3
<1>4. CASE head' # head
  <2>1. \E n : Same(t) /\ Swap(t, n)
    BY <1>4 DEF Step, Call, Fill, Take, SizeHead, SizeLength, Return, Read, PopNext, PopCas, PushLink, PushCas
  <2> QED
    BY <1>1, <1>2, <2>1
<1> QED
  BY <1>3, <1>4

\* What a node is found to be by who holds it or by who sees it on a stack is allocated.
LEMMA InHandIsAllocated ==
  ASSUME IInv
  PROVE  /\ \A t \in Threads : Held(t) \subseteq allocated
         /\ On(Chain("a")) \cup On(Chain("b")) \subseteq allocated
         /\ allocated \subseteq Nodes
  BY DEF IInv, Owned, TypeOK

\* What another thread has read stays as right as it was.
LEMMA OthersSee ==
  ASSUME IInv, NEW t \in Threads, Step(t), NEW s \in Threads, s # t
  PROVE  Control(s)' /\ Snapshot(s)' /\ Held(s)' = Held(s)
<1>0. TypeOK /\ Control(s) /\ Snapshot(s) /\ Owned /\ Right("a") /\ Right("b")
  BY DEF IInv
<1>1. Elsewhere(s)
  BY <1>0, StepsApart
<1>2. Control(s)' /\ Held(s)' = Held(s)
  BY <1>0, <1>1 DEF Elsewhere, Control, Held, Pushing, Popping
<1>3. /\ on[s] \in {"a", "b"} /\ old[s].counter \in Nat
      /\ head'[on[s]] = head[on[s]] \/ head'[on[s]].counter > head[on[s]].counter
      /\ head[on[s]].counter \in Nat /\ head'[on[s]].counter \in Nat
  <2>1. on[s] \in {"a", "b"} /\ old[s].counter \in Nat
    BY <1>0 DEF TypeOK
  <2> QED
    BY <2>1, CountersGrow
<1>4. old[s].counter <= head'[on[s]].counter
  <2>1. old[s].counter <= head[on[s]].counter
    BY <1>0 DEF Snapshot
  <2> QED
    BY <1>3, <2>1
<1>5. old[s] = head'[on[s]] => old[s] = head[on[s]]
  <2>1. old[s].counter <= head[on[s]].counter
    BY <1>0 DEF Snapshot
  <2> QED
    BY <1>3, <2>1
\* Where the head is what s has read, its node is on the stack and left alone.
<1>6. ASSUME old[s] = head[on[s]], old[s].node # Null
      PROVE  next'[old[s].node] = next[old[s].node] /\ length'[old[s].node] = length[old[s].node]
  <2>1. old[s].node \in On(Chain(on[s]))
    BY <1>0, <1>3, <1>6, RightKnows
  <2>2. old[s].node \in allocated /\ old[s].node \notin Held(t) /\ old[s].node \in Nodes
    BY <1>0, <1>3, <2>1, InHandIsAllocated DEF Owned
  <2> QED
    BY <2>2, WritesOwn
<1>7. ASSUME x[s] # Null, pc[s] # "size_length"
      PROVE  next'[x[s]] = next[x[s]] /\ length'[x[s]] = length[x[s]] /\ value'[x[s]] = value[x[s]]
  <2>1. x[s] \in Held(s)
    BY <1>7 DEF Held
  <2>2. x[s] \in allocated /\ x[s] \notin Held(t) /\ x[s] \in Nodes
    BY <1>0, <2>1, InHandIsAllocated DEF Owned
  <2> QED
    BY <2>2, WritesOwn
<1>8. (pc[s] = "push_cas" \/ (Pushing(s) /\ x[s] # Null)) => x[s] # Null /\ pc[s] # "size_length"
  <2>1. "size" \notin Values
    BY StackAssumption
  <2> QED
    BY <1>0, <2>1 DEF Control, Pushing
<1>9. (pc[s] = "pop_cas" /\ old[s] = head[on[s]] => below[s] = next[old[s].node])'
  <2>1. pc[s] = "pop_cas" => old[s].node # Null
    BY <1>0 DEF Control
  <2> QED
    BY <1>0, <1>1, <1>5, <1>6, <2>1 DEF Snapshot, Elsewhere
<1>10. (pc[s] = "push_cas" => next[x[s]] = old[s].node)'
  BY <1>0, <1>1, <1>7, <1>8 DEF Snapshot, Elsewhere
<1>11. (pc[s] = "push_cas" /\ old[s] = head[on[s]] => length[x[s]] = LengthOf(old[s].node) + 1)'
  BY <1>0, <1>1, <1>5, <1>6, <1>7, <1>8 DEF Snapshot, Elsewhere, LengthOf
<1>12. (Pushing(s) /\ on[s] = "a" /\ x[s] # Null => value[x[s]] = op[s])'
  BY <1>0, <1>1, <1>7, <1>8 DEF Snapshot, Elsewhere, Pushing
<1> QED
  BY <1>1, <1>2, <1>4, <1>9, <1>10, <1>11, <1>12 DEF Snapshot, Elsewhere

\* What the thread itself has read is right.
LEMMA OwnSees ==
  ASSUME IInv, NEW t \in Threads, Step(t), UNCHANGED destroyed PROVE Snapshot(t)'
<1>0. TypeOK /\ Control(t) /\ Snapshot(t) /\ Control(t)' /\ TypeOK' /\ Owned
  BY StepControl, StepTyped DEF IInv
<1>1. /\ on[t] \in {"a", "b"} /\ x[t] \in Nodes \cup {Null} /\ old[t].counter \in Nat
      /\ (\E S : pc \in [Threads -> S]) /\ (\E S : op \in [Threads -> S]) /\ (\E S : on \in [Threads -> S])
      /\ (\E S : old \in [Threads -> S]) /\ (\E S : x \in [Threads -> S]) /\ (\E S : below \in [Threads -> S])
  BY <1>0 DEF TypeOK
<1>2. /\ \A s \in {"a", "b"} : head[s].counter \in Nat /\ head'[s].counter \in Nat
      /\ on'[t] \in {"a", "b"}
      /\ {"pop", "size"} \cap Values = {} /\ NoHead.counter = 0
  BY <1>0, StackAssumption, CountersGrow DEF TypeOK, NoHead
<1> USE DEF locals, heap, history, Pushing, Popping
<1>3. CASE Call(t)
  <2>1. old'[t] = NoHead /\ x'[t] = Null /\ pc'[t] \notin {"pop_cas", "push_cas"}
    BY <1>0, <1>1, <1>3 DEF Call, Control
  <2> QED
    BY <1>2, <2>1 DEF Snapshot
<1>4. CASE Fill(t)
  <2>1. old'[t] = NoHead /\ pc'[t] = "push_read" /\ op' = op
    BY <1>0, <1>1, <1>4 DEF Fill, Control
  <2>2. PICK n \in Nodes : x' = [x EXCEPT ![t] = n] /\ value' = [value EXCEPT ![n] = op[t]]
    BY <1>4 DEF Fill
  <2>3. value'[x'[t]] = op[t]
    BY <1>0, <1>1, <2>2 DEF TypeOK
  <2> QED
    BY <1>2, <2>1, <2>3 DEF Snapshot
<1>5. CASE Take(t) \/ SizeHead(t) \/ SizeLength(t) \/ Return(t)
  <2>1. old'[t] = NoHead /\ pc'[t] \notin {"pop_cas", "push_cas"} /\ op'[t] \notin Values
    <3>1. CASE Take(t)
      BY <1>0, <1>1, <1>2, <3>1 DEF Take, Control
    <3>2. CASE SizeHead(t) \/ SizeLength(t)
      BY <1>0, <1>1, <1>2, <3>2 DEF SizeHead, SizeLength, Control
    <3>3. CASE Return(t)
      BY <1>0, <1>1, <3>3, StackAssumption DEF Return, Control, Calls
    <3> QED
      BY <1>5, <3>1, <3>2, <3>3
  <2> QED
    BY <1>2, <2>1 DEF Snapshot
<1>6. CASE Read(t)
  <2>1. /\ old'[t].counter = old[t].counter \/ old'[t].counter = head[on[t]].counter
        /\ pc'[t] \notin {"pop_cas", "push_cas"}
        /\ UNCHANGED <<head, value, op, on, x>>
    BY <1>0, <1>6, ReadDoes
  <2>2. old[t].counter <= head[on[t]].counter /\ head[on[t]].counter <= head[on[t]].counter
    BY <1>0, <1>1, <1>2 DEF Snapshot
  <2> QED
    BY <1>0, <1>1, <1>2, <2>1, <2>2 DEF Snapshot
<1>7. CASE PopNext(t)
  <2>1. /\ UNCHANGED <<head, next, value, op, on>>
        /\ \/ old'[t] = NoHead /\ pc'[t] \in {"fill", "take"} /\ x'[t] = Null
           \/ old' = old /\ x' = x /\ pc'[t] = "pop_cas" /\ below'[t] = next[old[t].node]
    BY <1>0, <1>1, <1>7 DEF PopNext, Popped
  <2> QED
    BY <1>0, <1>1, <1>2, <2>1 DEF Snapshot
<1>8. CASE PopCas(t)
  <2>1. /\ UNCHANGED <<op, on>> /\ old'[t] = NoHead /\ pc'[t] \in {"fill", "take", "pop_read"}
        /\ (op[t] \in Values => on[t] = "b")
    BY <1>0, <1>1, <1>8 DEF PopCas, Popped, Control
  <2> QED
    BY <1>2, <2>1 DEF Snapshot
<1>9. CASE PushLink(t)
  <2>1. x[t] # Null /\ pc[t] = "push_link" /\ x[t] \in Nodes
    BY <1>0, <1>1, <1>9 DEF PushLink, Control
  <2>2. /\ UNCHANGED <<head, value, op, on, x, old, below>> /\ pc'[t] = "push_cas"
        /\ next' = [next EXCEPT ![x[t]] = old[t].node]
        /\ length' = [length EXCEPT ![x[t]] = LengthOf(old[t].node) + 1]
    BY <1>1, <1>9 DEF PushLink
  <2>3. next'[x[t]] = old[t].node /\ length'[x[t]] = LengthOf(old[t].node) + 1
    BY <1>0, <2>1, <2>2 DEF TypeOK
  <2>4. ASSUME old[t] = head[on[t]] PROVE LengthOf(old[t].node)' = LengthOf(old[t].node)
    <3>1. old[t].node # Null => old[t].node \in On(Chain(on[t])) /\ old[t].node \in Nodes
      BY <1>0, <1>1, <2>4, RightKnows DEF IInv
    <3>2. x[t] \in Held(t)
      BY <2>1 DEF Held
    <3>3. old[t].node # x[t]
      BY <1>0, <1>1, <2>1, <3>1, <3>2 DEF Owned
    <3>4. old[t].node # Null => length'[old[t].node] = length[old[t].node]
      BY <1>0, <2>2, <3>1, <3>3 DEF TypeOK
    <3> QED
      BY <2>2, <3>4 DEF LengthOf
  <2> QED
    BY <1>0, <1>1, <1>2, <2>1, <2>2, <2>3, <2>4 DEF Snapshot
<1>10. CASE PushCas(t)
  <2>1. /\ UNCHANGED <<op, on, value>> /\ old'[t] = NoHead /\ pc'[t] \in {"done", "push_read"}
        /\ x'[t] = Null \/ x' = x
    BY <1>0, <1>1, <1>10 DEF PushCas
  <2> QED
    BY <1>0, <1>2, <2>1 DEF Snapshot
<1> QED
  BY <1>3, <1>4, <1>5, <1>6, <1>7, <1>8, <1>9, <1>10 DEF Step

-----------------------------------------------------------------------------
(* Where the nodes are.                                                    *)

\* A node moves when Fill allocates one, and when a compare-and-swap succeeds.
LEMMA NodesMove ==
  ASSUME IInv, NEW t \in Threads, Step(t)
  PROVE  \/ head' = head /\ allocated' = allocated /\ Held(t)' = Held(t) /\ value' = value
         \/ Fill(t)
         \/ PopCas(t) /\ Same(t)
         \/ PushCas(t) /\ Same(t)
<1>0. TypeOK /\ Control(t) /\ (\E S : pc \in [Threads -> S]) /\ (\E S : x \in [Threads -> S])
  BY DEF IInv, TypeOK
<1> USE DEF locals, heap, history, Held
<1>1. CASE Call(t) \/ SizeHead(t) \/ SizeLength(t) \/ Return(t)
  BY <1>0, <1>1 DEF Call, SizeHead, SizeLength, Return, Control
<1>2. CASE Take(t)
  BY <1>0, <1>2 DEF Take, Control
<1>3. CASE Read(t)
  BY <1>0, <1>3, ReadDoes
<1>4. CASE PopNext(t)
  BY <1>0, <1>4 DEF PopNext, Control, Popped
<1>5. CASE PopCas(t) \/ PushCas(t)
  BY <1>0, <1>5 DEF PopCas, PushCas, Control
<1>6. CASE PushLink(t)
  BY <1>0, <1>6 DEF PushLink
<1> QED
  BY <1>1, <1>2, <1>3, <1>4, <1>5, <1>6 DEF Step

\* The nodes on a stack are changed by none but its compare-and-swaps.
LEMMA StackKept ==
  ASSUME IInv, NEW t \in Threads, Step(t), NEW s \in {"a", "b"}, head'[s] = head[s]
  PROVE  Right(s)' /\ Chain(s)' = Chain(s)
<1>1. ASSUME NEW m \in On(Chain(s)) PROVE next'[m] = next[m] /\ length'[m] = length[m]
  <2>1. m \in allocated /\ m \in Nodes /\ m \notin Held(t)
    BY InHandIsAllocated DEF IInv, Owned
  <2> QED
    BY <2>1, WritesOwn
<1>2. Right(s)
  BY DEF IInv
<1> QED
  BY <1>1, <1>2, StackStays

\* What a successful compare-and-swap of a pop does.
LEMMA PopEffect ==
  ASSUME IInv, NEW t \in Threads, PopCas(t), Same(t),
         NEW r \in {"a", "b"}, r = on[t], NEW s \in {"a", "b"}, s # r
  PROVE  LET m == old[t].node
         IN /\ Right(r)' /\ Chain(r)' = Tail(Chain(r)) /\ Chain(r) # <<>> /\ Head(Chain(r)) = m
            /\ On(Chain(r))' = On(Chain(r)) \ {m} /\ m \in On(Chain(r)) /\ m \in Nodes
            /\ Len(Chain(r))' = Len(Chain(r)) - 1
            /\ Right(s)' /\ Chain(s)' = Chain(s)
            /\ Held(t) = {} /\ Held(t)' = {m} /\ x'[t] = m /\ x[t] = Null
            /\ UNCHANGED <<next, length, value, allocated>>
<1>0. TypeOK /\ Control(t) /\ Snapshot(t)
  BY DEF IInv
<1>1. /\ old[t] = head[r] /\ old[t].node # Null
      /\ pc[t] = "pop_cas" /\ below[t] = next[old[t].node] /\ x[t] = Null
  BY <1>0 DEF PopCas, Same, Control, Snapshot, TypeOK
<1>2. head'[r].node = next[head[r].node] /\ head'[s] = head[s]
  <2>1. head' = [head EXCEPT ![on[t]] = [node |-> below[t], counter |-> old[t].counter + 1]]
    BY DEF PopCas, Swap
  <2> QED
    BY <1>0, <1>1, <2>1 DEF TypeOK
<1>3. Right(r) /\ Right(s)
  BY <1>1 DEF IInv
<1>4. Step(t) /\ UNCHANGED <<next, length, value, allocated>>
  BY DEF Step, PopCas, heap
<1>5. Right(s)' /\ Chain(s)' = Chain(s)
  BY <1>2, <1>4, StackKept
<1>6. x'[t] = old[t].node /\ pc'[t] # "size_length"
  BY <1>0 DEF TypeOK, PopCas, Popped
<1>7. old[t].node \in On(Chain(r)) /\ old[t].node \in Nodes
  BY <1>0, <1>1, <1>3, RightKnows
<1> QED
  BY <1>1, <1>2, <1>3, <1>4, <1>5, <1>6, <1>7, StackPops DEF Held

\* What one of a push does.
LEMMA PushEffect ==
  ASSUME IInv, NEW t \in Threads, PushCas(t), Same(t),
         NEW r \in {"a", "b"}, r = on[t], NEW s \in {"a", "b"}, s # r
  PROVE  LET m == x[t]
         IN /\ Right(r)' /\ Chain(r)' = <<m>> \o Chain(r) /\ m \in Nodes
            /\ On(Chain(r))' = On(Chain(r)) \cup {m}
            /\ Len(Chain(r))' = Len(Chain(r)) + 1
            /\ Right(s)' /\ Chain(s)' = Chain(s)
            /\ Held(t) = {m} /\ Held(t)' = {} /\ x'[t] = Null
            /\ UNCHANGED <<next, length, value, allocated>>
<1>0. TypeOK /\ Control(t) /\ Snapshot(t) /\ Owned
  BY DEF IInv
<1>1. /\ old[t] = head[r] /\ pc[t] = "push_cas" /\ x[t] # Null
      /\ next[x[t]] = old[t].node /\ length[x[t]] = LengthOf(old[t].node) + 1 /\ x[t] \in Nodes
  BY <1>0 DEF PushCas, Same, Control, Snapshot, TypeOK
<1>2. head'[r].node = x[t] /\ head'[s] = head[s]
  <2>1. head' = [head EXCEPT ![on[t]] = [node |-> x[t], counter |-> old[t].counter + 1]]
    BY DEF PushCas, Swap
  <2> QED
    BY <1>0, <1>1, <2>1 DEF TypeOK
<1>3. Right(r) /\ Right(s)
  BY <1>1 DEF IInv
<1>4. Step(t) /\ UNCHANGED <<next, length, value, allocated>>
  BY DEF Step, PushCas, heap
<1>5. Right(s)' /\ Chain(s)' = Chain(s)
  BY <1>2, <1>4, StackKept
<1>6. x'[t] = Null /\ Held(t) = {x[t]} /\ Held(t)' = {}
  BY <1>0, <1>1 DEF TypeOK, PushCas, Held
<1>7. x[t] \notin On(Chain(r))
  BY <1>0, <1>1, <1>6 DEF Owned
<1>8. next[x[t]] = head[r].node /\ length[x[t]] = Len(Chain(r)) + 1
  BY <1>0, <1>1, <1>3, RightKnows
<1> QED
  BY <1>1, <1>2, <1>3, <1>4, <1>5, <1>6, <1>7, <1>8, StackPushes

\* What Fill does.
LEMMA FillEffect ==
  ASSUME IInv, NEW t \in Threads, Fill(t)
  PROVE  /\ \A s \in {"a", "b"} : Right(s)' /\ Chain(s)' = Chain(s)
         /\ \E n \in Nodes :
              /\ Held(t)' = {n} /\ allocated' = allocated \cup {n} /\ value' = [value EXCEPT ![n] = op[t]]
              /\ \/ Held(t) = {n} /\ n \in allocated /\ x[t] = n
                 \/ Held(t) = {} /\ n \notin allocated /\ x[t] = Null
<1>0. TypeOK /\ Control(t) /\ Owned
  BY DEF IInv
<1>1. head' = head /\ Step(t)
  BY DEF Fill, Step
<1>2. \A s \in {"a", "b"} : Right(s)' /\ Chain(s)' = Chain(s)
  BY <1>1, StackKept
<1>3. PICK n \in Nodes :
        /\ IF x[t] # Null THEN n = x[t] ELSE n \notin allocated
        /\ x' = [x EXCEPT ![t] = n]
        /\ allocated' = allocated \cup {n} /\ value' = [value EXCEPT ![n] = op[t]]
  BY DEF Fill
<1>4. pc[t] = "fill" /\ pc'[t] = "push_read" /\ x'[t] = n /\ n # Null
  BY <1>0, <1>3 DEF Fill, TypeOK, Nodes, Null
<1>5. Held(t)' = {n}
  BY <1>4 DEF Held
<1>6. \/ Held(t) = {n} /\ n \in allocated /\ x[t] = n
      \/ Held(t) = {} /\ n \notin allocated /\ x[t] = Null
  BY <1>0, <1>3, <1>4, InHandIsAllocated DEF Held
<1> QED
  BY <1>2, <1>3, <1>5, <1>6

\* Every step leaves each node on one stack or with one thread.
LEMMA StepOwned ==
  ASSUME IInv, NEW t \in Threads, Step(t) PROVE Right("a")' /\ Right("b")' /\ Owned'
<1>0. TypeOK /\ Owned
  BY DEF IInv
<1>1. \A s \in Threads : s # t => Held(s)' = Held(s)
  BY OthersSee
<1> DEFINE A == On(Chain("a"))
           B == On(Chain("b"))
<1>2. /\ A \cap B = {} /\ \A s \in Threads : Held(s) \cap (A \cup B) = {}
      /\ \A s, u \in Threads : s # u => Held(s) \cap Held(u) = {}
      /\ allocated = A \cup B \cup UNION {Held(s) : s \in Threads}
  BY <1>0 DEF Owned
<1>3. ASSUME /\ A' \cap B' = {} /\ Held(t)' \cap (A' \cup B') = {}
             /\ \A s \in Threads : s # t => Held(s) \cap (A' \cup B' \cup Held(t)') = {}
             /\ \A n : n \in allocated' <=> n \in A' \/ n \in B' \/ n \in Held(t)'
                                            \/ \E s \in Threads : s # t /\ n \in Held(s)
      PROVE  Owned'
  <2>1. \A s \in Threads : Held(s)' \cap (A' \cup B') = {}
    BY <1>1, <1>3
  <2>2. \A s, u \in Threads : s # u => Held(s)' \cap Held(u)' = {}
    <3> SUFFICES ASSUME NEW s \in Threads, NEW u \in Threads, s # u PROVE Held(s)' \cap Held(u)' = {}
      OBVIOUS
    <3>1. CASE s # t /\ u # t
      BY <1>1, <1>2, <3>1
    <3>2. CASE s = t \/ u = t
      BY <1>1, <1>3, <3>2
    <3> QED
      BY <3>1, <3>2
  <2>3. allocated' = A' \cup B' \cup UNION {Held(s)' : s \in Threads}
    <3>1. \A n : n \in UNION {Held(s)' : s \in Threads} <=> \E s \in Threads : n \in Held(s)'
      OBVIOUS
    <3>2. \A n : (\E s \in Threads : n \in Held(s)') <=>
                 n \in Held(t)' \/ \E s \in Threads : s # t /\ n \in Held(s)
      BY <1>1
    <3> HIDE DEF A, B
    <3> QED
      BY <1>3, <3>1, <3>2
  <2> QED
    BY <1>3, <2>1, <2>2, <2>3 DEF Owned
<1>4. \A n : n \in allocated <=> n \in A \/ n \in B \/ n \in Held(t) \/ \E s \in Threads : s # t /\ n \in Held(s)
  <2> HIDE DEF A, B
  <2> QED
    BY <1>2
<1>5. CASE head' = head /\ allocated' = allocated /\ Held(t)' = Held(t)
  <2>1. \A s \in {"a", "b"} : Right(s)' /\ Chain(s)' = Chain(s)
    BY <1>5, StackKept
  <2>2. A' = A /\ B' = B
    BY <2>1
  <2>3. Right("a")' /\ Right("b")'
    BY <2>1
  <2> HIDE DEF A, B
  <2> QED
    BY <1>2, <1>3, <1>4, <1>5, <2>2, <2>3
<1>6. CASE Fill(t)
  <2>1. \A s \in {"a", "b"} : Right(s)' /\ Chain(s)' = Chain(s)
    BY <1>6, FillEffect
  <2>2. A' = A /\ B' = B
    BY <2>1
  <2>3. Right("a")' /\ Right("b")'
    BY <2>1
  <2>4. PICK n \in Nodes :
          /\ Held(t)' = {n} /\ allocated' = allocated \cup {n}
          /\ \/ Held(t) = {n}
             \/ Held(t) = {} /\ n \notin allocated
    BY <1>6, FillEffect
  <2> HIDE DEF A, B
  <2> QED
    BY <1>2, <1>3, <1>4, <2>2, <2>3, <2>4
<1>7. CASE PopCas(t) /\ Same(t)
  <2> DEFINE m == old[t].node
  <2>1. /\ \/ on[t] = "a" /\ A' = A \ {m} /\ B' = B /\ m \in A
           \/ on[t] = "b" /\ B' = B \ {m} /\ A' = A /\ m \in B
        /\ Held(t) = {} /\ Held(t)' = {m} /\ allocated' = allocated
        /\ Right("a")' /\ Right("b")'
    <3>1. on[t] \in {"a", "b"}
      BY <1>0 DEF TypeOK
    <3>2. CASE on[t] = "a"
      BY <1>7, <3>2, PopEffect
    <3>3. CASE on[t] = "b"
      BY <1>7, <3>3, PopEffect
    <3> QED
      BY <3>1, <3>2, <3>3
  <2> HIDE DEF A, B
  <2> QED
    BY <1>2, <1>3, <1>4, <2>1
<1>8. CASE PushCas(t) /\ Same(t)
  <2> DEFINE m == x[t]
  <2>1. /\ \/ on[t] = "a" /\ A' = A \cup {m} /\ B' = B
           \/ on[t] = "b" /\ B' = B \cup {m} /\ A' = A
        /\ Held(t) = {m} /\ Held(t)' = {} /\ allocated' = allocated
        /\ Right("a")' /\ Right("b")'
    <3>1. on[t] \in {"a", "b"}
      BY <1>0 DEF TypeOK
    <3>2. CASE on[t] = "a"
      BY <1>8, <3>2, PushEffect
    <3>3. CASE on[t] = "b"
      BY <1>8, <3>3, PushEffect
    <3> QED
      BY <3>1, <3>2, <3>3
  <2> HIDE DEF A, B
  <2> QED
    BY <1>2, <1>3, <1>4, <2>1
<1> QED
  BY <1>5, <1>6, <1>7, <1>8, NodesMove

-----------------------------------------------------------------------------
(* How many there are.                                                     *)

Holders == {t \in Threads : Held(t) # {}}

\* The nodes are counted by where they are.
LEMMA NodesCounted ==
  ASSUME TypeOK, Right("a"), Right("b"), Owned
  PROVE  /\ Cardinality(allocated) = Len(Chain("a")) + Len(Chain("b")) + Cardinality(Holders)
         /\ IsFiniteSet(allocated) /\ Cardinality(allocated) \in Nat
         /\ IsFiniteSet(Holders) /\ Cardinality(Holders) \in Nat
<1> DEFINE A == On(Chain("a"))
           B == On(Chain("b"))
           U == UNION {Held(t) : t \in Threads}
<1>1. /\ A \cap B = {} /\ (A \cup B) \cap U = {}
      /\ \A s, t \in Threads : s # t => Held(s) \cap Held(t) = {}
      /\ allocated = (A \cup B) \cup U
  BY DEF Owned
<1>2. /\ IsFiniteSet(A) /\ Cardinality(A) = Len(Chain("a")) /\ Len(Chain("a")) \in Nat
      /\ IsFiniteSet(B) /\ Cardinality(B) = Len(Chain("b")) /\ Len(Chain("b")) \in Nat
  BY RightKnows
<1>3. IsFiniteSet(Threads)
  BY StackAssumption
<1>4. IsFiniteSet(Holders) /\ Cardinality(Holders) \in Nat
  BY <1>3, FS_Subset, FS_CardinalityType DEF Holders
<1>5. IsFiniteSet(U) /\ Cardinality(U) = Cardinality(Holders)
  <2> DEFINE f == [t \in Holders |-> x[t]]
  <2>1. \A t \in Holders : Held(t) = {x[t]}
    BY DEF Holders, Held
  <2>2. \A n : n \in U <=> \E t \in Holders : n = x[t]
    <3>1. \A n : n \in U <=> \E t \in Threads : n \in Held(t)
      OBVIOUS
    <3>2. \A n : (\E t \in Threads : n \in Held(t)) <=> \E t \in Holders : n \in Held(t)
      BY DEF Holders
    <3> HIDE DEF U
    <3> QED
      BY <2>1, <3>1, <3>2
  <2> HIDE DEF U
  <2>3. f \in [Holders -> U]
    BY <2>2
  <2>4. \A s, t \in Holders : f[s] = f[t] => s = t
    BY <1>1, <2>1 DEF Holders
  <2>5. f \in Injection(Holders, U)
    BY <2>3, <2>4 DEF Injection, IsInjective
  <2>6. f \in Surjection(Holders, U)
    BY <2>2, <2>3 DEF Surjection
  <2>7. ExistsBijection(Holders, U)
    BY <2>5, <2>6 DEF ExistsBijection, Bijection
  <2> QED
    BY <1>4, <2>7, FS_Bijection
<1> HIDE DEF A, B, U
<1>6. IsFiniteSet(A \cup B) /\ Cardinality(A \cup B) = Cardinality(A) + Cardinality(B)
  <2>1. Cardinality(A \cap B) = 0
    BY <1>1, FS_EmptySet
  <2>2. IsFiniteSet(A \cup B) /\ Cardinality(A \cup B) = Cardinality(A) + Cardinality(B) - Cardinality(A \cap B)
    BY <1>2, FS_Union
  <2> QED
    BY <1>2, <2>1, <2>2
<1>7. /\ IsFiniteSet((A \cup B) \cup U)
      /\ Cardinality((A \cup B) \cup U) = Cardinality(A \cup B) + Cardinality(U)
  <2>1. Cardinality((A \cup B) \cap U) = 0
    BY <1>1, FS_EmptySet
  <2>2. /\ IsFiniteSet((A \cup B) \cup U)
        /\ Cardinality((A \cup B) \cup U) = Cardinality(A \cup B) + Cardinality(U) - Cardinality((A \cup B) \cap U)
    BY <1>5, <1>6, FS_Union
  <2> QED
    BY <1>2, <1>4, <1>5, <1>6, <2>1, <2>2
<1> QED
  BY <1>1, <1>2, <1>4, <1>5, <1>6, <1>7 DEF A, B

\* How a step may change who is going to call malloc: none that does not see b
\* empty joins them, and Fill leaves.
LEMMA CommitsMove ==
  ASSUME IInv, NEW t \in Threads, Step(t)
  PROVE  /\ \A s \in Threads : s # t => (s \in Committed' <=> s \in Committed)
         /\ \/ t \notin Committed'
            \/ t \in Committed /\ ~Fill(t)
            \/ Read(t) /\ head["b"].node = Null
         /\ Fill(t) /\ x[t] = Null => t \in Committed
<1>0. TypeOK /\ Control(t) /\ Control(t)'
  BY StepControl DEF IInv
<1>1. ASSUME NEW s \in Threads, s # t PROVE s \in Committed' <=> s \in Committed
  <2>1. Elsewhere(s)
    BY <1>0, <1>1, StepsApart
  <2> QED
    BY <2>1 DEF Elsewhere, Committed, Pushing
<1>2. Fill(t) /\ x[t] = Null => t \in Committed
  BY <1>0 DEF Fill, Control, Committed
<1>3. ASSUME t \in Committed' PROVE (t \in Committed /\ ~Fill(t)) \/ (Read(t) /\ head["b"].node = Null)
  <2>0. /\ pc'[t] \in {"fill", "counter_left", "pop_test"} /\ op'[t] \in Values /\ on'[t] = "b" /\ x'[t] = Null
        /\ pc'[t] = "fill" \/ old'[t].node = Null
    BY <1>3 DEF Committed, Pushing
  <2>1. /\ (\E S : pc \in [Threads -> S]) /\ (\E S : x \in [Threads -> S]) /\ (\E S : on \in [Threads -> S])
        /\ on[t] \in {"a", "b"} /\ {"pop", "size"} \cap Values = {}
    BY <1>0, StackAssumption DEF TypeOK
  <2>2. CASE Read(t)
    <3>1. /\ UNCHANGED <<head, op, on, x>>
          /\ \/ old'[t].node = head[on[t]].node
             \/ old'[t].node = old[t].node /\ pc[t] = "counter_left"
             \/ pc'[t] = "node_left"
          /\ pc[t] # "fill" /\ pc'[t] # "fill"
      BY <1>0, <2>2, ReadDoes
    <3>2. pc'[t] \in {"counter_left", "pop_test"} /\ old'[t].node = Null /\ pc[t] # "fill"
      BY <2>0, <3>1
    <3> QED
      BY <2>0, <2>2, <3>1, <3>2 DEF Committed, Pushing, Fill
  <2>3. CASE PopNext(t)
    <3>1. UNCHANGED <<op, on>> /\ pc[t] = "pop_test" /\ pc'[t] \in {Popped(t), "pop_cas"}
      BY <2>1, <2>3 DEF PopNext
    <3>2. old[t].node = Null /\ x[t] = Null
      BY <1>0, <2>0, <2>1, <2>3, <3>1 DEF PopNext, Control, Popping, Pushing
    <3> QED
      BY <2>0, <3>1, <3>2 DEF Committed, Pushing, Fill
  <2>4. CASE PopCas(t)
    <3>1. pc[t] = "pop_cas" /\ old[t].node # Null
      BY <1>0, <2>4 DEF PopCas, Control
    <3>2. pc'[t] = "pop_read" \/ x'[t] = old[t].node
      BY <2>1, <2>4 DEF PopCas
    <3> QED
      BY <2>0, <3>1, <3>2
  <2>5. CASE Call(t) \/ Fill(t) \/ Take(t) \/ SizeHead(t) \/ SizeLength(t) \/ Return(t)
    BY <2>0, <2>1, <2>5 DEF Call, Fill, Take, SizeHead, SizeLength, Return
  <2>6. CASE PushLink(t) \/ PushCas(t)
    BY <2>0, <2>1, <2>6 DEF PushLink, PushCas
  <2> QED
    BY <2>2, <2>3, <2>4, <2>5, <2>6 DEF Step
<1> QED
  BY <1>1, <1>2, <1>3

\* The largest size only grows, and covers every size.
LEMMA LargestGrows ==
  ASSUME IInv, NEW t \in Threads, Step(t)
  PROVE  largest' >= largest /\ Len(Chain("a"))' <= largest' /\ largest' \in Nat /\ largest \in Nat
<1>0. TypeOK /\ Right("a") /\ largest \in Nat /\ Len(Chain("a")) <= largest /\ on[t] \in {"a", "b"}
  BY DEF IInv, TypeOK, MemoryInv
<1>1. Size \in Nat /\ Size = Len(Chain("a"))
  BY <1>0, SizeIsNatural DEF Size
<1>2. \A k \in Nat : Note(k) => largest' \in Nat /\ largest' >= largest /\ largest' >= k
  BY <1>0 DEF Note
<1>3. CASE PushCas(t) /\ Same(t) /\ on[t] = "a"
  <2>1. Len(Chain("a"))' = Len(Chain("a")) + 1
    BY <1>3, PushEffect
  <2>2. Note(Size + 1) /\ Size + 1 \in Nat
    BY <1>1, <1>3 DEF PushCas
  <2> QED
    BY <1>0, <1>1, <1>2, <2>1, <2>2
<1>4. CASE PopCas(t) /\ Same(t) /\ on[t] = "a"
  <2>1. Len(Chain("a"))' = Len(Chain("a")) - 1
    BY <1>4, PopEffect
  <2>2. Note(Size - 1)
    BY <1>4 DEF PopCas
  <2>3. largest' \in Nat /\ largest' >= largest
    <3>1. Size - 1 \in Int
      BY <1>1
    <3> QED
      BY <1>0, <1>1, <2>2, <3>1 DEF Note
  <2> QED
    BY <1>0, <1>1, <2>1, <2>3
<1>5. CASE ~((PushCas(t) \/ PopCas(t)) /\ Same(t) /\ on[t] = "a")
  <2>1. largest' = largest
    BY <1>5 DEF Step, Call, Fill, Take, SizeHead, SizeLength, Return, Read, PopNext, PopCas, PushLink, PushCas, history
  <2>2. Chain("a")' = Chain("a")
    <3>1. CASE head'["a"] = head["a"]
      BY <3>1, StackKept
    <3>2. CASE head' # head
      <4>1. (PushCas(t) \/ PopCas(t)) /\ Same(t)
        BY <3>2 DEF Step, Call, Fill, Take, SizeHead, SizeLength, Return, Read, PopNext, PopCas, PushLink, PushCas
      <4>2. on[t] = "b"
        BY <1>0, <1>5, <4>1
      <4> QED
        BY <4>1, <4>2, PopEffect, PushEffect
    <3> QED
      BY <3>1, <3>2
  <2> QED
    BY <1>0, <2>1, <2>2
<1> QED
  BY <1>3, <1>4, <1>5

\* The memory stays within the bound.
LEMMA StepMemory ==
  ASSUME IInv, NEW t \in Threads, Step(t), UNCHANGED destroyed PROVE MemoryInv'
<1>0. TypeOK /\ Owned /\ Right("a") /\ Right("b") /\ Control(t) /\ TypeOK'
  BY StepTyped DEF IInv
<1>1. /\ largest' >= largest /\ Len(Chain("a"))' <= largest' /\ largest' \in Nat /\ largest \in Nat
      /\ Len(Chain("a")) <= largest
  BY LargestGrows DEF IInv, MemoryInv
<1>2. IsFiniteSet(Threads) /\ Cardinality(Threads) \in Nat
  BY StackAssumption, FS_CardinalityType
<1>3. Committed \subseteq Threads /\ Committed' \subseteq Threads
  BY DEF Committed
<1>4. /\ IsFiniteSet(Committed) /\ Cardinality(Committed) \in Nat
      /\ IsFiniteSet(Committed') /\ Cardinality(Committed') \in Nat
  BY <1>2, <1>3, FS_Subset, FS_CardinalityType
<1>5. /\ Cardinality(allocated) = Len(Chain("a")) + Len(Chain("b")) + Cardinality(Holders)
      /\ IsFiniteSet(allocated) /\ Cardinality(allocated) \in Nat
      /\ IsFiniteSet(Holders) /\ Cardinality(Holders) \in Nat
  BY <1>0, NodesCounted
<1>6. Cardinality(allocated) + Cardinality(Committed) <= largest + Cardinality(Threads)
  BY DEF IInv, MemoryInv
<1>7. \A s \in Threads : s # t => (s \in Committed' <=> s \in Committed)
  BY CommitsMove
<1> SUFFICES Cardinality(allocated') + Cardinality(Committed') <= largest' + Cardinality(Threads)
  BY <1>1 DEF MemoryInv
<1>8. CASE Fill(t) /\ x[t] = Null
  <2>1. t \in Committed /\ t \notin Committed'
    <3>1. ~Read(t)
      BY <1>8 DEF Fill, Read
    <3> QED
      BY <1>8, <3>1, CommitsMove
  <2>2. Committed' = Committed \ {t}
    BY <1>3, <1>7, <2>1
  <2>3. Cardinality(Committed') = Cardinality(Committed) - 1
    BY <1>4, <2>1, <2>2, FS_RemoveElement
  <2>4. PICK n : n \notin allocated /\ allocated' = allocated \cup {n}
    BY <1>8 DEF Fill
  <2>5. Cardinality(allocated') = Cardinality(allocated) + 1
    BY <1>5, <2>4, FS_AddElement
  <2>6. Cardinality(allocated') + Cardinality(Committed') = Cardinality(allocated) + Cardinality(Committed)
    BY <1>4, <1>5, <2>3, <2>5
  <2> QED
    BY <1>1, <1>2, <1>4, <1>5, <1>6, <2>6
<1>9. CASE ~(Fill(t) /\ x[t] = Null)
  <2>1. allocated' = allocated
    <3>1. CASE Fill(t)
      <4>1. x[t] # Null /\ pc[t] = "fill" /\ allocated' = allocated \cup {x[t]}
        BY <1>9, <3>1 DEF Fill
      <4>2. x[t] \in allocated
        BY <4>1, InHandIsAllocated DEF Held
      <4> QED
        BY <4>1, <4>2
    <3>2. CASE ~Fill(t)
      BY <3>2 DEF Step, Call, Take, SizeHead, SizeLength, Return, Read, PopNext, PopCas, PushLink, PushCas, heap
    <3> QED
      BY <3>1, <3>2
  <2>2. CASE t \notin Committed' \/ t \in Committed
    <3>1. Committed' \subseteq Committed
      BY <1>3, <1>7, <2>2
    <3>2. Cardinality(Committed') <= Cardinality(Committed)
      BY <1>4, <3>1, FS_Subset
    <3> QED
      BY <1>1, <1>2, <1>4, <1>5, <1>6, <2>1, <3>2
  <2>3. CASE Read(t) /\ head["b"].node = Null
    <3>1. Chain("b") = <<>>
      BY <1>0, <2>3, RightKnows
    <3>2. Len(Chain("b")) = 0
      BY <3>1
    <3>3. Holders \cap Committed' = {}
      <4>1. \A s \in Threads : s # t => Held(s)' = Held(s)
        BY OthersSee
      <4>2. Held(t)' = Held(t)
        <5>1. UNCHANGED x /\ pc[t] # "size_length" /\ pc'[t] # "size_length"
          BY <1>0, <2>3, ReadDoes DEF Read
        <5> QED
          BY <5>1 DEF Held
      <4>3. \A s \in Committed' : Held(s)' = {}
        BY DEF Committed, Held
      <4> QED
        BY <1>3, <4>1, <4>2, <4>3 DEF Holders
    <3>4. Cardinality(Holders) + Cardinality(Committed') <= Cardinality(Threads)
      <4>1. Cardinality(Holders \cap Committed') = 0
        BY <3>3, FS_EmptySet
      <4>2. Cardinality(Holders \cup Committed') = Cardinality(Holders) + Cardinality(Committed') - 0
        BY <1>4, <1>5, <4>1, FS_Union
      <4>3. Cardinality(Holders \cup Committed') <= Cardinality(Threads)
        BY <1>2, <1>3, FS_Subset DEF Holders
      <4> QED
        BY <1>2, <1>4, <1>5, <4>2, <4>3
    <3>5. Len(Chain("a")) \in Nat
      BY <1>0, RightKnows
    <3> QED
      BY <1>1, <1>2, <1>4, <1>5, <2>1, <3>2, <3>4, <3>5
  <2> QED
    BY <2>2, <2>3, CommitsMove
<1> QED
  BY <1>8, <1>9

-----------------------------------------------------------------------------
(* The invariant, from the start and through every step.                   *)

\* Nobody steps after the destructor.
LEMMA StepNotGone ==
  ASSUME IInv, NEW t \in Threads, Step(t) PROVE ~destroyed
<1>1. destroyed => pc[t] = "idle" /\ todo[t] = <<>>
  BY DEF IInv, GoneInv
<1>2. pc[t] = "idle" => todo[t] # <<>>
  BY DEF Step, Call, Fill, Take, SizeHead, SizeLength, Return, Read, PopNext, PopCas, PushLink, PushCas
<1> QED
  BY <1>1, <1>2

\* Every step of a thread keeps the invariant.
LEMMA StepKeeps ==
  ASSUME IInv, NEW t \in Threads, Step(t), UNCHANGED destroyed PROVE IInv'
<1>1. TypeOK'
  BY StepTyped
<1>2. Right("a")' /\ Right("b")' /\ Owned'
  BY StepOwned
<1>3. MemoryInv'
  BY StepMemory
<1>4. GoneInv'
  BY StepNotGone DEF GoneInv
<1>5. ASSUME NEW s \in Threads PROVE Control(s)' /\ Snapshot(s)'
  <2>1. CASE s = t
    BY <2>1, StepControl, OwnSees
  <2>2. CASE s # t
    BY <2>2, OthersSee
  <2> QED
    BY <2>1, <2>2
<1> QED
  BY <1>1, <1>2, <1>3, <1>4, <1>5 DEF IInv

\* Clear leaves both stacks empty: all the nodes were theirs.
LEMMA ClearKeeps ==
  ASSUME IInv, Clear
  PROVE  /\ IInv' /\ Chain("a")' = <<>> /\ Chain("b")' = <<>> /\ allocated' = {}
         /\ \A t \in Threads : op[t] = Nothing
<1>0. TypeOK /\ Owned /\ Right("a") /\ Right("b") /\ MemoryInv /\ \A t \in Threads : Control(t) /\ Snapshot(t)
  BY DEF IInv
<1>1. /\ \A t \in Threads : pc[t] = "idle" /\ todo[t] = <<>> /\ x[t] = Null /\ op[t] = Nothing /\ old[t] = NoHead
      /\ UNCHANGED <<next, length, value, todo, pc, op, on, old, x, below, res, largest, sizes>>
      /\ destroyed'
  BY <1>0 DEF Clear, Control, locals, history
<1>2. Chain("a") \in Seq(Nodes) /\ Chain("b") \in Seq(Nodes) /\ Len(Chain("a")) \in Nat /\ Len(Chain("b")) \in Nat
  BY <1>0, RightKnows
<1>3. /\ head' \in [{"a", "b"} -> HeadValues]
      /\ \A s \in {"a", "b"} : head'[s].node = Null
      /\ \A s \in {"a", "b"} : head'[s].counter \in Nat
  <2>1. \A s \in {"a", "b"} : head[s].counter \in Nat
    BY <1>0 DEF TypeOK
  <2>2. \A s \in {"a", "b"} : head'[s] = [node |-> Null, counter |-> head[s].counter + Len(Chain(s))]
    BY DEF Clear
  <2>3. \A s \in {"a", "b"} : head'[s] \in HeadValues /\ head'[s].node = Null /\ head'[s].counter \in Nat
    BY <1>2, <2>1, <2>2 DEF HeadValues
  <2>4. head' = [s \in {"a", "b"} |-> head'[s]]
    BY DEF Clear
  <2> QED
    BY <2>3, <2>4
<1>4. ASSUME NEW s \in {"a", "b"} PROVE Chain(s)' = <<>> /\ Right(s)' /\ On(Chain(s))' = {}
  <2>1. IsList(next', head'[s].node, <<>>) /\ On(<<>>) = {}
    BY <1>3, EmptyList
  <2>2. Chain(s)' = <<>>
    BY <2>1, LinkedIsList DEF Chain
  <2> QED
    BY <2>1, <2>2 DEF Right
<1>5. \A t \in Threads : Held(t) = {} /\ Held(t)' = {}
  BY <1>1 DEF Held
<1>6. allocated' = {}
  <2>1. UNION {Held(t) : t \in Threads} = {}
    BY <1>5
  <2>2. allocated = On(Chain("a")) \cup On(Chain("b"))
    BY <1>0, <2>1 DEF Owned
  <2>3. On(Chain("a")) = Range(Chain("a")) /\ On(Chain("b")) = Range(Chain("b"))
    BY <1>2, OnIsRange
  <2> QED
    BY <2>2, <2>3 DEF Clear
<1>7. Owned'
  <2>1. UNION {Held(t)' : t \in Threads} = {}
    BY <1>5
  <2> QED
    BY <1>4, <1>5, <1>6, <2>1 DEF Owned
<1>8. TypeOK'
  BY <1>0, <1>1, <1>3, <1>6 DEF TypeOK, HeadValues
<1>9. MemoryInv'
  <2>1. Committed' = {} /\ allocated' = {}
    BY <1>1, <1>6 DEF Committed
  <2>2. Cardinality({}) = 0
    BY FS_EmptySet
  <2>3. Cardinality(Threads) \in Nat /\ largest \in Nat /\ largest' = largest
    BY <1>0, <1>1, StackAssumption, FS_CardinalityType DEF TypeOK
  <2>4. Len(Chain("a"))' = 0
    BY <1>4
  <2> QED
    BY <2>1, <2>2, <2>3, <2>4 DEF MemoryInv
<1>10. GoneInv'
  BY <1>1, <1>6 DEF GoneInv
<1>11. ASSUME NEW t \in Threads PROVE Control(t)' /\ Snapshot(t)'
  <2>1. Control(t)'
    BY <1>0, <1>1 DEF Control, Pushing, Popping
  <2>2. on[t] \in {"a", "b"} /\ NoHead.counter = 0
    BY <1>0 DEF TypeOK, NoHead
  <2> QED
    BY <1>1, <1>3, <2>1, <2>2 DEF Snapshot
<1> QED
  BY <1>1, <1>4, <1>6, <1>7, <1>8, <1>9, <1>10, <1>11 DEF IInv

\* Stuttering.
LEMMA StutterKeeps == ASSUME IInv, UNCHANGED vars PROVE IInv' /\ \A s \in {"a", "b"} : Chain(s)' = Chain(s)
<1>1. /\ UNCHANGED <<head, next, length, value, allocated, todo, pc, op, on, old, x, below, res, destroyed>>
      /\ UNCHANGED <<largest, sizes>>
  BY DEF vars, heap, locals, history
<1>2. \A s \in {"a", "b"} : Chain(s)' = Chain(s)
  BY <1>1 DEF Chain
<1>3. Right("a")' /\ Right("b")' /\ On(Chain("a"))' = On(Chain("a")) /\ On(Chain("b"))' = On(Chain("b"))
  BY <1>1, <1>2 DEF IInv, Right
<1>4. \A t \in Threads : Held(t)' = Held(t) /\ Control(t)' /\ Snapshot(t)'
  BY <1>1 DEF IInv, Held, Control, Snapshot, Pushing, Popping, LengthOf
<1>5. Owned'
  <2>1. UNION {Held(t)' : t \in Threads} = UNION {Held(t) : t \in Threads}
    BY <1>4
  <2> QED
    BY <1>1, <1>3, <1>4, <2>1 DEF IInv, Owned
<1>6. TypeOK' /\ GoneInv'
  BY <1>1 DEF IInv, TypeOK, GoneInv
<1>7. MemoryInv'
  <2>1. Committed' = Committed
    BY <1>1 DEF Committed, Pushing
  <2> QED
    BY <1>1, <1>2, <2>1 DEF IInv, MemoryInv
<1> QED
  BY <1>2, <1>3, <1>4, <1>5, <1>6, <1>7 DEF IInv

\* At the start a holds the initial values, and b nothing.
LEMMA InitKeeps == ASSUME Init PROVE IInv
<1> DEFINE k == Len(Initial)
           c == [i \in 1..k |-> k - i + 1]
<1>0. Initial \in Seq(Values) /\ k \in Nat /\ NumNodes \in Nat /\ NumNodes >= k /\ Values # {}
  BY StackAssumption
<1>1. /\ head["a"] = [node |-> k, counter |-> k] /\ head["b"] = NoHead
      /\ next = [n \in Nodes |-> IF n <= k THEN n - 1 ELSE Null]
      /\ length = [n \in Nodes |-> IF n <= k THEN n ELSE 0]
      /\ value = [n \in Nodes |-> IF n <= k THEN Initial[n] ELSE CHOOSE v \in Values : TRUE]
      /\ allocated = 1..k /\ todo \in Programs /\ largest = k
  BY DEF Init
<1>2. \A t \in Threads : /\ pc[t] = "idle" /\ op[t] = Nothing /\ on[t] = "a" /\ old[t] = NoHead
                         /\ x[t] = Null /\ below[t] = Null /\ res[t] = Nothing
  BY DEF Init
<1>3. TypeOK
  <2>1. next \in [Nodes -> Nodes \cup {Null}] /\ length \in [Nodes -> Nat]
    <3>1. \A n \in Nodes : n \in Nat /\ n >= 1 /\ n <= NumNodes
      BY <1>0 DEF Nodes
    <3>2. \A n \in Nodes : n <= k => n - 1 \in Nodes \cup {Null}
      BY <1>0, <3>1 DEF Nodes, Null
    <3> QED
      BY <1>1, <3>1, <3>2
  <2>2. value \in [Nodes -> Values]
    <3>1. \A n \in Nodes : n <= k => n \in 1..k
      BY <1>0 DEF Nodes
    <3>2. \A n \in 1..k : Initial[n] \in Values
      BY <1>0
    <3>3. (CHOOSE v \in Values : TRUE) \in Values
      BY <1>0
    <3> QED
      BY <1>1, <3>1, <3>2, <3>3
  <2>3. todo \in [Threads -> Seq(Calls)]
    BY <1>1, StackAssumption
  <2>4. head \in [{"a", "b"} -> [node : Nodes \cup {Null}, counter : Nat]]
    <3>1. k \in Nodes \cup {Null}
      BY <1>0 DEF Nodes, Null
    <3>2. \A s \in {"a", "b"} : head[s] \in [node : Nodes \cup {Null}, counter : Nat]
      BY <1>0, <1>1, <3>1 DEF NoHead
    <3>3. head = [s \in {"a", "b"} |-> head[s]]
      BY DEF Init
    <3> QED
      BY <3>2, <3>3
  <2>5. /\ pc \in [Threads -> Labels] /\ op \in [Threads -> Calls \cup {Nothing}] /\ on \in [Threads -> {"a", "b"}]
        /\ x \in [Threads -> Nodes \cup {Null}] /\ below \in [Threads -> Nodes \cup {Null}]
        /\ res \in [Threads -> Values \cup Nat \cup {Nothing}] /\ sizes \in [Threads -> SUBSET Nat]
        /\ destroyed \in BOOLEAN
    BY DEF Init, Labels
  <2>6. old \in [Threads -> [node : Nodes \cup {Null}, counter : Nat]]
    <3>1. NoHead \in [node : Nodes \cup {Null}, counter : Nat]
      BY DEF NoHead
    <3>2. old = [t \in Threads |-> NoHead]
      BY DEF Init
    <3> QED
      BY <3>1, <3>2
  <2>7. allocated \subseteq Nodes /\ largest \in Nat
    BY <1>0, <1>1 DEF Nodes
  <2> QED
    BY <2>1, <2>2, <2>3, <2>4, <2>5, <2>6, <2>7 DEF TypeOK
<1>4. /\ IsList(next, k, c) /\ Len(c) = k /\ On(c) = 1..k
      /\ \A i \in 1..k : length[c[i]] = k - i + 1
  <2>1. c \in Seq(Nodes) /\ Len(c) = k
    <3>1. \A i \in 1..k : k - i + 1 \in Nodes
      BY <1>0 DEF Nodes
    <3> QED
      BY <1>0, <3>1
  <2>2. \A i \in 1..k : c[i] = k - i + 1 /\ c[i] \in Nodes /\ c[i] <= k
    BY <1>0 DEF Nodes
  <2>3. k = IF c = <<>> THEN Null ELSE c[1]
    <3>1. k = 0 => c = <<>>
      BY <2>1, EmptySeq
    <3>2. k # 0 => c # <<>> /\ 1 \in 1..k
      BY <1>0, <2>1
    <3> QED
      BY <1>0, <2>2, <3>1, <3>2 DEF Null
  <2>4. \A i \in 1..k : next[c[i]] = IF i < k THEN c[i + 1] ELSE Null
    <3> SUFFICES ASSUME NEW i \in 1..k PROVE next[c[i]] = IF i < k THEN c[i + 1] ELSE Null
      OBVIOUS
    <3>1. next[c[i]] = c[i] - 1
      BY <1>1, <2>2
    <3>2. i < k => c[i + 1] = k - (i + 1) + 1
      BY <1>0, <2>2
    <3> QED
      BY <1>0, <2>2, <3>1, <3>2 DEF Null
  <2>5. \A i, j \in 1..k : c[i] = c[j] => i = j
    BY <1>0, <2>2
  <2>6. On(c) = 1..k
    <3>1. \A n \in 1..k : k - n + 1 \in 1..k /\ c[k - n + 1] = n
      BY <1>0, <2>2
    <3>2. \A i \in 1..k : c[i] \in 1..k
      BY <1>0, <2>2
    <3> QED
      BY <2>1, <3>1, <3>2 DEF On
  <2>7. \A i \in 1..k : length[c[i]] = k - i + 1
    BY <1>1, <2>2
  <2> HIDE DEF c
  <2> QED
    BY <2>1, <2>3, <2>4, <2>5, <2>6, <2>7 DEF IsList
<1> HIDE DEF c
<1>5. Chain("a") = c
  BY <1>1, <1>4, LinkedIsList DEF Chain
<1>6. Chain("b") = <<>> /\ IsList(next, head["b"].node, Chain("b")) /\ On(Chain("b")) = {}
  <2>1. IsList(next, Null, <<>>) /\ On(<<>>) = {} /\ head["b"].node = Null
    BY <1>1, EmptyList DEF NoHead
  <2>2. Chain("b") = <<>>
    BY <2>1, LinkedIsList DEF Chain
  <2> QED
    BY <2>1, <2>2
<1>7. Right("a") /\ Right("b")
  <2>1. Right("a")
    BY <1>1, <1>4, <1>5 DEF Right
  <2>2. Right("b")
    BY <1>6 DEF Right
  <2> QED
    BY <2>1, <2>2
<1>8. \A t \in Threads : Held(t) = {}
  BY <1>2 DEF Held
<1>9. Owned
  <2>1. UNION {Held(t) : t \in Threads} = {}
    BY <1>8
  <2>2. On(Chain("a")) = 1..k
    BY <1>4, <1>5
  <2> QED
    BY <1>1, <1>6, <1>8, <2>1, <2>2 DEF Owned
<1>10. MemoryInv
  <2>1. Committed = {}
    BY <1>2 DEF Committed
  <2>2. Cardinality({}) = 0 /\ Cardinality(Threads) \in Nat
    BY FS_EmptySet, FS_CardinalityType, StackAssumption
  <2>3. Cardinality(allocated) = k
    <3>1. On(c) = allocated
      BY <1>1, <1>4
    <3> QED
      BY <1>4, <3>1, ListSize
  <2> QED
    BY <1>0, <1>1, <1>4, <1>5, <2>1, <2>2, <2>3 DEF MemoryInv
<1>11. GoneInv
  BY DEF Init, GoneInv
<1>12. \A t \in Threads : Control(t) /\ Snapshot(t)
  <2> SUFFICES ASSUME NEW t \in Threads PROVE Control(t) /\ Snapshot(t)
    OBVIOUS
  <2>1. Nothing \notin Values /\ Nothing # "size" /\ Nothing # "pop"
    BY StackAssumption DEF Calls
  <2>2. Control(t)
    BY <1>2, <2>1 DEF Control, Pushing, Popping
  <2>3. Snapshot(t)
    BY <1>0, <1>1, <1>2 DEF Snapshot, NoHead
  <2> QED
    BY <2>2, <2>3
<1> QED
  BY <1>3, <1>7, <1>9, <1>10, <1>11, <1>12 DEF IInv

\* The invariant is inductive.
LEMMA Inductive == (Init => IInv) /\ (IInv /\ [Next]_vars => IInv')
<1>1. ASSUME IInv, Next PROVE IInv'
  <2>1. CASE \E t \in Threads : Step(t) /\ UNCHANGED destroyed
    BY <1>1, <2>1, StepKeeps
  <2>2. CASE Clear
    BY <1>1, <2>2, ClearKeeps
  <2>3. CASE Gone
    BY <1>1, <2>3, StutterKeeps DEF Gone
  <2> QED
    BY <1>1, <2>1, <2>2, <2>3 DEF Next
<1> QED
  BY <1>1, InitKeeps, StutterKeeps

-----------------------------------------------------------------------------
(* The theorems.                                                           *)

\* In every schedule each node that malloc gave out is on one of the stacks or in
\* the hands of one thread, each head knows the length of its stack, no more memory
\* is held than for the largest stack and one node per thread, and clear frees it.
THEOREM StackStaysRight == Spec => []StackRight
<1>1. ASSUME IInv PROVE StackRight
  <2>0. TypeOK /\ Right("a") /\ Right("b") /\ Owned /\ MemoryInv /\ GoneInv
    BY <1>1 DEF IInv
  <2>c. /\ Chain("a") \in Seq(Nodes) /\ Chain("b") \in Seq(Nodes)
        /\ Len(Chain("a")) \in Nat /\ Len(Chain("b")) \in Nat
    BY <2>0, RightKnows
  <2>1. HeadKnowsLength
    BY <2>0, RightKnows DEF HeadKnowsLength
  <2>2. ClearFreesAll
    BY <2>0 DEF ClearFreesAll, GoneInv
  <2>3. MemoryProportional
    <3>1. /\ Cardinality(allocated) \in Nat /\ Cardinality(Committed) \in Nat /\ Cardinality(Threads) \in Nat
          /\ largest \in Nat
      <4>1. IsFiniteSet(Threads) /\ Committed \subseteq Threads
        BY StackAssumption DEF Committed
      <4> QED
        BY <2>0, <4>1, NodesCounted, FS_Subset, FS_CardinalityType DEF TypeOK
    <3> QED
      BY <2>0, <3>1 DEF MemoryProportional, MemoryInv
  <2>4. NodesAccounted
    <3> DEFINE linked == Chain("a") \o Chain("b")
    <3>1. Range(linked) = On(Chain("a")) \cup On(Chain("b"))
      BY <2>c, OnIsRange, RangeConcatenation
    <3>2. Len(linked) = Len(Chain("a")) + Len(Chain("b"))
      BY <2>c
    <3>3. UNION {Held(t) : t \in Holders} = UNION {Held(t) : t \in Threads}
      BY DEF Holders
    <3>4. Cardinality(allocated) = Len(Chain("a")) + Len(Chain("b")) + Cardinality(Holders)
      BY <2>0, NodesCounted
    <3> QED
      BY <2>0, <3>1, <3>2, <3>3, <3>4 DEF NodesAccounted, Owned, Holders
  <2> QED
    BY <2>0, <2>1, <2>2, <2>3, <2>4 DEF StackRight
<1> QED
  BY <1>1, Inductive, PTL DEF Spec

-----------------------------------------------------------------------------
(* Linearizability: what each step does to the abstract stack.             *)

Contents == LET c == Chain("a") IN [k \in DOMAIN c |-> value[c[k]]]
CallOf(t) ==
  IF op[t] \in {"size", Nothing} THEN "none"
  ELSE IF HasEffect(t) THEN "done"
  ELSE IF Pushing(t) THEN "push" ELSE "pop"
ValOf(t) ==
  IF op[t] \in {"size", Nothing} \/ FoundEmpty(t) THEN Nothing
  ELSE IF Pushing(t) THEN (IF HasEffect(t) THEN Nothing ELSE op[t])
  ELSE IF At(t, "take") /\ x[t] # Null THEN value[x[t]] ELSE res[t]

\* The effect that a step of t has on the abstract stack, if it has one.
Effect(t) ==
  \/ Contents' = Contents /\ CallOf(t)' = CallOf(t) /\ ValOf(t)' = ValOf(t)
  \/ /\ CallOf(t) = "none" /\ Contents' = Contents
     /\ \/ CallOf(t)' = "push" /\ ValOf(t)' \in Values
        \/ CallOf(t)' = "pop" /\ ValOf(t)' = ValOf(t)
  \/ /\ CallOf(t) = "push" /\ CallOf(t)' = "done"
     /\ Contents' = <<ValOf(t)>> \o Contents /\ ValOf(t)' = Nothing
  \/ /\ CallOf(t) = "pop" /\ CallOf(t)' = "done"
     /\ \/ Contents = <<>> /\ Contents' = Contents /\ ValOf(t)' = ValOf(t)
        \/ Contents # <<>> /\ ValOf(t)' = Head(Contents) /\ Contents' = Tail(Contents)
  \/ /\ CallOf(t) = "done" /\ CallOf(t)' = "none"
     /\ ValOf(t)' = Nothing /\ Contents' = Contents

\* Such an effect, with the other threads as they were, is a step of Stack.
LEMMA EffectIsStep ==
  ASSUME NEW t \in Threads, Effect(t),
         \A s \in Threads : s # t => CallOf(s)' = CallOf(s) /\ ValOf(s)' = ValOf(s)
  PROVE  [Linear!StackNext]_(Linear!stackVars)
<1> DEFINE C == [s \in Threads |-> CallOf(s)]
           V == [s \in Threads |-> ValOf(s)]
<1>1. C' = [C EXCEPT ![t] = CallOf(t)'] /\ V' = [V EXCEPT ![t] = ValOf(t)']
  OBVIOUS
<1>2. C[t] = CallOf(t) /\ V[t] = ValOf(t)
  OBVIOUS
<1>3. /\ CallOf(t)' = CallOf(t) => C' = C
      /\ ValOf(t)' = ValOf(t) => V' = V
  BY <1>1, <1>2
<1> DEFINE Stay == Contents' = Contents /\ C' = C /\ V' = V
           Invoke == /\ C[t] = "none" /\ Contents' = Contents
                     /\ \/ \E v \in Values : C' = [C EXCEPT ![t] = "push"] /\ V' = [V EXCEPT ![t] = v]
                        \/ C' = [C EXCEPT ![t] = "pop"] /\ V' = V
           Push == /\ C[t] = "push" /\ Contents' = <<V[t]>> \o Contents
                   /\ C' = [C EXCEPT ![t] = "done"] /\ V' = [V EXCEPT ![t] = Nothing]
           Pop == /\ C[t] = "pop" /\ C' = [C EXCEPT ![t] = "done"]
                  /\ \/ Contents = <<>> /\ Contents' = Contents /\ V' = V
                     \/ Contents # <<>> /\ V' = [V EXCEPT ![t] = Head(Contents)] /\ Contents' = Tail(Contents)
           Respond == /\ C[t] = "done" /\ C' = [C EXCEPT ![t] = "none"]
                      /\ V' = [V EXCEPT ![t] = Nothing] /\ Contents' = Contents
<1>4. Stay \/ Invoke \/ Push \/ Pop \/ Respond
  <2> HIDE DEF C, V
  <2> QED
    BY <1>1, <1>2, <1>3 DEF Effect
<1>5. CASE Stay
  BY <1>5 DEF Linear!stackVars, Contents, CallOf, ValOf
<1>6. CASE Invoke
  <2>1. Linear!Invoke(t)
    BY <1>6 DEF Linear!Invoke, Contents, CallOf, ValOf
  <2> QED
    BY <2>1 DEF Linear!StackNext
<1>7. CASE Push
  <2>1. Linear!Push(t)
    BY <1>7 DEF Linear!Push, Contents, CallOf, ValOf
  <2> QED
    BY <2>1 DEF Linear!StackNext
<1>8. CASE Pop
  <2>1. Linear!Pop(t)
    BY <1>8 DEF Linear!Pop, Contents, CallOf, ValOf
  <2> QED
    BY <2>1 DEF Linear!StackNext
<1>9. CASE Respond
  <2>1. Linear!Respond(t)
    BY <1>9 DEF Linear!Respond, Contents, CallOf, ValOf
  <2> QED
    BY <2>1 DEF Linear!StackNext
<1> QED
  BY <1>4, <1>5, <1>6, <1>7, <1>8, <1>9

\* The other threads' calls are as they were.
LEMMA OthersCall ==
  ASSUME IInv, NEW t \in Threads, Step(t), NEW s \in Threads, s # t
  PROVE  CallOf(s)' = CallOf(s) /\ ValOf(s)' = ValOf(s)
<1>1. Elsewhere(s)
  BY StepsApart DEF IInv
<1>2. CallOf(s)' = CallOf(s)
  BY <1>1 DEF Elsewhere, CallOf, HasEffect, FoundEmpty, Pushing
<1>3. pc[s] = "take" /\ x[s] # Null => value'[x[s]] = value[x[s]]
  <2> SUFFICES ASSUME pc[s] = "take", x[s] # Null PROVE value'[x[s]] = value[x[s]]
    OBVIOUS
  <2>1. x[s] \in Held(s) /\ Held(s) \cap Held(t) = {}
    BY DEF Held, IInv, Owned
  <2>2. x[s] \in allocated /\ x[s] \in Nodes /\ x[s] \notin Held(t)
    BY <2>1, InHandIsAllocated
  <2> QED
    BY <2>2, WritesOwn
<1> QED
  BY <1>1, <1>2, <1>3 DEF Elsewhere, ValOf, HasEffect, FoundEmpty, Pushing

\* A step that leaves a's head alone leaves the contents alone.
LEMMA ContentsStay ==
  ASSUME IInv, NEW t \in Threads, Step(t), head'["a"] = head["a"]
  PROVE  Contents' = Contents
<1> DEFINE c == Chain("a")
<1>1. c' = c
  BY StackKept
<1>2. ASSUME NEW k \in DOMAIN c PROVE value'[c[k]] = value[c[k]]
  <2>1. c \in Seq(Nodes)
    BY RightKnows DEF IInv
  <2>2. c[k] \in On(c)
    BY <2>1 DEF On
  <2>3. c[k] \in allocated /\ c[k] \in Nodes /\ c[k] \notin Held(t)
    BY <2>2, InHandIsAllocated DEF IInv, Owned
  <2> QED
    BY <2>3, WritesOwn
<1> HIDE DEF c
<1> QED
  BY <1>1, <1>2 DEF Contents, c

\* The values of the nodes of a list.
ValuesOf(v, c) == [k \in DOMAIN c |-> v[c[k]]]

\* There are as many, each that of its node.
LEMMA ValuesAre ==
  ASSUME NEW v \in [Nodes -> Values], NEW c \in Seq(Nodes)
  PROVE  /\ ValuesOf(v, c) \in Seq(Values) /\ Len(ValuesOf(v, c)) = Len(c)
         /\ \A k \in 1..Len(c) : ValuesOf(v, c)[k] = v[c[k]]
         /\ ValuesOf(v, c) = <<>> <=> c = <<>>
<1> DEFINE d == ValuesOf(v, c)
<1>1. d = [k \in 1..Len(c) |-> v[c[k]]] /\ Len(c) \in Nat
  BY DEF ValuesOf
<1>2. \A k \in 1..Len(c) : v[c[k]] \in Values
  OBVIOUS
<1> HIDE DEF d
<1>3. d \in Seq(Values) /\ Len(d) = Len(c)
  BY <1>1, <1>2
<1>4. d = <<>> <=> c = <<>>
  <2>1. d = <<>> <=> Len(d) = 0
    BY <1>3, EmptySeq
  <2>2. c = <<>> <=> Len(c) = 0
    BY EmptySeq
  <2> QED
    BY <1>3, <2>1, <2>2
<1> QED
  BY <1>1, <1>3, <1>4 DEF d

\* Without the top node they are without the first value.
LEMMA ValuesPop ==
  ASSUME NEW v \in [Nodes -> Values], NEW c \in Seq(Nodes), c # <<>>
  PROVE  /\ ValuesOf(v, c) # <<>> /\ ValuesOf(v, Tail(c)) = Tail(ValuesOf(v, c))
         /\ Head(ValuesOf(v, c)) = v[Head(c)]
<1> DEFINE d == ValuesOf(v, c)
           e == ValuesOf(v, Tail(c))
<1>1. /\ Head(c) = c[1] /\ Tail(c) \in Seq(Nodes) /\ Len(Tail(c)) = Len(c) - 1 /\ Len(c) >= 1
      /\ \A k \in 1..Len(Tail(c)) : Tail(c)[k] = c[k + 1]
  BY HeadTailProperties
<1>2. d \in Seq(Values) /\ Len(d) = Len(c) /\ d # <<>> /\ \A k \in 1..Len(c) : d[k] = v[c[k]]
  BY ValuesAre
<1>3. e \in Seq(Values) /\ Len(e) = Len(Tail(c)) /\ \A k \in 1..Len(Tail(c)) : e[k] = v[Tail(c)[k]]
  BY <1>1, ValuesAre
<1> HIDE DEF d, e
<1>4. /\ Head(d) = d[1] /\ Tail(d) \in Seq(Values) /\ Len(Tail(d)) = Len(d) - 1
      /\ \A k \in 1..Len(Tail(d)) : Tail(d)[k] = d[k + 1]
  BY <1>2, HeadTailProperties
<1>5. Head(d) = v[Head(c)]
  BY <1>1, <1>2, <1>4
<1>6. ASSUME NEW k \in 1..Len(e) PROVE e[k] = Tail(d)[k]
  <2>1. k + 1 \in 1..Len(c) /\ k \in 1..Len(Tail(c)) /\ k \in 1..Len(Tail(d))
    BY <1>1, <1>2, <1>3, <1>4
  <2> QED
    BY <1>1, <1>2, <1>3, <1>4, <2>1
<1>7. e = Tail(d)
  BY <1>1, <1>2, <1>3, <1>4, <1>6, SeqEqual
<1> QED
  BY <1>2, <1>5, <1>7 DEF d, e

\* A node put on top puts its value first.
LEMMA ValuesPush ==
  ASSUME NEW v \in [Nodes -> Values], NEW c \in Seq(Nodes), NEW m \in Nodes
  PROVE  ValuesOf(v, <<m>> \o c) = <<v[m]>> \o ValuesOf(v, c)
<1> DEFINE d == ValuesOf(v, c)
           e == ValuesOf(v, <<m>> \o c)
           f == <<v[m]>> \o d
<1>1. d \in Seq(Values) /\ Len(d) = Len(c) /\ Len(c) \in Nat /\ \A k \in 1..Len(c) : d[k] = v[c[k]]
  BY ValuesAre
<1>2. /\ <<m>> \o c \in Seq(Nodes) /\ Len(<<m>> \o c) = Len(c) + 1 /\ (<<m>> \o c)[1] = m
      /\ \A k \in 1..Len(c) : (<<m>> \o c)[k + 1] = c[k]
  OBVIOUS
<1>3. /\ e \in Seq(Values) /\ Len(e) = Len(c) + 1
      /\ \A k \in 1..(Len(c) + 1) : e[k] = v[(<<m>> \o c)[k]]
  BY <1>2, ValuesAre
<1> HIDE DEF d, e
<1>4. /\ f \in Seq(Values) /\ Len(f) = Len(d) + 1 /\ f[1] = v[m]
      /\ \A k \in 1..Len(d) : f[k + 1] = d[k]
  BY <1>1
<1> HIDE DEF f
<1>5. ASSUME NEW k \in 1..Len(e) PROVE e[k] = f[k]
  <2>1. CASE k = 1
    BY <1>1, <1>2, <1>3, <1>4, <2>1
  <2>2. CASE k # 1
    <3>1. k - 1 \in 1..Len(c) /\ (k - 1) + 1 = k /\ k \in 1..(Len(c) + 1)
      BY <1>1, <1>3, <2>2
    <3>2. (<<m>> \o c)[k] = c[k - 1] /\ f[k] = d[k - 1]
      BY <1>1, <1>2, <1>4, <3>1
    <3> QED
      BY <1>1, <1>3, <3>1, <3>2
  <2> QED
    BY <2>1, <2>2
<1>6. e = f
  BY <1>1, <1>3, <1>4, <1>5, SeqEqual
<1> QED
  BY <1>6 DEF d, e, f

\* Every step of a thread has one of those effects.
LEMMA StepEffect ==
  ASSUME IInv, NEW t \in Threads, Step(t), UNCHANGED destroyed PROVE Effect(t)
<1>0. TypeOK /\ Control(t) /\ Snapshot(t) /\ Locals /\ Right("a") /\ Control(t)'
  BY StepControl DEF IInv, TypeOK, Locals
<1>1. /\ {"pop", "size"} \cap Values = {} /\ Nothing \notin Values \cup {"pop", "size"}
      /\ op[t] \in Values \cup {"pop", "size", Nothing} /\ on[t] \in {"a", "b"}
  BY <1>0, StackAssumption DEF TypeOK, Calls
<1>2. head'["a"] = head["a"] => Contents' = Contents
  BY ContentsStay
<1> DEFINE Stays == CallOf(t)' = CallOf(t) /\ ValOf(t)' = ValOf(t)
<1>s. Stays /\ Contents' = Contents => Effect(t)
  BY DEF Effect
<1> USE DEF locals, heap, history, Control, Locals, CallOf, ValOf, HasEffect, FoundEmpty, Pushing, Popping
<1>3. CASE Call(t)
  <2>1. Head(todo[t]) \in Values \cup {"pop", "size"}
    <3>1. todo[t] \in Seq(Calls) /\ todo[t] # <<>>
      BY <1>0, <1>3 DEF TypeOK, Call
    <3> QED
      BY <3>1, HeadTailProperties DEF Calls
  <2>2. /\ op[t] = Nothing /\ op'[t] = Head(todo[t]) /\ res'[t] = Nothing /\ head' = head
        /\ pc'[t] = IF Head(todo[t]) = "size" THEN "size" ELSE "pop_read"
        /\ on'[t] = IF Head(todo[t]) \in Values THEN "b" ELSE "a"
    BY <1>0, <1>3 DEF Call
  <2>3. CallOf(t) = "none" /\ ValOf(t) = Nothing
    BY <1>1, <2>2
  <2>4. CASE Head(todo[t]) = "size"
    <3>1. Stays
      BY <1>1, <2>2, <2>4
    <3> QED
      BY <1>2, <1>s, <2>2, <3>1
  <2>5. CASE Head(todo[t]) = "pop"
    <3>1. CallOf(t)' = "pop" /\ ValOf(t)' = Nothing
      BY <1>1, <2>2, <2>5
    <3> QED
      BY <1>2, <2>2, <2>3, <3>1 DEF Effect
  <2>6. CASE Head(todo[t]) \in Values
    <3>1. CallOf(t)' = "push" /\ ValOf(t)' \in Values
      BY <1>1, <2>2, <2>6
    <3> QED
      BY <1>2, <2>2, <2>3, <3>1 DEF Effect
  <2> QED
    BY <2>1, <2>4, <2>5, <2>6
<1>4. CASE Fill(t) \/ Take(t) \/ SizeHead(t) \/ SizeLength(t) \/ PushLink(t)
  <2>1. head' = head
    BY <1>4 DEF Fill, Take, SizeHead, SizeLength, PushLink
  <2>2. Stays
    <3>1. CASE Fill(t)
      <4>1. op' = op /\ pc[t] = "fill" /\ pc'[t] = "push_read"
        BY <1>0, <3>1 DEF Fill
      <4> QED
        BY <1>0, <1>1, <4>1
    <3>2. CASE Take(t)
      BY <1>0, <1>1, <3>2 DEF Take
    <3>3. CASE SizeHead(t)
      BY <1>0, <1>1, <3>3 DEF SizeHead
    <3>4. CASE SizeLength(t)
      BY <1>0, <1>1, <3>4 DEF SizeLength
    <3>5. CASE PushLink(t)
      BY <1>0, <1>1, <3>5 DEF PushLink
    <3> QED
      BY <1>4, <3>1, <3>2, <3>3, <3>4, <3>5
  <2> QED
    BY <1>2, <1>s, <2>1, <2>2
<1>5. CASE Return(t)
  <2>1. head' = head /\ op'[t] = Nothing /\ pc[t] = "done"
    BY <1>0, <1>5 DEF Return
  <2>2. CallOf(t)' = "none" /\ ValOf(t)' = Nothing
    BY <2>1
  <2>3. CASE op[t] = "size"
    <3>1. Stays
      BY <1>1, <2>2, <2>3
    <3> QED
      BY <1>2, <1>s, <2>1, <3>1
  <2>4. CASE op[t] # "size"
    <3>1. CallOf(t) = "done"
      BY <1>0, <2>1, <2>4
    <3> QED
      BY <1>2, <2>1, <2>2, <3>1 DEF Effect
  <2> QED
    BY <2>3, <2>4
<1>6. CASE Read(t)
  <2>1. /\ \/ pc[t] \in {"pop_read", "push_read"} /\ pc'[t] = "counter_left" /\ old'[t].node = head[on[t]].node
           \/ pc[t] \in {"pop_read", "push_read"} /\ pc'[t] = "node_left" /\ old'[t].node = old[t].node
           \/ /\ pc[t] = "counter_left" /\ pc'[t] \in {"pop_test", "push_link"}
              /\ old'[t].node = old[t].node /\ (Popping(t) => pc'[t] = "pop_test")
           \/ /\ pc[t] = "node_left" /\ pc'[t] \in {"pop_test", "push_link"}
              /\ old'[t].node = head[on[t]].node /\ (Popping(t) => pc'[t] = "pop_test")
        /\ UNCHANGED <<head, op, on, x, res>>
    BY <1>0, <1>6, ReadDoes
  <2>2. head'["a"] = head["a"] /\ Contents' = Contents
    BY <1>2, <2>1
  <2>3. CASE FoundEmpty(t)' /\ ~FoundEmpty(t)
    <3>1. /\ op[t] = "pop" /\ on[t] = "a" /\ pc[t] \in {"pop_read", "push_read", "node_left"}
          /\ head["a"].node = Null
      BY <2>1, <2>3
    <3>2. Contents = <<>>
      <4>1. Chain("a") = <<>>
        BY <1>0, <3>1, RightKnows
      <4> QED
        BY <4>1 DEF Contents
    <3>3. CallOf(t) = "pop" /\ CallOf(t)' = "done" /\ ValOf(t) = Nothing /\ ValOf(t)' = Nothing
      BY <1>0, <1>1, <2>1, <2>3, <3>1
    <3> QED
      BY <2>2, <3>2, <3>3 DEF Effect
  <2>4. CASE FoundEmpty(t)' = FoundEmpty(t)
    <3>1. Stays
      <4>1. pc[t] \notin {"take", "done"} /\ pc'[t] \notin {"take", "done"} /\ op' = op /\ on' = on /\ res' = res
        BY <2>1
      <4> QED
        BY <2>4, <4>1
    <3> QED
      BY <1>s, <2>2, <3>1
  <2>5. FoundEmpty(t) => FoundEmpty(t)'
    <3>1. ~(pc[t] \in {"pop_read", "push_read", "node_left"} /\ FoundEmpty(t))
      OBVIOUS
    <3> QED
      BY <1>1, <2>1, <3>1
  <2>6. FoundEmpty(t) \in BOOLEAN /\ FoundEmpty(t)' \in BOOLEAN
    OBVIOUS
  <2> QED
    BY <2>3, <2>4, <2>5, <2>6
<1>7. CASE PopNext(t)
  <2>1. head' = head
    BY <1>7 DEF PopNext
  <2>2. Stays
    BY <1>0, <1>1, <1>7 DEF PopNext, Popped
  <2> QED
    BY <1>2, <1>s, <2>1, <2>2
<1>8. CASE (PopCas(t) \/ PushCas(t)) /\ ~(Same(t) /\ on[t] = "a")
  <2>1. head'["a"] = head["a"]
    BY <1>0, <1>1, <1>8 DEF PopCas, PushCas, Swap, TypeOK
  <2>2. Stays
    <3>1. CASE PopCas(t)
      BY <1>0, <1>1, <1>8, <3>1 DEF PopCas, Popped
    <3>2. CASE PushCas(t)
      BY <1>0, <1>1, <1>8, <3>2 DEF PushCas
    <3> QED
      BY <1>8, <3>1, <3>2
  <2> QED
    BY <1>2, <1>s, <2>1, <2>2
<1>9. CASE PopCas(t) /\ Same(t) /\ on[t] = "a"
  <2>1. /\ Chain("a")' = Tail(Chain("a")) /\ Chain("a") # <<>> /\ Head(Chain("a")) = old[t].node
        /\ old[t].node \in Nodes /\ x'[t] = old[t].node /\ x[t] = Null /\ value' = value
    BY <1>9, PopEffect
  <2>2. /\ pc[t] = "pop_cas" /\ pc'[t] = "take" /\ op[t] = "pop" /\ UNCHANGED <<op, on, res>>
    BY <1>0, <1>1, <1>9 DEF PopCas, Popped
  <2>3. CallOf(t) = "pop" /\ CallOf(t)' = "done"
    BY <1>1, <1>9, <2>2
  <2>4. ValOf(t)' = value[old[t].node]
    <3>1. x'[t] # Null
      BY <2>1 DEF Nodes, Null
    <3> QED
      BY <1>1, <2>1, <2>2, <3>1
  <2>5. Contents = ValuesOf(value, Chain("a")) /\ Contents' = ValuesOf(value, Tail(Chain("a")))
    BY <2>1 DEF Contents, ValuesOf
  <2>6. Contents # <<>> /\ Contents' = Tail(Contents) /\ Head(Contents) = ValOf(t)'
    <3>1. value \in [Nodes -> Values] /\ Chain("a") \in Seq(Nodes)
      BY <1>0, RightKnows DEF TypeOK
    <3> QED
      BY <2>1, <2>4, <2>5, <3>1, ValuesPop
  <2> QED
    BY <2>3, <2>6 DEF Effect
<1>10. CASE PushCas(t) /\ Same(t) /\ on[t] = "a"
  <2>1. Chain("a")' = <<x[t]>> \o Chain("a") /\ x[t] \in Nodes /\ value' = value
    BY <1>10, PushEffect
  <2>2. pc[t] = "push_cas" /\ pc'[t] = "done" /\ op[t] \in Values /\ op' = op
    BY <1>0, <1>1, <1>10 DEF PushCas
  <2>3. CallOf(t) = "push" /\ CallOf(t)' = "done" /\ ValOf(t) = op[t] /\ ValOf(t)' = Nothing
    BY <1>1, <2>2
  <2>4. value[x[t]] = op[t]
    <3>1. x[t] # Null
      BY <2>1 DEF Nodes, Null
    <3> QED
      BY <1>0, <1>10, <2>2, <3>1 DEF Snapshot
  <2>5. Contents = ValuesOf(value, Chain("a")) /\ Contents' = ValuesOf(value, <<x[t]>> \o Chain("a"))
    BY <2>1 DEF Contents, ValuesOf
  <2>6. Contents' = <<ValOf(t)>> \o Contents
    <3>1. value \in [Nodes -> Values] /\ Chain("a") \in Seq(Nodes)
      BY <1>0, RightKnows DEF TypeOK
    <3> QED
      BY <2>1, <2>3, <2>4, <2>5, <3>1, ValuesPush
  <2> QED
    BY <2>3, <2>6 DEF Effect
<1> QED
  BY <1>3, <1>4, <1>5, <1>6, <1>7, <1>8, <1>9, <1>10 DEF Step

\* The initial values are the contents at the start.
LEMMA InitOfStack == Init => Linear!StackInit
<1> SUFFICES ASSUME Init PROVE Linear!StackInit
  OBVIOUS
<1>1. IInv /\ \A t \in Threads : op[t] = Nothing
  BY InitKeeps DEF Init
<1>2. Contents \in Seq(Values)
  <2>1. value \in [Nodes -> Values] /\ Chain("a") \in Seq(Nodes)
    BY <1>1, RightKnows DEF IInv, TypeOK
  <2>2. Contents = ValuesOf(value, Chain("a"))
    BY DEF Contents, ValuesOf
  <2> QED
    BY <2>1, <2>2, ValuesAre
<1>3. \A t \in Threads : CallOf(t) = "none" /\ ValOf(t) = Nothing
  BY <1>1 DEF CallOf, ValOf
<1> QED
  BY <1>2, <1>3 DEF Linear!StackInit, Contents, CallOf, ValOf

\* clear empties it.
LEMMA ClearOfStack == ASSUME IInv, Clear PROVE Linear!Clear
<1>1. Chain("a")' = <<>> /\ \A t \in Threads : op[t] = Nothing
  BY ClearKeeps
<1>2. op' = op
  BY DEF Clear
<1>3. Contents' = <<>>
  BY <1>1 DEF Contents
<1>4. \A t \in Threads : /\ CallOf(t) = "none" /\ CallOf(t)' = "none"
                         /\ ValOf(t) = Nothing /\ ValOf(t)' = Nothing
  BY <1>1, <1>2 DEF CallOf, ValOf
<1> QED
  BY <1>3, <1>4 DEF Linear!Clear, Contents, CallOf, ValOf

\* concurrent_stack is linearizable: every behaviour of it is one of Stack, in which
\* each push and each pop takes effect at one instant between its call and its return.
THEOREM StackLinearizable == Spec => Linearizable
<1>1. ASSUME IInv, [Next]_vars PROVE [Linear!StackNext]_(Linear!stackVars)
  <2>1. ASSUME NEW t \in Threads, Step(t), UNCHANGED destroyed
        PROVE  [Linear!StackNext]_(Linear!stackVars)
    <3>1. Effect(t)
      BY <1>1, <2>1, StepEffect
    <3>2. \A s \in Threads : s # t => CallOf(s)' = CallOf(s) /\ ValOf(s)' = ValOf(s)
      BY <1>1, <2>1, OthersCall
    <3> QED
      BY <3>1, <3>2, EffectIsStep
  <2>2. CASE Clear
    BY <1>1, <2>2, ClearOfStack DEF Linear!StackNext
  <2>3. CASE UNCHANGED vars
    <3>1. UNCHANGED <<head, next, value, pc, op, on, old, x, res>>
      BY <2>3 DEF vars, heap, locals
    <3>2. Chain("a")' = Chain("a")
      BY <3>1 DEF Chain
    <3>3. Contents' = Contents /\ \A t \in Threads : CallOf(t)' = CallOf(t) /\ ValOf(t)' = ValOf(t)
      BY <3>1, <3>2 DEF Contents, CallOf, ValOf, HasEffect, FoundEmpty, Pushing
    <3> QED
      BY <3>3 DEF Linear!stackVars, Contents, CallOf, ValOf
  <2> QED
    BY <1>1, <2>1, <2>2, <2>3 DEF Next, Gone
<1> QED
  BY <1>1, Inductive, InitOfStack, PTL DEF Spec, Linearizable, Linear!StackSpec

=============================================================================
