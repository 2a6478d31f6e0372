-------------------------- MODULE WorkStealingProofs --------------------------
(***************************************************************************)
(* Proofs about WorkStealing for every number of workers, every size of    *)
(* the deques and all programs.  First what the steps do to sequences and  *)
(* to the jobs of a deque, then the inductive invariant, then each of its  *)
(* parts step by step.                                                     *)
(***************************************************************************)
EXTENDS WorkStealing, FiniteSetTheorems, FunctionTheorems, SequenceTheorems, WellFoundedInduction, TLAPS

-----------------------------------------------------------------------------
(* Sequences: call stacks and store buffers.                               *)

\* A frame is pushed.
LEMMA Pushed ==
  ASSUME NEW S, NEW s \in Seq(S), NEW f \in S
  PROVE  /\ Append(s, f) \in Seq(S) /\ Len(Append(s, f)) = Len(s) + 1
         /\ Append(s, f)[Len(s) + 1] = f /\ \A i \in 1..Len(s) : Append(s, f)[i] = s[i]
         /\ Last(Append(s, f)) = f
<1>1. /\ Append(s, f) \in Seq(S) /\ Len(Append(s, f)) = Len(s) + 1
      /\ Append(s, f)[Len(s) + 1] = f /\ \A i \in 1..Len(s) : Append(s, f)[i] = s[i]
  BY AppendProperties
<1> QED
  BY <1>1 DEF Last

\* The top frame is popped.
LEMMA Popped ==
  ASSUME NEW S, NEW s \in Seq(S), s # <<>>
  PROVE  /\ Front(s) \in Seq(S) /\ Len(Front(s)) = Len(s) - 1 /\ Len(s) - 1 \in Nat
         /\ \A i \in 1..(Len(s) - 1) : Front(s)[i] = s[i]
         /\ Last(s) = s[Len(s)] /\ Last(s) \in S
<1>1. Len(s) \in Nat /\ Len(s) > 0 /\ Len(s) \in 1..Len(s) /\ Len(s) - 1 \in 0..Len(s)
  <2>1. Len(s) \in Nat /\ Len(s) # 0
    BY EmptySeq
  <2> QED
    BY <2>1
<1>2. 1 <= Len(s) - 1 \/ Len(s) - 1 = 0
  <2>1. \A n \in Nat : n > 0 => 1 <= n - 1 \/ n - 1 = 0
    OBVIOUS
  <2> QED
    BY <1>1, <2>1
<1>3. /\ SubSeq(s, 1, Len(s) - 1) \in Seq(S)
      /\ Len(SubSeq(s, 1, Len(s) - 1)) = IF 1 <= Len(s) - 1 THEN Len(s) - 1 - 1 + 1 ELSE 0
      /\ \A i \in 1..(Len(s) - 1 - 1 + 1) : SubSeq(s, 1, Len(s) - 1)[i] = s[1 + i - 1]
  <2>1. 1 \in Int /\ Len(s) - 1 \in Int /\ \A i \in 1..(Len(s) - 1) : s[i] \in S
    BY <1>1
  <2> QED
    BY <2>1, SubSeqProperties
<1>4. Front(s) = SubSeq(s, 1, Len(s) - 1) /\ Last(s) = s[Len(s)]
  BY DEF Front, Last
<1>5. Len(Front(s)) = Len(s) - 1
  BY <1>1, <1>2, <1>3, <1>4
<1>6. \A i \in 1..(Len(s) - 1) : i \in 1..(Len(s) - 1 - 1 + 1) /\ 1 + i - 1 = i
  BY <1>1
<1> QED
  BY <1>1, <1>3, <1>4, <1>5, <1>6

\* The top frame is replaced.
LEMMA Replaced ==
  ASSUME NEW S, NEW s \in Seq(S), s # <<>>, NEW f \in S
  PROVE  LET t == Append(Front(s), f) IN
         /\ t \in Seq(S) /\ Len(t) = Len(s) /\ t[Len(s)] = f /\ Last(t) = f
         /\ \A i \in 1..(Len(s) - 1) : t[i] = s[i]
<1>1. Front(s) \in Seq(S) /\ Len(Front(s)) = Len(s) - 1 /\ Len(s) - 1 \in Nat
      /\ \A i \in 1..(Len(s) - 1) : Front(s)[i] = s[i]
  BY Popped
<1>2. Len(s) \in Nat
  OBVIOUS
<1> QED
  BY <1>1, <1>2, Pushed

\* The indices of the stores to a location.
In(b, loc) == {i \in DOMAIN b : b[i].loc = loc}

\* The greatest element of a singleton.
LEMMA MaxOne == ASSUME NEW i \in Int PROVE Max({i}) = i
  BY DEF Max

\* A store enters the buffer.
Enter(b, s) == b \o <<s>>
\* The store is the last, and the others stay where they are.
LEMMA Entered ==
  ASSUME NEW b \in Seq(Stores), NEW s \in Stores
  PROVE  LET c == Enter(b, s) IN
         /\ c \in Seq(Stores) /\ Len(c) = Len(b) + 1 /\ c[Len(b) + 1] = s /\ c # <<>>
         /\ \A i \in DOMAIN b : c[i] = b[i]
         /\ \A l : In(c, l) = In(b, l) \cup (IF s.loc = l THEN {Len(b) + 1} ELSE {})
<1> DEFINE c == Enter(b, s)
<1>1. /\ c \in Seq(Stores) /\ Len(c) = Len(b) + 1 /\ c[Len(b) + 1] = s /\ c # <<>>
      /\ \A i \in 1..Len(b) : c[i] = b[i]
  BY DEF Enter
<1> HIDE DEF c
<1>2. DOMAIN b = 1..Len(b) /\ Len(b) \in Nat /\ DOMAIN c = 1..(Len(b) + 1)
  BY <1>1
<1>3. ASSUME NEW l PROVE In(c, l) = In(b, l) \cup (IF s.loc = l THEN {Len(b) + 1} ELSE {})
  BY <1>1, <1>2 DEF In
<1>4. /\ c \in Seq(Stores) /\ Len(c) = Len(b) + 1 /\ c[Len(b) + 1] = s /\ c # <<>>
      /\ \A i \in DOMAIN b : c[i] = b[i]
      /\ \A l : In(c, l) = In(b, l) \cup (IF s.loc = l THEN {Len(b) + 1} ELSE {})
  BY <1>1, <1>2, <1>3
<1> QED
  BY <1>4 DEF c

\* The oldest store leaves it.
LEMMA Left ==
  ASSUME NEW b \in Seq(Stores), b # <<>>
  PROVE  /\ Tail(b) \in Seq(Stores) /\ Head(b) = b[1] /\ 1 \in DOMAIN b /\ Head(b) \in Stores
         /\ \A i \in DOMAIN Tail(b) : i + 1 \in DOMAIN b /\ Tail(b)[i] = b[i + 1]
         /\ \A i \in DOMAIN b : i = 1 \/ (i - 1 \in DOMAIN Tail(b) /\ Tail(b)[i - 1] = b[i])
         /\ \A l : In(Tail(b), l) = {i - 1 : i \in In(b, l) \ {1}}
<1>1. /\ Tail(b) \in Seq(Stores) /\ Head(b) = b[1] /\ Len(b) \in Nat /\ Len(b) > 0
      /\ DOMAIN b = 1..Len(b) /\ DOMAIN Tail(b) = 1..(Len(b) - 1)
      /\ \A i \in 1..(Len(b) - 1) : Tail(b)[i] = b[i + 1]
  BY EmptySeq, HeadTailProperties
<1>2. /\ \A i \in DOMAIN Tail(b) : i + 1 \in DOMAIN b /\ Tail(b)[i] = b[i + 1]
      /\ \A i \in DOMAIN b : i = 1 \/ (i - 1 \in DOMAIN Tail(b) /\ Tail(b)[i - 1] = b[i])
  BY <1>1
<1>3. ASSUME NEW l PROVE In(Tail(b), l) = {i - 1 : i \in In(b, l) \ {1}}
  <2>1. ASSUME NEW i \in In(Tail(b), l) PROVE i \in {k - 1 : k \in In(b, l) \ {1}}
    <3>1. i + 1 \in In(b, l) \ {1} /\ i = (i + 1) - 1
      BY <1>1, <1>2 DEF In
    <3> QED
      BY <3>1
  <2>2. ASSUME NEW k \in In(b, l) \ {1} PROVE k - 1 \in In(Tail(b), l)
    BY <1>1, <1>2 DEF In
  <2> QED
    BY <2>1, <2>2
<1> QED
  BY <1>1, <1>2, <1>3

-----------------------------------------------------------------------------
(* Store buffers.                                                          *)

\* A buffer has at most one store to each field of the deque, that of the slot
\* first and that of age last.
Fields == {"bot", "slot", "age"}
Shape(b) ==
  /\ \A l \in Fields : \A i, j \in In(b, l) : i = j
  /\ \A i \in In(b, "slot"), j \in In(b, "bot") : i < j
  /\ \A i \in In(b, "bot"), j \in In(b, "age") : i < j

\* What the owner reads of a location that holds m, and of slots that are d.
Value(b, l, m) == IF In(b, l) # {} THEN b[Max(In(b, l))].val ELSE m
SlotsOf(b, d) == IF In(b, "slot") # {} THEN LET s == b[Max(In(b, "slot"))] IN [d EXCEPT ![s.i] = s.val] ELSE d

\* The value read is that of the one store that waits.
LEMMA ValueRead ==
  ASSUME NEW b \in Seq(Stores), Shape(b)
  PROVE  /\ \A l \in Fields : \A m : \A i \in In(b, l) : Value(b, l, m) = b[i].val
         /\ \A l, m : In(b, l) = {} => Value(b, l, m) = m
         /\ \A d : \A i \in In(b, "slot") : SlotsOf(b, d) = [d EXCEPT ![b[i].i] = b[i].val]
         /\ \A d : In(b, "slot") = {} => SlotsOf(b, d) = d
<1>1. ASSUME NEW l \in Fields, NEW i \in In(b, l) PROVE In(b, l) = {i} /\ Max(In(b, l)) = i
  <2>1. In(b, l) = {i}
    BY DEF Shape
  <2>2. i \in Int
    BY DEF In
  <2> QED
    BY <2>1, <2>2, MaxOne
<1> QED
  BY <1>1 DEF Value, SlotsOf, Fields

\* What a store that enters the buffer changes of this.
LEMMA ValueEntered ==
  ASSUME NEW b \in Seq(Stores), NEW s \in Stores, Shape(b),
         s.loc \in Fields => In(b, s.loc) = {},
         s.loc = "slot" => In(b, "bot") = {}, s.loc = "bot" => In(b, "age") = {},
         s.loc \notin {"slot", "bot"} \/ In(b, "age") = {}
  PROVE  LET c == Enter(b, s) IN
         /\ Shape(c)
         /\ \A l \in Fields : \A m : Value(c, l, m) = IF s.loc = l THEN s.val ELSE Value(b, l, m)
         /\ \A d : SlotsOf(c, d) = IF s.loc = "slot" THEN [d EXCEPT ![s.i] = s.val] ELSE SlotsOf(b, d)
<1>0. LET c == Enter(b, s) IN
      /\ c \in Seq(Stores) /\ Len(c) = Len(b) + 1 /\ c[Len(b) + 1] = s /\ c # <<>>
      /\ \A i \in DOMAIN b : c[i] = b[i]
      /\ \A l : In(c, l) = In(b, l) \cup (IF s.loc = l THEN {Len(b) + 1} ELSE {})
  BY Entered
<1> DEFINE c == Enter(b, s)
<1>1. /\ c \in Seq(Stores) /\ Len(c) = Len(b) + 1 /\ c[Len(b) + 1] = s
      /\ \A i \in DOMAIN b : c[i] = b[i]
      /\ \A l : In(c, l) = In(b, l) \cup (IF s.loc = l THEN {Len(b) + 1} ELSE {})
  BY <1>0
<1>2. Len(b) \in Nat /\ \A l : \A i \in In(b, l) : i \in 1..Len(b) /\ i \in DOMAIN b /\ i < Len(b) + 1
  BY DEF In
<1> HIDE DEF c
<1>3. Shape(c)
  <2>1. ASSUME NEW l \in Fields, NEW i \in In(c, l), NEW j \in In(c, l) PROVE i = j
    <3>1. CASE s.loc = l
      BY <1>1, <3>1
    <3>2. CASE s.loc # l
      BY <1>1, <3>2 DEF Shape
    <3> QED
      BY <3>1, <3>2
  <2>2. ASSUME NEW i \in In(c, "slot"), NEW j \in In(c, "bot") PROVE i < j
    BY <1>1, <1>2 DEF Shape
  <2>3. ASSUME NEW i \in In(c, "bot"), NEW j \in In(c, "age") PROVE i < j
    BY <1>1, <1>2 DEF Shape
  <2> QED
    BY <2>1, <2>2, <2>3 DEF Shape
<1>r. /\ \A d : \A i \in In(c, "slot") : SlotsOf(c, d) = [d EXCEPT ![c[i].i] = c[i].val]
      /\ \A d : \A i \in In(b, "slot") : SlotsOf(b, d) = [d EXCEPT ![b[i].i] = b[i].val]
  BY <1>1, <1>3, ValueRead
<1>4. ASSUME NEW l \in Fields, NEW m PROVE Value(c, l, m) = IF s.loc = l THEN s.val ELSE Value(b, l, m)
  <2>1. CASE s.loc = l
    BY <1>1, <1>3, <2>1, ValueRead
  <2>2. CASE s.loc # l
    <3>1. In(c, l) = In(b, l)
      BY <1>1, <2>2
    <3>2. CASE In(b, l) = {}
      BY <2>2, <3>1, <3>2 DEF Value
    <3>3. CASE In(b, l) # {}
      <4>1. PICK i \in In(b, l) : TRUE
        BY <3>3
      <4> QED
        BY <1>1, <1>2, <1>3, <2>2, <3>1, <4>1, ValueRead
    <3> QED
      BY <3>2, <3>3
  <2> QED
    BY <2>1, <2>2
<1>5. ASSUME NEW d PROVE SlotsOf(c, d) = IF s.loc = "slot" THEN [d EXCEPT ![s.i] = s.val] ELSE SlotsOf(b, d)
  <2>1. CASE s.loc = "slot"
    BY <1>1, <1>3, <2>1, ValueRead
  <2>2. CASE s.loc # "slot"
    <3>1. In(c, "slot") = In(b, "slot")
      BY <1>1, <2>2
    <3>2. CASE In(b, "slot") = {}
      BY <2>2, <3>1, <3>2 DEF SlotsOf
    <3>3. CASE In(b, "slot") # {}
      <4>1. PICK i \in In(b, "slot") : TRUE
        BY <3>3
      <4>2. c[i] = b[i]
        BY <1>1, <1>2
      <4>3. SlotsOf(b, d) = [d EXCEPT ![b[i].i] = b[i].val]
        BY <1>r, <4>1
      <4>4. SlotsOf(c, d) = [d EXCEPT ![c[i].i] = c[i].val]
        BY <1>r, <3>1, <4>1
      <4> QED
        BY <2>2, <4>2, <4>3, <4>4
    <3> QED
      BY <3>2, <3>3
  <2> QED
    BY <2>1, <2>2
<1> QED
  BY <1>3, <1>4, <1>5 DEF c

\* The owner does not see a store move from the buffer to memory.
LEMMA ValueFlushed ==
  ASSUME NEW b \in Seq(Stores), b # <<>>, Shape(b)
  PROVE  /\ Shape(Tail(b))
         /\ \A l \in Fields : \A m : Value(Tail(b), l, IF Head(b).loc = l THEN Head(b).val ELSE m) = Value(b, l, m)
         /\ \A d : SlotsOf(Tail(b), IF Head(b).loc = "slot" THEN [d EXCEPT ![Head(b).i] = Head(b).val] ELSE d)
                     = SlotsOf(b, d)
         /\ \A l \in Fields : Head(b).loc = l => In(Tail(b), l) = {} /\ 1 \in In(b, l)
         /\ \A l \in Fields : Head(b).loc # l => \A i \in In(b, l) : i - 1 \in In(Tail(b), l) /\ Tail(b)[i - 1] = b[i]
<1> DEFINE c == Tail(b)
<1>1. /\ c \in Seq(Stores) /\ Head(b) = b[1] /\ 1 \in DOMAIN b
      /\ \A i \in DOMAIN c : i + 1 \in DOMAIN b /\ c[i] = b[i + 1]
      /\ \A i \in DOMAIN b : i = 1 \/ (i - 1 \in DOMAIN c /\ c[i - 1] = b[i])
      /\ \A l : In(c, l) = {i - 1 : i \in In(b, l) \ {1}}
  BY Left
<1>2. \A l : \A i \in In(b, l) : i \in Int /\ i \in DOMAIN b /\ b[i].loc = l
  BY DEF In
<1> HIDE DEF c
<1>3. \A l : \A i \in In(c, l) : i \in Int /\ i \in DOMAIN c /\ i + 1 \in In(b, l) /\ i + 1 # 1 /\ c[i] = b[i + 1]
  BY <1>1, <1>2 DEF In
<1>4. Shape(c)
  <2>1. ASSUME NEW l \in Fields, NEW i \in In(c, l), NEW j \in In(c, l) PROVE i = j
    <3>1. i + 1 = j + 1 /\ i \in Int /\ j \in Int
      BY <1>3 DEF Shape
    <3> QED
      BY <3>1
  <2>2. ASSUME NEW k, NEW l, NEW i \in In(c, k), NEW j \in In(c, l), <<k, l>> \in {<<"slot", "bot">>, <<"bot", "age">>}
        PROVE  i < j
    <3>1. i + 1 < j + 1 /\ i \in Int /\ j \in Int
      BY <1>3, <2>2 DEF Shape
    <3> QED
      BY <3>1
  <2> QED
    BY <2>1, <2>2 DEF Shape
<1>r. /\ \A l \in Fields : \A m : \A i \in In(c, l) : Value(c, l, m) = c[i].val
      /\ \A d : \A i \in In(c, "slot") : SlotsOf(c, d) = [d EXCEPT ![c[i].i] = c[i].val]
  BY <1>1, <1>4, ValueRead
<1>5. ASSUME NEW l \in Fields, Head(b).loc = l PROVE In(c, l) = {} /\ 1 \in In(b, l) /\ In(b, l) = {1}
  <2>1. 1 \in In(b, l)
    BY <1>1, <1>5 DEF In
  <2>2. In(b, l) = {1}
    BY <2>1 DEF Shape
  <2> QED
    BY <1>1, <2>1, <2>2
<1>6. ASSUME NEW l \in Fields, Head(b).loc # l, NEW i \in In(b, l) PROVE i - 1 \in In(c, l) /\ c[i - 1] = b[i]
  <2>1. i # 1 /\ i \in DOMAIN b
    BY <1>1, <1>2, <1>6
  <2> QED
    BY <1>1, <2>1
<1>7. ASSUME NEW l \in Fields, Head(b).loc # l PROVE In(b, l) = {} => In(c, l) = {}
  BY <1>1
<1>8. ASSUME NEW l \in Fields, NEW m
      PROVE  Value(c, l, IF Head(b).loc = l THEN Head(b).val ELSE m) = Value(b, l, m)
  <2>1. CASE Head(b).loc = l
    BY <1>1, <1>4, <1>5, <2>1, ValueRead
  <2>2. CASE Head(b).loc # l /\ In(b, l) = {}
    BY <1>7, <2>2 DEF Value
  <2>3. CASE Head(b).loc # l /\ In(b, l) # {}
    <3>1. PICK i \in In(b, l) : TRUE
      BY <2>3
    <3>2. i - 1 \in In(c, l) /\ c[i - 1] = b[i]
      BY <1>6, <2>3, <3>1
    <3>3. Value(c, l, m) = c[i - 1].val
      BY <1>r, <3>2
    <3>4. Value(b, l, m) = b[i].val
      BY <3>1, ValueRead
    <3> QED
      BY <2>3, <3>2, <3>3, <3>4
  <2> QED
    BY <2>1, <2>2, <2>3
<1>9. ASSUME NEW d
      PROVE  SlotsOf(c, IF Head(b).loc = "slot" THEN [d EXCEPT ![Head(b).i] = Head(b).val] ELSE d) = SlotsOf(b, d)
  <2> "slot" \in Fields
    BY DEF Fields
  <2>1. CASE Head(b).loc = "slot"
    <3>1. In(c, "slot") = {} /\ 1 \in In(b, "slot")
      BY <1>5, <2>1
    <3>2. SlotsOf(b, d) = [d EXCEPT ![b[1].i] = b[1].val]
      BY <3>1, ValueRead
    <3>3. SlotsOf(c, [d EXCEPT ![b[1].i] = b[1].val]) = [d EXCEPT ![b[1].i] = b[1].val]
      BY <3>1 DEF SlotsOf
    <3> QED
      BY <1>1, <2>1, <3>2, <3>3
  <2>2. CASE Head(b).loc # "slot" /\ In(b, "slot") = {}
    BY <1>7, <2>2 DEF SlotsOf
  <2>3. CASE Head(b).loc # "slot" /\ In(b, "slot") # {}
    <3>1. PICK i \in In(b, "slot") : TRUE
      BY <2>3
    <3>2. i - 1 \in In(c, "slot") /\ c[i - 1] = b[i]
      BY <1>6, <2>3, <3>1
    <3>3. SlotsOf(c, d) = [d EXCEPT ![c[i - 1].i] = c[i - 1].val]
      BY <1>r, <3>2
    <3>4. SlotsOf(b, d) = [d EXCEPT ![b[i].i] = b[i].val]
      BY <3>1, ValueRead
    <3>5. SlotsOf(c, d) = SlotsOf(b, d)
      BY <3>2, <3>3, <3>4
    <3> QED
      BY <2>3, <3>5
  <2> QED
    BY <2>1, <2>2, <2>3
<1> QED
  BY <1>4, <1>5, <1>6, <1>8, <1>9 DEF c


-----------------------------------------------------------------------------
(* The jobs of a deque.  A call stack st, the slots, the state rt of       *)
(* right() of each pardo and age.top are related: the n jobs are those of  *)
(* the topmost left frames, in order (e[k] is the frame of the job in slot *)
(* k), and those from age.top up are nobody's yet.  One left frame may be  *)
(* spare; the others without a job in the deque were stolen from.          *)

Ordered(e, n, st) ==
  /\ e \in [0..(n - 1) -> 1..Len(st)]
  /\ \A k, l \in 0..(n - 1) : k < l => e[k] < e[l]
OfFrames(e, n, st, slots, spare) ==
  \A k \in 0..(n - 1) : st[e[k]].at = "left" /\ slots[k] = st[e[k]].p /\ e[k] # spare
Nobodys(e, n, st, rt, top) == \A k \in 0..(n - 1) : rt[st[e[k]].p] = "idle" <=> k >= top
IsLeft(st, i, spare) == st[i].at = "left" /\ i # spare
HasJob(e, n, i) == \E k \in 0..(n - 1) : e[k] = i
Topmost(e, n, st, spare) ==
  \A k \in 0..(n - 1) : \A i \in 1..Len(st) :
    e[k] < i => st[i].at # "wait" /\ (IsLeft(st, i, spare) => HasJob(e, n, i))
OthersTaken(e, n, st, rt, spare) ==
  \A i \in 1..Len(st) : IsLeft(st, i, spare) => HasJob(e, n, i) \/ rt[st[i].p] # "idle"

Holds(e, n, st, slots, rt, top, spare) ==
  /\ Ordered(e, n, st) /\ OfFrames(e, n, st, slots, spare) /\ Nobodys(e, n, st, rt, top)
  /\ Topmost(e, n, st, spare) /\ OthersTaken(e, n, st, rt, spare)

\* What a job has.
LEMMA HasFrame ==
  ASSUME NEW e, NEW n \in Nat, NEW st, NEW slots, NEW rt, NEW top, NEW spare,
         Holds(e, n, st, slots, rt, top, spare), NEW k \in 0..(n - 1)
  PROVE  /\ e[k] \in 1..Len(st) /\ st[e[k]].at = "left" /\ slots[k] = st[e[k]].p /\ e[k] # spare
         /\ rt[st[e[k]].p] = "idle" <=> k >= top
<1>1. e[k] \in 1..Len(st)
  BY DEF Holds, Ordered
<1>2. st[e[k]].at = "left" /\ slots[k] = st[e[k]].p /\ e[k] # spare
  BY DEF Holds, OfFrames
<1>3. rt[st[e[k]].p] = "idle" <=> k >= top
  BY DEF Holds, Nobodys
<1> QED
  BY <1>1, <1>2, <1>3

\* It depends only on which frames there are and whether the jobs are taken.
LEMMA HoldsSame ==
  ASSUME NEW e, NEW n \in Nat, NEW st, NEW st2, NEW slots, NEW slots2, NEW rt, NEW rt2, NEW top, NEW spare,
         Holds(e, n, st, slots, rt, top, spare), Len(st2) = Len(st),
         \A i \in 1..Len(st) : st2[i].at = st[i].at /\ st2[i].p = st[i].p,
         \A k \in 0..(n - 1) : slots2[k] = slots[k],
         \A i \in 1..Len(st) : st[i].at = "left" => (rt2[st[i].p] = "idle" <=> rt[st[i].p] = "idle")
  PROVE  Holds(e, n, st2, slots2, rt2, top, spare)
<1>1. \A k \in 0..(n - 1) : e[k] \in 1..Len(st) /\ st[e[k]].at = "left"
  BY DEF Holds, Ordered, OfFrames
<1>2. Ordered(e, n, st2) /\ OfFrames(e, n, st2, slots2, spare)
  BY <1>1 DEF Holds, Ordered, OfFrames
<1>3. Nobodys(e, n, st2, rt2, top)
  BY <1>1 DEF Holds, Nobodys
<1>4. \A i \in 1..Len(st) : IsLeft(st2, i, spare) <=> IsLeft(st, i, spare)
  BY DEF IsLeft
<1>5. Topmost(e, n, st2, spare)
  BY <1>4 DEF Holds, Topmost
<1>6. OthersTaken(e, n, st2, rt2, spare)
  BY <1>4 DEF Holds, OthersTaken, IsLeft
<1> QED
  BY <1>2, <1>3, <1>5, <1>6 DEF Holds

\* If the top frame is a left one it has the last job; a worker in a wait has none.
LEMMA TopHolds ==
  ASSUME NEW e, NEW n \in Nat, NEW st, NEW slots, NEW rt, NEW top, NEW spare,
         Holds(e, n, st, slots, rt, top, spare), Len(st) \in Nat \ {0}, n > 0
  PROVE  /\ n - 1 \in 0..(n - 1) /\ e[n - 1] \in 1..Len(st) /\ slots[n - 1] = st[e[n - 1]].p
         /\ st[Len(st)].at = "left" /\ spare # Len(st) => e[n - 1] = Len(st)
         /\ st[Len(st)].at # "wait"
         /\ st[Len(st)].at # "left" => Len(st) - 1 \in 1..Len(st) /\ st[Len(st) - 1].at # "wait"
<1>1. n - 1 \in 0..(n - 1) /\ e[n - 1] \in 1..Len(st) /\ st[e[n - 1]].at = "left" /\ slots[n - 1] = st[e[n - 1]].p
  BY DEF Holds, Ordered, OfFrames
<1>2. \A k \in 0..(n - 1) : e[k] <= e[n - 1]
  <2>1. ASSUME NEW k \in 0..(n - 1) PROVE e[k] <= e[n - 1]
    <3>1. k = n - 1 \/ k < n - 1
      OBVIOUS
    <3>2. e[k] \in 1..Len(st)
      BY DEF Holds, Ordered
    <3>3. k < n - 1 => e[k] < e[n - 1]
      BY <1>1 DEF Holds, Ordered
    <3> QED
      BY <1>1, <3>1, <3>2, <3>3
  <2> QED
    BY <2>1
<1>3. \A i \in 1..Len(st) : e[n - 1] < i => st[i].at # "wait" /\ ~IsLeft(st, i, spare)
  BY <1>1, <1>2 DEF Holds, Topmost, HasJob
<1>4. Len(st) \in 1..Len(st) /\ (e[n - 1] # Len(st) => e[n - 1] < Len(st))
  BY <1>1
<1>5. st[Len(st)].at = "left" /\ spare # Len(st) => e[n - 1] = Len(st)
  BY <1>3, <1>4 DEF IsLeft
<1>6. st[Len(st)].at # "wait"
  BY <1>1, <1>3, <1>4
<1>7. ASSUME st[Len(st)].at # "left" PROVE Len(st) - 1 \in 1..Len(st) /\ st[Len(st) - 1].at # "wait"
  <2>1. e[n - 1] < Len(st)
    BY <1>1, <1>4, <1>7
  <2>2. Len(st) - 1 \in 1..Len(st) /\ (e[n - 1] = Len(st) - 1 \/ e[n - 1] < Len(st) - 1)
    BY <1>1, <2>1
  <2> QED
    BY <1>1, <1>3, <2>2
<1> QED
  BY <1>1, <1>5, <1>6, <1>7

\* A deque without jobs.
LEMMA HoldsNone ==
  ASSUME NEW st, NEW slots, NEW rt, NEW top, NEW spare, NEW n, n = 0
  PROVE  (\E e : Holds(e, n, st, slots, rt, top, spare))
           <=> \A i \in 1..Len(st) : IsLeft(st, i, spare) => rt[st[i].p] # "idle"
<1>1. 0..(n - 1) = {}
  OBVIOUS
<1>2. \A e, i : ~HasJob(e, n, i)
  BY <1>1 DEF HasJob
<1>3. ASSUME NEW e, Holds(e, n, st, slots, rt, top, spare), NEW i \in 1..Len(st), IsLeft(st, i, spare)
      PROVE  rt[st[i].p] # "idle"
  BY <1>2, <1>3 DEF Holds, OthersTaken
<1>4. ASSUME \A i \in 1..Len(st) : IsLeft(st, i, spare) => rt[st[i].p] # "idle"
      PROVE  \E e : Holds(e, n, st, slots, rt, top, spare)
  <2> DEFINE e == [k \in {} |-> 1]
  <2>1. e \in [{} -> 1..Len(st)]
    OBVIOUS
  <2> HIDE DEF e
  <2>2. Ordered(e, n, st) /\ OfFrames(e, n, st, slots, spare) /\ Nobodys(e, n, st, rt, top) /\ Topmost(e, n, st, spare)
    BY <1>1, <2>1 DEF Ordered, OfFrames, Nobodys, Topmost
  <2>3. OthersTaken(e, n, st, rt, spare)
    BY <1>4 DEF OthersTaken
  <2> QED
    BY <2>2, <2>3 DEF Holds
<1> QED
  BY <1>3, <1>4

\* When every job is taken, no left frame's is to be had.
LEMMA HoldsReset ==
  ASSUME NEW e, NEW n \in Nat, NEW st, NEW slots, NEW slots2, NEW rt, NEW top \in Nat, NEW top2,
         Holds(e, n, st, slots, rt, top, 0), top >= n
  PROVE  \E f : Holds(f, 0, st, slots2, rt, top2, 0)
<1>1. ASSUME NEW i \in 1..Len(st), IsLeft(st, i, 0), rt[st[i].p] = "idle" PROVE FALSE
  <2>1. PICK k \in 0..(n - 1) : e[k] = i
    BY <1>1 DEF Holds, OthersTaken, HasJob
  <2>2. k >= top
    BY <1>1, <2>1 DEF Holds, Nobodys
  <2> QED
    BY <2>2
<1> QED
  BY <1>1, HoldsNone

\* When all but the last one are taken, that of the top frame is.
LEMMA HoldsWon ==
  ASSUME NEW e, NEW n \in Nat, n > 0, NEW st, NEW slots, NEW slots2, NEW rt, NEW top \in Nat, NEW top2,
         Holds(e, n, st, slots, rt, top, 0), top = n - 1, Len(st) \in Nat \ {0}, st[Len(st)].at = "left"
  PROVE  \E f : Holds(f, 0, st, slots2, rt, top2, Len(st))
<1>1. ASSUME NEW i \in 1..Len(st), IsLeft(st, i, Len(st)), rt[st[i].p] = "idle" PROVE FALSE
  <2>1. IsLeft(st, i, 0)
    BY <1>1 DEF IsLeft
  <2>2. PICK k \in 0..(n - 1) : e[k] = i
    BY <1>1, <2>1 DEF Holds, OthersTaken, HasJob
  <2>3. k >= top
    BY <1>1, <2>2 DEF Holds, Nobodys
  <2>4. k = n - 1
    BY <2>3
  <2>5. e[n - 1] = Len(st)
    BY TopHolds
  <2> QED
    BY <1>1, <2>2, <2>4, <2>5 DEF IsLeft
<1> QED
  BY <1>1, HoldsNone

\* A call pushes a left frame: with its job, or spare if there is no room for it.
Room(n, len, n2, spare2) == (n2 = n + 1 /\ spare2 = 0) \/ (n2 = n /\ spare2 = len)
CallsOn(st, st2, p) ==
  /\ Len(st) \in Nat /\ Len(st2) = Len(st) + 1
  /\ \A i \in 1..Len(st) : st2[i].at = st[i].at /\ st2[i].p = st[i].p
  /\ st2[Len(st2)].at = "left" /\ st2[Len(st2)].p = p
\* The jobs held are then those of before, with the new one if there is room.
LEMMA HoldsPush ==
  ASSUME NEW e, NEW n \in Nat, NEW st, NEW st2, NEW slots, NEW slots2, NEW rt, NEW top \in Nat, NEW p,
         Holds(e, n, st, slots, rt, top, 0), CallsOn(st, st2, p), slots2[n] = p,
         \A k \in 0..(n - 1) : slots2[k] = slots[k],
         rt[p] = "idle", top <= n,
         NEW n2, NEW spare2, Room(n, Len(st2), n2, spare2)
  PROVE  \E f : Holds(f, n2, st2, slots2, rt, top, spare2)
<1>c. /\ Len(st) \in Nat /\ Len(st2) = Len(st) + 1
      /\ \A i \in 1..Len(st) : st2[i].at = st[i].at /\ st2[i].p = st[i].p
      /\ st2[Len(st) + 1].at = "left" /\ st2[Len(st) + 1].p = p
  BY DEF CallsOn
<1> USE <1>c
<1> DEFINE m == Len(st)
           f == [k \in 0..(n2 - 1) |-> IF k = n THEN m + 1 ELSE e[k]]
<1>m. n + 1 # n /\ ((n2 = n + 1 /\ spare2 = 0) \/ (n2 = n /\ spare2 = Len(st2)))
  BY DEF Room
<1>0. \A k \in 0..(n2 - 1) : (n2 = n + 1 /\ k = n) \/ k \in 0..(n - 1)
  BY <1>m
<1>h. \A k \in 0..(n - 1) :
        e[k] \in 1..m /\ st[e[k]].at = "left" /\ slots[k] = st[e[k]].p /\ (rt[st[e[k]].p] = "idle" <=> k >= top)
  <2>1. ASSUME NEW k \in 0..(n - 1)
        PROVE  e[k] \in 1..m /\ st[e[k]].at = "left" /\ slots[k] = st[e[k]].p /\ (rt[st[e[k]].p] = "idle" <=> k >= top)
    BY HasFrame
  <2> QED
    BY <2>1
<1>1. /\ \A k \in 0..(n - 1) : e[k] \in 1..m /\ st[e[k]].at = "left" /\ k # n /\ k \in 0..(n2 - 1)
      /\ m \in Nat /\ (n2 = n + 1 => n \in 0..(n2 - 1) /\ n2 - 1 = n) /\ (n2 # n + 1 => n2 = n)
  <2>1. (n2 # n + 1 => n2 = n)
    BY <1>m
  <2>2. (n2 = n + 1 => n \in 0..(n2 - 1) /\ n2 - 1 = n) /\ \A k \in 0..(n - 1) : k # n /\ k \in 0..(n2 - 1)
    BY <2>1
  <2> QED
    BY <1>h, <2>1, <2>2
<1>2. /\ f \in [0..(n2 - 1) -> 1..(m + 1)]
      /\ n2 = n + 1 => f[n] = m + 1
      /\ \A k \in 0..(n - 1) : f[k] = e[k]
  BY <1>0, <1>1
<1> HIDE DEF f
<1>3. ASSUME NEW k \in 0..(n2 - 1), NEW l \in 0..(n2 - 1), k < l PROVE f[k] < f[l]
  <2>1. k \in 0..(n - 1) /\ f[k] = e[k]
    BY <1>0, <1>1, <1>2, <1>3
  <2>2. CASE l = n /\ n2 = n + 1
    BY <1>1, <1>2, <2>1, <2>2
  <2>3. CASE l \in 0..(n - 1)
    BY <1>2, <1>3, <2>1, <2>3 DEF Holds, Ordered
  <2> QED
    BY <1>0, <2>2, <2>3
<1>4. Ordered(f, n2, st2)
  BY <1>2, <1>3 DEF Ordered
<1>5. OfFrames(f, n2, st2, slots2, spare2)
  <2>1. ASSUME NEW k \in 0..(n - 1) PROVE st2[f[k]].at = "left" /\ slots2[k] = st2[f[k]].p /\ f[k] # spare2
    <3>1. f[k] = e[k] /\ e[k] \in 1..m /\ st[e[k]].at = "left" /\ slots[k] = st[e[k]].p
      BY <1>2, <1>h
    <3>2. e[k] # spare2
      BY <1>m, <1>1, <3>1
    <3> QED
      BY <3>1, <3>2
  <2>2. n2 = n + 1 => st2[f[n]].at = "left" /\ slots2[n] = st2[f[n]].p /\ f[n] # spare2
    BY <1>m, <1>1, <1>2
  <2> QED
    BY <1>0, <2>1, <2>2 DEF OfFrames
<1>6. Nobodys(f, n2, st2, rt, top)
  <2>1. ASSUME NEW k \in 0..(n - 1) PROVE rt[st2[f[k]].p] = "idle" <=> k >= top
    <3>1. f[k] = e[k] /\ e[k] \in 1..m /\ (rt[st[e[k]].p] = "idle" <=> k >= top)
      BY <1>2, <1>h
    <3> QED
      BY <3>1
  <2>2. n2 = n + 1 => (rt[st2[f[n]].p] = "idle" <=> n >= top)
    BY <1>m, <1>1, <1>2
  <2> QED
    BY <1>0, <2>1, <2>2 DEF Nobodys
<1>7. \A i \in 1..m : HasJob(e, n, i) => HasJob(f, n2, i)
  BY <1>1, <1>2 DEF HasJob
<1>8. /\ \A i \in 1..m : IsLeft(st2, i, spare2) => IsLeft(st, i, 0)
      /\ IsLeft(st2, m + 1, spare2) => HasJob(f, n2, m + 1)
  BY <1>m, <1>1, <1>2 DEF IsLeft, HasJob
<1>9. Topmost(f, n2, st2, spare2)
  <2>1. ASSUME NEW k \in 0..(n2 - 1), NEW i \in 1..(m + 1), f[k] < i
        PROVE  st2[i].at # "wait" /\ (IsLeft(st2, i, spare2) => HasJob(f, n2, i))
    <3>1. CASE i = m + 1
      BY <1>8, <3>1
    <3>2. CASE i \in 1..m
      <4>1. k \in 0..(n - 1) /\ f[k] = e[k]
        BY <1>0, <1>1, <1>2, <2>1, <3>2
      <4> QED
        BY <1>7, <1>8, <2>1, <3>2, <4>1 DEF Holds, Topmost
    <3> QED
      BY <1>1, <3>1, <3>2
  <2> QED
    BY <2>1 DEF Topmost
<1>10. OthersTaken(f, n2, st2, rt, spare2)
  <2>1. ASSUME NEW i \in 1..m, IsLeft(st2, i, spare2) PROVE HasJob(f, n2, i) \/ rt[st2[i].p] # "idle"
    BY <1>7, <1>8, <2>1 DEF Holds, OthersTaken
  <2>2. \A i \in 1..(m + 1) : i = m + 1 \/ i \in 1..m
    BY <1>1
  <2> QED
    BY <1>8, <2>1, <2>2 DEF OthersTaken
<1> QED
  BY <1>4, <1>5, <1>6, <1>9, <1>10 DEF Holds

\* The last job is popped: its frame is on top, and becomes the spare one.
LEMMA HoldsTake ==
  ASSUME NEW e, NEW n \in Nat, NEW st, NEW slots, NEW rt, NEW top \in Nat,
         Holds(e, n + 1, st, slots, rt, top, 0), Len(st) \in Nat \ {0}, st[Len(st)].at = "left"
  PROVE  \E f : Holds(f, n, st, slots, rt, top, Len(st))
<1> DEFINE f == [k \in 0..(n - 1) |-> e[k]]
<1>1. n + 1 > 0 /\ n + 1 \in Nat /\ n + 1 - 1 = n /\ n \in 0..n /\ Len(st) # 0
  OBVIOUS
<1>2. e[n] = Len(st)
  BY <1>1, TopHolds
<1>3. \A k \in 0..n : k = n \/ k \in 0..(n - 1)
  OBVIOUS
<1>4. \A k \in 0..(n - 1) : k \in 0..n /\ e[k] \in 1..Len(st) /\ e[k] < Len(st)
  BY <1>1, <1>2 DEF Holds, Ordered
<1>5. f \in [0..(n - 1) -> 1..Len(st)] /\ \A k \in 0..(n - 1) : f[k] = e[k]
  BY <1>4
<1> HIDE DEF f
<1>6. Ordered(f, n, st) /\ OfFrames(f, n, st, slots, Len(st)) /\ Nobodys(f, n, st, rt, top)
  <2>1. \A k, l \in 0..n : k < l => e[k] < e[l]
    BY <1>1 DEF Holds, Ordered
  <2>2. Ordered(f, n, st)
    BY <1>4, <1>5, <2>1 DEF Ordered
  <2>3. OfFrames(f, n, st, slots, Len(st))
    <3>1. ASSUME NEW k \in 0..(n - 1) PROVE st[f[k]].at = "left" /\ slots[k] = st[f[k]].p /\ f[k] # Len(st)
      <4>1. f[k] = e[k] /\ k \in 0..(n + 1 - 1) /\ e[k] \in 1..Len(st) /\ e[k] < Len(st)
        BY <1>1, <1>4, <1>5
      <4> QED
        BY <1>1, <4>1, HasFrame
    <3> QED
      BY <3>1 DEF OfFrames
  <2>4. Nobodys(f, n, st, rt, top)
    BY <1>1, <1>4, <1>5 DEF Holds, Nobodys
  <2> QED
    BY <2>2, <2>3, <2>4
<1>7. \A i \in 1..Len(st) : IsLeft(st, i, Len(st)) => IsLeft(st, i, 0) /\ (HasJob(e, n + 1, i) => HasJob(f, n, i))
  BY <1>1, <1>2, <1>3, <1>5 DEF IsLeft, HasJob
<1>8. Topmost(f, n, st, Len(st))
  <2>1. ASSUME NEW k \in 0..(n - 1), NEW i \in 1..Len(st), f[k] < i
        PROVE  st[i].at # "wait" /\ (IsLeft(st, i, Len(st)) => HasJob(f, n, i))
    <3>1. k \in 0..(n + 1 - 1) /\ e[k] < i
      BY <1>1, <1>4, <1>5, <2>1
    <3>2. st[i].at # "wait" /\ (IsLeft(st, i, 0) => HasJob(e, n + 1, i))
      BY <3>1 DEF Holds, Topmost
    <3> QED
      BY <1>7, <3>2
  <2> QED
    BY <2>1 DEF Topmost
<1>9. OthersTaken(f, n, st, rt, Len(st))
  BY <1>1, <1>7 DEF Holds, OthersTaken
<1> QED
  BY <1>6, <1>8, <1>9 DEF Holds

\* A thief takes the job at top.
LEMMA HoldsSteal ==
  ASSUME NEW e, NEW n \in Nat, NEW st, NEW slots, NEW rt, NEW rt2, NEW top \in Nat, NEW spare,
         Holds(e, n, st, slots, rt, top, spare), Len(st) \in Nat, top < n,
         \A i, j \in 1..Len(st) : st[i].at = "left" /\ st[j].at = "left" /\ st[i].p = st[j].p => i = j,
         \A i \in 1..Len(st) : st[i].at = "left" =>
           rt2[st[i].p] = IF st[i].p = slots[top] THEN "running" ELSE rt[st[i].p]
  PROVE  Holds(e, n, st, slots, rt2, top + 1, spare)
<1>1. top \in 0..(n - 1) /\ \A k \in 0..(n - 1) : e[k] \in 1..Len(st) /\ st[e[k]].at = "left" /\ slots[k] = st[e[k]].p
  BY DEF Holds, Ordered, OfFrames
<1>2. \A i \in 1..Len(st) : st[i].at = "left" => (st[i].p = slots[top] <=> i = e[top])
  BY <1>1
<1>3. ASSUME NEW k \in 0..(n - 1), NEW l \in 0..(n - 1), e[k] = e[l] PROVE k = l
  <2>1. k = l \/ k < l \/ l < k
    OBVIOUS
  <2>2. (k < l => e[k] < e[l]) /\ (l < k => e[l] < e[k])
    BY DEF Holds, Ordered
  <2> QED
    BY <1>1, <1>3, <2>1, <2>2
<1>4. Nobodys(e, n, st, rt2, top + 1)
  <2>1. ASSUME NEW k \in 0..(n - 1) PROVE rt2[st[e[k]].p] = "idle" <=> k >= top + 1
    <3>1. rt2[st[e[k]].p] = IF k = top THEN "running" ELSE rt[st[e[k]].p]
      BY <1>1, <1>2, <1>3
    <3>2. rt[st[e[k]].p] = "idle" <=> k >= top
      BY DEF Holds, Nobodys
    <3>3. k = top \/ k < top \/ k >= top + 1
      OBVIOUS
    <3> QED
      BY <3>1, <3>2, <3>3
  <2> QED
    BY <2>1 DEF Nobodys
<1>5. OthersTaken(e, n, st, rt2, spare)
  <2>1. ASSUME NEW i \in 1..Len(st), IsLeft(st, i, spare), ~HasJob(e, n, i) PROVE rt2[st[i].p] # "idle"
    BY <2>1 DEF Holds, OthersTaken, IsLeft
  <2> QED
    BY <2>1 DEF OthersTaken
<1> QED
  BY <1>4, <1>5 DEF Holds

\* The top frame, not the frame of a job, goes or gives way to one that is neither
\* a left frame nor, if there are jobs, a wait.
LEMMA HoldsLeave ==
  ASSUME NEW e, NEW n \in Nat, NEW st, NEW st2, NEW slots, NEW slots2, NEW rt, NEW rt2, NEW top, NEW spare,
         Holds(e, n, st, slots, rt, top, spare), Len(st) \in Nat \ {0},
         spare = Len(st) \/ (spare = 0 /\ st[Len(st)].at # "left"),
         Len(st2) = Len(st) - 1 \/ (Len(st2) = Len(st) /\ st2[Len(st)].at # "left" /\ (n > 0 => st2[Len(st)].at # "wait")),
         \A i \in 1..(Len(st) - 1) : st2[i].at = st[i].at /\ st2[i].p = st[i].p,
         \A k \in 0..(n - 1) : slots2[k] = slots[k],
         \A i \in 1..(Len(st) - 1) : st[i].at = "left" => (rt2[st[i].p] = "idle" <=> rt[st[i].p] = "idle")
  PROVE  Holds(e, n, st2, slots2, rt2, top, 0)
<1> DEFINE m == Len(st)
<1>1. /\ m \in Nat /\ m # 0 /\ m \in 1..m /\ \A i \in 1..m : i = m \/ i \in 1..(m - 1)
      /\ \A i \in 1..Len(st2) : i \in 1..m /\ i # 0
      /\ \A i \in 1..(m - 1) : i \in 1..Len(st2) /\ i \in 1..m /\ i # m /\ i # 0
  OBVIOUS
<1>2. ASSUME NEW k \in 0..(n - 1) PROVE e[k] \in 1..(m - 1) /\ st[e[k]].at = "left" /\ slots[k] = st[e[k]].p /\ e[k] \in 1..m
  <2>1. e[k] \in 1..m /\ st[e[k]].at = "left" /\ slots[k] = st[e[k]].p /\ e[k] # spare
    BY DEF Holds, Ordered, OfFrames
  <2>2. e[k] # m
    BY <2>1
  <2> QED
    BY <1>1, <2>1, <2>2
<1>3. Ordered(e, n, st2)
  <2>1. e \in [0..(n - 1) -> 1..m]
    BY DEF Holds, Ordered
  <2>2. e \in [0..(n - 1) -> 1..Len(st2)]
    BY <1>1, <1>2, <2>1
  <2> QED
    BY <2>2 DEF Holds, Ordered
<1>4. OfFrames(e, n, st2, slots2, 0)
  BY <1>1, <1>2 DEF OfFrames
<1>5. Nobodys(e, n, st2, rt2, top)
  <2>1. ASSUME NEW k \in 0..(n - 1) PROVE rt2[st2[e[k]].p] = "idle" <=> k >= top
    <3>1. rt[st[e[k]].p] = "idle" <=> k >= top
      BY HasFrame
    <3> QED
      BY <1>2, <3>1
  <2> QED
    BY <2>1 DEF Nobodys
<1>6. \A i \in 1..Len(st2) : IsLeft(st2, i, 0) => i \in 1..(m - 1) /\ IsLeft(st, i, spare) /\ st[i].at = "left"
  <2>1. ASSUME NEW i \in 1..Len(st2), IsLeft(st2, i, 0) PROVE i \in 1..(m - 1) /\ st[i].at = "left"
    BY <1>1, <2>1 DEF IsLeft
  <2>2. ASSUME NEW i \in 1..Len(st2), IsLeft(st2, i, 0), i = spare PROVE FALSE
    <3>1. i \in 1..(m - 1) /\ st2[i].at = "left" /\ i \in 1..m /\ i # m
      BY <1>1, <2>1, <2>2 DEF IsLeft
    <3>2. PICK j \in 1..m : j = i
      BY <3>1
    <3> QED
      BY <2>2, <3>1
  <2> QED
    BY <2>1, <2>2 DEF IsLeft
<1>7. Topmost(e, n, st2, 0)
  <2>1. ASSUME NEW k \in 0..(n - 1), NEW i \in 1..Len(st2), e[k] < i
        PROVE  st2[i].at # "wait" /\ (IsLeft(st2, i, 0) => HasJob(e, n, i))
    <3>1. st[i].at # "wait" /\ (IsLeft(st, i, spare) => HasJob(e, n, i))
      BY <1>1, <2>1 DEF Holds, Topmost
    <3>2. CASE i \in 1..(m - 1)
      BY <1>6, <3>1, <3>2
    <3>3. CASE i \notin 1..(m - 1)
      <4>1. i = m /\ i \in 1..Len(st2) /\ n > 0 /\ Len(st2) # m - 1
        BY <1>1, <3>3
      <4> QED
        BY <1>6, <3>1, <4>1
    <3> QED
      BY <3>2, <3>3
  <2> QED
    BY <2>1 DEF Topmost
<1>8. OthersTaken(e, n, st2, rt2, 0)
  <2>1. ASSUME NEW i \in 1..Len(st2), IsLeft(st2, i, 0), ~HasJob(e, n, i) PROVE rt2[st2[i].p] # "idle"
    <3>1. i \in 1..(m - 1) /\ IsLeft(st, i, spare) /\ st[i].at = "left" /\ i \in 1..m
      BY <1>1, <1>6, <2>1
    <3>2. rt[st[i].p] # "idle"
      BY <2>1, <3>1 DEF Holds, OthersTaken
    <3> QED
      BY <3>1, <3>2
  <2> QED
    BY <2>1 DEF OthersTaken
<1> QED
  BY <1>3, <1>4, <1>5, <1>7, <1>8 DEF Holds

-----------------------------------------------------------------------------
(* The inductive invariant.  Of a worker's stack and control:              *)

ThunkAt == {"main", "left", "right", "job"}
OwnerAt == {"left", "right", "wait"}    \* a frame of pardo itself
RightAt == {"right", "job"}             \* right() is run there
PopLabels == {"pop", "pop_load", "pop_cas", "pop_fence", "popped"}
StealLabels == {"steal_bot", "steal_job", "steal_cas"}

\* The frames that may be on top at each label.
TopFrames(l) ==
  CASE l = "run" -> ThunkAt
    [] l = "lock" -> {"left", "right", "job"}
    [] l \in {"pushed", "aborted", "pop_load", "pop_cas", "pop_fence"} -> {"left"}
    [] l \in {"pop", "popped"} -> {"left", "wait"}
    [] l = "return" -> {"right", "wait"}
    [] l = "join" -> {"main"}
    [] l = "exited" -> {"main", "wait"}
    [] OTHER -> {"wait"}

IdleAt(w) == IF w = 0 THEN "main" ELSE "wait"
StackShape(w, st) ==
  /\ Len(st) > 0 /\ st[1].at = IdleAt(w) /\ st[1].p = NoPardo
  /\ \A i \in 2..Len(st) :
       /\ st[i].at # "main" /\ st[i].p \in Pardos
       /\ st[i - 1].at = "wait" <=> st[i].at = "job"

ControlOK(w, l, st, j) ==
  /\ StackShape(w, st)
  /\ st[Len(st)].at \in TopFrames(l)
  /\ l \in {"return", "spin"} => st[Len(st)].p \in Pardos
  /\ l = "exited" => st[Len(st)].p = NoPardo
  /\ l \notin {"pop_cas", "pop_fence", "popped", "steal_cas"} => j = NoPardo

Control(w) == ControlOK(w, pc[w], stack[w], job[w])

-----------------------------------------------------------------------------
(* Of the store buffers: what may wait in them at label l, when memory     *)
(* holds the age a.                                                        *)

BufferOK(l, b, a) ==
  /\ Shape(b)
  /\ In(b, "bot") # {} => l \in {"pushed", "pop_load", "pop_cas", "pop_fence"}
  /\ In(b, "slot") # {} => l \in {"pushed", "aborted"}
  /\ In(b, "age") # {} => l = "pop_fence"
  /\ \A i \in In(b, "age") : b[i].val.top = 0 /\ b[i].val.tag > a.tag

-----------------------------------------------------------------------------
(* Of the deques: the label l, the stack st, the buffer b and the locals   *)
(* local_bot v, old_age o and job j of the owner; age a, bot m and the     *)
(* slots d in memory; and the state rt of the pardos' right().             *)

\* How many jobs there are, for the owner, who may be about to take one.
JobsIn(l, b, v, m) ==
  IF l \in {"pop_load", "pop_cas"} THEN v + 1 ELSE IF l = "pop_fence" THEN 0 ELSE Value(b, "bot", m)
\* and how many of them are in memory.
MemIn(l, b, v, m) == IF l = "pushed" /\ In(b, "slot") # {} THEN JobsIn(l, b, v, m) - 1 ELSE JobsIn(l, b, v, m)

\* The frame of a job that pop_bottom gave back, or that found no room, if any.
SpareIn(l, st, j) ==
  IF l = "aborted" \/ (l \in {"pop_fence", "popped"} /\ j # NoPardo) THEN Len(st) ELSE 0

JobsHeld(l, st, b, v, j, a, m, d, rt) ==
  \E e : Holds(e, JobsIn(l, b, v, m), st, SlotsOf(b, d), rt, a.top, SpareIn(l, st, j))

DequeOK(l, st, b, v, o, j, a, m, d, rt) ==
  LET n == JobsIn(l, b, v, m)
      p == st[Len(st)].p
  IN
  /\ JobsHeld(l, st, b, v, j, a, m, d, rt) /\ n \in 0..(QSize - 1)
  /\ l = "pushed" => \A i \in In(b, "slot") : b[i].i = n - 1
  /\ l = "pop_load" => Value(b, "bot", m) = v
  /\ l = "pop_cas" =>
       Value(b, "bot", m) = 0 /\ o.top = v /\ o.tag = a.tag /\ v <= a.top /\ j = p
  /\ l = "pop_fence" => Value(b, "bot", m) = 0 /\ (In(b, "age") = {} => a.top = 0)
  /\ l # "pop_fence" => a.top <= n
  /\ m <= MemIn(l, b, v, m) \/ (l = "pop_fence" /\ m <= a.top)
  /\ l = "popped" /\ j = NoPardo => n = 0
  /\ l = "aborted" => n = QSize - 1 /\ rt[p] = "idle"
  /\ l \in {"pop_fence", "popped"} /\ j # NoPardo => st[Len(st)].at = "left" /\ j = p /\ rt[p] = "idle"

DequeInv(w) ==
  BufferOK(pc[w], buf[w], age[w])
    /\ DequeOK(pc[w], stack[w], buf[w], lb[w], old[w], job[w], age[w], bot[w], deq[w], right)

\* Half of the deques are nobody's.
Unused == \A d \in Deques \ Workers : age[d] = NoAge /\ bot[d] = 0

-----------------------------------------------------------------------------
(* Of the thieves: as long as age is as it was read, the slot it points to *)
(* holds a job that nobody has.                                            *)

Ready(l, b, v, a, m) == a.top < MemIn(l, b, v, m)
ReadyAt(x) == Ready(pc[x], buf[x], lb[x], age[x], bot[x])

NotAfter(a, b) == a.tag < b.tag \/ (a.tag = b.tag /\ a.top <= b.top)

ThiefInv(w) ==
  /\ pc[w] \in StealLabels => NotAfter(old[w], age[victim[w]])
  /\ pc[w] \in {"steal_job", "steal_cas"} => old[w].top < QSize
  /\ pc[w] \in {"steal_job", "steal_cas"} =>
       victim[w] \in Workers \ {w} /\ (age[victim[w]] = old[w] => ReadyAt(victim[w]))
  /\ pc[w] = "steal_cas" /\ age[victim[w]] = old[w] => job[w] = deq[victim[w]][old[w].top]

\* A deque's tag counts pops, and each pop was for a pardo whose left() was done.
DoneLefts == {p \in Pardos : left[p] = "done"}
PopsIn(l, at) == IF l \in {"pop", "pop_load", "pop_cas"} /\ at = "left" THEN 1 ELSE 0
TagsOK(l, at, b, a, n) ==
  a.tag + PopsIn(l, at) <= n /\ \A i \in In(b, "age") : b[i].val.tag <= n
TagInv(w) == TagsOK(pc[w], Top(w).at, buf[w], age[w], Cardinality(DoneLefts))

-----------------------------------------------------------------------------
(* Of the pardos: where their frames are, and what that says of fork-join. *)

\* A frame says in which state its pardo is.
FrameTells(w, i) ==
  LET f == stack[w][i]
      top == i = Len(stack[w])
  IN /\ f.at = "left" => left[f.p] = IF top /\ pc[w] \in PopLabels THEN "done" ELSE "running"
     /\ f.at = "right" =>
          left[f.p] = "done" /\ right[f.p] = IF top /\ pc[w] = "return" THEN "done" ELSE "running"
     /\ f.at = "wait" /\ f.p # NoPardo =>
          /\ left[f.p] = "done" /\ right[f.p] # "idle"
          /\ top /\ pc[w] = "return" => right_done[f.p]
     /\ f.at = "job" => left[f.p] # "idle" /\ right[f.p] = "running"
     /\ f.at \in OwnerAt => f.p \notin joined

\* A pardo has one frame, and one worker runs its right thunk.
OneFrame ==
  \A w, x \in Workers : \A i \in DOMAIN stack[w], j \in DOMAIN stack[x] :
    /\ stack[w][i].p = stack[x][j].p /\ stack[w][i].p # NoPardo
    /\ \/ stack[w][i].at \in OwnerAt /\ stack[x][j].at \in OwnerAt
       \/ stack[w][i].at \in RightAt /\ stack[x][j].at \in RightAt
    => w = x /\ i = j

\* Another worker than w is in pardo p, and has not taken its job back.
InPardo(w, p) ==
  \E x \in Workers \ {w} : \E j \in DOMAIN stack[x] :
    stack[x][j].at \in {"left", "wait"} /\ stack[x][j].p = p

\* A job and the store to its flag are at another worker than its pardo.
JobsOutside(w) ==
  /\ \A i \in DOMAIN stack[w] : stack[w][i].at = "job" => InPardo(w, stack[w][i].p)
  /\ \A i \in In(buf[w], "right_done") :
       LET p == buf[w][i].val IN InPardo(w, p) /\ right[p] = "done" /\ ~right_done[p]

OneDone ==
  \A w, x \in Workers : \A i \in In(buf[w], "right_done"), j \in In(buf[x], "right_done") :
    buf[w][i].val = buf[x][j].val => w = x /\ i = j

DoneTells == \A p \in Pardos : right_done[p] => right[p] = "done"
LeftFirst == \A p \in Pardos : left[p] = "idle" => right[p] = "idle"
JoinsLast == \A p \in joined : left[p] = "done" /\ right[p] = "done"

FramesInv ==
  /\ \A w \in Workers : JobsOutside(w) /\ \A i \in DOMAIN stack[w] : FrameTells(w, i)
  /\ OneFrame /\ OneDone /\ DoneTells /\ LeftFirst /\ JoinsLast

-----------------------------------------------------------------------------
(* Of the calls: a thunk's frame has its calls still to make, and those    *)
(* made have returned but for the one whose frame is above it.             *)

ThunkOf(f) == <<f.p, IF f.at = "job" THEN "right" ELSE f.at>>
BodyOf(f) == Body(prog, ThunkOf(f))
Made(f) == Len(BodyOf(f)) - Len(f.rest)

CallsMade(w, i) ==
  LET f == stack[w][i] IN
  /\ Made(f) \in Nat
  /\ \A k \in 1..Len(f.rest) : f.rest[k] = BodyOf(f)[Made(f) + k] /\ left[f.rest[k]] = "idle"
  /\ i = Len(stack[w]) => \A k \in 1..Made(f) : BodyOf(f)[k] \in joined
  /\ i < Len(stack[w]) =>
       /\ Made(f) > 0 /\ BodyOf(f)[Made(f)] = stack[w][i + 1].p
       /\ \A k \in 1..(Made(f) - 1) : BodyOf(f)[k] \in joined

\* A thunk that did not begin has made no call.
CallsToMake ==
  \A p \in Pardos :
    /\ left[p] = "idle" => \A k \in DOMAIN prog.left[p] : left[prog.left[p][k]] = "idle"
    /\ right[p] = "idle" => \A k \in DOMAIN prog.right[p] : left[prog.right[p][k]] = "idle"

CallsInv ==
  /\ CallsToMake
  /\ \A w \in Workers : \A i \in DOMAIN stack[w] : stack[w][i].at \in ThunkAt => CallsMade(w, i)

IInv ==
  /\ TypeOK /\ FramesInv /\ CallsInv /\ Unused
  /\ \A w \in Workers : Control(w) /\ DequeInv(w) /\ ThiefInv(w) /\ TagInv(w)

-----------------------------------------------------------------------------
(* What the steps of its owner, and of thieves, do to one deque.           *)

Frame_ == [at : Frames, p : Pardos \cup {NoPardo}, rest : Seq(Pardos)]
TypedDeque(st, b, v, o, j, a, m, d) ==
  /\ st \in Seq(Frame_) /\ b \in Seq(Stores) /\ v \in 0..QSize /\ o \in Age /\ j \in Pardos \cup {NoPardo}
  /\ a \in Age /\ m \in 0..QSize /\ d \in [0..(QSize - 1) -> Pardos \cup {NoPardo}]

\* What a store holds.
LEMMA StoreVal ==
  ASSUME NEW s \in Stores
  PROVE  /\ s.loc \in {"bot", "age", "slot", "right_done", "finished_flag"}
         /\ s.loc = "bot" => s.val \in 0..QSize
         /\ s.loc = "age" => s.val \in Age
         /\ s.loc = "slot" => s.i \in 0..(QSize - 1) /\ s.val \in Pardos
         /\ s.loc = "right_done" => s.val \in Pardos
         /\ s.loc = "finished_flag" => s.val = 1
  BY DEF Stores

\* The stores of the program are stores.
LEMMA StoresAre ==
  /\ \A x \in 0..QSize : BotStore(x) \in Stores /\ BotStore(x).loc = "bot" /\ BotStore(x).val = x
  /\ \A x \in Age : AgeStore(x) \in Stores /\ AgeStore(x).loc = "age" /\ AgeStore(x).val = x
  /\ \A i \in 0..(QSize - 1), p \in Pardos :
       SlotStore(i, p) \in Stores /\ SlotStore(i, p).loc = "slot" /\ SlotStore(i, p).i = i /\ SlotStore(i, p).val = p
  /\ \A p \in Pardos : DoneStore(p) \in Stores /\ DoneStore(p).loc = "right_done" /\ DoneStore(p).val = p
  /\ FinishedStore \in Stores /\ FinishedStore.loc = "finished_flag" /\ FinishedStore.val = 1
<1>1. \A x \in 0..QSize : BotStore(x) \in Stores /\ BotStore(x).loc = "bot" /\ BotStore(x).val = x
  BY DEF Stores, BotStore
<1>2. \A x \in Age : AgeStore(x) \in Stores /\ AgeStore(x).loc = "age" /\ AgeStore(x).val = x
  BY DEF Stores, AgeStore
<1>3. \A i \in 0..(QSize - 1), p \in Pardos :
       SlotStore(i, p) \in Stores /\ SlotStore(i, p).loc = "slot" /\ SlotStore(i, p).i = i /\ SlotStore(i, p).val = p
  BY DEF Stores, SlotStore
<1>4. \A p \in Pardos : DoneStore(p) \in Stores /\ DoneStore(p).loc = "right_done" /\ DoneStore(p).val = p
  BY DEF Stores, DoneStore
<1>5. FinishedStore \in Stores /\ FinishedStore.loc = "finished_flag" /\ FinishedStore.val = 1
  BY DEF Stores, FinishedStore
<1> QED
  BY <1>1, <1>2, <1>3, <1>4, <1>5

\* The pop that finds nothing, or wins or loses the race, writes an age.
LEMMA NextAge == ASSUME NEW a \in Age PROVE NextTag(a) \in Age /\ NextTag(a).top = 0
                                            /\ (a.tag + 1 < TagMod => NextTag(a).tag = a.tag + 1)
<1>1. a.tag \in Nat /\ a.tag + 1 \in Int /\ TagMod \in Nat /\ TagMod > 0 /\ QSize \in Nat
  BY SchedulerAssumption DEF Age
<1>2. (a.tag + 1) % TagMod \in 0..(TagMod - 1)
  BY <1>1
<1>3. a.tag + 1 < TagMod => (a.tag + 1) % TagMod = a.tag + 1
  BY <1>1
<1> QED
  BY <1>1, <1>2, <1>3 DEF NextTag, Age

\* The owner reads a bottom in range.
LEMMA BotValue ==
  ASSUME NEW b \in Seq(Stores), Shape(b), NEW m \in 0..QSize
  PROVE  Value(b, "bot", m) \in 0..QSize /\ (In(b, "bot") = {} => Value(b, "bot", m) = m)
<1>1. CASE In(b, "bot") = {}
  BY <1>1 DEF Value
<1>2. CASE In(b, "bot") # {}
  <2>1. PICK i \in In(b, "bot") : TRUE
    BY <1>2
  <2>2. Value(b, "bot", m) = b[i].val
    BY <2>1, ValueRead DEF Fields
  <2>3. b[i] \in Stores /\ b[i].loc = "bot"
    BY <2>1 DEF In
  <2> QED
    BY <1>2, <2>2, <2>3, StoreVal
<1> QED
  BY <1>1, <1>2

\* The order of the ages.
LEMMA AgeOrder ==
  ASSUME NEW a \in Age, NEW b \in Age, NEW c \in Age, NotAfter(a, b), NotAfter(b, c)
  PROVE  NotAfter(a, c) /\ (a = c => a = b)
<1>1. /\ a.tag \in Nat /\ b.tag \in Nat /\ c.tag \in Nat /\ a.top \in Nat /\ b.top \in Nat /\ c.top \in Nat
      /\ a.tag = b.tag /\ a.top = b.top => a = b
  BY DEF Age
<1> QED
  BY <1>1 DEF NotAfter

\* Between the operations on the deque nothing of it waits in the buffer.
QuietOK(l, st, j, a, m, d, rt) ==
  /\ \E e : Holds(e, m, st, d, rt, a.top, IF l = "popped" /\ j # NoPardo THEN Len(st) ELSE 0)
  /\ m \in 0..(QSize - 1) /\ a.top <= m
  /\ l = "popped" /\ j = NoPardo => m = 0
  /\ l = "popped" /\ j # NoPardo => st[Len(st)].at = "left" /\ j = st[Len(st)].p /\ rt[j] = "idle"
Quiet(l) == l \notin {"pushed", "aborted", "pop_load", "pop_cas", "pop_fence"}

\* Outside the operations of the deque its state says what QuietOK does.
LEMMA QuietDeque ==
  ASSUME NEW l, Quiet(l), NEW st, NEW b, NEW v, NEW o, NEW j, NEW a, NEW m \in 0..QSize, NEW d, NEW rt, BufferOK(l, b, a)
  PROVE  /\ JobsIn(l, b, v, m) = m /\ MemIn(l, b, v, m) = m /\ SlotsOf(b, d) = d /\ Value(b, "bot", m) = m
         /\ DequeOK(l, st, b, v, o, j, a, m, d, rt) <=> QuietOK(l, st, j, a, m, d, rt)
<1>1. In(b, "bot") = {} /\ In(b, "slot") = {} /\ In(b, "age") = {}
  BY DEF BufferOK, Quiet
<1>2. /\ JobsIn(l, b, v, m) = m /\ MemIn(l, b, v, m) = m /\ SlotsOf(b, d) = d /\ Value(b, "bot", m) = m
  BY <1>1 DEF JobsIn, MemIn, SlotsOf, Value, Quiet
<1>3. SpareIn(l, st, j) = IF l = "popped" /\ j # NoPardo THEN Len(st) ELSE 0
  BY DEF SpareIn, Quiet
<1>4. JobsHeld(l, st, b, v, j, a, m, d, rt)
        <=> \E e : Holds(e, m, st, d, rt, a.top, IF l = "popped" /\ j # NoPardo THEN Len(st) ELSE 0)
  BY <1>2, <1>3 DEF JobsHeld
<1>5. m <= m
  OBVIOUS
<1> QED
  BY <1>2, <1>4, <1>5 DEF DequeOK, QuietOK, Quiet

\* What waits in a buffer at a quiet label is not of the deque.
LEMMA QuietBuffer ==
  ASSUME NEW l, NEW l2, NEW b \in Seq(Stores), NEW a, NEW a2, Quiet(l) \/ b = <<>>, BufferOK(l, b, a)
  PROVE  /\ In(b, "bot") = {} /\ In(b, "slot") = {} /\ In(b, "age") = {} /\ Shape(b)
         /\ BufferOK(l2, b, a2)
         /\ \A s \in Stores : s.loc \notin Fields => BufferOK(l2, Enter(b, s), a2)
<1>1. In(b, "bot") = {} /\ In(b, "slot") = {} /\ In(b, "age") = {} /\ Shape(b)
  <2>1. CASE b = <<>>
    BY <2>1 DEF In, BufferOK
  <2>2. CASE Quiet(l)
    BY <2>2 DEF BufferOK, Quiet
  <2> QED
    BY <2>1, <2>2
<1>2. ASSUME NEW s \in Stores, s.loc \notin Fields
      PROVE  LET c == Enter(b, s) IN In(c, "bot") = {} /\ In(c, "slot") = {} /\ In(c, "age") = {} /\ Shape(c)
  <2> DEFINE c == Enter(b, s)
  <2>0. \A l3 : In(c, l3) = In(b, l3) \cup (IF s.loc = l3 THEN {Len(b) + 1} ELSE {})
    BY Entered
  <2>1. \A l3 \in Fields : In(c, l3) = In(b, l3)
    BY <1>2, <2>0
  <2> HIDE DEF c
  <2>2. In(c, "bot") = {} /\ In(c, "slot") = {} /\ In(c, "age") = {}
    BY <1>1, <2>1 DEF Fields
  <2>3. Shape(c)
    BY <2>2 DEF Shape, Fields
  <2> QED
    BY <2>2, <2>3 DEF c
<1> QED
  BY <1>1, <1>2 DEF BufferOK

\* A thief that has read the age a still finds a job there.
Keeps(l, b, v, a, m, l2, b2, v2, a2, m2) ==
  NotAfter(a, a2) /\ (a2 = a /\ Ready(l, b, v, a, m) => Ready(l2, b2, v2, a2, m2))

\* The ages' order, for an age that stays.
LEMMA SameAge == ASSUME NEW a \in Age PROVE NotAfter(a, a)
  BY DEF NotAfter, Age

\* The owner goes on, between operations, with the same left frames.
LEMMA QuietStep ==
  ASSUME NEW l, NEW l2, Quiet(l2), l2 # "popped", NEW st, NEW st2, NEW j, NEW j2, NEW a, NEW m \in 0..QSize, NEW d, NEW rt, NEW rt2,
         QuietOK(l, st, j, a, m, d, rt), l = "popped" => j = NoPardo,
         Len(st2) = Len(st), \A i \in 1..Len(st) : st2[i].at = st[i].at /\ st2[i].p = st[i].p,
         \A i \in 1..Len(st) : st[i].at = "left" => (rt2[st[i].p] = "idle" <=> rt[st[i].p] = "idle")
  PROVE  QuietOK(l2, st2, j2, a, m, d, rt2)
<1>1. PICK e : Holds(e, m, st, d, rt, a.top, 0)
  BY DEF QuietOK
<1>2. m \in Nat
  OBVIOUS
<1>3. Holds(e, m, st2, d, rt2, a.top, 0)
  BY <1>1, <1>2, HoldsSame
<1> QED
  BY <1>3 DEF QuietOK

\* pardo pushes its job; or there is no room for it.
PushedAt(m) == IF m + 1 = QSize THEN "aborted" ELSE "pushed"
PushedBy(b, m, p) ==
  IF m + 1 = QSize THEN Enter(b, SlotStore(m, p)) ELSE Enter(Enter(b, SlotStore(m, p)), BotStore(m + 1))
\* Then the buffer and the deque are right at the next label.
LEMMA PushDeque ==
  ASSUME NEW st, NEW st2, NEW b \in Seq(Stores), NEW v, NEW o, NEW a \in Age, NEW m \in 0..QSize, NEW d, NEW rt, NEW p \in Pardos,
         d \in [0..(QSize - 1) -> Pardos \cup {NoPardo}],
         BufferOK("run", b, a), DequeOK("run", st, b, v, o, NoPardo, a, m, d, rt),
         CallsOn(st, st2, p), rt[p] = "idle"
  PROVE  /\ BufferOK(PushedAt(m), PushedBy(b, m, p), a)
         /\ DequeOK(PushedAt(m), st2, PushedBy(b, m, p), v, o, NoPardo, a, m, d, rt)
         /\ Keeps("run", b, v, a, m, PushedAt(m), PushedBy(b, m, p), v, a, m)
<1> DEFINE l2 == PushedAt(m)
           b2 == PushedBy(b, m, p)
<1>l. /\ l2 = IF m + 1 = QSize THEN "aborted" ELSE "pushed"
      /\ b2 = IF m + 1 = QSize THEN Enter(b, SlotStore(m, p))
                               ELSE Enter(Enter(b, SlotStore(m, p)), BotStore(m + 1))
  BY DEF PushedAt, PushedBy
<1>c. /\ Len(st) \in Nat /\ Len(st2) = Len(st) + 1
      /\ \A i \in 1..Len(st) : st2[i].at = st[i].at /\ st2[i].p = st[i].p
      /\ st2[Len(st) + 1].at = "left" /\ st2[Len(st) + 1].p = p
  BY DEF CallsOn
<1> HIDE DEF l2, b2
<1>0. m \in Nat /\ a.top \in Nat /\ QSize \in Nat
  BY SchedulerAssumption DEF Age
<1>1. /\ Quiet("run") /\ Value(b, "bot", m) = m /\ MemIn("run", b, v, m) = m /\ QuietOK("run", st, NoPardo, a, m, d, rt)
  <2>1. Quiet("run")
    BY DEF Quiet
  <2> QED
    BY <2>1, QuietDeque
<1>2. /\ m \in 0..(QSize - 1) /\ a.top <= m
      /\ \E e : Holds(e, m, st, d, rt, a.top, 0)
  BY <1>1 DEF QuietOK
<1>3. In(b, "bot") = {} /\ In(b, "slot") = {} /\ In(b, "age") = {} /\ Shape(b)
  BY <1>1, QuietBuffer
<1> DEFINE s == SlotStore(m, p)
           c == Enter(b, s)
           t == BotStore(m + 1)
<1>4. s \in Stores /\ s.loc = "slot" /\ s.i = m /\ s.val = p /\ (m + 1 # QSize => t \in Stores /\ t.loc = "bot" /\ t.val = m + 1)
  <2>1. m + 1 # QSize => m + 1 \in 0..QSize
    BY <1>0, <1>2
  <2> QED
    BY <1>2, <2>1, StoresAre
<1> HIDE DEF s, t
<1>5. /\ c \in Seq(Stores) /\ Len(c) = Len(b) + 1 /\ c[Len(b) + 1] = s
      /\ \A i \in DOMAIN b : c[i] = b[i]
      /\ \A l : In(c, l) = In(b, l) \cup (IF s.loc = l THEN {Len(b) + 1} ELSE {})
  BY <1>4, Entered
<1>s. /\ s.loc \in Fields => In(b, s.loc) = {}
      /\ s.loc = "slot" => In(b, "bot") = {}
      /\ s.loc = "bot" => In(b, "age") = {}
      /\ s.loc \notin {"slot", "bot"} \/ In(b, "age") = {}
  BY <1>3, <1>4
<1>6. /\ Shape(c)
      /\ \A l \in Fields : \A x : Value(c, l, x) = IF s.loc = l THEN s.val ELSE Value(b, l, x)
      /\ \A x : SlotsOf(c, x) = IF s.loc = "slot" THEN [x EXCEPT ![s.i] = s.val] ELSE SlotsOf(b, x)
  BY <1>3, <1>4, <1>s, ValueEntered
<1>7. In(c, "slot") = {Len(b) + 1} /\ In(c, "bot") = {} /\ In(c, "age") = {} /\ c[Len(b) + 1].i = m
      /\ Value(c, "bot", m) = m /\ SlotsOf(c, d) = [d EXCEPT ![m] = p]
  BY <1>1, <1>3, <1>4, <1>5, <1>6 DEF Fields
<1> HIDE DEF c
<1> DEFINE slots == [d EXCEPT ![m] = p]
<1>8. slots[m] = p /\ \A k \in 0..(m - 1) : slots[k] = d[k]
  BY <1>0, <1>2
<1> HIDE DEF slots
<1>9. /\ \E f : Holds(f, m + 1, st2, slots, rt, a.top, 0)
      /\ \E f : Holds(f, m, st2, slots, rt, a.top, Len(st2))
  <2>1. PICK e : Holds(e, m, st, d, rt, a.top, 0)
    BY <1>2
  <2>2. st2[Len(st) + 1].at = "left" /\ st2[Len(st) + 1].p = p /\ slots[m] = st2[Len(st) + 1].p
    BY <1>c, <1>8
  <2>3. Room(m, Len(st2), m + 1, 0) /\ Room(m, Len(st2), m, Len(st2))
    BY DEF Room
  <2>4. ASSUME NEW n2, NEW spare2, Room(m, Len(st2), n2, spare2) PROVE \E f : Holds(f, n2, st2, slots, rt, a.top, spare2)
    BY <1>0, <1>2, <1>8, <2>1, <2>4, HoldsPush
  <2> QED
    BY <2>3, <2>4
<1>10. NotAfter(a, a)
  BY SameAge
<1>11. CASE m + 1 = QSize
  <2>1. b2 = c /\ l2 = "aborted"
    BY <1>11, <1>l DEF c, s
  <2>2. BufferOK("aborted", b2, a)
    BY <1>6, <1>7, <2>1 DEF BufferOK
  <2>3. JobsIn("aborted", b2, v, m) = m /\ MemIn("aborted", b2, v, m) = m /\ SlotsOf(b2, d) = slots /\ SpareIn("aborted", st2, NoPardo) = Len(st2)
    BY <1>7, <2>1 DEF JobsIn, MemIn, SpareIn, slots
  <2>4. JobsHeld("aborted", st2, b2, v, NoPardo, a, m, d, rt)
    <3>1. \E f : Holds(f, m, st2, slots, rt, a.top, Len(st2))
      BY <1>9
    <3> QED
      BY <2>3, <3>1 DEF JobsHeld
  <2>5. m = QSize - 1 /\ m <= m
    BY <1>0, <1>11
  <2>6. DequeOK("aborted", st2, b2, v, o, NoPardo, a, m, d, rt)
    BY <1>2, <2>1, <2>3, <2>4, <2>5 DEF DequeOK
  <2>7. Keeps("run", b, v, a, m, "aborted", b2, v, a, m)
    BY <1>1, <1>10, <2>3 DEF Keeps, Ready
  <2> QED
    BY <1>1, <2>1, <2>2, <2>6, <2>7 DEF l2, b2
<1>12. CASE m + 1 # QSize
  <2>1. b2 = Enter(c, t) /\ l2 = "pushed"
    BY <1>12, <1>l DEF c, s, t
  <2>2. /\ Shape(b2)
        /\ Value(b2, "bot", m) = m + 1 /\ SlotsOf(b2, d) = slots
    <3>1. /\ t \in Stores /\ (t.loc \in Fields => In(c, t.loc) = {})
          /\ t.loc = "slot" => In(c, "bot") = {}
          /\ t.loc = "bot" => In(c, "age") = {}
          /\ t.loc \notin {"slot", "bot"} \/ In(c, "age") = {}
      BY <1>4, <1>7, <1>12
    <3>2. /\ Shape(Enter(c, t))
          /\ \A l \in Fields : \A x : Value(Enter(c, t), l, x) = IF t.loc = l THEN t.val ELSE Value(c, l, x)
          /\ \A x : SlotsOf(Enter(c, t), x) = IF t.loc = "slot" THEN [x EXCEPT ![t.i] = t.val] ELSE SlotsOf(c, x)
      BY <1>5, <1>6, <3>1, ValueEntered
    <3>3. "bot" \in Fields
      BY DEF Fields
    <3>4. Value(Enter(c, t), "bot", m) = m + 1
      BY <1>4, <1>12, <3>2, <3>3
    <3>5. SlotsOf(Enter(c, t), d) = SlotsOf(c, d)
      BY <1>4, <1>12, <3>2
    <3> QED
      BY <1>7, <2>1, <3>2, <3>4, <3>5 DEF slots
  <2>3. /\ In(b2, "slot") = {Len(b) + 1} /\ In(b2, "age") = {} /\ b2[Len(b) + 1] = s
    <3>1. /\ \A i \in DOMAIN c : Enter(c, t)[i] = c[i]
          /\ \A l : In(Enter(c, t), l) = In(c, l) \cup (IF t.loc = l THEN {Len(c) + 1} ELSE {})
      BY <1>4, <1>5, <1>12, Entered
    <3>2. Len(b) + 1 \in DOMAIN c
      BY <1>5
    <3> QED
      BY <1>4, <1>5, <1>7, <1>12, <2>1, <3>1, <3>2
  <2>4. BufferOK("pushed", b2, a)
    BY <2>1, <2>2, <2>3 DEF BufferOK
  <2>5. JobsIn("pushed", b2, v, m) = m + 1 /\ MemIn("pushed", b2, v, m) = m /\ SpareIn("pushed", st2, NoPardo) = 0
    <3>1. JobsIn("pushed", b2, v, m) = m + 1
      BY <2>2 DEF JobsIn
    <3>2. In(b2, "slot") # {}
      BY <2>3
    <3>3. MemIn("pushed", b2, v, m) = m
      <4>1. MemIn("pushed", b2, v, m) = JobsIn("pushed", b2, v, m) - 1
        BY <3>2 DEF MemIn
      <4> QED
        BY <1>0, <3>1, <4>1
    <3> QED
      BY <3>1, <3>3 DEF SpareIn
  <2>6. JobsHeld("pushed", st2, b2, v, NoPardo, a, m, d, rt)
    <3>1. \E f : Holds(f, m + 1, st2, slots, rt, a.top, 0)
      BY <1>9
    <3> QED
      BY <2>2, <2>5, <3>1 DEF JobsHeld
  <2>7. m + 1 \in 0..(QSize - 1) /\ m <= m /\ a.top <= m + 1 /\ m + 1 - 1 = m
    BY <1>0, <1>2, <1>12
  <2>8. \A i \in In(b2, "slot") : b2[i].i = m
    BY <1>4, <2>3
  <2>9. DequeOK("pushed", st2, b2, v, o, NoPardo, a, m, d, rt)
    BY <2>1, <2>5, <2>6, <2>7, <2>8 DEF DequeOK
  <2>10. Keeps("run", b, v, a, m, "pushed", b2, v, a, m)
    BY <1>1, <1>10, <2>5 DEF Keeps, Ready
  <2> QED
    BY <1>1, <2>1, <2>4, <2>9, <2>10 DEF l2, b2
<1> QED
  BY <1>11, <1>12

\* The fence of push_bottom.
LEMMA PushedDeque ==
  ASSUME NEW l2, Quiet(l2), l2 # "popped", NEW st, NEW v, NEW o, NEW j, NEW a \in Age, NEW m \in 0..QSize, NEW d, NEW rt,
         DequeOK("pushed", st, <<>>, v, o, j, a, m, d, rt)
  PROVE  /\ QuietOK(l2, st, NoPardo, a, m, d, rt)
         /\ MemIn("pushed", <<>>, v, m) = m
<1>1. In(<<>>, "bot") = {} /\ In(<<>>, "slot") = {} /\ In(<<>>, "age") = {}
  BY DEF In
<1>2. JobsIn("pushed", <<>>, v, m) = m /\ MemIn("pushed", <<>>, v, m) = m /\ SlotsOf(<<>>, d) = d /\ SpareIn("pushed", st, j) = 0
  BY <1>1 DEF JobsIn, MemIn, SlotsOf, Value, SpareIn
<1>3. \E e : Holds(e, m, st, d, rt, a.top, 0)
  BY <1>2 DEF DequeOK, JobsHeld
<1>4. m \in 0..(QSize - 1) /\ a.top <= m
  BY <1>2 DEF DequeOK
<1> QED
  BY <1>2, <1>3, <1>4 DEF QuietOK

\* pop_bottom takes the bottom one down.
LEMMA PopDeque ==
  ASSUME NEW st, NEW b \in Seq(Stores), NEW v, NEW o, NEW a \in Age, NEW m \in 0..QSize, m # 0, NEW d, NEW rt,
         BufferOK("pop", b, a), DequeOK("pop", st, b, v, o, NoPardo, a, m, d, rt),
         NEW b2, b2 = Enter(b, BotStore(m - 1))
  PROVE  /\ Value(b, "bot", m) = m
         /\ BufferOK("pop_load", b2, a) /\ DequeOK("pop_load", st, b2, m - 1, o, NoPardo, a, m, d, rt)
         /\ Keeps("pop", b, v, a, m, "pop_load", b2, m - 1, a, m)
<1>0. m \in Nat /\ m - 1 \in 0..QSize /\ m - 1 + 1 = m /\ m <= m
  BY SchedulerAssumption
<1>1. /\ Value(b, "bot", m) = m /\ MemIn("pop", b, v, m) = m /\ SlotsOf(b, d) = d
      /\ m \in 0..(QSize - 1) /\ a.top <= m
      /\ \E e : Holds(e, m, st, d, rt, a.top, 0)
  <2>1. Quiet("pop")
    BY DEF Quiet
  <2>2. /\ Value(b, "bot", m) = m /\ MemIn("pop", b, v, m) = m /\ SlotsOf(b, d) = d
        /\ QuietOK("pop", st, NoPardo, a, m, d, rt)
    BY <2>1, QuietDeque
  <2> QED
    BY <2>2 DEF QuietOK
<1>2. In(b, "bot") = {} /\ In(b, "slot") = {} /\ In(b, "age") = {} /\ Shape(b)
  <2>1. Quiet("pop")
    BY DEF Quiet
  <2> QED
    BY <2>1, QuietBuffer
<1> DEFINE s == BotStore(m - 1)
<1>3. s \in Stores /\ s.loc = "bot" /\ s.val = m - 1
  BY <1>0, StoresAre
<1> HIDE DEF s
<1>4. /\ \A l : In(Enter(b, s), l) = In(b, l) \cup (IF s.loc = l THEN {Len(b) + 1} ELSE {})
  BY <1>3, Entered
<1>5. /\ Shape(Enter(b, s))
      /\ \A l \in Fields : \A x : Value(Enter(b, s), l, x) = IF s.loc = l THEN s.val ELSE Value(b, l, x)
      /\ \A x : SlotsOf(Enter(b, s), x) = IF s.loc = "slot" THEN [x EXCEPT ![s.i] = s.val] ELSE SlotsOf(b, x)
  <2>1. /\ s.loc \in Fields => In(b, s.loc) = {}
        /\ s.loc = "slot" => In(b, "bot") = {}
        /\ s.loc = "bot" => In(b, "age") = {}
        /\ s.loc \notin {"slot", "bot"} \/ In(b, "age") = {}
    BY <1>2, <1>3
  <2> QED
    BY <1>2, <1>3, <2>1, ValueEntered
<1>6. Value(b2, "bot", m) = m - 1 /\ SlotsOf(b2, d) = d /\ Shape(b2) /\ In(b2, "slot") = {} /\ In(b2, "age") = {}
  <2>1. b2 = Enter(b, s) /\ "bot" \in Fields
    BY DEF s, Fields
  <2>2. Value(Enter(b, s), "bot", m) = m - 1
    BY <1>3, <1>5, <2>1
  <2>3. SlotsOf(Enter(b, s), d) = d
    BY <1>1, <1>3, <1>5
  <2>4. In(Enter(b, s), "slot") = {} /\ In(Enter(b, s), "age") = {}
    BY <1>2, <1>3, <1>4
  <2> QED
    BY <1>5, <2>1, <2>2, <2>3, <2>4
<1>7. BufferOK("pop_load", b2, a)
  BY <1>6 DEF BufferOK
<1>8. JobsIn("pop_load", b2, m - 1, m) = m /\ MemIn("pop_load", b2, m - 1, m) = m /\ SpareIn("pop_load", st, NoPardo) = 0
  BY <1>0 DEF JobsIn, MemIn, SpareIn
<1>9. JobsHeld("pop_load", st, b2, m - 1, NoPardo, a, m, d, rt)
  BY <1>1, <1>6, <1>8 DEF JobsHeld
<1>10. DequeOK("pop_load", st, b2, m - 1, o, NoPardo, a, m, d, rt)
  BY <1>0, <1>1, <1>6, <1>8, <1>9 DEF DequeOK
<1>11. Keeps("pop", b, v, a, m, "pop_load", b2, m - 1, a, m)
  BY <1>1, <1>8, SameAge DEF Keeps, Ready
<1> QED
  BY <1>1, <1>7, <1>10, <1>11

\* What pop_bottom knows at its fence.
LEMMA LoadDeque ==
  ASSUME NEW st, NEW v \in 0..QSize, NEW o, NEW j, NEW a \in Age, NEW m \in 0..QSize, NEW d, NEW rt,
         NEW l \in {"pop_load", "pop_cas"},
         DequeOK(l, st, <<>>, v, o, j, a, m, d, rt)
  PROVE  /\ \E e : Holds(e, v + 1, st, d, rt, a.top, 0)
         /\ v + 1 \in 0..(QSize - 1) /\ a.top <= v + 1 /\ v \in Nat /\ a.top \in Nat
         /\ JobsIn(l, <<>>, v, m) = v + 1 /\ MemIn(l, <<>>, v, m) = v + 1
         /\ m = IF l = "pop_load" THEN v ELSE 0
         /\ l = "pop_cas" => o.top = v /\ o.tag = a.tag /\ v <= a.top /\ j = st[Len(st)].p
<1>1. In(<<>>, "bot") = {} /\ In(<<>>, "slot") = {}
  BY DEF In
<1>2. JobsIn(l, <<>>, v, m) = v + 1 /\ MemIn(l, <<>>, v, m) = v + 1 /\ SlotsOf(<<>>, d) = d /\ SpareIn(l, st, j) = 0
      /\ Value(<<>>, "bot", m) = m
  BY <1>1 DEF JobsIn, MemIn, SlotsOf, SpareIn, Value
<1>3. \E e : Holds(e, v + 1, st, d, rt, a.top, 0)
  BY <1>2 DEF DequeOK, JobsHeld
<1>4. v + 1 \in 0..(QSize - 1) /\ a.top <= v + 1 /\ m = (IF l = "pop_load" THEN v ELSE 0)
  BY <1>2 DEF DequeOK
<1>5. l = "pop_cas" => o.top = v /\ o.tag = a.tag /\ v <= a.top /\ j = st[Len(st)].p
  BY DEF DequeOK
<1>6. v \in Nat /\ a.top \in Nat
  BY SchedulerAssumption DEF Age
<1> QED
  BY <1>2, <1>3, <1>4, <1>5, <1>6

\* The job is there for the owner: no thief is near.
LEMMA LoadTakes ==
  ASSUME NEW st, NEW v \in 0..QSize, NEW o, NEW j2, NEW a \in Age, NEW m \in 0..QSize, NEW d, NEW rt,
         DequeOK("pop_load", st, <<>>, v, o, NoPardo, a, m, d, rt), v > a.top, j2 = d[v],
         Len(st) \in Nat \ {0}, st[Len(st)].at = "left", st[Len(st)].p \in Pardos
  PROVE  /\ BufferOK("popped", <<>>, a) /\ DequeOK("popped", st, <<>>, v, o, j2, a, m, d, rt)
         /\ Keeps("pop_load", <<>>, v, a, m, "popped", <<>>, v, a, m)
<1>1. /\ \E e : Holds(e, v + 1, st, d, rt, a.top, 0)
      /\ v + 1 \in 0..(QSize - 1) /\ v \in Nat /\ a.top \in Nat
      /\ MemIn("pop_load", <<>>, v, m) = v + 1 /\ m = v
  BY LoadDeque
<1>2. PICK e : Holds(e, v + 1, st, d, rt, a.top, 0)
  BY <1>1
<1>3. j2 = st[Len(st)].p /\ rt[j2] = "idle"
  <2>1. PICK n \in Nat : n = v + 1
    BY <1>1
  <2>2. n > 0 /\ n - 1 = v /\ Len(st) # 0 /\ v >= a.top
    BY <1>1, <2>1
  <2>h. Holds(e, n, st, d, rt, a.top, 0)
    BY <1>2, <2>1
  <2>3. n - 1 \in 0..(n - 1) /\ e[n - 1] = Len(st) /\ d[n - 1] = st[e[n - 1]].p
    BY <2>2, <2>h, TopHolds
  <2>4. rt[st[e[n - 1]].p] = "idle" <=> n - 1 >= a.top
    BY <2>3, <2>h, HasFrame
  <2> QED
    BY <2>2, <2>3, <2>4
<1>4. \E f : Holds(f, v, st, d, rt, a.top, Len(st))
  BY <1>1, <1>2, HoldsTake
<1>5. BufferOK("popped", <<>>, a)
  BY DEF BufferOK, Shape, In
<1>6. QuietOK("popped", st, j2, a, m, d, rt)
  <2>1. j2 # NoPardo
    BY <1>3, SchedulerAssumption
  <2>2. m \in 0..(QSize - 1) /\ a.top <= m
    BY <1>1, SchedulerAssumption
  <2>3. \E f : Holds(f, m, st, d, rt, a.top, Len(st))
    BY <1>1, <1>4
  <2> QED
    BY <1>3, <2>1, <2>2, <2>3 DEF QuietOK
<1>7. Quiet("popped")
  BY DEF Quiet
<1>8. DequeOK("popped", st, <<>>, v, o, j2, a, m, d, rt) /\ MemIn("popped", <<>>, v, m) = m
  BY <1>5, <1>6, <1>7, QuietDeque
<1>9. Keeps("pop_load", <<>>, v, a, m, "popped", <<>>, v, a, m)
  BY <1>1, <1>8, SameAge DEF Keeps, Ready
<1> QED
  BY <1>5, <1>8, <1>9

\* An empty buffer.
LEMMA NoStores ==
  ASSUME NEW m, NEW d
  PROVE  /\ <<>> \in Seq(Stores) /\ Len(<<>>) = 0 /\ Shape(<<>>) /\ (\A l : In(<<>>, l) = {})
         /\ Value(<<>>, "bot", m) = m /\ SlotsOf(<<>>, d) = d
<1>1. <<>> \in Seq(Stores) /\ Len(<<>>) = 0 /\ (\A l : In(<<>>, l) = {}) /\ Shape(<<>>)
  BY DEF In, Shape
<1> QED
  BY <1>1 DEF Value, SlotsOf

\* A buffer with one store, of bot or age.
LEMMA OneStore ==
  ASSUME NEW s \in Stores, s.loc \in {"bot", "age"}, NEW b, b = Enter(<<>>, s), NEW m, NEW d
  PROVE  /\ b \in Seq(Stores) /\ Len(b) = 1 /\ b[1] = s /\ Shape(b)
         /\ \A l : In(b, l) = IF s.loc = l THEN {1} ELSE {}
         /\ Value(b, "bot", m) = IF s.loc = "bot" THEN s.val ELSE m
         /\ SlotsOf(b, d) = d
<1> DEFINE e == <<>>
<1>1. e \in Seq(Stores) /\ Len(e) = 0 /\ Shape(e) /\ (\A l : In(e, l) = {}) /\ Value(e, "bot", m) = m /\ SlotsOf(e, d) = d
  BY NoStores
<1>2. b = Enter(e, s)
  OBVIOUS
<1> HIDE DEF e
<1> DEFINE c == Enter(e, s)
<1>3. /\ c \in Seq(Stores) /\ Len(c) = Len(e) + 1 /\ c[Len(e) + 1] = s
      /\ \A l : In(c, l) = In(e, l) \cup (IF s.loc = l THEN {Len(e) + 1} ELSE {})
  <2>1. e \in Seq(Stores)
    BY <1>1
  <2> QED
    BY <2>1, Entered
<1>4. /\ Shape(c)
      /\ \A l \in Fields : \A z : Value(c, l, z) = IF s.loc = l THEN s.val ELSE Value(e, l, z)
      /\ \A z : SlotsOf(c, z) = IF s.loc = "slot" THEN [z EXCEPT ![s.i] = s.val] ELSE SlotsOf(e, z)
  BY <1>1, ValueEntered
<1>b. b = c
  BY <1>2
<1> HIDE DEF c
<1>5. Value(b, "bot", m) = IF s.loc = "bot" THEN s.val ELSE m
  BY <1>1, <1>4, <1>b DEF Fields
<1>6. SlotsOf(b, d) = d
  BY <1>1, <1>4, <1>b
<1> QED
  BY <1>1, <1>3, <1>4, <1>5, <1>6, <1>b

\* A buffer with a store of bot and one of age.
LEMMA TwoStores ==
  ASSUME NEW x \in 0..QSize, NEW y \in Age, NEW b, b = Enter(Enter(<<>>, BotStore(x)), AgeStore(y)), NEW m, NEW d
  PROVE  /\ b \in Seq(Stores) /\ Shape(b) /\ In(b, "slot") = {} /\ In(b, "age") # {}
         /\ \A i \in In(b, "age") : b[i].val = y
         /\ Value(b, "bot", m) = x /\ SlotsOf(b, d) = d
<1> DEFINE s == BotStore(x)
           t == AgeStore(y)
           c == Enter(<<>>, s)
<1>1. s \in Stores /\ s.loc = "bot" /\ s.val = x /\ t \in Stores /\ t.loc = "age" /\ t.val = y
  BY StoresAre
<1>2. b = Enter(c, t)
  OBVIOUS
<1> HIDE DEF s, t
<1>3. /\ c \in Seq(Stores) /\ Len(c) = 1 /\ Shape(c)
      /\ \A l : In(c, l) = IF s.loc = l THEN {1} ELSE {}
      /\ Value(c, "bot", m) = (IF s.loc = "bot" THEN s.val ELSE m) /\ SlotsOf(c, d) = d
  BY <1>1, OneStore
<1> HIDE DEF c
<1>4. /\ b \in Seq(Stores) /\ b[Len(c) + 1] = t
      /\ \A l : In(b, l) = In(c, l) \cup (IF t.loc = l THEN {Len(c) + 1} ELSE {})
  <2>1. c \in Seq(Stores) /\ t \in Stores
    BY <1>1, <1>3
  <2>2. LET e == Enter(c, t) IN
        /\ e \in Seq(Stores) /\ Len(e) = Len(c) + 1 /\ e[Len(c) + 1] = t /\ e # <<>>
        /\ \A i \in DOMAIN c : e[i] = c[i]
        /\ \A l : In(e, l) = In(c, l) \cup (IF t.loc = l THEN {Len(c) + 1} ELSE {})
    BY <2>1, Entered
  <2> QED
    BY <1>2, <2>2
<1>5. /\ t.loc \in Fields => In(c, t.loc) = {}
      /\ t.loc = "slot" => In(c, "bot") = {}
      /\ t.loc = "bot" => In(c, "age") = {}
      /\ t.loc \notin {"slot", "bot"} \/ In(c, "age") = {}
  BY <1>1, <1>3
<1>6. /\ Shape(b)
      /\ \A l \in Fields : \A z : Value(b, l, z) = IF t.loc = l THEN t.val ELSE Value(c, l, z)
      /\ \A z : SlotsOf(b, z) = IF t.loc = "slot" THEN [z EXCEPT ![t.i] = t.val] ELSE SlotsOf(c, z)
  BY <1>1, <1>2, <1>3, <1>5, ValueEntered
<1>7. Value(b, "bot", m) = Value(c, "bot", m)
  BY <1>1, <1>6 DEF Fields
<1>8. SlotsOf(b, d) = SlotsOf(c, d)
  BY <1>1, <1>6
<1>9. In(b, "age") = {2} /\ b[2] = t /\ In(b, "slot") = {}
  BY <1>1, <1>3, <1>4
<1> QED
  BY <1>1, <1>3, <1>4, <1>6, <1>7, <1>8, <1>9

\* One job is left, and the owner has to race for it.
LEMMA LoadRaces ==
  ASSUME NEW st, NEW v \in 0..QSize, NEW o, NEW j2, NEW a \in Age, NEW m \in 0..QSize, NEW d, NEW rt,
         DequeOK("pop_load", st, <<>>, v, o, NoPardo, a, m, d, rt), v = a.top, j2 = d[v],
         Len(st) \in Nat \ {0}, st[Len(st)].at = "left",
         NEW b2, b2 = Enter(<<>>, BotStore(0))
  PROVE  /\ BufferOK("pop_cas", b2, a) /\ DequeOK("pop_cas", st, b2, v, a, j2, a, m, d, rt)
         /\ Keeps("pop_load", <<>>, v, a, m, "pop_cas", b2, v, a, m)
<1>1. /\ \E e : Holds(e, v + 1, st, d, rt, a.top, 0)
      /\ v + 1 \in 0..(QSize - 1) /\ v \in Nat /\ a.top \in Nat /\ a.top <= v + 1
      /\ MemIn("pop_load", <<>>, v, m) = v + 1 /\ m = v
  BY LoadDeque
<1>2. j2 = st[Len(st)].p
  <2>1. PICK n \in Nat : n = v + 1
    BY <1>1
  <2>2. n > 0 /\ n - 1 = v /\ Len(st) # 0
    BY <1>1, <2>1
  <2>3. PICK e : Holds(e, n, st, d, rt, a.top, 0)
    BY <1>1, <2>1
  <2>a. /\ n - 1 \in 0..(n - 1) /\ d[n - 1] = st[e[n - 1]].p
        /\ st[Len(st)].at = "left" /\ 0 # Len(st) => e[n - 1] = Len(st)
    BY <2>2, <2>3, TopHolds
  <2>4. n - 1 \in 0..(n - 1) /\ e[n - 1] = Len(st) /\ d[n - 1] = st[e[n - 1]].p
    BY <2>2, <2>a
  <2> QED
    BY <2>2, <2>4
<1>3. 0 \in 0..QSize
  BY SchedulerAssumption
<1>4. Shape(b2) /\ In(b2, "age") = {} /\ In(b2, "slot") = {} /\ Value(b2, "bot", m) = 0 /\ SlotsOf(b2, d) = d
  <2>1. PICK s \in Stores : s = BotStore(0) /\ s.loc = "bot" /\ s.val = 0
    BY <1>3, StoresAre
  <2>2. b2 = Enter(<<>>, s)
    BY <2>1
  <2> QED
    BY <2>1, <2>2, OneStore
<1>5. BufferOK("pop_cas", b2, a)
  BY <1>4 DEF BufferOK
<1>6. JobsIn("pop_cas", b2, v, m) = v + 1 /\ MemIn("pop_cas", b2, v, m) = v + 1 /\ SpareIn("pop_cas", st, j2) = 0
  BY DEF JobsIn, MemIn, SpareIn
<1>7. JobsHeld("pop_cas", st, b2, v, j2, a, m, d, rt)
  BY <1>1, <1>4, <1>6 DEF JobsHeld
<1>8. m <= v + 1 /\ v <= a.top
  BY <1>1
<1>9. DequeOK("pop_cas", st, b2, v, a, j2, a, m, d, rt)
  BY <1>1, <1>2, <1>4, <1>6, <1>7, <1>8 DEF DequeOK
<1>10. Keeps("pop_load", <<>>, v, a, m, "pop_cas", b2, v, a, m)
  BY <1>1, <1>6, SameAge DEF Keeps, Ready
<1> QED
  BY <1>5, <1>9, <1>10

\* Thieves took all.
LEMMA LoadFails ==
  ASSUME NEW st, NEW v \in 0..QSize, NEW o, NEW a \in Age, NEW m \in 0..QSize, NEW d, NEW rt,
         DequeOK("pop_load", st, <<>>, v, o, NoPardo, a, m, d, rt), v < a.top, a.tag + 1 < TagMod,
         Len(st) \in Nat \ {0},
         NEW b2, b2 = Enter(Enter(<<>>, BotStore(0)), AgeStore(NextTag(a)))
  PROVE  /\ BufferOK("pop_fence", b2, a) /\ DequeOK("pop_fence", st, b2, v, o, NoPardo, a, m, d, rt)
         /\ Keeps("pop_load", <<>>, v, a, m, "pop_fence", b2, v, a, m)
<1>1. /\ \E e : Holds(e, v + 1, st, d, rt, a.top, 0)
      /\ v + 1 \in 0..(QSize - 1) /\ v \in Nat /\ a.top \in Nat
      /\ MemIn("pop_load", <<>>, v, m) = v + 1 /\ m = v
  BY LoadDeque
<1>2. 0 \in 0..QSize /\ 0 \in 0..(QSize - 1) /\ NextTag(a) \in Age /\ NextTag(a).top = 0 /\ NextTag(a).tag > a.tag
  <2>1. NextTag(a) \in Age /\ NextTag(a).top = 0 /\ NextTag(a).tag = a.tag + 1 /\ a.tag \in Nat
    BY NextAge DEF Age
  <2> QED
    BY <2>1, SchedulerAssumption
<1>3. /\ Shape(b2) /\ In(b2, "slot") = {} /\ In(b2, "age") # {} /\ Value(b2, "bot", m) = 0 /\ SlotsOf(b2, d) = d
      /\ \A i \in In(b2, "age") : b2[i].val = NextTag(a)
  <2>1. PICK x \in 0..QSize : x = 0
    BY <1>2
  <2>2. b2 = Enter(Enter(<<>>, BotStore(x)), AgeStore(NextTag(a)))
    BY <2>1
  <2>3. /\ Shape(b2) /\ In(b2, "slot") = {} /\ In(b2, "age") # {} /\ Value(b2, "bot", m) = x /\ SlotsOf(b2, d) = d
        /\ \A i \in In(b2, "age") : b2[i].val = NextTag(a)
    BY <1>2, <2>2, TwoStores
  <2> QED
    BY <2>1, <2>3
<1>4. BufferOK("pop_fence", b2, a)
  BY <1>2, <1>3 DEF BufferOK
<1>5. JobsIn("pop_fence", b2, v, m) = 0 /\ MemIn("pop_fence", b2, v, m) = 0 /\ SpareIn("pop_fence", st, NoPardo) = 0
  BY DEF JobsIn, MemIn, SpareIn
<1>6. JobsHeld("pop_fence", st, b2, v, NoPardo, a, m, d, rt)
  <2>1. PICK n \in Nat : n = v + 1
    BY <1>1
  <2>2. PICK e : Holds(e, n, st, d, rt, a.top, 0)
    BY <1>1, <2>1
  <2>3. a.top >= n
    BY <1>1, <2>1
  <2>4. \E f : Holds(f, 0, st, d, rt, a.top, 0)
    BY <1>1, <2>2, <2>3, HoldsReset
  <2> QED
    BY <1>3, <1>5, <2>4 DEF JobsHeld
<1>7. m <= a.top
  BY <1>1
<1>8. DequeOK("pop_fence", st, b2, v, o, NoPardo, a, m, d, rt)
  BY <1>2, <1>3, <1>5, <1>6, <1>7 DEF DequeOK
<1>9. Keeps("pop_load", <<>>, v, a, m, "pop_fence", b2, v, a, m)
  BY <1>1, SameAge DEF Keeps, Ready
<1> QED
  BY <1>4, <1>8, <1>9

\* The owner wins the race.
LEMMA CasWins ==
  ASSUME NEW st, NEW v \in 0..QSize, NEW o \in Age, NEW j, NEW a \in Age, NEW a2, NEW m \in 0..QSize, NEW d, NEW rt,
         DequeOK("pop_cas", st, <<>>, v, o, j, a, m, d, rt), a = o, a2 = NextTag(o), a.tag + 1 < TagMod,
         Len(st) \in Nat \ {0}, st[Len(st)].at = "left", st[Len(st)].p \in Pardos
  PROVE  /\ BufferOK("pop_fence", <<>>, a2) /\ DequeOK("pop_fence", st, <<>>, v, o, j, a2, m, d, rt)
         /\ Keeps("pop_cas", <<>>, v, a, m, "pop_fence", <<>>, v, a2, m)
<1>1. /\ \E e : Holds(e, v + 1, st, d, rt, a.top, 0)
      /\ v + 1 \in 0..(QSize - 1) /\ v \in Nat /\ a.top \in Nat
      /\ m = 0 /\ o.top = v /\ j = st[Len(st)].p
  BY LoadDeque
<1>2. a2 \in Age /\ a2.top = 0 /\ a2.tag > a.tag /\ 0 \in 0..(QSize - 1) /\ j # NoPardo
  <2>1. NextTag(o) \in Age /\ NextTag(o).top = 0 /\ NextTag(o).tag = o.tag + 1 /\ o.tag \in Nat
    BY NextAge DEF Age
  <2> QED
    BY <1>1, <2>1, SchedulerAssumption
<1>3. Shape(<<>>) /\ (\A l : In(<<>>, l) = {}) /\ Value(<<>>, "bot", m) = m /\ SlotsOf(<<>>, d) = d
  BY NoStores
<1>4. PICK n \in Nat : n = v + 1 /\ n > 0 /\ n - 1 = v /\ a.top = n - 1
  BY <1>1
<1>5. PICK e : Holds(e, n, st, d, rt, a.top, 0)
  BY <1>1, <1>4
<1>6. rt[j] = "idle"
  <2>1. n - 1 \in 0..(n - 1) /\ e[n - 1] = Len(st) /\ d[n - 1] = st[e[n - 1]].p
    BY <1>4, <1>5, TopHolds
  <2>2. rt[st[e[n - 1]].p] = "idle" <=> n - 1 >= a.top
    BY <1>5, <2>1, HasFrame
  <2> QED
    BY <1>1, <1>4, <2>1, <2>2
<1>7. \E f : Holds(f, 0, st, d, rt, a2.top, Len(st))
  BY <1>1, <1>4, <1>5, HoldsWon
<1>8. /\ JobsIn("pop_fence", <<>>, v, m) = 0 /\ MemIn("pop_fence", <<>>, v, m) = 0
      /\ SpareIn("pop_fence", st, j) = Len(st)
  BY <1>2 DEF JobsIn, MemIn, SpareIn
<1>9. JobsHeld("pop_fence", st, <<>>, v, j, a2, m, d, rt)
  BY <1>3, <1>7, <1>8 DEF JobsHeld
<1>10. BufferOK("pop_fence", <<>>, a2)
  BY <1>3 DEF BufferOK
<1>11. m <= 0
  BY <1>1
<1>12. DequeOK("pop_fence", st, <<>>, v, o, j, a2, m, d, rt)
  BY <1>1, <1>2, <1>3, <1>6, <1>8, <1>9, <1>11 DEF DequeOK
<1>13. Keeps("pop_cas", <<>>, v, a, m, "pop_fence", <<>>, v, a2, m)
  <2>1. a2 # a /\ a.tag < a2.tag
    BY <1>2 DEF Age
  <2> QED
    BY <2>1 DEF Keeps, NotAfter
<1> QED
  BY <1>10, <1>12, <1>13

\* The owner loses it.
LEMMA CasLoses ==
  ASSUME NEW st, NEW v \in 0..QSize, NEW o \in Age, NEW j, NEW a \in Age, NEW m \in 0..QSize, NEW d, NEW rt,
         DequeOK("pop_cas", st, <<>>, v, o, j, a, m, d, rt), a # o, a.tag + 1 < TagMod,
         Len(st) \in Nat \ {0},
         NEW b2, b2 = Enter(<<>>, AgeStore(NextTag(o)))
  PROVE  /\ BufferOK("pop_fence", b2, a) /\ DequeOK("pop_fence", st, b2, v, o, NoPardo, a, m, d, rt)
         /\ Keeps("pop_cas", <<>>, v, a, m, "pop_fence", b2, v, a, m)
<1>1. /\ \E e : Holds(e, v + 1, st, d, rt, a.top, 0)
      /\ v + 1 \in 0..(QSize - 1) /\ v \in Nat /\ a.top \in Nat /\ MemIn("pop_cas", <<>>, v, m) = v + 1
      /\ m = 0 /\ o.top = v /\ o.tag = a.tag /\ v <= a.top
  BY LoadDeque
<1>2. a.top >= v + 1
  <2>1. a.top # v
    BY <1>1 DEF Age
  <2> QED
    BY <1>1, <2>1
<1>3. NextTag(o) \in Age /\ NextTag(o).top = 0 /\ NextTag(o).tag > a.tag /\ 0 \in 0..(QSize - 1)
  <2>1. NextTag(o) \in Age /\ NextTag(o).top = 0 /\ NextTag(o).tag = o.tag + 1 /\ o.tag \in Nat
    BY <1>1, NextAge DEF Age
  <2> QED
    BY <1>1, <2>1, SchedulerAssumption
<1> DEFINE s == AgeStore(NextTag(o))
<1>4. s \in Stores /\ s.loc = "age" /\ s.val = NextTag(o)
  BY <1>3, StoresAre
<1>5. b2 = Enter(<<>>, s)
  OBVIOUS
<1> HIDE DEF s
<1>6. /\ Shape(b2) /\ In(b2, "bot") = {} /\ In(b2, "slot") = {} /\ In(b2, "age") = {1} /\ b2[1] = s
      /\ Value(b2, "bot", m) = m /\ SlotsOf(b2, d) = d
  <2>1. /\ b2[1] = s /\ Shape(b2)
        /\ \A l : In(b2, l) = IF s.loc = l THEN {1} ELSE {}
        /\ Value(b2, "bot", m) = IF s.loc = "bot" THEN s.val ELSE m
        /\ SlotsOf(b2, d) = d
    BY <1>4, <1>5, OneStore
  <2> QED
    BY <1>4, <2>1
<1>7. BufferOK("pop_fence", b2, a)
  BY <1>3, <1>4, <1>6 DEF BufferOK
<1>8. JobsIn("pop_fence", b2, v, m) = 0 /\ MemIn("pop_fence", b2, v, m) = 0 /\ SpareIn("pop_fence", st, NoPardo) = 0
  BY DEF JobsIn, MemIn, SpareIn
<1>9. JobsHeld("pop_fence", st, b2, v, NoPardo, a, m, d, rt)
  <2>1. PICK n \in Nat : n = v + 1
    BY <1>1
  <2>2. PICK e : Holds(e, n, st, d, rt, a.top, 0)
    BY <1>1, <2>1
  <2>3. a.top >= n
    BY <1>2, <2>1
  <2>4. \E f : Holds(f, 0, st, d, rt, a.top, 0)
    BY <1>1, <2>2, <2>3, HoldsReset
  <2> QED
    BY <1>6, <1>8, <2>4 DEF JobsHeld
<1>10. m <= 0
  BY <1>1
<1>11. DequeOK("pop_fence", st, b2, v, o, NoPardo, a, m, d, rt)
  BY <1>1, <1>3, <1>6, <1>8, <1>9, <1>10 DEF DequeOK
<1>12. Keeps("pop_cas", <<>>, v, a, m, "pop_fence", b2, v, a, m)
  BY <1>1, <1>2, SameAge DEF Keeps, Ready
<1> QED
  BY <1>7, <1>11, <1>12

\* pop_bottom returns.
LEMMA FenceDeque ==
  ASSUME NEW st, NEW v, NEW o, NEW j, NEW a \in Age, NEW m \in 0..QSize, NEW d, NEW rt,
         DequeOK("pop_fence", st, <<>>, v, o, j, a, m, d, rt)
  PROVE  /\ QuietOK("popped", st, j, a, m, d, rt) /\ m = 0
         /\ MemIn("pop_fence", <<>>, v, m) = 0
<1>1. (\A l : In(<<>>, l) = {}) /\ Value(<<>>, "bot", m) = m /\ SlotsOf(<<>>, d) = d
  BY NoStores
<1>2. JobsIn("pop_fence", <<>>, v, m) = 0 /\ MemIn("pop_fence", <<>>, v, m) = 0
      /\ SpareIn("pop_fence", st, j) = IF j # NoPardo THEN Len(st) ELSE 0
  BY DEF JobsIn, MemIn, SpareIn
<1>3. m = 0 /\ a.top = 0 /\ \E e : Holds(e, 0, st, d, rt, a.top, IF j # NoPardo THEN Len(st) ELSE 0)
  BY <1>1, <1>2 DEF DequeOK, JobsHeld
<1>4. \E e : Holds(e, m, st, d, rt, a.top, IF "popped" = "popped" /\ j # NoPardo THEN Len(st) ELSE 0)
  BY <1>3
<1>5. j # NoPardo => st[Len(st)].at = "left" /\ j = st[Len(st)].p /\ rt[st[Len(st)].p] = "idle"
  BY DEF DequeOK
<1>6. m \in 0..(QSize - 1) /\ a.top <= m
  BY <1>3, SchedulerAssumption
<1>7. QuietOK("popped", st, j, a, m, d, rt)
  BY <1>3, <1>4, <1>5, <1>6 DEF QuietOK
<1> QED
  BY <1>2, <1>3, <1>7

\* pardo takes its own job back and runs it.
LEMMA TakesBack ==
  ASSUME NEW l2, l2 # "popped", NEW st, NEW st2, NEW j, NEW a, NEW m \in 0..QSize, NEW d, NEW rt, NEW rt2,
         QuietOK("popped", st, j, a, m, d, rt), j # NoPardo, Len(st) \in Nat \ {0},
         Len(st2) = Len(st), st2[Len(st)].at = "right",
         \A i \in 1..(Len(st) - 1) : st2[i].at = st[i].at /\ st2[i].p = st[i].p,
         \A i \in 1..(Len(st) - 1) : st[i].at = "left" => (rt2[st[i].p] = "idle" <=> rt[st[i].p] = "idle")
  PROVE  QuietOK(l2, st2, NoPardo, a, m, d, rt2)
<1>1. PICK e : Holds(e, m, st, d, rt, a.top, Len(st))
  BY DEF QuietOK
<1>2. m \in Nat
  OBVIOUS
<1> DEFINE spare == Len(st)
<1>3. spare = Len(st)
  OBVIOUS
<1> HIDE DEF spare
<1>4. Holds(e, m, st, d, rt, a.top, spare)
  BY <1>1, <1>3
<1>5. Holds(e, m, st2, d, rt2, a.top, 0)
  BY <1>2, <1>3, <1>4, HoldsLeave
<1> QED
  BY <1>5 DEF QuietOK

\* pardo waits for its job; a waiting worker begins a job: they have none of their own.
LEMMA NoneLeft ==
  ASSUME NEW l, NEW l2, l2 # "popped", NEW st, NEW st2, NEW j, NEW j2, NEW a, NEW m \in 0..QSize, NEW d, NEW rt, NEW rt2,
         QuietOK(l, st, j, a, m, d, rt), l = "popped" => j = NoPardo, l = "popped" \/ st[Len(st)].at = "wait",
         Len(st) \in Nat \ {0},
         \A i \in 1..Len(st2) : st2[i].at = "left" => i \in 1..Len(st) /\ st[i].at = "left" /\ st2[i].p = st[i].p,
         \A i \in 1..Len(st) : st[i].at = "left" => (rt2[st[i].p] = "idle" => rt[st[i].p] = "idle")
  PROVE  QuietOK(l2, st2, j2, a, m, d, rt2) /\ m = 0
<1>1. PICK e : Holds(e, m, st, d, rt, a.top, 0)
  BY DEF QuietOK
<1>2. m = 0
  <2>1. CASE l = "popped"
    BY <2>1 DEF QuietOK
  <2>2. CASE l # "popped" /\ m > 0
    <3>1. m \in Nat
      OBVIOUS
    <3>2. st[Len(st)].at # "wait"
      BY <1>1, <2>2, <3>1, TopHolds
    <3> QED
      BY <2>2, <3>2
  <2> QED
    BY <2>1, <2>2
<1>3. \A i \in 1..Len(st) : IsLeft(st, i, 0) => rt[st[i].p] # "idle"
  BY <1>1, <1>2, HoldsNone
<1>4. \A i \in 1..Len(st2) : IsLeft(st2, i, 0) => rt2[st2[i].p] # "idle"
  BY <1>3 DEF IsLeft
<1>5. \E f : Holds(f, m, st2, d, rt2, a.top, 0)
  BY <1>2, <1>4, HoldsNone
<1> QED
  BY <1>2, <1>5 DEF QuietOK

\* A call of right() or a pardo returns.
Returns(st, st2, rt, rt2) ==
  /\ Len(st) \in Nat \ {0} /\ st[Len(st)].at # "left" /\ Len(st2) = Len(st) - 1
  /\ \A i \in 1..(Len(st) - 1) : st2[i].at = st[i].at /\ st2[i].p = st[i].p
  /\ \A i \in 1..(Len(st) - 1) : st[i].at = "left" => (rt2[st[i].p] = "idle" <=> rt[st[i].p] = "idle")
\* Then the deque, of which the frame that goes had no job, stays right.
LEMMA ReturnDeque ==
  ASSUME NEW l, l # "popped", NEW l2, l2 # "popped", NEW st, NEW st2, NEW j, NEW j2, NEW a, NEW m \in 0..QSize, NEW d, NEW rt, NEW rt2,
         QuietOK(l, st, j, a, m, d, rt), Returns(st, st2, rt, rt2)
  PROVE  QuietOK(l2, st2, j2, a, m, d, rt2)
<1>1. PICK e : Holds(e, m, st, d, rt, a.top, 0)
  BY DEF QuietOK
<1>2. m \in Nat
  OBVIOUS
<1>3. Holds(e, m, st2, d, rt2, a.top, 0)
  BY <1>1, <1>2, HoldsLeave DEF Returns
<1> QED
  BY <1>3 DEF QuietOK

\* Another worker begins or ends a right() that is not that of a job of this deque.
LEMMA OtherRights ==
  ASSUME NEW l, NEW st, NEW b, NEW v, NEW o, NEW j, NEW a, NEW m, NEW d, NEW rt, NEW rt2,
         DequeOK(l, st, b, v, o, j, a, m, d, rt), l = "aborted" => st[Len(st)].at = "left", Len(st) \in Nat \ {0},
         \A i \in 1..Len(st) : st[i].at = "left" => (rt2[st[i].p] = "idle" <=> rt[st[i].p] = "idle")
  PROVE  DequeOK(l, st, b, v, o, j, a, m, d, rt2)
<1>1. JobsIn(l, b, v, m) \in Nat /\ JobsHeld(l, st, b, v, j, a, m, d, rt)
  BY SchedulerAssumption DEF DequeOK
<1> DEFINE n == JobsIn(l, b, v, m)
           slots == SlotsOf(b, d)
           spare == SpareIn(l, st, j)
<1>2. PICK e : Holds(e, n, st, slots, rt, a.top, spare)
  BY <1>1 DEF JobsHeld
<1>3. n \in Nat
  BY <1>1
<1> HIDE DEF n, slots, spare
<1>4. Holds(e, n, st, slots, rt2, a.top, spare)
  BY <1>2, <1>3, HoldsSame
<1>5. JobsHeld(l, st, b, v, j, a, m, d, rt2)
  BY <1>4 DEF JobsHeld, n, slots, spare
<1>6. st[Len(st)].at = "left" => (rt2[st[Len(st)].p] = "idle" <=> rt[st[Len(st)].p] = "idle")
  OBVIOUS
<1>7. /\ l = "aborted" => rt2[st[Len(st)].p] = "idle"
      /\ l \in {"pop_fence", "popped"} /\ j # NoPardo => rt2[st[Len(st)].p] = "idle"
  BY <1>6 DEF DequeOK
<1> QED
  BY <1>5, <1>7 DEF DequeOK

\* What is ready for a thief is a job in memory.
Standing(l, st, b, v, j, a, m, d, rt) ==
  /\ JobsIn(l, b, v, m) \in Nat /\ JobsIn(l, b, v, m) <= QSize - 1
  /\ a.top \in Nat /\ a.top < JobsIn(l, b, v, m) /\ SlotsOf(b, d)[a.top] = d[a.top]
  /\ \E i \in 1..Len(st) :
       st[i].at = "left" /\ st[i].p = d[a.top] /\ rt[st[i].p] = "idle" /\ i # SpareIn(l, st, j)
\* It is the job of a left frame of that stack, and nobody has taken it.
LEMMA ReadyJob ==
  ASSUME NEW l, NEW st, NEW b \in Seq(Stores), NEW v \in 0..QSize, NEW o, NEW j, NEW a \in Age, NEW m \in 0..QSize, NEW d, NEW rt,
         BufferOK(l, b, a), DequeOK(l, st, b, v, o, j, a, m, d, rt), Ready(l, b, v, a, m),
         d \in [0..(QSize - 1) -> Pardos \cup {NoPardo}], Len(st) \in Nat \ {0},
         l = "aborted" => \A i \in In(b, "slot") : b[i].i = QSize - 1
  PROVE  Standing(l, st, b, v, j, a, m, d, rt)
<1> DEFINE n == JobsIn(l, b, v, m)
           slots == SlotsOf(b, d)
           spare == SpareIn(l, st, j)
<1>1. n \in Nat /\ n <= QSize - 1 /\ a.top \in Nat /\ QSize \in Nat
      /\ \E e : Holds(e, n, st, slots, rt, a.top, spare)
  BY SchedulerAssumption DEF DequeOK, JobsHeld, Age
<1>2. MemIn(l, b, v, m) = IF l = "pushed" /\ In(b, "slot") # {} THEN n - 1 ELSE n
  BY DEF MemIn
<1>4. /\ l = "pushed" => \A i \in In(b, "slot") : b[i].i = n - 1
      /\ l = "aborted" => n = QSize - 1
  BY DEF DequeOK
<1> HIDE DEF n
<1>3. a.top < n /\ (l = "pushed" /\ In(b, "slot") # {} => a.top < n - 1)
  BY <1>1, <1>2 DEF Ready
<1>5. slots[a.top] = d[a.top]
  <2>1. CASE In(b, "slot") = {}
    BY <2>1 DEF SlotsOf
  <2>2. CASE In(b, "slot") # {}
    <3>1. PICK i \in In(b, "slot") : TRUE
      BY <2>2
    <3>2. l \in {"pushed", "aborted"} /\ Shape(b)
      BY <2>2 DEF BufferOK
    <3>3. slots = [d EXCEPT ![b[i].i] = b[i].val]
      <4>1. \A e : \A k \in In(b, "slot") : SlotsOf(b, e) = [e EXCEPT ![b[k].i] = b[k].val]
        BY <3>2, ValueRead
      <4> QED
        BY <3>1, <4>1
    <3>4. b[i].i # a.top
      <4>1. CASE l = "pushed"
        BY <1>1, <1>3, <1>4, <2>2, <3>1, <4>1
      <4>2. CASE l = "aborted"
        BY <1>1, <1>3, <1>4, <3>1, <4>2
      <4> QED
        BY <3>2, <4>1, <4>2
    <3>5. a.top \in 0..(QSize - 1)
      BY <1>1, <1>3
    <3> HIDE DEF slots
    <3> QED
      BY <3>3, <3>4, <3>5
  <2> QED
    BY <2>1, <2>2
<1> HIDE DEF slots, spare
<1>6. \E i \in 1..Len(st) : st[i].at = "left" /\ st[i].p = slots[a.top] /\ rt[st[i].p] = "idle" /\ i # spare
  <2>1. PICK e : Holds(e, n, st, slots, rt, a.top, spare)
    BY <1>1
  <2>2. PICK k \in 0..(n - 1) : k = a.top
    BY <1>1, <1>3
  <2>3. e[k] \in 1..Len(st) /\ st[e[k]].at = "left" /\ slots[k] = st[e[k]].p /\ e[k] # spare
    BY <1>1, <2>1, HasFrame
  <2>4. rt[st[e[k]].p] = "idle" <=> k >= a.top
    BY <1>1, <2>1, HasFrame
  <2>5. rt[st[e[k]].p] = "idle"
    BY <1>1, <2>2, <2>4
  <2> QED
    BY <2>2, <2>3, <2>5
<1>7. \E i \in 1..Len(st) : st[i].at = "left" /\ st[i].p = d[a.top] /\ rt[st[i].p] = "idle" /\ i # spare
  BY <1>5, <1>6
<1> QED
  BY <1>1, <1>3, <1>5, <1>7 DEF Standing, n, slots, spare

\* A thief takes it.
Stealing(l, st, b, v, o, j, a, m, d, rt, rt2, a2) ==
  /\ l # "aborted" /\ b \in Seq(Stores) /\ v \in 0..QSize /\ a \in Age /\ m \in 0..QSize
  /\ BufferOK(l, b, a) /\ DequeOK(l, st, b, v, o, j, a, m, d, rt) /\ Ready(l, b, v, a, m)
  /\ d \in [0..(QSize - 1) -> Pardos \cup {NoPardo}] /\ Len(st) \in Nat \ {0} /\ a2 = [a EXCEPT !.top = @ + 1]
  /\ \A i, k \in 1..Len(st) : st[i].at = "left" /\ st[k].at = "left" /\ st[i].p = st[k].p => i = k
  /\ \A i \in 1..Len(st) : st[i].at = "left" =>
       rt2[st[i].p] = IF st[i].p = d[a.top] THEN "running" ELSE rt[st[i].p]
Stolen(l, st, b, v, o, j, a, m, d, rt, rt2, a2) ==
  /\ BufferOK(l, b, a2) /\ DequeOK(l, st, b, v, o, j, a2, m, d, rt2)
  /\ a2 \in Age /\ NotAfter(a, a2) /\ a2 # a
\* Its owner's deque and buffer are right as before, with one job fewer.
LEMMA StolenDeque ==
  ASSUME NEW l, NEW st, NEW b, NEW v, NEW o, NEW j, NEW a, NEW m, NEW d, NEW rt, NEW rt2, NEW a2,
         Stealing(l, st, b, v, o, j, a, m, d, rt, rt2, a2)
  PROVE  Stolen(l, st, b, v, o, j, a, m, d, rt, rt2, a2)
<1>s. SUFFICES /\ BufferOK(l, b, a2) /\ DequeOK(l, st, b, v, o, j, a2, m, d, rt2)
               /\ a2 \in Age /\ NotAfter(a, a2) /\ a2 # a
  BY DEF Stolen
<1>u. /\ l # "aborted" /\ b \in Seq(Stores) /\ v \in 0..QSize /\ a \in Age /\ m \in 0..QSize
      /\ BufferOK(l, b, a) /\ DequeOK(l, st, b, v, o, j, a, m, d, rt) /\ Ready(l, b, v, a, m)
      /\ d \in [0..(QSize - 1) -> Pardos \cup {NoPardo}] /\ Len(st) \in Nat \ {0} /\ a2 = [a EXCEPT !.top = @ + 1]
      /\ \A i, k \in 1..Len(st) : st[i].at = "left" /\ st[k].at = "left" /\ st[i].p = st[k].p => i = k
      /\ \A i \in 1..Len(st) : st[i].at = "left" =>
           rt2[st[i].p] = IF st[i].p = d[a.top] THEN "running" ELSE rt[st[i].p]
  BY DEF Stealing
<1> USE <1>u
<1> DEFINE n == JobsIn(l, b, v, m)
           slots == SlotsOf(b, d)
           spare == SpareIn(l, st, j)
<1>r. /\ n \in Nat /\ n <= QSize - 1 /\ a.top \in Nat /\ a.top < n /\ slots[a.top] = d[a.top]
      /\ \E i \in 1..Len(st) :
           st[i].at = "left" /\ st[i].p = d[a.top] /\ rt[st[i].p] = "idle" /\ i # SpareIn(l, st, j)
  <2>1. Standing(l, st, b, v, j, a, m, d, rt)
    BY ReadyJob
  <2> QED
    BY <2>1 DEF Standing
<1>2. n \in 0..(QSize - 1) /\ \E e : Holds(e, n, st, slots, rt, a.top, spare)
  BY DEF DequeOK, JobsHeld
<1>3. l # "pop_fence"
  BY <1>r DEF JobsIn
<1> HIDE DEF n, slots, spare
<1>4. a2.top = a.top + 1 /\ a2.tag = a.tag
  BY DEF Age
<1>5. a2 \in Age /\ a2 # a /\ NotAfter(a, a2)
  <2>1. QSize \in Nat /\ a.tag \in 0..(TagMod - 1) /\ a2 = [tag |-> a.tag, top |-> a.top + 1]
    BY SchedulerAssumption DEF Age
  <2>2. a.top + 1 \in 0..QSize
    BY <1>r, <2>1
  <2>3. a2 \in Age
    BY <2>1, <2>2 DEF Age
  <2>4. a2.top # a.top /\ a.top <= a2.top
    BY <1>r, <1>4
  <2> QED
    BY <1>4, <2>3, <2>4 DEF NotAfter
<1>6. \E e : Holds(e, n, st, slots, rt2, a2.top, spare)
  <2>1. PICK e : Holds(e, n, st, slots, rt, a.top, spare)
    BY <1>2
  <2>2. \A i \in 1..Len(st) : st[i].at = "left" =>
           rt2[st[i].p] = IF st[i].p = slots[a.top] THEN "running" ELSE rt[st[i].p]
    BY <1>r
  <2>3. Holds(e, n, st, slots, rt2, a.top + 1, spare)
    BY <1>r, <2>1, <2>2, HoldsSteal
  <2> QED
    BY <1>4, <2>3
<1>7. JobsHeld(l, st, b, v, j, a2, m, d, rt2)
  BY <1>6 DEF JobsHeld, n, slots, spare
<1>8. BufferOK(l, b, a2)
  BY <1>4 DEF BufferOK
<1>9. a2.top <= n /\ \A x \in 0..QSize : x <= a.top => x <= a2.top
  BY <1>r, <1>4
<1>10. l = "popped" /\ j # NoPardo => rt2[st[Len(st)].p] = "idle"
  <2>1. SUFFICES ASSUME l = "popped", j # NoPardo PROVE rt2[st[Len(st)].p] = "idle"
    OBVIOUS
  <2>2. st[Len(st)].at = "left" /\ rt[st[Len(st)].p] = "idle" /\ Len(st) \in 1..Len(st)
    BY <2>1 DEF DequeOK
  <2>3. SpareIn(l, st, j) = Len(st)
    BY <2>1 DEF SpareIn
  <2>4. PICK i \in 1..Len(st) : st[i].at = "left" /\ st[i].p = d[a.top] /\ i # Len(st)
    BY <1>r, <2>3
  <2>5. st[Len(st)].p # d[a.top]
    BY <2>2, <2>4
  <2> QED
    BY <2>2, <2>5
<1>11. /\ l = "pushed" => \A i \in In(b, "slot") : b[i].i = n - 1
       /\ l = "pop_load" => Value(b, "bot", m) = v
       /\ l = "pop_cas" =>
            Value(b, "bot", m) = 0 /\ o.top = v /\ o.tag = a.tag /\ v <= a.top /\ j = st[Len(st)].p
       /\ m <= MemIn(l, b, v, m)
       /\ l = "popped" /\ j = NoPardo => n = 0
       /\ l = "popped" /\ j # NoPardo => st[Len(st)].at = "left" /\ j = st[Len(st)].p
  BY <1>3 DEF DequeOK, n
<1>12. DequeOK(l, st, b, v, o, j, a2, m, d, rt2)
  BY <1>2, <1>3, <1>4, <1>7, <1>9, <1>10, <1>11 DEF DequeOK, n
<1> QED
  BY <1>5, <1>8, <1>12

\* What the buffer and the deque have in common before and after the oldest store
\* reaches memory: m2, a2 and d2 are what memory holds then.
FlushedTo(h, a, m, d, a2, m2, d2) ==
  /\ m2 = IF h.loc = "bot" THEN h.val ELSE m
  /\ a2 = IF h.loc = "age" THEN h.val ELSE a
  /\ d2 = IF h.loc = "slot" THEN [d EXCEPT ![h.i] = h.val] ELSE d

\* What the owner reads stays, and no other store moves.
LEMMA FlushSame ==
  ASSUME NEW b \in Seq(Stores), b # <<>>, NEW a, NEW m, NEW d, NEW a2, NEW m2, NEW d2,
         Shape(b), FlushedTo(Head(b), a, m, d, a2, m2, d2)
  PROVE  /\ Shape(Tail(b)) /\ Value(Tail(b), "bot", m2) = Value(b, "bot", m) /\ SlotsOf(Tail(b), d2) = SlotsOf(b, d)
         /\ \A loc \in Fields : In(b, loc) = {} => In(Tail(b), loc) = {} /\ Head(b).loc # loc
         /\ \A loc \in Fields : Head(b).loc # loc /\ In(b, loc) # {} => In(Tail(b), loc) # {}
         /\ \A loc \in Fields : Head(b).loc = loc => In(Tail(b), loc) = {} /\ In(b, loc) = {1} /\ Head(b) = b[1]
         /\ \A loc : \A i \in In(Tail(b), loc) : i + 1 \in In(b, loc) /\ Tail(b)[i] = b[i + 1]
<1>1. "bot" \in Fields
  BY DEF Fields
<1>2. /\ Shape(Tail(b))
      /\ \A loc \in Fields : \A x : Value(Tail(b), loc, IF Head(b).loc = loc THEN Head(b).val ELSE x) = Value(b, loc, x)
      /\ \A x : SlotsOf(Tail(b), IF Head(b).loc = "slot" THEN [x EXCEPT ![Head(b).i] = Head(b).val] ELSE x)
                  = SlotsOf(b, x)
      /\ \A loc \in Fields : Head(b).loc = loc => In(Tail(b), loc) = {} /\ 1 \in In(b, loc)
      /\ \A loc \in Fields : Head(b).loc # loc => \A i \in In(b, loc) : i - 1 \in In(Tail(b), loc) /\ Tail(b)[i - 1] = b[i]
  BY ValueFlushed
<1>3. Value(Tail(b), "bot", m2) = Value(b, "bot", m)
  BY <1>1, <1>2 DEF FlushedTo
<1>4. SlotsOf(Tail(b), d2) = SlotsOf(b, d)
  BY <1>2 DEF FlushedTo
<1>6. /\ Head(b) = b[1]
      /\ \A i \in DOMAIN Tail(b) : i + 1 \in DOMAIN b /\ Tail(b)[i] = b[i + 1]
      /\ \A loc : In(Tail(b), loc) = {i - 1 : i \in In(b, loc) \ {1}}
  BY Left
<1>7. \A loc : \A i \in In(Tail(b), loc) : i + 1 \in In(b, loc) /\ Tail(b)[i] = b[i + 1]
  BY <1>6 DEF In
<1>8. ASSUME NEW loc \in Fields, Head(b).loc = loc PROVE In(b, loc) = {1}
  <2>1. 1 \in In(b, loc)
    BY <1>2, <1>8
  <2> QED
    BY <2>1 DEF Shape
<1>9. ASSUME NEW loc \in Fields, In(b, loc) = {} PROVE In(Tail(b), loc) = {} /\ Head(b).loc # loc
  BY <1>2, <1>6, <1>9
<1>10. ASSUME NEW loc \in Fields, Head(b).loc # loc, In(b, loc) # {} PROVE In(Tail(b), loc) # {}
  BY <1>2, <1>10
<1> QED
  BY <1>2, <1>3, <1>4, <1>6, <1>7, <1>8, <1>9, <1>10

\* The oldest store of the owner reaches memory.
Flushing(l, st, b, v, o, j, a, m, d, rt, a2, m2, d2) ==
  /\ l # "aborted" /\ b \in Seq(Stores) /\ b # <<>> /\ v \in 0..QSize /\ a \in Age /\ m \in 0..QSize
  /\ BufferOK(l, b, a) /\ DequeOK(l, st, b, v, o, j, a, m, d, rt)
  /\ FlushedTo(Head(b), a, m, d, a2, m2, d2)
  /\ d \in [0..(QSize - 1) -> Pardos \cup {NoPardo}]
Flushed(l, st, b, v, o, j, a, m, d, rt, a2, m2, d2) ==
  /\ BufferOK(l, Tail(b), a2) /\ DequeOK(l, st, Tail(b), v, o, j, a2, m2, d2, rt)
  /\ Keeps(l, b, v, a, m, l, Tail(b), v, a2, m2)
  /\ Ready(l, b, v, a, m) => d2[a.top] = d[a.top]
\* Then the deque and the buffer stay right, and thieves find what they found.
LEMMA FlushDeque ==
  ASSUME NEW l, NEW st, NEW b, NEW v, NEW o, NEW j, NEW a, NEW m, NEW d, NEW rt, NEW a2, NEW m2, NEW d2,
         Flushing(l, st, b, v, o, j, a, m, d, rt, a2, m2, d2)
  PROVE  Flushed(l, st, b, v, o, j, a, m, d, rt, a2, m2, d2)
<1>s. SUFFICES /\ BufferOK(l, Tail(b), a2) /\ DequeOK(l, st, Tail(b), v, o, j, a2, m2, d2, rt)
               /\ Keeps(l, b, v, a, m, l, Tail(b), v, a2, m2)
               /\ Ready(l, b, v, a, m) => d2[a.top] = d[a.top]
  BY DEF Flushed
<1>u. /\ l # "aborted" /\ b \in Seq(Stores) /\ b # <<>> /\ v \in 0..QSize /\ a \in Age /\ m \in 0..QSize
      /\ BufferOK(l, b, a) /\ DequeOK(l, st, b, v, o, j, a, m, d, rt)
      /\ FlushedTo(Head(b), a, m, d, a2, m2, d2)
      /\ d \in [0..(QSize - 1) -> Pardos \cup {NoPardo}]
  BY DEF Flushing
<1> USE <1>u
<1> DEFINE h == Head(b)
           t == Tail(b)
           n == JobsIn(l, b, v, m)
<1>1. Shape(b)
  BY DEF BufferOK
<1>2. /\ Shape(t) /\ Value(t, "bot", m2) = Value(b, "bot", m) /\ SlotsOf(t, d2) = SlotsOf(b, d)
      /\ \A loc \in Fields : In(b, loc) = {} => In(t, loc) = {} /\ h.loc # loc
      /\ \A loc \in Fields : h.loc # loc /\ In(b, loc) # {} => In(t, loc) # {}
      /\ \A loc \in Fields : h.loc = loc => In(t, loc) = {} /\ In(b, loc) = {1} /\ h = b[1]
      /\ \A loc : \A i \in In(t, loc) : i + 1 \in In(b, loc) /\ t[i] = b[i + 1]
  BY <1>1, FlushSame
<1>j. JobsIn(l, t, v, m2) = n
  BY <1>2 DEF JobsIn
<1>3. n \in Nat /\ n \in 0..(QSize - 1) /\ a.top \in Nat /\ a.tag \in Nat /\ QSize \in Nat /\ m \in Nat
  BY SchedulerAssumption DEF DequeOK, Age
<1>4. MemIn(l, t, v, m2) = (IF l = "pushed" /\ In(t, "slot") # {} THEN n - 1 ELSE n)
      /\ MemIn(l, b, v, m) = (IF l = "pushed" /\ In(b, "slot") # {} THEN n - 1 ELSE n)
  BY <1>j DEF MemIn
<1>d. /\ \E e : Holds(e, n, st, SlotsOf(b, d), rt, a.top, SpareIn(l, st, j))
      /\ l = "pushed" => \A i \in In(b, "slot") : b[i].i = n - 1
      /\ l = "pop_load" => Value(b, "bot", m) = v
      /\ l = "pop_cas" =>
           Value(b, "bot", m) = 0 /\ o.top = v /\ o.tag = a.tag /\ v <= a.top /\ j = st[Len(st)].p
      /\ l = "pop_fence" => Value(b, "bot", m) = 0 /\ (In(b, "age") = {} => a.top = 0)
      /\ l # "pop_fence" => a.top <= n
      /\ m <= MemIn(l, b, v, m) \/ (l = "pop_fence" /\ m <= a.top)
      /\ l = "popped" /\ j = NoPardo => n = 0
      /\ l \in {"pop_fence", "popped"} /\ j # NoPardo =>
           st[Len(st)].at = "left" /\ j = st[Len(st)].p /\ rt[st[Len(st)].p] = "idle"
  BY DEF DequeOK, JobsHeld
<1>n. n = IF l \in {"pop_load", "pop_cas"} THEN v + 1 ELSE IF l = "pop_fence" THEN 0 ELSE Value(b, "bot", m)
  BY DEF JobsIn
<1>b. /\ In(b, "bot") # {} => l \in {"pushed", "pop_load", "pop_cas", "pop_fence"}
      /\ In(b, "slot") # {} => l \in {"pushed", "aborted"}
      /\ In(b, "age") # {} => l = "pop_fence"
      /\ \A i \in In(b, "age") : b[i].val.top = 0 /\ b[i].val.tag > a.tag
      /\ \A i \in In(b, "slot"), k \in In(b, "bot") : i < k
      /\ \A i \in In(b, "bot"), k \in In(b, "age") : i < k
  BY DEF BufferOK, Shape
<1>f. "bot" \in Fields /\ "slot" \in Fields /\ "age" \in Fields /\ \A loc \in Fields : loc \in {"bot", "slot", "age"}
  BY DEF Fields
<1>p. \A loc \in Fields : \A i \in In(b, loc) : i \in Nat /\ i >= 1
  BY DEF In
<1> HIDE DEF h, t, n
<1>t. FlushedTo(h, a, m, d, a2, m2, d2)
  BY DEF h
\* It suffices to look at the parts that change.
<1>5. ASSUME l # "pop_fence" => a2.top = a.top /\ a2.tag = a.tag,
             l = "pop_fence" => (In(t, "age") = {} => a2.top = 0),
             m2 <= MemIn(l, t, v, m2) \/ (l = "pop_fence" /\ m2 <= a2.top),
             \E e : Holds(e, n, st, SlotsOf(b, d), rt, a2.top, SpareIn(l, st, j))
      PROVE  DequeOK(l, st, t, v, o, j, a2, m2, d2, rt)
  <2>1. JobsHeld(l, st, t, v, j, a2, m2, d2, rt)
    BY <1>2, <1>5, <1>j DEF JobsHeld
  <2>2. l = "pushed" => \A i \in In(t, "slot") : t[i].i = n - 1
    BY <1>2, <1>d
  <2> QED
    BY <1>2, <1>3, <1>5, <1>d, <1>j, <2>1, <2>2 DEF DequeOK
<1>6. ASSUME a2.tag = a.tag PROVE BufferOK(l, t, a2)
  <2>1. \A i \in In(t, "age") : t[i].val.top = 0 /\ t[i].val.tag > a2.tag
    BY <1>2, <1>6, <1>b
  <2>2. (In(t, "bot") # {} => In(b, "bot") # {}) /\ (In(t, "slot") # {} => In(b, "slot") # {}) /\ (In(t, "age") # {} => In(b, "age") # {})
    BY <1>2
  <2> QED
    BY <1>2, <1>b, <2>1, <2>2 DEF BufferOK
<1>7. NotAfter(a, a)
  BY SameAge
<1>8. CASE h.loc \notin Fields
  <2>1. m2 = m /\ a2 = a /\ d2 = d
    BY <1>8, <1>f, <1>t DEF FlushedTo
  <2>2. In(t, "slot") = {} <=> In(b, "slot") = {}
    BY <1>2, <1>8, <1>f
  <2>3. In(t, "age") = {} <=> In(b, "age") = {}
    BY <1>2, <1>8, <1>f
  <2>4. MemIn(l, t, v, m2) = MemIn(l, b, v, m)
    BY <1>4, <2>2
  <2>5. DequeOK(l, st, t, v, o, j, a2, m2, d2, rt)
    BY <1>5, <1>d, <2>1, <2>3, <2>4
  <2> QED
    BY <1>6, <1>7, <2>1, <2>4, <2>5 DEF Keeps, Ready, t
<1>9. CASE h.loc = "slot"
  <2>1. m2 = m /\ a2 = a /\ d2 = [d EXCEPT ![h.i] = h.val]
    BY <1>9, <1>t DEF FlushedTo
  <2>2. In(t, "slot") = {} /\ In(b, "slot") = {1} /\ h = b[1]
    BY <1>2, <1>9, <1>f
  <2>3. l = "pushed" /\ h.i = n - 1
    BY <1>b, <1>d, <2>2
  <2>4. MemIn(l, t, v, m2) = n /\ MemIn(l, b, v, m) = n - 1
    BY <1>4, <2>2, <2>3
  <2>5. m <= n
    BY <1>3, <1>d, <2>3, <2>4
  <2>6. DequeOK(l, st, t, v, o, j, a2, m2, d2, rt)
    BY <1>5, <1>d, <2>1, <2>3, <2>4, <2>5
  <2>7. Keeps(l, b, v, a, m, l, t, v, a2, m2)
    BY <1>3, <1>7, <2>1, <2>4 DEF Keeps, Ready
  <2>8. Ready(l, b, v, a, m) => d2[a.top] = d[a.top]
    <3>1. SUFFICES ASSUME a.top < n - 1 PROVE d2[a.top] = d[a.top]
      BY <2>4 DEF Ready
    <3>2. a.top \in 0..(QSize - 1) /\ a.top # n - 1
      BY <1>3, <3>1
    <3>3. d2 = [d EXCEPT ![n - 1] = h.val]
      BY <2>1, <2>3
    <3> QED
      BY <3>2, <3>3
  <2> QED
    BY <1>6, <2>1, <2>6, <2>7, <2>8 DEF t
<1>10. CASE h.loc = "bot"
  <2>1. m2 = h.val /\ a2 = a /\ d2 = d
    BY <1>10, <1>t DEF FlushedTo
  <2>2. In(t, "bot") = {} /\ In(b, "bot") = {1}
    BY <1>2, <1>10, <1>f
  <2>3. In(b, "slot") = {} /\ In(t, "slot") = {}
    <3>1. ASSUME NEW i \in In(b, "slot") PROVE FALSE
      <4>1. i < 1 /\ i \in Nat /\ i >= 1
        BY <1>b, <1>f, <1>p, <2>2
      <4> QED
        BY <4>1
    <3> QED
      BY <1>2, <1>f, <3>1
  <2>4. m2 = Value(b, "bot", m)
    <3>1. Value(t, "bot", m2) = m2
      BY <2>2 DEF Value
    <3> QED
      BY <1>2, <3>1
  <2>5. MemIn(l, t, v, m2) = n /\ MemIn(l, b, v, m) = n
    BY <1>4, <2>3
  <2>6. m2 <= n
    <3>1. CASE l = "pushed"
      <4>1. m2 = n
        BY <1>n, <2>4, <3>1
      <4> QED
        BY <1>3, <4>1
    <3>2. CASE l = "pop_load"
      <4>1. m2 = v /\ n = v + 1 /\ v \in Nat
        BY <1>n, <1>d, <2>4, <3>2
      <4> QED
        BY <4>1
    <3>3. CASE l \in {"pop_cas", "pop_fence"}
      <4>1. m2 = 0
        BY <1>d, <2>4, <3>3
      <4> QED
        BY <1>3, <4>1
    <3> QED
      BY <1>b, <2>2, <3>1, <3>2, <3>3
  <2>7. In(t, "age") = {} <=> In(b, "age") = {}
    BY <1>2, <1>10, <1>f
  <2>8. DequeOK(l, st, t, v, o, j, a2, m2, d2, rt)
    BY <1>5, <1>d, <2>1, <2>5, <2>6, <2>7
  <2>9. Keeps(l, b, v, a, m, l, t, v, a2, m2)
    BY <1>7, <2>1, <2>5 DEF Keeps, Ready
  <2> QED
    BY <1>6, <2>1, <2>8, <2>9 DEF t
<1>11. CASE h.loc = "age"
  <2>1. m2 = m /\ a2 = h.val /\ d2 = d
    BY <1>11, <1>t DEF FlushedTo
  <2>2. In(t, "age") = {} /\ In(b, "age") = {1} /\ h = b[1]
    BY <1>2, <1>11, <1>f
  <2>3. l = "pop_fence" /\ a2.top = 0 /\ a2.tag > a.tag
    BY <1>b, <2>1, <2>2
  <2>4. n = 0
    BY <1>n, <2>3
  <2>5. In(b, "bot") = {}
    <3>1. ASSUME NEW i \in In(b, "bot") PROVE FALSE
      <4>1. i < 1 /\ i \in Nat /\ i >= 1
        BY <1>b, <1>f, <1>p, <2>2
      <4> QED
        BY <4>1
    <3> QED
      BY <3>1
  <2>6. m2 = 0
    <3>1. Value(b, "bot", m) = m
      BY <2>5 DEF Value
    <3> QED
      BY <1>d, <2>1, <2>3, <3>1
  <2>7. MemIn(l, t, v, m2) = 0
    BY <1>4, <2>3, <2>4
  <2>8. \E e : Holds(e, n, st, SlotsOf(b, d), rt, a2.top, SpareIn(l, st, j))
    BY <1>d, <2>4, HoldsNone
  <2>9. m2 <= MemIn(l, t, v, m2)
    BY <2>6, <2>7
  <2>10. DequeOK(l, st, t, v, o, j, a2, m2, d2, rt)
    BY <1>5, <2>3, <2>8, <2>9
  <2>11. BufferOK(l, t, a2)
    <3>1. (In(t, "bot") # {} => In(b, "bot") # {}) /\ (In(t, "slot") # {} => In(b, "slot") # {})
      BY <1>2
    <3> QED
      BY <1>2, <1>b, <2>2, <3>1 DEF BufferOK
  <2>12. NotAfter(a, a2) /\ a2 # a
    BY <1>3, <2>3 DEF NotAfter
  <2> QED
    BY <2>1, <2>10, <2>11, <2>12 DEF Keeps, t
<1> QED
  BY <1>8, <1>9, <1>10, <1>11, <1>f

-----------------------------------------------------------------------------
(* The nesting of a worker's pardos bounds the jobs of its deque.          *)

\* A set of naturals that is not empty has a least element.
LEMMA LeastElement ==
  ASSUME NEW S, S \subseteq Nat, S # {}
  PROVE  \E m \in S : \A k \in S : m <= k
<1> DEFINE R == OpToRel(<, Nat)
<1>1. IsWellFoundedOn(R, Nat)
  BY NatLessThanWellFounded
<1>2. \A k, m \in Nat : m < k => <<m, k>> \in R
  BY DEF OpToRel
<1> HIDE DEF R
<1>3. PICK m \in S : \A k \in S : ~(<<k, m>> \in R)
  BY <1>1, WFMin
<1>4. ASSUME NEW k \in S PROVE m <= k
  <2>1. k \in Nat /\ m \in Nat
    OBVIOUS
  <2>2. ~(<<k, m>> \in R)
    BY <1>3
  <2>3. ~(k < m)
    BY <1>2, <2>1, <2>2, Zenon
  <2> QED
    BY <2>1, <2>3
<1> QED
  BY <1>4

\* The greatest of some numbers up to a bound.
LEMMA MaxOf ==
  ASSUME NEW m \in Nat, NEW S \in SUBSET (1..m), S # {}
  PROVE  Max(S) \in S /\ \A x \in S : x <= Max(S)
<1> DEFINE W == {i \in Nat : m - i \in S}
<1>1. PICK x \in S : TRUE
  OBVIOUS
<1>2. m - x \in Nat /\ m - (m - x) = x
  BY <1>1
<1>3. W # {} /\ W \subseteq Nat
  BY <1>1, <1>2
<1>4. PICK i \in W : \A j \in W : i <= j
  <2> HIDE DEF W
  <2> QED
    BY <1>3, LeastElement
<1>5. \A y \in S : y <= m - i
  <2>1. ASSUME NEW y \in S PROVE y <= m - i
    <3>1. m - y \in Nat /\ m - (m - y) = y /\ i \in Nat
      BY <1>4
    <3>2. m - y \in W
      BY <3>1
    <3>3. i <= m - y
      BY <1>4, <3>2
    <3> QED
      BY <3>1, <3>3
  <2> QED
    BY <2>1
<1>6. m - i \in S
  BY <1>4
<1>7. \E z \in S : \A y \in S : z >= y
  BY <1>5, <1>6
<1>8. Max(S) \in S /\ \A y \in S : Max(S) >= y
  BY <1>7 DEF Max
<1> QED
  BY <1>8

\* The left frames since the last wait, as OpenLefts counts them.
LastWait(st) ==
  LET waits == {i \in DOMAIN st : st[i].at = "wait"} IN IF waits = {} THEN 0 ELSE Max(waits)
LeftsOpen(st) == {i \in DOMAIN st : i > LastWait(st) /\ st[i].at = "left"}

\* The jobs held, and the spare frame, are among them.
LEMMA HoldsOpen ==
  ASSUME NEW e, NEW n \in Nat, NEW st \in Seq(Frame_), NEW slots, NEW rt, NEW top, NEW spare,
         Holds(e, n, st, slots, rt, top, spare), st # <<>>
  PROVE  /\ IsFiniteSet(LeftsOpen(st)) /\ Cardinality(LeftsOpen(st)) \in Nat /\ n <= Cardinality(LeftsOpen(st))
         /\ spare = Len(st) /\ st[Len(st)].at = "left" => n + 1 <= Cardinality(LeftsOpen(st))
<1> DEFINE m == Len(st)
           base == LastWait(st)
           L == LeftsOpen(st)
<1>1. m \in Nat /\ m # 0 /\ DOMAIN st = 1..m /\ m \in 1..m
  <2>1. m \in Nat /\ m # 0 /\ DOMAIN st = 1..m
    BY EmptySeq
  <2> QED
    BY <2>1
<1> HIDE DEF m
<1>2. base = 0 \/ (base \in 1..m /\ st[base].at = "wait")
  <2> DEFINE waits == {i \in DOMAIN st : st[i].at = "wait"}
  <2>1. CASE waits = {}
    BY <2>1 DEF LastWait
  <2>2. CASE waits # {}
    <3>1. waits \in SUBSET (1..m)
      BY <1>1
    <3>2. base = Max(waits)
      BY <2>2 DEF LastWait
    <3>3. Max(waits) \in waits
      <4> HIDE DEF waits
      <4> QED
        BY <1>1, <2>2, <3>1, MaxOf
    <3> QED
      BY <1>1, <3>2, <3>3
  <2> QED
    BY <2>1, <2>2
<1>3. L = {i \in 1..m : i > base /\ st[i].at = "left"}
  BY <1>1 DEF LeftsOpen
<1> HIDE DEF base, L
<1>4. ASSUME NEW k \in 0..(n - 1) PROVE e[k] \in L /\ e[k] # spare
  <2>1. e[k] \in 1..m /\ st[e[k]].at = "left" /\ e[k] # spare
    BY HasFrame DEF m
  <2>2. \A i \in 1..m : e[k] < i => st[i].at # "wait"
    BY DEF Holds, Topmost, m
  <2>3. e[k] > base
    BY <1>1, <1>2, <2>1, <2>2
  <2> QED
    BY <1>3, <2>1, <2>3
<1>5. ASSUME NEW k \in 0..(n - 1), NEW l \in 0..(n - 1), e[k] = e[l] PROVE k = l
  <2>1. k = l \/ k < l \/ l < k
    OBVIOUS
  <2>2. (k < l => e[k] < e[l]) /\ (l < k => e[l] < e[k]) /\ e[k] \in 1..m
    BY DEF Holds, Ordered, m
  <2> QED
    BY <1>5, <2>1, <2>2
<1>6. IsFiniteSet(L)
  <2>1. IsFiniteSet(1..m)
    BY <1>1, FS_Interval
  <2>2. L \in SUBSET (1..m)
    BY <1>3
  <2> QED
    BY <2>1, <2>2, FS_Subset
<1>7. Cardinality(0..(n - 1)) = n
  <2>1. Cardinality(0..(n - 1)) = IF 0 > n - 1 THEN 0 ELSE n - 1 - 0 + 1
    BY FS_Interval
  <2> QED
    BY <2>1
<1>8. ASSUME NEW T, IsFiniteSet(T), \A k \in 0..(n - 1) : e[k] \in T PROVE n <= Cardinality(T)
  <2> DEFINE f == [k \in 0..(n - 1) |-> e[k]]
  <2>1. f \in [0..(n - 1) -> T] /\ \A k, l \in 0..(n - 1) : f[k] = f[l] => k = l
    BY <1>5, <1>8
  <2> HIDE DEF f
  <2>2. f \in Injection(0..(n - 1), T)
    BY <2>1 DEF Injection, IsInjective
  <2> QED
    BY <1>7, <1>8, <2>2, FS_Injection
<1>9. Cardinality(L) \in Nat /\ n <= Cardinality(L)
  BY <1>4, <1>6, <1>8, FS_CardinalityType
<1>10. ASSUME spare = m, st[m].at = "left" PROVE n + 1 <= Cardinality(L)
  <2>1. m \in L
    <3>1. m > base
      BY <1>1, <1>2, <1>10
    <3> QED
      BY <1>1, <1>3, <1>10, <3>1
  <2>2. IsFiniteSet(L \ {m}) /\ Cardinality(L \ {m}) = Cardinality(L) - 1
    BY <1>6, <2>1, FS_RemoveElement
  <2>3. \A k \in 0..(n - 1) : e[k] \in L \ {m}
    BY <1>4, <1>10
  <2>4. n <= Cardinality(L) - 1
    BY <1>8, <2>2, <2>3
  <2> QED
    BY <1>9, <2>4
<1> QED
  BY <1>6, <1>9, <1>10 DEF L, m

-----------------------------------------------------------------------------
(* What the variables are, and what a step of worker w leaves alone.       *)

USE DEF At, Goto

\* The types of what a worker has.
LEMMA TypesOf ==
  ASSUME TypeOK, NEW w \in Workers
  PROVE  /\ w \in Deques /\ pc[w] \in Labels /\ stack[w] \in Seq(Frame_) /\ buf[w] \in Seq(Stores)
         /\ lb[w] \in 0..QSize /\ old[w] \in Age /\ job[w] \in Pardos \cup {NoPardo} /\ victim[w] \in Deques
         /\ age[w] \in Age /\ bot[w] \in 0..QSize /\ deq[w] \in [0..(QSize - 1) -> Pardos \cup {NoPardo}]
<1>1. w \in Deques
  BY SchedulerAssumption DEF Workers, Deques
<1> QED
  BY <1>1 DEF TypeOK, Frame_

\* The worker's own loads.
LEMMA LoadIs ==
  ASSUME NEW w \in Workers
  PROVE  /\ \A loc : Pending(w, loc) = In(buf[w], loc)
         /\ LoadBot(w, w) = Value(buf[w], "bot", bot[w]) /\ LoadAge(w, w) = Value(buf[w], "age", age[w])
         /\ \A d : d # w => LoadBot(w, d) = bot[d] /\ LoadAge(w, d) = age[d]
<1>1. \A loc : Pending(w, loc) = In(buf[w], loc)
  BY DEF Pending, In
<1> QED
  BY <1>1 DEF LoadBot, LoadAge, LastPending, Value

\* The other workers' control, buffers and locals stay.
Apart(w) ==
  /\ \A x \in Workers \ {w} :
       pc'[x] = pc[x] /\ stack'[x] = stack[x] /\ buf'[x] = buf[x] /\ lb'[x] = lb[x] /\ old'[x] = old[x]
       /\ job'[x] = job[x] /\ victim'[x] = victim[x]
  /\ prog' = prog
\* That is so of every step.
LEMMA StepsApart ==
  ASSUME TypeOK, NEW w \in Workers, Step(w) \/ Flush(w)
  PROVE  Apart(w)
<1> USE DEF TypeOK, Apart, Store, Push, Replace, ClearRegs, RunJob, LeaveLoop,
            vars, memVars, regVars, fjVars, deqVars
<1>1. ASSUME Pardo(w) PROVE Apart(w)
  BY <1>1 DEF Pardo
<1>2. ASSUME CallLeft(w) \/ Lock(w) \/ ReturnLeft(w) \/ AfterPop(w) PROVE Apart(w)
  BY <1>2 DEF CallLeft, Lock, ReturnLeft, AfterPop
<1>3. ASSUME ReturnRight(w) \/ ReturnJob(w) \/ ReturnPardo(w) \/ Spin(w) PROVE Apart(w)
  BY <1>3 DEF ReturnRight, ReturnJob, ReturnPardo, Spin
<1>4. ASSUME PopBegin(w) \/ PopLoad(w) \/ PopCas(w) \/ PopFence(w) PROVE Apart(w)
  BY <1>4 DEF PopBegin, PopLoad, PopCas, PopFence
<1>5. ASSUME GetJob(w) \/ JobPopped(w) \/ StealCheck(w) \/ StealAge(w) PROVE Apart(w)
  BY <1>5 DEF GetJob, JobPopped, StealCheck, StealAge
<1>6. ASSUME StealBot(w) \/ StealJob(w) \/ StealCas(w) PROVE Apart(w)
  BY <1>6 DEF StealBot, StealJob, StealCas
<1>7. ASSUME Destroy(w) \/ JoinThreads(w) \/ Flush(w) PROVE Apart(w)
  BY <1>7 DEF Destroy, JoinThreads, Flush
<1> QED
  BY <1>1, <1>2, <1>3, <1>4, <1>5, <1>6, <1>7 DEF Step

-----------------------------------------------------------------------------
(* The invariant at one worker, and its top frame.                         *)

\* The parts of the invariant, at one worker.
LEMMA At1 ==
  ASSUME IInv, NEW w \in Workers
  PROVE  TypeOK /\ Control(w) /\ DequeInv(w) /\ ThiefInv(w) /\ TagInv(w) /\ FramesInv /\ CallsInv /\ Unused
  BY DEF IInv

\* The top frame is the last of a stack that is not empty.
LEMMA TopIs ==
  ASSUME TypeOK, NEW w \in Workers, Control(w)
  PROVE  /\ stack[w] \in Seq(Frame_) /\ stack[w] # <<>> /\ Len(stack[w]) \in Nat \ {0}
         /\ DOMAIN stack[w] = 1..Len(stack[w]) /\ Len(stack[w]) \in 1..Len(stack[w])
         /\ Top(w) = stack[w][Len(stack[w])] /\ Top(w) \in Frame_ /\ Top(w).at \in TopFrames(pc[w])
<1>1. stack[w] \in Seq(Frame_) /\ Len(stack[w]) > 0 /\ Len(stack[w]) \in Nat
  BY TypesOf DEF Control, ControlOK, StackShape
<1>2. stack[w] # <<>> /\ DOMAIN stack[w] = 1..Len(stack[w]) /\ Len(stack[w]) \in 1..Len(stack[w])
  BY <1>1, EmptySeq
<1>3. Top(w) = stack[w][Len(stack[w])]
  BY DEF Top, Last
<1>4. Top(w) \in Frame_
  BY <1>1, <1>2, <1>3
<1>5. Top(w).at \in TopFrames(pc[w])
  BY <1>3 DEF Control, ControlOK
<1> QED
  BY <1>1, <1>2, <1>3, <1>4, <1>5

\* Which frames are on top at which labels.
LEMMA TopAt ==
  ASSUME TypeOK, NEW w \in Workers, Control(w)
  PROVE  /\ pc[w] \in {"pushed", "aborted", "pop_load", "pop_cas", "pop_fence"} => Top(w).at = "left"
         /\ pc[w] \in {"pop", "popped"} => Top(w).at \in {"left", "wait"}
         /\ pc[w] = "return" => Top(w).at \in {"right", "wait"}
         /\ pc[w] = "run" => Top(w).at \in ThunkAt
         /\ pc[w] = "lock" => Top(w).at \in {"left", "right", "job"}
         /\ pc[w] = "join" => Top(w).at = "main"
         /\ pc[w] \in {"spin", "get_job", "steal", "steal_age", "steal_bot", "steal_job", "steal_cas"} => Top(w).at = "wait"
         /\ pc[w] \notin {"pop_cas", "pop_fence", "popped", "steal_cas"} => job[w] = NoPardo
<1>1. Top(w).at \in TopFrames(pc[w])
  BY TopIs
<1>2. pc[w] \notin {"pop_cas", "pop_fence", "popped", "steal_cas"} => job[w] = NoPardo
  BY DEF Control, ControlOK
<1> QED
  BY <1>1, <1>2 DEF TopFrames

\* Which of them are pardos' frames.
LEMMA PardosAt ==
  ASSUME TypeOK, NEW w \in Workers, Control(w)
  PROVE  /\ \A i \in DOMAIN stack[w] : stack[w][i].at \in {"left", "right", "job"} => stack[w][i].p \in Pardos
         /\ \A i \in DOMAIN stack[w] : stack[w][i].p \notin Pardos => i = 1 /\ stack[w][i].p = NoPardo
         /\ pc[w] \in {"return", "spin"} => Top(w).p \in Pardos
         /\ Len(stack[w]) = 1 => Top(w).at = IdleAt(w) /\ Top(w).p = NoPardo
         /\ Len(stack[w]) > 1 => Top(w).at # "main" /\ Top(w).p \in Pardos
<1>1. /\ stack[w][1].at = IdleAt(w) /\ stack[w][1].p = NoPardo
      /\ \A i \in 2..Len(stack[w]) : stack[w][i].at # "main" /\ stack[w][i].p \in Pardos
      /\ Len(stack[w]) > 0 /\ (pc[w] \in {"return", "spin"} => stack[w][Len(stack[w])].p \in Pardos)
  BY DEF Control, ControlOK, StackShape
<1>2. DOMAIN stack[w] = 1..Len(stack[w]) /\ Len(stack[w]) \in Nat /\ Top(w) = stack[w][Len(stack[w])]
  BY TopIs
<1>3. \A i \in DOMAIN stack[w] : i = 1 \/ i \in 2..Len(stack[w])
  BY <1>2
<1>4. stack[w][1].at \notin {"left", "right", "job"}
  BY <1>1 DEF IdleAt
<1>5. Len(stack[w]) > 1 => Len(stack[w]) \in 2..Len(stack[w])
  BY <1>2
<1> QED
  BY <1>1, <1>2, <1>3, <1>4, <1>5

-----------------------------------------------------------------------------
(* What the steps do to the deque of their worker.                         *)

\* Thieves that have read the age of y go on finding what they found.
KeepsAt(y) ==
  /\ Keeps(pc[y], buf[y], lb[y], age[y], bot[y], pc'[y], buf'[y], lb'[y], age'[y], bot'[y])
  /\ age'[y] = age[y] /\ ReadyAt(y) => deq'[y][age[y].top] = deq[y][age[y].top]
MemSame(y) == age'[y] = age[y] /\ bot'[y] = bot[y] /\ deq'[y] = deq[y]

\* A step between two operations, or out of one, when memory does not change.
LEMMA QuietMoves ==
  ASSUME TypeOK, NEW w \in Workers, DequeInv(w), MemSame(w), Quiet(pc'[w]),
         Quiet(pc[w]) \/ (buf[w] = <<>> /\ MemIn(pc[w], buf[w], lb[w], bot[w]) = bot[w]),
         buf'[w] = buf[w] \/ \E s \in Stores : s.loc \notin Fields /\ buf'[w] = Enter(buf[w], s),
         QuietOK(pc'[w], stack'[w], job'[w], age[w], bot[w], deq[w], right')
  PROVE  DequeInv(w)' /\ KeepsAt(w)
<1>1. bot[w] \in 0..QSize /\ age[w] \in Age /\ buf[w] \in Seq(Stores)
  BY TypesOf
<1>2. BufferOK(pc[w], buf[w], age[w])
  BY DEF DequeInv
<1>3. BufferOK(pc'[w], buf'[w], age[w])
  <2>1. BufferOK(pc'[w], buf[w], age[w])
        /\ \A s \in Stores : s.loc \notin Fields => BufferOK(pc'[w], Enter(buf[w], s), age[w])
    BY <1>1, <1>2, QuietBuffer
  <2> QED
    BY <2>1
<1>4. DequeOK(pc'[w], stack'[w], buf'[w], lb'[w], old'[w], job'[w], age[w], bot[w], deq[w], right')
      /\ MemIn(pc'[w], buf'[w], lb'[w], bot[w]) = bot[w]
  BY <1>1, <1>3, QuietDeque
<1>5. MemIn(pc[w], buf[w], lb[w], bot[w]) = bot[w]
  <2>1. ASSUME Quiet(pc[w])
        PROVE  /\ MemIn(pc[w], buf[w], lb[w], bot[w]) = bot[w]
               /\ DequeOK(pc[w], stack[w], buf[w], lb[w], old[w], job[w], age[w], bot[w], deq[w], right)
                    <=> QuietOK(pc[w], stack[w], job[w], age[w], bot[w], deq[w], right)
    BY <1>1, <1>2, <2>1, QuietDeque
  <2> QED
    BY <2>1
<1>6. NotAfter(age[w], age[w])
  BY <1>1, SameAge
<1>7. KeepsAt(w)
  BY <1>4, <1>5, <1>6 DEF KeepsAt, Keeps, Ready, MemSame
<1> QED
  BY <1>3, <1>4, <1>7 DEF DequeInv, MemSame

\* What the invariant says of the deque of a worker between two operations.
LEMMA QuietHere ==
  ASSUME TypeOK, NEW w \in Workers, DequeInv(w), Quiet(pc[w])
  PROVE  /\ QuietOK(pc[w], stack[w], job[w], age[w], bot[w], deq[w], right)
         /\ LoadBot(w, w) = bot[w] /\ LoadAge(w, w) = age[w]
<1>1. bot[w] \in 0..QSize /\ buf[w] \in Seq(Stores)
  BY TypesOf
<1>2. BufferOK(pc[w], buf[w], age[w])
      /\ DequeOK(pc[w], stack[w], buf[w], lb[w], old[w], job[w], age[w], bot[w], deq[w], right)
  BY DEF DequeInv
<1>3. In(buf[w], "age") = {}
  BY <1>1, <1>2, QuietBuffer
<1>4. Value(buf[w], "bot", bot[w]) = bot[w] /\ Value(buf[w], "age", age[w]) = age[w]
      /\ QuietOK(pc[w], stack[w], job[w], age[w], bot[w], deq[w], right)
  <2>1. Value(buf[w], "age", age[w]) = age[w]
    BY <1>3 DEF Value
  <2> QED
    BY <1>1, <1>2, <2>1, QuietDeque
<1> QED
  BY <1>4, LoadIs

\* The steps that leave the worker's frames and its deque as they are.
IdleStep(w) ==
  \/ Lock(w) \/ ReturnLeft(w) \/ ReturnRight(w) \/ Spin(w) \/ GetJob(w) \/ JobPopped(w) \/ StealCheck(w)
  \/ StealAge(w) \/ StealBot(w) \/ StealJob(w) \/ (StealCas(w) /\ age[victim[w]] # old[w])
  \/ Destroy(w) \/ JoinThreads(w)
Idles(w) ==
  /\ stack'[w] = stack[w] /\ age' = age /\ bot' = bot /\ deq' = deq
  /\ Quiet(pc[w]) /\ Quiet(pc'[w]) /\ pc'[w] # "popped" /\ (pc[w] = "popped" => job[w] = NoPardo)
  /\ buf'[w] = buf[w] \/ buf'[w] = Enter(buf[w], FinishedStore)

\* The state of right() of every pardo stays, as far as thieves are concerned.
RightsSame == \A p \in Pardos : right'[p] = "idle" <=> right[p] = "idle"

\* The waiting worker's deque is empty: get_job does not find a job there.
LEMMA WaitsEmpty ==
  ASSUME TypeOK, NEW w \in Workers, Control(w), DequeInv(w), Top(w).at = "wait", Quiet(pc[w])
  PROVE  bot[w] = 0 /\ age[w].top = 0 /\ (pc[w] = "popped" => job[w] = NoPardo)
<1>1. QuietOK(pc[w], stack[w], job[w], age[w], bot[w], deq[w], right)
  BY QuietHere
<1>2. stack[w] \in Seq(Frame_) /\ Len(stack[w]) \in Nat \ {0} /\ Top(w) = stack[w][Len(stack[w])]
  BY TopIs
<1>3. pc[w] = "popped" => job[w] = NoPardo
  BY <1>1, <1>2 DEF QuietOK
<1>4. PICK e : Holds(e, bot[w], stack[w], deq[w], right, age[w].top, 0)
  BY <1>1, <1>3 DEF QuietOK
<1>5. bot[w] \in Nat /\ age[w].top \in Nat /\ age[w].top <= bot[w]
  <2>1. bot[w] \in 0..QSize /\ age[w] \in Age
    BY TypesOf
  <2> QED
    BY <1>1, <2>1, SchedulerAssumption DEF QuietOK, Age
<1>6. ASSUME bot[w] > 0 PROVE FALSE
  <2>1. stack[w][Len(stack[w])].at # "wait"
    BY <1>2, <1>4, <1>5, <1>6, TopHolds
  <2> QED
    BY <1>2, <2>1
<1> QED
  BY <1>3, <1>5, <1>6

\* The idle steps change no frame, and begin no job.
LEMMA IdleSteps ==
  ASSUME TypeOK, NEW w \in Workers, Control(w), DequeInv(w), FramesInv, IdleStep(w)
  PROVE  Idles(w) /\ RightsSame
<1> USE DEF TypeOK, Store, Push, Replace, ClearRegs, RunJob, LeaveLoop, Quiet,
            vars, memVars, regVars, fjVars, deqVars
<1>1. ASSUME Lock(w) PROVE Idles(w) /\ RightsSame
  BY <1>1 DEF Lock, Idles, RightsSame
<1>2. ASSUME ReturnLeft(w) PROVE Idles(w) /\ RightsSame
  BY <1>2 DEF ReturnLeft, Idles, RightsSame
<1>3. ASSUME ReturnRight(w) PROVE Idles(w) /\ RightsSame
  <2>1. right[Top(w).p] = "running"
    <3>1. Top(w) = stack[w][Len(stack[w])] /\ Len(stack[w]) \in DOMAIN stack[w]
      BY TopIs
    <3>2. FrameTells(w, Len(stack[w]))
      BY <3>1 DEF FramesInv
    <3> QED
      BY <1>3, <3>1, <3>2 DEF FrameTells, ReturnRight
  <2> QED
    BY <1>3, <2>1 DEF ReturnRight, Idles, RightsSame
<1>4. ASSUME Spin(w) PROVE Idles(w) /\ RightsSame
  BY <1>4 DEF Spin, Idles, RightsSame
<1>5. ASSUME GetJob(w) \/ StealCheck(w) PROVE Idles(w) /\ RightsSame
  BY <1>5 DEF GetJob, StealCheck, Idles, RightsSame
<1>6. ASSUME JobPopped(w) PROVE Idles(w) /\ RightsSame
  <2>1. job[w] = NoPardo
    BY <1>6, WaitsEmpty DEF JobPopped
  <2> QED
    BY <1>6, <2>1 DEF JobPopped, Idles, RightsSame
<1>7. ASSUME StealAge(w) \/ StealBot(w) \/ StealJob(w) PROVE Idles(w) /\ RightsSame
  BY <1>7 DEF StealAge, StealBot, StealJob, Idles, RightsSame
<1>8. ASSUME StealCas(w), age[victim[w]] # old[w] PROVE Idles(w) /\ RightsSame
  BY <1>8 DEF StealCas, Idles, RightsSame
<1>9. ASSUME Destroy(w) \/ JoinThreads(w) PROVE Idles(w) /\ RightsSame
  BY <1>9 DEF Destroy, JoinThreads, Idles, RightsSame, Enter
<1> QED
  BY <1>1, <1>2, <1>3, <1>4, <1>5, <1>6, <1>7, <1>8, <1>9 DEF IdleStep

\* Their worker's deque stays right.
LEMMA IdleDeque ==
  ASSUME TypeOK, NEW w \in Workers, Control(w), DequeInv(w), FramesInv, IdleStep(w)
  PROVE  DequeInv(w)' /\ KeepsAt(w)
<1>1. Idles(w) /\ RightsSame
  BY IdleSteps
<1>2. QuietOK(pc[w], stack[w], job[w], age[w], bot[w], deq[w], right)
  BY <1>1, QuietHere DEF Idles
<1>3. bot[w] \in 0..QSize /\ age[w] \in Age /\ w \in Deques
  BY TypesOf
<1>4. \A i \in 1..Len(stack[w]) : stack[w][i].at = "left" => (right'[stack[w][i].p] = "idle" <=> right[stack[w][i].p] = "idle")
  <2>1. \A i \in DOMAIN stack[w] : stack[w][i].at = "left" => stack[w][i].p \in Pardos
    BY PardosAt
  <2>2. DOMAIN stack[w] = 1..Len(stack[w])
    BY TopIs
  <2> QED
    BY <1>1, <2>1, <2>2 DEF RightsSame
<1>5. QuietOK(pc'[w], stack[w], job'[w], age[w], bot[w], deq[w], right')
  BY <1>1, <1>2, <1>3, <1>4, QuietStep DEF Idles
<1>6. MemSame(w) /\ Quiet(pc[w]) /\ Quiet(pc'[w]) /\ stack'[w] = stack[w]
  BY <1>1 DEF Idles, MemSame
<1>7. buf'[w] = buf[w] \/ \E s \in Stores : s.loc \notin Fields /\ buf'[w] = Enter(buf[w], s)
  BY <1>1, StoresAre DEF Idles, Fields
<1> QED
  BY <1>5, <1>6, <1>7, QuietMoves

\* The call of a pardo: p is the next one of the running thunk.
Called(w) == Head(Top(w).rest)
\* What a call of pardo does: spawn, and a frame for left() on top.
LEMMA PardoIs ==
  ASSUME TypeOK, NEW w \in Workers, Control(w), DequeInv(w), Pardo(w)
  PROVE  LET p == Called(w)
             n == Len(stack[w])
             m == bot[w]
         IN
         /\ p \in Pardos /\ pc[w] = "run" /\ job[w] = NoPardo /\ Top(w).at \in ThunkAt
         /\ Top(w).rest \in Seq(Pardos) /\ Top(w).rest # <<>>
         /\ stack'[w] \in Seq(Frame_) /\ Len(stack'[w]) = n + 1
         /\ \A i \in 1..(n - 1) : stack'[w][i] = stack[w][i]
         /\ stack'[w][n] = AfterCall(Top(w))
         /\ stack'[w][n + 1] = Frame("left", p, prog.left[p])
         /\ pc'[w] = PushedAt(m)
         /\ buf'[w] = PushedBy(buf[w], m, p)
         /\ left' = [left EXCEPT ![p] = "running"]
         /\ lb' = lb /\ old' = old /\ job' = job /\ victim' = victim /\ mutex' = mutex
         /\ prog' = prog /\ right' = right /\ joined' = joined
         /\ age' = age /\ bot' = bot /\ deq' = deq /\ right_done' = right_done /\ finished_flag' = finished_flag
<1> DEFINE p == Called(w)
           n == Len(stack[w])
           m == bot[w]
           g == AfterCall(Top(w))
           f == Frame("left", p, prog.left[p])
<1>1. /\ stack[w] \in Seq(Frame_) /\ stack[w] # <<>> /\ n \in Nat \ {0} /\ Top(w) = stack[w][n] /\ Top(w) \in Frame_
      /\ Top(w).at \in ThunkAt /\ job[w] = NoPardo /\ pc[w] = "run"
  BY TopIs, TopAt DEF Pardo
<1>2. Top(w).rest \in Seq(Pardos) /\ Top(w).rest # <<>> /\ Tail(Top(w).rest) \in Seq(Pardos)
      /\ p \in Pardos
  <2>1. Top(w).rest \in Seq(Pardos) /\ Top(w).rest # <<>>
    BY <1>1 DEF Frame_, Pardo
  <2> QED
    BY <2>1, HeadTailProperties DEF Called
<1>3. g \in Frame_ /\ f \in Frame_
  <2>1. prog.left \in [Pardos -> Seq(Pardos)]
    BY ProgramAssumption DEF TypeOK, FJ!FJTypeOK
  <2> QED
    BY <1>1, <1>2, <2>1 DEF Frame_, Frame, Frames, AfterCall
<1>4. LoadBot(w, w) = m
  BY <1>1, QuietHere DEF Quiet
<1>5. /\ stack' = [stack EXCEPT ![w] = Append(Append(Front(stack[w]), AfterCall(Last(stack[w]))), f)]
      /\ buf' = [buf EXCEPT ![w] = buf[w] \o (<<SlotStore(m, p)>> \o IF m + 1 = QSize THEN <<>> ELSE <<BotStore(m + 1)>>)]
      /\ left' = [left EXCEPT ![p] = "running"]
      /\ pc' = [pc EXCEPT ![w] = IF m + 1 = QSize THEN "aborted" ELSE "pushed"]
      /\ UNCHANGED <<memVars, regVars, mutex, prog, right, joined>>
  BY <1>4 DEF Pardo, Store, Called
<1> HIDE DEF p, n, m, g, f
<1>6. stack'[w] = Append(Append(Front(stack[w]), g), f)
  <2>1. Last(stack[w]) = Top(w)
    BY DEF Top
  <2> QED
    BY <1>5, <2>1 DEF TypeOK, g
<1>7. /\ Append(Front(stack[w]), g) \in Seq(Frame_) /\ Len(Append(Front(stack[w]), g)) = n
      /\ Append(Front(stack[w]), g)[n] = g
      /\ \A i \in 1..(n - 1) : Append(Front(stack[w]), g)[i] = stack[w][i]
  BY <1>1, <1>3, Replaced DEF n
<1>8. /\ stack'[w] \in Seq(Frame_) /\ Len(stack'[w]) = n + 1
      /\ stack'[w][n + 1] = f /\ \A i \in 1..n : stack'[w][i] = Append(Front(stack[w]), g)[i]
  BY <1>3, <1>6, <1>7, Pushed
<1>9. stack'[w][n] = g /\ \A i \in 1..(n - 1) : stack'[w][i] = stack[w][i]
  <2>1. n \in 1..n /\ \A i \in 1..(n - 1) : i \in 1..n
    BY <1>1
  <2> QED
    BY <1>7, <1>8, <2>1
<1>10. buf'[w] = PushedBy(buf[w], m, p)
  <2> DEFINE s == SlotStore(m, p)
             t == BotStore(m + 1)
  <2>1. buf'[w] = buf[w] \o (<<s>> \o IF m + 1 = QSize THEN <<>> ELSE <<t>>)
    BY <1>5 DEF TypeOK
  <2>2. buf[w] \in Seq(Stores)
    BY TypesOf
  <2> HIDE DEF s, t
  <2>3. <<s>> \o <<>> = <<s>>
    OBVIOUS
  <2>4. buf[w] \o (<<s>> \o <<t>>) = (buf[w] \o <<s>>) \o <<t>>
    BY <2>2
  <2> QED
    BY <2>1, <2>3, <2>4 DEF Enter, PushedBy, s, t
<1>11. /\ left' = [left EXCEPT ![p] = "running"]
       /\ lb' = lb /\ old' = old /\ job' = job /\ victim' = victim /\ mutex' = mutex
       /\ prog' = prog /\ right' = right /\ joined' = joined
       /\ age' = age /\ bot' = bot /\ deq' = deq /\ right_done' = right_done /\ finished_flag' = finished_flag
  BY <1>5 DEF memVars, deqVars, regVars
<1>12. pc'[w] = PushedAt(m)
  BY <1>5 DEF TypeOK, PushedAt
<1> QED
  BY <1>1, <1>2, <1>8, <1>9, <1>10, <1>11, <1>12 DEF p, n, m, g, f

\* A call that nobody made yet.
LEMMA CalledIsNew ==
  ASSUME IInv, NEW w \in Workers, Pardo(w)
  PROVE  left[Called(w)] = "idle" /\ right[Called(w)] = "idle"
<1>1. TypeOK /\ Control(w) /\ DequeInv(w) /\ FramesInv /\ CallsInv
  BY At1
<1>2. /\ Called(w) \in Pardos /\ Top(w).at \in ThunkAt /\ Top(w).rest \in Seq(Pardos) /\ Top(w).rest # <<>>
  BY <1>1, PardoIs
<1>3. Top(w) = stack[w][Len(stack[w])] /\ Len(stack[w]) \in DOMAIN stack[w]
  BY <1>1, TopIs
<1>4. CallsMade(w, Len(stack[w]))
  BY <1>1, <1>2, <1>3 DEF CallsInv
<1>5. 1 \in 1..Len(Top(w).rest) /\ Called(w) = Top(w).rest[1]
  BY <1>2, EmptySeq, HeadTailProperties DEF Called
<1>6. left[Called(w)] = "idle"
  BY <1>3, <1>4, <1>5 DEF CallsMade
<1> QED
  BY <1>1, <1>2, <1>6 DEF FramesInv, LeftFirst

\* A call of pardo keeps its worker's deque right.
LEMMA PardoOwn ==
  ASSUME IInv, NEW w \in Workers, Pardo(w)
  PROVE  DequeInv(w)' /\ KeepsAt(w)
<1>1. TypeOK /\ Control(w) /\ DequeInv(w)
  BY At1
<1> DEFINE p == Called(w)
           n == Len(stack[w])
           m == bot[w]
<1>2. /\ p \in Pardos /\ pc[w] = "run" /\ job[w] = NoPardo
      /\ Len(stack'[w]) = n + 1
      /\ \A i \in 1..(n - 1) : stack'[w][i] = stack[w][i]
      /\ stack'[w][n] = AfterCall(Top(w))
      /\ stack'[w][n + 1] = Frame("left", p, prog.left[p])
      /\ pc'[w] = PushedAt(m)
      /\ buf'[w] = PushedBy(buf[w], m, p)
      /\ lb' = lb /\ old' = old /\ job' = job /\ right' = right
      /\ age' = age /\ bot' = bot /\ deq' = deq
  BY <1>1, PardoIs
<1>3. right[p] = "idle"
  BY CalledIsNew
<1>4. /\ n \in Nat \ {0} /\ Top(w) = stack[w][n] /\ Top(w) \in Frame_
  BY <1>1, TopIs
<1> HIDE DEF p, n
<1>5. \A i \in 1..n : stack'[w][i].at = stack[w][i].at /\ stack'[w][i].p = stack[w][i].p
  <2>1. stack'[w][n].at = stack[w][n].at /\ stack'[w][n].p = stack[w][n].p
    BY <1>2, <1>4 DEF Frame_, AfterCall
  <2>2. \A i \in 1..n : i = n \/ i \in 1..(n - 1)
    BY <1>4
  <2> QED
    BY <1>2, <2>1, <2>2
<1>6. stack'[w][Len(stack'[w])].at = "left" /\ stack'[w][Len(stack'[w])].p = p
  BY <1>2 DEF Frame
<1>7. BufferOK("run", buf[w], age[w])
      /\ DequeOK("run", stack[w], buf[w], lb[w], old[w], NoPardo, age[w], m, deq[w], right)
  BY <1>1, <1>2 DEF DequeInv
<1>8. buf[w] \in Seq(Stores) /\ age[w] \in Age /\ m \in 0..QSize /\ deq[w] \in [0..(QSize - 1) -> Pardos \cup {NoPardo}]
  BY <1>1, TypesOf
<1>9. CallsOn(stack[w], stack'[w], p)
  BY <1>2, <1>4, <1>5, <1>6 DEF CallsOn, n
<1>10. /\ BufferOK(PushedAt(m), PushedBy(buf[w], m, p), age[w])
       /\ DequeOK(PushedAt(m), stack'[w], PushedBy(buf[w], m, p), lb[w], old[w], NoPardo, age[w], m, deq[w], right)
       /\ Keeps("run", buf[w], lb[w], age[w], m, PushedAt(m), PushedBy(buf[w], m, p), lb[w], age[w], m)
  <2> HIDE DEF m
  <2>1. p \in Pardos
    BY <1>2
  <2> QED
    BY <1>3, <1>7, <1>8, <1>9, <2>1, PushDeque
<1> QED
  BY <1>2, <1>10 DEF DequeInv, KeepsAt

\* The fences of push_bottom and pop_bottom.
LEMMA FenceOwn ==
  ASSUME TypeOK, NEW w \in Workers, Control(w), DequeInv(w), CallLeft(w) \/ PopFence(w)
  PROVE  DequeInv(w)' /\ KeepsAt(w)
<1>1. /\ buf[w] = <<>> /\ buf'[w] = <<>> /\ stack'[w] = stack[w] /\ job'[w] = job[w] /\ right' = right
      /\ MemSame(w)
  BY DEF CallLeft, PopFence, Fenced, MemSame, memVars, regVars, fjVars, deqVars
<1>2. \/ pc[w] = "pushed" /\ pc'[w] \in {"lock", "run"} /\ job[w] = NoPardo
      \/ pc[w] = "pop_fence" /\ pc'[w] = "popped"
  <2>1. pc[w] = "pushed" => job[w] = NoPardo
    BY TopAt
  <2> QED
    BY <2>1 DEF CallLeft, PopFence, Begin, TypeOK
<1>3. DequeOK(pc[w], stack[w], <<>>, lb[w], old[w], job[w], age[w], bot[w], deq[w], right)
  BY <1>1 DEF DequeInv
<1>4. age[w] \in Age /\ bot[w] \in 0..QSize
  BY TypesOf
<1>5. QuietOK(pc'[w], stack[w], job[w], age[w], bot[w], deq[w], right) /\ MemIn(pc[w], <<>>, lb[w], bot[w]) = bot[w]
  <2>1. CASE pc[w] = "pushed" /\ pc'[w] \in {"lock", "run"} /\ job[w] = NoPardo
    <3>1. Quiet(pc'[w]) /\ pc'[w] # "popped"
      BY <2>1 DEF Quiet
    <3>2. DequeOK("pushed", stack[w], <<>>, lb[w], old[w], job[w], age[w], bot[w], deq[w], right)
      BY <1>3, <2>1
    <3>3. QuietOK(pc'[w], stack[w], NoPardo, age[w], bot[w], deq[w], right) /\ MemIn("pushed", <<>>, lb[w], bot[w]) = bot[w]
      BY <1>4, <3>1, <3>2, PushedDeque
    <3> QED
      BY <2>1, <3>3
  <2>2. CASE pc[w] = "pop_fence" /\ pc'[w] = "popped"
    <3>1. DequeOK("pop_fence", stack[w], <<>>, lb[w], old[w], job[w], age[w], bot[w], deq[w], right)
      BY <1>3, <2>2
    <3>2. /\ QuietOK("popped", stack[w], job[w], age[w], bot[w], deq[w], right) /\ bot[w] = 0
          /\ MemIn("pop_fence", <<>>, lb[w], bot[w]) = 0
      BY <1>4, <3>1, FenceDeque
    <3> QED
      BY <2>2, <3>2
  <2> QED
    BY <1>2, <2>1, <2>2
<1>6. Quiet(pc'[w])
  BY <1>2 DEF Quiet
<1> QED
  BY <1>1, <1>5, <1>6, QuietMoves

\* pardo goes on after its pop.
LEMMA AfterPopIs ==
  ASSUME TypeOK, NEW w \in Workers, Control(w), AfterPop(w)
  PROVE  LET p == Top(w).p
             n == Len(stack[w])
         IN
         /\ p \in Pardos /\ pc[w] = "popped" /\ Top(w).at = "left"
         /\ \/ /\ job[w] # NoPardo /\ pc'[w] \in {"lock", "run"}
               /\ stack'[w][n] = Frame("right", p, prog.right[p])
               /\ right' = [right EXCEPT ![p] = "running"]
            \/ /\ job[w] = NoPardo /\ pc'[w] \in {"spin", "get_job"}
               /\ stack'[w][n] = Frame("wait", p, <<>>)
               /\ right' = right
         /\ stack'[w] \in Seq(Frame_) /\ Len(stack'[w]) = n
         /\ \A i \in 1..(n - 1) : stack'[w][i] = stack[w][i]
         /\ job'[w] = NoPardo /\ lb'[w] = 0 /\ old'[w] = NoAge /\ victim'[w] = 0
         /\ buf' = buf /\ mutex' = mutex /\ prog' = prog /\ left' = left /\ joined' = joined
         /\ age' = age /\ bot' = bot /\ deq' = deq /\ right_done' = right_done /\ finished_flag' = finished_flag
<1> DEFINE p == Top(w).p
           n == Len(stack[w])
<1>1. /\ stack[w] \in Seq(Frame_) /\ stack[w] # <<>> /\ n \in Nat \ {0} /\ Top(w) = stack[w][n]
      /\ n \in DOMAIN stack[w]
  BY TopIs
<1>2. p \in Pardos
  BY <1>1, PardosAt DEF AfterPop
<1>3. /\ job'[w] = NoPardo /\ lb'[w] = 0 /\ old'[w] = NoAge /\ victim'[w] = 0
  BY DEF AfterPop, ClearRegs, TypeOK
<1>4. /\ buf' = buf /\ mutex' = mutex /\ prog' = prog /\ left' = left /\ joined' = joined
      /\ age' = age /\ bot' = bot /\ deq' = deq /\ right_done' = right_done /\ finished_flag' = finished_flag
      /\ pc[w] = "popped" /\ Top(w).at = "left"
  BY DEF AfterPop, memVars, deqVars
<1>5. /\ Frame("right", p, prog.right[p]) \in Frame_ /\ Frame("wait", p, <<>>) \in Frame_
  <2>1. prog.right \in [Pardos -> Seq(Pardos)]
    BY ProgramAssumption DEF TypeOK, FJ!FJTypeOK
  <2> QED
    BY <1>2, <2>1 DEF Frame_, Frame, Frames
<1> HIDE DEF p
<1>6. \E f \in Frame_ :
        /\ stack'[w] = Append(Front(stack[w]), f)
        /\ \/ /\ job[w] # NoPardo /\ pc'[w] \in {"lock", "run"}
              /\ f = Frame("right", p, prog.right[p])
              /\ right' = [right EXCEPT ![p] = "running"]
           \/ /\ job[w] = NoPardo /\ pc'[w] \in {"spin", "get_job"}
              /\ f = Frame("wait", p, <<>>)
              /\ right' = right
  <2>1. CASE job[w] # NoPardo
    <3>1. stack'[w] = Append(Front(stack[w]), Frame("right", p, prog.right[p])) /\ pc'[w] \in {"lock", "run"}
          /\ right' = [right EXCEPT ![p] = "running"]
      BY <2>1 DEF AfterPop, Replace, Begin, TypeOK, p
    <3> QED
      BY <1>5, <2>1, <3>1
  <2>2. CASE job[w] = NoPardo
    <3>1. stack'[w] = Append(Front(stack[w]), Frame("wait", p, <<>>)) /\ pc'[w] \in {"spin", "get_job"} /\ right' = right
      BY <2>2 DEF AfterPop, Replace, TypeOK, p
    <3> QED
      BY <1>5, <2>2, <3>1
  <2> QED
    BY <2>1, <2>2
<1>7. PICK f \in Frame_ :
        /\ stack'[w] = Append(Front(stack[w]), f)
        /\ \/ /\ job[w] # NoPardo /\ pc'[w] \in {"lock", "run"}
              /\ f = Frame("right", p, prog.right[p])
              /\ right' = [right EXCEPT ![p] = "running"]
           \/ /\ job[w] = NoPardo /\ pc'[w] \in {"spin", "get_job"}
              /\ f = Frame("wait", p, <<>>)
              /\ right' = right
  BY <1>6
<1>8. /\ stack'[w] \in Seq(Frame_) /\ Len(stack'[w]) = n /\ stack'[w][n] = f
      /\ \A i \in 1..(n - 1) : stack'[w][i] = stack[w][i]
  BY <1>1, <1>7, Replaced
<1> QED
  BY <1>2, <1>3, <1>4, <1>7, <1>8 DEF p

\* So does what pardo does with the result of try_pop.
LEMMA AfterPopOwn ==
  ASSUME IInv, NEW w \in Workers, AfterPop(w)
  PROVE  DequeInv(w)' /\ KeepsAt(w)
<1>1. TypeOK /\ Control(w) /\ DequeInv(w) /\ FramesInv
  BY At1
<1> DEFINE p == Top(w).p
           n == Len(stack[w])
<1>2. /\ p \in Pardos /\ pc[w] = "popped" /\ Top(w).at = "left"
      /\ \/ /\ job[w] # NoPardo /\ pc'[w] \in {"lock", "run"}
            /\ stack'[w][n] = Frame("right", p, prog.right[p])
            /\ right' = [right EXCEPT ![p] = "running"]
         \/ /\ job[w] = NoPardo /\ pc'[w] \in {"spin", "get_job"}
            /\ stack'[w][n] = Frame("wait", p, <<>>)
            /\ right' = right
      /\ stack'[w] \in Seq(Frame_) /\ Len(stack'[w]) = n
      /\ \A i \in 1..(n - 1) : stack'[w][i] = stack[w][i]
      /\ job'[w] = NoPardo /\ buf' = buf /\ age' = age /\ bot' = bot /\ deq' = deq
  BY <1>1, AfterPopIs
<1>3. /\ n \in Nat \ {0} /\ Top(w) = stack[w][n] /\ DOMAIN stack[w] = 1..n
  BY <1>1, TopIs
<1>4. QuietOK("popped", stack[w], job[w], age[w], bot[w], deq[w], right)
  BY <1>1, <1>2, QuietHere DEF Quiet
<1>5. bot[w] \in 0..QSize
  BY <1>1, TypesOf
<1>6. MemSame(w) /\ Quiet(pc[w]) /\ Quiet(pc'[w]) /\ pc'[w] # "popped" /\ buf'[w] = buf[w]
  BY <1>2 DEF MemSame, Quiet
<1>7. QuietOK(pc'[w], stack'[w], NoPardo, age[w], bot[w], deq[w], right')
  <2>1. CASE job[w] # NoPardo
    <3>1. stack'[w][n].at = "right" /\ right' = [right EXCEPT ![p] = "running"]
      BY <1>2, <2>1 DEF Frame
    <3>2. \A i \in 1..(n - 1) : stack[w][i].at = "left" => stack[w][i].p # p
      <4>1. ASSUME NEW i \in 1..(n - 1), stack[w][i].at = "left", stack[w][i].p = p PROVE FALSE
        <5>1. i \in DOMAIN stack[w] /\ n \in DOMAIN stack[w] /\ i # n /\ p # NoPardo
          BY <1>2, <1>3, SchedulerAssumption
        <5> QED
          BY <1>1, <1>2, <1>3, <4>1, <5>1 DEF FramesInv, OneFrame, OwnerAt
      <4> QED
        BY <4>1
    <3>3. \A i \in 1..(n - 1) : stack[w][i].at = "left" => (right'[stack[w][i].p] = "idle" <=> right[stack[w][i].p] = "idle")
      <4>1. right \in [Pardos -> {"idle", "running", "done"}]
        BY <1>1 DEF TypeOK, FJ!FJTypeOK, FJ!ThunkState
      <4>2. \A i \in DOMAIN stack[w] : stack[w][i].at = "left" => stack[w][i].p \in Pardos
        BY <1>1, PardosAt
      <4>3. \A i \in 1..(n - 1) : i \in DOMAIN stack[w]
        BY <1>3
      <4> QED
        BY <3>1, <3>2, <4>1, <4>2, <4>3
    <3>4. \A i \in 1..(n - 1) : stack'[w][i].at = stack[w][i].at /\ stack'[w][i].p = stack[w][i].p
      BY <1>2
    <3>5. /\ pc'[w] # "popped" /\ bot[w] \in 0..QSize /\ job[w] # NoPardo /\ Len(stack[w]) \in Nat \ {0}
          /\ Len(stack'[w]) = Len(stack[w]) /\ stack'[w][Len(stack[w])].at = "right"
      BY <1>2, <1>3, <1>5, <1>6, <2>1, <3>1
    <3> HIDE DEF p
    <3> QED
      BY <1>4, <3>3, <3>4, <3>5, TakesBack, SMTT(30)
  <2>2. CASE job[w] = NoPardo
    <3>1. stack'[w][n].at = "wait" /\ right' = right
      BY <1>2, <2>2 DEF Frame
    <3>2. \A i \in 1..Len(stack'[w]) : stack'[w][i].at = "left" =>
            i \in 1..Len(stack[w]) /\ stack[w][i].at = "left" /\ stack'[w][i].p = stack[w][i].p
      <4>1. \A i \in 1..n : i = n \/ i \in 1..(n - 1)
        BY <1>3
      <4> QED
        BY <1>2, <3>1, <4>1
    <3>3. \A i \in 1..Len(stack[w]) : stack[w][i].at = "left" => (right'[stack[w][i].p] = "idle" => right[stack[w][i].p] = "idle")
      BY <3>1
    <3> HIDE DEF p
    <3> QED
      BY <1>3, <1>4, <1>5, <1>6, <2>2, <3>2, <3>3, NoneLeft
  <2> QED
    BY <2>1, <2>2
<1> QED
  BY <1>1, <1>2, <1>6, <1>7, QuietMoves

\* A frame is gone: the job's or pardo's.
LEMMA ReturnIs ==
  ASSUME TypeOK, NEW w \in Workers, Control(w), ReturnJob(w) \/ ReturnPardo(w)
  PROVE  LET p == Top(w).p
             n == Len(stack[w])
         IN
         /\ p \in Pardos /\ n - 1 \in Nat \ {0} /\ n - 1 \in DOMAIN stack[w]
         /\ stack'[w] \in Seq(Frame_) /\ Len(stack'[w]) = n - 1
         /\ \A i \in 1..(n - 1) : stack'[w][i] = stack[w][i]
         /\ job' = job /\ lb' = lb /\ old' = old /\ victim' = victim /\ prog' = prog /\ left' = left
         /\ age' = age /\ bot' = bot /\ deq' = deq /\ right_done' = right_done /\ finished_flag' = finished_flag
         /\ job[w] = NoPardo
         /\ \/ /\ pc[w] = "run" /\ Top(w).at = "job" /\ pc'[w] = "get_job" /\ right' = [right EXCEPT ![p] = "done"]
               /\ buf'[w] = Enter(buf[w], DoneStore(p)) /\ joined' = joined /\ Top(w).rest = <<>>
            \/ /\ pc[w] = "return" /\ Top(w).at \in {"right", "wait"} /\ pc'[w] = "run" /\ right' = right
               /\ buf'[w] = buf[w] /\ joined' = joined \cup {p}
<1> DEFINE p == Top(w).p
           n == Len(stack[w])
<1>1. /\ stack[w] \in Seq(Frame_) /\ stack[w] # <<>> /\ n \in Nat \ {0} /\ Top(w) = stack[w][n]
      /\ n \in DOMAIN stack[w] /\ DOMAIN stack[w] = 1..n
  BY TopIs
<1>2. p \in Pardos
  BY <1>1, PardosAt DEF ReturnJob, ReturnPardo
<1>3. n # 1
  BY <1>2, PardosAt, SchedulerAssumption
<1>4. /\ job' = job /\ lb' = lb /\ old' = old /\ victim' = victim /\ prog' = prog /\ left' = left
      /\ age' = age /\ bot' = bot /\ deq' = deq /\ right_done' = right_done /\ finished_flag' = finished_flag
      /\ stack'[w] = Front(stack[w])
  BY DEF ReturnJob, ReturnPardo, memVars, deqVars, regVars, TypeOK
<1>5. job[w] = NoPardo /\ (pc[w] = "return" => Top(w).at \in {"right", "wait"})
  BY TopAt DEF ReturnJob, ReturnPardo
<1> HIDE DEF p
<1>6. \/ /\ pc[w] = "run" /\ Top(w).at = "job" /\ pc'[w] = "get_job" /\ right' = [right EXCEPT ![p] = "done"]
         /\ buf'[w] = Enter(buf[w], DoneStore(p)) /\ joined' = joined /\ Top(w).rest = <<>>
      \/ /\ pc[w] = "return" /\ Top(w).at \in {"right", "wait"} /\ pc'[w] = "run" /\ right' = right
         /\ buf'[w] = buf[w] /\ joined' = joined \cup {p}
  <2>1. CASE ReturnJob(w)
    BY <2>1 DEF ReturnJob, Store, Enter, TypeOK, p
  <2>2. CASE ReturnPardo(w)
    BY <1>5, <2>2 DEF ReturnPardo, TypeOK, p
  <2> QED
    BY <2>1, <2>2
<1>7. /\ stack'[w] \in Seq(Frame_) /\ Len(stack'[w]) = n - 1 /\ \A i \in 1..(n - 1) : stack'[w][i] = stack[w][i]
  BY <1>1, <1>4, Popped
<1>8. n - 1 \in Nat \ {0} /\ n - 1 \in DOMAIN stack[w]
  <2>1. \A k \in Nat \ {0} : k # 1 => k - 1 \in Nat \ {0} /\ k - 1 \in 1..k
    OBVIOUS
  <2> HIDE DEF n
  <2> QED
    BY <1>1, <1>3, <2>1
<1> QED
  BY <1>2, <1>4, <1>5, <1>6, <1>7, <1>8 DEF p

\* The job that returns was running.
LEMMA ReturnRights ==
  ASSUME IInv, NEW w \in Workers, ReturnJob(w) \/ ReturnPardo(w)
  PROVE  RightsSame
<1>1. TypeOK /\ Control(w) /\ FramesInv
  BY At1
<1>2. /\ Top(w).p \in Pardos
      /\ \/ Top(w).at = "job" /\ right' = [right EXCEPT ![Top(w).p] = "done"]
         \/ right' = right
  BY <1>1, ReturnIs
<1>3. Top(w) = stack[w][Len(stack[w])] /\ Len(stack[w]) \in DOMAIN stack[w]
  BY <1>1, TopIs
<1>4. FrameTells(w, Len(stack[w]))
  BY <1>1, <1>3 DEF FramesInv
<1>5. Top(w).at = "job" => right[Top(w).p] = "running"
  BY <1>3, <1>4 DEF FrameTells
<1> QED
  BY <1>1, <1>2, <1>5 DEF RightsSame, TypeOK, FJ!FJTypeOK

\* So does the return of a job, or of pardo.
LEMMA ReturnOwn ==
  ASSUME IInv, NEW w \in Workers, ReturnJob(w) \/ ReturnPardo(w)
  PROVE  DequeInv(w)' /\ KeepsAt(w)
<1>1. TypeOK /\ Control(w) /\ DequeInv(w) /\ RightsSame
  BY At1, ReturnRights
<1> DEFINE p == Top(w).p
           n == Len(stack[w])
<1>2. /\ p \in Pardos /\ n - 1 \in Nat \ {0}
      /\ stack'[w] \in Seq(Frame_) /\ Len(stack'[w]) = n - 1
      /\ \A i \in 1..(n - 1) : stack'[w][i] = stack[w][i]
      /\ job' = job /\ age' = age /\ bot' = bot /\ deq' = deq /\ job[w] = NoPardo
      /\ pc[w] \in {"run", "return"} /\ Top(w).at # "left" /\ pc'[w] \in {"get_job", "run"}
      /\ buf'[w] = buf[w] \/ buf'[w] = Enter(buf[w], DoneStore(p))
  BY <1>1, ReturnIs
<1>3. /\ n \in Nat \ {0} /\ Top(w) = stack[w][n] /\ DOMAIN stack[w] = 1..n
  BY <1>1, TopIs
<1>4. MemSame(w) /\ Quiet(pc[w]) /\ Quiet(pc'[w]) /\ pc'[w] # "popped" /\ pc[w] # "popped"
  BY <1>2 DEF MemSame, Quiet
<1>5. QuietOK(pc[w], stack[w], job[w], age[w], bot[w], deq[w], right)
  BY <1>1, <1>4, QuietHere
<1>6. bot[w] \in 0..QSize
  BY <1>1, TypesOf
<1>7. \A i \in 1..(n - 1) : stack[w][i].at = "left" => (right'[stack[w][i].p] = "idle" <=> right[stack[w][i].p] = "idle")
  <2>1. \A i \in DOMAIN stack[w] : stack[w][i].at = "left" => stack[w][i].p \in Pardos
    BY <1>1, PardosAt
  <2>2. \A i \in 1..(n - 1) : i \in DOMAIN stack[w]
    BY <1>3
  <2> QED
    BY <1>1, <2>1, <2>2 DEF RightsSame
<1>8. \A i \in 1..(n - 1) : stack'[w][i].at = stack[w][i].at /\ stack'[w][i].p = stack[w][i].p
  BY <1>2
<1>9. Returns(stack[w], stack'[w], right, right')
  BY <1>2, <1>3, <1>7, <1>8 DEF Returns
<1>10. QuietOK(pc'[w], stack'[w], job'[w], age[w], bot[w], deq[w], right')
  BY <1>4, <1>5, <1>6, <1>9, ReturnDeque
<1>11. buf'[w] = buf[w] \/ \E s \in Stores : s.loc \notin Fields /\ buf'[w] = Enter(buf[w], s)
  BY <1>2, StoresAre DEF Fields
<1> QED
  BY <1>1, <1>4, <1>10, <1>11, QuietMoves

\* pop_bottom begins.
LEMMA PopBeginOwn ==
  ASSUME TypeOK, NEW w \in Workers, Control(w), DequeInv(w), PopBegin(w)
  PROVE  /\ DequeInv(w)' /\ KeepsAt(w) /\ lb'[w] \in 0..QSize
         /\ pc[w] = "pop" /\ pc'[w] \in {"popped", "pop_load"} /\ (pc'[w] = "pop_load" => Top(w).at = "left")
         /\ buf'[w] = buf[w] \/ \E x \in 0..QSize : buf'[w] = Enter(buf[w], BotStore(x))
<1>1. /\ pc[w] = "pop" /\ job[w] = NoPardo /\ Quiet("pop") /\ Quiet("popped")
  BY TopAt DEF PopBegin, Quiet
<1>2. QuietOK("pop", stack[w], NoPardo, age[w], bot[w], deq[w], right) /\ LoadBot(w, w) = bot[w]
  BY <1>1, QuietHere
<1>3. bot[w] \in 0..QSize /\ age[w] \in Age /\ buf[w] \in Seq(Stores)
  BY TypesOf
<1>4. /\ stack' = stack /\ old' = old /\ job' = job /\ right' = right /\ MemSame(w)
      /\ \/ bot[w] = 0 /\ pc'[w] = "popped" /\ buf' = buf /\ lb' = lb
         \/ bot[w] # 0 /\ pc'[w] = "pop_load" /\ lb'[w] = bot[w] - 1 /\ buf'[w] = Enter(buf[w], BotStore(bot[w] - 1))
  <2>1. pc \in [Workers -> Labels] /\ lb \in [Workers -> 0..QSize] /\ buf \in [Workers -> Seq(Stores)]
    BY DEF TypeOK
  <2>2. stack' = stack /\ old' = old /\ job' = job /\ right' = right /\ MemSame(w)
    BY DEF PopBegin, MemSame, memVars, deqVars, fjVars
  <2>3. CASE bot[w] = 0
    <3>1. pc' = [pc EXCEPT ![w] = "popped"] /\ buf' = buf /\ lb' = lb
      BY <1>2, <2>3 DEF PopBegin, Goto
    <3> QED
      BY <2>1, <2>2, <2>3, <3>1
  <2>4. CASE bot[w] # 0
    <3>1. /\ pc' = [pc EXCEPT ![w] = "pop_load"] /\ lb' = [lb EXCEPT ![w] = bot[w] - 1]
          /\ buf' = [buf EXCEPT ![w] = @ \o <<BotStore(bot[w] - 1)>>]
      BY <1>2, <2>4 DEF PopBegin, Goto, Store
    <3> QED
      BY <2>1, <2>2, <2>4, <3>1 DEF Enter
  <2> QED
    BY <2>3, <2>4
<1>5. CASE bot[w] = 0 /\ pc'[w] = "popped" /\ buf' = buf /\ lb' = lb
  <2>1. QuietOK("popped", stack[w], NoPardo, age[w], bot[w], deq[w], right)
    BY <1>2, <1>5 DEF QuietOK
  <2>2. DequeInv(w)' /\ KeepsAt(w)
    BY <1>1, <1>4, <1>5, <2>1, QuietMoves
  <2>3. lb'[w] \in 0..QSize
    BY <1>5, TypesOf
  <2> QED
    BY <1>1, <1>5, <2>2, <2>3
<1>6. CASE bot[w] # 0 /\ pc'[w] = "pop_load" /\ lb'[w] = bot[w] - 1 /\ buf'[w] = Enter(buf[w], BotStore(bot[w] - 1))
  <2>1. BufferOK("pop", buf[w], age[w])
        /\ DequeOK("pop", stack[w], buf[w], lb[w], old[w], NoPardo, age[w], bot[w], deq[w], right)
    BY <1>1 DEF DequeInv
  <2>2. /\ BufferOK("pop_load", buf'[w], age[w])
        /\ DequeOK("pop_load", stack[w], buf'[w], bot[w] - 1, old[w], NoPardo, age[w], bot[w], deq[w], right)
        /\ Keeps("pop", buf[w], lb[w], age[w], bot[w], "pop_load", buf'[w], bot[w] - 1, age[w], bot[w])
    BY <1>3, <1>6, <2>1, PopDeque
  <2>3. DequeInv(w)' /\ KeepsAt(w)
    BY <1>1, <1>4, <1>6, <2>2 DEF DequeInv, KeepsAt, MemSame
  <2>4. lb'[w] \in 0..QSize /\ bot[w] - 1 \in 0..QSize
    BY <1>3, <1>6, SchedulerAssumption
  <2>5. Top(w).at = "left"
    <3>1. Top(w).at \in {"left", "wait"}
      BY <1>1, TopAt
    <3>2. Top(w).at = "wait" => bot[w] = 0
      BY <1>1, WaitsEmpty
    <3> QED
      BY <1>6, <3>1, <3>2
  <2> QED
    BY <1>1, <1>6, <2>3, <2>4, <2>5
<1> QED
  BY <1>4, <1>5, <1>6

\* There is a next tag when a pop is on its way.
LEMMA TagRoom ==
  ASSUME TagsLast, TypeOK, NEW w \in Workers, Control(w), TagInv(w), pc[w] \in {"pop_load", "pop_cas"}
  PROVE  age[w].tag + 1 < TagMod
<1>1. age[w].tag + 1 <= Cardinality(DoneLefts)
  <2>1. Top(w).at = "left"
    BY TopAt
  <2> QED
    BY <2>1 DEF TagInv, TagsOK, PopsIn
<1>2. Cardinality(DoneLefts) \in Nat /\ Cardinality(DoneLefts) <= Cardinality(Pardos) /\ Cardinality(Pardos) \in Nat
  <2>1. DoneLefts \in SUBSET Pardos
    BY DEF DoneLefts
  <2>2. IsFiniteSet(DoneLefts)
    BY <2>1, FS_Subset DEF TagsLast
  <2> QED
    BY <2>1, <2>2, FS_Subset, FS_CardinalityType DEF TagsLast
<1>3. age[w].tag \in Nat /\ TagMod \in Nat
  <2>1. age[w] \in Age
    BY TypesOf
  <2> QED
    BY <2>1, SchedulerAssumption DEF Age
<1> QED
  BY <1>1, <1>2, <1>3 DEF TagsLast

\* pop_bottom at its first fence.
LEMMA PopLoadIs ==
  ASSUME TypeOK, NEW w \in Workers, PopLoad(w)
  PROVE  LET a == age[w]
             v == lb[w]
         IN
         /\ pc[w] = "pop_load" /\ buf[w] = <<>>
         /\ stack' = stack /\ lb' = lb /\ victim' = victim /\ mutex' = mutex
         /\ prog' = prog /\ left' = left /\ right' = right /\ joined' = joined
         /\ age' = age /\ bot' = bot /\ deq' = deq /\ right_done' = right_done /\ finished_flag' = finished_flag
         /\ \/ /\ v > a.top /\ pc'[w] = "popped" /\ buf'[w] = <<>> /\ old'[w] = old[w] /\ job'[w] = deq[w][v]
            \/ /\ v = a.top /\ pc'[w] = "pop_cas" /\ buf'[w] = Enter(<<>>, BotStore(0)) /\ old'[w] = a /\ job'[w] = deq[w][v]
            \/ /\ v < a.top /\ pc'[w] = "pop_fence" /\ old'[w] = old[w] /\ job'[w] = NoPardo
               /\ buf'[w] = Enter(Enter(<<>>, BotStore(0)), AgeStore(NextTag(a)))
<1> DEFINE a == age[w]
           v == lb[w]
<1>1. pc[w] = "pop_load" /\ buf[w] = <<>>
  BY DEF PopLoad, Fenced
<1>2. LoadAge(w, w) = a
  <2>1. In(buf[w], "age") = {}
    BY <1>1 DEF In
  <2> QED
    BY <2>1, LoadIs DEF Value
<1>3. /\ stack' = stack /\ lb' = lb /\ victim' = victim /\ mutex' = mutex
      /\ prog' = prog /\ left' = left /\ right' = right /\ joined' = joined
      /\ age' = age /\ bot' = bot /\ deq' = deq /\ right_done' = right_done /\ finished_flag' = finished_flag
      /\ job'[w] = IF v < a.top THEN NoPardo ELSE deq[w][v]
  BY <1>2 DEF PopLoad, memVars, deqVars, fjVars, TypeOK
<1>4. v \in Int /\ a.top \in Int
  <2>1. a \in Age /\ v \in 0..QSize
    BY TypesOf
  <2> QED
    BY <2>1 DEF Age
<1>5. /\ <<>> \o <<BotStore(0)>> = Enter(<<>>, BotStore(0))
      /\ <<>> \o <<BotStore(0), AgeStore(NextTag(a))>> = Enter(Enter(<<>>, BotStore(0)), AgeStore(NextTag(a)))
  <2>1. NextTag(a) \in Age
    BY NextAge, TypesOf
  <2>2. BotStore(0) \in Stores /\ AgeStore(NextTag(a)) \in Stores
    BY <2>1, StoresAre, SchedulerAssumption
  <2> HIDE DEF a
  <2>3. \A s \in Stores, t \in Stores : <<>> \o <<s, t>> = (<<>> \o <<s>>) \o <<t>>
    <3>1. SUFFICES ASSUME NEW s \in Stores, NEW t \in Stores PROVE <<>> \o <<s, t>> = (<<>> \o <<s>>) \o <<t>>
      OBVIOUS
    <3>2. <<s>> \in Seq(Stores) /\ <<t>> \in Seq(Stores) /\ <<s, t>> \in Seq(Stores)
      OBVIOUS
    <3>3. <<>> \o <<s>> = <<s>> /\ <<>> \o <<s, t>> = <<s, t>>
      BY <3>2, ConcatEmptySeq
    <3>4. <<s>> \o <<t>> = <<s, t>>
      <4>1. /\ <<s>> \o <<t>> \in Seq(Stores) /\ Len(<<s>> \o <<t>>) = 2
            /\ (<<s>> \o <<t>>)[1] = s /\ (<<s>> \o <<t>>)[2] = t
        OBVIOUS
      <4>2. Len(<<s, t>>) = 2 /\ <<s, t>>[1] = s /\ <<s, t>>[2] = t
        OBVIOUS
      <4>3. \A i \in 1..2 : i = 1 \/ i = 2
        OBVIOUS
      <4>4. \A i \in 1..2 : (<<s>> \o <<t>>)[i] = <<s, t>>[i]
        BY <4>1, <4>2, <4>3
      <4> QED
        BY <3>2, <4>1, <4>2, <4>4, SeqEqual
    <3> QED
      BY <3>3, <3>4
  <2>4. <<>> \o <<BotStore(0), AgeStore(NextTag(a))>> = (<<>> \o <<BotStore(0)>>) \o <<AgeStore(NextTag(a))>>
    BY <2>2, <2>3
  <2> QED
    BY <2>4 DEF Enter
<1>6. \/ v > a.top /\ pc'[w] = "popped" /\ buf' = buf /\ old' = old
      \/ v = a.top /\ pc'[w] = "pop_cas" /\ buf'[w] = buf[w] \o <<BotStore(0)>> /\ old'[w] = a
      \/ v < a.top /\ pc'[w] = "pop_fence" /\ old' = old /\ buf'[w] = buf[w] \o <<BotStore(0), AgeStore(NextTag(a))>>
  <2> HIDE DEF a
  <2>1. \/ v > a.top /\ pc' = [pc EXCEPT ![w] = "popped"] /\ buf' = buf /\ old' = old
        \/ v = a.top /\ pc' = [pc EXCEPT ![w] = "pop_cas"] /\ buf' = [buf EXCEPT ![w] = @ \o <<BotStore(0)>>]
           /\ old' = [old EXCEPT ![w] = a]
        \/ v < a.top /\ pc' = [pc EXCEPT ![w] = "pop_fence"] /\ old' = old
           /\ buf' = [buf EXCEPT ![w] = @ \o <<BotStore(0), AgeStore(NextTag(a))>>]
    BY <1>2 DEF PopLoad, Store
  <2>2. w \in DOMAIN pc /\ w \in DOMAIN buf /\ w \in DOMAIN old
    BY DEF TypeOK
  <2> QED
    BY <2>1, <2>2
<1> HIDE DEF a, v
<1>7. \/ /\ v > a.top /\ pc'[w] = "popped" /\ buf'[w] = <<>> /\ old'[w] = old[w] /\ job'[w] = deq[w][v]
      \/ /\ v = a.top /\ pc'[w] = "pop_cas" /\ buf'[w] = Enter(<<>>, BotStore(0)) /\ old'[w] = a /\ job'[w] = deq[w][v]
      \/ /\ v < a.top /\ pc'[w] = "pop_fence" /\ old'[w] = old[w] /\ job'[w] = NoPardo
         /\ buf'[w] = Enter(Enter(<<>>, BotStore(0)), AgeStore(NextTag(a)))
  <2>1. v > a.top => ~(v < a.top)
    BY <1>4
  <2>2. v = a.top => ~(v < a.top)
    BY <1>4
  <2> QED
    BY <1>1, <1>3, <1>5, <1>6, <2>1, <2>2
<1> QED
  BY <1>1, <1>3, <1>7 DEF a, v

\* The comparison of local_bot with age.top keeps the deque right.
LEMMA PopLoadOwn ==
  ASSUME TagsLast, TypeOK, NEW w \in Workers, Control(w), DequeInv(w), TagInv(w), PopLoad(w)
  PROVE  DequeInv(w)' /\ KeepsAt(w) /\ job'[w] \in Pardos \cup {NoPardo} /\ old'[w] \in Age
<1> DEFINE a == age[w]
           v == lb[w]
           m == bot[w]
           d == deq[w]
           st == stack[w]
<1>1. /\ pc[w] = "pop_load" /\ buf[w] = <<>> /\ stack' = stack /\ lb' = lb /\ right' = right /\ MemSame(w)
      /\ \/ /\ v > a.top /\ pc'[w] = "popped" /\ buf'[w] = <<>> /\ old'[w] = old[w] /\ job'[w] = d[v]
         \/ /\ v = a.top /\ pc'[w] = "pop_cas" /\ buf'[w] = Enter(<<>>, BotStore(0)) /\ old'[w] = a /\ job'[w] = d[v]
         \/ /\ v < a.top /\ pc'[w] = "pop_fence" /\ old'[w] = old[w] /\ job'[w] = NoPardo
            /\ buf'[w] = Enter(Enter(<<>>, BotStore(0)), AgeStore(NextTag(a)))
  BY PopLoadIs DEF MemSame
<1>2. /\ st \in Seq(Frame_) /\ Len(st) \in Nat \ {0} /\ st[Len(st)].at = "left" /\ st[Len(st)].p \in Pardos /\ job[w] = NoPardo
  <2>1. Len(st) \in DOMAIN st /\ Top(w) = st[Len(st)] /\ st \in Seq(Frame_) /\ Len(st) \in Nat \ {0}
    BY TopIs
  <2> QED
    BY <1>1, <2>1, TopAt, PardosAt
<1>3. a \in Age /\ m \in 0..QSize /\ v \in 0..QSize /\ d \in [0..(QSize - 1) -> Pardos \cup {NoPardo}] /\ old[w] \in Age
  BY TypesOf
<1>4. DequeOK("pop_load", st, <<>>, v, old[w], NoPardo, a, m, d, right)
  BY <1>1, <1>2 DEF DequeInv
<1>5. a.tag + 1 < TagMod
  BY <1>1, TagRoom
<1>6. v \in 0..(QSize - 1)
  <2>1. v + 1 \in 0..(QSize - 1) /\ v \in Nat
    BY <1>3, <1>4 DEF DequeOK, JobsIn
  <2> QED
    BY <2>1, SchedulerAssumption
<1>7. ASSUME NEW l2, NEW b2, NEW o2, NEW j2,
             pc'[w] = l2, buf'[w] = b2, old'[w] = o2, job'[w] = j2,
             BufferOK(l2, b2, a), DequeOK(l2, st, b2, v, o2, j2, a, m, d, right),
             Keeps("pop_load", <<>>, v, a, m, l2, b2, v, a, m)
      PROVE  DequeInv(w)' /\ KeepsAt(w)
  BY <1>1, <1>7 DEF DequeInv, KeepsAt, MemSame
<1>8. CASE v > a.top /\ pc'[w] = "popped" /\ buf'[w] = <<>> /\ old'[w] = old[w] /\ job'[w] = d[v]
  <2>1. /\ BufferOK("popped", <<>>, a) /\ DequeOK("popped", st, <<>>, v, old[w], d[v], a, m, d, right)
        /\ Keeps("pop_load", <<>>, v, a, m, "popped", <<>>, v, a, m)
    <3> HIDE DEF a, v, m, d, st
    <3> QED
      BY <1>2, <1>3, <1>4, <1>8, LoadTakes
  <2> QED
    BY <1>3, <1>6, <1>7, <1>8, <2>1
<1>9. CASE v = a.top /\ pc'[w] = "pop_cas" /\ buf'[w] = Enter(<<>>, BotStore(0)) /\ old'[w] = a /\ job'[w] = d[v]
  <2>1. /\ BufferOK("pop_cas", buf'[w], a) /\ DequeOK("pop_cas", st, buf'[w], v, a, d[v], a, m, d, right)
        /\ Keeps("pop_load", <<>>, v, a, m, "pop_cas", buf'[w], v, a, m)
    <3> HIDE DEF a, v, m, d, st
    <3> QED
      BY <1>2, <1>3, <1>4, <1>9, LoadRaces
  <2> QED
    BY <1>3, <1>6, <1>7, <1>9, <2>1
<1>10. CASE /\ v < a.top /\ pc'[w] = "pop_fence" /\ old'[w] = old[w] /\ job'[w] = NoPardo
            /\ buf'[w] = Enter(Enter(<<>>, BotStore(0)), AgeStore(NextTag(a)))
  <2>1. /\ BufferOK("pop_fence", buf'[w], a) /\ DequeOK("pop_fence", st, buf'[w], v, old[w], NoPardo, a, m, d, right)
        /\ Keeps("pop_load", <<>>, v, a, m, "pop_fence", buf'[w], v, a, m)
    <3> HIDE DEF a, v, m, d, st
    <3> QED
      BY <1>2, <1>3, <1>4, <1>5, <1>10, LoadFails
  <2> QED
    BY <1>3, <1>7, <1>10, <2>1
<1> QED
  BY <1>1, <1>8, <1>9, <1>10

\* The race for the last job.
LEMMA PopCasIs ==
  ASSUME TypeOK, NEW w \in Workers, PopCas(w)
  PROVE  LET o == old[w] IN
         /\ pc[w] = "pop_cas" /\ buf[w] = <<>> /\ pc'[w] = "pop_fence"
         /\ stack' = stack /\ lb' = lb /\ old' = old /\ victim' = victim /\ mutex' = mutex
         /\ prog' = prog /\ left' = left /\ right' = right /\ joined' = joined
         /\ bot' = bot /\ deq' = deq /\ right_done' = right_done /\ finished_flag' = finished_flag
         /\ \/ age[w] = o /\ age' = [age EXCEPT ![w] = NextTag(o)] /\ age'[w] = NextTag(o) /\ buf'[w] = <<>> /\ job' = job
            \/ age[w] # o /\ age' = age /\ buf'[w] = Enter(<<>>, AgeStore(NextTag(o))) /\ job'[w] = NoPardo
<1>1. w \in DOMAIN pc /\ w \in DOMAIN buf /\ w \in DOMAIN job /\ w \in DOMAIN age
  BY TypesOf DEF TypeOK
<1> QED
  BY <1>1 DEF PopCas, Fenced, Store, Enter, fjVars

\* The race for the last job keeps the deque right, whoever wins it.
LEMMA PopCasOwn ==
  ASSUME TagsLast, TypeOK, NEW w \in Workers, Control(w), DequeInv(w), TagInv(w), PopCas(w)
  PROVE  DequeInv(w)' /\ KeepsAt(w)
<1> DEFINE a == age[w]
           o == old[w]
           v == lb[w]
           m == bot[w]
           d == deq[w]
           st == stack[w]
           j == job[w]
<1>1. /\ pc[w] = "pop_cas" /\ buf[w] = <<>> /\ pc'[w] = "pop_fence" /\ stack' = stack /\ lb' = lb /\ old' = old
      /\ right' = right /\ bot' = bot /\ deq' = deq
      /\ \/ a = o /\ age'[w] = NextTag(o) /\ buf'[w] = <<>> /\ job' = job
         \/ a # o /\ age' = age /\ buf'[w] = Enter(<<>>, AgeStore(NextTag(o))) /\ job'[w] = NoPardo
  BY PopCasIs
<1>2. Len(st) \in Nat \ {0} /\ st[Len(st)].at = "left" /\ st[Len(st)].p \in Pardos
  <2>1. Len(st) \in DOMAIN st /\ Top(w) = st[Len(st)] /\ Len(st) \in Nat \ {0}
    BY TopIs
  <2> QED
    BY <1>1, <2>1, TopAt, PardosAt
<1>3. a \in Age /\ m \in 0..QSize /\ v \in 0..QSize /\ o \in Age
  BY TypesOf
<1>4. DequeOK("pop_cas", st, <<>>, v, o, j, a, m, d, right)
  BY <1>1 DEF DequeInv
<1>5. a.tag + 1 < TagMod
  BY <1>1, TagRoom
<1>6. CASE a = o /\ age'[w] = NextTag(o) /\ buf'[w] = <<>> /\ job' = job
  <2>1. /\ BufferOK("pop_fence", <<>>, age'[w]) /\ DequeOK("pop_fence", st, <<>>, v, o, j, age'[w], m, d, right)
        /\ Keeps("pop_cas", <<>>, v, a, m, "pop_fence", <<>>, v, age'[w], m)
    <3> HIDE DEF a, v, m, d, st, o, j
    <3> QED
      BY <1>2, <1>3, <1>4, <1>5, <1>6, CasWins
  <2> QED
    BY <1>1, <1>6, <2>1 DEF DequeInv, KeepsAt
<1>7. CASE a # o /\ age' = age /\ buf'[w] = Enter(<<>>, AgeStore(NextTag(o))) /\ job'[w] = NoPardo
  <2>1. /\ BufferOK("pop_fence", buf'[w], a) /\ DequeOK("pop_fence", st, buf'[w], v, o, NoPardo, a, m, d, right)
        /\ Keeps("pop_cas", <<>>, v, a, m, "pop_fence", buf'[w], v, a, m)
    <3> HIDE DEF a, v, m, d, st, o, j
    <3> QED
      BY <1>2, <1>3, <1>4, <1>5, <1>7, CasLoses
  <2> QED
    BY <1>1, <1>7, <2>1 DEF DequeInv, KeepsAt
<1> QED
  BY <1>1, <1>6, <1>7

\* A thief's compare-and-swap succeeds: the job is one of the victim's.
Takes(w) == StealCas(w) /\ age[victim[w]] = old[w]
AgesStay(y) == \A d \in Deques \ {y} : age'[d] = age[d]
HasLeft(y, p) == \E i \in DOMAIN stack[y] : stack[y][i].at = "left" /\ stack[y][i].p = p
\* What a theft does: the job of a left frame of the victim runs at the thief.
LEMMA TakesIs ==
  ASSUME IInv, ~Aborted, NEW w \in Workers, Takes(w)
  PROVE  LET y == victim[w]
             p == job[w]
             n == Len(stack[w])
         IN
         /\ pc[w] = "steal_cas" /\ y \in Workers \ {w} /\ p \in Pardos /\ right[p] = "idle" /\ left[p] # "idle" /\ p = deq[y][age[y].top]
         /\ HasLeft(y, p)
         /\ Standing(pc[y], stack[y], buf[y], lb[y], job[y], age[y], bot[y], deq[y], right)
         /\ pc'[w] \in {"lock", "run"}
         /\ stack'[w] \in Seq(Frame_) /\ Len(stack'[w]) = n + 1 /\ stack'[w][n + 1] = Frame("job", p, prog.right[p])
         /\ \A i \in 1..n : stack'[w][i] = stack[w][i]
         /\ right' = [right EXCEPT ![p] = "running"]
         /\ age'[y] = [age[y] EXCEPT !.top = @ + 1] /\ AgesStay(y)
         /\ job'[w] = NoPardo /\ lb'[w] = 0 /\ old'[w] = NoAge /\ victim'[w] = 0
         /\ buf' = buf /\ mutex' = mutex /\ prog' = prog /\ left' = left /\ joined' = joined
         /\ bot' = bot /\ deq' = deq /\ right_done' = right_done /\ finished_flag' = finished_flag
<1> DEFINE y == victim[w]
           p == job[w]
           n == Len(stack[w])
<1>1. TypeOK /\ Control(w) /\ ThiefInv(w) /\ FramesInv
  BY At1
<1>2. pc[w] = "steal_cas" /\ y \in Workers \ {w} /\ ReadyAt(y) /\ p = deq[y][age[y].top]
  BY <1>1 DEF Takes, StealCas, ThiefInv
<1>3. DequeInv(y) /\ Control(y) /\ pc[y] # "aborted"
  BY <1>2, At1 DEF Aborted
<1>4. /\ Len(stack[y]) \in Nat \ {0} /\ DOMAIN stack[y] = 1..Len(stack[y])
      /\ buf[y] \in Seq(Stores) /\ lb[y] \in 0..QSize /\ age[y] \in Age /\ bot[y] \in 0..QSize
      /\ deq[y] \in [0..(QSize - 1) -> Pardos \cup {NoPardo}]
  BY <1>1, <1>2, <1>3, TopIs, TypesOf
<1>5. Standing(pc[y], stack[y], buf[y], lb[y], job[y], age[y], bot[y], deq[y], right)
  <2>1. BufferOK(pc[y], buf[y], age[y])
        /\ DequeOK(pc[y], stack[y], buf[y], lb[y], old[y], job[y], age[y], bot[y], deq[y], right)
        /\ Ready(pc[y], buf[y], lb[y], age[y], bot[y])
    BY <1>2, <1>3 DEF DequeInv, ReadyAt
  <2> QED
    BY <1>3, <1>4, <2>1, ReadyJob
<1>6. PICK i \in 1..Len(stack[y]) : stack[y][i].at = "left" /\ stack[y][i].p = p /\ right[p] = "idle"
  BY <1>2, <1>5 DEF Standing
<1>7. p \in Pardos
  BY <1>1, <1>2, <1>3, <1>4, <1>6, PardosAt
<1>8. left[p] # "idle"
  <2>1. FrameTells(y, i)
    BY <1>1, <1>2, <1>4 DEF FramesInv
  <2> QED
    BY <1>6, <2>1 DEF FrameTells
<1>9. stack[w] \in Seq(Frame_) /\ Frame("job", p, prog.right[p]) \in Frame_
  <2>1. prog.right[p] \in Seq(Pardos)
    BY <1>1, <1>7, ProgramAssumption DEF TypeOK, FJ!FJTypeOK
  <2> QED
    BY <1>1, <1>7, <2>1, TypesOf DEF Frame, Frame_, Frames
<1>10. stack'[w] = Append(stack[w], Frame("job", p, prog.right[p]))
  BY <1>1 DEF Takes, StealCas, RunJob, Push, TypeOK
<1>11. stack'[w] \in Seq(Frame_) /\ Len(stack'[w]) = n + 1 /\ stack'[w][n + 1] = Frame("job", p, prog.right[p])
         /\ \A k \in 1..n : stack'[w][k] = stack[w][k]
  BY <1>9, <1>10, Pushed
<1>12. age'[y] = [age[y] EXCEPT !.top = @ + 1] /\ \A d \in Deques \ {y} : age'[d] = age[d]
  <2>1. y \in Deques
    BY <1>1, TypesOf
  <2> QED
    BY <1>1, <2>1 DEF Takes, StealCas, TypeOK
<1>13. pc'[w] \in {"lock", "run"}
  BY <1>1 DEF Takes, StealCas, RunJob, Begin, TypeOK
<1>14. job'[w] = NoPardo /\ lb'[w] = 0 /\ old'[w] = NoAge /\ victim'[w] = 0
  BY <1>1 DEF Takes, StealCas, ClearRegs, TypeOK
<1>15. /\ right' = [right EXCEPT ![p] = "running"]
       /\ buf' = buf /\ mutex' = mutex /\ prog' = prog /\ left' = left /\ joined' = joined
       /\ bot' = bot /\ deq' = deq /\ right_done' = right_done /\ finished_flag' = finished_flag
  BY DEF Takes, StealCas, RunJob
<1>16. \E k \in DOMAIN stack[y] : stack[y][k].at = "left" /\ stack[y][k].p = p
  BY <1>4, <1>6
<1> QED
  BY <1>2, <1>5, <1>6, <1>7, <1>8, <1>11, <1>12, <1>13, <1>14, <1>15, <1>16 DEF HasLeft, AgesStay

\* The thief's own deque, which was empty, stays so.
LEMMA TakesOwn ==
  ASSUME IInv, ~Aborted, NEW w \in Workers, Takes(w)
  PROVE  DequeInv(w)' /\ KeepsAt(w)
<1> DEFINE y == victim[w]
           p == job[w]
           n == Len(stack[w])
<1>1. TypeOK /\ Control(w) /\ DequeInv(w)
  BY At1
<1>2. /\ pc[w] = "steal_cas" /\ y \in Workers \ {w} /\ p \in Pardos /\ pc'[w] \in {"lock", "run"}
      /\ Len(stack'[w]) = n + 1 /\ stack'[w][n + 1] = Frame("job", p, prog.right[p])
      /\ \A i \in 1..n : stack'[w][i] = stack[w][i]
      /\ right' = [right EXCEPT ![p] = "running"] /\ buf' = buf /\ bot' = bot /\ deq' = deq
      /\ AgesStay(y)
  BY TakesIs
<1>3. /\ n \in Nat \ {0} /\ Top(w) = stack[w][n] /\ DOMAIN stack[w] = 1..n /\ Top(w).at = "wait"
  BY <1>1, <1>2, TopIs, TopAt
<1>4. MemSame(w) /\ Quiet(pc[w]) /\ Quiet(pc'[w]) /\ pc'[w] # "popped" /\ pc[w] # "popped"
  <2>1. w \in Deques
    BY <1>1, TypesOf
  <2> QED
    BY <1>2, <2>1 DEF MemSame, Quiet, AgesStay
<1>5. QuietOK(pc[w], stack[w], job[w], age[w], bot[w], deq[w], right)
  BY <1>1, <1>4, QuietHere
<1>6. bot[w] \in 0..QSize
  BY <1>1, TypesOf
<1>7. \A i \in 1..Len(stack[w]) : stack[w][i].at = "left" => (right'[stack[w][i].p] = "idle" => right[stack[w][i].p] = "idle")
  <2>1. \A i \in DOMAIN stack[w] : stack[w][i].at = "left" => stack[w][i].p \in Pardos
    BY <1>1, PardosAt
  <2>2. \A q \in Pardos : right'[q] = "idle" => right[q] = "idle"
    BY <1>1, <1>2 DEF TypeOK, FJ!FJTypeOK
  <2> QED
    BY <1>3, <2>1, <2>2
<1>8. \A i \in 1..Len(stack'[w]) : stack'[w][i].at = "left" => i \in 1..n /\ stack[w][i].at = "left" /\ stack'[w][i].p = stack[w][i].p
  <2>1. \A i \in 1..(n + 1) : i = n + 1 \/ i \in 1..n
    BY <1>3
  <2>2. stack'[w][n + 1].at # "left"
    BY <1>2 DEF Frame
  <2> QED
    BY <1>2, <2>1, <2>2
<1>9. QuietOK(pc'[w], stack'[w], job'[w], age[w], bot[w], deq[w], right')
  <2> HIDE DEF p, y
  <2> QED
    BY <1>3, <1>4, <1>5, <1>6, <1>7, <1>8, NoneLeft
<1> QED
  BY <1>1, <1>2, <1>4, <1>9, QuietMoves

\* The victim's deque.
LEMMA StolenOwn ==
  ASSUME IInv, ~Aborted, NEW w \in Workers, Takes(w), NEW y \in Workers, y = victim[w]
  PROVE  DequeInv(y)' /\ KeepsAt(y)
<1> DEFINE p == job[w]
<1>1. TypeOK /\ ThiefInv(w) /\ FramesInv
  BY At1
<1>2. /\ pc[w] = "steal_cas" /\ y \in Workers \ {w} /\ p \in Pardos /\ p = deq[y][age[y].top]
      /\ right' = [right EXCEPT ![p] = "running"] /\ buf' = buf /\ bot' = bot /\ deq' = deq
      /\ age'[y] = [age[y] EXCEPT !.top = @ + 1]
  BY TakesIs
<1>3. DequeInv(y) /\ Control(y) /\ pc[y] # "aborted" /\ ReadyAt(y)
  BY <1>1, <1>2, At1 DEF Aborted, ThiefInv, Takes
<1>4. Apart(w)
  BY <1>1, StepsApart DEF Takes, Step
<1>5. pc'[y] = pc[y] /\ stack'[y] = stack[y] /\ lb'[y] = lb[y] /\ old'[y] = old[y] /\ job'[y] = job[y]
  BY <1>2, <1>4 DEF Apart
<1>6. /\ Len(stack[y]) \in Nat \ {0} /\ DOMAIN stack[y] = 1..Len(stack[y])
      /\ buf[y] \in Seq(Stores) /\ lb[y] \in 0..QSize /\ age[y] \in Age /\ bot[y] \in 0..QSize
      /\ deq[y] \in [0..(QSize - 1) -> Pardos \cup {NoPardo}]
  BY <1>1, <1>2, <1>3, TopIs, TypesOf
<1>7. \A i \in DOMAIN stack[y] : stack[y][i].at = "left" => stack[y][i].p \in Pardos
  BY <1>1, <1>2, <1>3, PardosAt
<1>8. \A i, k \in 1..Len(stack[y]) :
        stack[y][i].at = "left" /\ stack[y][k].at = "left" /\ stack[y][i].p = stack[y][k].p => i = k
  <2>1. \A i, k \in DOMAIN stack[y] :
          stack[y][i].at = "left" /\ stack[y][k].at = "left" /\ stack[y][i].p = stack[y][k].p /\ stack[y][i].p # NoPardo => i = k
    BY <1>1, <1>2 DEF FramesInv, OneFrame, OwnerAt
  <2>2. ASSUME NEW i \in 1..Len(stack[y]), stack[y][i].at = "left" PROVE i \in DOMAIN stack[y] /\ stack[y][i].p # NoPardo
    BY <1>6, <1>7, <2>2, SchedulerAssumption
  <2> QED
    BY <2>1, <2>2
<1>9. \A i \in 1..Len(stack[y]) : stack[y][i].at = "left" =>
        right'[stack[y][i].p] = IF stack[y][i].p = deq[y][age[y].top] THEN "running" ELSE right[stack[y][i].p]
  <2>1. \A q \in Pardos : right'[q] = IF q = p THEN "running" ELSE right[q]
    BY <1>1, <1>2 DEF TypeOK, FJ!FJTypeOK
  <2> QED
    BY <1>2, <1>6, <1>7, <2>1
<1>10. /\ BufferOK(pc[y], buf[y], age'[y])
       /\ DequeOK(pc[y], stack[y], buf[y], lb[y], old[y], job[y], age'[y], bot[y], deq[y], right')
       /\ age'[y] \in Age /\ NotAfter(age[y], age'[y]) /\ age'[y] # age[y]
  <2>1. BufferOK(pc[y], buf[y], age[y])
        /\ DequeOK(pc[y], stack[y], buf[y], lb[y], old[y], job[y], age[y], bot[y], deq[y], right)
        /\ Ready(pc[y], buf[y], lb[y], age[y], bot[y])
    BY <1>3 DEF DequeInv, ReadyAt
  <2>2. Stealing(pc[y], stack[y], buf[y], lb[y], old[y], job[y], age[y], bot[y], deq[y], right, right', age'[y])
    <3> HIDE DEF p
    <3> QED
      BY <1>2, <1>3, <1>6, <1>8, <1>9, <2>1 DEF Stealing
  <2>3. Stolen(pc[y], stack[y], buf[y], lb[y], old[y], job[y], age[y], bot[y], deq[y], right, right', age'[y])
    BY <2>2, StolenDeque
  <2> QED
    BY <2>3 DEF Stolen
<1> QED
  BY <1>2, <1>5, <1>10 DEF DequeInv, KeepsAt, Keeps

\* A store of the worker reaches memory.
LEMMA FlushIs ==
  ASSUME TypeOK, NEW w \in Workers, Flush(w)
  PROVE  /\ buf[w] # <<>> /\ buf[w] \in Seq(Stores) /\ buf'[w] = Tail(buf[w]) /\ Head(buf[w]) \in Stores
         /\ FlushedTo(Head(buf[w]), age[w], bot[w], deq[w], age'[w], bot'[w], deq'[w])
         /\ \A d \in Deques \ {w} : age'[d] = age[d] /\ bot'[d] = bot[d] /\ deq'[d] = deq[d]
         /\ pc' = pc /\ stack' = stack /\ lb' = lb /\ old' = old /\ job' = job /\ victim' = victim /\ mutex' = mutex
         /\ prog' = prog /\ left' = left /\ right' = right /\ joined' = joined
<1>1. /\ buf[w] # <<>> /\ buf[w] \in Seq(Stores) /\ buf'[w] = Tail(buf[w])
  BY DEF Flush, TypeOK
<1>2. Head(buf[w]) \in Stores
  BY <1>1, Left
<1>3. /\ pc' = pc /\ stack' = stack /\ lb' = lb /\ old' = old /\ job' = job /\ victim' = victim /\ mutex' = mutex
      /\ prog' = prog /\ left' = left /\ right' = right /\ joined' = joined
  BY DEF Flush, regVars, fjVars
<1> DEFINE s == Head(buf[w])
<1>4. w \in Deques /\ w \in DOMAIN bot /\ w \in DOMAIN age /\ w \in DOMAIN deq
  BY TypesOf DEF TypeOK
<1>5. bot'[w] = (IF s.loc = "bot" THEN s.val ELSE bot[w]) /\ \A d \in Deques \ {w} : bot'[d] = bot[d]
  BY <1>4 DEF Flush, TypeOK
<1>6. age'[w] = (IF s.loc = "age" THEN s.val ELSE age[w]) /\ \A d \in Deques \ {w} : age'[d] = age[d]
  BY <1>4 DEF Flush, TypeOK
<1>7. deq'[w] = (IF s.loc = "slot" THEN [deq[w] EXCEPT ![s.i] = s.val] ELSE deq[w]) /\ \A d \in Deques \ {w} : deq'[d] = deq[d]
  BY <1>4 DEF Flush, TypeOK
<1> QED
  BY <1>1, <1>2, <1>3, <1>5, <1>6, <1>7 DEF FlushedTo

\* A store that reaches memory keeps its worker's deque right.
LEMMA FlushOwn ==
  ASSUME TypeOK, NEW w \in Workers, Control(w), DequeInv(w), pc[w] # "aborted", Flush(w)
  PROVE  DequeInv(w)' /\ KeepsAt(w)
<1>1. /\ buf[w] # <<>> /\ buf'[w] = Tail(buf[w])
      /\ FlushedTo(Head(buf[w]), age[w], bot[w], deq[w], age'[w], bot'[w], deq'[w])
      /\ pc' = pc /\ stack' = stack /\ lb' = lb /\ old' = old /\ job' = job /\ right' = right
  BY FlushIs
<1>2. /\ buf[w] \in Seq(Stores) /\ lb[w] \in 0..QSize /\ age[w] \in Age /\ bot[w] \in 0..QSize
      /\ deq[w] \in [0..(QSize - 1) -> Pardos \cup {NoPardo}]
  BY TypesOf
<1>3. BufferOK(pc[w], buf[w], age[w])
      /\ DequeOK(pc[w], stack[w], buf[w], lb[w], old[w], job[w], age[w], bot[w], deq[w], right)
  BY DEF DequeInv
<1>4. Flushing(pc[w], stack[w], buf[w], lb[w], old[w], job[w], age[w], bot[w], deq[w], right, age'[w], bot'[w], deq'[w])
  BY <1>1, <1>2, <1>3 DEF Flushing
<1>5. Flushed(pc[w], stack[w], buf[w], lb[w], old[w], job[w], age[w], bot[w], deq[w], right, age'[w], bot'[w], deq'[w])
  BY <1>4, FlushDeque
<1> QED
  BY <1>1, <1>5 DEF DequeInv, KeepsAt, ReadyAt, Flushed

\* The deque of another worker.
LEMMA OtherDeque ==
  ASSUME TypeOK, NEW w \in Workers, NEW x \in Workers \ {w}, Control(x), DequeInv(x), Apart(w), MemSame(x),
         \A i \in DOMAIN stack[x] : stack[x][i].at = "left" => (right'[stack[x][i].p] = "idle" <=> right[stack[x][i].p] = "idle")
  PROVE  DequeInv(x)' /\ KeepsAt(x)
<1>1. pc'[x] = pc[x] /\ stack'[x] = stack[x] /\ buf'[x] = buf[x] /\ lb'[x] = lb[x] /\ old'[x] = old[x] /\ job'[x] = job[x]
  BY DEF Apart
<1>2. /\ Len(stack[x]) \in Nat \ {0} /\ DOMAIN stack[x] = 1..Len(stack[x]) /\ Top(x) = stack[x][Len(stack[x])]
  BY TopIs
<1>3. pc[x] = "aborted" => stack[x][Len(stack[x])].at = "left"
  BY <1>2, TopAt
<1>4. DequeOK(pc[x], stack[x], buf[x], lb[x], old[x], job[x], age[x], bot[x], deq[x], right')
  <2>1. DequeOK(pc[x], stack[x], buf[x], lb[x], old[x], job[x], age[x], bot[x], deq[x], right)
    BY DEF DequeInv
  <2> QED
    BY <1>2, <1>3, <2>1, OtherRights
<1>5. NotAfter(age[x], age[x])
  BY TypesOf, SameAge
<1> QED
  BY <1>1, <1>4, <1>5 DEF DequeInv, KeepsAt, Keeps, MemSame

\* The steps, as they matter to the deques.
LEMMA StepIs ==
  ASSUME NEW w \in Workers, Step(w) \/ Flush(w)
  PROVE  \/ IdleStep(w) \/ Pardo(w) \/ CallLeft(w) \/ PopFence(w) \/ AfterPop(w) \/ ReturnJob(w) \/ ReturnPardo(w)
         \/ PopBegin(w) \/ PopLoad(w) \/ PopCas(w) \/ Takes(w) \/ Flush(w)
  BY DEF Step, IdleStep, Takes

\* The steps other than a theft change only the worker's own deque, and begin no
\* job that is another's.
LEMMA OthersSee ==
  ASSUME IInv, ~Aborted, NEW w \in Workers, Step(w) \/ Flush(w), ~Takes(w), NEW x \in Workers \ {w}
  PROVE  /\ MemSame(x)
         /\ \A i \in DOMAIN stack[x] : stack[x][i].at = "left" => (right'[stack[x][i].p] = "idle" <=> right[stack[x][i].p] = "idle")
<1> DEFINE Sees == /\ MemSame(x)
                   /\ \A i \in DOMAIN stack[x] : stack[x][i].at = "left" => (right'[stack[x][i].p] = "idle" <=> right[stack[x][i].p] = "idle")
<1>1. TypeOK /\ Control(w) /\ Control(x) /\ DequeInv(w) /\ FramesInv
  BY At1
<1>2. \A i \in DOMAIN stack[x] : stack[x][i].at = "left" => stack[x][i].p \in Pardos
  BY <1>1, PardosAt
<1>3. x \in Deques \ {w}
  BY <1>1, TypesOf
<1>4. ASSUME MemSame(x), RightsSame PROVE Sees
  BY <1>2, <1>4 DEF RightsSame
<1>5. ASSUME age' = age, bot' = bot, deq' = deq PROVE MemSame(x)
  BY <1>5 DEF MemSame
<1>6. ASSUME right' = right PROVE RightsSame
  BY <1>6 DEF RightsSame
<1> HIDE DEF Sees
<1>7. CASE IdleStep(w)
  <2>1. Idles(w) /\ RightsSame
    BY <1>1, <1>7, IdleSteps
  <2> QED
    BY <1>4, <1>5, <2>1 DEF Idles, Sees
<1>8. CASE Pardo(w)
  <2>1. age' = age /\ bot' = bot /\ deq' = deq /\ right' = right
    BY <1>8 DEF Pardo, memVars, deqVars
  <2> QED
    BY <1>4, <1>5, <1>6, <2>1 DEF Sees
<1>9. CASE CallLeft(w) \/ PopFence(w)
  <2>1. age' = age /\ bot' = bot /\ deq' = deq /\ right' = right
    BY <1>9 DEF CallLeft, PopFence, memVars, deqVars, fjVars
  <2> QED
    BY <1>4, <1>5, <1>6, <2>1 DEF Sees
<1>10. CASE AfterPop(w)
  <2> DEFINE p == Top(w).p
             n == Len(stack[w])
  <2>1. /\ p \in Pardos /\ Top(w).at = "left" /\ age' = age /\ bot' = bot /\ deq' = deq
        /\ right' = right \/ right' = [right EXCEPT ![p] = "running"]
    BY <1>1, <1>10, AfterPopIs
  <2>2. n \in DOMAIN stack[w] /\ Top(w) = stack[w][n]
    BY <1>1, TopIs
  <2>3. \A i \in DOMAIN stack[x] : stack[x][i].at = "left" => stack[x][i].p # p
    <3>1. p # NoPardo
      BY <2>1, SchedulerAssumption
    <3> HIDE DEF n, p
    <3>2. SUFFICES ASSUME NEW i \in DOMAIN stack[x], stack[x][i].at = "left", stack[x][i].p = p PROVE FALSE
      OBVIOUS
    <3>3. stack[w][n].at \in OwnerAt /\ stack[x][i].at \in OwnerAt /\ stack[w][n].p = stack[x][i].p /\ stack[w][n].p # NoPardo
      BY <2>1, <2>2, <3>1, <3>2 DEF OwnerAt, p
    <3> QED
      BY <1>1, <2>2, <3>3 DEF FramesInv, OneFrame
  <2>4. \A q \in Pardos : q # p => right'[q] = right[q]
    BY <1>1, <2>1 DEF TypeOK, FJ!FJTypeOK
  <2> HIDE DEF p, n
  <2> QED
    BY <1>2, <1>5, <2>1, <2>3, <2>4 DEF Sees
<1>11. CASE ReturnJob(w) \/ ReturnPardo(w)
  <2>1. RightsSame
    BY <1>11, ReturnRights
  <2>2. age' = age /\ bot' = bot /\ deq' = deq
    BY <1>1, <1>11, ReturnIs
  <2> QED
    BY <1>4, <1>5, <2>1, <2>2 DEF Sees
<1>12. CASE PopBegin(w) \/ PopLoad(w)
  <2>1. age' = age /\ bot' = bot /\ deq' = deq /\ right' = right
    BY <1>12 DEF PopBegin, PopLoad, memVars, deqVars, fjVars
  <2> QED
    BY <1>4, <1>5, <1>6, <2>1 DEF Sees
<1>13. CASE PopCas(w)
  <2>1. bot' = bot /\ deq' = deq /\ right' = right /\ (age' = age \/ age' = [age EXCEPT ![w] = NextTag(old[w])])
    BY <1>1, <1>13, PopCasIs
  <2>2. MemSame(x)
    BY <1>1, <1>3, <2>1 DEF MemSame, TypeOK
  <2> QED
    BY <1>4, <1>6, <2>1, <2>2 DEF Sees
<1>14. CASE Flush(w)
  <2>1. right' = right /\ \A d \in Deques \ {w} : age'[d] = age[d] /\ bot'[d] = bot[d] /\ deq'[d] = deq[d]
    BY <1>1, <1>14, FlushIs
  <2>2. MemSame(x)
    BY <1>3, <2>1 DEF MemSame
  <2> QED
    BY <1>4, <1>6, <2>1, <2>2 DEF Sees
<1> QED
  BY <1>7, <1>8, <1>9, <1>10, <1>11, <1>12, <1>13, <1>14, StepIs

\* The worker's own deque.
LEMMA OwnStep ==
  ASSUME TagsLast, IInv, ~Aborted, NEW w \in Workers, Step(w) \/ Flush(w)
  PROVE  DequeInv(w)' /\ KeepsAt(w)
<1>1. TypeOK /\ Control(w) /\ DequeInv(w) /\ FramesInv /\ TagInv(w) /\ pc[w] # "aborted"
  BY At1 DEF Aborted
<1>2. CASE IdleStep(w)
  BY <1>1, <1>2, IdleDeque
<1>3. CASE Pardo(w)
  BY <1>3, PardoOwn
<1>4. CASE CallLeft(w) \/ PopFence(w)
  BY <1>1, <1>4, FenceOwn
<1>5. CASE AfterPop(w)
  BY <1>5, AfterPopOwn
<1>6. CASE ReturnJob(w) \/ ReturnPardo(w)
  BY <1>6, ReturnOwn
<1>7. CASE PopBegin(w)
  BY <1>1, <1>7, PopBeginOwn
<1>8. CASE PopLoad(w)
  BY <1>1, <1>8, PopLoadOwn
<1>9. CASE PopCas(w)
  BY <1>1, <1>9, PopCasOwn
<1>10. CASE Takes(w)
  BY <1>10, TakesOwn
<1>11. CASE Flush(w)
  BY <1>1, <1>11, FlushOwn
<1> QED
  BY <1>2, <1>3, <1>4, <1>5, <1>6, <1>7, <1>8, <1>9, <1>10, <1>11, StepIs

\* Every deque stays right, whoever moves, and thieves find what they found.
LEMMA DequeStep ==
  ASSUME TagsLast, IInv, ~Aborted, NEW w \in Workers, Step(w) \/ Flush(w)
  PROVE  \A x \in Workers : DequeInv(x)' /\ KeepsAt(x)
<1>1. SUFFICES ASSUME NEW x \in Workers PROVE DequeInv(x)' /\ KeepsAt(x)
  OBVIOUS
<1>2. CASE x = w
  BY <1>2, OwnStep
<1>3. CASE x # w /\ Takes(w) /\ x = victim[w]
  BY <1>3, StolenOwn
<1>4. CASE x # w /\ ~(Takes(w) /\ x = victim[w])
  <2>1. TypeOK /\ Control(x) /\ DequeInv(x) /\ Apart(w) /\ x \in Workers \ {w}
    BY <1>4, At1, StepsApart
  <2>2. MemSame(x)
        /\ \A i \in DOMAIN stack[x] : stack[x][i].at = "left" => (right'[stack[x][i].p] = "idle" <=> right[stack[x][i].p] = "idle")
    <3>1. CASE ~Takes(w)
      BY <1>4, <2>1, <3>1, OthersSee
    <3>2. CASE Takes(w)
      <4> DEFINE y == victim[w]
                 p == job[w]
      <4>1. /\ y \in Workers \ {w} /\ p \in Pardos
            /\ HasLeft(y, p)
            /\ right' = [right EXCEPT ![p] = "running"] /\ bot' = bot /\ deq' = deq
            /\ AgesStay(y)
        BY <3>2, TakesIs
      <4>2. x # y /\ x \in Deques
        BY <1>4, <2>1, <3>2, TypesOf
      <4>3. MemSame(x)
        BY <4>1, <4>2 DEF MemSame, AgesStay
      <4>4. PICK k \in DOMAIN stack[y] : stack[y][k].at = "left" /\ stack[y][k].p = p
        BY <4>1 DEF HasLeft
      <4>5. \A i \in DOMAIN stack[x] : stack[x][i].at = "left" => stack[x][i].p # p
        <5>1. p # NoPardo
          BY <4>1, SchedulerAssumption
        <5> HIDE DEF y, p
        <5>2. SUFFICES ASSUME NEW i \in DOMAIN stack[x], stack[x][i].at = "left", stack[x][i].p = p PROVE FALSE
          OBVIOUS
        <5>3. stack[y][k].at \in OwnerAt /\ stack[x][i].at \in OwnerAt /\ stack[y][k].p = stack[x][i].p /\ stack[y][k].p # NoPardo
          BY <4>4, <5>1, <5>2 DEF OwnerAt
        <5> QED
          BY <4>1, <4>2, <5>3, At1 DEF FramesInv, OneFrame
      <4>6. \A i \in DOMAIN stack[x] : stack[x][i].at = "left" => stack[x][i].p \in Pardos
        BY <2>1, PardosAt
      <4>7. \A q \in Pardos : q # p => right'[q] = right[q]
        BY <2>1, <4>1 DEF TypeOK, FJ!FJTypeOK
      <4> HIDE DEF y, p
      <4> QED
        BY <4>3, <4>5, <4>6, <4>7
    <3> QED
      BY <3>1, <3>2
  <2> QED
    BY <2>1, <2>2, OtherDeque
<1> QED
  BY <1>2, <1>3, <1>4

\* Nobody uses the other half of the deques.
LEMMA UnusedStep ==
  ASSUME IInv, ~Aborted, NEW w \in Workers, Step(w) \/ Flush(w)
  PROVE  Unused'
<1>1. TypeOK /\ Control(w) /\ DequeInv(w) /\ FramesInv /\ Unused
  BY At1
<1>2. \A d \in Deques \ Workers : age'[d] = age[d] /\ bot'[d] = bot[d]
  <2>1. SUFFICES ASSUME NEW d \in Deques \ Workers PROVE age'[d] = age[d] /\ bot'[d] = bot[d]
    OBVIOUS
  <2>2. d # w
    BY <2>1
  <2>3. CASE IdleStep(w)
    BY <1>1, <2>3, IdleSteps DEF Idles
  <2>4. CASE Pardo(w) \/ CallLeft(w) \/ PopFence(w) \/ AfterPop(w) \/ ReturnJob(w) \/ ReturnPardo(w) \/ PopBegin(w) \/ PopLoad(w)
    BY <2>4 DEF Pardo, CallLeft, PopFence, AfterPop, ReturnJob, ReturnPardo, PopBegin, PopLoad, memVars, deqVars
  <2>5. CASE PopCas(w)
    BY <1>1, <2>2, <2>5, PopCasIs DEF TypeOK
  <2>6. CASE Takes(w)
    <3>1. victim[w] \in Workers /\ bot' = bot /\ AgesStay(victim[w])
      BY <2>6, TakesIs
    <3> QED
      BY <2>1, <3>1 DEF AgesStay
  <2>7. CASE Flush(w)
    BY <1>1, <2>2, <2>7, FlushIs
  <2> QED
    BY <2>3, <2>4, <2>5, <2>6, <2>7, StepIs
<1> QED
  BY <1>1, <1>2 DEF Unused, Deques, Workers

-----------------------------------------------------------------------------
(* Types.                                                                  *)

\* The parts of TypeOK: memory, control and buffers, locals, and the history.
MemoryTypes ==
  /\ age \in [Deques -> Age] /\ bot \in [Deques -> 0..QSize]
  /\ deq \in [Deques -> [0..(QSize - 1) -> Pardos \cup {NoPardo}]]
  /\ right_done \in [Pardos -> BOOLEAN] /\ finished_flag \in {0, 1}
StackTypes == stack \in [Workers -> Seq(Frame_)]
BufferTypes == buf \in [Workers -> Seq(Stores)]
LocalTypes ==
  /\ pc \in [Workers -> Labels]
  /\ lb \in [Workers -> 0..QSize] /\ old \in [Workers -> Age]
  /\ job \in [Workers -> Pardos \cup {NoPardo}] /\ victim \in [Workers -> Deques]
  /\ mutex \in BOOLEAN
\* Together these are the type invariant.
LEMMA TypeParts ==
  /\ TypeOK <=> MemoryTypes /\ StackTypes /\ BufferTypes /\ LocalTypes /\ FJ!FJTypeOK
  /\ TypeOK' <=> MemoryTypes' /\ StackTypes' /\ BufferTypes' /\ LocalTypes' /\ FJ!FJTypeOK'
<1>1. TypeOK <=> MemoryTypes /\ StackTypes /\ BufferTypes /\ LocalTypes /\ FJ!FJTypeOK
  BY DEF TypeOK, MemoryTypes, StackTypes, BufferTypes, LocalTypes, Frame_
<1>2. TypeOK' <=> MemoryTypes' /\ StackTypes' /\ BufferTypes' /\ LocalTypes' /\ FJ!FJTypeOK'
  BY DEF TypeOK, MemoryTypes, StackTypes, BufferTypes, LocalTypes, Frame_
<1> QED
  BY <1>1, <1>2

\* Small values.
LEMMA SmallTypes ==
  /\ NoAge \in Age /\ 0 \in 0..QSize /\ 0 \in Deques /\ NoPardo \in Pardos \cup {NoPardo}
  /\ \A t : Begin(t) \in {"lock", "run"}
<1>1. NoAge \in Age /\ 0 \in 0..QSize /\ 0 \in Deques
  BY SchedulerAssumption DEF NoAge, Age, Deques
<1> QED
  BY <1>1 DEF Begin

\* The memory's types are lost by no step.
LEMMA MemoryStep ==
  ASSUME IInv, ~Aborted, NEW w \in Workers, Step(w) \/ Flush(w)
  PROVE  MemoryTypes'
<1>1. TypeOK /\ Control(w) /\ DequeInv(w) /\ MemoryTypes
  BY At1, TypeParts
<1>2. CASE UNCHANGED memVars
  BY <1>1, <1>2 DEF MemoryTypes, memVars
<1>3. CASE PopCas(w)
  <2>1. NextTag(old[w]) \in Age
    BY <1>1, TypesOf, NextAge
  <2> QED
    BY <1>1, <1>3, <2>1 DEF MemoryTypes, PopCas
<1>4. CASE StealCas(w)
  <2>1. CASE age' = age
    BY <1>1, <1>4, <2>1 DEF MemoryTypes, StealCas
  <2>2. CASE Takes(w)
    <3> DEFINE y == victim[w]
    <3>1. y \in Workers /\ KeepsAt(y)
      <4>1. y \in Workers
        BY <2>2, TakesIs
      <4> QED
        BY <2>2, <4>1, StolenOwn
    <3>2. age[y] \in Age /\ Standing(pc[y], stack[y], buf[y], lb[y], job[y], age[y], bot[y], deq[y], right)
      BY <1>1, <2>2, <3>1, TakesIs, TypesOf
    <3>3. age[y].top + 1 \in 0..QSize
      <4>1. age[y].top \in Nat /\ QSize \in Nat
        BY <3>2, SchedulerAssumption DEF Standing
      <4>2. \E n \in Nat : n <= QSize - 1 /\ age[y].top < n
        BY <3>2 DEF Standing
      <4> QED
        BY <4>1, <4>2
    <3>4. [age[y] EXCEPT !.top = @ + 1] \in Age
      BY <3>2, <3>3 DEF Age
    <3>5. age' = [age EXCEPT ![y] = [age[y] EXCEPT !.top = @ + 1]]
      BY <2>2 DEF Takes, StealCas
    <3> HIDE DEF y
    <3>6. age' \in [Deques -> Age]
      BY <1>1, <3>4, <3>5 DEF MemoryTypes
    <3> QED
      BY <1>1, <1>4, <3>6 DEF MemoryTypes, StealCas
  <2> QED
    BY <1>4, <2>1, <2>2 DEF StealCas, Takes
<1>5. CASE Flush(w)
  <2> DEFINE s == Head(buf[w])
  <2>1. s \in Stores
    BY <1>1, <1>5, FlushIs
  <2>2. /\ s.loc = "bot" => s.val \in 0..QSize
        /\ s.loc = "age" => s.val \in Age
        /\ s.loc = "slot" => s.i \in 0..(QSize - 1) /\ s.val \in Pardos
        /\ s.loc = "finished_flag" => s.val = 1
    BY <2>1, StoreVal
  <2>3. /\ bot' = (IF s.loc = "bot" THEN [bot EXCEPT ![w] = s.val] ELSE bot)
        /\ age' = (IF s.loc = "age" THEN [age EXCEPT ![w] = s.val] ELSE age)
        /\ deq' = (IF s.loc = "slot" THEN [deq EXCEPT ![w][s.i] = s.val] ELSE deq)
        /\ right_done' = (IF s.loc = "right_done" THEN [right_done EXCEPT ![s.val] = TRUE] ELSE right_done)
        /\ finished_flag' = (IF s.loc = "finished_flag" THEN s.val ELSE finished_flag)
    BY <1>5 DEF Flush
  <2> HIDE DEF s
  <2>4. bot' \in [Deques -> 0..QSize]
    BY <1>1, <2>2, <2>3 DEF MemoryTypes
  <2>5. age' \in [Deques -> Age]
    BY <1>1, <2>2, <2>3 DEF MemoryTypes
  <2>6. deq' \in [Deques -> [0..(QSize - 1) -> Pardos \cup {NoPardo}]]
    BY <1>1, <2>2, <2>3 DEF MemoryTypes
  <2>7. right_done' \in [Pardos -> BOOLEAN] /\ finished_flag' \in {0, 1}
    BY <1>1, <2>2, <2>3 DEF MemoryTypes
  <2> QED
    BY <2>4, <2>5, <2>6, <2>7 DEF MemoryTypes
<1>6. UNCHANGED memVars \/ PopCas(w) \/ StealCas(w) \/ Flush(w)
  <2> USE DEF memVars, deqVars, vars
  <2>1. Pardo(w) \/ CallLeft(w) \/ Lock(w) \/ ReturnLeft(w) \/ AfterPop(w) \/ ReturnRight(w) => UNCHANGED memVars
    BY DEF Pardo, CallLeft, Lock, ReturnLeft, AfterPop, ReturnRight
  <2>2. ReturnJob(w) \/ ReturnPardo(w) \/ Spin(w) \/ PopBegin(w) \/ PopLoad(w) \/ PopFence(w) => UNCHANGED memVars
    BY DEF ReturnJob, ReturnPardo, Spin, PopBegin, PopLoad, PopFence
  <2>3. GetJob(w) \/ JobPopped(w) \/ StealCheck(w) \/ StealAge(w) \/ StealBot(w) \/ StealJob(w) => UNCHANGED memVars
    BY DEF GetJob, JobPopped, StealCheck, StealAge, StealBot, StealJob
  <2>4. Destroy(w) \/ JoinThreads(w) => UNCHANGED memVars
    BY DEF Destroy, JoinThreads
  <2> QED
    BY <2>1, <2>2, <2>3, <2>4 DEF Step
<1> QED
  BY <1>2, <1>3, <1>4, <1>5, <1>6

\* What the program is, and the states of its thunks.
LEMMA HistoryStep ==
  ASSUME IInv, ~Aborted, NEW w \in Workers, Step(w) \/ Flush(w)
  PROVE  FJ!FJTypeOK'
<1>1. TypeOK /\ Control(w) /\ DequeInv(w) /\ FJ!FJTypeOK
  BY At1, TypeParts
<1> USE DEF FJ!FJTypeOK, FJ!ThunkState, fjVars, vars
<1>2. ASSUME Pardo(w) \/ CallLeft(w) \/ Lock(w) \/ ReturnLeft(w) \/ AfterPop(w) \/ ReturnRight(w) PROVE FJ!FJTypeOK'
  BY <1>1, <1>2 DEF Pardo, CallLeft, Lock, ReturnLeft, AfterPop, ReturnRight
<1>3. ASSUME ReturnJob(w) \/ Spin(w) \/ PopBegin(w) \/ PopLoad(w) \/ PopFence(w) \/ PopCas(w) PROVE FJ!FJTypeOK'
  BY <1>1, <1>3 DEF ReturnJob, Spin, PopBegin, PopLoad, PopFence, PopCas
<1>4. ASSUME ReturnPardo(w) PROVE FJ!FJTypeOK'
  <2>1. Top(w).p \in Pardos
    BY <1>1, <1>4, ReturnIs
  <2> QED
    BY <1>1, <1>4, <2>1 DEF ReturnPardo
<1>5. ASSUME GetJob(w) \/ JobPopped(w) \/ StealCheck(w) \/ StealAge(w) \/ StealBot(w) \/ StealJob(w) PROVE FJ!FJTypeOK'
  BY <1>1, <1>5 DEF GetJob, JobPopped, StealCheck, StealAge, StealBot, StealJob, RunJob
<1>6. ASSUME StealCas(w) \/ Destroy(w) \/ JoinThreads(w) \/ Flush(w) PROVE FJ!FJTypeOK'
  BY <1>1, <1>6 DEF StealCas, Destroy, JoinThreads, Flush, RunJob
<1> QED
  BY <1>2, <1>3, <1>4, <1>5, <1>6 DEF Step

\* The stack.
LEMMA StackStep ==
  ASSUME IInv, ~Aborted, NEW w \in Workers, Step(w) \/ Flush(w)
  PROVE  StackTypes'
<1>1. TypeOK /\ Control(w) /\ DequeInv(w) /\ FramesInv /\ StackTypes
  BY At1, TypeParts
<1>2. stack' = stack \/ stack' = [stack EXCEPT ![w] = stack'[w]]
  <2> USE <1>1 DEF StackTypes, Push, Replace, RunJob, memVars, deqVars, vars
  <2>1. Pardo(w) => stack' = [stack EXCEPT ![w] = stack'[w]]
    BY DEF Pardo
  <2>2. AfterPop(w) => stack' = [stack EXCEPT ![w] = stack'[w]]
    BY DEF AfterPop
  <2>3. ReturnJob(w) \/ ReturnPardo(w) => stack' = [stack EXCEPT ![w] = stack'[w]]
    BY DEF ReturnJob, ReturnPardo
  <2>4. JobPopped(w) \/ StealCas(w) => stack' = stack \/ stack' = [stack EXCEPT ![w] = stack'[w]]
    BY DEF JobPopped, StealCas
  <2>5. CallLeft(w) \/ Lock(w) \/ ReturnLeft(w) \/ ReturnRight(w) \/ Spin(w) \/ PopBegin(w) \/ PopLoad(w) => stack' = stack
    BY DEF CallLeft, Lock, ReturnLeft, ReturnRight, Spin, PopBegin, PopLoad
  <2>6. PopFence(w) \/ PopCas(w) \/ GetJob(w) \/ StealCheck(w) \/ StealAge(w) \/ StealBot(w) \/ StealJob(w) => stack' = stack
    BY DEF PopFence, PopCas, GetJob, StealCheck, StealAge, StealBot, StealJob
  <2>7. Destroy(w) \/ JoinThreads(w) \/ Flush(w) => stack' = stack
    BY DEF Destroy, JoinThreads, Flush
  <2> QED
    BY <2>1, <2>2, <2>3, <2>4, <2>5, <2>6, <2>7 DEF Step
<1>3. stack'[w] \in Seq(Frame_)
  <2>1. CASE IdleStep(w)
    <3>1. stack'[w] = stack[w]
      BY <1>1, <2>1, IdleSteps DEF Idles
    <3> QED
      BY <1>1, <3>1, TypesOf
  <2>2. CASE Pardo(w)
    BY <1>1, <2>2, PardoIs
  <2>3. CASE AfterPop(w)
    BY <1>1, <2>3, AfterPopIs
  <2>4. CASE ReturnJob(w) \/ ReturnPardo(w)
    BY <1>1, <2>4, ReturnIs
  <2>5. CASE Takes(w)
    BY <2>5, TakesIs
  <2>6. CASE CallLeft(w) \/ PopFence(w) \/ PopBegin(w) \/ PopLoad(w) \/ PopCas(w) \/ Flush(w)
    <3>1. stack' = stack
      BY <2>6 DEF CallLeft, PopFence, PopBegin, PopLoad, PopCas, Flush
    <3> QED
      BY <1>1, <3>1, TypesOf
  <2> QED
    BY <2>1, <2>2, <2>3, <2>4, <2>5, <2>6, StepIs
<1> QED
  BY <1>1, <1>2, <1>3 DEF StackTypes

\* The buffers.
LEMMA BufferStep ==
  ASSUME TagsLast, IInv, ~Aborted, NEW w \in Workers, Step(w) \/ Flush(w)
  PROVE  BufferTypes'
<1>1. TypeOK /\ Control(w) /\ DequeInv(w) /\ FramesInv /\ TagInv(w) /\ BufferTypes
  BY At1, TypeParts
<1>2. buf' = buf \/ buf' = [buf EXCEPT ![w] = buf'[w]]
  <2> USE <1>1 DEF BufferTypes, Store, memVars, deqVars, vars
  <2>1. Pardo(w) \/ ReturnJob(w) => buf' = [buf EXCEPT ![w] = buf'[w]]
    BY DEF Pardo, ReturnJob
  <2>2. PopBegin(w) \/ PopLoad(w) \/ PopCas(w) => buf' = buf \/ buf' = [buf EXCEPT ![w] = buf'[w]]
    BY DEF PopBegin, PopLoad, PopCas
  <2>3. Flush(w) \/ Destroy(w) => buf' = [buf EXCEPT ![w] = buf'[w]]
    BY DEF Flush, Destroy
  <2>4. JobPopped(w) \/ StealCas(w) \/ AfterPop(w) \/ ReturnPardo(w) => buf' = buf
    BY DEF JobPopped, StealCas, AfterPop, ReturnPardo
  <2>5. CallLeft(w) \/ Lock(w) \/ ReturnLeft(w) \/ ReturnRight(w) \/ Spin(w) => buf' = buf
    BY DEF CallLeft, Lock, ReturnLeft, ReturnRight, Spin
  <2>6. PopFence(w) \/ GetJob(w) \/ StealCheck(w) \/ StealAge(w) \/ StealBot(w) \/ StealJob(w) \/ JoinThreads(w) => buf' = buf
    BY DEF PopFence, GetJob, StealCheck, StealAge, StealBot, StealJob, JoinThreads
  <2> QED
    BY <2>1, <2>2, <2>3, <2>4, <2>5, <2>6 DEF Step
<1>e. \A b \in Seq(Stores), s \in Stores : Enter(b, s) \in Seq(Stores)
  BY Entered
<1>t. /\ buf[w] \in Seq(Stores) /\ bot[w] \in 0..QSize /\ age[w] \in Age /\ old[w] \in Age /\ <<>> \in Seq(Stores)
      /\ NextTag(age[w]) \in Age /\ NextTag(old[w]) \in Age
  BY <1>1, TypesOf, NextAge
<1>s. /\ \A x \in 0..QSize : BotStore(x) \in Stores
      /\ \A x \in Age : AgeStore(x) \in Stores
      /\ \A i \in 0..(QSize - 1), p \in Pardos : SlotStore(i, p) \in Stores
      /\ \A p \in Pardos : DoneStore(p) \in Stores
      /\ FinishedStore \in Stores
  BY StoresAre
<1>3. buf'[w] \in Seq(Stores)
  <2>1. CASE IdleStep(w)
    <3>1. buf'[w] = buf[w] \/ buf'[w] = Enter(buf[w], FinishedStore)
      BY <1>1, <2>1, IdleSteps DEF Idles
    <3> QED
      BY <1>e, <1>t, <1>s, <3>1
  <2>2. CASE Pardo(w)
    <3>1. buf'[w] = PushedBy(buf[w], bot[w], Called(w)) /\ Called(w) \in Pardos /\ Quiet(pc[w])
      BY <1>1, <2>2, PardoIs DEF Quiet
    <3>2. bot[w] \in 0..(QSize - 1)
      BY <1>1, <3>1, QuietHere DEF QuietOK
    <3>3. SlotStore(bot[w], Called(w)) \in Stores /\ BotStore(bot[w] + 1) \in Stores
      <4>1. bot[w] + 1 \in 0..QSize
        BY <3>2, SchedulerAssumption
      <4> QED
        BY <1>s, <3>1, <3>2, <4>1
    <3> QED
      BY <1>e, <1>t, <3>1, <3>3 DEF PushedBy
  <2>3. CASE ReturnJob(w) \/ ReturnPardo(w)
    <3>1. Top(w).p \in Pardos /\ (buf'[w] = buf[w] \/ buf'[w] = Enter(buf[w], DoneStore(Top(w).p)))
      BY <1>1, <2>3, ReturnIs
    <3> QED
      BY <1>e, <1>t, <1>s, <3>1
  <2>4. CASE PopBegin(w)
    <3>1. buf'[w] = buf[w] \/ \E x \in 0..QSize : buf'[w] = Enter(buf[w], BotStore(x))
      BY <1>1, <2>4, PopBeginOwn
    <3> QED
      BY <1>e, <1>t, <1>s, <3>1
  <2>5. CASE PopLoad(w)
    <3>1. \/ buf'[w] = <<>> \/ buf'[w] = Enter(<<>>, BotStore(0))
          \/ buf'[w] = Enter(Enter(<<>>, BotStore(0)), AgeStore(NextTag(age[w])))
      BY <1>1, <2>5, PopLoadIs
    <3>2. BotStore(0) \in Stores /\ AgeStore(NextTag(age[w])) \in Stores
      BY <1>t, <1>s, SmallTypes
    <3>3. Enter(<<>>, BotStore(0)) \in Seq(Stores)
      BY <1>e, <1>t, <3>2
    <3>4. Enter(Enter(<<>>, BotStore(0)), AgeStore(NextTag(age[w]))) \in Seq(Stores)
      BY <1>e, <3>2, <3>3
    <3> QED
      BY <1>t, <3>1, <3>3, <3>4
  <2>6. CASE PopCas(w)
    <3>1. buf'[w] = <<>> \/ buf'[w] = Enter(<<>>, AgeStore(NextTag(old[w])))
      BY <1>1, <2>6, PopCasIs
    <3> QED
      BY <1>e, <1>t, <1>s, <3>1
  <2>7. CASE Flush(w)
    <3>1. buf'[w] = Tail(buf[w]) /\ buf[w] # <<>>
      BY <1>1, <2>7, FlushIs
    <3> QED
      BY <1>t, <3>1, Left
  <2>8. CASE CallLeft(w) \/ PopFence(w) \/ AfterPop(w) \/ Takes(w)
    <3>1. buf' = buf
      BY <2>8 DEF CallLeft, PopFence, AfterPop, Takes, StealCas
    <3> QED
      BY <1>t, <3>1
  <2> QED
    BY <2>1, <2>2, <2>3, <2>4, <2>5, <2>6, <2>7, <2>8, StepIs
<1> QED
  BY <1>1, <1>2, <1>3 DEF BufferTypes

\* The locals.
LEMMA LocalStep ==
  ASSUME TagsLast, IInv, ~Aborted, NEW w \in Workers, Step(w) \/ Flush(w)
  PROVE  LocalTypes'
<1>1. TypeOK /\ Control(w) /\ DequeInv(w) /\ FramesInv /\ TagInv(w) /\ ThiefInv(w) /\ LocalTypes
  BY At1, TypeParts
<1> USE DEF memVars, deqVars, regVars, fjVars, vars, Labels
<1>a. \A t : Begin(t) \in {"lock", "run"}
  BY SmallTypes
<1>2. ASSUME CallLeft(w) \/ Lock(w) \/ Spin(w) \/ PopFence(w) \/ Destroy(w) \/ JoinThreads(w) \/ ReturnPardo(w) PROVE LocalTypes'
  BY <1>1, <1>2, <1>a DEF LocalTypes, CallLeft, Lock, Spin, PopFence, Destroy, JoinThreads, ReturnPardo
<1>3. ASSUME ReturnLeft(w) \/ ReturnRight(w) \/ ReturnJob(w) PROVE LocalTypes'
  BY <1>1, <1>3 DEF LocalTypes, ReturnLeft, ReturnRight, ReturnJob, Unlock
<1>4. ASSUME Pardo(w) PROVE LocalTypes'
  <2>1. pc' = [pc EXCEPT ![w] = "aborted"] \/ pc' = [pc EXCEPT ![w] = "pushed"]
    BY <1>4 DEF Pardo
  <2> QED
    BY <1>1, <1>4, <2>1 DEF LocalTypes, Pardo
<1>5. ASSUME GetJob(w) \/ StealCheck(w) PROVE LocalTypes'
  <2>1. \E l \in Labels : pc' = [pc EXCEPT ![w] = l]
    BY <1>5 DEF GetJob, StealCheck, LeaveLoop
  <2> QED
    BY <1>1, <1>5, <2>1 DEF LocalTypes, GetJob, StealCheck
<1>6. ASSUME ClearRegs(w), UNCHANGED mutex, \E l \in Labels : pc' = [pc EXCEPT ![w] = l] PROVE LocalTypes'
  BY <1>1, <1>6, SmallTypes DEF LocalTypes, ClearRegs
<1>7. ASSUME AfterPop(w) \/ JobPopped(w) \/ StealCas(w) PROVE LocalTypes'
  <2>1. \E l \in Labels : pc' = [pc EXCEPT ![w] = l]
    BY <1>7, <1>a DEF AfterPop, JobPopped, StealCas, RunJob
  <2> QED
    BY <1>6, <1>7, <2>1 DEF AfterPop, JobPopped, StealCas
<1>8. ASSUME PopBegin(w) PROVE LocalTypes'
  <2>1. \/ pc' = [pc EXCEPT ![w] = "popped"] /\ lb' = lb
        \/ pc' = [pc EXCEPT ![w] = "pop_load"] /\ lb' = [lb EXCEPT ![w] = lb'[w]] /\ lb'[w] \in 0..QSize
    <3>1. lb'[w] \in 0..QSize
      BY <1>1, <1>8, PopBeginOwn
    <3> QED
      BY <1>1, <1>8, <3>1 DEF PopBegin, LocalTypes
  <2> QED
    BY <1>1, <1>8, <2>1 DEF LocalTypes, PopBegin
<1>9. ASSUME PopLoad(w) PROVE LocalTypes'
  <2>1. job'[w] \in Pardos \cup {NoPardo} /\ old'[w] \in Age
    BY <1>1, <1>9, PopLoadOwn
  <2>2. /\ job' = [job EXCEPT ![w] = job'[w]] /\ (old' = old \/ old' = [old EXCEPT ![w] = old'[w]])
        /\ \E l \in Labels : pc' = [pc EXCEPT ![w] = l]
    BY <1>1, <1>9 DEF PopLoad, LocalTypes
  <2> QED
    BY <1>1, <1>9, <2>1, <2>2 DEF LocalTypes, PopLoad
<1>10. ASSUME PopCas(w) PROVE LocalTypes'
  BY <1>1, <1>10 DEF LocalTypes, PopCas
<1>11. ASSUME StealAge(w) PROVE LocalTypes'
  <2>1. PICK d \in Deques : victim' = [victim EXCEPT ![w] = d] /\ old' = [old EXCEPT ![w] = LoadAge(w, d)]
    BY <1>11 DEF StealAge
  <2>2. LoadAge(w, d) = age[d]
    <3>1. Quiet(pc[w])
      BY <1>11 DEF StealAge, Quiet
    <3>2. LoadAge(w, w) = age[w]
      BY <1>1, <3>1, QuietHere
    <3> QED
      BY <3>2, LoadIs
  <2>3. age[d] \in Age
    BY <1>1 DEF TypeOK
  <2> QED
    BY <1>1, <1>11, <2>1, <2>2, <2>3 DEF LocalTypes, StealAge
<1>12. ASSUME StealBot(w) PROVE LocalTypes'
  <2>1. \/ ClearRegs(w) /\ pc' = [pc EXCEPT ![w] = "steal"]
        \/ UNCHANGED regVars /\ pc' = [pc EXCEPT ![w] = "steal_job"]
    BY <1>12 DEF StealBot
  <2> QED
    BY <1>1, <1>6, <1>12, <2>1 DEF LocalTypes, StealBot
<1>13. ASSUME StealJob(w) PROVE LocalTypes'
  <2>1. deq[victim[w]][old[w].top] \in Pardos \cup {NoPardo}
    <3>1. old[w].top \in 0..(QSize - 1)
      <4>a. pc[w] = "steal_job"
        BY <1>13 DEF StealJob
      <4>b. old[w].top < QSize
        BY <1>1, <4>a DEF ThiefInv
      <4>1. old[w] \in Age /\ old[w].top < QSize
        BY <1>1, <4>b, TypesOf
      <4>2. old[w].top \in 0..QSize
        BY <4>1 DEF Age
      <4> QED
        BY <4>1, <4>2, SchedulerAssumption
    <3>2. victim[w] \in Deques /\ deq \in [Deques -> [0..(QSize - 1) -> Pardos \cup {NoPardo}]]
      BY <1>1, TypesOf, TypeParts DEF MemoryTypes
    <3> QED
      BY <3>1, <3>2
  <2> QED
    BY <1>1, <1>13, <2>1 DEF LocalTypes, StealJob
<1>14. ASSUME Flush(w) PROVE LocalTypes'
  BY <1>1, <1>14 DEF LocalTypes, Flush
<1> QED
  BY <1>2, <1>3, <1>4, <1>5, <1>7, <1>8, <1>9, <1>10, <1>11, <1>12, <1>13, <1>14 DEF Step

\* Every step keeps the types.
LEMMA TypeStep ==
  ASSUME TagsLast, IInv, ~Aborted, NEW w \in Workers, Step(w) \/ Flush(w)
  PROVE  TypeOK'
  BY MemoryStep, StackStep, BufferStep, LocalStep, HistoryStep, TypeParts

-----------------------------------------------------------------------------
(* Control.                                                                *)

\* The frames on top at the labels, again.
LEMMA TopsAre ==
  /\ TopFrames("run") = ThunkAt /\ TopFrames("lock") = {"left", "right", "job"}
  /\ \A l \in {"pushed", "aborted", "pop_load", "pop_cas", "pop_fence"} : TopFrames(l) = {"left"}
  /\ \A l \in {"pop", "popped"} : TopFrames(l) = {"left", "wait"}
  /\ TopFrames("return") = {"right", "wait"} /\ TopFrames("join") = {"main"} /\ TopFrames("exited") = {"main", "wait"}
  /\ \A l \in {"spin", "get_job", "steal", "steal_age", "steal_bot", "steal_job", "steal_cas"} : TopFrames(l) = {"wait"}
  BY DEF TopFrames

\* A step that leaves the stack alone.
LEMMA ControlSame ==
  ASSUME TypeOK, NEW w \in Workers, Control(w), stack'[w] = stack[w], Top(w).at \in TopFrames(pc'[w]),
         pc'[w] \in {"return", "spin"} => Top(w).p \in Pardos, pc'[w] = "exited" => Top(w).p = NoPardo,
         pc'[w] \notin {"pop_cas", "pop_fence", "popped", "steal_cas"} => job'[w] = NoPardo
  PROVE  Control(w)'
<1>1. Top(w) = stack[w][Len(stack[w])]
  BY TopIs
<1> QED
  BY <1>1 DEF Control, ControlOK

\* The idle steps go to labels that their top frame may have.
LEMMA QuietControl ==
  ASSUME TypeOK, NEW w \in Workers, Control(w), DequeInv(w), FramesInv, IdleStep(w)
  PROVE  Control(w)'
<1>1. stack'[w] = stack[w]
  BY IdleSteps DEF Idles
<1>2. /\ Top(w).at \in {"left", "right", "job"} => Top(w).p \in Pardos
      /\ pc[w] = "spin" => Top(w).p \in Pardos
      /\ Top(w).at = "main" => Top(w).p = NoPardo
      /\ Top(w).p # NoPardo => Top(w).p \in Pardos
  <2>1. Top(w) = stack[w][Len(stack[w])] /\ Len(stack[w]) \in DOMAIN stack[w] /\ Len(stack[w]) \in Nat \ {0}
        /\ Top(w) \in Frame_
    BY TopIs
  <2>2. Top(w).p \in Pardos \cup {NoPardo}
    BY <2>1 DEF Frame_
  <2>a. \A k \in Nat \ {0} : k = 1 \/ k > 1
    OBVIOUS
  <2>3. Len(stack[w]) = 1 \/ Len(stack[w]) > 1
    BY <2>1, <2>a
  <2> QED
    BY <2>1, <2>2, <2>3, PardosAt
<1>3. ASSUME NEW l, pc'[w] = l, Top(w).at \in TopFrames(l),
             l \in {"return", "spin"} => Top(w).p \in Pardos, l = "exited" => Top(w).p = NoPardo,
             l \notin {"pop_cas", "pop_fence", "popped", "steal_cas"} => job'[w] = NoPardo
      PROVE  Control(w)'
  BY <1>1, <1>3, ControlSame
<1> USE DEF memVars, deqVars, regVars, fjVars, vars
<1>t. TypeOK /\ pc \in [Workers -> Labels] /\ job \in [Workers -> Pardos \cup {NoPardo}]
  BY DEF TypeOK
<1>4. CASE Lock(w)
  <2>1. pc[w] = "lock" /\ pc'[w] = "run" /\ job' = job
    BY <1>4, <1>t DEF Lock
  <2> QED
    BY <1>3, <2>1, TopAt, TopsAre DEF ThunkAt
<1>5. CASE ReturnLeft(w)
  <2>1. pc[w] = "run" /\ pc'[w] = "pop" /\ job' = job /\ Top(w).at = "left"
    BY <1>5, <1>t DEF ReturnLeft
  <2> QED
    BY <1>3, <2>1, TopAt, TopsAre
<1>6. CASE ReturnRight(w)
  <2>1. pc[w] = "run" /\ pc'[w] = "return" /\ job' = job /\ Top(w).at = "right"
    BY <1>6, <1>t DEF ReturnRight
  <2> QED
    BY <1>2, <1>3, <2>1, TopAt, TopsAre
<1>7. CASE Spin(w)
  <2>1. pc[w] = "spin" /\ pc'[w] = "return" /\ job' = job
    BY <1>7, <1>t DEF Spin
  <2> QED
    BY <1>2, <1>3, <2>1, TopAt, TopsAre
<1>8. CASE GetJob(w) \/ StealCheck(w)
  <2>1. /\ pc[w] \in {"get_job", "steal"} /\ job' = job
        /\ \/ pc'[w] = "exited" /\ Top(w).p = NoPardo
           \/ pc'[w] = "return" /\ Top(w).p # NoPardo
           \/ pc'[w] \in {"pop", "steal_age"}
    BY <1>8, <1>t DEF GetJob, StealCheck, LeaveLoop
  <2>2. Top(w).at = "wait" /\ job[w] = NoPardo
    BY <2>1, TopAt
  <2> QED
    BY <1>2, <1>3, <2>1, <2>2, TopsAre
<1>9. CASE JobPopped(w)
  <2>1. job[w] = NoPardo /\ Top(w).at = "wait"
    BY <1>9, WaitsEmpty DEF JobPopped, Quiet
  <2>2. pc'[w] = "steal" /\ job'[w] = NoPardo
    BY <1>9, <1>t, <2>1 DEF JobPopped, ClearRegs
  <2> QED
    BY <1>3, <2>1, <2>2, TopsAre
<1>10. CASE StealAge(w)
  <2>1. pc[w] = "steal_age" /\ pc'[w] = "steal_bot" /\ job' = job
    BY <1>10, <1>t DEF StealAge
  <2> QED
    BY <1>3, <2>1, TopAt, TopsAre
<1>11. CASE StealBot(w)
  <2>1. pc[w] = "steal_bot" /\ pc'[w] \in {"steal", "steal_job"} /\ (job'[w] = NoPardo \/ job' = job)
    BY <1>11, <1>t DEF StealBot, ClearRegs
  <2>2. Top(w).at = "wait" /\ job[w] = NoPardo
    BY <2>1, TopAt
  <2> QED
    BY <1>3, <2>1, <2>2, TopsAre
<1>12. CASE StealJob(w)
  <2>1. pc[w] = "steal_job" /\ pc'[w] = "steal_cas"
    BY <1>12, <1>t DEF StealJob
  <2> QED
    BY <1>3, <2>1, TopAt, TopsAre
<1>13. CASE StealCas(w) /\ age[victim[w]] # old[w]
  <2>1. pc[w] = "steal_cas" /\ pc'[w] = "steal" /\ job'[w] = NoPardo
    BY <1>13, <1>t DEF StealCas, ClearRegs
  <2> QED
    BY <1>3, <2>1, TopAt, TopsAre
<1>14. CASE Destroy(w)
  <2>1. pc[w] = "run" /\ pc'[w] = "join" /\ job' = job /\ Top(w).at = "main"
    BY <1>14, <1>t DEF Destroy
  <2> QED
    BY <1>3, <2>1, TopAt, TopsAre
<1>15. CASE JoinThreads(w)
  <2>1. pc[w] = "join" /\ pc'[w] = "exited" /\ job' = job
    BY <1>15, <1>t DEF JoinThreads
  <2> QED
    BY <1>2, <1>3, <2>1, TopAt, TopsAre
<1> QED
  BY <1>4, <1>5, <1>6, <1>7, <1>8, <1>9, <1>10, <1>11, <1>12, <1>13, <1>14, <1>15 DEF IdleStep

\* The steps that push, pop or replace a frame.
LEMMA FrameControl ==
  ASSUME IInv, ~Aborted, NEW w \in Workers, Pardo(w) \/ AfterPop(w) \/ ReturnJob(w) \/ ReturnPardo(w) \/ Takes(w)
  PROVE  Control(w)'
<1> DEFINE n == Len(stack[w])
           st == stack[w]
<1>1. TypeOK /\ Control(w) /\ DequeInv(w)
  BY At1
<1>2. /\ n \in Nat \ {0} /\ Top(w) = st[n]
      /\ st[1].at = IdleAt(w) /\ st[1].p = NoPardo
      /\ \A i \in 2..n : st[i].at # "main" /\ st[i].p \in Pardos /\ (st[i - 1].at = "wait" <=> st[i].at = "job")
  BY <1>1, TopIs DEF Control, ControlOK, StackShape
<1>i. IdleAt(w) \notin {"left", "right", "job"}
  BY DEF IdleAt
<1>3. ASSUME Len(stack'[w]) \in Nat \ {0}, stack'[w][1].at = IdleAt(w), stack'[w][1].p = NoPardo,
             \A i \in 2..Len(stack'[w]) :
               /\ stack'[w][i].at # "main" /\ stack'[w][i].p \in Pardos
               /\ stack'[w][i - 1].at = "wait" <=> stack'[w][i].at = "job",
             stack'[w][Len(stack'[w])].at \in TopFrames(pc'[w]),
             pc'[w] \in {"return", "spin"} => stack'[w][Len(stack'[w])].p \in Pardos,
             pc'[w] # "exited", job'[w] = NoPardo
      PROVE  Control(w)'
  <2>1. Len(stack'[w]) > 0
    BY <1>3
  <2> QED
    BY <1>3, <2>1 DEF Control, ControlOK, StackShape
<1> HIDE DEF n, st
<1>4. CASE Pardo(w)
  <2> DEFINE p == Called(w)
  <2>1. /\ p \in Pardos /\ pc'[w] = PushedAt(bot[w]) /\ job[w] = NoPardo /\ job' = job /\ Top(w).at \in ThunkAt
        /\ Len(stack'[w]) = n + 1
        /\ \A i \in 1..(n - 1) : stack'[w][i] = st[i]
        /\ stack'[w][n] = AfterCall(st[n])
        /\ stack'[w][n + 1] = Frame("left", p, prog.left[p])
    BY <1>1, <1>2, <1>4, PardoIs DEF n, st
  <2>2. stack'[w][n].at = st[n].at /\ stack'[w][n].p = st[n].p
    <3>1. st[n] \in Frame_
      BY <1>1, <1>2, TopIs
    <3> QED
      BY <2>1, <3>1 DEF AfterCall, Frame_
  <2>3. \A i \in 1..n : stack'[w][i].at = st[i].at /\ stack'[w][i].p = st[i].p
    <3>1. \A i \in 1..n : i = n \/ i \in 1..(n - 1)
      BY <1>2
    <3> QED
      BY <2>1, <2>2, <3>1
  <2>4. /\ stack'[w][n + 1].at = "left" /\ stack'[w][n + 1].p = p /\ st[n].at # "wait"
    BY <1>2, <2>1 DEF Frame, ThunkAt
  <2>5. /\ \A i \in 2..(n + 1) : i = n + 1 \/ (i \in 2..n /\ i \in 1..n /\ i - 1 \in 1..n)
        /\ 1 \in 1..n /\ n \in 1..n /\ n + 1 \in Nat \ {0} /\ (n + 1) - 1 = n
    BY <1>2
  <2> HIDE DEF p
  <2>6. \A i \in 2..(n + 1) :
               /\ stack'[w][i].at # "main" /\ stack'[w][i].p \in Pardos
               /\ stack'[w][i - 1].at = "wait" <=> stack'[w][i].at = "job"
    <3>1. SUFFICES ASSUME NEW i \in 2..(n + 1)
                   PROVE  /\ stack'[w][i].at # "main" /\ stack'[w][i].p \in Pardos
                          /\ stack'[w][i - 1].at = "wait" <=> stack'[w][i].at = "job"
      OBVIOUS
    <3>2. CASE i = n + 1
      <4>1. i - 1 = n /\ stack'[w][n].at = st[n].at
        BY <2>3, <2>5, <3>2
      <4> QED
        BY <2>1, <2>4, <3>2, <4>1
    <3>3. CASE i # n + 1
      <4>1. i \in 2..n /\ i \in 1..n /\ i - 1 \in 1..n
        BY <2>5, <3>3
      <4>2. stack'[w][i].at = st[i].at /\ stack'[w][i].p = st[i].p /\ stack'[w][i - 1].at = st[i - 1].at
        BY <2>3, <4>1
      <4> QED
        BY <1>2, <4>1, <4>2
    <3> QED
      BY <3>2, <3>3
  <2>7. pc'[w] \in {"aborted", "pushed"}
    BY <2>1 DEF PushedAt
  <2>8. stack'[w][1].at = IdleAt(w) /\ stack'[w][1].p = NoPardo
    BY <1>2, <2>3, <2>5
  <2>9. stack'[w][Len(stack'[w])].at \in TopFrames(pc'[w])
    BY <2>1, <2>4, <2>7, TopsAre
  <2> QED
    BY <1>3, <2>1, <2>5, <2>6, <2>7, <2>8, <2>9
<1>5. CASE AfterPop(w)
  <2> DEFINE p == Top(w).p
  <2>1. /\ p \in Pardos /\ Top(w).at = "left" /\ job'[w] = NoPardo
        /\ \/ pc'[w] \in {"lock", "run"} /\ stack'[w][n] = Frame("right", p, prog.right[p])
           \/ pc'[w] \in {"spin", "get_job"} /\ stack'[w][n] = Frame("wait", p, <<>>)
        /\ Len(stack'[w]) = n
        /\ \A i \in 1..(n - 1) : stack'[w][i] = st[i]
    BY <1>1, <1>5, AfterPopIs DEF n, st
  <2>2. n \in 2..n
    <3>1. n # 1
      BY <1>2, <1>i, <2>1
    <3> QED
      BY <1>2, <3>1
  <2>3. \A i \in 2..n : i = n \/ (i \in 1..(n - 1) /\ i - 1 \in 1..(n - 1))
    BY <1>2
  <2>4. 1 \in 1..(n - 1) /\ n - 1 \in 1..(n - 1)
    BY <2>2
  <2>5. st[n - 1].at # "wait"
    BY <1>2, <2>1, <2>2
  <2>6. /\ stack'[w][n].at \in {"right", "wait"} /\ stack'[w][n].p = p
        /\ stack'[w][n].at \in TopFrames(pc'[w]) /\ pc'[w] # "exited"
    BY <2>1, TopsAre DEF Frame, ThunkAt
  <2> HIDE DEF p
  <2>7. \A i \in 2..n :
               /\ stack'[w][i].at # "main" /\ stack'[w][i].p \in Pardos
               /\ stack'[w][i - 1].at = "wait" <=> stack'[w][i].at = "job"
    BY <1>2, <2>1, <2>3, <2>4, <2>5, <2>6
  <2>8. stack'[w][1].at = IdleAt(w) /\ stack'[w][1].p = NoPardo
    BY <1>2, <2>1, <2>4
  <2> QED
    BY <1>2, <1>3, <2>1, <2>6, <2>7, <2>8
<1>6. CASE ReturnJob(w) \/ ReturnPardo(w)
  <2>1. /\ n - 1 \in Nat \ {0} /\ Len(stack'[w]) = n - 1 /\ job'[w] = NoPardo
        /\ \A i \in 1..(n - 1) : stack'[w][i] = st[i]
        /\ \/ Top(w).at = "job" /\ pc'[w] = "get_job"
           \/ Top(w).at \in {"right", "wait"} /\ pc'[w] = "run"
    BY <1>1, <1>6, ReturnIs DEF n, st
  <2>2. n \in 2..n /\ 1 \in 1..(n - 1) /\ n - 1 \in 1..(n - 1) /\ (n - 1 = 1 \/ n - 1 \in 2..n)
    BY <1>2, <2>1
  <2>3. \A i \in 2..(n - 1) : i \in 2..n /\ i \in 1..(n - 1) /\ i - 1 \in 1..(n - 1)
    BY <1>2
  <2>4. st[n - 1].at = "wait" <=> Top(w).at = "job"
    BY <1>2, <2>2
  <2>5. st[n - 1].at \in {"main", "left", "right", "job", "wait"}
    <3>1. st \in Seq(Frame_) /\ DOMAIN st = 1..n
      BY <1>1, TopIs DEF st, n
    <3>2. st[n - 1] \in Frame_
      BY <2>2, <3>1
    <3> QED
      BY <3>2 DEF Frame_, Frames
  <2>6. stack'[w][n - 1].at \in TopFrames(pc'[w])
    BY <2>1, <2>2, <2>4, <2>5, TopsAre DEF ThunkAt
  <2>7. \A i \in 2..(n - 1) :
               /\ stack'[w][i].at # "main" /\ stack'[w][i].p \in Pardos
               /\ stack'[w][i - 1].at = "wait" <=> stack'[w][i].at = "job"
    BY <1>2, <2>1, <2>3
  <2>8. stack'[w][1].at = IdleAt(w) /\ stack'[w][1].p = NoPardo
    BY <1>2, <2>1, <2>2
  <2> QED
    BY <1>3, <2>1, <2>6, <2>7, <2>8
<1>7. CASE Takes(w)
  <2> DEFINE p == job[w]
  <2>1. /\ p \in Pardos /\ pc'[w] \in {"lock", "run"} /\ job'[w] = NoPardo
        /\ Len(stack'[w]) = n + 1
        /\ \A i \in 1..n : stack'[w][i] = st[i]
        /\ stack'[w][n + 1] = Frame("job", p, prog.right[p])
        /\ pc[w] = "steal_cas"
    BY <1>7, TakesIs DEF n, st
  <2>2. st[n].at = "wait"
    BY <1>1, <1>2, <2>1, TopAt
  <2>3. /\ stack'[w][n + 1].at = "job" /\ stack'[w][n + 1].p = p /\ stack'[w][n + 1].at \in TopFrames(pc'[w])
    BY <2>1, TopsAre DEF Frame, ThunkAt
  <2>4. /\ \A i \in 2..(n + 1) : i = n + 1 \/ (i \in 2..n /\ i \in 1..n /\ i - 1 \in 1..n)
        /\ 1 \in 1..n /\ n \in 1..n /\ n + 1 \in Nat \ {0} /\ (n + 1) - 1 = n
    BY <1>2
  <2> HIDE DEF p
  <2>5. \A i \in 2..(n + 1) :
               /\ stack'[w][i].at # "main" /\ stack'[w][i].p \in Pardos
               /\ stack'[w][i - 1].at = "wait" <=> stack'[w][i].at = "job"
    BY <1>2, <2>1, <2>2, <2>3, <2>4
  <2>6. stack'[w][1].at = IdleAt(w) /\ stack'[w][1].p = NoPardo
    BY <1>2, <2>1, <2>4
  <2> QED
    BY <1>3, <2>1, <2>3, <2>4, <2>5, <2>6
<1> QED
  BY <1>4, <1>5, <1>6, <1>7

\* Everybody's control stays right.
LEMMA ControlStep ==
  ASSUME TagsLast, IInv, ~Aborted, NEW w \in Workers, Step(w) \/ Flush(w)
  PROVE  \A x \in Workers : Control(x)'
<1>1. TypeOK /\ Control(w) /\ DequeInv(w) /\ FramesInv /\ TagInv(w)
  BY At1
<1>2. Control(w)'
  <2>1. CASE CallLeft(w) \/ PopFence(w)
    <3>1. /\ stack' = stack /\ job' = job
          /\ \/ pc[w] = "pushed" /\ pc'[w] \in {"lock", "run"}
             \/ pc[w] = "pop_fence" /\ pc'[w] = "popped"
      BY <1>1, <2>1 DEF CallLeft, PopFence, regVars, Begin, TypeOK
    <3>2. Top(w).at = "left" /\ (pc[w] = "pushed" => job[w] = NoPardo)
      BY <1>1, <3>1, TopAt
    <3>3. "left" \in TopFrames(pc'[w])
      BY <3>1, TopsAre DEF ThunkAt
    <3> QED
      BY <1>1, <3>1, <3>2, <3>3, ControlSame
  <2>2. CASE PopBegin(w)
    <3>1. /\ stack' = stack /\ job' = job /\ pc[w] = "pop"
      BY <2>2 DEF PopBegin
    <3>2. pc'[w] \in {"popped", "pop_load"} /\ (pc'[w] = "pop_load" => Top(w).at = "left")
      BY <1>1, <2>2, PopBeginOwn
    <3>3. Top(w).at \in {"left", "wait"} /\ job[w] = NoPardo
      BY <1>1, <3>1, TopAt
    <3>4. Top(w).at \in TopFrames(pc'[w])
      BY <3>2, <3>3, TopsAre
    <3> QED
      BY <1>1, <3>1, <3>2, <3>3, <3>4, ControlSame
  <2>3. CASE PopLoad(w) \/ PopCas(w)
    <3>1. /\ stack' = stack /\ pc[w] \in {"pop_load", "pop_cas"} /\ pc'[w] \in {"popped", "pop_cas", "pop_fence"}
      BY <1>1, <2>3, PopLoadIs, PopCasIs
    <3>2. Top(w).at = "left"
      BY <1>1, <3>1, TopAt
    <3>3. "left" \in TopFrames(pc'[w])
      BY <3>1, TopsAre
    <3> QED
      BY <1>1, <3>1, <3>2, <3>3, ControlSame
  <2>4. CASE Flush(w)
    <3>1. stack' = stack /\ job' = job /\ pc' = pc
      BY <1>1, <2>4, FlushIs
    <3> QED
      BY <1>1, <3>1 DEF Control
  <2> QED
    BY <1>1, <2>1, <2>2, <2>3, <2>4, QuietControl, FrameControl, StepIs
<1>3. ASSUME NEW x \in Workers \ {w} PROVE Control(x)'
  <2>1. Apart(w) /\ Control(x)
    BY <1>1, At1, StepsApart
  <2> QED
    BY <2>1 DEF Apart, Control
<1> QED
  BY <1>2, <1>3

-----------------------------------------------------------------------------
(* Thieves.                                                                *)

\* The age of a deque only grows, and what a thief found ready stays there as long
\* as the age does not change.
LEMMA AgesGrow ==
  ASSUME IInv, TypeOK', Unused', \A y \in Workers : KeepsAt(y), NEW d \in Deques, NEW o \in Age, NotAfter(o, age[d])
  PROVE  NotAfter(o, age'[d]) /\ (age'[d] = o => age[d] = o /\ age'[d] = age[d])
<1>1. age[d] \in Age /\ age'[d] \in Age
  BY DEF IInv, TypeOK
<1>2. NotAfter(age[d], age'[d])
  <2>1. CASE d \in Workers
    BY <2>1 DEF KeepsAt, Keeps
  <2>2. CASE d \notin Workers
    <3>1. age'[d] = age[d]
      BY <2>2, At1 DEF IInv, Unused
    <3> QED
      BY <1>1, <3>1, SameAge
  <2> QED
    BY <2>1, <2>2
<1> QED
  BY <1>1, <1>2, AgeOrder

\* A thief that does not move.
LEMMA ThiefStays ==
  ASSUME IInv, TypeOK', Unused', \A y \in Workers : KeepsAt(y), NEW x \in Workers,
         pc'[x] = pc[x], old'[x] = old[x], victim'[x] = victim[x], job'[x] = job[x]
  PROVE  ThiefInv(x)'
<1> DEFINE y == victim[x]
           o == old[x]
<1>1. TypeOK /\ ThiefInv(x) /\ y \in Deques /\ o \in Age
  BY At1, TypesOf
<1>2. /\ pc[x] \in StealLabels => NotAfter(o, age[y])
      /\ pc[x] \in {"steal_job", "steal_cas"} => o.top < QSize /\ y \in Workers \ {x} /\ (age[y] = o => ReadyAt(y))
      /\ pc[x] = "steal_cas" /\ age[y] = o => job[x] = deq[y][o.top]
  BY <1>1 DEF ThiefInv
<1> HIDE DEF y, o
<1>3. pc[x] \in StealLabels => NotAfter(o, age'[y]) /\ (age'[y] = o => age[y] = o /\ age'[y] = age[y])
  BY <1>1, <1>2, AgesGrow
<1>4. ASSUME pc[x] \in {"steal_job", "steal_cas"}, age'[y] = o
      PROVE  Ready(pc'[y], buf'[y], lb'[y], age'[y], bot'[y]) /\ deq'[y][o.top] = deq[y][o.top] /\ age[y] = o
  <2>1. age[y] = o /\ age'[y] = age[y] /\ ReadyAt(y) /\ y \in Workers
    BY <1>2, <1>3, <1>4 DEF StealLabels
  <2>2. KeepsAt(y)
    BY <2>1
  <2> QED
    BY <2>1, <2>2 DEF KeepsAt, Keeps, ReadyAt
<1>5. victim'[x] = y /\ old'[x] = o /\ pc'[x] = pc[x] /\ job'[x] = job[x]
  BY DEF y, o
<1>6. pc'[x] \in StealLabels => NotAfter(old'[x], age'[victim'[x]])
  BY <1>3, <1>5
<1>7. pc'[x] \in {"steal_job", "steal_cas"} =>
        old'[x].top < QSize /\ victim'[x] \in Workers \ {x}
        /\ (age'[victim'[x]] = old'[x] => Ready(pc'[y], buf'[y], lb'[y], age'[y], bot'[y]))
  BY <1>2, <1>4, <1>5
<1>8. pc'[x] = "steal_cas" /\ age'[victim'[x]] = old'[x] => job'[x] = deq'[victim'[x]][old'[x].top]
  BY <1>2, <1>4, <1>5
<1> QED
  BY <1>5, <1>6, <1>7, <1>8 DEF ThiefInv, ReadyAt

\* A thief that moves.
LEMMA ThiefMoves ==
  ASSUME TagsLast, IInv, ~Aborted, TypeOK', Unused', \A y \in Workers : KeepsAt(y), NEW w \in Workers, Step(w)
  PROVE  ThiefInv(w)'
<1>1. TypeOK /\ Control(w) /\ DequeInv(w) /\ FramesInv /\ TagInv(w) /\ ThiefInv(w) /\ Unused
  BY At1
<1>t. pc \in [Workers -> Labels] /\ victim \in [Workers -> Deques] /\ old \in [Workers -> Age] /\ job \in [Workers -> Pardos \cup {NoPardo}]
  BY <1>1 DEF TypeOK
<1> USE DEF memVars, deqVars, regVars, fjVars, vars
<1>2. ASSUME pc'[w] \notin StealLabels PROVE ThiefInv(w)'
  BY <1>2 DEF ThiefInv, StealLabels
<1>3. CASE StealAge(w)
  <2>1. PICK d \in Deques : victim' = [victim EXCEPT ![w] = d] /\ old' = [old EXCEPT ![w] = LoadAge(w, d)]
    BY <1>3 DEF StealAge
  <2>2. LoadAge(w, d) = age[d]
    <3>1. Quiet(pc[w])
      BY <1>3 DEF StealAge, Quiet
    <3>2. LoadAge(w, w) = age[w]
      BY <1>1, <3>1, QuietHere
    <3> QED
      BY <3>2, LoadIs
  <2>3. pc'[w] = "steal_bot" /\ age' = age /\ victim'[w] = d /\ old'[w] = age[d]
    BY <1>3, <1>t, <2>1, <2>2 DEF StealAge
  <2>4. age[d] \in Age
    BY <1>1 DEF TypeOK
  <2>5. NotAfter(old'[w], age'[victim'[w]])
    BY <2>3, <2>4, SameAge
  <2> QED
    BY <2>3, <2>5 DEF ThiefInv
<1>4. CASE StealBot(w)
  <2> DEFINE d == victim[w]
             o == old[w]
  <2>1. /\ pc[w] = "steal_bot" /\ age' = age /\ bot' = bot /\ buf' = buf
        /\ \/ pc'[w] = "steal"
           \/ pc'[w] = "steal_job" /\ LoadBot(w, d) > o.top /\ lb' = lb /\ old' = old /\ victim' = victim
    <3>1. pc[w] = "steal_bot" /\ age' = age /\ bot' = bot /\ buf' = buf
      BY <1>4 DEF StealBot
    <3>2. LoadBot(w, d) <= o.top \/ LoadBot(w, d) > o.top
      <4>1. LoadBot(w, d) \in Int
        <5>1. Quiet(pc[w])
          BY <3>1 DEF Quiet
        <5>2. LoadBot(w, w) = bot[w] /\ (d # w => LoadBot(w, d) = bot[d])
          BY <1>1, <5>1, QuietHere, LoadIs
        <5>3. bot[d] \in 0..QSize /\ bot[w] \in 0..QSize
          BY <1>1, <1>t, TypesOf DEF TypeOK
        <5> QED
          BY <5>2, <5>3
      <4>2. o.top \in Int
        BY <1>t DEF Age
      <4> QED
        BY <4>1, <4>2
    <3>3. CASE LoadBot(w, d) <= o.top
      BY <1>4, <1>t, <3>1, <3>3 DEF StealBot
    <3>4. CASE ~(LoadBot(w, d) <= o.top)
      BY <1>4, <1>t, <3>1, <3>2, <3>4 DEF StealBot
    <3> QED
      BY <3>3, <3>4
  <2>2. CASE pc'[w] = "steal"
    BY <1>2, <2>2 DEF StealLabels
  <2>3. CASE pc'[w] = "steal_job" /\ LoadBot(w, d) > o.top /\ lb' = lb /\ old' = old /\ victim' = victim
    <3>1. d \in Deques /\ o \in Age /\ o.top \in Nat /\ QSize \in Nat /\ bot[d] \in 0..QSize
      <4>1. d \in Deques /\ o \in Age
        BY <1>t
      <4>2. bot[d] \in 0..QSize
        BY <1>1, <4>1 DEF TypeOK
      <4> QED
        BY <4>1, <4>2, SchedulerAssumption DEF Age
    <3>2. d \in Workers \ {w}
      <4>1. d # w
        <5>1. Quiet(pc[w]) /\ Top(w).at = "wait"
          BY <1>1, <2>1, TopAt DEF Quiet
        <5>2. LoadBot(w, w) = 0
          BY <1>1, <5>1, QuietHere, WaitsEmpty
        <5> QED
          BY <2>3, <3>1, <5>2
      <4>2. LoadBot(w, d) = bot[d]
        BY <4>1, LoadIs
      <4>3. d \in Workers
        BY <1>1, <2>3, <3>1, <4>2 DEF Unused
      <4> QED
        BY <4>1, <4>3
    <3>3. bot[d] > o.top
      BY <2>3, <3>2, LoadIs
    <3>4. o.top < QSize
      BY <3>1, <3>3
    <3>5. age[d] = o => ReadyAt(d)
      <4>1. SUFFICES ASSUME age[d] = o PROVE ReadyAt(d)
        OBVIOUS
      <4>2. DequeInv(d)
        BY <3>2, At1
      <4> DEFINE M == MemIn(pc[d], buf[d], lb[d], bot[d])
      <4>3. bot[d] <= M \/ (pc[d] = "pop_fence" /\ bot[d] <= age[d].top)
        BY <4>2 DEF DequeInv, DequeOK
      <4>4. M \in Int
        <5>1. JobsIn(pc[d], buf[d], lb[d], bot[d]) \in 0..(QSize - 1)
          BY <4>2 DEF DequeInv, DequeOK
        <5> QED
          BY <5>1, SchedulerAssumption DEF MemIn
      <4> HIDE DEF M
      <4>5. age[d].top < M
        BY <3>1, <3>3, <4>1, <4>3, <4>4
      <4> QED
        BY <4>5 DEF ReadyAt, Ready, M
    <3>6. /\ age'[d] = age[d] /\ bot'[d] = bot[d] /\ buf'[d] = buf[d] /\ lb'[d] = lb[d] /\ pc'[d] = pc[d]
          /\ victim'[w] = d /\ old'[w] = o
      <4>1. pc'[d] = pc[d]
        BY <1>1, <3>2, StepsApart DEF Apart
      <4> QED
        BY <2>1, <2>3, <4>1
    <3>7. NotAfter(o, age[d])
      BY <1>1, <2>1 DEF ThiefInv, StealLabels
    <3> HIDE DEF d, o
    <3> QED
      BY <2>3, <3>2, <3>4, <3>5, <3>6, <3>7 DEF ThiefInv, ReadyAt
  <2> QED
    BY <2>1, <2>2, <2>3
<1>5. CASE StealJob(w)
  <2> DEFINE d == victim[w]
             o == old[w]
  <2>1. /\ pc[w] = "steal_job" /\ pc'[w] = "steal_cas" /\ age' = age /\ bot' = bot /\ buf' = buf /\ deq' = deq
        /\ lb' = lb /\ old' = old /\ victim' = victim /\ job'[w] = deq[d][o.top]
    BY <1>5, <1>t DEF StealJob
  <2>2. d \in Workers \ {w} /\ o.top < QSize /\ NotAfter(o, age[d]) /\ (age[d] = o => ReadyAt(d))
    BY <1>1, <2>1 DEF ThiefInv, StealLabels
  <2>3. pc'[d] = pc[d]
    BY <1>1, <2>2, StepsApart DEF Apart
  <2> QED
    BY <2>1, <2>2, <2>3 DEF ThiefInv, ReadyAt
<1>6. pc'[w] \notin StealLabels \/ StealAge(w) \/ StealBot(w) \/ StealJob(w)
  <2> USE <1>t DEF StealLabels
  <2>1. Pardo(w) \/ CallLeft(w) \/ Lock(w) \/ ReturnLeft(w) \/ AfterPop(w) \/ ReturnRight(w) => pc'[w] \notin StealLabels
    BY DEF Pardo, CallLeft, Lock, ReturnLeft, AfterPop, ReturnRight, Begin
  <2>2. ReturnJob(w) \/ ReturnPardo(w) \/ Spin(w) \/ PopBegin(w) \/ PopLoad(w) \/ PopFence(w) \/ PopCas(w) => pc'[w] \notin StealLabels
    BY DEF ReturnJob, ReturnPardo, Spin, PopBegin, PopLoad, PopFence, PopCas
  <2>3. GetJob(w) \/ JobPopped(w) \/ StealCheck(w) \/ StealCas(w) \/ Destroy(w) \/ JoinThreads(w) => pc'[w] \notin StealLabels
    BY DEF GetJob, JobPopped, StealCheck, StealCas, Destroy, JoinThreads, LeaveLoop, RunJob, Begin
  <2> QED
    BY <2>1, <2>2, <2>3 DEF Step
<1> QED
  BY <1>2, <1>3, <1>4, <1>5, <1>6

\* Every step keeps what thieves know.
LEMMA ThiefStep ==
  ASSUME TagsLast, IInv, ~Aborted, NEW w \in Workers, Step(w) \/ Flush(w)
  PROVE  \A x \in Workers : ThiefInv(x)'
<1>1. TypeOK /\ TypeOK' /\ Unused' /\ \A y \in Workers : KeepsAt(y)
  BY At1, TypeStep, UnusedStep, DequeStep
<1>2. ASSUME NEW x \in Workers \ {w} PROVE ThiefInv(x)'
  <2>1. Apart(w)
    BY <1>1, StepsApart
  <2>2. pc'[x] = pc[x] /\ old'[x] = old[x] /\ victim'[x] = victim[x] /\ job'[x] = job[x]
    BY <2>1 DEF Apart
  <2> QED
    BY <1>1, <2>2, ThiefStays
<1>3. ThiefInv(w)'
  <2>1. CASE Step(w)
    BY <1>1, <2>1, ThiefMoves
  <2>2. CASE Flush(w)
    <3>1. pc' = pc /\ old' = old /\ victim' = victim /\ job' = job
      BY <1>1, <2>2, FlushIs
    <3> QED
      BY <1>1, <3>1, ThiefStays
  <2> QED
    BY <2>1, <2>2
<1> QED
  BY <1>2, <1>3

-----------------------------------------------------------------------------
(* The tags.                                                               *)

\* The pardos whose left() is done are counted, and they only become more.
LEMMA DonesCount ==
  ASSUME TagsLast
  PROVE  /\ Cardinality(DoneLefts) \in Nat /\ Cardinality(DoneLefts') \in Nat
         /\ Cardinality(DoneLefts) < TagMod
         /\ (\A p \in Pardos : left[p] = "done" => left'[p] = "done") => Cardinality(DoneLefts) <= Cardinality(DoneLefts')
         /\ \A p \in Pardos : left[p] # "done" /\ left'[p] = "done" /\ (\A q \in Pardos \ {p} : left'[q] = left[q])
                                => Cardinality(DoneLefts') = Cardinality(DoneLefts) + 1
<1>1. IsFiniteSet(Pardos) /\ Cardinality(Pardos) < TagMod /\ Cardinality(Pardos) \in Nat /\ TagMod \in Nat
  BY FS_CardinalityType, SchedulerAssumption DEF TagsLast
<1>2. IsFiniteSet(DoneLefts) /\ IsFiniteSet(DoneLefts') /\ Cardinality(DoneLefts) <= Cardinality(Pardos)
  <2>1. DoneLefts \in SUBSET Pardos /\ DoneLefts' \in SUBSET Pardos
    BY DEF DoneLefts
  <2> QED
    BY <1>1, <2>1, FS_Subset
<1>3. Cardinality(DoneLefts) \in Nat /\ Cardinality(DoneLefts') \in Nat
  BY <1>2, FS_CardinalityType
<1>4. ASSUME \A p \in Pardos : left[p] = "done" => left'[p] = "done" PROVE Cardinality(DoneLefts) <= Cardinality(DoneLefts')
  <2>1. DoneLefts \in SUBSET DoneLefts'
    BY <1>4 DEF DoneLefts
  <2> QED
    BY <1>2, <2>1, FS_Subset
<1>5. ASSUME NEW p \in Pardos, left[p] # "done", left'[p] = "done", \A q \in Pardos \ {p} : left'[q] = left[q]
      PROVE  Cardinality(DoneLefts') = Cardinality(DoneLefts) + 1
  <2>1. DoneLefts' = DoneLefts \cup {p} /\ p \notin DoneLefts
    BY <1>5 DEF DoneLefts
  <2> QED
    BY <1>2, <2>1, FS_AddElement
<1> QED
  BY <1>1, <1>2, <1>3, <1>4, <1>5

\* left() goes from idle to running to done.
LEMMA LeftsGo ==
  ASSUME IInv, ~Aborted, NEW w \in Workers, Step(w) \/ Flush(w)
  PROVE  \/ left' = left /\ ~Pardo(w) /\ ~ReturnLeft(w)
         \/ Pardo(w) /\ left[Called(w)] = "idle" /\ Called(w) \in Pardos /\ left' = [left EXCEPT ![Called(w)] = "running"]
         \/ /\ ReturnLeft(w) /\ Top(w).p \in Pardos /\ left[Top(w).p] = "running"
            /\ left' = [left EXCEPT ![Top(w).p] = "done"]
<1>1. TypeOK /\ Control(w) /\ DequeInv(w) /\ FramesInv
  BY At1
<1> USE DEF fjVars, vars
<1>2. CASE Pardo(w)
  BY <1>1, <1>2, CalledIsNew, PardoIs
<1>3. CASE ReturnLeft(w)
  <2>1. pc[w] = "run" /\ Top(w).at = "left" /\ left' = [left EXCEPT ![Top(w).p] = "done"]
    BY <1>3 DEF ReturnLeft
  <2>2. Top(w) = stack[w][Len(stack[w])] /\ Len(stack[w]) \in DOMAIN stack[w]
    BY <1>1, TopIs
  <2>3. FrameTells(w, Len(stack[w])) /\ Top(w).p \in Pardos
    BY <1>1, <2>1, <2>2, PardosAt DEF FramesInv
  <2>4. left[Top(w).p] = "running"
    BY <2>1, <2>2, <2>3 DEF FrameTells, PopLabels
  <2> QED
    BY <1>3, <2>1, <2>3, <2>4
<1>4. ~Pardo(w) /\ ~ReturnLeft(w) => left' = left
  <2>1. CallLeft(w) \/ Lock(w) \/ AfterPop(w) \/ ReturnRight(w) \/ ReturnJob(w) \/ ReturnPardo(w) => left' = left
    BY DEF CallLeft, Lock, AfterPop, ReturnRight, ReturnJob, ReturnPardo
  <2>2. Spin(w) \/ PopBegin(w) \/ PopLoad(w) \/ PopFence(w) \/ PopCas(w) \/ GetJob(w) \/ JobPopped(w) => left' = left
    BY DEF Spin, PopBegin, PopLoad, PopFence, PopCas, GetJob, JobPopped
  <2>3. StealCheck(w) \/ StealAge(w) \/ StealBot(w) \/ StealJob(w) \/ StealCas(w) => left' = left
    BY DEF StealCheck, StealAge, StealBot, StealJob, StealCas
  <2>4. Destroy(w) \/ JoinThreads(w) \/ Flush(w) => left' = left
    BY DEF Destroy, JoinThreads, Flush
  <2> QED
    BY <2>1, <2>2, <2>3, <2>4 DEF Step
<1> QED
  BY <1>2, <1>3, <1>4

\* So the count grows, and by one when left() returns.
LEMMA DonesGrow ==
  ASSUME TagsLast, IInv, ~Aborted, NEW w \in Workers, Step(w) \/ Flush(w)
  PROVE  /\ Cardinality(DoneLefts) \in Nat /\ Cardinality(DoneLefts') \in Nat
         /\ Cardinality(DoneLefts) <= Cardinality(DoneLefts')
         /\ ReturnLeft(w) => Cardinality(DoneLefts') = Cardinality(DoneLefts) + 1
<1>1. left \in [Pardos -> FJ!ThunkState]
  BY At1 DEF TypeOK, FJ!FJTypeOK
<1>2. CASE left' = left /\ ~Pardo(w) /\ ~ReturnLeft(w)
  BY <1>2, DonesCount
<1>3. CASE Pardo(w) /\ left[Called(w)] = "idle" /\ Called(w) \in Pardos /\ left' = [left EXCEPT ![Called(w)] = "running"]
  <2>1. \A p \in Pardos : left[p] = "done" => left'[p] = "done"
    BY <1>1, <1>3
  <2>2. pc[w] = "run" /\ pc'[w] # "pop"
    BY <1>3, At1 DEF Pardo, TypeOK
  <2>3. ~ReturnLeft(w)
    BY <2>2, At1 DEF ReturnLeft, TypeOK
  <2> QED
    BY <2>1, <2>3, DonesCount
<1>4. CASE /\ ReturnLeft(w) /\ Top(w).p \in Pardos /\ left[Top(w).p] = "running"
           /\ left' = [left EXCEPT ![Top(w).p] = "done"]
  <2>1. \A p \in Pardos : left[p] = "done" => left'[p] = "done"
    BY <1>1, <1>4
  <2>2. left[Top(w).p] # "done" /\ left'[Top(w).p] = "done" /\ \A q \in Pardos \ {Top(w).p} : left'[q] = left[q]
    BY <1>1, <1>4
  <2> QED
    BY <1>4, <2>1, <2>2, DonesCount
<1> QED
  BY <1>2, <1>3, <1>4, LeftsGo

\* What leaves the tags as they are.
TagsSame(l, at, b, a, l2, at2, b2, a2) ==
  /\ a2.tag = a.tag /\ (PopsIn(l2, at2) = 0 \/ PopsIn(l2, at2) = PopsIn(l, at))
  /\ \A i \in In(b2, "age") : \E j \in In(b, "age") : b2[i] = b[j]
\* Then the bound on the tags stays.
LEMMA TagsStay ==
  ASSUME NEW l, NEW at, NEW b \in Seq(Stores), NEW a \in Age, NEW n \in Nat, NEW l2, NEW at2, NEW b2, NEW a2, NEW m \in Nat,
         n <= m, TagsOK(l, at, b, a, n), TagsSame(l, at, b, a, l2, at2, b2, a2)
  PROVE  TagsOK(l2, at2, b2, a2, m)
<1> USE DEF TagsSame
<1>1. a.tag \in Nat /\ PopsIn(l, at) \in {0, 1} /\ PopsIn(l2, at2) \in {0, 1}
  BY SchedulerAssumption DEF Age, PopsIn
<1>2. \A j \in In(b, "age") : b[j].val.tag \in Nat /\ b[j].val.tag <= n
  <2>1. \A j \in In(b, "age") : b[j] \in Stores /\ b[j].loc = "age"
    BY DEF In
  <2>2. \A j \in In(b, "age") : b[j].val \in Age
    BY <2>1, StoreVal
  <2> QED
    BY <2>2, SchedulerAssumption DEF Age, TagsOK
<1>3. \A i \in In(b2, "age") : b2[i].val.tag <= m
  BY <1>2
<1>4. a2.tag + PopsIn(l2, at2) <= m
  BY <1>1 DEF TagsOK
<1> QED
  BY <1>3, <1>4 DEF TagsOK

\* What a store other than to age, entering the buffer, does not change.
LEMMA NoAgeEnters ==
  ASSUME NEW b \in Seq(Stores), NEW s \in Stores, s.loc # "age"
  PROVE  Enter(b, s) \in Seq(Stores) /\ \A i \in In(Enter(b, s), "age") : i \in In(b, "age") /\ Enter(b, s)[i] = b[i]
<1> DEFINE c == Enter(b, s)
<1>0. /\ c \in Seq(Stores) /\ \A i \in DOMAIN b : c[i] = b[i]
      /\ \A l : In(c, l) = In(b, l) \cup (IF s.loc = l THEN {Len(b) + 1} ELSE {})
  BY Entered
<1> HIDE DEF c
<1>1. In(c, "age") = In(b, "age")
  BY <1>0
<1> USE <1>0 DEF c
<1> QED
  BY <1>1 DEF In

\* The tag of the worker's own deque.
LEMMA TagOwn ==
  ASSUME TagsLast, IInv, ~Aborted, NEW w \in Workers, Step(w) \/ Flush(w)
  PROVE  TagInv(w)'
<1> DEFINE n == Cardinality(DoneLefts)
           m == Cardinality(DoneLefts')
           b == buf[w]
           a == age[w]
<1>1. TypeOK /\ Control(w) /\ DequeInv(w) /\ FramesInv /\ TagInv(w)
  BY At1
<1>2. n \in Nat /\ m \in Nat /\ n <= m /\ (ReturnLeft(w) => m = n + 1)
  BY DonesGrow
<1>3. b \in Seq(Stores) /\ a \in Age /\ <<>> \in Seq(Stores) /\ In(<<>>, "age") = {} /\ w \in Deques
  <2>1. In(<<>>, "age") = {}
    BY DEF In
  <2> QED
    BY <1>1, <2>1, TypesOf
<1>4. TagsOK(pc[w], Top(w).at, b, a, n)
  BY <1>1 DEF TagInv
<1>5. TagInv(w)' <=> TagsOK(pc'[w], Top(w)'.at, buf'[w], age'[w], m)
  BY DEF TagInv
<1> HIDE DEF n, m
<1>6. ASSUME age'[w].tag = a.tag,
             PopsIn(pc'[w], Top(w)'.at) = 0 \/ PopsIn(pc'[w], Top(w)'.at) = PopsIn(pc[w], Top(w).at),
             \A i \in In(buf'[w], "age") : \E j \in In(b, "age") : buf'[w][i] = b[j]
      PROVE  TagInv(w)'
  <2> HIDE DEF a, b
  <2>2. TagsSame(pc[w], Top(w).at, b, a, pc'[w], Top(w)'.at, buf'[w], age'[w])
    BY <1>6 DEF TagsSame
  <2>1. TagsOK(pc'[w], Top(w)'.at, buf'[w], age'[w], m)
    BY <1>2, <1>3, <1>4, <2>2, TagsStay
  <2> QED
    BY <1>5, <2>1
<1>s. stack'[w] = stack[w] => Top(w)' = Top(w)
  BY DEF Top
<1>e. \A s \in Stores : s.loc # "age" => \A i \in In(Enter(b, s), "age") : \E j \in In(b, "age") : Enter(b, s)[i] = b[j]
  <2>1. ASSUME NEW s \in Stores, s.loc # "age"
        PROVE  \A i \in In(Enter(b, s), "age") : i \in In(b, "age") /\ Enter(b, s)[i] = b[i]
    <3> HIDE DEF b
    <3> QED
      BY <1>3, <2>1, NoAgeEnters
  <2> QED
    BY <2>1
<1>7. CASE ReturnLeft(w)
  <2>1. pc[w] = "run" /\ Top(w).at = "left" /\ pc'[w] = "pop" /\ stack' = stack /\ buf' = buf /\ age' = age
    BY <1>1, <1>7 DEF ReturnLeft, memVars, deqVars, TypeOK
  <2>2. PopsIn(pc[w], Top(w).at) = 0 /\ PopsIn(pc'[w], Top(w)'.at) = 1
    BY <1>s, <2>1 DEF PopsIn
  <2>3. a.tag \in Nat
    BY <1>3, SchedulerAssumption DEF Age
  <2>4. a.tag + 1 <= m
    BY <1>2, <1>4, <1>7, <2>2, <2>3 DEF TagsOK
  <2>5. \A i \in In(b, "age") : b[i].val.tag \in Nat /\ b[i].val.tag <= n
    <3>1. \A i \in In(b, "age") : b[i] \in Stores /\ b[i].loc = "age"
      BY <1>3 DEF In
    <3> QED
      BY <1>4, <3>1, StoreVal, SchedulerAssumption DEF TagsOK, Age
  <2>6. \A i \in In(b, "age") : b[i].val.tag <= m
    BY <1>2, <2>5
  <2> QED
    BY <1>5, <2>1, <2>2, <2>4, <2>6 DEF TagsOK
<1>8. CASE IdleStep(w) /\ ~ReturnLeft(w)
  <2>1. stack'[w] = stack[w] /\ age' = age /\ (buf'[w] = b \/ buf'[w] = Enter(b, FinishedStore))
    BY <1>1, <1>8, IdleSteps DEF Idles
  <2>2. PopsIn(pc'[w], Top(w).at) = 0
    <3> USE DEF PopsIn, memVars, deqVars, regVars, fjVars, vars
    <3>t. pc \in [Workers -> Labels]
      BY <1>1 DEF TypeOK
    <3>1. CASE GetJob(w)
      <4>1. Top(w).at = "wait"
        BY <1>1, <3>1, TopAt DEF GetJob
      <4> QED
        BY <4>1
    <3>2. CASE Lock(w) \/ ReturnRight(w) \/ Spin(w) \/ StealAge(w) \/ StealJob(w) \/ StealCas(w) \/ Destroy(w) \/ JoinThreads(w)
      <4>1. pc'[w] \notin {"pop", "pop_load", "pop_cas"}
        BY <3>t, <3>2 DEF Lock, ReturnRight, Spin, StealAge, StealJob, StealCas, Destroy, JoinThreads, RunJob, Begin
      <4> QED
        BY <4>1
    <3>3. CASE JobPopped(w) \/ StealCheck(w) \/ StealBot(w)
      <4>1. pc'[w] \notin {"pop", "pop_load", "pop_cas"}
        BY <3>t, <3>3 DEF JobPopped, StealCheck, StealBot, RunJob, LeaveLoop, Begin
      <4> QED
        BY <4>1
    <3> QED
      BY <1>8, <3>1, <3>2, <3>3 DEF IdleStep
  <2>3. \A i \in In(buf'[w], "age") : \E j \in In(b, "age") : buf'[w][i] = b[j]
    BY <1>e, <2>1, StoresAre
  <2> QED
    BY <1>6, <1>s, <2>1, <2>2, <2>3
<1>9. CASE Pardo(w)
  <2>1. buf'[w] = PushedBy(b, bot[w], Called(w)) /\ Called(w) \in Pardos /\ Quiet(pc[w]) /\ pc'[w] = PushedAt(bot[w]) /\ age' = age
    BY <1>1, <1>9, PardoIs DEF Quiet
  <2>2. SlotStore(bot[w], Called(w)) \in Stores /\ (bot[w] + 1 # QSize => BotStore(bot[w] + 1) \in Stores)
        /\ SlotStore(bot[w], Called(w)).loc = "slot" /\ BotStore(bot[w] + 1).loc = "bot"
    <3>1. bot[w] \in 0..(QSize - 1)
      BY <1>1, <2>1, QuietHere DEF QuietOK
    <3>2. bot[w] + 1 \in 0..QSize
      BY <3>1, SchedulerAssumption
    <3> QED
      BY <2>1, <3>1, <3>2, StoresAre
  <2> DEFINE c == Enter(b, SlotStore(bot[w], Called(w)))
  <2>3. c \in Seq(Stores) /\ \A i \in In(c, "age") : i \in In(b, "age") /\ c[i] = b[i]
    BY <1>3, <2>2, NoAgeEnters
  <2>4. \A i \in In(buf'[w], "age") : \E j \in In(b, "age") : buf'[w][i] = b[j]
    <3>1. CASE bot[w] + 1 = QSize
      BY <2>1, <2>3, <3>1 DEF PushedBy
    <3>2. CASE bot[w] + 1 # QSize
      <4> HIDE DEF c, b
      <4>1. buf'[w] = Enter(c, BotStore(bot[w] + 1))
        BY <2>1, <3>2 DEF PushedBy, c
      <4>2. \A i \in In(buf'[w], "age") : i \in In(c, "age") /\ buf'[w][i] = c[i]
        BY <2>2, <2>3, <3>2, <4>1, NoAgeEnters
      <4> QED
        BY <2>3, <4>2
    <3> QED
      BY <3>1, <3>2
  <2>5. PopsIn(pc'[w], Top(w)'.at) = 0
    BY <2>1 DEF PopsIn, PushedAt
  <2> QED
    BY <1>6, <2>1, <2>4, <2>5
<1>10. CASE CallLeft(w) \/ PopFence(w) \/ AfterPop(w)
  <2>1. age' = age /\ buf' = buf /\ pc'[w] \notin {"pop", "pop_load", "pop_cas"}
    BY <1>1, <1>10 DEF CallLeft, PopFence, AfterPop, Begin, memVars, deqVars, TypeOK
  <2>2. PopsIn(pc'[w], Top(w)'.at) = 0
    BY <2>1 DEF PopsIn
  <2> QED
    BY <1>6, <2>1, <2>2
<1>11. CASE ReturnJob(w) \/ ReturnPardo(w)
  <2>1. /\ age' = age /\ pc'[w] \in {"get_job", "run"} /\ Top(w).p \in Pardos
        /\ buf'[w] = b \/ buf'[w] = Enter(b, DoneStore(Top(w).p))
    BY <1>1, <1>11, ReturnIs
  <2>2. PopsIn(pc'[w], Top(w)'.at) = 0
    BY <2>1 DEF PopsIn
  <2>3. \A i \in In(buf'[w], "age") : \E j \in In(b, "age") : buf'[w][i] = b[j]
    BY <1>e, <2>1, StoresAre
  <2> QED
    BY <1>6, <2>1, <2>2, <2>3
<1>12. CASE PopBegin(w)
  <2>1. /\ pc[w] = "pop" /\ pc'[w] \in {"popped", "pop_load"}
        /\ buf'[w] = b \/ \E x \in 0..QSize : buf'[w] = Enter(b, BotStore(x))
    BY <1>1, <1>12, PopBeginOwn
  <2>2. age' = age /\ stack' = stack
    BY <1>12 DEF PopBegin, memVars, deqVars
  <2>3. PopsIn(pc'[w], Top(w).at) = 0 \/ PopsIn(pc'[w], Top(w).at) = PopsIn(pc[w], Top(w).at)
    BY <2>1 DEF PopsIn
  <2>4. \A i \in In(buf'[w], "age") : \E j \in In(b, "age") : buf'[w][i] = b[j]
    BY <1>e, <2>1, StoresAre
  <2> QED
    BY <1>6, <1>s, <2>2, <2>3, <2>4
<1>13. CASE PopLoad(w)
  <2>1. /\ pc[w] = "pop_load" /\ b = <<>> /\ stack' = stack /\ age' = age
        /\ \/ pc'[w] = "popped" /\ buf'[w] = <<>>
           \/ pc'[w] = "pop_cas" /\ buf'[w] = Enter(<<>>, BotStore(0))
           \/ pc'[w] = "pop_fence" /\ buf'[w] = Enter(Enter(<<>>, BotStore(0)), AgeStore(NextTag(a)))
    BY <1>1, <1>13, PopLoadIs
  <2>2. CASE pc'[w] = "popped" /\ buf'[w] = <<>>
    <3>1. PopsIn(pc'[w], Top(w)'.at) = 0
      BY <2>2 DEF PopsIn
    <3> QED
      BY <1>3, <1>6, <2>1, <2>2, <3>1
  <2>3. CASE pc'[w] = "pop_cas" /\ buf'[w] = Enter(<<>>, BotStore(0))
    <3>1. PopsIn(pc'[w], Top(w).at) = PopsIn(pc[w], Top(w).at)
      BY <2>1, <2>3 DEF PopsIn
    <3>2. BotStore(0) \in Stores /\ BotStore(0).loc # "age"
      BY SmallTypes, StoresAre
    <3>3. \A i \in In(buf'[w], "age") : \E j \in In(b, "age") : buf'[w][i] = b[j]
      BY <1>e, <2>1, <2>3, <3>2
    <3> QED
      BY <1>6, <1>s, <2>1, <3>1, <3>3
  <2>4. CASE pc'[w] = "pop_fence" /\ buf'[w] = Enter(Enter(<<>>, BotStore(0)), AgeStore(NextTag(a)))
    <3> DEFINE c == Enter(<<>>, BotStore(0))
    <3>1. Top(w).at = "left" /\ PopsIn(pc[w], Top(w).at) = 1
      <4>1. Top(w).at = "left"
        BY <1>1, <2>1, TopAt
      <4> QED
        BY <2>1, <4>1 DEF PopsIn
    <3>2. a.tag + 1 <= n
      BY <1>4, <3>1 DEF TagsOK
    <3>3. a.tag + 1 < TagMod /\ a.tag \in Nat
      BY <1>1, <1>3, <2>1, TagRoom, SchedulerAssumption DEF Age
    <3>4. NextTag(a) \in Age /\ NextTag(a).tag = a.tag + 1
      BY <1>3, <3>3, NextAge
    <3>5. BotStore(0) \in Stores /\ BotStore(0).loc # "age"
      BY SmallTypes, StoresAre
    <3>6. c \in Seq(Stores) /\ \A i \in In(c, "age") : i \in In(<<>>, "age")
      BY <1>3, <3>5, NoAgeEnters
    <3>7. In(c, "age") = {}
      BY <1>3, <3>6
    <3>8. AgeStore(NextTag(a)) \in Stores /\ AgeStore(NextTag(a)).loc = "age" /\ AgeStore(NextTag(a)).val = NextTag(a)
      BY <3>4, StoresAre
    <3> HIDE DEF c, a
    <3>9. \A i \in In(Enter(c, AgeStore(NextTag(a))), "age") : Enter(c, AgeStore(NextTag(a)))[i].val = NextTag(a)
      <4> DEFINE s == AgeStore(NextTag(a))
                 c2 == Enter(c, s)
      <4>1. c2[Len(c) + 1] = s /\ \A l : In(c2, l) = In(c, l) \cup (IF s.loc = l THEN {Len(c) + 1} ELSE {})
        BY <3>6, <3>8, Entered
      <4> HIDE DEF c2
      <4>2. In(c2, "age") = {Len(c) + 1}
        BY <3>7, <3>8, <4>1
      <4>3. \A i \in In(c2, "age") : c2[i].val = NextTag(a)
        BY <3>8, <4>1, <4>2
      <4> QED
        BY <4>3 DEF c2
    <3>10. buf'[w] = Enter(c, AgeStore(NextTag(a))) /\ PopsIn(pc'[w], Top(w)'.at) = 0
      BY <2>4 DEF c, PopsIn
    <3>11. age'[w] = a
      BY <2>1 DEF a
    <3>12. a.tag + 0 <= m /\ a.tag + 1 <= m
      BY <1>2, <3>2, <3>3
    <3> QED
      BY <1>5, <3>4, <3>9, <3>10, <3>11, <3>12 DEF TagsOK
  <2> QED
    BY <2>1, <2>2, <2>3, <2>4
<1>14. CASE PopCas(w)
  <2> DEFINE o == old[w]
  <2>1. /\ pc[w] = "pop_cas" /\ b = <<>> /\ pc'[w] = "pop_fence"
        /\ \/ a = o /\ age'[w] = NextTag(o) /\ buf'[w] = <<>>
           \/ age' = age /\ buf'[w] = Enter(<<>>, AgeStore(NextTag(o)))
    BY <1>1, <1>14, PopCasIs
  <2>2. Top(w).at = "left" /\ PopsIn(pc[w], Top(w).at) = 1
    <3>1. Top(w).at = "left"
      BY <1>1, <2>1, TopAt
    <3> QED
      BY <2>1, <3>1 DEF PopsIn
  <2>3. a.tag + 1 <= n /\ a.tag + 1 < TagMod /\ a.tag \in Nat
    BY <1>1, <1>3, <1>4, <2>1, <2>2, TagRoom, SchedulerAssumption DEF TagsOK, Age
  <2>4. o \in Age /\ o.tag = a.tag
    BY <1>1, <2>1, TypesOf DEF DequeInv, DequeOK
  <2>5. NextTag(o) \in Age /\ NextTag(o).tag = a.tag + 1
    BY <2>3, <2>4, NextAge
  <2>6. a.tag + 0 <= m /\ a.tag + 1 <= m /\ (a.tag + 1) + 0 <= m
    BY <1>2, <2>3
  <2>7. PopsIn(pc'[w], Top(w)'.at) = 0
    BY <2>1 DEF PopsIn
  <2> HIDE DEF o
  <2>8. CASE a = o /\ age'[w] = NextTag(o) /\ buf'[w] = <<>>
    <3>1. age'[w].tag = a.tag + 1
      BY <2>5, <2>8
    <3>2. \A i \in In(buf'[w], "age") : buf'[w][i].val.tag <= m
      BY <1>3, <2>8
    <3>3. age'[w].tag + PopsIn(pc'[w], Top(w)'.at) <= m
      BY <2>6, <2>7, <3>1
    <3> QED
      BY <1>5, <3>2, <3>3 DEF TagsOK
  <2>9. CASE age' = age /\ buf'[w] = Enter(<<>>, AgeStore(NextTag(o)))
    <3>1. AgeStore(NextTag(o)) \in Stores /\ AgeStore(NextTag(o)).loc = "age" /\ AgeStore(NextTag(o)).val = NextTag(o)
      BY <2>5, StoresAre
    <3>2. \A i \in In(buf'[w], "age") : buf'[w][i].val = NextTag(o)
      <4> DEFINE s == AgeStore(NextTag(o))
                 c2 == Enter(<<>>, s)
      <4>1. c2[Len(<<>>) + 1] = s /\ \A l : In(c2, l) = In(<<>>, l) \cup (IF s.loc = l THEN {Len(<<>>) + 1} ELSE {})
        BY <1>3, <3>1, Entered
      <4> HIDE DEF c2
      <4>2. In(c2, "age") = {Len(<<>>) + 1}
        BY <1>3, <3>1, <4>1
      <4>3. \A i \in In(c2, "age") : c2[i].val = NextTag(o)
        BY <3>1, <4>1, <4>2
      <4> QED
        BY <2>9, <4>3 DEF c2
    <3> QED
      BY <1>5, <2>5, <2>6, <2>7, <2>9, <3>2 DEF TagsOK
  <2> QED
    BY <2>1, <2>8, <2>9 DEF o
<1>15. CASE Takes(w)
  <2>1. victim[w] # w /\ AgesStay(victim[w]) /\ buf' = buf /\ pc'[w] \in {"lock", "run"}
    BY <1>15, TakesIs
  <2>2. age'[w] = a
    BY <1>3, <2>1 DEF AgesStay
  <2>3. PopsIn(pc'[w], Top(w)'.at) = 0
    BY <2>1 DEF PopsIn
  <2> QED
    BY <1>6, <2>1, <2>2, <2>3
<1>16. CASE Flush(w)
  <2>1. /\ b # <<>> /\ buf'[w] = Tail(b) /\ FlushedTo(Head(b), a, bot[w], deq[w], age'[w], bot'[w], deq'[w])
        /\ pc' = pc /\ stack' = stack
    BY <1>1, <1>16, FlushIs
  <2>2. BufferOK(pc[w], b, a)
    BY <1>1 DEF DequeInv
  <2>3. \A i \in In(Tail(b), "age") : i + 1 \in In(b, "age") /\ Tail(b)[i] = b[i + 1]
    <3>1. Shape(b)
      BY <2>2 DEF BufferOK
    <3> HIDE DEF b, a
    <3> QED
      BY <1>3, <2>1, <3>1, FlushSame
  <2>4. Head(b) = b[1] /\ 1 \in DOMAIN b
    BY <1>3, <2>1, Left
  <2>5. CASE b[1].loc # "age"
    <3>1. age'[w] = a
      BY <2>1, <2>4, <2>5 DEF FlushedTo
    <3> QED
      BY <1>6, <1>s, <2>1, <2>3, <3>1
  <2>6. CASE b[1].loc = "age"
    <3>1. 1 \in In(b, "age")
      BY <2>4, <2>6 DEF In
    <3>2. age'[w] = b[1].val /\ b[1].val.tag <= n /\ pc[w] = "pop_fence"
      BY <1>4, <2>1, <2>2, <2>4, <2>6, <3>1 DEF FlushedTo, TagsOK, BufferOK
    <3>3. \A i \in In(b, "age") : b[i].val.tag \in Nat /\ b[i].val.tag <= n
      <4>1. \A i \in In(b, "age") : b[i] \in Stores /\ b[i].loc = "age"
        BY <1>3 DEF In
      <4> QED
        BY <1>4, <4>1, StoreVal, SchedulerAssumption DEF TagsOK, Age
    <3>4. PopsIn(pc'[w], Top(w)'.at) = 0
      BY <2>1, <3>2 DEF PopsIn
    <3>5. age'[w].tag + 0 <= m
      BY <1>2, <3>1, <3>2, <3>3
    <3>6. \A i \in In(buf'[w], "age") : buf'[w][i].val.tag <= m
      <4>1. \A i \in In(Tail(b), "age") : Tail(b)[i].val.tag \in Nat /\ Tail(b)[i].val.tag <= n
        <5> HIDE DEF b
        <5> QED
          BY <2>3, <3>3
      <4>2. \A k \in Nat : k <= n => k <= m
        BY <1>2
      <4> HIDE DEF b
      <4> QED
        BY <2>1, <4>1, <4>2
    <3> QED
      BY <1>5, <3>4, <3>5, <3>6 DEF TagsOK
  <2> QED
    BY <2>5, <2>6
<1> QED
  BY <1>7, <1>8, <1>9, <1>10, <1>11, <1>12, <1>13, <1>14, <1>15, <1>16, StepIs

\* All tags.
LEMMA TagStep ==
  ASSUME TagsLast, IInv, ~Aborted, NEW w \in Workers, Step(w) \/ Flush(w)
  PROVE  \A x \in Workers : TagInv(x)'
<1>1. ASSUME NEW x \in Workers \ {w} PROVE TagInv(x)'
  <2> DEFINE n == Cardinality(DoneLefts)
             m == Cardinality(DoneLefts')
  <2>1. TypeOK /\ TagInv(x) /\ x \in Deques
    BY At1, TypesOf
  <2>2. pc'[x] = pc[x] /\ stack'[x] = stack[x] /\ buf'[x] = buf[x]
    BY <2>1, StepsApart DEF Apart
  <2>3. age'[x].tag = age[x].tag
    <3>1. CASE Takes(w) /\ x = victim[w]
      <4>1. age'[x] = [age[x] EXCEPT !.top = @ + 1] /\ age[x] \in Age
        BY <2>1, <3>1, TakesIs, TypesOf
      <4> QED
        BY <4>1 DEF Age
    <3>2. CASE Takes(w) /\ x # victim[w]
      <4>1. AgesStay(victim[w])
        BY <3>2, TakesIs
      <4> QED
        BY <2>1, <3>2, <4>1 DEF AgesStay
    <3>3. CASE ~Takes(w)
      BY <3>3, OthersSee DEF MemSame
    <3> QED
      BY <3>1, <3>2, <3>3
  <2>4. n \in Nat /\ m \in Nat /\ n <= m /\ buf[x] \in Seq(Stores) /\ age[x] \in Age
    BY <2>1, DonesGrow, TypesOf
  <2>5. TagsOK(pc[x], Top(x).at, buf[x], age[x], n) /\ Top(x)' = Top(x)
    BY <2>1, <2>2 DEF TagInv, Top
  <2>6. PopsIn(pc'[x], Top(x)'.at) = PopsIn(pc[x], Top(x).at)
    BY <2>2, <2>5
  <2> HIDE DEF n, m
  <2>7. TagsOK(pc'[x], Top(x)'.at, buf'[x], age'[x], m)
    <3>1. \A i \in In(buf'[x], "age") : \E j \in In(buf[x], "age") : buf'[x][i] = buf[x][j]
      BY <2>2
    <3>2. TagsSame(pc[x], Top(x).at, buf[x], age[x], pc'[x], Top(x)'.at, buf'[x], age'[x])
      BY <2>3, <2>6, <3>1 DEF TagsSame
    <3> QED
      BY <2>4, <2>5, <3>2, TagsStay
  <2> QED
    BY <2>7 DEF TagInv, m
<1> QED
  BY <1>1, TagOwn

-----------------------------------------------------------------------------
(* The frames of the pardos.  First what a step that keeps a frame, keeps  *)
(* of what the frame says; then the steps.                                 *)

SameFrame(x, i) ==
  i \in DOMAIN stack[x] /\ stack'[x][i].at = stack[x][i].at /\ stack'[x][i].p = stack[x][i].p

\* What a frame says of its pardo stays true.
StatesKept(x, i) ==
  LET f == stack[x][i] IN
  /\ f.p \in Pardos =>
       /\ left'[f.p] = left[f.p] \/ (f.at = "job" /\ left'[f.p] # "idle")
       /\ right'[f.p] = right[f.p] \/ f.at = "left" \/ (f.at = "wait" /\ right'[f.p] # "idle")
       /\ right_done[f.p] => right_done'[f.p]
  /\ f.at \in OwnerAt /\ f.p \in joined' => f.p \in joined
PlaceKept(x, i) ==
  LET f == stack[x][i]
      on == i = Len(stack[x])
      on2 == i = Len(stack'[x])
  IN
  /\ f.at = "left" => (on2 /\ pc'[x] \in PopLabels <=> on /\ pc[x] \in PopLabels)
  /\ f.at = "right" => (on2 /\ pc'[x] = "return" <=> on /\ pc[x] = "return")
  /\ f.at = "wait" /\ f.p # NoPardo /\ on2 /\ pc'[x] = "return" => (on /\ pc[x] = "return") \/ right_done'[f.p]
Kept(x, i) == SameFrame(x, i) /\ StatesKept(x, i) /\ PlaceKept(x, i)

\* A frame that is kept goes on saying in which state its pardo is.
LEMMA KeptTells ==
  ASSUME TypeOK, NEW x \in Workers, Control(x), NEW i, Kept(x, i), FrameTells(x, i)
  PROVE  FrameTells(x, i)'
<1> DEFINE f == stack[x][i]
           g == stack'[x][i]
           on == i = Len(stack[x])
           on2 == i = Len(stack'[x])
<1>1. i \in DOMAIN stack[x] /\ g.at = f.at /\ g.p = f.p
  BY DEF Kept, SameFrame
<1>2. f.at \in {"left", "right", "job"} => f.p \in Pardos
  BY <1>1, PardosAt
<1>3. f.p \in Pardos \/ f.p = NoPardo
  BY <1>1, PardosAt
<1>4. /\ f.p \in Pardos =>
           /\ left'[f.p] = left[f.p] \/ (f.at = "job" /\ left'[f.p] # "idle")
           /\ right'[f.p] = right[f.p] \/ f.at = "left" \/ (f.at = "wait" /\ right'[f.p] # "idle")
           /\ right_done[f.p] => right_done'[f.p]
      /\ f.at \in OwnerAt /\ f.p \in joined' => f.p \in joined
  BY DEF Kept, StatesKept
<1>5. /\ f.at = "left" => (on2 /\ pc'[x] \in PopLabels <=> on /\ pc[x] \in PopLabels)
      /\ f.at = "right" => (on2 /\ pc'[x] = "return" <=> on /\ pc[x] = "return")
      /\ f.at = "wait" /\ f.p # NoPardo /\ on2 /\ pc'[x] = "return" => (on /\ pc[x] = "return") \/ right_done'[f.p]
  BY DEF Kept, PlaceKept
<1>6. /\ f.at = "left" => left[f.p] = IF on /\ pc[x] \in PopLabels THEN "done" ELSE "running"
      /\ f.at = "right" =>
           left[f.p] = "done" /\ right[f.p] = IF on /\ pc[x] = "return" THEN "done" ELSE "running"
      /\ f.at = "wait" /\ f.p # NoPardo =>
           left[f.p] = "done" /\ right[f.p] # "idle" /\ (on /\ pc[x] = "return" => right_done[f.p])
      /\ f.at = "job" => left[f.p] # "idle" /\ right[f.p] = "running"
      /\ f.at \in OwnerAt => f.p \notin joined
  BY DEF FrameTells
<1> SUFFICES /\ g.at = "left" => left'[g.p] = IF on2 /\ pc'[x] \in PopLabels THEN "done" ELSE "running"
             /\ g.at = "right" =>
                  left'[g.p] = "done" /\ right'[g.p] = IF on2 /\ pc'[x] = "return" THEN "done" ELSE "running"
             /\ g.at = "wait" /\ g.p # NoPardo =>
                  left'[g.p] = "done" /\ right'[g.p] # "idle" /\ (on2 /\ pc'[x] = "return" => right_done'[g.p])
             /\ g.at = "job" => left'[g.p] # "idle" /\ right'[g.p] = "running"
             /\ g.at \in OwnerAt => g.p \notin joined'
  BY DEF FrameTells
<1> HIDE DEF f, g, on, on2
<1>7. g.at = "left" => left'[g.p] = IF on2 /\ pc'[x] \in PopLabels THEN "done" ELSE "running"
  BY <1>1, <1>2, <1>4, <1>5, <1>6
<1>8. g.at = "right" => left'[g.p] = "done" /\ right'[g.p] = IF on2 /\ pc'[x] = "return" THEN "done" ELSE "running"
  BY <1>1, <1>2, <1>4, <1>5, <1>6
<1>9. g.at = "wait" /\ g.p # NoPardo =>
        left'[g.p] = "done" /\ right'[g.p] # "idle" /\ (on2 /\ pc'[x] = "return" => right_done'[g.p])
  BY <1>1, <1>3, <1>4, <1>5, <1>6
<1>10. g.at = "job" => left'[g.p] # "idle" /\ right'[g.p] = "running"
  BY <1>1, <1>2, <1>4, <1>6
<1>11. g.at \in OwnerAt => g.p \notin joined'
  BY <1>1, <1>4, <1>6
<1> QED
  BY <1>7, <1>8, <1>9, <1>10, <1>11

\* The only new frame is the k-th of w, and it meets no other one of its pardo.
Meet(f, g) ==
  /\ f.p = g.p /\ f.p # NoPardo
  /\ (f.at \in OwnerAt /\ g.at \in OwnerAt) \/ (f.at \in RightAt /\ g.at \in RightAt)
OneNew(w, k) ==
  \A x \in Workers : \A i \in DOMAIN stack'[x] :
    (x = w /\ i = k) \/ (SameFrame(x, i) /\ ~Meet(stack[x][i], stack'[w][k]))
\* Then every pardo has one frame after the step too.
LEMMA OneFrameKept ==
  ASSUME OneFrame, NEW w \in Workers, NEW k, OneNew(w, k)
  PROVE  OneFrame'
<1>1. SUFFICES ASSUME NEW x \in Workers, NEW y \in Workers, NEW i \in DOMAIN stack'[x], NEW j \in DOMAIN stack'[y],
                      Meet(stack'[x][i], stack'[y][j])
               PROVE  x = y /\ i = j
  <2>1. \A x, y \in Workers : \A i \in DOMAIN stack'[x], j \in DOMAIN stack'[y] : Meet(stack'[x][i], stack'[y][j]) => x = y /\ i = j
    BY <1>1
  <2> QED
    BY <2>1 DEF OneFrame, Meet
<1>2. CASE (x = w /\ i = k) /\ (y = w /\ j = k)
  BY <1>2
<1>3. CASE (x = w /\ i = k) /\ ~(y = w /\ j = k)
  <2>1. SameFrame(y, j) /\ ~Meet(stack[y][j], stack'[w][k])
    BY <1>3 DEF OneNew
  <2> QED
    BY <1>1, <1>3, <2>1 DEF Meet, SameFrame
<1>4. CASE ~(x = w /\ i = k) /\ (y = w /\ j = k)
  <2>1. SameFrame(x, i) /\ ~Meet(stack[x][i], stack'[w][k])
    BY <1>4 DEF OneNew
  <2> QED
    BY <1>1, <1>4, <2>1 DEF Meet, SameFrame
<1>5. CASE ~(x = w /\ i = k) /\ ~(y = w /\ j = k)
  <2>1. SameFrame(x, i) /\ SameFrame(y, j)
    BY <1>5 DEF OneNew
  <2>2. Meet(stack[x][i], stack[y][j])
    BY <1>1, <2>1 DEF Meet, SameFrame
  <2> QED
    BY <2>1, <2>2 DEF OneFrame, Meet, SameFrame
<1> QED
  BY <1>2, <1>3, <1>4, <1>5

\* No frame is new.
LEMMA NoneNew ==
  ASSUME OneFrame, \A x \in Workers : \A i \in DOMAIN stack'[x] : SameFrame(x, i)
  PROVE  OneFrame'
<1>1. SUFFICES ASSUME NEW x \in Workers, NEW y \in Workers, NEW i \in DOMAIN stack'[x], NEW j \in DOMAIN stack'[y],
                      Meet(stack'[x][i], stack'[y][j])
               PROVE  x = y /\ i = j
  BY DEF OneFrame, Meet
<1>2. SameFrame(x, i) /\ SameFrame(y, j)
  OBVIOUS
<1>3. Meet(stack[x][i], stack[y][j])
  BY <1>1, <1>2 DEF Meet, SameFrame
<1> QED
  BY <1>2, <1>3 DEF OneFrame, Meet, SameFrame

\* A job's pardo stays where it is, as far as it is needed: nobody is at a pardo
\* that is left when it is free.
Retained(y, j) ==
  j \in DOMAIN stack'[y] /\ stack'[y][j].at \in {"left", "wait"} /\ stack'[y][j].p = stack[y][j].p
Free(p) ==
  /\ \A x \in Workers : \A i \in DOMAIN stack[x] : ~(stack[x][i].at = "job" /\ stack[x][i].p = p)
  /\ \A x \in Workers : \A i \in In(buf[x], "right_done") : buf[x][i].val # p
PardosStay ==
  \A y \in Workers : \A j \in DOMAIN stack[y] :
    stack[y][j].at \in {"left", "wait"} => Retained(y, j) \/ Free(stack[y][j].p)
InPardoNext(x, p) ==
  \E y \in Workers \ {x} : \E j \in DOMAIN stack'[y] :
    stack'[y][j].at \in {"left", "wait"} /\ stack'[y][j].p = p
JobKept(x, i) == SameFrame(x, i) \/ InPardoNext(x, stack'[x][i].p)
StoreKept(x, i) ==
  LET p == buf'[x][i].val IN
  /\ right'[p] = "done" /\ ~right_done'[p]
  /\ InPardoNext(x, p) \/ \E j \in In(buf[x], "right_done") : buf[x][j].val = p
\* Then jobs and stores to flags are still outside their pardos.
LEMMA OutsideKept ==
  ASSUME PardosStay, NEW x \in Workers, JobsOutside(x),
         \A i \in DOMAIN stack'[x] : stack'[x][i].at = "job" => JobKept(x, i),
         \A i \in In(buf'[x], "right_done") : StoreKept(x, i)
  PROVE  JobsOutside(x)'
<1>1. ASSUME NEW p, InPardo(x, p), ~Free(p) PROVE InPardoNext(x, p)
  <2>0. PICK y \in Workers \ {x} : \E j \in DOMAIN stack[y] : stack[y][j].at \in {"left", "wait"} /\ stack[y][j].p = p
    BY <1>1 DEF InPardo
  <2>1. PICK j \in DOMAIN stack[y] : stack[y][j].at \in {"left", "wait"} /\ stack[y][j].p = p
    BY <2>0
  <2>2. Retained(y, j)
    BY <1>1, <2>1 DEF PardosStay
  <2> QED
    BY <2>1, <2>2 DEF InPardoNext, Retained
<1>2. ASSUME NEW i \in DOMAIN stack'[x], stack'[x][i].at = "job" PROVE InPardoNext(x, stack'[x][i].p)
  <2>1. CASE SameFrame(x, i)
    <3>1. i \in DOMAIN stack[x] /\ stack[x][i].at = "job" /\ stack[x][i].p = stack'[x][i].p
      BY <1>2, <2>1 DEF SameFrame
    <3>2. InPardo(x, stack[x][i].p) /\ ~Free(stack[x][i].p)
      BY <3>1 DEF JobsOutside, Free
    <3> QED
      BY <1>1, <3>1, <3>2
  <2> QED
    BY <1>2, <2>1 DEF JobKept
<1>3. ASSUME NEW i \in In(buf'[x], "right_done")
      PROVE  InPardoNext(x, buf'[x][i].val) /\ right'[buf'[x][i].val] = "done" /\ ~right_done'[buf'[x][i].val]
  <2>1. StoreKept(x, i)
    BY <1>3
  <2>2. ASSUME NEW j \in In(buf[x], "right_done") PROVE InPardoNext(x, buf[x][j].val)
    <3>1. InPardo(x, buf[x][j].val) /\ ~Free(buf[x][j].val)
      BY <2>2 DEF JobsOutside, Free
    <3> QED
      BY <1>1, <3>1
  <2> QED
    BY <2>1, <2>2 DEF StoreKept
<1> QED
  BY <1>2, <1>3 DEF JobsOutside, InPardo, InPardoNext

\* The stores to flags are those that were there, d places further on.
DonesKept(x, d) ==
  \A i \in In(buf'[x], "right_done") : i + d \in In(buf[x], "right_done") /\ buf'[x][i] = buf[x][i + d]
\* Then there is still one store to each flag.
LEMMA OneDoneKept ==
  ASSUME OneDone, NEW w \in Workers, NEW d \in {0, 1}, DonesKept(w, d), \A x \in Workers \ {w} : buf'[x] = buf[x],
         buf'[w] \in Seq(Stores)
  PROVE  OneDone'
<1>1. SUFFICES ASSUME NEW x \in Workers, NEW y \in Workers, NEW i \in In(buf'[x], "right_done"), NEW j \in In(buf'[y], "right_done"),
                      buf'[x][i].val = buf'[y][j].val
               PROVE  x = y /\ i = j
  <2>1. \A x, y \in Workers : \A i \in In(buf'[x], "right_done"), j \in In(buf'[y], "right_done") :
          buf'[x][i].val = buf'[y][j].val => x = y /\ i = j
    BY <1>1
  <2> QED
    BY <2>1 DEF OneDone, In
<1>2. CASE x = w /\ y = w
  <2>1. i + d = j + d /\ i \in Int /\ j \in Int
    BY <1>1, <1>2 DEF OneDone, DonesKept, In
  <2>2. i = j
    BY <2>1
  <2> QED
    BY <1>2, <2>2
<1>3. CASE x = w /\ y # w
  BY <1>1, <1>3 DEF OneDone, DonesKept
<1>4. CASE x # w /\ y = w
  BY <1>1, <1>4 DEF OneDone, DonesKept
<1>5. CASE x # w /\ y # w
  BY <1>1, <1>5 DEF OneDone
<1> QED
  BY <1>2, <1>3, <1>4, <1>5

\* The flags of the pardos and the stores on their way to them: no step but the
\* end of a job adds one, and the one that reaches memory is the only one.
FlagsOK(w) ==
  /\ OneDone'
  /\ \A p \in Pardos : (right_done[p] => right_done'[p]) /\ (right_done'[p] => right_done[p] \/ right[p] = "done")
  /\ \A x \in Workers : \A i \in In(buf'[x], "right_done") :
       LET p == buf'[x][i].val IN right_done'[p] = right_done[p] /\ \E j \in In(buf[x], "right_done") : buf[x][j].val = p

\* A store to something else than a flag is not one of these.
LEMMA NotEntered ==
  ASSUME NEW b \in Seq(Stores), NEW s \in Stores, s.loc # "right_done"
  PROVE  Enter(b, s) \in Seq(Stores) /\ \A i \in In(Enter(b, s), "right_done") : i \in In(b, "right_done") /\ Enter(b, s)[i] = b[i]
<1> DEFINE c == Enter(b, s)
<1>0. /\ c \in Seq(Stores) /\ \A i \in DOMAIN b : c[i] = b[i]
      /\ \A l : In(c, l) = In(b, l) \cup (IF s.loc = l THEN {Len(b) + 1} ELSE {})
  BY Entered
<1> HIDE DEF c
<1>1. In(c, "right_done") = In(b, "right_done")
  BY <1>0
<1> USE <1>0 DEF c
<1> QED
  BY <1>1 DEF In

\* The steps but the end of a job leave the stores to flags where they are.
LEMMA StoresStay ==
  ASSUME TagsLast, IInv, ~Aborted, NEW w \in Workers, Step(w), ~ReturnJob(w)
  PROVE  DonesKept(w, 0) /\ right_done' = right_done
<1>1. TypeOK /\ Control(w) /\ DequeInv(w) /\ FramesInv
  BY At1
<1>2. buf[w] \in Seq(Stores) /\ <<>> \in Seq(Stores)
  BY <1>1, TypesOf
<1>3. /\ buf'[w] = buf[w] => DonesKept(w, 0)
      /\ \A s \in Stores : s.loc # "right_done" /\ buf'[w] = Enter(buf[w], s) => DonesKept(w, 0)
  <2>1. \A i \in In(buf[w], "right_done") : i + 0 = i
    BY <1>2 DEF In
  <2>2. buf'[w] = buf[w] => DonesKept(w, 0)
    BY <2>1 DEF DonesKept
  <2>3. ASSUME NEW s \in Stores, s.loc # "right_done", buf'[w] = Enter(buf[w], s) PROVE DonesKept(w, 0)
    <3>1. \A i \in In(buf'[w], "right_done") : i \in In(buf[w], "right_done") /\ buf'[w][i] = buf[w][i]
      BY <1>2, <2>3, NotEntered
    <3> QED
      BY <2>1, <3>1 DEF DonesKept
  <2> QED
    BY <2>2, <2>3
<1>4. ASSUME NEW s \in Stores, NEW t \in Stores, s.loc # "right_done", t.loc # "right_done",
             buf'[w] = Enter(Enter(buf[w], s), t)
      PROVE  DonesKept(w, 0)
  <2> DEFINE c == Enter(buf[w], s)
  <2>1. c \in Seq(Stores) /\ \A i \in In(c, "right_done") : i \in In(buf[w], "right_done") /\ c[i] = buf[w][i]
    BY <1>2, <1>4, NotEntered
  <2>2. buf'[w] = Enter(c, t)
    BY <1>4
  <2> HIDE DEF c
  <2>3. \A i \in In(buf'[w], "right_done") : i \in In(c, "right_done") /\ buf'[w][i] = c[i]
    BY <1>4, <2>1, <2>2, NotEntered
  <2>4. \A i \in In(buf[w], "right_done") : i + 0 = i
    BY <1>2 DEF In
  <2> QED
    BY <2>1, <2>3, <2>4 DEF DonesKept
<1>s. /\ \A x \in 0..QSize : BotStore(x) \in Stores /\ BotStore(x).loc = "bot"
      /\ \A x \in Age : AgeStore(x) \in Stores /\ AgeStore(x).loc = "age"
      /\ \A i \in 0..(QSize - 1), p \in Pardos : SlotStore(i, p) \in Stores /\ SlotStore(i, p).loc = "slot"
      /\ FinishedStore \in Stores /\ FinishedStore.loc = "finished_flag"
  BY StoresAre
<1>t. NextTag(age[w]) \in Age /\ NextTag(old[w]) \in Age /\ 0 \in 0..QSize
  BY <1>1, TypesOf, NextAge, SmallTypes
<1>5. DonesKept(w, 0)
  <2>1. CASE IdleStep(w)
    <3>1. buf'[w] = buf[w] \/ buf'[w] = Enter(buf[w], FinishedStore)
      BY <1>1, <2>1, IdleSteps DEF Idles
    <3> QED
      BY <1>3, <1>s, <3>1
  <2>2. CASE Pardo(w)
    <3>1. buf'[w] = PushedBy(buf[w], bot[w], Called(w)) /\ Called(w) \in Pardos /\ Quiet(pc[w])
      BY <1>1, <2>2, PardoIs DEF Quiet
    <3>2. bot[w] \in 0..(QSize - 1)
      BY <1>1, <3>1, QuietHere DEF QuietOK
    <3>3. SlotStore(bot[w], Called(w)) \in Stores /\ SlotStore(bot[w], Called(w)).loc # "right_done"
          /\ BotStore(bot[w] + 1) \in Stores /\ BotStore(bot[w] + 1).loc # "right_done"
      <4>1. bot[w] + 1 \in 0..QSize
        BY <3>2, SchedulerAssumption
      <4> QED
        BY <1>s, <3>1, <3>2, <4>1
    <3> QED
      BY <1>3, <1>4, <3>1, <3>3 DEF PushedBy
  <2>3. CASE ReturnPardo(w) \/ CallLeft(w) \/ PopFence(w) \/ AfterPop(w) \/ Takes(w)
    <3>1. buf' = buf
      BY <2>3 DEF ReturnPardo, CallLeft, PopFence, AfterPop, Takes, StealCas
    <3> QED
      BY <1>3, <3>1
  <2>4. CASE PopBegin(w)
    <3>1. buf'[w] = buf[w] \/ \E x \in 0..QSize : buf'[w] = Enter(buf[w], BotStore(x))
      BY <1>1, <2>4, PopBeginOwn
    <3> QED
      BY <1>3, <1>s, <3>1
  <2>5. CASE PopLoad(w)
    <3>1. /\ buf[w] = <<>>
          /\ \/ buf'[w] = <<>> \/ buf'[w] = Enter(<<>>, BotStore(0))
             \/ buf'[w] = Enter(Enter(<<>>, BotStore(0)), AgeStore(NextTag(age[w])))
      BY <1>1, <2>5, PopLoadIs
    <3>2. /\ BotStore(0) \in Stores /\ BotStore(0).loc # "right_done"
          /\ AgeStore(NextTag(age[w])) \in Stores /\ AgeStore(NextTag(age[w])).loc # "right_done"
      BY <1>s, <1>t
    <3> QED
      BY <1>3, <1>4, <3>1, <3>2
  <2>6. CASE PopCas(w)
    <3>1. buf[w] = <<>> /\ (buf'[w] = <<>> \/ buf'[w] = Enter(<<>>, AgeStore(NextTag(old[w]))))
      BY <1>1, <2>6, PopCasIs
    <3> QED
      BY <1>3, <1>s, <1>t, <3>1
  <2> QED
    BY <2>1, <2>2, <2>3, <2>4, <2>5, <2>6 DEF Step, IdleStep, Takes
<1>6. right_done' = right_done
  <2> USE DEF memVars, deqVars, vars
  <2>1. Pardo(w) \/ CallLeft(w) \/ Lock(w) \/ ReturnLeft(w) \/ AfterPop(w) \/ ReturnRight(w) => right_done' = right_done
    BY DEF Pardo, CallLeft, Lock, ReturnLeft, AfterPop, ReturnRight
  <2>2. ReturnPardo(w) \/ Spin(w) \/ PopBegin(w) \/ PopLoad(w) \/ PopFence(w) \/ PopCas(w) => right_done' = right_done
    BY DEF ReturnPardo, Spin, PopBegin, PopLoad, PopFence, PopCas
  <2>3. GetJob(w) \/ JobPopped(w) \/ StealCheck(w) \/ StealAge(w) \/ StealBot(w) \/ StealJob(w) \/ StealCas(w) => right_done' = right_done
    BY DEF GetJob, JobPopped, StealCheck, StealAge, StealBot, StealJob, StealCas
  <2>4. Destroy(w) \/ JoinThreads(w) => right_done' = right_done
    BY DEF Destroy, JoinThreads
  <2> QED
    BY <2>1, <2>2, <2>3, <2>4 DEF Step
<1> QED
  BY <1>5, <1>6

\* Only the return of a job stores to a flag.
LEMMA FlagsStay ==
  ASSUME TagsLast, IInv, ~Aborted, NEW w \in Workers, Step(w) \/ Flush(w), ~ReturnJob(w)
  PROVE  FlagsOK(w)
<1>1. TypeOK /\ FramesInv /\ Apart(w) /\ buf'[w] \in Seq(Stores) /\ buf[w] \in Seq(Stores)
  <2>1. BufferTypes'
    BY BufferStep
  <2> QED
    BY <2>1, At1, TypesOf, StepsApart DEF BufferTypes
<1>2. OneDone /\ \A x \in Workers \ {w} : buf'[x] = buf[x]
  BY <1>1 DEF Apart, FramesInv
<1>3. ASSUME NEW d \in {0, 1}, DonesKept(w, d)
      PROVE  /\ OneDone'
             /\ \A x \in Workers : \A i \in In(buf'[x], "right_done") :
                  \E j \in In(buf[x], "right_done") : buf[x][j].val = buf'[x][i].val
  <2>1. OneDone'
    BY <1>1, <1>2, <1>3, OneDoneKept
  <2>2. ASSUME NEW x \in Workers, NEW i \in In(buf'[x], "right_done")
        PROVE  \E j \in In(buf[x], "right_done") : buf[x][j].val = buf'[x][i].val
    <3>1. CASE x = w
      BY <1>3, <2>2, <3>1 DEF DonesKept
    <3>2. CASE x # w
      BY <1>2, <2>2, <3>2
    <3> QED
      BY <3>1, <3>2
  <2> QED
    BY <2>1, <2>2
<1>4. CASE Step(w)
  <2>1. DonesKept(w, 0) /\ right_done' = right_done
    BY <1>4, StoresStay
  <2> QED
    BY <1>3, <2>1 DEF FlagsOK
<1>5. CASE Flush(w)
  <2> DEFINE b == buf[w]
             h == Head(b)
  <2>1. b # <<>> /\ buf'[w] = Tail(b) /\ h \in Stores /\ right' = right
    BY <1>1, <1>5, FlushIs
  <2>2. /\ h = b[1] /\ 1 \in DOMAIN b
        /\ \A i \in DOMAIN Tail(b) : i + 1 \in DOMAIN b /\ Tail(b)[i] = b[i + 1]
        /\ Tail(b) \in Seq(Stores)
    BY <1>1, <2>1, Left
  <2>3. DonesKept(w, 1)
    BY <2>1, <2>2 DEF DonesKept, In
  <2>4. right_done' = IF h.loc = "right_done" THEN [right_done EXCEPT ![h.val] = TRUE] ELSE right_done
    BY <1>5 DEF Flush
  <2>5. right_done \in [Pardos -> BOOLEAN]
    BY <1>1 DEF TypeOK
  <2>6. CASE h.loc # "right_done"
    BY <1>3, <2>3, <2>4, <2>6 DEF FlagsOK
  <2>7. CASE h.loc = "right_done"
    <3>1. 1 \in In(b, "right_done")
      BY <2>2, <2>7 DEF In
    <3>2. h.val \in Pardos /\ right[h.val] = "done"
      <4>1. h.val \in Pardos
        BY <2>1, <2>7, StoreVal
      <4>2. JobsOutside(w)
        BY <1>1 DEF FramesInv
      <4> QED
        BY <2>2, <3>1, <4>1, <4>2 DEF JobsOutside
    <3>3. \A p \in Pardos : (right_done[p] => right_done'[p]) /\ (right_done'[p] => right_done[p] \/ right[p] = "done")
      BY <2>4, <2>5, <2>7, <3>2
    <3>4. ASSUME NEW x \in Workers, NEW i \in In(buf'[x], "right_done")
          PROVE  right_done'[buf'[x][i].val] = right_done[buf'[x][i].val]
      <4>1. PICK j \in In(buf[x], "right_done") : buf[x][j].val = buf'[x][i].val /\ ~(x = w /\ j = 1)
        <5>1. CASE x = w
          <6>1. i + 1 \in In(buf[x], "right_done") /\ buf'[x][i] = buf[x][i + 1]
            BY <2>3, <3>4, <5>1 DEF DonesKept
          <6>2. i \in Nat /\ i # 0
            <7>1. i \in DOMAIN Tail(b)
              BY <2>1, <3>4, <5>1 DEF In
            <7> QED
              BY <2>2, <7>1
          <6>3. i + 1 # 1
            BY <6>2
          <6> QED
            BY <6>1, <6>3
        <5>2. CASE x # w
          BY <1>2, <3>4, <5>2
        <5> QED
          BY <5>1, <5>2
      <4>2. buf[x][j].val # h.val
        BY <1>2, <2>2, <3>1, <4>1 DEF OneDone
      <4>3. buf[x][j].val \in Pardos
        <5>1. buf[x] \in Seq(Stores)
          BY <1>1, TypesOf
        <5>2. buf[x][j] \in Stores /\ buf[x][j].loc = "right_done"
          BY <4>1, <5>1 DEF In
        <5> QED
          BY <5>2, StoreVal
      <4> HIDE DEF h
      <4> QED
        BY <2>4, <2>5, <2>7, <4>1, <4>2, <4>3
    <3> QED
      BY <1>3, <2>3, <3>3, <3>4 DEF FlagsOK
  <2> QED
    BY <2>6, <2>7
<1> QED
  BY <1>4, <1>5

-----------------------------------------------------------------------------
(* The steps that move no frame.                                           *)

\* A wait that is over: the flag is in memory, for it is not the worker itself that
\* sets it.
LEMMA WaitIsOver ==
  ASSUME IInv, NEW w \in Workers, Top(w).at = "wait", Top(w).p # NoPardo, Finished(w)
  PROVE  right_done[Top(w).p]
<1>1. TypeOK /\ Control(w) /\ FramesInv
  BY At1
<1>2. Top(w) = stack[w][Len(stack[w])] /\ Len(stack[w]) \in DOMAIN stack[w] /\ buf[w] \in Seq(Stores)
  BY <1>1, TopIs, TypesOf
<1>3. SUFFICES ASSUME DoneStore(Top(w).p) \in Range(buf[w]) PROVE FALSE
  BY DEF Finished, LoadDone
<1>4. PICK i \in DOMAIN buf[w] : buf[w][i] = DoneStore(Top(w).p)
  BY <1>3 DEF Range
<1>5. i \in In(buf[w], "right_done") /\ buf[w][i].val = Top(w).p
  BY <1>4 DEF In, DoneStore
<1>6. InPardo(w, Top(w).p)
  BY <1>1, <1>5 DEF FramesInv, JobsOutside
<1>7. PICK x \in Workers \ {w} : \E j \in DOMAIN stack[x] : stack[x][j].at \in {"left", "wait"} /\ stack[x][j].p = Top(w).p
  BY <1>6 DEF InPardo
<1>8. PICK j \in DOMAIN stack[x] : stack[x][j].at \in {"left", "wait"} /\ stack[x][j].p = Top(w).p
  BY <1>7
<1> QED
  BY <1>1, <1>2, <1>7, <1>8 DEF FramesInv, OneFrame, OwnerAt

StillStep(w) ==
  \/ CallLeft(w) \/ Lock(w) \/ Spin(w) \/ PopBegin(w) \/ PopLoad(w) \/ PopCas(w) \/ PopFence(w)
  \/ GetJob(w) \/ JobPopped(w) \/ StealCheck(w) \/ StealAge(w) \/ StealBot(w) \/ StealJob(w)
  \/ (StealCas(w) /\ age[victim[w]] # old[w]) \/ Destroy(w) \/ JoinThreads(w) \/ Flush(w)
Still(w) == stack'[w] = stack[w] /\ left' = left /\ right' = right /\ joined' = joined
LabelsKept(w) ==
  /\ Top(w).at = "left" => (pc'[w] \in PopLabels <=> pc[w] \in PopLabels)
  /\ Top(w).at = "right" => (pc'[w] = "return" <=> pc[w] = "return")
  /\ Top(w).at = "wait" /\ Top(w).p # NoPardo /\ pc'[w] = "return" => pc[w] = "return" \/ right_done[Top(w).p]
\* They move no frame, and a wait ends when its flag is in memory.
LEMMA StillSteps ==
  ASSUME TagsLast, IInv, ~Aborted, NEW w \in Workers, StillStep(w)
  PROVE  Still(w) /\ LabelsKept(w)
<1>1. TypeOK /\ Control(w) /\ DequeInv(w) /\ FramesInv /\ pc \in [Workers -> Labels]
  BY At1 DEF TypeOK
<1> USE DEF memVars, deqVars, regVars, fjVars, vars
<1>2. CASE CallLeft(w) \/ Lock(w)
  <2>1. Still(w) /\ pc'[w] \in {"lock", "run"} /\ pc[w] \in {"pushed", "lock"}
    BY <1>1, <1>2 DEF CallLeft, Lock, Still, Begin
  <2>2. Top(w).at # "wait"
    BY <1>1, <2>1, TopAt
  <2> QED
    BY <2>1, <2>2 DEF LabelsKept, PopLabels
<1>3. CASE PopBegin(w) \/ PopLoad(w) \/ PopCas(w) \/ PopFence(w)
  <2>1. Still(w) /\ pc'[w] \in PopLabels /\ pc[w] \in PopLabels
    BY <1>1, <1>3 DEF PopBegin, PopLoad, PopCas, PopFence, Still, PopLabels
  <2> QED
    BY <2>1 DEF LabelsKept, PopLabels
<1>4. CASE Spin(w) \/ GetJob(w) \/ StealCheck(w)
  <2>1. Still(w) /\ pc[w] \in {"spin", "get_job", "steal"} /\ (pc'[w] = "return" => Finished(w))
    BY <1>1, <1>4 DEF Spin, GetJob, StealCheck, Still, LeaveLoop
  <2>2. Top(w).at = "wait"
    BY <1>1, <2>1, TopAt
  <2> QED
    BY <2>1, <2>2, WaitIsOver DEF LabelsKept
<1>5. CASE JobPopped(w)
  <2>1. job[w] = NoPardo /\ Top(w).at = "wait"
    BY <1>1, <1>5, WaitsEmpty DEF JobPopped, Quiet
  <2>2. Still(w) /\ pc'[w] = "steal"
    BY <1>1, <1>5, <2>1 DEF JobPopped, Still
  <2> QED
    BY <2>1, <2>2 DEF LabelsKept
<1>6. CASE StealAge(w) \/ StealBot(w) \/ StealJob(w) \/ (StealCas(w) /\ age[victim[w]] # old[w])
  <2>1. /\ Still(w) /\ pc[w] \in {"steal_age", "steal_bot", "steal_job", "steal_cas"} /\ pc'[w] # "return"
    BY <1>1, <1>6 DEF StealAge, StealBot, StealJob, StealCas, Still
  <2>2. Top(w).at = "wait"
    BY <1>1, <2>1, TopAt
  <2> QED
    BY <2>1, <2>2 DEF LabelsKept
<1>7. CASE Destroy(w) \/ JoinThreads(w)
  <2>1. Still(w) /\ pc'[w] \in {"join", "exited"} /\ (Top(w).at = "main" \/ pc[w] = "join")
    BY <1>1, <1>7 DEF Destroy, JoinThreads, Still
  <2>2. Top(w).at = "main"
    BY <1>1, <2>1, TopAt
  <2> QED
    BY <2>1, <2>2 DEF LabelsKept
<1>8. CASE Flush(w)
  BY <1>1, <1>8, FlushIs DEF Still, LabelsKept
<1> QED
  BY <1>2, <1>3, <1>4, <1>5, <1>6, <1>7, <1>8 DEF StillStep

\* A frame of another worker, and one of w that is not on top.
LEMMA KeptElsewhere ==
  ASSUME TypeOK, NEW w \in Workers, Apart(w), NEW x \in Workers, NEW i \in DOMAIN stack[x], StatesKept(x, i), x # w
  PROVE  Kept(x, i)
<1>1. pc'[x] = pc[x] /\ stack'[x] = stack[x]
  BY DEF Apart
<1> QED
  BY <1>1 DEF Kept, SameFrame, PlaceKept

\* A worker's frames all stay, and the flags too.
LEMMA StillFrames ==
  ASSUME TagsLast, IInv, ~Aborted, NEW w \in Workers, StillStep(w)
  PROVE  FramesInv'
<1>1. TypeOK /\ FramesInv /\ Control(w)
  BY At1
<1>2. Still(w) /\ LabelsKept(w)
  BY StillSteps
<1>3. FlagsOK(w) /\ Apart(w)
  <2>1. (Step(w) \/ Flush(w)) /\ ~ReturnJob(w)
    <3>1. Step(w) \/ Flush(w)
      BY DEF StillStep, Step
    <3>2. right' = right
      BY <1>2 DEF Still
    <3>3. ASSUME ReturnJob(w) PROVE FALSE
      <4>1. Top(w).at = "job" /\ pc[w] = "run" /\ right' = [right EXCEPT ![Top(w).p] = "done"]
        BY <3>3 DEF ReturnJob
      <4>2. stack'[w] # stack[w]
        BY <1>1, <3>3, ReturnIs
      <4> QED
        BY <1>2, <4>2 DEF Still
    <3> QED
      BY <3>1, <3>3
  <2> QED
    BY <1>1, <2>1, FlagsStay, StepsApart
<1>4. \A x \in Workers : stack'[x] = stack[x]
  BY <1>2, <1>3 DEF Still, Apart
<1>5. ASSUME NEW x \in Workers, NEW i \in DOMAIN stack[x] PROVE Kept(x, i)
  <2>1. StatesKept(x, i)
    BY <1>2, <1>3 DEF StatesKept, Still, FlagsOK
  <2>2. PlaceKept(x, i)
    <3>1. CASE x = w
      <4>1. Top(w) = stack[w][Len(stack[w])]
        BY <1>1, TopIs
      <4>2. Top(w).p # NoPardo => Top(w).p \in Pardos
        <5>1. Len(stack[w]) \in DOMAIN stack[w]
          BY <1>1, TopIs
        <5> QED
          BY <1>1, <4>1, <5>1, PardosAt
      <4>3. Top(w).p # NoPardo /\ right_done[Top(w).p] => right_done'[Top(w).p]
        BY <1>3, <4>2 DEF FlagsOK
      <4> QED
        BY <1>2, <1>4, <3>1, <4>1, <4>3 DEF PlaceKept, LabelsKept
    <3>2. CASE x # w
      BY <1>1, <1>3, <2>1, <3>2, KeptElsewhere DEF Kept
    <3> QED
      BY <3>1, <3>2
  <2> QED
    BY <1>4, <2>1, <2>2 DEF Kept, SameFrame
<1>6. \A x \in Workers : \A i \in DOMAIN stack'[x] : FrameTells(x, i)'
  <2>1. SUFFICES ASSUME NEW x \in Workers, NEW i \in DOMAIN stack'[x] PROVE FrameTells(x, i)'
    OBVIOUS
  <2>2. Kept(x, i) /\ FrameTells(x, i) /\ Control(x)
    BY <1>1, <1>4, <1>5, <2>1, At1 DEF FramesInv
  <2> QED
    BY <1>1, <2>2, KeptTells
<1>7. OneFrame'
  <2>1. \A x \in Workers : \A i \in DOMAIN stack'[x] : SameFrame(x, i)
    BY <1>4 DEF SameFrame
  <2> QED
    BY <1>1, <2>1, NoneNew DEF FramesInv
<1>8. ASSUME NEW x \in Workers PROVE JobsOutside(x)'
  <2>1. PardosStay
    BY <1>4 DEF PardosStay, Retained
  <2>2. \A i \in DOMAIN stack'[x] : stack'[x][i].at = "job" => JobKept(x, i)
    BY <1>4 DEF JobKept, SameFrame
  <2>3. \A i \in In(buf'[x], "right_done") : StoreKept(x, i)
    <3>1. SUFFICES ASSUME NEW i \in In(buf'[x], "right_done") PROVE StoreKept(x, i)
      OBVIOUS
    <3>2. PICK j \in In(buf[x], "right_done") : buf[x][j].val = buf'[x][i].val
      BY <1>3, <3>1 DEF FlagsOK
    <3>3. right_done'[buf'[x][i].val] = right_done[buf'[x][i].val]
      BY <1>3, <3>1 DEF FlagsOK
    <3>4. right[buf[x][j].val] = "done" /\ ~right_done[buf[x][j].val]
      BY <1>1, <3>2 DEF FramesInv, JobsOutside
    <3> QED
      BY <1>2, <3>2, <3>3, <3>4 DEF StoreKept, Still
  <2>4. JobsOutside(x)
    BY <1>1 DEF FramesInv
  <2> QED
    BY <2>1, <2>2, <2>3, <2>4, OutsideKept
<1>9. DoneTells' /\ LeftFirst' /\ JoinsLast' /\ OneDone'
  BY <1>1, <1>2, <1>3 DEF DoneTells, LeftFirst, JoinsLast, FlagsOK, Still, FramesInv
<1> QED
  BY <1>6, <1>7, <1>8, <1>9 DEF FramesInv

-----------------------------------------------------------------------------
(* The steps that push, pop or change a frame, or end its thunk.           *)

\* No frame belongs to a pardo that was not called.
LEMMA FramesStarted ==
  ASSUME IInv, NEW x \in Workers, NEW i \in DOMAIN stack[x], stack[x][i].p \in Pardos
  PROVE  /\ stack[x][i].at \in {"left", "right", "job", "wait"}
         /\ left[stack[x][i].p] # "idle"
         /\ stack[x][i].at \in {"wait", "right", "job"} => right[stack[x][i].p] # "idle"
<1>1. TypeOK /\ Control(x) /\ FrameTells(x, i) /\ NoPardo \notin Pardos
  BY At1, SchedulerAssumption DEF FramesInv
<1>2. stack[x] \in Seq(Frame_) /\ DOMAIN stack[x] = 1..Len(stack[x])
  BY <1>1, TopIs
<1>3. stack[x][i].at \in Frames
  <2>1. stack[x][i] \in Frame_
    BY <1>2
  <2> QED
    BY <2>1 DEF Frame_
<1>4. stack[x][i].at # "main"
  <2>1. /\ stack[x][1].p = NoPardo
        /\ \A j \in 2..Len(stack[x]) : stack[x][j].at # "main"
    BY <1>1 DEF Control, ControlOK, StackShape
  <2>2. i # 1 /\ i \in 1..Len(stack[x]) /\ Len(stack[x]) \in Nat
    BY <1>1, <1>2, <2>1, TopIs
  <2>3. i \in 2..Len(stack[x])
    BY <2>2
  <2> QED
    BY <2>1, <2>3
<1>5. stack[x][i].p # NoPardo
  BY <1>1
<1> QED
  BY <1>1, <1>3, <1>4, <1>5 DEF FrameTells, Frames

\* What is to be shown of a step: k is the place of the frame that is new, if any.
AllKept(w, k) ==
  \A x \in Workers : \A i \in DOMAIN stack'[x] : (x = w /\ i = k) \/ Kept(x, i)
NewTells(w, k) ==
  stack'[w][k].at = "job" => InPardoNext(w, stack'[w][k].p)
AllStores == \A x \in Workers : \A i \in In(buf'[x], "right_done") : StoreKept(x, i)

\* What is to be shown of a step that changes the frame k of worker w.
LEMMA FramesMove ==
  ASSUME IInv, NEW w \in Workers, NEW k, PardosStay, AllStores, AllKept(w, k),
         OneFrame', OneDone', DoneTells', LeftFirst', JoinsLast',
         k \in DOMAIN stack'[w] => FrameTells(w, k)' /\ NewTells(w, k)
  PROVE  FramesInv'
<1>1. ASSUME NEW x \in Workers, NEW i \in DOMAIN stack'[x] PROVE FrameTells(x, i)'
  <2>1. CASE x = w /\ i = k
    BY <1>1, <2>1
  <2>2. CASE Kept(x, i)
    <3>1. TypeOK /\ Control(x) /\ FrameTells(x, i)
      <4>1. i \in DOMAIN stack[x]
        BY <2>2 DEF Kept, SameFrame
      <4> QED
        BY <4>1, At1 DEF FramesInv
    <3> QED
      BY <2>2, <3>1, KeptTells
  <2> QED
    BY <1>1, <2>1, <2>2 DEF AllKept
<1>2. ASSUME NEW x \in Workers PROVE JobsOutside(x)'
  <2>1. JobsOutside(x)
    BY At1 DEF FramesInv
  <2>2. \A i \in DOMAIN stack'[x] : stack'[x][i].at = "job" => JobKept(x, i)
    <3>1. SUFFICES ASSUME NEW i \in DOMAIN stack'[x], stack'[x][i].at = "job" PROVE JobKept(x, i)
      OBVIOUS
    <3> QED
      BY <3>1 DEF AllKept, Kept, JobKept, NewTells
  <2>3. \A i \in In(buf'[x], "right_done") : StoreKept(x, i)
    BY DEF AllStores
  <2> QED
    BY <2>1, <2>2, <2>3, OutsideKept
<1> QED
  BY <1>1, <1>2 DEF FramesInv

\* The steps but the end of a job, as far as the flags are concerned.
LEMMA FlagsMove ==
  ASSUME IInv, NEW w \in Workers, FlagsOK(w), \A p \in Pardos : right[p] = "done" => right'[p] = "done"
  PROVE  OneDone' /\ AllStores /\ DoneTells'
<1>1. FramesInv /\ TypeOK
  BY At1
<1>2. ASSUME NEW x \in Workers, NEW i \in In(buf'[x], "right_done") PROVE StoreKept(x, i)
  <2>1. right_done'[buf'[x][i].val] = right_done[buf'[x][i].val]
    BY <1>2 DEF FlagsOK
  <2>2. PICK j \in In(buf[x], "right_done") : buf[x][j].val = buf'[x][i].val
    BY <1>2 DEF FlagsOK
  <2>3. right[buf[x][j].val] = "done" /\ ~right_done[buf[x][j].val]
    BY <1>1, <2>2 DEF FramesInv, JobsOutside
  <2>4. buf[x][j].val \in Pardos
    <3>1. buf[x] \in Seq(Stores)
      BY <1>1, TypesOf
    <3>2. buf[x][j] \in Stores /\ buf[x][j].loc = "right_done"
      BY <2>2, <3>1 DEF In
    <3> QED
      BY <3>2, StoreVal
  <2> QED
    BY <2>1, <2>2, <2>3, <2>4 DEF StoreKept
<1>3. DoneTells'
  BY <1>1 DEF FramesInv, DoneTells, FlagsOK
<1> QED
  BY <1>2, <1>3 DEF AllStores, FlagsOK

\* The frames of the other workers, when all that changes are the states of p.
LEMMA OthersKept ==
  ASSUME IInv, NEW w \in Workers, Apart(w), NEW k,
         \A x \in Workers : \A i \in DOMAIN stack[x] : (x = w /\ i = k) \/ StatesKept(x, i),
         \A i \in DOMAIN stack'[w] : i = k \/ (SameFrame(w, i) /\ PlaceKept(w, i))
  PROVE  AllKept(w, k)
<1>1. SUFFICES ASSUME NEW x \in Workers, NEW i \in DOMAIN stack'[x], ~(x = w /\ i = k) PROVE Kept(x, i)
  BY DEF AllKept
<1>2. CASE x = w
  BY <1>1, <1>2 DEF Kept, SameFrame
<1>3. CASE x # w
  <2>1. i \in DOMAIN stack[x] /\ StatesKept(x, i)
    BY <1>1, <1>3 DEF Apart
  <2> QED
    BY <1>3, <2>1, At1, KeptElsewhere
<1> QED
  BY <1>2, <1>3

\* The frames of w up to n stay where they are, below the top.
LEMMA BelowKept ==
  ASSUME NEW w \in Workers, NEW n \in Nat, \A i \in 1..n : stack'[w][i].at = stack[w][i].at /\ stack'[w][i].p = stack[w][i].p,
         n <= Len(stack[w]), n <= Len(stack'[w]), DOMAIN stack[w] = 1..Len(stack[w]), DOMAIN stack'[w] = 1..Len(stack'[w]),
         Len(stack[w]) \in Nat, Len(stack'[w]) \in Nat
  PROVE  /\ \A i \in 1..n : SameFrame(w, i)
         /\ \A i \in 1..n : i < Len(stack[w]) /\ i < Len(stack'[w]) => PlaceKept(w, i)
<1>1. \A i \in 1..n : i \in 1..Len(stack[w])
  OBVIOUS
<1>2. \A i \in 1..n : SameFrame(w, i)
  BY <1>1 DEF SameFrame
<1>3. \A i \in 1..n : i < Len(stack[w]) /\ i < Len(stack'[w]) => i # Len(stack[w]) /\ i # Len(stack'[w])
  OBVIOUS
<1> QED
  BY <1>2, <1>3 DEF PlaceKept

\* A pardo is called: it is nowhere yet.
LEMMA PardoFrames ==
  ASSUME TagsLast, IInv, ~Aborted, NEW w \in Workers, Pardo(w)
  PROVE  FramesInv'
<1> DEFINE p == Called(w)
<1>n. PICK n : n = Len(stack[w])
  OBVIOUS
<1>1. TypeOK /\ Control(w) /\ DequeInv(w) /\ FramesInv
  BY At1
<1>2. left[p] = "idle" /\ right[p] = "idle"
  BY CalledIsNew
<1>3. /\ p \in Pardos /\ pc[w] = "run" /\ Top(w).at \in ThunkAt
      /\ stack'[w] \in Seq(Frame_) /\ Len(stack'[w]) = n + 1
      /\ \A i \in 1..(n - 1) : stack'[w][i] = stack[w][i]
      /\ stack'[w][n] = AfterCall(Top(w)) /\ stack'[w][n + 1] = Frame("left", p, prog.left[p])
      /\ pc'[w] = PushedAt(bot[w]) /\ left' = [left EXCEPT ![p] = "running"]
      /\ right' = right /\ joined' = joined
  BY <1>n, <1>1, PardoIs
<1>4. n \in Nat \ {0} /\ DOMAIN stack[w] = 1..n /\ DOMAIN stack'[w] = 1..(n + 1) /\ Top(w) = stack[w][n] /\ Top(w) \in Frame_
  BY <1>n, <1>1, <1>3, TopIs
<1>5. left \in [Pardos -> {"idle", "running", "done"}]
  BY <1>1 DEF TypeOK, FJ!FJTypeOK, FJ!ThunkState
<1>6. Apart(w) /\ FlagsOK(w)
  <2>1. Step(w) /\ ~ReturnJob(w)
    <3>1. ~ReturnJob(w)
      BY <1>n, <1>1, <1>3, <1>4, ReturnIs
    <3> QED
      BY <3>1 DEF Step
  <2> QED
    BY <1>1, <2>1, FlagsStay, StepsApart
<1>7. \A x \in Workers : \A i \in DOMAIN stack[x] : stack[x][i].p # p
  BY <1>2, <1>3, FramesStarted
<1>8. \A x \in Workers : \A i \in DOMAIN stack[x] : StatesKept(x, i)
  <2>1. ASSUME NEW x \in Workers, NEW i \in DOMAIN stack[x] PROVE StatesKept(x, i)
    <3>1. stack[x][i].p # p
      BY <1>7
    <3>2. stack[x][i].p \in Pardos => left'[stack[x][i].p] = left[stack[x][i].p]
      BY <1>3, <1>5, <3>1
    <3> QED
      BY <1>3, <1>6, <3>2 DEF StatesKept, FlagsOK
  <2> QED
    BY <2>1
<1> HIDE DEF p
<1>9. \A i \in 1..n : stack'[w][i].at = stack[w][i].at /\ stack'[w][i].p = stack[w][i].p
  <2>1. AfterCall(Top(w)).at = Top(w).at /\ AfterCall(Top(w)).p = Top(w).p
    BY <1>4 DEF AfterCall, Frame_
  <2>2. \A i \in 1..n : i = n \/ i \in 1..(n - 1)
    BY <1>4
  <2> QED
    BY <1>3, <1>4, <2>1, <2>2
<1>10. \A i \in 1..n : SameFrame(w, i) /\ (i # n => PlaceKept(w, i))
  <2>1. n <= Len(stack[w]) /\ n <= Len(stack'[w]) /\ n = Len(stack[w]) /\ Len(stack'[w]) = n + 1
    BY <1>n, <1>3, <1>4
  <2>2. /\ \A i \in 1..n : SameFrame(w, i)
        /\ \A i \in 1..n : i < Len(stack[w]) /\ i < Len(stack'[w]) => PlaceKept(w, i)
    BY <1>3, <1>4, <1>9, <2>1, BelowKept
  <2>3. \A i \in 1..n : i # n => i < n /\ i < n + 1
    BY <1>4
  <2> QED
    BY <2>1, <2>2, <2>3
<1>11. PlaceKept(w, n)
  <2>1. n # Len(stack'[w]) /\ n = Len(stack[w])
    BY <1>n, <1>3, <1>4
  <2> QED
    BY <1>3, <1>4, <2>1 DEF PlaceKept, PopLabels
<1>12. \A i \in DOMAIN stack'[w] : i = n + 1 \/ (i \in 1..n /\ SameFrame(w, i) /\ PlaceKept(w, i))
  <2>1. \A i \in 1..(n + 1) : i = n + 1 \/ i \in 1..n
    BY <1>4
  <2> QED
    BY <1>4, <1>10, <1>11, <2>1
<1>13. AllKept(w, n + 1)
  BY <1>6, <1>8, <1>12, OthersKept
<1>14. OneFrame'
  <2>1. stack'[w][n + 1].p = p
    BY <1>3 DEF Frame
  <2>2. OneNew(w, n + 1)
    <3>1. ASSUME NEW x \in Workers, NEW i \in DOMAIN stack'[x], ~(x = w /\ i = n + 1)
          PROVE  SameFrame(x, i) /\ ~Meet(stack[x][i], stack'[w][n + 1])
      <4>1. SameFrame(x, i)
        BY <1>13, <3>1 DEF AllKept, Kept
      <4>2. stack[x][i].p # p
        BY <1>7, <4>1 DEF SameFrame
      <4> QED
        BY <2>1, <4>1, <4>2 DEF Meet
    <3> QED
      BY <3>1 DEF OneNew
  <2> QED
    BY <1>1, <2>2, OneFrameKept DEF FramesInv
<1>15. PardosStay
  <2>1. SUFFICES ASSUME NEW x \in Workers, NEW j \in DOMAIN stack[x], stack[x][j].at \in {"left", "wait"} PROVE Retained(x, j)
    BY DEF PardosStay
  <2>2. CASE x = w
    <3>1. j \in 1..n /\ j \in 1..(n + 1)
      BY <1>4, <2>1, <2>2
    <3> QED
      BY <1>4, <1>9, <2>1, <2>2, <3>1 DEF Retained
  <2>3. CASE x # w
    BY <1>6, <2>1, <2>3 DEF Apart, Retained
  <2> QED
    BY <2>2, <2>3
<1>16. OneDone' /\ AllStores /\ DoneTells'
  BY <1>3, <1>6, FlagsMove
<1>17. LeftFirst' /\ JoinsLast'
  <2>1. p \notin joined /\ joined \subseteq Pardos
    BY <1>1, <1>2 DEF FramesInv, JoinsLast, TypeOK, FJ!FJTypeOK
  <2>2. \A q \in Pardos : left'[q] = IF q = p THEN "running" ELSE left[q]
    BY <1>3, <1>5
  <2> QED
    BY <1>1, <1>3, <2>1, <2>2 DEF FramesInv, LeftFirst, JoinsLast
<1>18. FrameTells(w, n + 1)'
  <2>1. left'[p] = "running" /\ p \notin joined'
    BY <1>1, <1>2, <1>3, <1>5 DEF FramesInv, JoinsLast
  <2>2. pc'[w] \notin PopLabels
    BY <1>3 DEF PushedAt, PopLabels
  <2>3. stack'[w][n + 1].at = "left" /\ stack'[w][n + 1].p = p
    BY <1>3 DEF Frame
  <2> QED
    BY <2>1, <2>2, <2>3 DEF FrameTells
<1>19. NewTells(w, n + 1)
  BY <1>3 DEF NewTells, Frame
<1> QED
  BY <1>13, <1>14, <1>15, <1>16, <1>17, <1>18, <1>19, FramesMove

\* What is known of the top frame and of the others, where the stack stays as long.
LEMMA TopOnly ==
  ASSUME TypeOK, NEW w \in Workers, Control(w), stack'[w] \in Seq(Frame_), Len(stack'[w]) = Len(stack[w]),
         \A i \in 1..(Len(stack[w]) - 1) : stack'[w][i] = stack[w][i]
  PROVE  /\ \A i \in DOMAIN stack'[w] : i = Len(stack[w]) \/ (SameFrame(w, i) /\ PlaceKept(w, i) /\ i \in 1..(Len(stack[w]) - 1))
         /\ DOMAIN stack'[w] = DOMAIN stack[w]
<1> DEFINE n == Len(stack[w])
<1>1. n \in Nat \ {0} /\ DOMAIN stack[w] = 1..n /\ DOMAIN stack'[w] = 1..n
  BY TopIs
<1>2. \A i \in 1..n : i = n \/ (i \in 1..(n - 1) /\ i < n)
  BY <1>1
<1>3. n - 1 \in Nat /\ n - 1 <= n
  BY <1>1
<1>4. /\ \A i \in 1..(n - 1) : SameFrame(w, i)
      /\ \A i \in 1..(n - 1) : i < Len(stack[w]) /\ i < Len(stack'[w]) => PlaceKept(w, i)
  BY <1>1, <1>3, BelowKept
<1> QED
  BY <1>1, <1>2, <1>4

\* left() returns.
LEMMA ReturnLeftFrames ==
  ASSUME TagsLast, IInv, ~Aborted, NEW w \in Workers, ReturnLeft(w)
  PROVE  FramesInv'
<1> DEFINE p == Top(w).p
<1>n. PICK n : n = Len(stack[w])
  OBVIOUS
<1>1. TypeOK /\ Control(w) /\ FramesInv
  BY At1
<1>2. /\ pc[w] = "run" /\ Top(w).at = "left" /\ left' = [left EXCEPT ![p] = "done"]
      /\ pc'[w] = "pop" /\ stack' = stack /\ right' = right /\ joined' = joined
  BY <1>1 DEF ReturnLeft, Goto, At, TypeOK
<1>3. n \in Nat \ {0} /\ DOMAIN stack[w] = 1..n /\ n \in DOMAIN stack[w] /\ Top(w) = stack[w][n] /\ stack[w] \in Seq(Frame_)
  BY <1>n, <1>1, TopIs
<1>4. p \in Pardos /\ NoPardo \notin Pardos
  BY <1>1, <1>2, <1>3, PardosAt, SchedulerAssumption
<1>5. left \in [Pardos -> {"idle", "running", "done"}]
  BY <1>1 DEF TypeOK, FJ!FJTypeOK, FJ!ThunkState
<1>6. left[p] = "running" /\ p \notin joined
  <2>1. FrameTells(w, n)
    BY <1>1, <1>3 DEF FramesInv
  <2> QED
    BY <1>2, <1>3, <2>1 DEF FrameTells, OwnerAt, PopLabels
<1>7. Apart(w) /\ FlagsOK(w)
  <2>1. Step(w) /\ ~ReturnJob(w)
    BY <1>2 DEF Step, ReturnJob
  <2> QED
    BY <1>1, <2>1, FlagsStay, StepsApart
<1> HIDE DEF p
<1>8. ASSUME NEW x \in Workers, NEW i \in DOMAIN stack[x], ~(x = w /\ i = n) PROVE StatesKept(x, i)
  <2>1. \A q \in Pardos : left'[q] = IF q = p THEN "done" ELSE left[q]
    BY <1>2, <1>5
  <2>2. stack[x][i].p = p => stack[x][i].at = "job"
    <3>1. SUFFICES ASSUME stack[x][i].p = p PROVE stack[x][i].at \notin OwnerAt
      BY <1>4, <1>8, FramesStarted DEF OwnerAt
    <3>2. stack[w][n].p = p /\ stack[w][n].at \in OwnerAt
      BY <1>2, <1>3 DEF OwnerAt, p
    <3> QED
      BY <1>1, <1>3, <1>4, <1>8, <3>1, <3>2 DEF FramesInv, OneFrame
  <2> QED
    BY <1>2, <1>7, <2>1, <2>2 DEF StatesKept, FlagsOK
<1>9. AllKept(w, n)
  <2>1. \A i \in DOMAIN stack'[w] : i = n \/ (SameFrame(w, i) /\ PlaceKept(w, i))
    BY <1>n, <1>1, <1>2, <1>3, TopOnly
  <2> QED
    BY <1>7, <1>8, <2>1, OthersKept
<1>10. OneFrame' /\ PardosStay
  <2>1. OneFrame'
    BY <1>1, <1>2, NoneNew DEF FramesInv, SameFrame
  <2> QED
    BY <1>2, <2>1 DEF PardosStay, Retained
<1>11. OneDone' /\ AllStores /\ DoneTells'
  BY <1>2, <1>7, FlagsMove
<1>12. LeftFirst' /\ JoinsLast'
  <2>1. joined \subseteq Pardos
    BY <1>1 DEF TypeOK, FJ!FJTypeOK
  <2>2. \A q \in Pardos : left'[q] = IF q = p THEN "done" ELSE left[q]
    BY <1>2, <1>5
  <2> QED
    BY <1>1, <1>2, <2>1, <2>2 DEF FramesInv, LeftFirst, JoinsLast
<1>13. FrameTells(w, n)'
  <2>1. left'[p] = "done" /\ p \notin joined'
    BY <1>2, <1>4, <1>5, <1>6
  <2>2. stack'[w][n].at = "left" /\ stack'[w][n].p = p /\ n = Len(stack'[w]) /\ pc'[w] \in PopLabels
    BY <1>n, <1>2, <1>3 DEF p, PopLabels
  <2> QED
    BY <2>1, <2>2 DEF FrameTells
<1>14. NewTells(w, n)
  BY <1>2, <1>3 DEF NewTells
<1> QED
  BY <1>9, <1>10, <1>11, <1>12, <1>13, <1>14, FramesMove

\* right() returns to the pardo that called it.
LEMMA ReturnRightFrames ==
  ASSUME TagsLast, IInv, ~Aborted, NEW w \in Workers, ReturnRight(w)
  PROVE  FramesInv'
<1> DEFINE p == Top(w).p
<1>n. PICK n : n = Len(stack[w])
  OBVIOUS
<1>1. TypeOK /\ Control(w) /\ FramesInv
  BY At1
<1>2. /\ pc[w] = "run" /\ Top(w).at = "right" /\ right' = [right EXCEPT ![p] = "done"]
      /\ pc'[w] = "return" /\ stack' = stack /\ left' = left /\ joined' = joined
  BY <1>1 DEF ReturnRight, Goto, At, TypeOK
<1>3. n \in Nat \ {0} /\ DOMAIN stack[w] = 1..n /\ n \in DOMAIN stack[w] /\ Top(w) = stack[w][n] /\ stack[w] \in Seq(Frame_)
  BY <1>n, <1>1, TopIs
<1>4. p \in Pardos /\ NoPardo \notin Pardos
  BY <1>1, <1>2, <1>3, PardosAt, SchedulerAssumption
<1>5. right \in [Pardos -> {"idle", "running", "done"}]
  BY <1>1 DEF TypeOK, FJ!FJTypeOK, FJ!ThunkState
<1>6. left[p] = "done" /\ right[p] = "running" /\ p \notin joined
  <2>1. FrameTells(w, n)
    BY <1>1, <1>3 DEF FramesInv
  <2> QED
    BY <1>2, <1>3, <2>1 DEF FrameTells, OwnerAt
<1>7. Apart(w) /\ FlagsOK(w)
  <2>1. Step(w) /\ ~ReturnJob(w)
    BY <1>2 DEF Step, ReturnJob
  <2> QED
    BY <1>1, <2>1, FlagsStay, StepsApart
<1> HIDE DEF p
<1>8. ASSUME NEW x \in Workers, NEW i \in DOMAIN stack[x], ~(x = w /\ i = n) PROVE StatesKept(x, i)
  <2>1. \A q \in Pardos : right'[q] = IF q = p THEN "done" ELSE right[q]
    BY <1>2, <1>5
  <2>2. stack[x][i].p # p
    <3>1. SUFFICES ASSUME stack[x][i].p = p PROVE FALSE
      OBVIOUS
    <3>2. stack[w][n].p = p /\ stack[w][n].at = "right"
      BY <1>2, <1>3 DEF p
    <3>3. stack[x][i].at \in OwnerAt \/ stack[x][i].at \in RightAt
      BY <1>4, <1>8, <3>1, FramesStarted DEF OwnerAt, RightAt
    <3>4. "right" \in OwnerAt /\ "right" \in RightAt
      BY DEF OwnerAt, RightAt
    <3> QED
      BY <1>1, <1>3, <1>4, <1>8, <3>1, <3>2, <3>3, <3>4 DEF FramesInv, OneFrame
  <2> QED
    BY <1>2, <1>7, <2>1, <2>2 DEF StatesKept, FlagsOK
<1>9. AllKept(w, n)
  <2>1. \A i \in DOMAIN stack'[w] : i = n \/ (SameFrame(w, i) /\ PlaceKept(w, i))
    BY <1>n, <1>1, <1>2, <1>3, TopOnly
  <2> QED
    BY <1>7, <1>8, <2>1, OthersKept
<1>10. OneFrame' /\ PardosStay
  <2>1. OneFrame'
    BY <1>1, <1>2, NoneNew DEF FramesInv, SameFrame
  <2> QED
    BY <1>2, <2>1 DEF PardosStay, Retained
<1>11. \A q \in Pardos : right'[q] = IF q = p THEN "done" ELSE right[q]
  BY <1>2, <1>5
<1>12. OneDone' /\ AllStores /\ DoneTells'
  BY <1>7, <1>11, FlagsMove
<1>13. LeftFirst' /\ JoinsLast'
  <2>1. joined \subseteq Pardos
    BY <1>1 DEF TypeOK, FJ!FJTypeOK
  <2> QED
    BY <1>1, <1>2, <1>6, <1>11, <2>1 DEF FramesInv, LeftFirst, JoinsLast
<1>14. FrameTells(w, n)'
  <2>1. left'[p] = "done" /\ right'[p] = "done" /\ p \notin joined'
    BY <1>2, <1>4, <1>6, <1>11
  <2>2. stack'[w][n].at = "right" /\ stack'[w][n].p = p /\ n = Len(stack'[w]) /\ pc'[w] = "return"
    BY <1>n, <1>2, <1>3 DEF p
  <2> QED
    BY <2>1, <2>2 DEF FrameTells
<1>15. NewTells(w, n)
  BY <1>2, <1>3 DEF NewTells
<1> QED
  BY <1>9, <1>10, <1>12, <1>13, <1>14, <1>15, FramesMove

\* What pop_bottom says of the job of a pardo whose left() has returned.
LEMMA PoppedSays ==
  ASSUME IInv, NEW w \in Workers, pc[w] = "popped", Top(w).at = "left"
  PROVE  IF job[w] = NoPardo THEN right[Top(w).p] # "idle" ELSE job[w] = Top(w).p /\ right[Top(w).p] = "idle"
<1>1. TypeOK /\ Control(w) /\ DequeInv(w) /\ Quiet(pc[w])
  BY At1 DEF Quiet
<1>2. QuietOK(pc[w], stack[w], job[w], age[w], bot[w], deq[w], right)
  BY <1>1, QuietHere
<1>3. Top(w) = stack[w][Len(stack[w])] /\ Len(stack[w]) \in 1..Len(stack[w]) /\ Len(stack[w]) \in Nat \ {0}
  BY <1>1, TopIs
<1>4. CASE job[w] # NoPardo
  BY <1>2, <1>3, <1>4 DEF QuietOK
<1>5. CASE job[w] = NoPardo
  <2>1. bot[w] = 0
    BY <1>2, <1>5 DEF QuietOK
  <2>2. PICK e : Holds(e, 0, stack[w], deq[w], right, age[w].top, 0)
    BY <1>2, <1>5, <2>1 DEF QuietOK
  <2>3. IsLeft(stack[w], Len(stack[w]), 0)
    BY <1>3 DEF IsLeft
  <2>4. ~HasJob(e, 0, Len(stack[w]))
    BY DEF HasJob
  <2> QED
    BY <1>3, <1>5, <2>2, <2>3, <2>4 DEF Holds, OthersTaken
<1> QED
  BY <1>4, <1>5

\* The worker takes its job back and runs it itself.
LEMMA TakesBackFrames ==
  ASSUME TagsLast, IInv, ~Aborted, NEW w \in Workers, AfterPop(w), job[w] # NoPardo
  PROVE  FramesInv'
<1> DEFINE p == Top(w).p
<1>n. PICK n : n = Len(stack[w])
  OBVIOUS
<1>1. TypeOK /\ Control(w) /\ FramesInv
  BY At1
<1>2. /\ p \in Pardos /\ pc[w] = "popped" /\ Top(w).at = "left" /\ pc'[w] \in {"lock", "run"}
      /\ stack'[w][n] = Frame("right", p, prog.right[p]) /\ right' = [right EXCEPT ![p] = "running"]
      /\ stack'[w] \in Seq(Frame_) /\ Len(stack'[w]) = n
      /\ \A i \in 1..(n - 1) : stack'[w][i] = stack[w][i]
      /\ left' = left /\ joined' = joined
  BY <1>n, <1>1, AfterPopIs
<1>3. n \in Nat \ {0} /\ DOMAIN stack[w] = 1..n /\ n \in DOMAIN stack[w] /\ Top(w) = stack[w][n] /\ stack[w] \in Seq(Frame_)
  BY <1>n, <1>1, TopIs
<1>4. right \in [Pardos -> {"idle", "running", "done"}] /\ joined \subseteq Pardos
  BY <1>1 DEF TypeOK, FJ!FJTypeOK, FJ!ThunkState
<1>5. left[p] = "done" /\ p \notin joined /\ right[p] = "idle"
  <2>1. FrameTells(w, n)
    BY <1>1, <1>3 DEF FramesInv
  <2>2. right[p] = "idle"
    BY <1>2, PoppedSays
  <2> QED
    BY <1>n, <1>2, <1>3, <2>1, <2>2 DEF FrameTells, OwnerAt, PopLabels
<1>6. Apart(w) /\ FlagsOK(w)
  <2>1. Step(w) /\ ~ReturnJob(w)
    BY <1>2 DEF Step, ReturnJob, At
  <2> QED
    BY <1>1, <2>1, FlagsStay, StepsApart
<1>7. \A i \in DOMAIN stack'[w] : i = n \/ (SameFrame(w, i) /\ PlaceKept(w, i) /\ i \in 1..(n - 1))
  BY <1>n, <1>1, <1>2, TopOnly
<1>8. \A q \in Pardos : right'[q] = IF q = p THEN "running" ELSE right[q]
  BY <1>2, <1>4
<1>9. stack'[w][n].at = "right" /\ stack'[w][n].p = p /\ stack[w][n].p = p /\ stack[w][n].at = "left"
  BY <1>2, <1>3 DEF Frame
<1> HIDE DEF p
<1>10. ASSUME NEW x \in Workers, NEW i \in DOMAIN stack[x], ~(x = w /\ i = n) PROVE stack[x][i].p # p
  <2>1. SUFFICES ASSUME stack[x][i].p = p PROVE FALSE
    OBVIOUS
  <2>2. stack[x][i].at = "left"
    BY <1>2, <1>5, <2>1, FramesStarted
  <2> QED
    BY <1>1, <1>3, <1>9, <1>10, <2>1, <2>2, SchedulerAssumption, <1>2 DEF FramesInv, OneFrame, OwnerAt
<1>11. AllKept(w, n)
  <2>1. \A x \in Workers : \A i \in DOMAIN stack[x] : (x = w /\ i = n) \/ StatesKept(x, i)
    <3>1. SUFFICES ASSUME NEW x \in Workers, NEW i \in DOMAIN stack[x], ~(x = w /\ i = n) PROVE StatesKept(x, i)
      OBVIOUS
    <3>2. stack[x][i].p # p
      BY <1>10, <3>1
    <3> QED
      BY <1>2, <1>6, <1>8, <3>2 DEF StatesKept, FlagsOK
  <2> QED
    BY <1>6, <1>7, <2>1, OthersKept
<1>12. OneFrame'
  <2>1. OneNew(w, n)
    <3>1. ASSUME NEW x \in Workers, NEW i \in DOMAIN stack'[x], ~(x = w /\ i = n)
          PROVE  SameFrame(x, i) /\ ~Meet(stack[x][i], stack'[w][n])
      <4>1. SameFrame(x, i)
        BY <1>11, <3>1 DEF AllKept, Kept
      <4>2. stack[x][i].p # p
        BY <1>10, <3>1, <4>1 DEF SameFrame
      <4> QED
        BY <1>9, <4>1, <4>2 DEF Meet
    <3> QED
      BY <3>1 DEF OneNew
  <2> QED
    BY <1>1, <2>1, OneFrameKept DEF FramesInv
<1>13. PardosStay
  <2>1. Free(p)
    <3>1. \A x \in Workers : \A i \in DOMAIN stack[x] : ~(stack[x][i].at = "job" /\ stack[x][i].p = p)
      BY <1>5, <1>2, FramesStarted
    <3>2. \A x \in Workers : \A i \in In(buf[x], "right_done") : buf[x][i].val # p
      BY <1>1, <1>5 DEF FramesInv, JobsOutside
    <3> QED
      BY <3>1, <3>2 DEF Free
  <2>2. SUFFICES ASSUME NEW x \in Workers, NEW j \in DOMAIN stack[x], stack[x][j].at \in {"left", "wait"}, ~(x = w /\ j = n)
                 PROVE  Retained(x, j)
    BY <1>9, <2>1 DEF PardosStay
  <2>3. CASE x = w
    <3>1. j \in 1..(n - 1) /\ j \in DOMAIN stack'[w]
      <4>1. \A i \in 1..n : i = n \/ i \in 1..(n - 1)
        BY <1>3
      <4>2. DOMAIN stack'[w] = 1..n
        BY <1>2
      <4> QED
        BY <1>3, <2>2, <2>3, <4>1, <4>2
    <3> QED
      BY <1>2, <2>2, <2>3, <3>1 DEF Retained
  <2>4. CASE x # w
    BY <1>6, <2>2, <2>4 DEF Apart, Retained
  <2> QED
    BY <2>3, <2>4
<1>14. OneDone' /\ AllStores /\ DoneTells'
  BY <1>5, <1>6, <1>8, FlagsMove
<1>15. LeftFirst' /\ JoinsLast'
  BY <1>1, <1>2, <1>4, <1>5, <1>8 DEF FramesInv, LeftFirst, JoinsLast
<1>16. FrameTells(w, n)' /\ NewTells(w, n)
  <2>1. left'[p] = "done" /\ right'[p] = "running" /\ p \notin joined' /\ pc'[w] # "return"
    BY <1>2, <1>5, <1>8
  <2> QED
    BY <1>9, <2>1 DEF FrameTells, NewTells
<1> QED
  BY <1>11, <1>12, <1>13, <1>14, <1>15, <1>16, FramesMove

\* A thief has it, and the worker begins to wait.
LEMMA WaitsFrames ==
  ASSUME TagsLast, IInv, ~Aborted, NEW w \in Workers, AfterPop(w), job[w] = NoPardo
  PROVE  FramesInv'
<1> DEFINE p == Top(w).p
<1>n. PICK n : n = Len(stack[w])
  OBVIOUS
<1>1. TypeOK /\ Control(w) /\ FramesInv
  BY At1
<1>2. /\ p \in Pardos /\ pc[w] = "popped" /\ Top(w).at = "left" /\ pc'[w] \in {"spin", "get_job"}
      /\ stack'[w][n] = Frame("wait", p, <<>>) /\ right' = right
      /\ stack'[w] \in Seq(Frame_) /\ Len(stack'[w]) = n
      /\ \A i \in 1..(n - 1) : stack'[w][i] = stack[w][i]
      /\ left' = left /\ joined' = joined
  BY <1>n, <1>1, AfterPopIs
<1>3. n \in Nat \ {0} /\ DOMAIN stack[w] = 1..n /\ n \in DOMAIN stack[w] /\ Top(w) = stack[w][n] /\ stack[w] \in Seq(Frame_)
  BY <1>n, <1>1, TopIs
<1>5. left[p] = "done" /\ p \notin joined /\ right[p] # "idle"
  <2>1. FrameTells(w, n)
    BY <1>1, <1>3 DEF FramesInv
  <2>2. right[p] # "idle"
    BY <1>2, PoppedSays
  <2> QED
    BY <1>n, <1>2, <1>3, <2>1, <2>2 DEF FrameTells, OwnerAt, PopLabels
<1>6. Apart(w) /\ FlagsOK(w)
  <2>1. Step(w) /\ ~ReturnJob(w)
    BY <1>2 DEF Step, ReturnJob, At
  <2> QED
    BY <1>1, <2>1, FlagsStay, StepsApart
<1>7. \A i \in DOMAIN stack'[w] : i = n \/ (SameFrame(w, i) /\ PlaceKept(w, i) /\ i \in 1..(n - 1))
  BY <1>n, <1>1, <1>2, TopOnly
<1>9. stack'[w][n].at = "wait" /\ stack'[w][n].p = p /\ stack[w][n].p = p /\ stack[w][n].at = "left"
  BY <1>2, <1>3 DEF Frame
<1> HIDE DEF p
<1>11. AllKept(w, n)
  <2>1. \A x \in Workers : \A i \in DOMAIN stack[x] : StatesKept(x, i)
    BY <1>2, <1>6 DEF StatesKept, FlagsOK
  <2> QED
    BY <1>6, <1>7, <2>1, OthersKept
<1>12. OneFrame'
  <2>1. OneNew(w, n)
    <3>1. ASSUME NEW x \in Workers, NEW i \in DOMAIN stack'[x], ~(x = w /\ i = n)
          PROVE  SameFrame(x, i) /\ ~Meet(stack[x][i], stack'[w][n])
      <4>1. SameFrame(x, i)
        BY <1>11, <3>1 DEF AllKept, Kept
      <4>2. i \in DOMAIN stack[x]
        BY <4>1 DEF SameFrame
      <4>3. ~(stack[x][i].p = p /\ stack[x][i].at \in OwnerAt)
        BY <1>1, <1>2, <1>3, <1>9, <3>1, <4>2, SchedulerAssumption DEF FramesInv, OneFrame, OwnerAt
      <4> QED
        BY <1>9, <4>1, <4>3 DEF Meet, RightAt
    <3> QED
      BY <3>1 DEF OneNew
  <2> QED
    BY <1>1, <2>1, OneFrameKept DEF FramesInv
<1>13. PardosStay
  <2>2. SUFFICES ASSUME NEW x \in Workers, NEW j \in DOMAIN stack[x], stack[x][j].at \in {"left", "wait"}
                 PROVE  Retained(x, j)
    BY DEF PardosStay
  <2>3. CASE x = w
    <3>1. (j = n \/ j \in 1..(n - 1)) /\ j \in DOMAIN stack'[w]
      <4>1. \A i \in 1..n : i = n \/ i \in 1..(n - 1)
        BY <1>3
      <4>2. DOMAIN stack'[w] = 1..n
        BY <1>2
      <4> QED
        BY <1>3, <2>2, <2>3, <4>1, <4>2
    <3> QED
      BY <1>2, <1>9, <2>2, <2>3, <3>1 DEF Retained
  <2>4. CASE x # w
    BY <1>6, <2>2, <2>4 DEF Apart, Retained
  <2> QED
    BY <2>3, <2>4
<1>14. OneDone' /\ AllStores /\ DoneTells'
  BY <1>2, <1>6, FlagsMove
<1>15. LeftFirst' /\ JoinsLast'
  BY <1>1, <1>2 DEF FramesInv, LeftFirst, JoinsLast
<1>16. FrameTells(w, n)' /\ NewTells(w, n)
  <2>1. left'[p] = "done" /\ right'[p] # "idle" /\ p \notin joined' /\ pc'[w] # "return"
    BY <1>2, <1>5
  <2> QED
    BY <1>9, <2>1 DEF FrameTells, NewTells
<1> QED
  BY <1>11, <1>12, <1>13, <1>14, <1>15, <1>16, FramesMove

\* A thief takes a job, whose frame of pardo is at its victim.
LEMMA TakesFrames ==
  ASSUME TagsLast, IInv, ~Aborted, NEW w \in Workers, Takes(w)
  PROVE  FramesInv'
<1> DEFINE p == job[w]
<1>n. PICK n : n = Len(stack[w])
  OBVIOUS
<1>1. TypeOK /\ Control(w) /\ FramesInv
  BY At1
<1>y. PICK y \in Workers \ {w} : HasLeft(y, p)
  BY TakesIs
<1>2. /\ pc[w] = "steal_cas" /\ p \in Pardos /\ right[p] = "idle" /\ left[p] # "idle" /\ pc'[w] \in {"lock", "run"}
      /\ stack'[w] \in Seq(Frame_) /\ Len(stack'[w]) = n + 1 /\ stack'[w][n + 1] = Frame("job", p, prog.right[p])
      /\ \A i \in 1..n : stack'[w][i] = stack[w][i]
      /\ right' = [right EXCEPT ![p] = "running"] /\ left' = left /\ joined' = joined
  BY <1>n, TakesIs
<1>3. n \in Nat \ {0} /\ DOMAIN stack[w] = 1..n /\ n \in DOMAIN stack[w] /\ Top(w) = stack[w][n] /\ stack[w] \in Seq(Frame_)
      /\ Top(w).at = "wait" /\ DOMAIN stack'[w] = 1..(n + 1)
  BY <1>n, <1>1, <1>2, TopIs, TopAt
<1>4. right \in [Pardos -> {"idle", "running", "done"}] /\ joined \subseteq Pardos
  BY <1>1 DEF TypeOK, FJ!FJTypeOK, FJ!ThunkState
<1>5. p \notin joined
  BY <1>1, <1>2 DEF FramesInv, JoinsLast
<1>6. Apart(w) /\ FlagsOK(w)
  <2>1. Step(w) /\ ~ReturnJob(w)
    BY <1>2 DEF Step, ReturnJob, At, Takes
  <2> QED
    BY <1>1, <2>1, FlagsStay, StepsApart
<1>8. \A q \in Pardos : right'[q] = IF q = p THEN "running" ELSE right[q]
  BY <1>2, <1>4
<1>9. stack'[w][n + 1].at = "job" /\ stack'[w][n + 1].p = p
  BY <1>2 DEF Frame
<1>k. PICK k : k = n + 1
  OBVIOUS
<1> HIDE DEF p
<1>10. ASSUME NEW x \in Workers, NEW i \in DOMAIN stack[x], stack[x][i].p = p PROVE stack[x][i].at = "left"
  BY <1>2, <1>10, FramesStarted
<1>7. \A i \in DOMAIN stack'[w] : i = k \/ (i \in 1..n /\ SameFrame(w, i) /\ PlaceKept(w, i))
  <2>1. n <= Len(stack[w]) /\ n <= Len(stack'[w]) /\ n = Len(stack[w]) /\ Len(stack'[w]) = n + 1
    BY <1>n, <1>2, <1>3
  <2>2. /\ \A i \in 1..n : SameFrame(w, i)
        /\ \A i \in 1..n : i < Len(stack[w]) /\ i < Len(stack'[w]) => PlaceKept(w, i)
    <3>1. \A i \in 1..n : stack'[w][i].at = stack[w][i].at /\ stack'[w][i].p = stack[w][i].p
      BY <1>2
    <3> QED
      BY <1>3, <2>1, <3>1, BelowKept
  <2>3. \A i \in 1..n : i # n => i < n /\ i < n + 1
    BY <1>3
  <2>4. PlaceKept(w, n)
    <3>1. n # Len(stack'[w]) /\ n = Len(stack[w])
      BY <1>3, <2>1
    <3> QED
      BY <1>3, <3>1 DEF PlaceKept
  <2>5. \A i \in 1..(n + 1) : i = n + 1 \/ i \in 1..n
    BY <1>3
  <2> QED
    BY <1>3, <1>k, <2>1, <2>2, <2>3, <2>4, <2>5
<1>11. AllKept(w, k)
  <2>1. \A x \in Workers : \A i \in DOMAIN stack[x] : StatesKept(x, i)
    <3>1. SUFFICES ASSUME NEW x \in Workers, NEW i \in DOMAIN stack[x] PROVE StatesKept(x, i)
      OBVIOUS
    <3>2. stack[x][i].p = p => stack[x][i].at = "left"
      BY <1>10
    <3> QED
      BY <1>2, <1>6, <1>8, <3>2 DEF StatesKept, FlagsOK
  <2> QED
    BY <1>6, <1>7, <2>1, OthersKept
<1>12. OneFrame'
  <2>1. OneNew(w, k)
    <3>1. ASSUME NEW x \in Workers, NEW i \in DOMAIN stack'[x], ~(x = w /\ i = k)
          PROVE  SameFrame(x, i) /\ ~Meet(stack[x][i], stack'[w][k])
      <4>1. SameFrame(x, i)
        BY <1>11, <3>1 DEF AllKept, Kept
      <4>2. stack[x][i].p = p => stack[x][i].at = "left"
        BY <1>10, <4>1 DEF SameFrame
      <4> QED
        BY <1>9, <1>k, <4>1, <4>2 DEF Meet, RightAt, OwnerAt
    <3> QED
      BY <3>1 DEF OneNew
  <2> QED
    BY <1>1, <2>1, OneFrameKept DEF FramesInv
<1>13. \A x \in Workers : \A j \in DOMAIN stack[x] : stack[x][j].at \in {"left", "wait"} => Retained(x, j)
  <2>2. SUFFICES ASSUME NEW x \in Workers, NEW j \in DOMAIN stack[x], stack[x][j].at \in {"left", "wait"}
                 PROVE  Retained(x, j)
    OBVIOUS
  <2>3. CASE x = w
    <3>1. j \in 1..n /\ j \in 1..(n + 1)
      BY <1>3, <2>2, <2>3
    <3> QED
      BY <1>2, <1>3, <2>2, <2>3, <3>1 DEF Retained
  <2>4. CASE x # w
    BY <1>6, <2>2, <2>4 DEF Apart, Retained
  <2> QED
    BY <2>3, <2>4
<1>14. OneDone' /\ AllStores /\ DoneTells'
  BY <1>2, <1>6, <1>8, FlagsMove
<1>15. LeftFirst' /\ JoinsLast'
  BY <1>1, <1>2, <1>4, <1>5, <1>8 DEF FramesInv, LeftFirst, JoinsLast
<1>16. FrameTells(w, k)'
  <2>1. left'[p] # "idle" /\ right'[p] = "running"
    BY <1>2, <1>8
  <2> QED
    BY <1>9, <1>k, <2>1 DEF FrameTells, OwnerAt
<1>17. NewTells(w, k)
  <2>1. PICK j \in DOMAIN stack[y] : stack[y][j].at = "left" /\ stack[y][j].p = p
    BY <1>y DEF HasLeft
  <2>2. Retained(y, j)
    BY <1>13, <2>1
  <2> QED
    BY <1>9, <1>k, <2>1, <2>2 DEF NewTells, InPardoNext, Retained
<1>18. PardosStay
  BY <1>13 DEF PardosStay
<1> QED
  BY <1>11, <1>12, <1>14, <1>15, <1>16, <1>17, <1>18, FramesMove

\* A frame is popped, and the one below is on top again.
LEMMA BelowTop ==
  ASSUME TypeOK, NEW w \in Workers, Control(w), ReturnJob(w) \/ ReturnPardo(w)
  PROVE  \A i \in DOMAIN stack'[w] : SameFrame(w, i) /\ PlaceKept(w, i) /\ i # Len(stack[w]) /\ stack'[w][i] = stack[w][i]
<1>n. PICK n : n = Len(stack[w])
  OBVIOUS
<1>1. /\ n - 1 \in Nat \ {0} /\ stack'[w] \in Seq(Frame_) /\ Len(stack'[w]) = n - 1
      /\ \A i \in 1..(n - 1) : stack'[w][i] = stack[w][i]
      /\ \/ Top(w).at = "job" /\ pc'[w] = "get_job"
         \/ pc[w] = "return" /\ Top(w).at \in {"right", "wait"} /\ pc'[w] = "run"
  BY <1>n, ReturnIs
<1>2. n \in Nat \ {0} /\ DOMAIN stack[w] = 1..n /\ DOMAIN stack'[w] = 1..(n - 1) /\ Top(w) = stack[w][n]
  BY <1>n, <1>1, TopIs
<1>3. n - 1 <= n /\ \A i \in 1..(n - 1) : i # n
  BY <1>2
<1>4. \A i \in 1..(n - 1) : SameFrame(w, i)
  <2>1. \A i \in 1..(n - 1) : stack'[w][i].at = stack[w][i].at /\ stack'[w][i].p = stack[w][i].p
    BY <1>1
  <2>2. n - 1 \in Nat /\ n - 1 <= Len(stack[w]) /\ n - 1 <= Len(stack'[w])
    BY <1>n, <1>1, <1>2, <1>3
  <2> QED
    BY <1>n, <1>1, <1>2, <2>1, <2>2, BelowKept
<1>5. \A i \in 1..(n - 1) : PlaceKept(w, i)
  BY <1>n, <1>1, <1>2, <1>3 DEF PlaceKept, PopLabels
<1> QED
  BY <1>n, <1>1, <1>2, <1>3, <1>4, <1>5

\* The thunk of a job returns, and the store to its flag is on its way.
LEMMA ReturnJobFrames ==
  ASSUME TagsLast, IInv, ~Aborted, NEW w \in Workers, ReturnJob(w)
  PROVE  FramesInv'
<1> DEFINE p == Top(w).p
           c == buf'[w]
<1>n. PICK n : n = Len(stack[w])
  OBVIOUS
<1>1. TypeOK /\ Control(w) /\ FramesInv
  BY At1
<1>2. pc[w] = "run" /\ Top(w).at = "job"
  BY DEF ReturnJob, At
<1>3. /\ p \in Pardos /\ stack'[w] \in Seq(Frame_)
      /\ left' = left /\ right' = [right EXCEPT ![p] = "done"] /\ joined' = joined /\ right_done' = right_done
      /\ c = Enter(buf[w], DoneStore(p))
  BY <1>1, <1>2, ReturnIs
<1>4. n \in DOMAIN stack[w] /\ Top(w) = stack[w][n]
  BY <1>n, <1>1, TopIs
<1>5. right \in [Pardos -> {"idle", "running", "done"}] /\ joined \subseteq Pardos
  BY <1>1 DEF TypeOK, FJ!FJTypeOK, FJ!ThunkState
<1>6. right[p] = "running" /\ left[p] # "idle" /\ ~right_done[p] /\ InPardo(w, p)
  <2>1. FrameTells(w, n) /\ JobsOutside(w) /\ DoneTells
    BY <1>1, <1>4 DEF FramesInv
  <2> QED
    BY <1>2, <1>3, <1>4, <2>1 DEF FrameTells, JobsOutside, DoneTells
<1>7. Apart(w) /\ Step(w)
  <2>1. Step(w)
    BY DEF Step
  <2> QED
    BY <1>1, <2>1, StepsApart
<1>8. \A q \in Pardos : right'[q] = IF q = p THEN "done" ELSE right[q]
  BY <1>3, <1>5
<1>9. \A i \in DOMAIN stack'[w] : SameFrame(w, i) /\ PlaceKept(w, i) /\ i # n
  BY <1>n, <1>1, BelowTop
<1>10. c \in Seq(Stores) /\ c = Enter(buf[w], DoneStore(p)) /\ buf[w] \in Seq(Stores)
       /\ Len(c) = Len(buf[w]) + 1 /\ Len(buf[w]) \in Nat /\ c[Len(buf[w]) + 1] = DoneStore(p)
       /\ \A i \in DOMAIN buf[w] : c[i] = buf[w][i]
       /\ In(c, "right_done") = In(buf[w], "right_done") \cup {Len(buf[w]) + 1}
  <2>1. DoneStore(p) \in Stores /\ DoneStore(p).loc = "right_done"
    BY <1>3 DEF DoneStore, Stores
  <2>2. buf[w] \in Seq(Stores)
    BY <1>1, TypesOf
  <2>3. /\ Enter(buf[w], DoneStore(p)) \in Seq(Stores) /\ Len(Enter(buf[w], DoneStore(p))) = Len(buf[w]) + 1
        /\ Enter(buf[w], DoneStore(p))[Len(buf[w]) + 1] = DoneStore(p)
        /\ \A i \in DOMAIN buf[w] : Enter(buf[w], DoneStore(p))[i] = buf[w][i]
        /\ \A l : In(Enter(buf[w], DoneStore(p)), l) = In(buf[w], l) \cup (IF DoneStore(p).loc = l THEN {Len(buf[w]) + 1} ELSE {})
    BY <2>1, <2>2, Entered
  <2>4. In(Enter(buf[w], DoneStore(p)), "right_done") = In(buf[w], "right_done") \cup {Len(buf[w]) + 1}
    BY <2>1, <2>3
  <2> QED
    BY <1>3, <2>2, <2>3, <2>4
<1>k. PICK k : k = Len(buf[w]) + 1
  OBVIOUS
<1>11. /\ \A x \in Workers : \A i \in In(buf'[x], "right_done") :
            (x = w /\ i = k) \/ (i \in In(buf[x], "right_done") /\ buf'[x][i] = buf[x][i])
       /\ buf'[w][k].val = p
  <2>1. ASSUME NEW i \in In(buf'[w], "right_done") PROVE i = k \/ (i \in In(buf[w], "right_done") /\ buf'[w][i] = buf[w][i])
    BY <1>10, <1>k, <2>1 DEF In
  <2>2. buf'[w][k].val = p
    BY <1>10, <1>k DEF DoneStore
  <2> QED
    BY <1>7, <2>1, <2>2 DEF Apart
<1> HIDE DEF p, c
<1>12. \A x \in Workers : \A i \in In(buf[x], "right_done") :
         buf[x][i].val # p /\ right[buf[x][i].val] = "done" /\ ~right_done[buf[x][i].val] /\ buf[x][i].val \in Pardos
  <2>1. SUFFICES ASSUME NEW x \in Workers, NEW i \in In(buf[x], "right_done")
                 PROVE  buf[x][i].val # p /\ right[buf[x][i].val] = "done" /\ ~right_done[buf[x][i].val] /\ buf[x][i].val \in Pardos
    OBVIOUS
  <2>2. right[buf[x][i].val] = "done" /\ ~right_done[buf[x][i].val]
    BY <1>1, <2>1 DEF FramesInv, JobsOutside
  <2>3. buf[x][i].val \in Pardos
    <3>1. buf[x] \in Seq(Stores)
      BY <1>1, TypesOf
    <3>2. buf[x][i] \in Stores /\ buf[x][i].loc = "right_done"
      BY <2>1, <3>1 DEF In
    <3> QED
      BY <3>2, StoreVal
  <2> QED
    BY <1>6, <2>2, <2>3
<1>13. OneDone'
  <2>1. SUFFICES ASSUME NEW x \in Workers, NEW y \in Workers, NEW i \in In(buf'[x], "right_done"), NEW j \in In(buf'[y], "right_done"),
                        buf'[x][i].val = buf'[y][j].val
                 PROVE  x = y /\ i = j
    <3>1. \A x, y \in Workers : \A i \in In(buf'[x], "right_done"), j \in In(buf'[y], "right_done") :
            buf'[x][i].val = buf'[y][j].val => x = y /\ i = j
      BY <2>1
    <3> QED
      BY <3>1 DEF OneDone, In
  <2>2. CASE x = w /\ i = k
    <3>1. CASE y = w /\ j = k
      BY <2>2, <3>1
    <3>2. CASE ~(y = w /\ j = k)
      <4>1. j \in In(buf[y], "right_done") /\ buf'[y][j] = buf[y][j]
        BY <1>11, <2>1, <3>2
      <4> QED
        BY <1>11, <1>12, <2>1, <2>2, <4>1
    <3> QED
      BY <3>1, <3>2
  <2>3. CASE ~(x = w /\ i = k)
    <3>0. i \in In(buf[x], "right_done") /\ buf'[x][i] = buf[x][i]
      BY <1>11, <2>1, <2>3
    <3>1. CASE y = w /\ j = k
      BY <1>11, <1>12, <2>1, <3>0, <3>1
    <3>2. CASE ~(y = w /\ j = k)
      <4>1. j \in In(buf[y], "right_done") /\ buf'[y][j] = buf[y][j]
        BY <1>11, <2>1, <3>2
      <4> QED
        BY <1>1, <2>1, <3>0, <4>1 DEF FramesInv, OneDone
    <3> QED
      BY <3>1, <3>2
  <2> QED
    BY <2>2, <2>3
<1>14. AllStores
  <2>1. SUFFICES ASSUME NEW x \in Workers, NEW i \in In(buf'[x], "right_done") PROVE StoreKept(x, i)
    BY DEF AllStores
  <2>2. CASE x = w /\ i = k
    <3>0. PICK y \in Workers \ {w} : \E j \in DOMAIN stack[y] : stack[y][j].at \in {"left", "wait"} /\ stack[y][j].p = p
      BY <1>6 DEF InPardo
    <3>1. InPardoNext(w, p)
      BY <1>7, <3>0 DEF InPardoNext, Apart
    <3> QED
      BY <1>3, <1>6, <1>8, <1>11, <2>2, <3>1 DEF StoreKept
  <2>3. CASE ~(x = w /\ i = k)
    <3>1. i \in In(buf[x], "right_done") /\ buf'[x][i] = buf[x][i]
      BY <1>11, <2>1, <2>3
    <3> QED
      BY <1>3, <1>8, <1>12, <3>1 DEF StoreKept
  <2> QED
    BY <2>2, <2>3
<1>15. ASSUME NEW x \in Workers, NEW i \in DOMAIN stack[x], ~(x = w /\ i = n) PROVE StatesKept(x, i)
  <2>2. stack[x][i].p = p => stack[x][i].at \in {"left", "wait"}
    <3>1. SUFFICES ASSUME stack[x][i].p = p PROVE stack[x][i].at \notin RightAt
      BY <1>3, <1>15, FramesStarted DEF RightAt
    <3>2. stack[w][n].p = p /\ stack[w][n].at \in RightAt
      BY <1>2, <1>4 DEF p, RightAt
    <3> QED
      BY <1>1, <1>3, <1>4, <1>15, <3>1, <3>2, SchedulerAssumption DEF FramesInv, OneFrame
  <2> QED
    BY <1>3, <1>8, <2>2 DEF StatesKept
<1>16. AllKept(w, n)
  <2>1. \A i \in DOMAIN stack'[w] : i = n \/ (SameFrame(w, i) /\ PlaceKept(w, i))
    BY <1>9
  <2>2. \A x \in Workers : \A i \in DOMAIN stack[x] : (x = w /\ i = n) \/ StatesKept(x, i)
    BY <1>15
  <2> QED
    BY <1>7, <2>1, <2>2, OthersKept
<1>17. OneFrame'
  <2>1. \A x \in Workers : \A i \in DOMAIN stack'[x] : SameFrame(x, i)
    BY <1>9, <1>16 DEF AllKept, Kept
  <2> QED
    BY <1>1, <2>1, NoneNew DEF FramesInv
<1>18. PardosStay
  <2>2. SUFFICES ASSUME NEW x \in Workers, NEW j \in DOMAIN stack[x], stack[x][j].at \in {"left", "wait"}
                 PROVE  Retained(x, j)
    BY DEF PardosStay
  <2>3. CASE x = w
    <3>1. j # n
      BY <1>2, <1>4, <2>2, <2>3
    <3>2. j \in DOMAIN stack'[w]
      <4>1. Len(stack'[w]) = n - 1 /\ DOMAIN stack[w] = 1..n /\ n \in Nat
        BY <1>n, <1>1, ReturnIs, TopIs
      <4>2. \A i \in 1..n : i = n \/ i \in 1..(n - 1)
        BY <4>1
      <4>3. DOMAIN stack'[w] = 1..(n - 1)
        BY <1>3, <4>1
      <4> QED
        BY <2>2, <2>3, <3>1, <4>1, <4>2, <4>3
    <3>3. SameFrame(w, j)
      BY <1>9, <3>2
    <3> QED
      BY <2>2, <2>3, <3>2, <3>3 DEF Retained, SameFrame
  <2>4. CASE x # w
    BY <1>7, <2>2, <2>4 DEF Apart, Retained
  <2> QED
    BY <2>3, <2>4
<1>19. DoneTells' /\ LeftFirst' /\ JoinsLast'
  BY <1>1, <1>3, <1>5, <1>6, <1>8 DEF FramesInv, LeftFirst, JoinsLast, DoneTells
<1>20. n \notin DOMAIN stack'[w]
  BY <1>9
<1> QED
  BY <1>13, <1>14, <1>16, <1>17, <1>18, <1>19, <1>20, FramesMove

\* pardo returns, and its frame is gone.
LEMMA ReturnPardoFrames ==
  ASSUME TagsLast, IInv, ~Aborted, NEW w \in Workers, ReturnPardo(w)
  PROVE  FramesInv'
<1> DEFINE p == Top(w).p
<1>n. PICK n : n = Len(stack[w])
  OBVIOUS
<1>1. TypeOK /\ Control(w) /\ FramesInv
  BY At1
<1>2. pc[w] = "return"
  BY DEF ReturnPardo, At
<1>3. /\ p \in Pardos /\ stack'[w] \in Seq(Frame_) /\ Top(w).at \in {"right", "wait"}
      /\ left' = left /\ right' = right /\ joined' = joined \cup {p}
  BY <1>1, <1>2, ReturnIs
<1>4. n \in DOMAIN stack[w] /\ Top(w) = stack[w][n] /\ p # NoPardo
  BY <1>n, <1>1, <1>3, TopIs, SchedulerAssumption
<1>6. left[p] = "done" /\ right[p] = "done" /\ (Top(w).at = "wait" => right_done[p])
  <2>1. FrameTells(w, n) /\ DoneTells
    BY <1>1, <1>4 DEF FramesInv
  <2> QED
    BY <1>n, <1>2, <1>3, <1>4, <2>1 DEF FrameTells, DoneTells
<1>7. Apart(w) /\ FlagsOK(w)
  <2>1. Step(w) /\ ~ReturnJob(w)
    BY <1>2 DEF Step, ReturnJob, At
  <2> QED
    BY <1>1, <2>1, FlagsStay, StepsApart
<1>9. \A i \in DOMAIN stack'[w] : SameFrame(w, i) /\ PlaceKept(w, i) /\ i # n
  BY <1>n, <1>1, BelowTop
<1> HIDE DEF p
<1>15. ASSUME NEW x \in Workers, NEW i \in DOMAIN stack[x], ~(x = w /\ i = n) PROVE StatesKept(x, i)
  <2>2. stack[x][i].at \in OwnerAt => stack[x][i].p # p
    <3>1. SUFFICES ASSUME stack[x][i].p = p PROVE stack[x][i].at \notin OwnerAt
      OBVIOUS
    <3>2. stack[w][n].p = p /\ stack[w][n].at \in OwnerAt
      BY <1>3, <1>4 DEF p, OwnerAt
    <3> QED
      BY <1>1, <1>4, <1>15, <3>1, <3>2 DEF FramesInv, OneFrame
  <2> QED
    BY <1>3, <1>7, <2>2 DEF StatesKept, FlagsOK
<1>16. AllKept(w, n)
  <2>1. \A i \in DOMAIN stack'[w] : i = n \/ (SameFrame(w, i) /\ PlaceKept(w, i))
    BY <1>9
  <2>2. \A x \in Workers : \A i \in DOMAIN stack[x] : (x = w /\ i = n) \/ StatesKept(x, i)
    BY <1>15
  <2> QED
    BY <1>7, <2>1, <2>2, OthersKept
<1>17. OneFrame'
  <2>1. \A x \in Workers : \A i \in DOMAIN stack'[x] : SameFrame(x, i)
    BY <1>9, <1>16 DEF AllKept, Kept
  <2> QED
    BY <1>1, <2>1, NoneNew DEF FramesInv
<1>18. PardosStay
  <2>1. Top(w).at = "wait" => Free(p)
    <3>0. SUFFICES ASSUME Top(w).at = "wait" PROVE Free(p)
      OBVIOUS
    <3>1. \A x \in Workers : \A i \in DOMAIN stack[x] : ~(stack[x][i].at = "job" /\ stack[x][i].p = p)
      <4>1. SUFFICES ASSUME NEW x \in Workers, NEW i \in DOMAIN stack[x], stack[x][i].at = "job", stack[x][i].p = p PROVE FALSE
        OBVIOUS
      <4>2. FrameTells(x, i)
        BY <1>1, <4>1 DEF FramesInv
      <4> QED
        BY <1>6, <4>1, <4>2 DEF FrameTells
    <3>2. \A x \in Workers : \A i \in In(buf[x], "right_done") : buf[x][i].val # p
      BY <1>1, <1>6, <3>0 DEF FramesInv, JobsOutside
    <3> QED
      BY <3>1, <3>2 DEF Free
  <2>2. SUFFICES ASSUME NEW x \in Workers, NEW j \in DOMAIN stack[x], stack[x][j].at \in {"left", "wait"}
                 PROVE  Retained(x, j) \/ Free(stack[x][j].p)
    BY DEF PardosStay
  <2>3. CASE x = w /\ j # n
    <3>2. j \in DOMAIN stack'[w]
      <4>1. Len(stack'[w]) = n - 1 /\ DOMAIN stack[w] = 1..n /\ n \in Nat
        BY <1>n, <1>1, ReturnIs, TopIs
      <4>2. \A i \in 1..n : i = n \/ i \in 1..(n - 1)
        BY <4>1
      <4>3. DOMAIN stack'[w] = 1..(n - 1)
        BY <1>3, <4>1
      <4> QED
        BY <2>2, <2>3, <4>1, <4>2, <4>3
    <3>3. SameFrame(w, j)
      BY <1>9, <3>2
    <3> QED
      BY <2>2, <2>3, <3>2, <3>3 DEF Retained, SameFrame
  <2>4. CASE x # w
    BY <1>7, <2>2, <2>4 DEF Apart, Retained
  <2>5. CASE x = w /\ j = n
    <3>1. Top(w).at = "wait" /\ stack[x][j].p = p
      BY <1>3, <1>4, <2>2, <2>5 DEF p
    <3> QED
      BY <2>1, <3>1
  <2> QED
    BY <2>3, <2>4, <2>5
<1>14. OneDone' /\ AllStores /\ DoneTells'
  BY <1>3, <1>7, FlagsMove
<1>19. LeftFirst' /\ JoinsLast'
  BY <1>1, <1>3, <1>6 DEF FramesInv, LeftFirst, JoinsLast
<1>20. n \notin DOMAIN stack'[w]
  BY <1>9
<1> QED
  BY <1>14, <1>16, <1>17, <1>18, <1>19, <1>20, FramesMove

\* Every step keeps what the frames say.
LEMMA FramesStep ==
  ASSUME TagsLast, IInv, ~Aborted, NEW w \in Workers, Step(w) \/ Flush(w)
  PROVE  FramesInv'
<1>1. CASE StillStep(w)
  BY <1>1, StillFrames
<1>2. CASE Pardo(w)
  BY <1>2, PardoFrames
<1>3. CASE ReturnLeft(w)
  BY <1>3, ReturnLeftFrames
<1>4. CASE ReturnRight(w)
  BY <1>4, ReturnRightFrames
<1>5. CASE AfterPop(w)
  BY <1>5, TakesBackFrames, WaitsFrames
<1>6. CASE Takes(w)
  BY <1>6, TakesFrames
<1>7. CASE ReturnJob(w)
  BY <1>7, ReturnJobFrames
<1>8. CASE ReturnPardo(w)
  BY <1>8, ReturnPardoFrames
<1> QED
  BY <1>1, <1>2, <1>3, <1>4, <1>5, <1>6, <1>7, <1>8 DEF Step, StillStep, Takes

-----------------------------------------------------------------------------
(* The calls.  A thunk has one frame, and a pardo is called at one place.  *)

\* A frame of a thunk, and the thunk.
LEMMA ThunkIs ==
  ASSUME IInv, NEW x \in Workers, NEW i \in DOMAIN stack[x], stack[x][i].at \in ThunkAt
  PROVE  /\ ThunkOf(stack[x][i]) \in Thunks
         /\ stack[x][i].at = "main" => x = 0 /\ i = 1
         /\ stack[x][i].at # "main" => stack[x][i].p \in Pardos
         /\ BodyOf(stack[x][i]) \in Seq(Pardos) /\ stack[x][i].rest \in Seq(Pardos) /\ prog \in Programs
<1>1. TypeOK /\ Control(x) /\ prog \in Programs
  BY At1 DEF TypeOK, FJ!FJTypeOK
<1>2. i \in 1..Len(stack[x]) /\ Len(stack[x]) \in Nat /\ stack[x][i] \in Frame_
  <2>1. stack[x] \in Seq(Frame_) /\ DOMAIN stack[x] = 1..Len(stack[x]) /\ Len(stack[x]) \in Nat
    BY <1>1, TopIs
  <2> QED
    BY <2>1
<1>3. stack[x][i].at = "main" => x = 0 /\ i = 1 /\ stack[x][i].p = NoPardo
  <2>1. /\ stack[x][1].at = IdleAt(x) /\ stack[x][1].p = NoPardo
        /\ \A j \in 2..Len(stack[x]) : stack[x][j].at # "main"
    BY <1>1 DEF Control, ControlOK, StackShape
  <2>2. i = 1 \/ i \in 2..Len(stack[x])
    BY <1>2
  <2> QED
    BY <2>1, <2>2 DEF IdleAt
<1>4. stack[x][i].at # "main" => stack[x][i].p \in Pardos
  BY <1>1, PardosAt DEF ThunkAt
<1>5. ThunkOf(stack[x][i]) \in Thunks
  BY <1>3, <1>4 DEF ThunkOf, Thunks, ThunkAt
<1>6. BodyOf(stack[x][i]) \in Seq(Pardos)
  BY <1>1, <1>3, <1>4, ProgramAssumption DEF BodyOf, Body, ThunkOf, ThunkAt
<1> QED
  BY <1>1, <1>2, <1>3, <1>4, <1>5, <1>6 DEF Frame_

\* Two frames of one thunk are the same frame.
LEMMA OneThunk ==
  ASSUME IInv, NEW x \in Workers, NEW i \in DOMAIN stack[x], NEW y \in Workers, NEW j \in DOMAIN stack[y],
         stack[x][i].at \in ThunkAt, stack[y][j].at \in ThunkAt, ThunkOf(stack[x][i]) = ThunkOf(stack[y][j])
  PROVE  x = y /\ i = j
<1> DEFINE f == stack[x][i]
           g == stack[y][j]
<1>1. OneFrame /\ NoPardo \notin Pardos
  BY At1, SchedulerAssumption DEF FramesInv
<1>2. /\ f.at = "main" => x = 0 /\ i = 1
      /\ g.at = "main" => y = 0 /\ j = 1
      /\ f.at # "main" => f.p \in Pardos
  BY ThunkIs
<1>3. f.p = g.p /\ (IF f.at = "job" THEN "right" ELSE f.at) = (IF g.at = "job" THEN "right" ELSE g.at)
  BY DEF ThunkOf
<1>4. CASE f.at = "main"
  BY <1>2, <1>3, <1>4
<1>5. CASE f.at = "left"
  <2>1. g.at = "left"
    BY <1>3, <1>5
  <2> QED
    BY <1>1, <1>2, <1>3, <1>5, <2>1 DEF OneFrame, OwnerAt
<1>6. CASE f.at \in RightAt
  <2>1. g.at \in RightAt
    BY <1>3, <1>6 DEF RightAt, ThunkAt
  <2> QED
    BY <1>1, <1>2, <1>3, <1>6, <2>1 DEF OneFrame, RightAt
<1> QED
  BY <1>4, <1>5, <1>6 DEF ThunkAt, RightAt

\* The pardo that a worker is about to call is called nowhere else: not by a
\* thunk that has begun, nor by one that has not.
LEMMA CalledHere ==
  ASSUME IInv, NEW w \in Workers, pc[w] = "run", Top(w).rest # <<>>
  PROVE  LET n == Len(stack[w])
             q == Made(Top(w)) + 1
         IN
         /\ n \in DOMAIN stack[w] /\ Top(w).at \in ThunkAt /\ q \in DOMAIN BodyOf(Top(w)) /\ BodyOf(Top(w))[q] = Called(w)
         /\ \A t \in Thunks : \A k \in DOMAIN Body(prog, t) :
              Body(prog, t)[k] = Called(w) => t = ThunkOf(Top(w)) /\ k = q
<1>n. PICK n : n = Len(stack[w])
  OBVIOUS
<1>1. TypeOK /\ Control(w) /\ CallsInv
  BY At1
<1>2. n \in DOMAIN stack[w] /\ Top(w) = stack[w][n] /\ Top(w).at \in ThunkAt /\ Top(w) \in Frame_
  BY <1>n, <1>1, TopIs, TopAt
<1>3. BodyOf(Top(w)) \in Seq(Pardos) /\ Top(w).rest \in Seq(Pardos) /\ ThunkOf(Top(w)) \in Thunks /\ prog \in Programs
  BY <1>2, ThunkIs
<1>4. Len(Top(w).rest) \in Nat \ {0} /\ Called(w) = Top(w).rest[1] /\ 1 \in 1..Len(Top(w).rest)
  BY <1>3, EmptySeq DEF Called
<1>5. Made(Top(w)) \in Nat /\ Top(w).rest[1] = BodyOf(Top(w))[Made(Top(w)) + 1]
  BY <1>1, <1>2, <1>4 DEF CallsInv, CallsMade
<1>6. Made(Top(w)) + 1 \in DOMAIN BodyOf(Top(w))
  <2>1. DOMAIN BodyOf(Top(w)) = 1..Len(BodyOf(Top(w))) /\ Len(BodyOf(Top(w))) \in Nat
    BY <1>3
  <2>2. Made(Top(w)) = Len(BodyOf(Top(w))) - Len(Top(w).rest)
    BY DEF Made
  <2> QED
    BY <1>4, <1>5, <2>1, <2>2
<1>7. \A t \in Thunks : \A k \in DOMAIN Body(prog, t) :
        Body(prog, t)[k] = Called(w) => t = ThunkOf(Top(w)) /\ k = Made(Top(w)) + 1
  BY <1>3, <1>4, <1>5, <1>6, ProgramAssumption DEF CalledOnce, BodyOf
<1> QED
  BY <1>n, <1>2, <1>4, <1>5, <1>6, <1>7

\* The calls that thunks have still to make are of pardos that are still idle.
RestIdle(x, i) == \A k \in 1..Len(stack[x][i].rest) : left'[stack[x][i].rest[k]] = "idle"
\* The one that is called was not among them, for it is called at one place.
LEMMA RestStays ==
  ASSUME IInv, ~Aborted, NEW w \in Workers, Step(w) \/ Flush(w), NEW x \in Workers, NEW i \in DOMAIN stack[x],
         stack[x][i].at \in ThunkAt, ~(Pardo(w) /\ x = w /\ i = Len(stack[w]))
  PROVE  RestIdle(x, i)
<1> DEFINE f == stack[x][i]
<1>1. /\ Made(f) \in Nat
      /\ \A k \in 1..Len(f.rest) : f.rest[k] = BodyOf(f)[Made(f) + k] /\ left[f.rest[k]] = "idle"
  BY At1 DEF CallsInv, CallsMade
<1>2. /\ ThunkOf(f) \in Thunks /\ BodyOf(f) \in Seq(Pardos) /\ f.rest \in Seq(Pardos)
  BY ThunkIs
<1>3. SUFFICES ASSUME NEW k \in 1..Len(f.rest) PROVE left'[f.rest[k]] = "idle"
  BY DEF RestIdle
<1>4. f.rest[k] \in Pardos /\ left[f.rest[k]] = "idle" /\ Made(f) + k \in DOMAIN BodyOf(f)
  <2>1. DOMAIN BodyOf(f) = 1..Len(BodyOf(f)) /\ Len(BodyOf(f)) \in Nat /\ Len(f.rest) \in Nat
    BY <1>2
  <2>2. Made(f) = Len(BodyOf(f)) - Len(f.rest)
    BY DEF Made
  <2>3. Made(f) + k \in 1..Len(BodyOf(f))
    <3>1. \A m, b, r \in Nat : \A q \in 1..r : m = b - r => m + q \in 1..b
      OBVIOUS
    <3>2. Made(f) \in Nat
      BY <1>1
    <3> HIDE DEF f
    <3> QED
      BY <1>3, <2>1, <2>2, <3>1, <3>2
  <2>4. f.rest[k] \in Pardos
    BY <1>2
  <2> QED
    BY <1>1, <2>1, <2>3, <2>4
<1>5. left \in [Pardos -> {"idle", "running", "done"}]
  BY At1 DEF TypeOK, FJ!FJTypeOK, FJ!ThunkState
<1>6. CASE left' = left
  BY <1>4, <1>6
<1>7. CASE ReturnLeft(w) /\ left[Top(w).p] = "running" /\ left' = [left EXCEPT ![Top(w).p] = "done"]
  BY <1>4, <1>5, <1>7
<1>8. CASE Pardo(w) /\ left' = [left EXCEPT ![Called(w)] = "running"]
  <2>1. f.rest[k] # Called(w)
    <3>1. SUFFICES ASSUME f.rest[k] = Called(w) PROVE FALSE
      OBVIOUS
    <3>2. pc[w] = "run" /\ Top(w).rest # <<>>
      BY <1>8 DEF Pardo, At
    <3>3. /\ Len(stack[w]) \in DOMAIN stack[w] /\ Top(w).at \in ThunkAt
          /\ \A t \in Thunks : \A j \in DOMAIN Body(prog, t) : Body(prog, t)[j] = Called(w) => t = ThunkOf(Top(w))
      BY <3>2, CalledHere
    <3>4. ThunkOf(f) = ThunkOf(Top(w))
      BY <1>1, <1>2, <1>4, <3>1, <3>3 DEF BodyOf
    <3>5. Top(w) = stack[w][Len(stack[w])]
      BY At1, TopIs
    <3>6. x = w /\ i = Len(stack[w])
      BY <3>3, <3>4, <3>5, OneThunk
    <3> QED
      BY <1>8, <3>6
  <2> QED
    BY <1>4, <1>5, <1>8, <2>1
<1> QED
  BY <1>6, <1>7, <1>8, LeftsGo

\* A frame whose calls are as they were.
CallsSame(x, i) ==
  /\ i \in DOMAIN stack[x] /\ stack'[x][i] = stack[x][i]
  /\ i = Len(stack'[x]) <=> i = Len(stack[x])
  /\ i < Len(stack'[x]) <=> i < Len(stack[x])
  /\ i < Len(stack[x]) => stack'[x][i + 1].p = stack[x][i + 1].p
\* Its part of the invariant stays.
LEMMA CallsStay ==
  ASSUME NEW x \in Workers, NEW i, CallsMade(x, i), CallsSame(x, i), RestIdle(x, i), prog' = prog, joined \subseteq joined'
  PROVE  CallsMade(x, i)'
<1>1. stack'[x][i] = stack[x][i]
  BY DEF CallsSame
<1>2. Made(stack[x][i])' = Made(stack[x][i]) /\ BodyOf(stack[x][i])' = BodyOf(stack[x][i])
  BY <1>1 DEF Made, BodyOf
<1> QED
  BY <1>1, <1>2 DEF CallsMade, CallsSame, RestIdle

\* A thunk that begins has all its calls to make.
LEMMA CallsBegin ==
  ASSUME NEW w \in Workers, NEW k, k = Len(stack'[w]), BodyOf(stack[w][k])' = stack'[w][k].rest, Len(stack'[w][k].rest) \in Nat,
         \A i \in 1..Len(stack'[w][k].rest) : left'[stack'[w][k].rest[i]] = "idle"
  PROVE  CallsMade(w, k)'
<1>1. Made(stack[w][k])' = 0
  <2>1. Made(stack[w][k])' = Len(BodyOf(stack[w][k])') - Len(stack'[w][k].rest)
    BY DEF Made
  <2> QED
    BY <2>1
<1>2. \A i \in 1..Len(stack'[w][k].rest) : 0 + i = i
  OBVIOUS
<1>3. ~(k < Len(stack'[w])) \/ Len(stack'[w]) \notin Int
  OBVIOUS
<1> QED
  BY <1>1, <1>2, <1>3 DEF CallsMade

\* What is to be shown of a step.
LEMMA CallsMove ==
  ASSUME IInv, ~Aborted, NEW w \in Workers, Step(w) \/ Flush(w), CallsToMake', joined \subseteq joined',
         \A i \in DOMAIN stack'[w] : stack'[w][i].at \in ThunkAt =>
            (CallsSame(w, i) /\ ~(Pardo(w) /\ i = Len(stack[w]))) \/ CallsMade(w, i)'
  PROVE  CallsInv'
<1>1. TypeOK /\ Apart(w) /\ prog' = prog
  BY At1, StepsApart DEF Apart
<1>2. ASSUME NEW x \in Workers, NEW i \in DOMAIN stack'[x], stack'[x][i].at \in ThunkAt, ~(CallsMade(x, i)')
      PROVE  CallsSame(x, i) /\ ~(Pardo(w) /\ x = w /\ i = Len(stack[w]))
  <2>1. CASE x = w
    BY <1>2, <2>1
  <2>2. CASE x # w
    BY <1>1, <1>2, <2>2 DEF CallsSame, Apart
  <2> QED
    BY <2>1, <2>2
<1>3. ASSUME NEW x \in Workers, NEW i \in DOMAIN stack'[x], stack'[x][i].at \in ThunkAt
      PROVE  CallsMade(x, i)'
  <2>1. SUFFICES ASSUME ~(CallsMade(x, i)') PROVE CallsMade(x, i)'
    OBVIOUS
  <2>2. CallsSame(x, i) /\ ~(Pardo(w) /\ x = w /\ i = Len(stack[w]))
    BY <1>2, <1>3, <2>1
  <2>3. i \in DOMAIN stack[x] /\ stack[x][i].at \in ThunkAt
    BY <1>3, <2>2 DEF CallsSame
  <2>4. RestIdle(x, i)
    BY <2>2, <2>3, RestStays
  <2>5. CallsMade(x, i)
    BY <2>3, At1 DEF CallsInv
  <2> QED
    BY <1>1, <2>2, <2>4, <2>5, CallsStay
<1> QED
  BY <1>3 DEF CallsInv

\* The steps that begin or end no call, and leave the frames as they are.
LEMMA SameCalls ==
  ASSUME IInv, ~Aborted, NEW w \in Workers, Step(w) \/ Flush(w), ~Pardo(w), CallsToMake', joined' = joined,
         stack'[w] = stack[w]
  PROVE  CallsInv'
<1>1. \A i \in DOMAIN stack'[w] : CallsSame(w, i)
  BY DEF CallsSame
<1> QED
  BY <1>1, CallsMove

\* What thunks that have not begun have to call is idle, if only begun ones change.
LEMMA ToMakeStays ==
  ASSUME IInv, prog' = prog,
         \A q \in Pardos : left'[q] = "idle" => left[q] = "idle",
         \A q \in Pardos : right'[q] = "idle" => right[q] = "idle",
         \A q \in Pardos : left[q] = "idle" /\ left'[q] # "idle" =>
           /\ \A r \in Pardos : left[r] = "idle" => \A k \in DOMAIN prog.left[r] : prog.left[r][k] # q
           /\ \A r \in Pardos : right[r] = "idle" => \A k \in DOMAIN prog.right[r] : prog.right[r][k] # q
  PROVE  CallsToMake'
<1>1. CallsToMake /\ prog \in Programs
  BY DEF IInv, CallsInv, TypeOK, FJ!FJTypeOK
<1>2. \A r \in Pardos : prog.left[r] \in Seq(Pardos) /\ prog.right[r] \in Seq(Pardos)
  BY <1>1, ProgramAssumption
<1>3. ASSUME NEW r \in Pardos, left'[r] = "idle", NEW k \in DOMAIN prog.left[r] PROVE left'[prog.left[r][k]] = "idle"
  <2>1. prog.left[r][k] \in Pardos
    BY <1>2
  <2>2. left[r] = "idle" /\ left[prog.left[r][k]] = "idle"
    BY <1>1, <1>3 DEF CallsToMake
  <2> QED
    BY <1>3, <2>1, <2>2
<1>4. ASSUME NEW r \in Pardos, right'[r] = "idle", NEW k \in DOMAIN prog.right[r] PROVE left'[prog.right[r][k]] = "idle"
  <2>1. prog.right[r][k] \in Pardos
    BY <1>2
  <2>2. right[r] = "idle" /\ left[prog.right[r][k]] = "idle"
    BY <1>1, <1>4 DEF CallsToMake
  <2> QED
    BY <1>4, <2>1, <2>2
<1> QED
  BY <1>3, <1>4 DEF CallsToMake

\* The steps that move no frame, and the ends of thunks.
LEMMA StillCalls ==
  ASSUME TagsLast, IInv, ~Aborted, NEW w \in Workers, StillStep(w) \/ ReturnLeft(w) \/ ReturnRight(w)
  PROVE  CallsInv'
<1>1. TypeOK /\ Control(w) /\ (Step(w) \/ Flush(w)) /\ Apart(w)
  <2>1. Step(w) \/ Flush(w)
    BY DEF StillStep, Step
  <2> QED
    BY <2>1, At1, StepsApart
<1>2. left \in [Pardos -> {"idle", "running", "done"}] /\ right \in [Pardos -> {"idle", "running", "done"}]
  BY <1>1 DEF TypeOK, FJ!FJTypeOK, FJ!ThunkState
<1>3. stack'[w] = stack[w] /\ joined' = joined /\ prog' = prog
  <2>1. CASE StillStep(w)
    BY <1>1, <2>1, StillSteps DEF Still, Apart
  <2>2. CASE ReturnLeft(w) \/ ReturnRight(w)
    BY <1>1, <2>2 DEF ReturnLeft, ReturnRight, Apart
  <2> QED
    BY <2>1, <2>2
<1>4. ~Pardo(w)
  BY <1>1, <1>3, PardoIs, TopIs, At1
<1>5. CallsToMake'
  <2>1. \A q \in Pardos : (left'[q] = "idle" <=> left[q] = "idle") /\ (right'[q] = "idle" => right[q] = "idle")
    <3>1. CASE StillStep(w)
      BY <3>1, StillSteps DEF Still
    <3>2. CASE ReturnLeft(w)
      <4>1. left[Top(w).p] = "running" /\ left' = [left EXCEPT ![Top(w).p] = "done"]
        BY <1>1, <1>4, <3>2, LeftsGo
      <4>2. right' = right
        BY <3>2 DEF ReturnLeft
      <4> QED
        BY <1>2, <4>1, <4>2
    <3>3. CASE ReturnRight(w)
      <4>1. left' = left /\ right' = [right EXCEPT ![Top(w).p] = "done"]
        BY <3>3 DEF ReturnRight
      <4> QED
        BY <1>2, <4>1
    <3> QED
      BY <3>1, <3>2, <3>3
  <2> QED
    BY <1>3, <2>1, ToMakeStays
<1> QED
  BY <1>1, <1>3, <1>4, <1>5, SameCalls

\* A call: the thunk has made one more, and left() has all of its own to make.
LEMMA PardoCalls ==
  ASSUME TagsLast, IInv, ~Aborted, NEW w \in Workers, Pardo(w)
  PROVE  CallsInv'
<1> DEFINE p == Called(w)
           f == Top(w)
<1>n. PICK n : n = Len(stack[w])
  OBVIOUS
<1>k. PICK k : k = n + 1
  OBVIOUS
<1>1. TypeOK /\ Control(w) /\ DequeInv(w) /\ FramesInv /\ CallsInv /\ Step(w)
  BY At1 DEF Step
<1>2. left[p] = "idle" /\ right[p] = "idle"
  BY CalledIsNew
<1>3. /\ p \in Pardos /\ pc[w] = "run" /\ f.at \in ThunkAt /\ f.rest \in Seq(Pardos) /\ f.rest # <<>>
      /\ stack'[w] \in Seq(Frame_) /\ Len(stack'[w]) = n + 1
      /\ \A i \in 1..(n - 1) : stack'[w][i] = stack[w][i]
      /\ stack'[w][n] = AfterCall(f) /\ stack'[w][n + 1] = Frame("left", p, prog.left[p])
      /\ left' = [left EXCEPT ![p] = "running"]
      /\ prog' = prog /\ right' = right /\ joined' = joined
  BY <1>n, <1>1, PardoIs
<1>4. n \in Nat \ {0} /\ DOMAIN stack[w] = 1..n /\ DOMAIN stack'[w] = 1..(n + 1) /\ f = stack[w][n] /\ f \in Frame_ /\ n \in DOMAIN stack[w]
  BY <1>n, <1>1, <1>3, TopIs
<1>5. left \in [Pardos -> {"idle", "running", "done"}] /\ prog \in Programs
  BY <1>1 DEF TypeOK, FJ!FJTypeOK, FJ!ThunkState
<1>6. /\ Made(f) + 1 \in DOMAIN BodyOf(f) /\ BodyOf(f)[Made(f) + 1] = p
      /\ \A t \in Thunks : \A j \in DOMAIN Body(prog, t) : Body(prog, t)[j] = p => t = ThunkOf(f) /\ j = Made(f) + 1
  BY <1>3, CalledHere
<1>7. /\ Made(f) \in Nat
      /\ \A j \in 1..Len(f.rest) : f.rest[j] = BodyOf(f)[Made(f) + j] /\ left[f.rest[j]] = "idle"
      /\ \A j \in 1..Made(f) : BodyOf(f)[j] \in joined
  <2>1. CallsMade(w, n)
    BY <1>1, <1>3, <1>4 DEF CallsInv
  <2> QED
    BY <1>n, <1>4, <2>1 DEF CallsMade
<1>8. \A q \in Pardos : left'[q] = IF q = p THEN "running" ELSE left[q]
  BY <1>3, <1>5
<1>9. f.at = "left" => left[f.p] # "idle"
  <2>1. FrameTells(w, n)
    BY <1>1, <1>4 DEF FramesInv
  <2> QED
    BY <1>4, <2>1 DEF FrameTells
<1>10. f.at \in RightAt => right[f.p] # "idle"
  <2>1. FrameTells(w, n)
    BY <1>1, <1>4 DEF FramesInv
  <2> QED
    BY <1>4, <2>1 DEF FrameTells, RightAt
<1>11. ASSUME NEW r \in Pardos
       PROVE  /\ left[r] = "idle" => \A j \in DOMAIN prog.left[r] : prog.left[r][j] # p
              /\ right[r] = "idle" => \A j \in DOMAIN prog.right[r] : prog.right[r][j] # p
  <2>1. ASSUME left[r] = "idle", NEW j \in DOMAIN prog.left[r], prog.left[r][j] = p PROVE FALSE
    <3>1. <<r, "left">> \in Thunks /\ Body(prog, <<r, "left">>) = prog.left[r]
      BY DEF Thunks, Body
    <3>2. <<r, "left">> = ThunkOf(f)
      BY <1>6, <2>1, <3>1
    <3>3. f.p = r /\ f.at = "left"
      BY <1>3, <3>2 DEF ThunkOf, ThunkAt
    <3> QED
      BY <1>9, <2>1, <3>3
  <2>2. ASSUME right[r] = "idle", NEW j \in DOMAIN prog.right[r], prog.right[r][j] = p PROVE FALSE
    <3>1. <<r, "right">> \in Thunks /\ Body(prog, <<r, "right">>) = prog.right[r]
      BY DEF Thunks, Body
    <3>2. <<r, "right">> = ThunkOf(f)
      BY <1>6, <2>2, <3>1
    <3>3. f.p = r /\ f.at \in RightAt
      BY <1>3, <3>2 DEF ThunkOf, ThunkAt, RightAt
    <3> QED
      BY <1>10, <2>2, <3>3
  <2> QED
    BY <2>1, <2>2
<1>12. CallsToMake'
  <2>1. \A q \in Pardos : (left'[q] = "idle" => left[q] = "idle") /\ (left[q] = "idle" /\ left'[q] # "idle" => q = p)
    BY <1>8
  <2> QED
    BY <1>3, <1>11, <2>1, ToMakeStays
<1>13. CallsMade(w, k)'
  <2>1. stack'[w][k].rest = prog.left[p] /\ prog.left[p] \in Seq(Pardos)
    BY <1>3, <1>5, <1>k, ProgramAssumption DEF Frame
  <2>2. BodyOf(stack[w][k])' = stack'[w][k].rest
    <3>1. stack'[w][k].at = "left" /\ stack'[w][k].p = p
      BY <1>3, <1>k DEF Frame
    <3>2. ThunkOf(stack[w][k])' = <<p, "left">>
      BY <3>1 DEF ThunkOf
    <3>3. BodyOf(stack[w][k])' = Body(prog', ThunkOf(stack[w][k])')
      BY DEF BodyOf
    <3> QED
      BY <1>3, <2>1, <3>2, <3>3 DEF Body
  <2>3. \A i \in 1..Len(prog.left[p]) : left'[prog.left[p][i]] = "idle"
    <3>1. SUFFICES ASSUME NEW i \in 1..Len(prog.left[p]) PROVE left'[prog.left[p][i]] = "idle"
      OBVIOUS
    <3>2. i \in DOMAIN prog.left[p] /\ prog.left[p][i] \in Pardos
      BY <2>1
    <3>3. left[prog.left[p][i]] = "idle" /\ prog.left[p][i] # p
      BY <1>1, <1>2, <1>3, <1>11, <3>2 DEF CallsInv, CallsToMake
    <3> QED
      BY <1>8, <3>2, <3>3
  <2>4. k = Len(stack'[w]) /\ Len(stack'[w][k].rest) \in Nat
    BY <1>3, <1>k, <2>1
  <2> QED
    BY <2>1, <2>2, <2>3, <2>4, CallsBegin
<1>14. CallsMade(w, n)'
  <2> DEFINE g == stack'[w][n]
  <2>1. g.at = f.at /\ g.p = f.p /\ g.rest = Tail(f.rest)
    BY <1>3, <1>4 DEF AfterCall, Frame_
  <2>2. BodyOf(stack[w][n])' = BodyOf(f)
    <3>1. ThunkOf(stack[w][n])' = ThunkOf(f)
      BY <2>1 DEF ThunkOf
    <3> QED
      BY <1>3, <3>1 DEF BodyOf
  <2>3. BodyOf(f) \in Seq(Pardos)
    BY <1>3, <1>4, ThunkIs
  <2>4. Len(g.rest) = Len(f.rest) - 1 /\ \A j \in 1..Len(g.rest) : g.rest[j] = f.rest[j + 1]
        /\ Len(f.rest) \in Nat \ {0} /\ Len(g.rest) \in Nat
    BY <1>3, <2>1, EmptySeq, HeadTailProperties
  <2>5. Made(stack[w][n])' = Made(f) + 1
    <3>1. Made(stack[w][n])' = Len(BodyOf(f)) - Len(g.rest) /\ Made(f) = Len(BodyOf(f)) - Len(f.rest)
      BY <2>2 DEF Made
    <3>2. Len(BodyOf(f)) \in Nat
      BY <2>3
    <3> HIDE DEF g, f
    <3> QED
      BY <2>4, <3>1, <3>2
  <2>6. n < Len(stack'[w]) /\ n # Len(stack'[w]) /\ stack'[w][n + 1].p = p
    BY <1>3, <1>4 DEF Frame
  <2>7. \A j \in 1..Len(g.rest) : g.rest[j] = BodyOf(f)[(Made(f) + 1) + j] /\ left'[g.rest[j]] = "idle"
    <3>1. SUFFICES ASSUME NEW j \in 1..Len(g.rest) PROVE g.rest[j] = BodyOf(f)[(Made(f) + 1) + j] /\ left'[g.rest[j]] = "idle"
      OBVIOUS
    <3> HIDE DEF f, g, p
    <3>2. j + 1 \in 1..Len(f.rest) /\ g.rest[j] = f.rest[j + 1] /\ Made(f) + (j + 1) = (Made(f) + 1) + j
      BY <1>7, <2>4, <3>1
    <3>3. f.rest[j + 1] \in Pardos
      BY <1>3, <3>2
    <3>4. f.rest[j + 1] = BodyOf(f)[(Made(f) + 1) + j] /\ left[f.rest[j + 1]] = "idle"
      BY <1>7, <3>2
    <3>5. f.rest[j + 1] # p
      <4>1. SUFFICES ASSUME f.rest[j + 1] = p PROVE FALSE
        OBVIOUS
      <4>2. Made(f) + 1 + j \in DOMAIN BodyOf(f)
        <5>1. Made(f) = Len(BodyOf(f)) - Len(f.rest) /\ Len(BodyOf(f)) \in Nat /\ DOMAIN BodyOf(f) = 1..Len(BodyOf(f))
          BY <2>3 DEF Made
        <5> QED
          BY <1>7, <2>4, <3>2, <5>1
      <4>3. ThunkOf(f) \in Thunks
        BY <1>3, <1>4, ThunkIs
      <4>4. Made(f) + 1 + j = Made(f) + 1
        BY <1>6, <3>4, <4>1, <4>2, <4>3 DEF BodyOf
      <4> QED
        BY <1>7, <2>4, <3>1, <4>4
    <3> QED
      BY <1>8, <3>2, <3>3, <3>4, <3>5
  <2>8. \A j \in 1..((Made(f) + 1) - 1) : BodyOf(f)[j] \in joined'
    BY <1>3, <1>7
  <2>9. Made(f) + 1 \in Nat /\ Made(f) + 1 > 0
    BY <1>7
  <2> HIDE DEF f, p
  <2> QED
    BY <1>6, <2>2, <2>5, <2>6, <2>7, <2>8, <2>9 DEF CallsMade
<1>15. ASSUME NEW i \in 1..(n - 1) PROVE CallsSame(w, i) /\ i # n
  <2>1. i \in 1..n /\ i # n /\ i # n + 1 /\ i < n /\ i < n + 1 /\ i + 1 \in 1..n
    BY <1>4
  <2>2. stack'[w][i + 1].p = stack[w][i + 1].p
    <3>1. AfterCall(f).p = f.p
      BY <1>4 DEF AfterCall, Frame_
    <3>2. i + 1 = n \/ i + 1 \in 1..(n - 1)
      BY <1>4, <2>1
    <3> QED
      BY <1>3, <1>4, <3>1, <3>2
  <2> QED
    BY <1>n, <1>3, <1>4, <2>1, <2>2 DEF CallsSame
<1>16. \A i \in DOMAIN stack'[w] : i = k \/ i = n \/ i \in 1..(n - 1)
  <2>1. \A i \in 1..(n + 1) : i = n + 1 \/ i = n \/ i \in 1..(n - 1)
    BY <1>4
  <2> QED
    BY <1>4, <1>k, <2>1
<1>17. \A i \in DOMAIN stack'[w] : stack'[w][i].at \in ThunkAt =>
         (CallsSame(w, i) /\ ~(Pardo(w) /\ i = Len(stack[w]))) \/ CallsMade(w, i)'
  <2>1. SUFFICES ASSUME NEW i \in DOMAIN stack'[w]
                 PROVE  (CallsSame(w, i) /\ ~(Pardo(w) /\ i = Len(stack[w]))) \/ CallsMade(w, i)'
    OBVIOUS
  <2> QED
    BY <1>n, <1>13, <1>14, <1>15, <1>16, <2>1
<1>18. joined \subseteq joined'
  BY <1>3
<1> QED
  BY <1>1, <1>12, <1>17, <1>18, CallsMove

\* right() begins, called by pardo itself, or pardo waits.
LEMMA AfterPopCalls ==
  ASSUME TagsLast, IInv, ~Aborted, NEW w \in Workers, AfterPop(w)
  PROVE  CallsInv'
<1> DEFINE p == Top(w).p
<1>n. PICK n : n = Len(stack[w])
  OBVIOUS
<1>1. TypeOK /\ Control(w) /\ CallsInv /\ Step(w)
  BY At1 DEF Step
<1>2. /\ p \in Pardos /\ pc[w] = "popped" /\ Top(w).at = "left"
      /\ \/ job[w] # NoPardo /\ stack'[w][n] = Frame("right", p, prog.right[p]) /\ right' = [right EXCEPT ![p] = "running"]
         \/ job[w] = NoPardo /\ stack'[w][n] = Frame("wait", p, <<>>) /\ right' = right
      /\ stack'[w] \in Seq(Frame_) /\ Len(stack'[w]) = n
      /\ \A i \in 1..(n - 1) : stack'[w][i] = stack[w][i]
      /\ left' = left /\ joined' = joined /\ prog' = prog
  BY <1>n, <1>1, AfterPopIs
<1>3. n \in Nat \ {0} /\ DOMAIN stack[w] = 1..n /\ DOMAIN stack'[w] = 1..n /\ n \in DOMAIN stack[w] /\ Top(w) = stack[w][n]
  BY <1>n, <1>1, <1>2, TopIs
<1>4. right \in [Pardos -> {"idle", "running", "done"}] /\ prog \in Programs
  BY <1>1 DEF TypeOK, FJ!FJTypeOK, FJ!ThunkState
<1>5. CallsToMake'
  <2>1. \A q \in Pardos : right'[q] = "idle" => right[q] = "idle"
    BY <1>2, <1>4
  <2> QED
    BY <1>2, <2>1, ToMakeStays
<1>6. stack'[w][n].at \in ThunkAt => CallsMade(w, n)'
  <2>1. SUFFICES ASSUME job[w] # NoPardo PROVE CallsMade(w, n)'
    BY <1>2 DEF Frame, ThunkAt
  <2>2. stack'[w][n].at = "right" /\ stack'[w][n].p = p /\ stack'[w][n].rest = prog.right[p] /\ prog.right[p] \in Seq(Pardos)
    BY <1>2, <1>4, <2>1, ProgramAssumption DEF Frame
  <2>3. right[p] = "idle"
    BY <1>2, <2>1, PoppedSays
  <2>4. \A i \in 1..Len(prog.right[p]) : left'[prog.right[p][i]] = "idle"
    <3>1. DOMAIN prog.right[p] = 1..Len(prog.right[p])
      BY <2>2
    <3> QED
      BY <1>1, <1>2, <2>3, <3>1 DEF CallsInv, CallsToMake
  <2>5. BodyOf(stack[w][n])' = stack'[w][n].rest
    <3>2. ThunkOf(stack[w][n])' = <<p, "right">>
      BY <2>2 DEF ThunkOf
    <3>3. BodyOf(stack[w][n])' = Body(prog', ThunkOf(stack[w][n])')
      BY DEF BodyOf
    <3> QED
      BY <1>2, <2>2, <3>2, <3>3 DEF Body
  <2>6. n = Len(stack'[w]) /\ Len(stack'[w][n].rest) \in Nat
    BY <1>2, <2>2
  <2> QED
    BY <2>2, <2>4, <2>5, <2>6, CallsBegin
<1>7. ASSUME NEW i \in 1..(n - 1) PROVE CallsSame(w, i)
  <2>1. i \in 1..n /\ i # n /\ i < n /\ i + 1 \in 1..n
    BY <1>3
  <2>2. stack'[w][i + 1].p = stack[w][i + 1].p
    <3>1. stack'[w][n].p = stack[w][n].p
      BY <1>2, <1>3 DEF Frame
    <3>2. i + 1 = n \/ i + 1 \in 1..(n - 1)
      BY <1>3, <2>1
    <3> QED
      BY <1>2, <3>1, <3>2
  <2> QED
    BY <1>n, <1>2, <1>3, <2>1, <2>2 DEF CallsSame
<1>8. \A i \in DOMAIN stack'[w] : stack'[w][i].at \in ThunkAt =>
        (CallsSame(w, i) /\ ~(Pardo(w) /\ i = Len(stack[w]))) \/ CallsMade(w, i)'
  <2>1. SUFFICES ASSUME NEW i \in DOMAIN stack'[w], stack'[w][i].at \in ThunkAt
                 PROVE  (CallsSame(w, i) /\ ~(Pardo(w) /\ i = Len(stack[w]))) \/ CallsMade(w, i)'
    OBVIOUS
  <2>2. i = n \/ i \in 1..(n - 1)
    BY <1>3
  <2>3. ~Pardo(w)
    BY <1>2 DEF Pardo, At
  <2> QED
    BY <1>6, <1>7, <2>1, <2>2, <2>3
<1>9. joined \subseteq joined'
  BY <1>2
<1> QED
  BY <1>1, <1>5, <1>8, <1>9, CallsMove

\* right() begins, as a stolen job.
LEMMA TakesCalls ==
  ASSUME TagsLast, IInv, ~Aborted, NEW w \in Workers, Takes(w)
  PROVE  CallsInv'
<1> DEFINE p == job[w]
<1>n. PICK n : n = Len(stack[w])
  OBVIOUS
<1>k. PICK k : k = n + 1
  OBVIOUS
<1>1. TypeOK /\ Control(w) /\ CallsInv /\ Step(w) /\ Apart(w)
  <2>1. Step(w)
    BY DEF Step, Takes
  <2> QED
    BY <2>1, At1, StepsApart
<1>2. /\ pc[w] = "steal_cas" /\ p \in Pardos /\ right[p] = "idle"
      /\ stack'[w] \in Seq(Frame_) /\ Len(stack'[w]) = n + 1 /\ stack'[w][n + 1] = Frame("job", p, prog.right[p])
      /\ \A i \in 1..n : stack'[w][i] = stack[w][i]
      /\ right' = [right EXCEPT ![p] = "running"] /\ left' = left /\ joined' = joined
  BY <1>n, TakesIs
<1>3. n \in Nat \ {0} /\ DOMAIN stack[w] = 1..n /\ DOMAIN stack'[w] = 1..(n + 1) /\ n \in DOMAIN stack[w] /\ Top(w) = stack[w][n]
      /\ Top(w).at = "wait"
  BY <1>n, <1>1, <1>2, TopIs, TopAt
<1>4. right \in [Pardos -> {"idle", "running", "done"}] /\ prog \in Programs /\ prog' = prog
  BY <1>1 DEF TypeOK, FJ!FJTypeOK, FJ!ThunkState, Apart
<1>5. CallsToMake'
  <2>1. \A q \in Pardos : right'[q] = "idle" => right[q] = "idle"
    BY <1>2, <1>4
  <2> QED
    BY <1>2, <1>4, <2>1, ToMakeStays
<1>6. CallsMade(w, k)'
  <2>2. stack'[w][k].at = "job" /\ stack'[w][k].p = p /\ stack'[w][k].rest = prog.right[p] /\ prog.right[p] \in Seq(Pardos)
    BY <1>2, <1>4, <1>k, ProgramAssumption DEF Frame
  <2>4. \A i \in 1..Len(prog.right[p]) : left'[prog.right[p][i]] = "idle"
    <3>1. DOMAIN prog.right[p] = 1..Len(prog.right[p])
      BY <2>2
    <3> QED
      BY <1>1, <1>2, <3>1 DEF CallsInv, CallsToMake
  <2>5. BodyOf(stack[w][k])' = stack'[w][k].rest
    <3>2. ThunkOf(stack[w][k])' = <<p, "right">>
      BY <2>2 DEF ThunkOf
    <3>3. BodyOf(stack[w][k])' = Body(prog', ThunkOf(stack[w][k])')
      BY DEF BodyOf
    <3> QED
      BY <1>4, <2>2, <3>2, <3>3 DEF Body
  <2>6. k = Len(stack'[w]) /\ Len(stack'[w][k].rest) \in Nat
    BY <1>2, <1>k, <2>2
  <2> QED
    BY <2>2, <2>4, <2>5, <2>6, CallsBegin
<1>7. ASSUME NEW i \in 1..n, i # n PROVE CallsSame(w, i)
  <2>1. i < n /\ i + 1 \in 1..n /\ i # n + 1 /\ i < n + 1
    BY <1>3, <1>7
  <2> QED
    BY <1>n, <1>2, <1>3, <1>7, <2>1 DEF CallsSame
<1>8. \A i \in DOMAIN stack'[w] : stack'[w][i].at \in ThunkAt =>
        (CallsSame(w, i) /\ ~(Pardo(w) /\ i = Len(stack[w]))) \/ CallsMade(w, i)'
  <2>1. SUFFICES ASSUME NEW i \in DOMAIN stack'[w], stack'[w][i].at \in ThunkAt
                 PROVE  (CallsSame(w, i) /\ ~(Pardo(w) /\ i = Len(stack[w]))) \/ CallsMade(w, i)'
    OBVIOUS
  <2>2. i = k \/ i \in 1..n
    <3>1. \A j \in 1..(n + 1) : j = n + 1 \/ j \in 1..n
      BY <1>3
    <3> QED
      BY <1>3, <1>k, <3>1
  <2>3. ~Pardo(w)
    BY <1>2 DEF Pardo, At
  <2>4. stack'[w][n].at = "wait"
    BY <1>2, <1>3
  <2> QED
    BY <1>6, <1>7, <2>1, <2>2, <2>3, <2>4 DEF ThunkAt
<1>9. joined \subseteq joined'
  BY <1>2
<1> QED
  BY <1>1, <1>5, <1>8, <1>9, CallsMove

\* A job ends and the worker waits again; or pardo returns, and its call has returned.
LEMMA ReturnCalls ==
  ASSUME TagsLast, IInv, ~Aborted, NEW w \in Workers, ReturnJob(w) \/ ReturnPardo(w)
  PROVE  CallsInv'
<1> DEFINE p == Top(w).p
<1>n. PICK n : n = Len(stack[w])
  OBVIOUS
<1>m. PICK m : m = n - 1
  OBVIOUS
<1>1. TypeOK /\ Control(w) /\ CallsInv /\ Step(w) /\ Apart(w)
  <2>1. Step(w)
    BY DEF Step
  <2> QED
    BY <2>1, At1, StepsApart
<1>2. /\ p \in Pardos /\ n - 1 \in Nat \ {0}
      /\ stack'[w] \in Seq(Frame_) /\ Len(stack'[w]) = n - 1
      /\ left' = left /\ prog' = prog
      /\ \/ Top(w).at = "job" /\ pc[w] = "run" /\ Top(w).rest = <<>> /\ right' = [right EXCEPT ![p] = "done"] /\ joined' = joined
         \/ pc[w] = "return" /\ Top(w).at \in {"right", "wait"} /\ right' = right /\ joined' = joined \cup {p}
  BY <1>n, <1>1, ReturnIs
<1>3. n \in Nat \ {0} /\ DOMAIN stack[w] = 1..n /\ DOMAIN stack'[w] = 1..(n - 1) /\ Top(w) = stack[w][n]
  BY <1>n, <1>1, <1>2, TopIs
<1>4. right \in [Pardos -> {"idle", "running", "done"}]
  BY <1>1 DEF TypeOK, FJ!FJTypeOK, FJ!ThunkState
<1>5. CallsToMake'
  <2>1. \A q \in Pardos : right'[q] = "idle" => right[q] = "idle"
    BY <1>2, <1>4
  <2> QED
    BY <1>2, <2>1, ToMakeStays
<1>6. \A i \in DOMAIN stack'[w] : stack'[w][i] = stack[w][i] /\ i # n
  BY <1>n, <1>1, BelowTop
<1>7. stack[w][m].at = "wait" <=> Top(w).at = "job"
  <2>1. \A i \in 2..n : stack[w][i - 1].at = "wait" <=> stack[w][i].at = "job"
    BY <1>n, <1>1 DEF Control, ControlOK, StackShape
  <2>2. n \in 2..n
    BY <1>2, <1>3
  <2> QED
    BY <1>3, <1>m, <2>1, <2>2
<1>8. m \in DOMAIN stack'[w] /\ m \in DOMAIN stack[w] /\ m = Len(stack'[w]) /\ m < n /\ m + 1 = n /\ m # n /\ m \in Nat
  BY <1>2, <1>3, <1>m
<1>9. stack'[w][m].at \in ThunkAt => CallsMade(w, m)'
  <2>1. SUFFICES ASSUME stack'[w][m].at \in ThunkAt PROVE CallsMade(w, m)'
    OBVIOUS
  <2> DEFINE f == stack[w][m]
  <2>2. stack'[w][m] = f /\ f.at \in ThunkAt
    BY <1>6, <1>8, <2>1
  <2>3. joined' = joined \cup {p}
    BY <1>2, <1>7, <2>2 DEF ThunkAt
  <2>4. /\ Made(f) \in Nat
        /\ \A k \in 1..Len(f.rest) : f.rest[k] = BodyOf(f)[Made(f) + k] /\ left[f.rest[k]] = "idle"
        /\ Made(f) > 0 /\ BodyOf(f)[Made(f)] = p
        /\ \A k \in 1..(Made(f) - 1) : BodyOf(f)[k] \in joined
    <3>1. CallsMade(w, m)
      BY <1>1, <1>8, <2>2 DEF CallsInv
    <3> QED
      BY <1>n, <1>3, <1>8, <3>1 DEF CallsMade
  <2>5. BodyOf(stack[w][m])' = BodyOf(f) /\ Made(stack[w][m])' = Made(f)
    <3>1. ThunkOf(stack[w][m])' = ThunkOf(f)
      BY <2>2 DEF ThunkOf
    <3>2. BodyOf(stack[w][m])' = BodyOf(f)
      BY <1>2, <3>1 DEF BodyOf
    <3> QED
      BY <2>2, <3>2 DEF Made
  <2>6. \A k \in 1..Made(f) : BodyOf(f)[k] \in joined'
    <3>1. \A k \in 1..Made(f) : k = Made(f) \/ k \in 1..(Made(f) - 1)
      BY <2>4
    <3> QED
      BY <2>3, <2>4, <3>1
  <2>7. ~(m < Len(stack'[w]))
    BY <1>8
  <2>8. /\ Made(stack[w][m])' \in Nat
        /\ \A k \in 1..Len(stack'[w][m].rest) :
             stack'[w][m].rest[k] = BodyOf(stack[w][m])'[Made(stack[w][m])' + k] /\ left'[stack'[w][m].rest[k]] = "idle"
    BY <1>2, <2>2, <2>4, <2>5
  <2> HIDE DEF f, p
  <2> QED
    BY <1>8, <2>5, <2>6, <2>7, <2>8 DEF CallsMade
<1>10. ASSUME NEW i \in DOMAIN stack'[w], i # m PROVE CallsSame(w, i)
  <2>1. i < m /\ i < n /\ i # n /\ i \in 1..n /\ i + 1 \in DOMAIN stack'[w]
    BY <1>2, <1>3, <1>8, <1>10
  <2> QED
    BY <1>n, <1>3, <1>6, <1>8, <1>10, <2>1 DEF CallsSame
<1>11. \A i \in DOMAIN stack'[w] : stack'[w][i].at \in ThunkAt =>
        (CallsSame(w, i) /\ ~(Pardo(w) /\ i = Len(stack[w]))) \/ CallsMade(w, i)'
  <2>1. SUFFICES ASSUME NEW i \in DOMAIN stack'[w], stack'[w][i].at \in ThunkAt
                 PROVE  (CallsSame(w, i) /\ ~(Pardo(w) /\ i = Len(stack[w]))) \/ CallsMade(w, i)'
    OBVIOUS
  <2>3. i # Len(stack[w])
    BY <1>n, <1>6
  <2> QED
    BY <1>9, <1>10, <2>1, <2>3
<1>12. joined \subseteq joined'
  BY <1>2
<1> QED
  BY <1>1, <1>5, <1>11, <1>12, CallsMove

\* Every step keeps what is known of the calls.
LEMMA CallsStep ==
  ASSUME TagsLast, IInv, ~Aborted, NEW w \in Workers, Step(w) \/ Flush(w)
  PROVE  CallsInv'
<1>1. CASE StillStep(w) \/ ReturnLeft(w) \/ ReturnRight(w)
  BY <1>1, StillCalls
<1>2. CASE Pardo(w)
  BY <1>2, PardoCalls
<1>3. CASE AfterPop(w)
  BY <1>3, AfterPopCalls
<1>4. CASE Takes(w)
  BY <1>4, TakesCalls
<1>5. CASE ReturnJob(w) \/ ReturnPardo(w)
  BY <1>5, ReturnCalls
<1> QED
  BY <1>1, <1>2, <1>3, <1>4, <1>5 DEF Step, StillStep, Takes

-----------------------------------------------------------------------------
(* The invariant holds at the start,                                       *)

\* of the types and of what nothing has happened to yet;
LEMMA InitTypes ==
  ASSUME Init
  PROVE  TypeOK /\ CallsToMake /\ OneDone /\ DoneTells /\ LeftFirst /\ JoinsLast /\ Unused
<1>1. NoAge \in Age /\ 0 \in 0..QSize /\ 0 \in Deques /\ \A d \in Deques : d \in Deques
  BY SmallTypes
<1>2. MemoryTypes
  BY <1>1 DEF Init, MemoryTypes
<1>3. FJ!FJTypeOK /\ prog \in Programs
  BY DEF Init, FJ!FJInit, FJ!FJTypeOK, FJ!ThunkState
<1>4. StackTypes
  <2>1. prog.main \in Seq(Pardos)
    BY <1>3, ProgramAssumption
  <2>2. Frame("main", NoPardo, prog.main) \in Frame_ /\ Frame("wait", NoPardo, <<>>) \in Frame_
    BY <2>1 DEF Frame, Frame_, Frames
  <2>3. <<Frame("main", NoPardo, prog.main)>> \in Seq(Frame_) /\ <<Frame("wait", NoPardo, <<>>)>> \in Seq(Frame_)
    BY <2>2
  <2> QED
    BY <2>3 DEF Init, StackTypes
<1>5. BufferTypes
  <2>1. <<>> \in Seq(Stores)
    OBVIOUS
  <2> QED
    BY <2>1 DEF Init, BufferTypes
<1>6. LocalTypes
  BY <1>1 DEF Init, LocalTypes, Labels
<1>7. TypeOK
  BY <1>2, <1>3, <1>4, <1>5, <1>6, TypeParts
<1>8. CallsToMake
  <2>1. \A p \in Pardos : prog.left[p] \in Seq(Pardos) /\ prog.right[p] \in Seq(Pardos)
    BY <1>3, ProgramAssumption
  <2>2. \A p \in Pardos : \A k \in DOMAIN prog.left[p] : prog.left[p][k] \in Pardos
    BY <2>1
  <2>3. \A p \in Pardos : \A k \in DOMAIN prog.right[p] : prog.right[p][k] \in Pardos
    BY <2>1
  <2>4. \A p \in Pardos : left[p] = "idle"
    BY DEF Init, FJ!FJInit
  <2> QED
    BY <2>2, <2>3, <2>4 DEF CallsToMake
<1>9. OneDone /\ DoneTells /\ LeftFirst /\ JoinsLast
  <2>1. \A w \in Workers : DOMAIN buf[w] = {}
    BY DEF Init
  <2> QED
    BY <2>1 DEF Init, FJ!FJInit, OneDone, DoneTells, LeftFirst, JoinsLast, In
<1>10. Unused
  BY DEF Init, Unused
<1> QED
  BY <1>7, <1>8, <1>9, <1>10

\* Of one worker, whose stack is the one frame it begins with.
LEMMA InitWorker ==
  ASSUME Init, NEW w \in Workers
  PROVE  /\ Len(stack[w]) = 1 /\ DOMAIN stack[w] = {1} /\ stack[w][1].at = IdleAt(w) /\ stack[w][1].p = NoPardo
         /\ w = 0 => stack[w][1].rest = prog.main
         /\ pc[w] = IF w = 0 THEN "run" ELSE "get_job"
         /\ buf[w] = <<>> /\ DOMAIN buf[w] = {} /\ job[w] = NoPardo /\ age[w] = NoAge /\ bot[w] = 0 /\ Top(w) = stack[w][1]
<1>1. w \in Deques
  BY SchedulerAssumption DEF Workers, Deques
<1>2. /\ stack[w] = <<Frame(IdleAt(w), NoPardo, IF w = 0 THEN prog.main ELSE <<>>)>>
      /\ pc[w] = IF w = 0 THEN "run" ELSE "get_job"
      /\ buf[w] = <<>> /\ job[w] = NoPardo /\ age[w] = NoAge /\ bot[w] = 0
  BY <1>1 DEF Init, IdleAt
<1>3. DOMAIN <<>> = {} /\ \A f : Len(<<f>>) = 1 /\ DOMAIN <<f>> = {1} /\ <<f>>[1] = f
  OBVIOUS
<1>4. Len(stack[w]) = 1 /\ DOMAIN stack[w] = {1} /\ stack[w][1] = Frame(IdleAt(w), NoPardo, IF w = 0 THEN prog.main ELSE <<>>)
  BY <1>2, <1>3
<1>5. Top(w) = stack[w][1]
  BY <1>4 DEF Top, Last
<1> QED
  BY <1>2, <1>3, <1>4, <1>5 DEF Frame

\* of each worker;
LEMMA InitParts ==
  ASSUME Init, TagsLast, NEW w \in Workers
  PROVE  Control(w) /\ DequeInv(w) /\ ThiefInv(w) /\ TagInv(w)
<1>1. /\ Len(stack[w]) = 1 /\ DOMAIN stack[w] = {1} /\ stack[w][1].at = IdleAt(w) /\ stack[w][1].p = NoPardo
      /\ pc[w] = IF w = 0 THEN "run" ELSE "get_job"
      /\ buf[w] = <<>> /\ DOMAIN buf[w] = {} /\ job[w] = NoPardo /\ age[w] = NoAge /\ bot[w] = 0 /\ Top(w) = stack[w][1]
  BY InitWorker
<1>2. Control(w)
  <2>1. StackShape(w, stack[w])
    BY <1>1 DEF StackShape
  <2>2. stack[w][Len(stack[w])].at \in TopFrames(pc[w])
    BY <1>1, TopsAre DEF IdleAt, ThunkAt
  <2> QED
    BY <1>1, <2>1, <2>2 DEF Control, ControlOK
<1>3. \A l : In(buf[w], l) = {}
  BY <1>1 DEF In
<1>4. BufferOK(pc[w], buf[w], age[w])
  BY <1>3 DEF BufferOK, Shape
<1>5. DequeInv(w)
  <2>1. Quiet(pc[w]) /\ pc[w] # "popped"
    BY <1>1 DEF Quiet
  <2>2. \E e : Holds(e, 0, stack[w], deq[w], right, age[w].top, 0)
    <3>1. \A i \in 1..Len(stack[w]) : ~IsLeft(stack[w], i, 0)
      BY <1>1 DEF IsLeft, IdleAt
    <3> QED
      BY <3>1, HoldsNone
  <2>3. QuietOK(pc[w], stack[w], job[w], age[w], bot[w], deq[w], right)
    <3>1. 0 \in 0..(QSize - 1) /\ age[w].top = 0
      BY <1>1, SchedulerAssumption DEF NoAge
    <3> QED
      BY <1>1, <2>1, <2>2, <3>1 DEF QuietOK
  <2>4. bot[w] \in 0..QSize
    BY <1>1, SmallTypes
  <2> QED
    BY <1>4, <2>1, <2>3, <2>4, QuietDeque DEF DequeInv
<1>6. ThiefInv(w)
  BY <1>1 DEF ThiefInv, StealLabels
<1>7. TagInv(w)
  <2>1. DoneLefts = {}
    BY DEF DoneLefts, Init, FJ!FJInit
  <2>2. Cardinality(DoneLefts) = 0
    BY <2>1, FS_EmptySet
  <2>3. PopsIn(pc[w], Top(w).at) = 0
    BY <1>1 DEF PopsIn
  <2> QED
    BY <1>1, <1>3, <2>2, <2>3 DEF TagInv, TagsOK, NoAge
<1> QED
  BY <1>2, <1>5, <1>6, <1>7

\* so all of it does.
LEMMA InitInv ==
  ASSUME Init, TagsLast
  PROVE  IInv
<1>1. TypeOK /\ CallsToMake /\ OneDone /\ DoneTells /\ LeftFirst /\ JoinsLast /\ Unused
  BY InitTypes
<1>2. \A w \in Workers : Control(w) /\ DequeInv(w) /\ ThiefInv(w) /\ TagInv(w)
  BY InitParts
<1>3. ASSUME NEW w \in Workers
      PROVE  DOMAIN stack[w] = {1} /\ stack[w][1].at = IdleAt(w) /\ stack[w][1].p = NoPardo /\ DOMAIN buf[w] = {}
  BY <1>3, InitWorker
<1>4. OneFrame
  BY <1>3 DEF OneFrame
<1>5. \A w \in Workers : JobsOutside(w) /\ \A i \in DOMAIN stack[w] : FrameTells(w, i)
  <2>1. SUFFICES ASSUME NEW w \in Workers PROVE JobsOutside(w) /\ FrameTells(w, 1)
    BY <1>3
  <2>2. DOMAIN stack[w] = {1} /\ stack[w][1].at \in {"main", "wait"} /\ stack[w][1].p = NoPardo /\ DOMAIN buf[w] = {}
    BY <1>3 DEF IdleAt
  <2>3. NoPardo \notin joined
    BY SchedulerAssumption DEF Init, FJ!FJInit
  <2> QED
    BY <2>2, <2>3 DEF JobsOutside, FrameTells, In
<1>6. ASSUME NEW w \in Workers, stack[w][1].at \in ThunkAt PROVE CallsMade(w, 1)
  <2>1. w = 0 /\ stack[w][1].at = "main" /\ Len(stack[w]) = 1
    BY <1>6, InitWorker DEF IdleAt, ThunkAt
  <2>2. stack[w][1].rest = prog.main /\ prog.main \in Seq(Pardos)
    BY <1>1, <2>1, InitWorker, ProgramAssumption DEF TypeOK, FJ!FJTypeOK
  <2>3. BodyOf(stack[w][1]) = prog.main
    BY <2>1 DEF BodyOf, ThunkOf, Body
  <2>4. Len(prog.main) \in Nat /\ \A k \in 1..Len(prog.main) : prog.main[k] \in Pardos
    BY <2>2
  <2>5. Made(stack[w][1]) = 0
    BY <2>2, <2>3, <2>4 DEF Made
  <2>6. \A k \in 1..Len(prog.main) : left[prog.main[k]] = "idle" /\ 0 + k = k
    BY <2>4 DEF Init, FJ!FJInit
  <2> QED
    BY <2>1, <2>2, <2>3, <2>5, <2>6 DEF CallsMade
<1>7. CallsInv
  BY <1>1, <1>3, <1>6 DEF CallsInv
<1> QED
  BY <1>1, <1>2, <1>4, <1>5, <1>7 DEF IInv, FramesInv

-----------------------------------------------------------------------------
(* every step keeps it,                                                    *)

\* a step of a worker or a store that reaches memory,
LEMMA StepInv ==
  ASSUME TagsLast, IInv, ~Aborted, NEW w \in Workers, Step(w) \/ Flush(w)
  PROVE  IInv'
<1>1. \A x \in Workers : DequeInv(x)'
  BY DequeStep
<1>2. \A x \in Workers : Control(x)' /\ ThiefInv(x)' /\ TagInv(x)'
  BY ControlStep, ThiefStep, TagStep
<1>3. TypeOK' /\ FramesInv' /\ CallsInv' /\ Unused'
  BY TypeStep, FramesStep, CallsStep, UnusedStep
<1> QED
  BY <1>1, <1>2, <1>3 DEF IInv

\* a step that changes nothing,
LEMMA StutterInv ==
  ASSUME IInv, UNCHANGED vars
  PROVE  IInv'
<1>1. /\ age' = age /\ bot' = bot /\ deq' = deq /\ right_done' = right_done /\ finished_flag' = finished_flag
      /\ buf' = buf /\ pc' = pc /\ stack' = stack /\ lb' = lb /\ old' = old /\ job' = job /\ victim' = victim
      /\ mutex' = mutex /\ prog' = prog /\ left' = left /\ right' = right /\ joined' = joined
  BY DEF vars, memVars, regVars, fjVars
<1>2. TypeOK' <=> TypeOK
  BY <1>1 DEF TypeOK, FJ!FJTypeOK
<1>3. FramesInv' <=> FramesInv
  BY <1>1 DEF FramesInv, JobsOutside, InPardo, FrameTells, OneFrame, OneDone, DoneTells, LeftFirst, JoinsLast
<1>4. CallsInv' <=> CallsInv
  BY <1>1 DEF CallsInv, CallsToMake, CallsMade, Made, BodyOf
<1>5. (Unused' <=> Unused) /\ \A w \in Workers : (Control(w)' <=> Control(w)) /\ (DequeInv(w)' <=> DequeInv(w))
  BY <1>1 DEF Unused, Control, DequeInv
<1>6. \A w \in Workers : (ThiefInv(w)' <=> ThiefInv(w)) /\ (TagInv(w)' <=> TagInv(w))
  BY <1>1 DEF ThiefInv, ReadyAt, TagInv, Top, DoneLefts
<1> QED
  BY <1>2, <1>3, <1>4, <1>5, <1>6 DEF IInv

\* so every step does.
LEMMA NextInv ==
  ASSUME TagsLast, IInv, [Next]_vars
  PROVE  IInv'
<1>1. CASE ~Aborted /\ \E w \in Workers : Step(w) \/ Flush(w)
  <2>1. PICK w \in Workers : Step(w) \/ Flush(w)
    BY <1>1
  <2> QED
    BY <1>1, <2>1, StepInv
<1>2. CASE UNCHANGED vars
  BY <1>2, StutterInv
<1> QED
  BY <1>1, <1>2 DEF Next, Terminated

\* The inductive invariant holds always, when there are more tags than pardos.
THEOREM Invariance ==
  ASSUME TagsLast
  PROVE  Spec => []IInv
<1>1. Init => IInv
  BY InitInv
<1>2. IInv /\ [Next]_vars => IInv'
  BY NextInv
<1> QED
  BY <1>1, <1>2, PTL DEF Spec

\* Every variable keeps its type.
THEOREM Types ==
  ASSUME TagsLast
  PROVE  Spec => []TypeOK
<1>1. IInv => TypeOK
  BY DEF IInv
<1> QED
  BY <1>1, Invariance, PTL

-----------------------------------------------------------------------------
(* What the invariant says of the deques.                                  *)

\* The jobs that a worker's deque has, and its bottom, are at most the pardos open
\* on its stack; and there is one more when push_bottom found no room.
LEMMA BottomBelow ==
  ASSUME IInv, NEW w \in Workers
  PROVE  /\ LoadBot(w, w) <= OpenLefts(w)
         /\ pc[w] = "aborted" => OpenLefts(w) >= QSize
<1> DEFINE n == JobsIn(pc[w], buf[w], lb[w], bot[w])
           c == Cardinality(LeftsOpen(stack[w]))
           spare == SpareIn(pc[w], stack[w], job[w])
           slots == SlotsOf(buf[w], deq[w])
<1>1. TypeOK /\ Control(w) /\ DequeInv(w)
  BY At1
<1>2. /\ stack[w] \in Seq(Frame_) /\ stack[w] # <<>> /\ Len(stack[w]) \in Nat \ {0} /\ Top(w) = stack[w][Len(stack[w])]
      /\ buf[w] \in Seq(Stores) /\ lb[w] \in 0..QSize
  BY <1>1, TopIs, TypesOf
<1>3. OpenLefts(w) = c
  BY DEF OpenLefts, LeftsOpen, LastWait
<1>4. LoadBot(w, w) = Value(buf[w], "bot", bot[w])
  BY LoadIs
<1>5. /\ pc[w] = "pop_load" => Value(buf[w], "bot", bot[w]) = lb[w]
      /\ pc[w] \in {"pop_cas", "pop_fence"} => Value(buf[w], "bot", bot[w]) = 0
      /\ pc[w] = "aborted" => n = QSize - 1
      /\ n \in 0..(QSize - 1)
      /\ \E e : Holds(e, n, stack[w], slots, right, age[w].top, spare)
  BY <1>1 DEF DequeInv, DequeOK, JobsHeld
<1>6. LoadBot(w, w) <= n
  <2>1. CASE pc[w] = "pop_load"
    BY <1>2, <1>4, <1>5, <2>1 DEF JobsIn
  <2>2. CASE pc[w] \in {"pop_cas", "pop_fence"}
    BY <1>4, <1>5, <2>2, SchedulerAssumption
  <2>3. CASE pc[w] \notin {"pop_load", "pop_cas", "pop_fence"}
    <3>1. n = Value(buf[w], "bot", bot[w])
      BY <2>3 DEF JobsIn
    <3> QED
      BY <1>4, <1>5, <3>1, SchedulerAssumption
  <2> QED
    BY <2>1, <2>2, <2>3
<1>7. pc[w] = "aborted" => spare = Len(stack[w]) /\ stack[w][Len(stack[w])].at = "left"
  BY <1>1, <1>2, TopAt DEF SpareIn
<1>9. LoadBot(w, w) \in Int
  <2>1. CASE pc[w] = "pop_load"
    BY <1>2, <1>4, <1>5, <2>1
  <2>2. CASE pc[w] \in {"pop_cas", "pop_fence"}
    BY <1>4, <1>5, <2>2
  <2>3. CASE pc[w] \notin {"pop_load", "pop_cas", "pop_fence"}
    <3>1. n = Value(buf[w], "bot", bot[w])
      BY <2>3 DEF JobsIn
    <3> QED
      BY <1>4, <1>5, <3>1, SchedulerAssumption
  <2> QED
    BY <2>1, <2>2, <2>3
<1> HIDE DEF n, c, spare, slots
<1>8. c \in Nat /\ n <= c /\ (pc[w] = "aborted" => n + 1 <= c)
  <2>1. n \in Nat
    BY <1>5
  <2>2. PICK e : Holds(e, n, stack[w], slots, right, age[w].top, spare)
    BY <1>5
  <2> QED
    BY <1>2, <1>7, <2>1, <2>2, HoldsOpen DEF c
<1> QED
  BY <1>3, <1>5, <1>6, <1>8, <1>9, SchedulerAssumption

\* pardo gets back its own job or learns that a thief has begun it, a worker that
\* begins to look for jobs has none of its own, and only nesting fills a deque.
THEOREM DequesStayRight ==
  ASSUME TagsLast
  PROVE  Spec => []DequesRight
<1>1. ASSUME IInv PROVE DequesRight
  <2>1. PopAgrees
    BY <1>1, PoppedSays DEF PopAgrees
  <2>2. OwnDequeEmpty
    <3>1. SUFFICES ASSUME NEW w \in Workers, pc[w] = "popped", Top(w).at = "wait" PROVE job[w] = NoPardo
      BY DEF OwnDequeEmpty
    <3>2. TypeOK /\ Control(w) /\ DequeInv(w) /\ Quiet(pc[w])
      BY <1>1, <3>1, At1 DEF Quiet
    <3> QED
      BY <3>1, <3>2, WaitsEmpty
  <2>3. DequeBoundedByNesting /\ AbortsOnlyWhenTooDeep
    BY <1>1, BottomBelow DEF DequeBoundedByNesting, AbortsOnlyWhenTooDeep
  <2> QED
    BY <2>1, <2>2, <2>3 DEF DequesRight
<1> QED
  BY <1>1, Invariance, PTL

-----------------------------------------------------------------------------
(* The scheduler implements fork-join, step by step.                       *)

\* What a thunk that runs has: its calls so far have returned, and it has begun.
LEMMA ThunkRuns ==
  ASSUME IInv, NEW w \in Workers, pc[w] = "run"
  PROVE  /\ Top(w).at \in ThunkAt /\ Len(stack[w]) \in DOMAIN stack[w] /\ Top(w) = stack[w][Len(stack[w])]
         /\ Made(Top(w)) \in Nat /\ \A k \in 1..Made(Top(w)) : BodyOf(Top(w))[k] \in joined
         /\ Top(w).at = "main" => BodyOf(Top(w)) = prog.main
         /\ Top(w).at = "left" => /\ Top(w).p \in Pardos /\ left[Top(w).p] = "running"
                                  /\ BodyOf(Top(w)) = prog.left[Top(w).p]
         /\ Top(w).at \in RightAt => /\ Top(w).p \in Pardos /\ right[Top(w).p] = "running"
                                     /\ BodyOf(Top(w)) = prog.right[Top(w).p]
<1>n. PICK n : n = Len(stack[w])
  OBVIOUS
<1>1. TypeOK /\ Control(w) /\ CallsInv /\ FramesInv
  BY At1
<1>2. n \in DOMAIN stack[w] /\ Top(w) = stack[w][n] /\ Top(w).at \in ThunkAt
  BY <1>n, <1>1, TopIs, TopAt
<1>3. CallsMade(w, n) /\ FrameTells(w, n)
  BY <1>1, <1>2 DEF CallsInv, FramesInv
<1>4. Made(Top(w)) \in Nat /\ \A k \in 1..Made(Top(w)) : BodyOf(Top(w))[k] \in joined
  BY <1>n, <1>2, <1>3 DEF CallsMade
<1>5. Top(w).at # "main" => Top(w).p \in Pardos
  BY <1>2, ThunkIs
<1>6. /\ Top(w).at = "main" => BodyOf(Top(w)) = prog.main
      /\ Top(w).at = "left" => BodyOf(Top(w)) = prog.left[Top(w).p]
      /\ Top(w).at \in RightAt => BodyOf(Top(w)) = prog.right[Top(w).p]
  BY <1>2 DEF BodyOf, ThunkOf, Body, RightAt
<1>7. /\ Top(w).at = "left" => left[Top(w).p] = "running"
      /\ Top(w).at \in RightAt => right[Top(w).p] = "running"
  BY <1>n, <1>2, <1>3 DEF FrameTells, PopLabels, RightAt
<1> QED
  BY <1>n, <1>2, <1>4, <1>5, <1>6, <1>7 DEF RightAt

\* A thunk that returns has made all its calls, and they have returned.
LEMMA AllReturned ==
  ASSUME IInv, NEW w \in Workers, pc[w] = "run", Top(w).rest = <<>>
  PROVE  Range(BodyOf(Top(w))) \subseteq joined
<1>1. /\ Top(w).at \in ThunkAt /\ Len(stack[w]) \in DOMAIN stack[w] /\ Top(w) = stack[w][Len(stack[w])]
      /\ \A k \in 1..Made(Top(w)) : BodyOf(Top(w))[k] \in joined
  BY ThunkRuns
<1>2. BodyOf(Top(w)) \in Seq(Pardos)
  BY <1>1, ThunkIs
<1>3. Made(Top(w)) = Len(BodyOf(Top(w))) /\ DOMAIN BodyOf(Top(w)) = 1..Len(BodyOf(Top(w)))
  BY <1>2 DEF Made
<1> QED
  BY <1>1, <1>3 DEF Range

\* pardo is called: the calls before it have returned.
LEMMA PardoForks ==
  ASSUME IInv, ~Aborted, NEW w \in Workers, Pardo(w)
  PROVE  Called(w) \in Pardos /\ FJ!Fork(Called(w))
<1> DEFINE q == Called(w)
           f == Top(w)
           m == Made(f)
<1>1. TypeOK /\ Control(w) /\ DequeInv(w)
  BY At1
<1>2. /\ q \in Pardos /\ pc[w] = "run" /\ f.rest # <<>> /\ left' = [left EXCEPT ![q] = "running"]
      /\ prog' = prog /\ right' = right /\ joined' = joined
  BY <1>1, PardoIs
<1>3. left[q] = "idle"
  BY <1>1, CalledIsNew
<1>4. /\ f.at \in ThunkAt /\ m \in Nat /\ \A k \in 1..m : BodyOf(f)[k] \in joined
      /\ f.at = "main" => BodyOf(f) = prog.main
      /\ f.at = "left" => f.p \in Pardos /\ left[f.p] = "running" /\ BodyOf(f) = prog.left[f.p]
      /\ f.at \in RightAt => f.p \in Pardos /\ right[f.p] = "running" /\ BodyOf(f) = prog.right[f.p]
  BY <1>2, ThunkRuns
<1>5. m + 1 \in DOMAIN BodyOf(f) /\ BodyOf(f)[m + 1] = q
  BY <1>2, CalledHere
<1> HIDE DEF m, f, q
<1>6. FJ!IsNextCall(BodyOf(f), q)
  <2>1. (m + 1) - 1 = m
    BY <1>4
  <2> QED
    BY <1>4, <1>5, <2>1 DEF FJ!IsNextCall
<1>7. FJ!Reached(q)
  BY <1>4, <1>6 DEF FJ!Reached, ThunkAt, RightAt
<1> QED
  BY <1>2, <1>3, <1>7 DEF FJ!Fork, q

\* A thunk returns.
LEMMA ThunkEnds ==
  ASSUME IInv, NEW w \in Workers, ReturnLeft(w) \/ ReturnRight(w) \/ ReturnJob(w)
  PROVE  /\ Top(w).p \in Pardos
         /\ IF Top(w).at = "left" THEN FJ!EndLeft(Top(w).p) ELSE FJ!EndRight(Top(w).p)
<1>1. pc[w] = "run" /\ Top(w).rest = <<>> /\ prog' = prog /\ joined' = joined
  BY DEF ReturnLeft, ReturnRight, ReturnJob
<1>2. Range(BodyOf(Top(w))) \subseteq joined
  BY <1>1, AllReturned
<1>3. CASE ReturnLeft(w)
  <2>1. Top(w).at = "left" /\ left' = [left EXCEPT ![Top(w).p] = "done"] /\ right' = right
    BY <1>3 DEF ReturnLeft
  <2>2. Top(w).p \in Pardos /\ left[Top(w).p] = "running" /\ BodyOf(Top(w)) = prog.left[Top(w).p]
    BY <1>1, <2>1, ThunkRuns
  <2> QED
    BY <1>1, <1>2, <2>1, <2>2 DEF FJ!EndLeft, FJ!Range, Range
<1>4. CASE ReturnRight(w) \/ ReturnJob(w)
  <2>1. Top(w).at \in RightAt /\ right' = [right EXCEPT ![Top(w).p] = "done"] /\ left' = left
    BY <1>4 DEF ReturnRight, ReturnJob, RightAt
  <2>2. Top(w).p \in Pardos /\ right[Top(w).p] = "running" /\ BodyOf(Top(w)) = prog.right[Top(w).p]
    BY <1>1, <2>1, ThunkRuns
  <2>3. Top(w).at # "left"
    BY <2>1 DEF RightAt
  <2> QED
    BY <1>1, <1>2, <2>1, <2>2, <2>3 DEF FJ!EndRight, FJ!Range, Range
<1> QED
  BY <1>3, <1>4

\* right() begins, at the worker that popped its own job or at a thief.
LEMMA RightBegins ==
  ASSUME TagsLast, IInv, ~Aborted, NEW w \in Workers, (AfterPop(w) /\ job[w] # NoPardo) \/ Takes(w)
  PROVE  \E p \in Pardos : FJ!BeginRight(p)
<1>1. TypeOK /\ Control(w) /\ FramesInv
  BY At1
<1>2. CASE AfterPop(w) /\ job[w] # NoPardo
  <2> DEFINE p == Top(w).p
  <2>1. /\ p \in Pardos /\ pc[w] = "popped" /\ Top(w).at = "left" /\ right' = [right EXCEPT ![p] = "running"]
        /\ prog' = prog /\ left' = left /\ joined' = joined
    BY <1>1, <1>2, AfterPopIs
  <2>2. right[p] = "idle"
    BY <1>2, <2>1, PoppedSays
  <2>3. left[p] # "idle"
    <3>1. Top(w) = stack[w][Len(stack[w])] /\ Len(stack[w]) \in DOMAIN stack[w]
      BY <1>1, TopIs
    <3> QED
      BY <2>1, <3>1, FramesStarted
  <2> QED
    BY <2>1, <2>2, <2>3 DEF FJ!BeginRight
<1>3. CASE Takes(w)
  <2>1. /\ job[w] \in Pardos /\ right[job[w]] = "idle" /\ left[job[w]] # "idle"
        /\ right' = [right EXCEPT ![job[w]] = "running"] /\ prog' = prog /\ left' = left /\ joined' = joined
    BY <1>3, TakesIs
  <2> QED
    BY <2>1 DEF FJ!BeginRight
<1> QED
  BY <1>2, <1>3

\* pardo returns, when both thunks have.
LEMMA PardoJoins ==
  ASSUME IInv, NEW w \in Workers, ReturnPardo(w)
  PROVE  Top(w).p \in Pardos /\ FJ!Join(Top(w).p)
<1> DEFINE p == Top(w).p
<1>n. PICK n : n = Len(stack[w])
  OBVIOUS
<1>1. TypeOK /\ Control(w) /\ FramesInv
  BY At1
<1>2. pc[w] = "return" /\ joined' = joined \cup {p} /\ prog' = prog /\ left' = left /\ right' = right
  BY DEF ReturnPardo
<1>3. p \in Pardos /\ Top(w).at \in {"right", "wait"}
  BY <1>1, <1>2, ReturnIs
<1>4. n \in DOMAIN stack[w] /\ Top(w) = stack[w][n] /\ p # NoPardo
  BY <1>n, <1>1, <1>3, TopIs, SchedulerAssumption
<1>5. left[p] = "done" /\ right[p] = "done" /\ p \notin joined
  <2>1. FrameTells(w, n) /\ DoneTells
    BY <1>1, <1>4 DEF FramesInv
  <2> QED
    BY <1>n, <1>2, <1>3, <1>4, <2>1 DEF FrameTells, DoneTells, OwnerAt
<1> QED
  BY <1>2, <1>3, <1>5 DEF FJ!Join

\* Every step is a step of fork-join or changes nothing of it.
LEMMA StepForksJoins ==
  ASSUME TagsLast, IInv, ~Aborted, NEW w \in Workers, Step(w) \/ Flush(w)
  PROVE  FJ!FJNext \/ UNCHANGED FJ!fjVars
<1>1. TypeOK /\ Control(w)
  BY At1
<1>2. CASE StillStep(w)
  <2>1. left' = left /\ right' = right /\ joined' = joined
    BY <1>2, StillSteps DEF Still
  <2>2. prog' = prog
    BY <1>1, StepsApart DEF Apart
  <2> QED
    BY <2>1, <2>2 DEF FJ!fjVars
<1>3. CASE Pardo(w)
  BY <1>3, PardoForks DEF FJ!FJNext
<1>4. CASE ReturnLeft(w) \/ ReturnRight(w) \/ ReturnJob(w)
  BY <1>4, ThunkEnds DEF FJ!FJNext
<1>5. CASE (AfterPop(w) /\ job[w] # NoPardo) \/ Takes(w)
  BY <1>5, RightBegins DEF FJ!FJNext
<1>6. CASE AfterPop(w) /\ job[w] = NoPardo
  <2>1. left' = left /\ right' = right /\ joined' = joined /\ prog' = prog
    BY <1>1, <1>6, AfterPopIs
  <2> QED
    BY <2>1 DEF FJ!fjVars
<1>7. CASE ReturnPardo(w)
  BY <1>7, PardoJoins DEF FJ!FJNext
<1> QED
  BY <1>2, <1>3, <1>4, <1>5, <1>6, <1>7 DEF Step, StillStep, Takes

\* The work-stealing scheduler implements nested fork-join: each thunk of a pardo
\* runs once, after the calls before it have returned, whoever runs it, and pardo
\* returns when both its thunks have.
THEOREM ForkJoinImplemented ==
  ASSUME TagsLast
  PROVE  Spec => ImplementsForkJoin
<1>1. Init => FJ!FJInit
  BY DEF Init
<1>2. IInv /\ [Next]_vars => [FJ!FJNext]_FJ!fjVars
  <2>1. SUFFICES ASSUME IInv, [Next]_vars PROVE FJ!FJNext \/ UNCHANGED FJ!fjVars
    OBVIOUS
  <2>2. CASE ~Aborted /\ \E w \in Workers : Step(w) \/ Flush(w)
    <3>1. PICK w \in Workers : Step(w) \/ Flush(w)
      BY <2>2
    <3> QED
      BY <2>1, <2>2, <3>1, StepForksJoins
  <2>3. CASE UNCHANGED vars
    BY <2>3 DEF vars, fjVars, FJ!fjVars
  <2> QED
    BY <2>1, <2>2, <2>3 DEF Next, Terminated
<1> QED
  BY <1>1, <1>2, Invariance, PTL DEF Spec, ImplementsForkJoin, FJ!FJSpec

-----------------------------------------------------------------------------
(* Two more parts of the invariant: of the program's mutex, and of the     *)
(* slot that push_bottom writes before it aborts.                          *)

\* A worker waits for the mutex before a thunk that takes it, and with the
\* conservative wait a worker that waits for a job does nothing else.
LocksAt(w) ==
  /\ pc[w] = "lock" => ThunkOf(Top(w)) \in prog.locked
  /\ prog.conservative => \A i \in DOMAIN stack[w] :
       stack[w][i].at = "wait" /\ stack[w][i].p # NoPardo => i = Len(stack[w]) /\ pc[w] \in {"spin", "return"}
AbortSlot(w) == pc[w] = "aborted" => \A i \in In(buf[w], "slot") : buf[w][i].i = QSize - 1

JInv == IInv /\ \A w \in Workers : LocksAt(w) /\ AbortSlot(w)

\* What the steps do to the mutex's part: of a worker's frames only the top one
\* changes, or one comes on top.
LEMMA LocksMove ==
  ASSUME TagsLast, IInv, ~Aborted, NEW w \in Workers, Step(w) \/ Flush(w), LocksAt(w)
  PROVE  LocksAt(w)'
<1>n. PICK n : n = Len(stack[w])
  OBVIOUS
<1>1. TypeOK /\ Control(w) /\ DequeInv(w) /\ Apart(w) /\ prog' = prog /\ pc \in [Workers -> Labels]
  BY At1, StepsApart DEF Apart, TypeOK
<1>2. n \in Nat \ {0} /\ DOMAIN stack[w] = 1..n /\ Top(w) = stack[w][n] /\ stack[w] \in Seq(Frame_)
  BY <1>n, <1>1, TopIs
<1>3. prog.conservative => \A i \in 1..n : stack[w][i].at = "wait" /\ stack[w][i].p # NoPardo => i = n /\ pc[w] \in {"spin", "return"}
  BY <1>n, <1>2 DEF LocksAt
<1>4. \A i \in 1..(n - 1) : i \in 1..n /\ i # n
  BY <1>2
<1>5. \A i \in 1..n : i = n \/ i \in 1..(n - 1)
  BY <1>2
<1> USE DEF memVars, deqVars, regVars, fjVars, vars
<1>6. CASE StillStep(w)
  <2>1. stack'[w] = stack[w]
    BY <1>6, StillSteps DEF Still
  <2>2. Top(w)' = Top(w)
    BY <2>1 DEF Top
  <2>3. pc'[w] = "lock" => ThunkOf(Top(w)) \in prog.locked
    <3>1. CASE CallLeft(w)
      <4>1. pc[w] = "pushed" /\ pc'[w] = Begin(<<Top(w).p, "left">>)
        BY <1>1, <3>1 DEF CallLeft
      <4>2. Top(w).at = "left"
        BY <1>1, <4>1, TopAt
      <4> QED
        BY <4>1, <4>2 DEF Begin, ThunkOf
    <3>2. CASE Flush(w)
      BY <3>2 DEF Flush, LocksAt
    <3>3. CASE Lock(w) \/ Spin(w) \/ PopBegin(w) \/ PopLoad(w) \/ PopCas(w) \/ PopFence(w) \/ GetJob(w)
      BY <1>1, <3>3 DEF Lock, Spin, PopBegin, PopLoad, PopCas, PopFence, GetJob, LeaveLoop
    <3>4. CASE JobPopped(w)
      <4>1. job[w] = NoPardo
        BY <1>1, <3>4, WaitsEmpty DEF JobPopped, Quiet
      <4> QED
        BY <1>1, <3>4, <4>1 DEF JobPopped
    <3>5. CASE StealCheck(w) \/ StealAge(w) \/ StealBot(w) \/ StealJob(w) \/ (StealCas(w) /\ age[victim[w]] # old[w])
      BY <1>1, <3>5 DEF StealCheck, StealAge, StealBot, StealJob, StealCas, LeaveLoop
    <3>6. CASE Destroy(w) \/ JoinThreads(w)
      BY <1>1, <3>6 DEF Destroy, JoinThreads
    <3> QED
      BY <1>6, <3>1, <3>2, <3>3, <3>4, <3>5, <3>6 DEF StillStep
  <2>4. pc[w] \in {"spin", "return"} => pc'[w] \in {"spin", "return"}
    <3>1. CASE Spin(w) \/ Flush(w)
      BY <1>1, <3>1 DEF Spin, Flush
    <3>2. ~(Spin(w) \/ Flush(w)) => pc[w] \notin {"spin", "return"}
      BY <1>6 DEF StillStep, CallLeft, Lock, PopBegin, PopLoad, PopCas, PopFence, GetJob, JobPopped, StealCheck,
                 StealAge, StealBot, StealJob, StealCas, Destroy, JoinThreads
    <3> QED
      BY <3>1, <3>2
  <2>5. prog.conservative => \A i \in DOMAIN stack'[w] :
          stack'[w][i].at = "wait" /\ stack'[w][i].p # NoPardo => i = Len(stack'[w]) /\ pc'[w] \in {"spin", "return"}
    BY <1>n, <1>2, <1>3, <2>1, <2>4
  <2>6. ThunkOf(Top(w))' = ThunkOf(Top(w))
    BY <2>2 DEF ThunkOf
  <2> QED
    BY <1>1, <2>3, <2>5, <2>6 DEF LocksAt
<1>7. CASE Pardo(w)
  <2>1. /\ pc[w] = "run" /\ pc'[w] \in {"aborted", "pushed"} /\ Len(stack'[w]) = n + 1 /\ stack'[w] \in Seq(Frame_)
        /\ \A i \in 1..(n - 1) : stack'[w][i] = stack[w][i]
        /\ stack'[w][n] = AfterCall(Top(w)) /\ stack'[w][n + 1] = Frame("left", Called(w), prog.left[Called(w)])
        /\ Top(w).at \in ThunkAt
    BY <1>n, <1>1, <1>7, PardoIs DEF PushedAt
  <2>2. Top(w) \in Frame_ /\ AfterCall(Top(w)).at = Top(w).at
    BY <1>1, TopIs DEF AfterCall, Frame_
  <2>3. stack'[w][n].at # "wait" /\ stack'[w][n + 1].at # "wait"
    BY <2>1, <2>2 DEF Frame, ThunkAt
  <2>4. DOMAIN stack'[w] = 1..(n + 1)
    BY <1>2, <2>1
  <2>5. \A i \in 1..(n + 1) : i = n + 1 \/ i = n \/ i \in 1..(n - 1)
    BY <1>2
  <2>6. ASSUME prog.conservative, NEW i \in DOMAIN stack'[w] PROVE ~(stack'[w][i].at = "wait" /\ stack'[w][i].p # NoPardo)
    BY <1>3, <1>4, <2>1, <2>3, <2>4, <2>5, <2>6
  <2> QED
    BY <1>1, <2>1, <2>6 DEF LocksAt
<1>8. CASE ReturnLeft(w) \/ ReturnRight(w)
  <2>1. stack'[w] = stack[w] /\ pc'[w] # "lock" /\ Top(w).at # "wait"
    BY <1>1, <1>8 DEF ReturnLeft, ReturnRight
  <2> QED
    BY <1>1, <1>2, <1>3, <2>1 DEF LocksAt
<1>9. CASE AfterPop(w)
  <2> DEFINE p == Top(w).p
  <2>1. /\ pc[w] = "popped" /\ Len(stack'[w]) = n /\ stack'[w] \in Seq(Frame_)
        /\ \A i \in 1..(n - 1) : stack'[w][i] = stack[w][i]
        /\ \/ job[w] # NoPardo /\ stack'[w][n] = Frame("right", p, prog.right[p])
           \/ job[w] = NoPardo /\ stack'[w][n] = Frame("wait", p, <<>>)
    BY <1>n, <1>1, <1>9, AfterPopIs
  <2>2. pc'[w] = IF job[w] # NoPardo THEN Begin(<<p, "right">>) ELSE IF prog.conservative THEN "spin" ELSE "get_job"
    BY <1>1, <1>9 DEF AfterPop
  <2>3. Top(w)' = stack'[w][n] /\ DOMAIN stack'[w] = 1..n
    BY <1>2, <2>1 DEF Top, Last
  <2> HIDE DEF p
  <2>4. pc'[w] = "lock" => ThunkOf(Top(w))' \in prog.locked
    <3>1. SUFFICES ASSUME pc'[w] = "lock" PROVE ThunkOf(Top(w))' \in prog.locked
      OBVIOUS
    <3>2. job[w] # NoPardo /\ <<p, "right">> \in prog.locked
      BY <2>2, <3>1 DEF Begin
    <3>3. Top(w)' = Frame("right", p, prog.right[p])
      BY <2>1, <2>3, <3>2
    <3>4. Top(w)'.at = "right" /\ Top(w)'.p = p
      BY <3>3 DEF Frame
    <3> QED
      BY <3>2, <3>4 DEF ThunkOf
  <2>5. ASSUME prog.conservative, NEW i \in DOMAIN stack'[w], stack'[w][i].at = "wait", stack'[w][i].p # NoPardo
        PROVE  i = n /\ pc'[w] = "spin"
    <3>1. i = n
      BY <1>3, <1>4, <1>5, <2>1, <2>3, <2>5
    <3>2. job[w] = NoPardo
      BY <2>1, <2>5, <3>1 DEF Frame
    <3> QED
      BY <2>2, <2>5, <3>1, <3>2
  <2> QED
    BY <1>1, <2>1, <2>4, <2>5 DEF LocksAt
<1>10. CASE Takes(w)
  <2> DEFINE p == job[w]
  <2>1. /\ pc[w] = "steal_cas" /\ stack'[w] \in Seq(Frame_) /\ Len(stack'[w]) = n + 1
        /\ stack'[w][n + 1] = Frame("job", p, prog.right[p]) /\ \A i \in 1..n : stack'[w][i] = stack[w][i]
    BY <1>n, <1>10, TakesIs
  <2>2. pc'[w] = Begin(<<p, "right">>)
    BY <1>1, <1>10 DEF Takes, StealCas, RunJob
  <2>3. Top(w)' = stack'[w][n + 1] /\ DOMAIN stack'[w] = 1..(n + 1) /\ \A i \in 1..(n + 1) : i = n + 1 \/ i \in 1..n
    BY <1>2, <2>1 DEF Top, Last
  <2> HIDE DEF p
  <2>4. stack'[w][n + 1].at = "job" /\ stack'[w][n + 1].p = p
    BY <2>1 DEF Frame
  <2>5. pc'[w] = "lock" => ThunkOf(Top(w))' \in prog.locked
    BY <2>2, <2>3, <2>4 DEF Begin, ThunkOf
  <2>6. ASSUME prog.conservative, NEW i \in DOMAIN stack'[w] PROVE ~(stack'[w][i].at = "wait" /\ stack'[w][i].p # NoPardo)
    BY <1>3, <2>1, <2>3, <2>4, <2>6
  <2> QED
    BY <1>1, <2>5, <2>6 DEF LocksAt
<1>11. CASE ReturnJob(w) \/ ReturnPardo(w)
  <2>1. /\ stack'[w] \in Seq(Frame_) /\ Len(stack'[w]) = n - 1 /\ \A i \in 1..(n - 1) : stack'[w][i] = stack[w][i]
        /\ pc'[w] \in {"get_job", "run"}
    BY <1>n, <1>1, <1>11, ReturnIs
  <2>2. DOMAIN stack'[w] = 1..(n - 1)
    BY <2>1
  <2>3. ASSUME prog.conservative, NEW i \in DOMAIN stack'[w] PROVE ~(stack'[w][i].at = "wait" /\ stack'[w][i].p # NoPardo)
    BY <1>3, <1>4, <2>1, <2>2, <2>3
  <2> QED
    BY <1>1, <2>1, <2>3 DEF LocksAt
<1> QED
  BY <1>6, <1>7, <1>8, <1>9, <1>10, <1>11 DEF Step, StillStep, Takes

\* Only a push that finds no room aborts, and it has stored the job in the last slot.
LEMMA AbortMoves ==
  ASSUME IInv, ~Aborted, NEW w \in Workers, Step(w) \/ Flush(w)
  PROVE  AbortSlot(w)'
<1>1. TypeOK /\ Control(w) /\ DequeInv(w) /\ pc \in [Workers -> Labels] /\ buf[w] \in Seq(Stores) /\ bot[w] \in 0..QSize
  BY At1, TypesOf DEF TypeOK
<1>2. pc[w] # "aborted"
  BY DEF Aborted
<1> USE DEF memVars, deqVars, regVars, fjVars, vars
<1>3. CASE Pardo(w)
  <2> DEFINE s == SlotStore(bot[w], Called(w))
  <2>1. pc[w] = "run" /\ pc'[w] = PushedAt(bot[w]) /\ buf'[w] = PushedBy(buf[w], bot[w], Called(w)) /\ Called(w) \in Pardos
    BY <1>1, <1>3, PardoIs
  <2>2. SUFFICES ASSUME pc'[w] = "aborted", NEW i \in In(buf'[w], "slot") PROVE buf'[w][i].i = QSize - 1
    BY DEF AbortSlot
  <2>3. bot[w] + 1 = QSize /\ buf'[w] = Enter(buf[w], s)
    BY <2>1, <2>2 DEF PushedAt, PushedBy
  <2>4. bot[w] = QSize - 1 /\ bot[w] \in 0..(QSize - 1)
    BY <1>1, <2>3, SchedulerAssumption
  <2>5. s \in Stores /\ s.loc = "slot" /\ s.i = bot[w]
    BY <2>1, <2>4 DEF SlotStore, Stores
  <2>6. In(buf[w], "slot") = {}
    BY <1>1, <2>1 DEF DequeInv, BufferOK
  <2> HIDE DEF s
  <2>7. In(buf'[w], "slot") = {Len(buf[w]) + 1} /\ buf'[w][Len(buf[w]) + 1] = s
    <3>1. /\ Enter(buf[w], s)[Len(buf[w]) + 1] = s
          /\ \A l : In(Enter(buf[w], s), l) = In(buf[w], l) \cup (IF s.loc = l THEN {Len(buf[w]) + 1} ELSE {})
      BY <1>1, <2>5, Entered
    <3>2. In(Enter(buf[w], s), "slot") = In(buf[w], "slot") \cup (IF s.loc = "slot" THEN {Len(buf[w]) + 1} ELSE {})
      BY <3>1
    <3> QED
      BY <2>3, <2>5, <2>6, <3>1, <3>2
  <2> QED
    BY <2>2, <2>4, <2>5, <2>7
<1>4. CASE ~Pardo(w)
  <2>1. CallLeft(w) \/ Lock(w) \/ ReturnLeft(w) \/ AfterPop(w) \/ ReturnRight(w) \/ ReturnJob(w) \/ ReturnPardo(w) => pc'[w] # "aborted"
    BY <1>1 DEF CallLeft, Lock, ReturnLeft, AfterPop, ReturnRight, ReturnJob, ReturnPardo, Begin
  <2>2. Spin(w) \/ PopBegin(w) \/ PopLoad(w) \/ PopFence(w) \/ PopCas(w) \/ GetJob(w) \/ JobPopped(w) => pc'[w] # "aborted"
    BY <1>1 DEF Spin, PopBegin, PopLoad, PopFence, PopCas, GetJob, JobPopped, LeaveLoop, RunJob, Begin
  <2>3. StealCheck(w) \/ StealAge(w) \/ StealBot(w) \/ StealJob(w) \/ StealCas(w) \/ Destroy(w) \/ JoinThreads(w) => pc'[w] # "aborted"
    BY <1>1 DEF StealCheck, StealAge, StealBot, StealJob, StealCas, Destroy, JoinThreads, LeaveLoop, RunJob, Begin
  <2>4. Flush(w) => pc'[w] # "aborted"
    BY <1>2 DEF Flush
  <2> QED
    BY <1>4, <2>1, <2>2, <2>3, <2>4 DEF Step, AbortSlot
<1> QED
  BY <1>3, <1>4

\* The two parts hold always too.
THEOREM JobsInvariance ==
  ASSUME TagsLast
  PROVE  Spec => []JInv
<1>1. Init => JInv
  <2>1. SUFFICES ASSUME Init PROVE JInv
    OBVIOUS
  <2>2. IInv
    BY <2>1, InitInv
  <2>3. ASSUME NEW w \in Workers PROVE LocksAt(w) /\ AbortSlot(w)
    <3>1. pc[w] \in {"run", "get_job"} /\ DOMAIN stack[w] = {1} /\ stack[w][1].p = NoPardo
      BY <2>1, InitWorker
    <3> QED
      BY <3>1 DEF LocksAt, AbortSlot
  <2> QED
    BY <2>2, <2>3 DEF JInv
<1>2. JInv /\ [Next]_vars => JInv'
  <2>1. SUFFICES ASSUME JInv, [Next]_vars PROVE JInv'
    OBVIOUS
  <2>2. IInv /\ IInv'
    BY <2>1, NextInv DEF JInv
  <2>3. CASE ~Aborted /\ \E w \in Workers : Step(w) \/ Flush(w)
    <3>1. PICK w \in Workers : Step(w) \/ Flush(w)
      BY <2>3
    <3>2. LocksAt(w)' /\ AbortSlot(w)'
      BY <2>1, <2>2, <2>3, <3>1, LocksMove, AbortMoves DEF JInv
    <3>3. ASSUME NEW x \in Workers \ {w} PROVE LocksAt(x)' /\ AbortSlot(x)'
      <4>1. pc'[x] = pc[x] /\ stack'[x] = stack[x] /\ buf'[x] = buf[x] /\ prog' = prog
        BY <2>2, <3>1, At1, StepsApart DEF Apart
      <4>2. LocksAt(x) /\ AbortSlot(x)
        BY <2>1 DEF JInv
      <4> QED
        BY <4>1, <4>2 DEF LocksAt, AbortSlot, Top, ThunkOf
    <3> QED
      BY <2>2, <3>2, <3>3 DEF JInv
  <2>4. CASE UNCHANGED vars
    <3>1. pc' = pc /\ stack' = stack /\ buf' = buf /\ prog' = prog
      BY <2>4 DEF vars, memVars, regVars, fjVars
    <3> QED
      BY <2>1, <2>2, <3>1 DEF JInv, LocksAt, AbortSlot, Top, ThunkOf
  <2> QED
    BY <2>1, <2>3, <2>4 DEF Next, Terminated
<1> QED
  BY <1>1, <1>2, PTL DEF Spec

-----------------------------------------------------------------------------
(* What they say of the jobs.                                              *)

\* The job that a thief is about to take was pushed and is nobody's.
LEMMA StealFresh ==
  ASSUME JInv, NEW w \in Workers, pc[w] = "steal_cas", age[victim[w]] = old[w]
  PROVE  job[w] \in Pardos /\ left[job[w]] # "idle" /\ right[job[w]] = "idle"
<1> DEFINE y == victim[w]
           p == job[w]
<1>1. TypeOK /\ ThiefInv(w) /\ FramesInv /\ IInv
  BY At1 DEF JInv
<1>2. y \in Workers \ {w} /\ ReadyAt(y) /\ p = deq[y][age[y].top]
  BY <1>1 DEF ThiefInv
<1>3. DequeInv(y) /\ Control(y) /\ AbortSlot(y)
  BY <1>1, <1>2, At1 DEF JInv
<1>4. /\ Len(stack[y]) \in Nat \ {0} /\ DOMAIN stack[y] = 1..Len(stack[y])
      /\ buf[y] \in Seq(Stores) /\ lb[y] \in 0..QSize /\ age[y] \in Age /\ bot[y] \in 0..QSize
      /\ deq[y] \in [0..(QSize - 1) -> Pardos \cup {NoPardo}]
  BY <1>1, <1>2, <1>3, TopIs, TypesOf
<1>5. Standing(pc[y], stack[y], buf[y], lb[y], job[y], age[y], bot[y], deq[y], right)
  <2>1. BufferOK(pc[y], buf[y], age[y])
        /\ DequeOK(pc[y], stack[y], buf[y], lb[y], old[y], job[y], age[y], bot[y], deq[y], right)
        /\ Ready(pc[y], buf[y], lb[y], age[y], bot[y])
    BY <1>2, <1>3 DEF DequeInv, ReadyAt
  <2>2. pc[y] = "aborted" => \A i \in In(buf[y], "slot") : buf[y][i].i = QSize - 1
    BY <1>3 DEF AbortSlot
  <2> QED
    BY <1>4, <2>1, <2>2, ReadyJob
<1>6. PICK i \in 1..Len(stack[y]) : stack[y][i].at = "left" /\ stack[y][i].p = p /\ right[p] = "idle"
  BY <1>2, <1>5 DEF Standing
<1>7. p \in Pardos
  BY <1>1, <1>2, <1>3, <1>4, <1>6, PardosAt
<1>8. left[p] # "idle"
  BY <1>1, <1>2, <1>4, <1>6, <1>7, FramesStarted
<1> QED
  BY <1>6, <1>7, <1>8

\* pardo is waiting as long as a job of its frame, or the store to its flag, is about.
LEMMA OutlivesJob ==
  ASSUME IInv
  PROVE  FrameOutlivesJob
<1>1. FramesInv /\ TypeOK
  BY DEF IInv
<1>2. ASSUME NEW w \in Workers, NEW f \in Range(stack[w]), f.at = "job"
      PROVE  \E x \in Workers : \E g \in Range(stack[x]) : g.at \in {"left", "wait"} /\ g.p = f.p
  <2>1. PICK i \in DOMAIN stack[w] : stack[w][i] = f
    BY DEF Range
  <2>2. InPardo(w, f.p)
    BY <1>1, <1>2, <2>1 DEF FramesInv, JobsOutside
  <2>3. PICK x \in Workers : \E j \in DOMAIN stack[x] : stack[x][j].at \in {"left", "wait"} /\ stack[x][j].p = f.p
    BY <2>2 DEF InPardo
  <2>4. PICK j \in DOMAIN stack[x] : stack[x][j].at \in {"left", "wait"} /\ stack[x][j].p = f.p
    BY <2>3
  <2>5. stack[x][j] \in Range(stack[x])
    BY DEF Range
  <2> QED
    BY <2>4, <2>5
<1>3. ASSUME NEW w \in Workers, NEW s \in Range(buf[w]), s.loc = "right_done" PROVE s.val \notin joined
  <2>1. PICK i \in DOMAIN buf[w] : buf[w][i] = s
    BY DEF Range
  <2>2. i \in In(buf[w], "right_done")
    BY <1>3, <2>1 DEF In
  <2>3. InPardo(w, s.val)
    BY <1>1, <2>1, <2>2 DEF FramesInv, JobsOutside
  <2>4. PICK x \in Workers : \E j \in DOMAIN stack[x] : stack[x][j].at \in {"left", "wait"} /\ stack[x][j].p = s.val
    BY <2>3 DEF InPardo
  <2>5. PICK j \in DOMAIN stack[x] : stack[x][j].at \in {"left", "wait"} /\ stack[x][j].p = s.val
    BY <2>4
  <2>6. FrameTells(x, j)
    BY <1>1 DEF FramesInv
  <2> QED
    BY <2>5, <2>6 DEF FrameTells, OwnerAt
<1> QED
  BY <1>2, <1>3 DEF FrameOutlivesJob

\* The thunks above one that holds the mutex are those that it calls, directly or
\* through others: with the conservative wait nothing else comes on its stack.
LEMMA CalledAbove ==
  ASSUME JInv, prog.conservative, NEW w \in Workers, pc[w] = "lock", NEW inside,
         \A t \in prog.locked \cup inside : \A k \in DOMAIN Body(prog, t), side \in {"left", "right"} :
           <<Body(prog, t)[k], side>> \in inside,
         NEW i \in DOMAIN stack[w], i < Len(stack[w]), stack[w][i].at \in ThunkAt,
         ThunkOf(stack[w][i]) \in prog.locked \cup inside
  PROVE  i + 1 \in DOMAIN stack[w] /\ stack[w][i + 1].at \in ThunkAt /\ ThunkOf(stack[w][i + 1]) \in inside
<1> DEFINE f == stack[w][i]
           g == stack[w][i + 1]
<1>1. IInv /\ TypeOK /\ Control(w) /\ CallsInv /\ LocksAt(w)
  BY At1 DEF JInv
<1>2. /\ DOMAIN stack[w] = 1..Len(stack[w]) /\ Len(stack[w]) \in Nat /\ stack[w] \in Seq(Frame_)
  BY <1>1, TopIs
<1>3. i \in Nat /\ i + 1 \in 2..Len(stack[w]) /\ i + 1 \in DOMAIN stack[w] /\ (i + 1) - 1 = i
  BY <1>2
<1>4. g \in Frame_ /\ g.at # "main" /\ g.p \in Pardos /\ (f.at = "wait" <=> g.at = "job")
  <2>1. \A j \in 2..Len(stack[w]) : /\ stack[w][j].at # "main" /\ stack[w][j].p \in Pardos
                                    /\ stack[w][j - 1].at = "wait" <=> stack[w][j].at = "job"
    BY <1>1 DEF Control, ControlOK, StackShape
  <2>2. /\ g.at # "main" /\ g.p \in Pardos /\ (stack[w][(i + 1) - 1].at = "wait" <=> g.at = "job")
    BY <1>3, <2>1
  <2>3. g \in Frame_
    BY <1>2, <1>3
  <2> QED
    BY <1>3, <2>2, <2>3
<1>5. CallsMade(w, i)
  BY <1>1 DEF CallsInv
<1>6. Made(f) > 0 /\ Made(f) \in Nat /\ BodyOf(f)[Made(f)] = g.p
  BY <1>5 DEF CallsMade
<1>7. BodyOf(f) \in Seq(Pardos) /\ f.rest \in Seq(Pardos)
  BY <1>1, ThunkIs
<1> HIDE DEF f, g
<1>8. Made(f) \in DOMAIN BodyOf(f)
  <2>1. DOMAIN BodyOf(f) = 1..Len(BodyOf(f)) /\ Len(BodyOf(f)) \in Nat /\ Len(f.rest) \in Nat
    BY <1>7
  <2>2. Made(f) = Len(BodyOf(f)) - Len(f.rest)
    BY DEF Made
  <2>3. \A m, b, r \in Nat : m > 0 /\ m = b - r => m \in 1..b
    OBVIOUS
  <2> QED
    BY <1>6, <2>1, <2>2, <2>3
<1>9. \A side \in {"left", "right"} : <<g.p, side>> \in inside
  <2>1. ThunkOf(f) \in prog.locked \cup inside
    BY DEF f
  <2>2. BodyOf(f) = Body(prog, ThunkOf(f))
    BY DEF BodyOf
  <2> QED
    BY <1>6, <1>8, <2>1, <2>2
<1>10. g.at # "wait"
  <2>1. SUFFICES ASSUME g.at = "wait" PROVE FALSE
    OBVIOUS
  <2>2. g.p # NoPardo
    BY <1>4, SchedulerAssumption
  <2>3. pc[w] \in {"spin", "return"}
    BY <1>1, <1>3, <2>1, <2>2 DEF LocksAt, g
  <2> QED
    BY <2>3
<1>11. g.at \in {"left", "right"}
  <2>1. f.at # "wait"
    BY DEF f, ThunkAt
  <2> QED
    BY <1>4, <1>10, <2>1 DEF Frame_, Frames
<1>12. ThunkOf(g) \in inside
  BY <1>9, <1>11 DEF ThunkOf
<1> QED
  BY <1>3, <1>11, <1>12 DEF g, ThunkAt

\* So a worker never waits for a mutex that its own stack holds.
LEMMA NoSelfWait ==
  ASSUME JInv, LocksApart
  PROVE  NeverWaitsForItself
<1>1. SUFFICES ASSUME NEW w \in Workers, pc[w] = "lock", NEW i \in DOMAIN stack[w], i < Len(stack[w]),
                      stack[w][i].at \in ThunkAt, ThunkOf(stack[w][i]) \in prog.locked
               PROVE  FALSE
  <2>1. SUFFICES ASSUME NEW w \in Workers, pc[w] = "lock", NEW f \in Range(Below(w)),
                        \/ f.at = "left" /\ <<f.p, "left">> \in prog.locked
                        \/ f.at \in {"right", "job"} /\ <<f.p, "right">> \in prog.locked
                 PROVE  FALSE
    BY DEF NeverWaitsForItself
  <2>2. IInv /\ TypeOK /\ Control(w)
    BY At1 DEF JInv
  <2>3. stack[w] \in Seq(Frame_) /\ stack[w] # <<>> /\ DOMAIN stack[w] = 1..Len(stack[w]) /\ Len(stack[w]) \in Nat \ {0}
    BY <2>2, TopIs
  <2>4. /\ Below(w) \in Seq(Frame_) /\ Len(Below(w)) = Len(stack[w]) - 1
        /\ \A i \in 1..(Len(stack[w]) - 1) : Below(w)[i] = stack[w][i]
    BY <2>3, Popped DEF Below
  <2>5. PICK i \in DOMAIN Below(w) : Below(w)[i] = f
    BY DEF Range
  <2>6. DOMAIN Below(w) = 1..(Len(stack[w]) - 1)
    BY <2>4
  <2>7. i \in DOMAIN stack[w] /\ i < Len(stack[w]) /\ stack[w][i] = f
    BY <2>3, <2>4, <2>5, <2>6
  <2>8. f.at \in ThunkAt /\ ThunkOf(f) \in prog.locked
    BY <2>1 DEF ThunkAt, ThunkOf
  <2> QED
    BY <1>1, <2>1, <2>7, <2>8
<1>2. IInv /\ TypeOK /\ Control(w) /\ LocksAt(w) /\ prog \in Programs
  BY At1 DEF JInv, TypeOK, FJ!FJTypeOK
<1>3. prog.conservative /\ NoNestedLocks(prog)
  BY <1>1, <1>2 DEF LocksApart
<1>4. PICK inside \in SUBSET (Thunks \ prog.locked) :
        \A t \in prog.locked \cup inside : \A k \in DOMAIN Body(prog, t), side \in {"left", "right"} :
          <<Body(prog, t)[k], side>> \in inside
  BY <1>3 DEF NoNestedLocks
<1>n. PICK n : n = Len(stack[w])
  OBVIOUS
<1>5. n \in Nat \ {0} /\ DOMAIN stack[w] = 1..n /\ Top(w) = stack[w][n] /\ i \in 1..n /\ i < n
  BY <1>n, <1>1, <1>2, TopIs
<1> DEFINE In_(m) == stack[w][m].at \in ThunkAt /\ ThunkOf(stack[w][m]) \in prog.locked \cup inside
           Above(m) == i + m <= n => In_(i + m)
<1>6. \A m \in Nat : Above(m)
  <2> DEFINE W == {m \in Nat : ~Above(m)}
  <2>1. Above(0)
    <3>1. i + 0 = i /\ In_(i)
      BY <1>1, <1>5
    <3> QED
      BY <3>1
  <2>2. ASSUME NEW m \in Nat, Above(m) PROVE Above(m + 1)
    <3>1. SUFFICES ASSUME i + (m + 1) <= n PROVE In_(i + (m + 1))
      OBVIOUS
    <3>2. m \in Nat /\ i \in Nat /\ i + m \in DOMAIN stack[w] /\ i + m < n /\ i + (m + 1) = (i + m) + 1
      BY <1>5, <3>1
    <3>3. In_(i + m)
      BY <2>2, <3>1, <3>2, <1>5
    <3>k. PICK k : k = i + m
      OBVIOUS
    <3>4. stack[w][k].at \in ThunkAt /\ ThunkOf(stack[w][k]) \in prog.locked \cup inside /\ k \in DOMAIN stack[w] /\ k < Len(stack[w])
      BY <1>n, <3>2, <3>3, <3>k
    <3>5. stack[w][k + 1].at \in ThunkAt /\ ThunkOf(stack[w][k + 1]) \in inside
      BY <1>1, <1>3, <1>4, <3>4, CalledAbove
    <3> QED
      BY <3>2, <3>5, <3>k
  <2> HIDE DEF Above
  <2>3. SUFFICES ASSUME W # {} PROVE FALSE
    OBVIOUS
  <2>4. PICK m \in W : \A j \in W : m <= j
    <3>1. W \subseteq Nat
      OBVIOUS
    <3> HIDE DEF W
    <3> QED
      BY <2>3, <3>1, LeastElement
  <2>5. m \in Nat /\ ~Above(m) /\ m # 0
    BY <2>1, <2>4
  <2>6. m - 1 \in Nat /\ (m - 1) + 1 = m /\ ~(m <= m - 1)
    BY <2>5
  <2>7. Above(m - 1)
    BY <2>4, <2>6
  <2>8. Above((m - 1) + 1)
    BY <2>2, <2>6, <2>7
  <2> QED
    BY <2>5, <2>6, <2>8
<1>7. i + (n - 1 - i) = n - 1 /\ n - 1 - i \in Nat /\ n - 1 \in DOMAIN stack[w] /\ n - 1 < n /\ (n - 1) + 1 = n /\ n - 1 <= n
  BY <1>5
<1>8. In_(n - 1)
  BY <1>6, <1>7
<1>k. PICK k : k = n - 1
  OBVIOUS
<1>9. stack[w][k].at \in ThunkAt /\ ThunkOf(stack[w][k]) \in prog.locked \cup inside /\ k \in DOMAIN stack[w] /\ k < Len(stack[w])
  BY <1>n, <1>7, <1>8, <1>k
<1>10. ThunkOf(stack[w][k + 1]) \in inside
  BY <1>1, <1>3, <1>4, <1>9, CalledAbove
<1>11. ThunkOf(Top(w)) \in inside /\ ThunkOf(Top(w)) \in prog.locked
  BY <1>1, <1>2, <1>5, <1>7, <1>10, <1>k DEF LocksAt
<1> QED
  BY <1>4, <1>11

\* A job that a thief takes is fresh, the frame it lives in outlives it, and with the
\* conservative wait running it never waits for a lock of the worker's own stack.
THEOREM JobsStayRight ==
  ASSUME TagsLast, LocksApart
  PROVE  Spec => []JobsRight
<1>1. ASSUME JInv PROVE JobsRight
  <2>1. StealIsFresh
    BY <1>1, StealFresh DEF StealIsFresh
  <2>2. FrameOutlivesJob
    BY <1>1, OutlivesJob DEF JInv
  <2>3. NeverWaitsForItself
    BY <1>1, NoSelfWait
  <2> QED
    BY <2>1, <2>2, <2>3 DEF JobsRight
<1> QED
  BY <1>1, JobsInvariance, PTL

=============================================================================
