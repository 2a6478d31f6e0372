--------------------------- MODULE ConcurrentStack ---------------------------
(***************************************************************************)
(* concurrent_stack of pbbslib/concurrent_stack.h: two linked stacks, a    *)
(* with the values and b with the nodes to use again, whose 128-bit heads  *)
(* pair a node with a counter.  A step makes one access to what threads    *)
(* share, and touches the node its thread holds: the plain copy of a head  *)
(* is two loads, in either order.                                          *)
(*                                                                         *)
(* The compare-and-swaps order all stores (x86), so memory is sequentially *)
(* consistent here: a node is written only by the thread that holds it.    *)
(***************************************************************************)
EXTENDS Naturals, Sequences, FiniteSets, SequencesExt

CONSTANTS
  Threads, Values,
  Nothing,       \* std::nullopt
  NumNodes,      \* how many nodes malloc may give out
  Programs,      \* the sequences of calls each thread may make, functions on Threads
  Initial        \* the values on the stack at the start, top last

Null == 0
Nodes == 1..NumNodes
Calls == {"pop", "size"} \cup Values   \* a value stands for the push of it

ASSUME StackAssumption ==
  /\ Initial \in Seq(Values) /\ NumNodes \in Nat /\ NumNodes >= Len(Initial)
  /\ Values # {} /\ {"pop", "size"} \cap Values = {} /\ Nothing \notin Calls
  /\ Programs \subseteq [Threads -> Seq(Calls)]
  /\ IsFiniteSet(Threads)

VARIABLES
  head,                \* of the stacks "a" and "b": .node and .counter
  next, length, value, \* the fields of the nodes
  allocated,           \* the nodes that malloc gave out and free did not take
  todo,                \* the calls each thread has still to make
  pc, op,              \* its control, and the call it is in
  on,                  \* the prim_concurrent_stack it works on
  old, x, below,       \* its oldHead, its node (newNode or result), result->next
  res,                 \* what the call will return
  destroyed,           \* the destructor has run
  largest, sizes       \* history: the largest size of a, and those seen by a call

heap == <<next, length, value, allocated>>
locals == <<on, old, x, below, res>>
history == <<largest, sizes>>
vars == <<head, heap, todo, pc, op, locals, destroyed, history>>

NoHead == [node |-> Null, counter |-> 0]
LengthOf(n) == IF n = Null THEN 0 ELSE length[n]

\* The nodes that nx links below n, itself first (no more of them than there are nodes).
Linked(nx, n) ==
  LET from[k \in 0..NumNodes] ==
        [m \in Nodes \cup {Null} |-> IF k = 0 \/ m = Null THEN <<>> ELSE <<m>> \o from[k - 1][nx[m]]]
  IN from[NumNodes][n]
\* A linked stack, top first.
Chain(s) == Linked(next, head[s].node)
Size == Len(Chain("a"))

\* Empty, or as pushes of the initial values left it.
Init ==
  LET k == Len(Initial) IN
  /\ head = [s \in {"a", "b"} |->
               IF s = "a" THEN [node |-> k, counter |-> k] ELSE NoHead]
  /\ next = [n \in Nodes |-> IF n <= k THEN n - 1 ELSE Null]
  /\ length = [n \in Nodes |-> IF n <= k THEN n ELSE 0]
  /\ value = [n \in Nodes |-> IF n <= k THEN Initial[n] ELSE CHOOSE v \in Values : TRUE]
  /\ allocated = 1..k
  /\ todo \in Programs
  /\ pc = [t \in Threads |-> "idle"]
  /\ op = [t \in Threads |-> Nothing]
  /\ on = [t \in Threads |-> "a"]
  /\ old = [t \in Threads |-> NoHead]
  /\ x = [t \in Threads |-> Null] /\ below = [t \in Threads |-> Null]
  /\ res = [t \in Threads |-> Nothing]
  /\ destroyed = FALSE
  /\ largest = k /\ sizes = [t \in Threads |-> {}]

At(t, label) == pc[t] = label
Goto(t, to) == pc' = [pc EXCEPT ![t] = to]
Pushing(t) == op[t] \in Values
\* Whether it takes a node off the stack it works on, or puts one on.
Popping(t) == IF Pushing(t) THEN on[t] = "b" ELSE on[t] = "a"

\* The stack's new size, which the calls of size under way may return.
Note(size) ==
  /\ largest' = IF size > largest THEN size ELSE largest
  /\ sizes' = [t \in Threads |-> IF op[t] = "size" THEN sizes[t] \cup {size} ELSE {}]

-----------------------------------------------------------------------------
(* The calls of concurrent_stack.  push pops a node from b and pushes it   *)
(* on a; pop pops one from a and pushes it on b.                           *)

Call(t) ==
  /\ At(t, "idle") /\ todo[t] # <<>>
  /\ LET c == Head(todo[t]) IN
     /\ op' = [op EXCEPT ![t] = c]
     /\ on' = [on EXCEPT ![t] = IF c \in Values THEN "b" ELSE "a"]
     /\ Goto(t, IF c = "size" THEN "size" ELSE "pop_read")
  /\ todo' = [todo EXCEPT ![t] = Tail(@)]
  /\ sizes' = [sizes EXCEPT ![t] = IF Head(todo[t]) = "size" THEN {Size} ELSE {}]
  /\ UNCHANGED <<head, heap, old, x, below, res, largest>>

\* push with the node that b.pop returned, or with a new one.
Fill(t) ==
  /\ At(t, "fill")
  /\ \E n \in Nodes :
       /\ IF x[t] # Null THEN n = x[t] ELSE n \notin allocated /\ \A m \in Nodes \ allocated : n <= m
       /\ x' = [x EXCEPT ![t] = n]
       /\ allocated' = allocated \cup {n}
       /\ value' = [value EXCEPT ![n] = op[t]]
  /\ on' = [on EXCEPT ![t] = "a"]
  /\ Goto(t, "push_read")
  /\ UNCHANGED <<head, next, length, todo, op, old, below, res, history>>

\* Mutant: the node is not kept.
TakeAndLeak(t) ==
  /\ At(t, "take")
  /\ \/ x[t] = Null /\ UNCHANGED res
     \/ x[t] # Null /\ res' = [res EXCEPT ![t] = value[x[t]]]
  /\ Goto(t, "done")
  /\ x' = [x EXCEPT ![t] = Null]
  /\ UNCHANGED <<head, heap, todo, op, on, old, below, history>>

\* pop with the node that a.pop returned.
Take(t) ==
  /\ At(t, "take")
  /\ \/ /\ x[t] = Null
        /\ Goto(t, "done")
        /\ UNCHANGED <<on, res>>
     \/ /\ x[t] # Null
        /\ res' = [res EXCEPT ![t] = value[x[t]]]
        /\ on' = [on EXCEPT ![t] = "b"]
        /\ Goto(t, "push_read")
  /\ UNCHANGED <<head, heap, todo, op, old, x, below, history>>

\* size: the node of a's head, then its length.
SizeHead(t) ==
  /\ At(t, "size")
  /\ x' = [x EXCEPT ![t] = head["a"].node]
  /\ Goto(t, "size_length")
  /\ UNCHANGED <<head, heap, todo, op, on, old, below, res, history>>

SizeLength(t) ==
  /\ At(t, "size_length")
  /\ res' = [res EXCEPT ![t] = LengthOf(x[t])]
  /\ x' = [x EXCEPT ![t] = Null]
  /\ Goto(t, "done")
  /\ UNCHANGED <<head, heap, todo, op, on, old, below, history>>

Return(t) ==
  /\ At(t, "done")
  /\ op' = [op EXCEPT ![t] = Nothing] /\ res' = [res EXCEPT ![t] = Nothing]
  /\ sizes' = [sizes EXCEPT ![t] = {}]
  /\ Goto(t, "idle")
  /\ UNCHANGED <<head, heap, todo, on, old, x, below, largest>>

-----------------------------------------------------------------------------
(* prim_concurrent_stack: push and pop.                                    *)

\* oldHead = head, one half and then the other.
ReadHalf(t, half) == old' = [old EXCEPT ![t][half] = head[on[t]][half]]

Read(t) ==
  /\ pc[t] \in {"pop_read", "push_read", "node_left", "counter_left"}
  /\ LET next_pc == IF Popping(t) THEN "pop_test" ELSE "push_link"
     IN \/ pc[t] \in {"pop_read", "push_read"} /\ ReadHalf(t, "node") /\ Goto(t, "counter_left")
        \/ pc[t] \in {"pop_read", "push_read"} /\ ReadHalf(t, "counter") /\ Goto(t, "node_left")
        \/ At(t, "counter_left") /\ ReadHalf(t, "counter") /\ Goto(t, next_pc)
        \/ At(t, "node_left") /\ ReadHalf(t, "node") /\ Goto(t, next_pc)
  /\ UNCHANGED <<head, heap, todo, op, on, x, below, res, history>>

\* Where pop returns to.
Popped(t) == IF Pushing(t) THEN "fill" ELSE "take"

\* The test for an empty stack, and the load of result->next.
PopNext(t) ==
  /\ At(t, "pop_test")
  /\ \/ /\ old[t].node = Null
        /\ x' = [x EXCEPT ![t] = Null]
        /\ old' = [old EXCEPT ![t] = NoHead]
        /\ Goto(t, Popped(t))
        /\ UNCHANGED below
     \/ /\ old[t].node # Null
        /\ below' = [below EXCEPT ![t] = next[old[t].node]]
        /\ Goto(t, "pop_cas")
        /\ UNCHANGED <<x, old>>
  /\ UNCHANGED <<head, heap, todo, op, on, res, history>>

\* The comparison of __sync_bool_compare_and_swap_16.  Mutant: of the node only.
SameNode(t) == head[on[t]].node = old[t].node
Same(t) == head[on[t]] = old[t]

Swap(t, n) == head' = [head EXCEPT ![on[t]] = [node |-> n, counter |-> old[t].counter + 1]]

PopCas(t) ==
  /\ At(t, "pop_cas")
  /\ \/ /\ Same(t)
        /\ Swap(t, below[t])
        /\ x' = [x EXCEPT ![t] = old[t].node]
        /\ Goto(t, Popped(t))
        /\ IF on[t] = "a" THEN Note(Size - 1) ELSE UNCHANGED history
     \/ /\ ~Same(t)
        /\ Goto(t, "pop_read")
        /\ UNCHANGED <<head, x, history>>
  /\ old' = [old EXCEPT ![t] = NoHead] /\ below' = [below EXCEPT ![t] = Null]
  /\ UNCHANGED <<heap, todo, op, on, res>>

PushLink(t) ==
  /\ At(t, "push_link")
  /\ next' = [next EXCEPT ![x[t]] = old[t].node]
  /\ length' = [length EXCEPT ![x[t]] = LengthOf(old[t].node) + 1]
  /\ Goto(t, "push_cas")
  /\ UNCHANGED <<head, value, allocated, todo, op, locals, history>>

\* Mutant: tries again with the head it read before.
PushCasAgain(t) ==
  /\ At(t, "push_cas")
  /\ \/ /\ Same(t)
        /\ Swap(t, x[t])
        /\ x' = [x EXCEPT ![t] = Null]
        /\ old' = [old EXCEPT ![t] = NoHead]
        /\ Goto(t, "done")
        /\ IF on[t] = "a" THEN Note(Size + 1) ELSE UNCHANGED history
     \/ /\ ~Same(t)
        /\ UNCHANGED <<head, x, old, pc, history>>
  /\ UNCHANGED <<heap, todo, op, on, below, res>>

PushCas(t) ==
  /\ At(t, "push_cas")
  /\ \/ /\ Same(t)
        /\ Swap(t, x[t])
        /\ x' = [x EXCEPT ![t] = Null]
        /\ Goto(t, "done")
        /\ IF on[t] = "a" THEN Note(Size + 1) ELSE UNCHANGED history
     \/ /\ ~Same(t)
        /\ Goto(t, "push_read")
        /\ UNCHANGED <<head, x, history>>
  /\ old' = [old EXCEPT ![t] = NoHead]
  /\ UNCHANGED <<heap, todo, op, on, below, res>>

-----------------------------------------------------------------------------
\* clear, which the destructor calls when nobody else uses the stack: pop and
\* free the nodes of a, then those of b.

Clear ==
  /\ ~destroyed /\ destroyed' = TRUE
  /\ \A t \in Threads : At(t, "idle") /\ todo[t] = <<>>
  /\ allocated' = allocated \ (Range(Chain("a")) \cup Range(Chain("b")))
  /\ head' = [s \in {"a", "b"} |->
                [node |-> Null, counter |-> head[s].counter + Len(Chain(s))]]
  /\ UNCHANGED <<next, length, value, todo, pc, op, locals, history>>

Step(t) ==
  \/ Call(t) \/ Fill(t) \/ Take(t) \/ SizeHead(t) \/ SizeLength(t) \/ Return(t)
  \/ Read(t) \/ PopNext(t) \/ PopCas(t) \/ PushLink(t) \/ PushCas(t)

\* Nothing happens after the destructor.
Gone == destroyed /\ UNCHANGED vars

Next == (\E t \in Threads : Step(t) /\ UNCHANGED destroyed) \/ Clear \/ Gone

Spec == Init /\ [][Next]_vars

\* Threads are preempted but never stopped.
Fairness == \A t \in Threads : WF_vars(Step(t) /\ UNCHANGED destroyed)
FairSpec == Spec /\ Fairness

-----------------------------------------------------------------------------
(* Properties.                                                             *)

Labels ==
  {"idle", "fill", "take", "size", "size_length", "done", "pop_read", "push_read",
   "node_left", "counter_left", "pop_test", "pop_cas", "push_link", "push_cas"}

\* Every variable has its type.
TypeOK ==
  /\ head \in [{"a", "b"} -> [node : Nodes \cup {Null}, counter : Nat]]
  /\ next \in [Nodes -> Nodes \cup {Null}] /\ length \in [Nodes -> Nat]
  /\ value \in [Nodes -> Values] /\ allocated \subseteq Nodes
  /\ todo \in [Threads -> Seq(Calls)]
  /\ pc \in [Threads -> Labels] /\ op \in [Threads -> Calls \cup {Nothing}]
  /\ on \in [Threads -> {"a", "b"}]
  /\ old \in [Threads -> [node : Nodes \cup {Null}, counter : Nat]]
  /\ x \in [Threads -> Nodes \cup {Null}] /\ below \in [Threads -> Nodes \cup {Null}]
  /\ res \in [Threads -> Values \cup Nat \cup {Nothing}] /\ destroyed \in BOOLEAN
  /\ largest \in Nat /\ sizes \in [Threads -> SUBSET Nat]

\* The node a thread has taken off one stack and not put on another.
Held(t) == IF pc[t] = "size_length" \/ x[t] = Null THEN {} ELSE {x[t]}

\* No node is lost and none is in two places: each one that malloc gave out is on
\* a, on b, or in the hands of one thread, whatever stale heads the others hold.
NodesAccounted ==
  LET linked == Chain("a") \o Chain("b")
      holders == {t \in Threads : Held(t) # {}}
  IN /\ Range(linked) \cup UNION {Held(t) : t \in holders} = allocated
     /\ Len(linked) + Cardinality(holders) = Cardinality(allocated)

\* The length that a push stores in its node is right when the push succeeds,
\* though it read the node below while others could take it.
HeadKnowsLength == \A s \in {"a", "b"} : LengthOf(head[s].node) = Len(Chain(s))

\* "It requires memory proportional to the largest it has been" (l.29): no more
\* nodes than that and one for each call under way.
MemoryProportional == Cardinality(allocated) <= largest + Cardinality(Threads)

\* After clear() nothing of either stack is left allocated.
ClearFreesAll == destroyed => allocated = {}

\* The two stacks and the calls under way hold every node once, know their lengths,
\* and give the memory back.
StackRight ==
  TypeOK /\ NodesAccounted /\ HeadKnowsLength /\ MemoryProportional /\ ClearFreesAll

\* A pop takes effect when its compare-and-swap on a succeeds, or, on an empty
\* stack, when it loads the null node; a push when its own on a succeeds.
FoundEmpty(t) ==
  op[t] = "pop" /\ on[t] = "a" /\ pc[t] \in {"counter_left", "pop_test"} /\ old[t].node = Null
HasEffect(t) == pc[t] \in {"take", "done"} \/ FoundEmpty(t) \/ (op[t] = "pop" /\ on[t] = "b")

\* "linearizable implementation of a concurrent stack" (l.23): push and pop
\* return what some order of the calls that overlap would return.
Linear == INSTANCE Stack
  WITH contents <- LET c == Chain("a") IN [k \in DOMAIN c |-> value[c[k]]],
       call <- [t \in Threads |->
                  IF op[t] \in {"size", Nothing} THEN "none"
                  ELSE IF HasEffect(t) THEN "done"
                  ELSE IF Pushing(t) THEN "push" ELSE "pop"],
       val <- [t \in Threads |->
                  IF op[t] \in {"size", Nothing} \/ FoundEmpty(t) THEN Nothing
                  ELSE IF Pushing(t) THEN (IF HasEffect(t) THEN Nothing ELSE op[t])
                  ELSE IF At(t, "take") /\ x[t] # Null THEN value[x[t]] ELSE res[t]]
Linearizable == Linear!StackSpec

\* ... and size, as the head of the file has it: it returns a size the stack had
\* during the call.  No run checks it, as the code does not keep it: a pop may move the
\* node to b before its length is read, and of three values size then returns 1.
SizeLinearizable ==
  \A t \in Threads : At(t, "done") /\ op[t] = "size" => res[t] \in sizes[t]

\* Lock-free: among finitely many calls every one returns, as a failed
\* compare-and-swap means that another one succeeded.
EveryCallReturns == <>(\A t \in Threads : At(t, "idle") /\ todo[t] = <<>>)
=============================================================================
