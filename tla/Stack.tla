-------------------------------- MODULE Stack --------------------------------
(***************************************************************************)
(* What a linearizable stack promises: every push and every pop takes      *)
(* effect at one instant between its call and its return.  The abstract    *)
(* specification of pbbslib/concurrent_stack.h.                            *)
(***************************************************************************)
EXTENDS Sequences

CONSTANTS
  Threads, Values,
  Nothing        \* std::nullopt

VARIABLES
  contents,      \* the values, top first
  call,          \* each thread's call: "none", "push", "pop" or "done"
  val            \* the argument of its push, then the result of its pop

stackVars == <<contents, call, val>>

StackInit ==
  /\ contents \in Seq(Values)
  /\ call = [t \in Threads |-> "none"]
  /\ val = [t \in Threads |-> Nothing]

Invoke(t) ==
  /\ call[t] = "none"
  /\ \/ \E v \in Values : call' = [call EXCEPT ![t] = "push"] /\ val' = [val EXCEPT ![t] = v]
     \/ call' = [call EXCEPT ![t] = "pop"] /\ UNCHANGED val
  /\ UNCHANGED contents

Push(t) ==
  /\ call[t] = "push"
  /\ contents' = <<val[t]>> \o contents
  /\ call' = [call EXCEPT ![t] = "done"]
  /\ val' = [val EXCEPT ![t] = Nothing]

Pop(t) ==
  /\ call[t] = "pop"
  /\ \/ /\ contents = <<>>
        /\ UNCHANGED <<contents, val>>
     \/ /\ contents # <<>>
        /\ val' = [val EXCEPT ![t] = Head(contents)]
        /\ contents' = Tail(contents)
  /\ call' = [call EXCEPT ![t] = "done"]

Respond(t) ==
  /\ call[t] = "done"
  /\ call' = [call EXCEPT ![t] = "none"]
  /\ val' = [val EXCEPT ![t] = Nothing]
  /\ UNCHANGED contents

\* clear(), which no call overlaps.
Clear ==
  /\ \A t \in Threads : call[t] = "none"
  /\ contents' = <<>>
  /\ UNCHANGED <<call, val>>

StackNext == Clear \/ \E t \in Threads : Invoke(t) \/ Push(t) \/ Pop(t) \/ Respond(t)

StackSpec == StackInit /\ [][StackNext]_stackVars
=============================================================================
