------------------------------ MODULE ForkJoin ------------------------------
(***************************************************************************)
(* What nested fork-join parallelism promises, whatever scheduler runs it: *)
(* the abstract specification of fork_join_scheduler::pardo                *)
(* (pbbslib/scheduler.h).                                                  *)
(*                                                                         *)
(* A program is a set of pardo call sites, each executed once.  A pardo    *)
(* runs two thunks, left and right; a thunk is the sequence of the pardos  *)
(* it calls, one after the other.                                          *)
(***************************************************************************)
EXTENDS Naturals, Sequences, Functions

CONSTANTS
  Pardos,    \* the pardo calls
  Programs   \* records: .left and .right in [Pardos -> Seq(Pardos)] are what each
             \* thunk of a pardo calls, .main is what the main thread calls

VARIABLES
  prog,         \* the program, chosen at the start
  left, right,  \* the state of each thunk of each pardo
  joined        \* the pardos that have returned

fjVars == <<prog, left, right, joined>>

ThunkState == {"idle", "running", "done"}

FJTypeOK ==
  /\ prog \in Programs
  /\ left \in [Pardos -> ThunkState]
  /\ right \in [Pardos -> ThunkState]
  /\ joined \subseteq Pardos

FJInit ==
  /\ prog \in Programs
  /\ left = [p \in Pardos |-> "idle"]
  /\ right = [p \in Pardos |-> "idle"]
  /\ joined = {}

-----------------------------------------------------------------------------
\* q is the next call of a thunk with this body: the calls before it returned.
IsNextCall(body, q) ==
  \E i \in DOMAIN body : body[i] = q /\ \A j \in 1..(i - 1) : body[j] \in joined

Reached(q) ==
  \/ IsNextCall(prog.main, q)
  \/ \E p \in Pardos : left[p] = "running" /\ IsNextCall(prog.left[p], q)
  \/ \E p \in Pardos : right[p] = "running" /\ IsNextCall(prog.right[p], q)

\* A call of pardo: left() runs at once, right() may from now on.
Fork(p) ==
  /\ left[p] = "idle"
  /\ Reached(p)
  /\ left' = [left EXCEPT ![p] = "running"]
  /\ UNCHANGED <<prog, right, joined>>

\* Some worker begins right(), at most once.
BeginRight(p) ==
  /\ left[p] # "idle" /\ right[p] = "idle"
  /\ right' = [right EXCEPT ![p] = "running"]
  /\ UNCHANGED <<prog, left, joined>>

EndLeft(p) ==
  /\ left[p] = "running" /\ Range(prog.left[p]) \subseteq joined
  /\ left' = [left EXCEPT ![p] = "done"]
  /\ UNCHANGED <<prog, right, joined>>

EndRight(p) ==
  /\ right[p] = "running" /\ Range(prog.right[p]) \subseteq joined
  /\ right' = [right EXCEPT ![p] = "done"]
  /\ UNCHANGED <<prog, left, joined>>

\* pardo returns once both thunks have.
Join(p) ==
  /\ left[p] = "done" /\ right[p] = "done" /\ p \notin joined
  /\ joined' = joined \cup {p}
  /\ UNCHANGED <<prog, left, right>>

FJNext ==
  \E p \in Pardos : Fork(p) \/ BeginRight(p) \/ EndLeft(p) \/ EndRight(p) \/ Join(p)

FJSpec == FJInit /\ [][FJNext]_fjVars
=============================================================================
