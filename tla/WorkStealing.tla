---------------------------- MODULE WorkStealing ----------------------------
(***************************************************************************)
(* The homegrown scheduler of pbbslib/scheduler.h: the Arora-Blumofe-      *)
(* Plaxton deque, the work-stealing loop of a worker and the fork-join     *)
(* layer (pardo), at the grain of one access to shared memory per step.    *)
(*                                                                         *)
(* Memory is x86-TSO, which the fences of the deque are written for: a     *)
(* worker's plain stores wait in its own FIFO buffer, its loads look there *)
(* first, and a fence or a compare-and-swap waits until it is empty.       *)
(*                                                                         *)
(* A job is the right thunk of a pardo, so it is named by its pardo.       *)
(***************************************************************************)
EXTENDS Integers, Sequences, FiniteSets, Functions, SequencesExt

CONSTANTS
  NumThreads,   \* num_threads
  Pardos, Programs, \* the programs, as in ForkJoin, with two more fields:
                \* .conservative, the parameter of pardo, and
                \* .locked, the thunks <<p, side>> that hold the program's one mutex
  NoPardo,      \* NULL, and the condition finished_flag of an idle worker
  QSize,        \* q_size
  TagMod        \* 2^32: age.tag wraps around

\* The thunks of a program, and the pardos that each of them calls.
Thunks == {<<NoPardo, "main">>} \cup (Pardos \X {"left", "right"})
Body(pr, thunk) ==
  IF thunk[2] = "main" THEN pr.main ELSE IF thunk[2] = "left" THEN pr.left[thunk[1]] ELSE pr.right[thunk[1]]

\* A pardo of the model is one execution of a call: it is called at one place.
CalledOnce(pr) ==
  \A s, t \in Thunks : \A i \in DOMAIN Body(pr, s), j \in DOMAIN Body(pr, t) :
    Body(pr, s)[i] = Body(pr, t)[j] => s = t /\ i = j

ASSUME ProgramAssumption ==
  \A pr \in Programs :
    /\ pr.left \in [Pardos -> Seq(Pardos)] /\ pr.right \in [Pardos -> Seq(Pardos)]
    /\ pr.main \in Seq(Pardos)
    /\ pr.conservative \in BOOLEAN /\ pr.locked \subseteq Pardos \X {"left", "right"}
    /\ CalledOnce(pr)

\* The theorems about every program ask for two things more.  Tags do not come
\* round again: there are more of them than pardos.
TagsLast == IsFiniteSet(Pardos) /\ Cardinality(Pardos) < TagMod

\* And a program with the mutex waits conservatively, and takes it in no thunk that
\* one holding it calls, directly or through others.
NoNestedLocks(pr) ==
  \E inside \in SUBSET (Thunks \ pr.locked) :
    \A t \in pr.locked \cup inside : \A i \in DOMAIN Body(pr, t), side \in {"left", "right"} :
      <<Body(pr, t)[i], side>> \in inside
LocksApart == \A pr \in Programs : pr.locked = {} \/ (pr.conservative /\ NoNestedLocks(pr))

ASSUME SchedulerAssumption ==
  /\ NumThreads \in Nat \ {0}
  /\ QSize \in Nat \ {0} /\ TagMod \in Nat \ {0}
  /\ NoPardo \notin Pardos

Workers == 0..(NumThreads - 1)       \* thread_id; 0 is the main thread
Deques == 0..(2 * NumThreads - 1)    \* num_deques: half of them are never used

VARIABLES
  age, bot, deq,        \* the deques
  right_done,           \* the flag of each pardo's frame
  finished_flag,
  buf,                  \* store buffers
  pc, stack,            \* each worker's control and call stack
  lb, old, job, victim, \* its local_bot, old_age, job (or result) and target
  mutex,                \* TRUE while a thunk of the program holds its lock
  prog,                 \* the program that runs
  left, right, joined   \* history: the state of ForkJoin

deqVars == <<age, bot, deq>>
memVars == <<age, bot, deq, right_done, finished_flag>>
regVars == <<lb, old, job, victim>>
fjVars == <<prog, left, right, joined>>
vars == <<memVars, buf, pc, stack, regVars, mutex, fjVars>>

FJ == INSTANCE ForkJoin

-----------------------------------------------------------------------------
(* Memory.  A store is the location and the value; slots are numbered.     *)

Age == [tag : 0..(TagMod - 1), top : 0..QSize]
Stores ==
  [loc : {"bot"}, val : 0..QSize] \cup [loc : {"age"}, val : Age]
    \cup [loc : {"slot"}, i : 0..(QSize - 1), val : Pardos]
    \cup [loc : {"right_done"}, val : Pardos] \cup [loc : {"finished_flag"}, val : {1}]
BotStore(b) == [loc |-> "bot", val |-> b]
AgeStore(a) == [loc |-> "age", val |-> a]
SlotStore(i, p) == [loc |-> "slot", i |-> i, val |-> p]
DoneStore(p) == [loc |-> "right_done", val |-> p]
FinishedStore == [loc |-> "finished_flag", val |-> 1]

Fenced(w) == buf[w] = <<>>

Store(w, stores) == buf' = [buf EXCEPT ![w] = @ \o stores]

\* A worker's load of a location of its own deque, or of a flag: the last of its
\* stores that wait, or else memory.
Pending(w, loc) == {i \in DOMAIN buf[w] : buf[w][i].loc = loc}
LastPending(w, loc) == buf[w][Max(Pending(w, loc))].val
LoadBot(w, d) == IF w = d /\ Pending(w, "bot") # {} THEN LastPending(w, "bot") ELSE bot[d]
LoadAge(w, d) == IF w = d /\ Pending(w, "age") # {} THEN LastPending(w, "age") ELSE age[d]
LoadDone(w, p) == right_done[p] \/ DoneStore(p) \in Range(buf[w])

\* The oldest store of a worker reaches memory.
Flush(w) ==
  /\ buf[w] # <<>>
  /\ LET s == Head(buf[w]) IN
     /\ bot' = IF s.loc = "bot" THEN [bot EXCEPT ![w] = s.val] ELSE bot
     /\ age' = IF s.loc = "age" THEN [age EXCEPT ![w] = s.val] ELSE age
     /\ deq' = IF s.loc = "slot" THEN [deq EXCEPT ![w][s.i] = s.val] ELSE deq
     /\ right_done' = IF s.loc = "right_done" THEN [right_done EXCEPT ![s.val] = TRUE] ELSE right_done
     /\ finished_flag' = IF s.loc = "finished_flag" THEN s.val ELSE finished_flag
  /\ buf' = [buf EXCEPT ![w] = Tail(@)]
  /\ UNCHANGED <<pc, stack, regVars, mutex, fjVars>>

-----------------------------------------------------------------------------
(* Control.  A frame is a thunk being run ("main", "left" or "right" by    *)
(* the pardo p itself, "job" when the worker took it from a deque), with   *)
(* the pardos it has still to call, or the loop start(finished) ("wait")   *)
(* of pardo p, or of an idle worker when p is NoPardo.                     *)

Frame(at, p, rest) == [at |-> at, p |-> p, rest |-> rest]
Top(w) == Last(stack[w])
Below(w) == Front(stack[w])
Push(w, f) == stack' = [stack EXCEPT ![w] = Append(@, f)]
Replace(w, f) == stack' = [stack EXCEPT ![w] = Append(Front(@), f)]
Goto(w, to) == pc' = [pc EXCEPT ![w] = to]
At(w, label) == pc[w] = label

\* The frame of a thunk that has made its next call.
AfterCall(f) == [f EXCEPT !.rest = Tail(@)]

NoAge == [tag |-> 0, top |-> 0]
ClearRegs(w) ==
  /\ lb' = [lb EXCEPT ![w] = 0] /\ old' = [old EXCEPT ![w] = NoAge]
  /\ job' = [job EXCEPT ![w] = NoPardo] /\ victim' = [victim EXCEPT ![w] = 0]

\* Where a worker goes to run a thunk: one that takes the mutex waits for it.
Begin(thunk) == IF thunk \in prog.locked THEN "lock" ELSE "run"

\* What finished() tells the loop on top of w's stack.
Finished(w) ==
  IF Top(w).p = NoPardo THEN finished_flag = 1 ELSE LoadDone(w, Top(w).p)

Init ==
  /\ FJ!FJInit
  /\ age = [d \in Deques |-> NoAge] /\ bot = [d \in Deques |-> 0]
  /\ deq = [d \in Deques |-> [i \in 0..(QSize - 1) |-> NoPardo]]
  /\ right_done = [p \in Pardos |-> FALSE]
  /\ finished_flag = 0
  /\ buf = [w \in Workers |-> <<>>]
  /\ pc = [w \in Workers |-> IF w = 0 THEN "run" ELSE "get_job"]
  /\ stack = [w \in Workers |->
                IF w = 0 THEN <<Frame("main", NoPardo, prog.main)>>
                         ELSE <<Frame("wait", NoPardo, <<>>)>>]
  /\ lb = [w \in Workers |-> 0] /\ old = [w \in Workers |-> NoAge]
  /\ job = [w \in Workers |-> NoPardo] /\ victim = [w \in Workers |-> 0]
  /\ mutex = FALSE

-----------------------------------------------------------------------------
(* pardo: spawn the right job, run left, then take the job back or wait.   *)

\* Mutants: the deque counts as full one job late, and one job early.
PardoLate(w) ==
  /\ At(w, "run") /\ Top(w).rest # <<>>
  /\ LET p == Head(Top(w).rest)
         b == LoadBot(w, w)
         full == b = QSize
     IN /\ stack' = [stack EXCEPT ![w] =
             Append(Append(Front(@), AfterCall(Last(@))),
                    Frame("left", p, prog.left[p]))]
        /\ Store(w, <<SlotStore(b, p)>>
                      \o IF full THEN <<>> ELSE <<BotStore(b + 1)>>)
        /\ left' = [left EXCEPT ![p] = "running"]
        /\ Goto(w, IF full THEN "aborted" ELSE "pushed")
  /\ UNCHANGED <<memVars, regVars, mutex, prog, right, joined>>

\* The next pardo of the running thunk: spawn, i.e. push_bottom up to its fence.
\* A full deque aborts the program, after the job was stored.
Pardo(w) ==
  /\ At(w, "run") /\ Top(w).rest # <<>>
  /\ LET p == Head(Top(w).rest)
         b == LoadBot(w, w)
         full == b + 1 = QSize
     IN /\ stack' = [stack EXCEPT ![w] =
             Append(Append(Front(@), AfterCall(Last(@))),
                    Frame("left", p, prog.left[p]))]
        /\ Store(w, <<SlotStore(b, p)>>
                      \o IF full THEN <<>> ELSE <<BotStore(b + 1)>>)
        /\ left' = [left EXCEPT ![p] = "running"]
        /\ Goto(w, IF full THEN "aborted" ELSE "pushed")
  /\ UNCHANGED <<memVars, regVars, mutex, prog, right, joined>>

\* The fence of push_bottom, and the call of left().
CallLeft(w) ==
  /\ At(w, "pushed") /\ Fenced(w)
  /\ Goto(w, Begin(<<Top(w).p, "left">>))
  /\ UNCHANGED <<memVars, buf, stack, regVars, mutex, fjVars>>

\* A thunk of the program that holds the mutex while it runs takes it first.
Lock(w) ==
  /\ At(w, "lock") /\ ~mutex
  /\ mutex' = TRUE
  /\ Goto(w, "run")
  /\ UNCHANGED <<memVars, buf, stack, regVars, fjVars>>

Unlock(thunk) == mutex' = IF thunk \in prog.locked THEN FALSE ELSE mutex

\* left() returns; the worker goes on to try_pop.
ReturnLeft(w) ==
  /\ At(w, "run") /\ Top(w).at = "left" /\ Top(w).rest = <<>>
  /\ left' = [left EXCEPT ![Top(w).p] = "done"]
  /\ Unlock(<<Top(w).p, "left">>)
  /\ Goto(w, "pop")
  /\ UNCHANGED <<memVars, buf, stack, regVars, prog, right, joined>>

\* Mutant: the conservative wait looks for jobs too.
AfterPopWorks(w) ==
  /\ At(w, "popped") /\ Top(w).at = "left"
  /\ LET p == Top(w).p IN
     \/ /\ job[w] # NoPardo
        /\ Replace(w, Frame("right", p, prog.right[p]))
        /\ right' = [right EXCEPT ![p] = "running"]
        /\ Goto(w, Begin(<<p, "right">>))
     \/ /\ job[w] = NoPardo
        /\ Replace(w, Frame("wait", p, <<>>))
        /\ Goto(w, "get_job")
        /\ UNCHANGED right
  /\ ClearRegs(w)
  /\ UNCHANGED <<memVars, buf, mutex, prog, left, joined>>

\* What pardo does with the result of try_pop: run right() itself, or wait.
AfterPop(w) ==
  /\ At(w, "popped") /\ Top(w).at = "left"
  /\ LET p == Top(w).p IN
     \/ /\ job[w] # NoPardo
        /\ Replace(w, Frame("right", p, prog.right[p]))
        /\ right' = [right EXCEPT ![p] = "running"]
        /\ Goto(w, Begin(<<p, "right">>))
     \/ /\ job[w] = NoPardo
        /\ Replace(w, Frame("wait", p, <<>>))
        /\ Goto(w, IF prog.conservative THEN "spin" ELSE "get_job")
        /\ UNCHANGED right
  /\ ClearRegs(w)
  /\ UNCHANGED <<memVars, buf, mutex, prog, left, joined>>

\* right(), called by pardo itself, returns.
ReturnRight(w) ==
  /\ At(w, "run") /\ Top(w).at = "right" /\ Top(w).rest = <<>>
  /\ right' = [right EXCEPT ![Top(w).p] = "done"]
  /\ Unlock(<<Top(w).p, "right">>)
  /\ Goto(w, "return")
  /\ UNCHANGED <<memVars, buf, stack, regVars, prog, left, joined>>

\* Mutant: the flag is set where only the thief sees it.
ReturnJobSilently(w) ==
  /\ At(w, "run") /\ Top(w).at = "job" /\ Top(w).rest = <<>>
  /\ right' = [right EXCEPT ![Top(w).p] = "done"]
  /\ Unlock(<<Top(w).p, "right">>)
  /\ stack' = [stack EXCEPT ![w] = Front(@)]
  /\ Goto(w, "get_job")
  /\ UNCHANGED <<memVars, buf, regVars, prog, left, joined>>

\* The job lambda: right() returned, so set right_done; back to the loop.
ReturnJob(w) ==
  /\ At(w, "run") /\ Top(w).at = "job" /\ Top(w).rest = <<>>
  /\ right' = [right EXCEPT ![Top(w).p] = "done"]
  /\ Unlock(<<Top(w).p, "right">>)
  /\ Store(w, <<DoneStore(Top(w).p)>>)
  /\ stack' = [stack EXCEPT ![w] = Front(@)]
  /\ Goto(w, "get_job")
  /\ UNCHANGED <<memVars, regVars, prog, left, joined>>

\* pardo returns to the thunk that called it, and its frame is gone.
ReturnPardo(w) ==
  /\ At(w, "return")
  /\ joined' = joined \cup {Top(w).p}
  /\ stack' = [stack EXCEPT ![w] = Front(@)]
  /\ Goto(w, "run")
  /\ UNCHANGED <<memVars, buf, regVars, mutex, prog, left, right>>

\* The conservative wait.
Spin(w) ==
  /\ At(w, "spin") /\ Finished(w)
  /\ Goto(w, "return")
  /\ UNCHANGED <<memVars, buf, stack, regVars, mutex, fjVars>>

-----------------------------------------------------------------------------
(* pop_bottom, called by pardo (a "left" frame is on top) or by get_job.   *)

PopBegin(w) ==
  /\ At(w, "pop")
  /\ LET b == LoadBot(w, w) IN
     \/ /\ b = 0
        /\ Goto(w, "popped")
        /\ UNCHANGED <<buf, lb>>
     \/ /\ b # 0
        /\ lb' = [lb EXCEPT ![w] = b - 1]
        /\ Store(w, <<BotStore(b - 1)>>)
        /\ Goto(w, "pop_load")
  /\ UNCHANGED <<memVars, stack, old, job, victim, mutex, fjVars>>

\* Mutant: the tag stays.
SameTag(a) == [a EXCEPT !.top = 0]

NextTag(a) == [tag |-> (a.tag + 1) % TagMod, top |-> 0]

\* Mutant: bot is not reset when the last job is gone.
NoResetPopLoad(w) ==
  /\ At(w, "pop_load") /\ Fenced(w)
  /\ LET a == LoadAge(w, w) IN
     /\ job' = [job EXCEPT ![w] = IF lb[w] < a.top THEN NoPardo ELSE deq[w][lb[w]]]
     /\ old' = [old EXCEPT ![w] = IF lb[w] = a.top THEN a ELSE @]
     /\ Store(w, IF lb[w] < a.top THEN <<AgeStore(NextTag(a))>> ELSE <<>>)
     /\ Goto(w, CASE lb[w] > a.top -> "popped"
                   [] lb[w] = a.top -> "pop_cas" [] OTHER -> "pop_fence")
  /\ UNCHANGED <<memVars, stack, lb, victim, mutex, fjVars>>

\* The fence, the loads of the job and of age, and the comparison.
PopLoad(w) ==
  /\ At(w, "pop_load") /\ Fenced(w)
  /\ LET a == LoadAge(w, w) IN
     /\ job' = [job EXCEPT ![w] = IF lb[w] < a.top THEN NoPardo ELSE deq[w][lb[w]]]
     /\ \/ /\ lb[w] > a.top
           /\ Goto(w, "popped")
           /\ UNCHANGED <<buf, old>>
        \/ /\ lb[w] = a.top
           /\ old' = [old EXCEPT ![w] = a]
           /\ Store(w, <<BotStore(0)>>)
           /\ Goto(w, "pop_cas")
        \/ /\ lb[w] < a.top
           /\ Store(w, <<BotStore(0), AgeStore(NextTag(a))>>)
           /\ Goto(w, "pop_fence")
           /\ UNCHANGED old
  /\ UNCHANGED <<memVars, stack, lb, victim, mutex, fjVars>>

\* The race for the last job.
PopCas(w) ==
  /\ At(w, "pop_cas") /\ Fenced(w)
  /\ \/ /\ age[w] = old[w]
        /\ age' = [age EXCEPT ![w] = NextTag(old[w])]
        /\ UNCHANGED <<buf, job>>
     \/ /\ age[w] # old[w]
        /\ Store(w, <<AgeStore(NextTag(old[w]))>>)
        /\ job' = [job EXCEPT ![w] = NoPardo]
        /\ UNCHANGED age
  /\ Goto(w, "pop_fence")
  /\ UNCHANGED <<bot, deq, right_done, finished_flag, stack, lb, old, victim, mutex, fjVars>>

PopFence(w) ==
  /\ At(w, "pop_fence") /\ Fenced(w)
  /\ Goto(w, "popped")
  /\ UNCHANGED <<memVars, buf, stack, regVars, mutex, fjVars>>

-----------------------------------------------------------------------------
(* start(finished): look for jobs until finished().                        *)

\* The loop ends: wait returns to pardo, or an idle worker's thread ends.
LeaveLoop(w) == Goto(w, IF Top(w).p = NoPardo THEN "exited" ELSE "return")

\* get_job on entry: finished(), else try_pop.
GetJob(w) ==
  /\ At(w, "get_job")
  /\ IF Finished(w) THEN LeaveLoop(w) ELSE Goto(w, "pop")
  /\ UNCHANGED <<memVars, buf, stack, regVars, mutex, fjVars>>

RunJob(w, p) ==
  /\ Push(w, Frame("job", p, prog.right[p]))
  /\ right' = [right EXCEPT ![p] = "running"]
  /\ Goto(w, Begin(<<p, "right">>))

\* get_job with the result of try_pop.
JobPopped(w) ==
  /\ At(w, "popped") /\ Top(w).at = "wait"
  /\ \/ /\ job[w] # NoPardo
        /\ RunJob(w, job[w])
     \/ /\ job[w] = NoPardo
        /\ Goto(w, "steal")
        /\ UNCHANGED <<stack, right>>
  /\ ClearRegs(w)
  /\ UNCHANGED <<memVars, buf, mutex, prog, left, joined>>

\* The steal loop: finished(), else try_steal.
StealCheck(w) ==
  /\ At(w, "steal")
  /\ IF Finished(w) THEN LeaveLoop(w) ELSE Goto(w, "steal_age")
  /\ UNCHANGED <<memVars, buf, stack, regVars, mutex, fjVars>>

\* pop_top, of the deque d that the hash picks.
StealAge(w) ==
  /\ At(w, "steal_age")
  /\ \E d \in Deques :
        /\ victim' = [victim EXCEPT ![w] = d]
        /\ old' = [old EXCEPT ![w] = LoadAge(w, d)]
  /\ Goto(w, "steal_bot")
  /\ UNCHANGED <<memVars, buf, stack, lb, job, mutex, fjVars>>

StealBot(w) ==
  /\ At(w, "steal_bot")
  /\ IF LoadBot(w, victim[w]) <= old[w].top
       THEN ClearRegs(w) /\ Goto(w, "steal")
       ELSE UNCHANGED regVars /\ Goto(w, "steal_job")
  /\ UNCHANGED <<memVars, buf, stack, mutex, fjVars>>

StealJob(w) ==
  /\ At(w, "steal_job")
  /\ job' = [job EXCEPT ![w] = deq[victim[w]][old[w].top]]
  /\ Goto(w, "steal_cas")
  /\ UNCHANGED <<memVars, buf, stack, lb, old, victim, mutex, fjVars>>

StealCas(w) ==
  /\ At(w, "steal_cas") /\ Fenced(w)
  /\ \/ /\ age[victim[w]] = old[w]
        /\ age' = [age EXCEPT ![victim[w]].top = @ + 1]
        /\ RunJob(w, job[w])
     \/ /\ age[victim[w]] # old[w]
        /\ Goto(w, "steal")
        /\ UNCHANGED <<age, stack, right>>
  /\ ClearRegs(w)
  /\ UNCHANGED <<bot, deq, right_done, finished_flag, buf, mutex, prog, left, joined>>

-----------------------------------------------------------------------------
(* The end of the program: ~scheduler, in the main thread.                 *)

Destroy(w) ==
  /\ At(w, "run") /\ Top(w).at = "main" /\ Top(w).rest = <<>>
  /\ Store(w, <<FinishedStore>>)
  /\ Goto(w, "join")
  /\ UNCHANGED <<memVars, stack, regVars, mutex, fjVars>>

JoinThreads(w) ==
  /\ At(w, "join") /\ \A x \in Workers \ {w} : At(x, "exited")
  /\ Goto(w, "exited")
  /\ UNCHANGED <<memVars, buf, stack, regVars, mutex, fjVars>>

Exited == \A w \in Workers : At(w, "exited")
Aborted == \E w \in Workers : At(w, "aborted")

\* The process is gone.
Terminated == (Exited \/ Aborted) /\ UNCHANGED vars

Step(w) ==
  \/ Pardo(w) \/ CallLeft(w) \/ Lock(w) \/ ReturnLeft(w) \/ AfterPop(w)
  \/ ReturnRight(w) \/ ReturnJob(w) \/ ReturnPardo(w) \/ Spin(w)
  \/ PopBegin(w) \/ PopLoad(w) \/ PopCas(w) \/ PopFence(w)
  \/ GetJob(w) \/ JobPopped(w) \/ StealCheck(w)
  \/ StealAge(w) \/ StealBot(w) \/ StealJob(w) \/ StealCas(w)
  \/ Destroy(w) \/ JoinThreads(w)

Next ==
  \/ ~Aborted /\ \E w \in Workers : Step(w) \/ Flush(w)
  \/ Terminated

\* Threads are preempted but never stopped, and store buffers drain.
Fairness == \A w \in Workers : WF_vars(Step(w)) /\ WF_vars(Flush(w))

Spec == Init /\ [][Next]_vars
FairSpec == Spec /\ Fairness

-----------------------------------------------------------------------------
(* Properties.                                                             *)

Frames == {"main", "left", "right", "job", "wait"}
Labels ==
  {"run", "lock", "pushed", "return", "spin", "pop", "pop_load", "pop_cas",
   "pop_fence", "popped", "get_job", "steal", "steal_age", "steal_bot",
   "steal_job", "steal_cas", "join", "exited", "aborted"}

\* Every variable has its type, and every location the width the code gives it.
TypeOK ==
  /\ age \in [Deques -> Age] /\ bot \in [Deques -> 0..QSize]
  /\ deq \in [Deques -> [0..(QSize - 1) -> Pardos \cup {NoPardo}]]
  /\ right_done \in [Pardos -> BOOLEAN] /\ finished_flag \in {0, 1}
  /\ buf \in [Workers -> Seq(Stores)]
  /\ pc \in [Workers -> Labels]
  /\ stack \in [Workers -> Seq([at : Frames, p : Pardos \cup {NoPardo}, rest : Seq(Pardos)])]
  /\ lb \in [Workers -> 0..QSize] /\ old \in [Workers -> Age]
  /\ job \in [Workers -> Pardos \cup {NoPardo}] /\ victim \in [Workers -> Deques]
  /\ mutex \in BOOLEAN
  /\ FJ!FJTypeOK

\* pardo never looks at the job that try_pop gives it back: it takes any job for
\* its own and calls right() (l.362-363).  So the pop after left() must give the
\* pardo's own job, still nobody's, or nothing when a thief has begun it.
PopAgrees ==
  \A w \in Workers : At(w, "popped") /\ Top(w).at = "left" =>
    LET p == Top(w).p IN
    IF job[w] = NoPardo THEN right[p] # "idle" ELSE job[w] = p /\ right[p] = "idle"

\* A worker that starts looking for jobs has nothing left in its own deque: the
\* try_pop of get_job (l.297) never takes a job of a pardo further down its stack.
OwnDequeEmpty ==
  \A w \in Workers : At(w, "popped") /\ Top(w).at = "wait" => job[w] = NoPardo

\* A job and its right_done flag are locals of pardo's frame (l.355-356): while a
\* worker runs the job, or its store to the flag is on its way, pardo is waiting.
FrameOutlivesJob ==
  /\ \A w \in Workers : \A f \in Range(stack[w]) :
       f.at = "job" => \E x \in Workers : \E g \in Range(stack[x]) :
                         g.at \in {"left", "wait"} /\ g.p = f.p
  /\ \A w \in Workers : \A s \in Range(buf[w]) : s.loc = "right_done" => s.val \notin joined

\* A thief whose compare-and-swap is about to succeed holds a job that was
\* pushed and that nobody has taken, however long ago it read age and the slot.
StealIsFresh ==
  \A w \in Workers : At(w, "steal_cas") /\ age[victim[w]] = old[w] =>
    /\ job[w] \in Pardos
    /\ left[job[w]] # "idle" /\ right[job[w]] = "idle"

\* The pardos a worker is inside of, since it last began to look for jobs.
OpenLefts(w) ==
  LET waits == {i \in DOMAIN stack[w] : stack[w][i].at = "wait"}
      base == IF waits = {} THEN 0 ELSE Max(waits)
  IN Cardinality({i \in DOMAIN stack[w] : i > base /\ stack[w][i].at = "left"})

\* The bottom of a worker's deque never exceeds the number of pardos open on its
\* stack: slots are given back, also those of the jobs that thieves took, so the
\* deque overflows only at a nesting depth of q_size - 1.
DequeBoundedByNesting ==
  \A w \in Workers : LoadBot(w, w) <= OpenLefts(w)

\* push_bottom aborts only a program whose pardos nest q_size deep in one job.
AbortsOnlyWhenTooDeep ==
  \A w \in Workers : At(w, "aborted") => OpenLefts(w) >= QSize

\* With the conservative wait a worker never comes to wait for a lock that a
\* thunk further down its own stack holds (the comment at l.226-232).
NeverWaitsForItself ==
  \A w \in Workers : At(w, "lock") => \A f \in Range(Below(w)) :
    /\ f.at = "left" => <<f.p, "left">> \notin prog.locked
    /\ f.at \in {"right", "job"} => <<f.p, "right">> \notin prog.locked

\* The deque: what a worker pops is what pardo takes it for, its bottom follows the
\* nesting, and only nesting fills it.
DequesRight == PopAgrees /\ OwnDequeEmpty /\ DequeBoundedByNesting /\ AbortsOnlyWhenTooDeep

\* A job that a thief takes is fresh, the frame it lives in outlives it, and with the
\* conservative wait running it never waits for a lock of the worker's own stack.
JobsRight == StealIsFresh /\ FrameOutlivesJob /\ NeverWaitsForItself

\* The scheduler implements fork-join: each thunk runs once, after the calls
\* before it returned, and pardo returns when both its thunks have.
ImplementsForkJoin == FJ!FJSpec

\* Every program ends and every worker's thread is joined, unless the deque overflows.
Termination == <>(Exited \/ Aborted)
=============================================================================
