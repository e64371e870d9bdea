--------------------------------- MODULE TPool ---------------------------------
(***************************************************************************)
(* utils::tpool (tpool.h): a pool of threads that take tasks from a shared *)
(* queue.  submit() returns a future; submitTasksAndWait() submits several *)
(* tasks and waits for their futures, and a task may itself call it.       *)
(*                                                                         *)
(* The owner of the pool submits root tasks, waits for futures and         *)
(* destroys the pool.  The mutex of the queue only covers a push or a pop, *)
(* which are one action each.                                              *)
(***************************************************************************)
EXTENDS Integers, Sequences, SequencesExt

CONSTANTS Workers,    \* the threads of the pool
          Tasks,
          Roots,      \* the tasks the owner of the pool submits
          Children,   \* Children[t]: what t passes to submitTasksAndWait
          Throws,     \* the tasks that end with an exception of their own
          NoTask

ASSUME TasksAssumption == /\ Roots \subseteq Tasks /\ Throws \subseteq Tasks
                          /\ NoTask \notin Tasks
                          /\ Children \in [Tasks -> Seq(Tasks)]

VARIABLES done_, taskq_,
          wpc,        \* wpc[w]: "check" reads done_, "get" calls try_get, "run", "exited"
          cur,        \* cur[w]: the task worker w runs
          future,     \* future[t]: "none" before submission, "pending", then the outcome
          submitted,  \* history: tasks in the order of add_task
          started,    \* history: tasks in the order they were taken
          late,       \* history: number of tasks each worker took after shutdown
          mpc,        \* the owner: "open", "waiting", "joining" in the dtor, "destroyed"
          awaited     \* the task whose future the owner waits for

ownerVars == <<mpc, awaited>>
vars == <<done_, taskq_, wpc, cur, future, submitted, started, late, ownerVars>>

Ready(t) == future[t] \in {"value", "exception"}

Init == /\ done_ = FALSE
        /\ taskq_ = <<>>
        /\ wpc = [w \in Workers |-> "check"]
        /\ cur = [w \in Workers |-> NoTask]
        /\ future = [t \in Tasks |-> "none"]
        /\ submitted = <<>> /\ started = <<>>
        /\ late = [w \in Workers |-> 0]
        /\ mpc = "open" /\ awaited = NoTask

-----------------------------------------------------------------------------
submit(t) == /\ future[t] = "none"
             /\ future' = [future EXCEPT ![t] = "pending"]
             /\ taskq_' = Append(taskq_, t)
             /\ submitted' = Append(submitted, t)

(* The owner.                                                              *)
OwnerSubmits(t) == /\ mpc = "open" /\ t \in Roots
                   /\ submit(t)
                   /\ UNCHANGED <<done_, wpc, cur, started, late, ownerVars>>

\* future::get blocks until the task has ended, with whichever outcome.
OwnerWaits(t) == /\ mpc = "open" /\ t \in Roots /\ future[t] # "none"
                 /\ mpc' = "waiting" /\ awaited' = t
                 /\ UNCHANGED <<done_, taskq_, wpc, cur, future, submitted, started, late>>

OwnerResumes == /\ mpc = "waiting" /\ Ready(awaited)
                /\ mpc' = "open" /\ awaited' = NoTask
                /\ UNCHANGED <<done_, taskq_, wpc, cur, future, submitted, started, late>>

Destroy_NoFlag == /\ mpc = "open"          \* mutant
                  /\ mpc' = "joining"
                  /\ UNCHANGED <<done_, taskq_, wpc, cur, future, submitted, started, late, awaited>>

\* ~tpool sets the flag ...
Destroy == /\ mpc = "open"
           /\ done_' = TRUE
           /\ mpc' = "joining"
           /\ UNCHANGED <<taskq_, wpc, cur, future, submitted, started, late, awaited>>

\* ... joins every thread, and drops the tasks still in the queue.  A task is
\* deleted through a base without virtual destructor, which leaves the
\* packaged_task inside undestroyed: its future is never told.
Joined == /\ mpc = "joining" /\ \A w \in Workers : wpc[w] = "exited"
          /\ mpc' = "destroyed"
          /\ taskq_' = <<>>
          /\ UNCHANGED <<done_, wpc, cur, future, submitted, started, late, awaited>>

-----------------------------------------------------------------------------
(* A worker.                                                               *)
CheckDone(w) == /\ wpc[w] = "check"
                /\ wpc' = [wpc EXCEPT ![w] = IF done_ THEN "exited" ELSE "get"]
                /\ UNCHANGED <<done_, taskq_, cur, future, submitted, started, late, ownerVars>>

\* try_get finds the queue empty, and the worker yields.
Yield(w) == /\ wpc[w] = "get" /\ taskq_ = <<>>
            /\ wpc' = [wpc EXCEPT ![w] = "check"]
            /\ UNCHANGED <<done_, taskq_, cur, future, submitted, started, late, ownerVars>>

Take_Newest(w) == /\ wpc[w] = "get" /\ taskq_ # <<>>          \* mutant
                  /\ cur' = [cur EXCEPT ![w] = Last(taskq_)]
                  /\ started' = Append(started, Last(taskq_))
                  /\ taskq_' = Front(taskq_)
                  /\ late' = [late EXCEPT ![w] = @ + IF done_ THEN 1 ELSE 0]
                  /\ wpc' = [wpc EXCEPT ![w] = "run"]
                  /\ UNCHANGED <<done_, future, submitted, ownerVars>>

\* try_get takes the oldest task; done_ is not looked at again.
Take(w) == /\ wpc[w] = "get" /\ taskq_ # <<>>
           /\ cur' = [cur EXCEPT ![w] = Head(taskq_)]
           /\ started' = Append(started, Head(taskq_))
           /\ taskq_' = Tail(taskq_)
           /\ late' = [late EXCEPT ![w] = @ + IF done_ THEN 1 ELSE 0]
           /\ wpc' = [wpc EXCEPT ![w] = "run"]
           /\ UNCHANGED <<done_, future, submitted, ownerVars>>

\* submitTasksReturnFuts submits the tasks of a tuple from left to right.
SubmitChild(w) ==
  /\ wpc[w] = "run"
  /\ \E i \in DOMAIN Children[cur[w]] :
        /\ \A j \in 1 .. i - 1 : future[Children[cur[w]][j]] # "none"
        /\ submit(Children[cur[w]][i])
  /\ UNCHANGED <<done_, wpc, cur, started, late, ownerVars>>

Outcomes_LastOnly(w) ==          \* mutant: only the last future is read
  LET kids == Children[cur[w]]
  IN  CASE kids = <<>> -> {"value"}
        [] OTHER -> {future[Last(kids)]} \ {"none", "pending"}

Outcomes_ValuesOnly(w) ==        \* mutant: an exception does not end the wait
  IF \A i \in DOMAIN Children[cur[w]] : future[Children[cur[w]][i]] = "value" THEN {"value"} ELSE {}

\* How waitForFutures can end for the task of w: it gets the futures from left
\* to right, and the first exception it meets leaves the later ones unread.
Outcomes(w) ==
  LET kids == Children[cur[w]]
      valued(n) == \A i \in 1 .. n : future[kids[i]] = "value"
      failed(n) == valued(n - 1) /\ future[kids[n]] = "exception"
  IN  {o \in {"value", "exception"} :
         \/ o = "value" /\ valued(Len(kids))
         \/ o = "exception" /\ \E n \in DOMAIN kids : failed(n)}

AllSubmitted(w) == \A i \in DOMAIN Children[cur[w]] : future[Children[cur[w]][i]] # "none"

Finish_Uncaught(w) ==          \* mutant: an exception reaches thread_func
  /\ wpc[w] = "run" /\ AllSubmitted(w)
  /\ \E o \in Outcomes(w) :
        LET fails == o = "exception" \/ cur[w] \in Throws
        IN  /\ done_' = (done_ \/ fails)
            /\ future' = IF fails THEN future ELSE [future EXCEPT ![cur[w]] = "value"]
  /\ cur' = [cur EXCEPT ![w] = NoTask]
  /\ wpc' = [wpc EXCEPT ![w] = "check"]
  /\ UNCHANGED <<taskq_, submitted, started, late, ownerVars>>

Finish_Drains(w) ==            \* mutant: the loop over done_ is around a loop over tasks
  /\ wpc[w] = "run" /\ AllSubmitted(w)
  /\ \E o \in Outcomes(w) :
        future' = [future EXCEPT ![cur[w]] = IF cur[w] \in Throws THEN "exception" ELSE o]
  /\ cur' = [cur EXCEPT ![w] = NoTask]
  /\ wpc' = [wpc EXCEPT ![w] = "get"]
  /\ UNCHANGED <<done_, taskq_, submitted, started, late, ownerVars>>

\* The packaged_task puts the outcome, value or exception, into the future, so
\* the worker's own catch is not reached.
Finish(w) ==
  /\ wpc[w] = "run" /\ AllSubmitted(w)
  /\ \E o \in Outcomes(w) :
        future' = [future EXCEPT ![cur[w]] = IF cur[w] \in Throws THEN "exception" ELSE o]
  /\ cur' = [cur EXCEPT ![w] = NoTask]
  /\ wpc' = [wpc EXCEPT ![w] = "check"]
  /\ UNCHANGED <<done_, taskq_, submitted, started, late, ownerVars>>

Worker(w) == CheckDone(w) \/ Yield(w) \/ Take(w) \/ SubmitChild(w) \/ Finish(w)

Next == \/ \E t \in Roots : OwnerSubmits(t) \/ OwnerWaits(t)
        \/ OwnerResumes \/ Destroy \/ Joined
        \/ \E w \in Workers : Worker(w)

Spec == Init /\ [][Next]_vars

\* Threads run, and the owner's waits return when they can.  The owner need
\* not submit anything or destroy the pool.
FairSpec == /\ Spec
            /\ \A w \in Workers : WF_vars(Worker(w))
            /\ WF_vars(OwnerResumes) /\ WF_vars(Joined)

-----------------------------------------------------------------------------
\* Types; what a worker's place says about its task; threads end only when the
\* pool is being destroyed, and it is only destroyed when all have ended.
TypeOK ==
  /\ done_ \in BOOLEAN
  /\ taskq_ \in Seq(Tasks) /\ submitted \in Seq(Tasks) /\ started \in Seq(Tasks)
  /\ future \in [Tasks -> {"none", "pending", "value", "exception"}]
  /\ wpc \in [Workers -> {"check", "get", "run", "exited"}]
  /\ cur \in [Workers -> Tasks \cup {NoTask}]
  /\ late \in [Workers -> Nat]
  /\ \A w \in Workers : /\ cur[w] \in Tasks <=> wpc[w] = "run"
                        /\ wpc[w] = "exited" => done_
                        /\ mpc = "destroyed" => wpc[w] = "exited"
  /\ mpc \in {"open", "waiting", "joining", "destroyed"}
  /\ mpc = "waiting" <=> awaited \in Roots

\* Tasks are started in the order they were submitted in, by whichever worker,
\* each once.
OldestFirst == /\ IsPrefix(started, submitted)
               /\ mpc # "destroyed" => submitted = started \o taskq_

\* The tasks being run.
Held == {cur[w] : w \in Workers} \ {NoTask}

\* A submitted task is in the queue once, or with exactly one worker, or has
\* its outcome, whatever tasks throw; only the destructor drops tasks.
Accounted ==
  /\ IsInjective(taskq_)
  /\ \A v, w \in Workers : cur[v] = cur[w] /\ v # w => cur[v] = NoTask
  /\ Range(taskq_) \cap Held = {}
  /\ \A t \in Range(taskq_) \cup Held : future[t] = "pending"
  /\ mpc # "destroyed" =>
        \A t \in Tasks : future[t] = "pending" => t \in Range(taskq_) \cup Held

\* submitTasksAndWait returns normally only if every task it submitted did.
NormalReturnMeansAllRan ==
  \A t \in Tasks : future[t] = "value" =>
     \A i \in DOMAIN Children[t] : future[Children[t][i]] = "value"

\* Once the destructor has set done_, each worker takes at most one more task.
AtMostOneLateTask == \A w \in Workers : late[w] <= 1

\* Worker w sits in waitForFutures and cannot go on yet.
Blocked(w) == wpc[w] = "run" /\ AllSubmitted(w) /\ Outcomes(w) = {}

\* Every submitted task gets its outcome while the pool is in use, except when
\* all workers wait for tasks nobody is left to run.
FuturesBecomeReady ==
  \A t \in Tasks : future[t] = "pending" ~>
     (Ready(t) \/ mpc \in {"joining", "destroyed"} \/ [](\A w \in Workers : Blocked(w)))

\* Destruction returns, except when a task waits for one that was dropped.
DestructionReturns ==
  mpc = "joining" ~>
     (mpc = "destroyed" \/ [](/\ \E w \in Workers : Blocked(w)
                              /\ \A w \in Workers : Blocked(w) \/ wpc[w] = "exited"))
================================================================================
