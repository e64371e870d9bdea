----------------------------- MODULE TypeUtilsProofs -----------------------------
(***************************************************************************)
(* Theorems about the library type-utils and the streams built on it.      *)
(*                                                                         *)
(* TPool, for every number of workers and every finite or infinite set of  *)
(* tasks, however they submit each other and throw.  TypeUtils, for lists  *)
(* and tuples of every length.  Occi, for a query of any number of rows    *)
(* and columns and batches of every size, however its source and its sink  *)
(* are constructed.                                                        *)
(***************************************************************************)
EXTENDS TPool, Occi, SeqLemmas, TLAPS

-----------------------------------------------------------------------------
(* The thread pool.                                                        *)

(***************************************************************************)
(* A submission by the owner or by a running task.                         *)
(***************************************************************************)
Submission(t) == /\ submit(t) /\ mpc # "destroyed"
                 /\ UNCHANGED <<done_, wpc, cur, started, late, mpc, awaited>>

\* A step is a submission, a step of the owner, or a step of a worker.
LEMMA StepCases ==
  ASSUME TypeOK, [Next]_vars
  PROVE  \/ UNCHANGED vars
         \/ \E t \in Tasks : Submission(t)
         \/ \E t \in Roots : OwnerWaits(t)
         \/ OwnerResumes \/ Destroy \/ Joined
         \/ \E w \in Workers : CheckDone(w) \/ Yield(w) \/ Take(w) \/ Finish(w)
<1>1. ASSUME NEW t \in Roots, OwnerSubmits(t) PROVE \E u \in Tasks : Submission(u)
  BY <1>1, TasksAssumption DEF OwnerSubmits, Submission, ownerVars
<1>2. ASSUME NEW w \in Workers, SubmitChild(w) PROVE \E u \in Tasks : Submission(u)
  <2>1. cur[w] \in Tasks /\ mpc # "destroyed"
    BY <1>2 DEF SubmitChild, TypeOK
  <2>2. Children[cur[w]] \in Seq(Tasks)
    BY <2>1, TasksAssumption
  <2>3. PICK i \in DOMAIN Children[cur[w]] : submit(Children[cur[w]][i])
    BY <1>2 DEF SubmitChild
  <2>4. Children[cur[w]][i] \in Tasks
    BY <2>2, <2>3, ElementOfSeq, LenProperties
  <2>5. QED
    BY <1>2, <2>1, <2>3, <2>4 DEF SubmitChild, Submission, ownerVars
<1>3. QED
  BY <1>1, <1>2 DEF Next, Worker

(***************************************************************************)
(* Types.                                                                  *)
(***************************************************************************)
LEMMA TypeInit == Init => TypeOK
<1> SUFFICES ASSUME Init PROVE TypeOK
  OBVIOUS
<1>1. /\ wpc \in [Workers -> {"check", "get", "run", "exited"}]
      /\ cur \in [Workers -> Tasks \cup {NoTask}]
      /\ late \in [Workers -> Nat]
      /\ future \in [Tasks -> {"none", "pending", "value", "exception"}]
  BY DEF Init
<1>2. \A w \in Workers : cur[w] \notin Tasks /\ wpc[w] = "check"
  BY TasksAssumption DEF Init
<1>3. mpc = "open" /\ awaited \notin Roots
  BY TasksAssumption DEF Init
<1>4. taskq_ \in Seq(Tasks) /\ submitted \in Seq(Tasks) /\ started \in Seq(Tasks)
  BY DEF Init
<1>5. QED
  BY <1>1, <1>2, <1>3, <1>4 DEF Init, TypeOK

\* Every step of the pool keeps the types of its state.
LEMMA TypeStep == TypeOK /\ [Next]_vars => TypeOK'
<1> SUFFICES ASSUME TypeOK, [Next]_vars PROVE TypeOK'
  OBVIOUS
<1> USE TasksAssumption DEF TypeOK
<1>1. CASE UNCHANGED vars
  BY <1>1 DEF vars, ownerVars
<1>2. ASSUME NEW t \in Tasks, Submission(t) PROVE TypeOK'
  BY <1>2 DEF Submission, submit
<1>3. CASE OwnerResumes \/ \E t \in Roots : OwnerWaits(t)
  BY <1>3 DEF OwnerResumes, OwnerWaits
<1>4. CASE Destroy
  BY <1>4 DEF Destroy
<1>5. CASE Joined
  BY <1>5 DEF Joined
<1>6. ASSUME NEW w \in Workers, CheckDone(w) \/ Yield(w) PROVE TypeOK'
  BY <1>6 DEF CheckDone, Yield, ownerVars
<1>7. ASSUME NEW w \in Workers, Take(w) PROVE TypeOK'
  <2>1. Head(taskq_) \in Tasks /\ Tail(taskq_) \in Seq(Tasks)
    BY <1>7 DEF Take
  <2>2. /\ taskq_' \in Seq(Tasks) /\ started' \in Seq(Tasks)
        /\ cur' \in [Workers -> Tasks \cup {NoTask}] /\ late' \in [Workers -> Nat]
    BY <1>7, <2>1 DEF Take
  <2>3. QED
    BY <1>7, <2>1, <2>2 DEF Take, ownerVars
<1>8. ASSUME NEW w \in Workers, Finish(w) PROVE TypeOK'
  <2>1. future' \in [Tasks -> {"none", "pending", "value", "exception"}]
    BY <1>8 DEF Finish, Outcomes
  <2>2. QED
    BY <1>8, <2>1 DEF Finish, ownerVars
<1>9. QED
  BY <1>1, <1>2, <1>3, <1>4, <1>5, <1>6, <1>7, <1>8, StepCases

\* The type invariant of the pool (tpool.h): a worker has a task exactly while it runs one, and none has
\* left thread_func before the destructor set done_.
THEOREM TypeCorrect == Spec => []TypeOK
BY TypeInit, TypeStep, PTL DEF Spec

(***************************************************************************)
(* Every unfinished task is in one place: a submission puts a new task in  *)
(* the queue, try_get moves the head to a worker that had none, and a task *)
(* ends in the worker that holds it.                                       *)
(***************************************************************************)
LEMMA AccountedStep == TypeOK /\ Accounted /\ [Next]_vars => Accounted'
<1> SUFFICES ASSUME TypeOK, Accounted, [Next]_vars PROVE Accounted'
  OBVIOUS
<1>0. NoTask \notin Tasks /\ taskq_ \in Seq(Tasks) /\ cur \in [Workers -> Tasks \cup {NoTask}]
  BY TasksAssumption DEF TypeOK
<1>1. CASE UNCHANGED vars
  BY <1>1 DEF vars, ownerVars, Accounted, Held, Range, IsInjective
<1>2. ASSUME NEW t \in Tasks, Submission(t) PROVE Accounted'
  <2>1. /\ future[t] = "none" /\ future' = [future EXCEPT ![t] = "pending"]
        /\ taskq_' = Append(taskq_, t) /\ cur' = cur /\ mpc' = mpc /\ mpc # "destroyed"
    BY <1>2 DEF Submission, submit
  <2>2. t \notin Range(taskq_) \cup Held
    BY <2>1 DEF Accounted
  <2>3. Range(taskq_') = Range(taskq_) \cup {t} /\ IsInjective(taskq_') /\ Held' = Held
    BY <1>0, <2>1, <2>2, AppendNew DEF Accounted, Held
  <2>4. future \in [Tasks -> {"none", "pending", "value", "exception"}]
    BY DEF TypeOK
  <2>5. \A u \in Range(taskq_) \cup Held : u \in Tasks
    BY <1>0, LenProperties DEF Range, Held
  <2>6. QED
    BY <2>1, <2>2, <2>3, <2>4, <2>5 DEF Accounted
<1>3. CASE OwnerResumes \/ Destroy \/ \E t \in Roots : OwnerWaits(t)
  BY <1>3 DEF OwnerResumes, Destroy, OwnerWaits, Accounted, Held
<1>4. CASE Joined
  <2>1. \A w \in Workers : cur[w] = NoTask
    BY <1>0, <1>4 DEF Joined, TypeOK
  <2>2. Held' = {} /\ taskq_' = <<>> /\ mpc' = "destroyed"
    BY <1>4, <2>1 DEF Joined, Held
  <2>3. Range(<<>>) = {} /\ IsInjective(<<>>)
    BY DEF Range, IsInjective
  <2>4. QED
    BY <1>4, <2>1, <2>2, <2>3 DEF Joined, Accounted
<1>5. ASSUME NEW w \in Workers, CheckDone(w) \/ Yield(w) PROVE Accounted'
  BY <1>5 DEF CheckDone, Yield, ownerVars, Accounted, Held
<1>6. ASSUME NEW w \in Workers, Take(w) PROVE Accounted'
  <2> DEFINE t == Head(taskq_)
  <2>1. /\ taskq_ # <<>> /\ taskq_' = Tail(taskq_) /\ cur' = [cur EXCEPT ![w] = t]
        /\ future' = future /\ mpc' = mpc /\ cur[w] = NoTask
    BY <1>0, <1>6 DEF Take, ownerVars, TypeOK
  <2>2. /\ t \in Range(taskq_) /\ Range(taskq_') = Range(taskq_) \ {t}
        /\ IsInjective(taskq_')
    BY <1>0, <2>1, TailRest DEF Accounted
  <2>3. t \in Tasks /\ t # NoTask /\ t \notin Held
    BY <1>0, <2>1, <2>2, HeadTailProperties DEF Accounted
  <2>4. Held' = Held \cup {t}
    BY <1>0, <2>1, <2>3 DEF Held
  <2>5. \A v \in Workers : v # w => cur'[v] = cur[v] /\ cur'[v] # t
    BY <1>0, <2>1, <2>3 DEF Held
  <2>6. \A u, v \in Workers : cur'[u] = cur'[v] /\ u # v => cur'[u] = NoTask
    BY <1>0, <2>1, <2>5 DEF Accounted
  <2>7. QED
    BY <2>1, <2>2, <2>3, <2>4, <2>6 DEF Accounted
<1>7. ASSUME NEW w \in Workers, Finish(w) PROVE Accounted'
  <2> DEFINE t == cur[w]
  <2>1. t \in Tasks /\ t # NoTask /\ t \in Held /\ future[t] = "pending"
    BY <1>0, <1>7 DEF Finish, TypeOK, Held, Accounted
  <2>2. PICK o \in {"value", "exception"} : future' = [future EXCEPT ![t] = o]
    BY <1>7 DEF Finish, Outcomes
  <2>3. cur' = [cur EXCEPT ![w] = NoTask] /\ taskq_' = taskq_ /\ mpc' = mpc
    BY <1>7 DEF Finish, ownerVars
  <2>4. \A v \in Workers : v # w => cur[v] # t /\ cur'[v] = cur[v]
    BY <2>1, <2>3 DEF Accounted
  <2>5. Held' = Held \ {t}
    BY <1>0, <2>1, <2>3, <2>4 DEF Held
  <2>6. \A u, v \in Workers : cur'[u] = cur'[v] /\ u # v => cur'[u] = NoTask
    BY <1>0, <2>3, <2>4 DEF Accounted
  <2>7. future \in [Tasks -> {"none", "pending", "value", "exception"}] /\ t \notin Range(taskq_)
    BY <2>1 DEF TypeOK, Accounted
  <2>8. \A u \in Tasks : future'[u] = IF u = t THEN o ELSE future[u]
    BY <2>2, <2>7
  <2>9. \A u \in Range(taskq_) \cup Held : u \in Tasks
    BY <1>0, LenProperties DEF Range, Held
  <2>10. QED
    BY <2>1, <2>3, <2>5, <2>6, <2>7, <2>8, <2>9 DEF Accounted
<1>8. QED
  BY <1>1, <1>2, <1>3, <1>4, <1>5, <1>6, <1>7, StepCases

(***************************************************************************)
(* A submitted task is in the queue once, or with exactly one worker, or   *)
(* has its outcome, until the pool is destroyed.                           *)
(***************************************************************************)
THEOREM EveryTaskAccounted == Spec => []Accounted
<1>1. Init => Accounted
  BY DEF Init, Accounted, Held, Range, IsInjective
<1>2. QED
  BY <1>1, TypeCorrect, AccountedStep, PTL DEF Spec

(***************************************************************************)
(* A task has the outcome "value" only when all those it submitted have:   *)
(* the futures are read to the last one, and outcomes never change,        *)
(* because nothing ends a task twice.                                      *)
(***************************************************************************)
LEMMA NormalReturnStep ==
  TypeOK /\ Accounted /\ NormalReturnMeansAllRan /\ [Next]_vars => NormalReturnMeansAllRan'
<1> SUFFICES ASSUME TypeOK, Accounted, NormalReturnMeansAllRan, [Next]_vars
             PROVE  NormalReturnMeansAllRan'
  OBVIOUS
<1>0. /\ future \in [Tasks -> {"none", "pending", "value", "exception"}]
      /\ \A t \in Tasks : \A i \in DOMAIN Children[t] : Children[t][i] \in Tasks
  <2>1. ASSUME NEW t \in Tasks, NEW i \in DOMAIN Children[t] PROVE Children[t][i] \in Tasks
    BY TasksAssumption, ElementOfSeq, LenProperties
  <2>2. QED
    BY <2>1 DEF TypeOK
<1>1. CASE UNCHANGED future
  BY <1>1 DEF NormalReturnMeansAllRan
<1>2. ASSUME NEW t \in Tasks, Submission(t) PROVE NormalReturnMeansAllRan'
  <2>1. future[t] = "none" /\ future' = [future EXCEPT ![t] = "pending"]
    BY <1>2 DEF Submission, submit
  <2>2. QED
    BY <1>0, <2>1 DEF NormalReturnMeansAllRan
<1>3. ASSUME NEW w \in Workers, Finish(w) PROVE NormalReturnMeansAllRan'
  <2> DEFINE t == cur[w]
  <2>1. t \in Tasks /\ future[t] = "pending"
    <3>1. t \in Tasks /\ t # NoTask
      BY <1>3, TasksAssumption DEF Finish, TypeOK
    <3>2. t \in Held
      BY <3>1 DEF Held
    <3>3. QED
      BY <3>1, <3>2 DEF Accounted
  <2>2. PICK o \in Outcomes(w) :
           future' = [future EXCEPT ![cur[w]] = IF cur[w] \in Throws THEN "exception" ELSE o]
    BY <1>3, Zenon DEF Finish
  <2>3. \A u \in Tasks : u # t => future'[u] = future[u]
    BY <1>0, <2>2
  <2>4. ASSUME future'[t] = "value"
        PROVE  \A i \in DOMAIN Children[t] : future[Children[t][i]] = "value"
    <3>1. o = "value"
      BY <1>0, <2>1, <2>2, <2>4
    <3>2. \A i \in 1 .. Len(Children[t]) : future[Children[t][i]] = "value"
      BY <2>2, <3>1 DEF Outcomes
    <3>3. QED
      BY <2>1, <3>2, TasksAssumption, LenProperties
  <2>5. \A u \in Tasks : future[u] = "value" => future'[u] = "value"
    BY <2>1, <2>3
  <2>6. ASSUME NEW u \in Tasks, future'[u] = "value", NEW i \in DOMAIN Children[u]
        PROVE  future'[Children[u][i]] = "value"
    <3>1. future[Children[u][i]] = "value"
      BY <2>3, <2>4, <2>6 DEF NormalReturnMeansAllRan
    <3>2. QED
      BY <1>0, <2>5, <3>1
  <2>7. QED
    BY <2>6 DEF NormalReturnMeansAllRan
<1>4. QED
  BY <1>1, <1>2, <1>3, StepCases
     DEF vars, OwnerWaits, OwnerResumes, Destroy, Joined, CheckDone, Yield, Take

(***************************************************************************)
(* submitTasksAndWait returns normally only if every task it submitted     *)
(* did, however the tasks nest and whichever workers run them.             *)
(***************************************************************************)
THEOREM NormalReturns == Spec => []NormalReturnMeansAllRan
<1>1. Init => NormalReturnMeansAllRan
  BY DEF Init, NormalReturnMeansAllRan
<1>2. QED
  BY <1>1, TypeCorrect, EveryTaskAccounted, NormalReturnStep, PTL DEF Spec

(***************************************************************************)
(* A worker that has taken a task after shutdown does not take another: it *)
(* comes back to the test of done_ first.                                  *)
(***************************************************************************)
LateWorkersLeave ==
  \A w \in Workers : /\ late[w] <= 1
                     /\ late[w] > 0 => done_ /\ wpc[w] # "get"

\* A worker that begins a task after done_ is set tests done_ before the next, and leaves.
LEMMA LateStep == TypeOK /\ LateWorkersLeave /\ [Next]_vars => LateWorkersLeave'
<1> SUFFICES ASSUME TypeOK, LateWorkersLeave, [Next]_vars PROVE LateWorkersLeave'
  OBVIOUS
<1>0. /\ late \in [Workers -> Nat] /\ done_ \in BOOLEAN
      /\ wpc \in [Workers -> {"check", "get", "run", "exited"}]
  BY DEF TypeOK
<1>1. CASE UNCHANGED <<late, done_, wpc>>
  BY <1>1 DEF LateWorkersLeave
<1>2. CASE Destroy
  BY <1>2 DEF Destroy, LateWorkersLeave
<1>3. ASSUME NEW w \in Workers, CheckDone(w) \/ Yield(w) \/ Finish(w) PROVE LateWorkersLeave'
  BY <1>0, <1>3 DEF CheckDone, Yield, Finish, LateWorkersLeave
<1>4. ASSUME NEW w \in Workers, Take(w) PROVE LateWorkersLeave'
  <2>1. late[w] = 0
    BY <1>0, <1>4 DEF Take, LateWorkersLeave
  <2>2. late' = [late EXCEPT ![w] = IF done_ THEN 1 ELSE 0]
    BY <1>0, <1>4, <2>1 DEF Take
  <2>3. QED
    BY <1>0, <1>4, <2>2 DEF Take, LateWorkersLeave
<1>5. QED
  BY <1>1, <1>2, <1>3, <1>4, StepCases DEF vars, Submission, OwnerWaits, OwnerResumes, Joined

(***************************************************************************)
(* Once the destructor has set done_, each worker takes at most one more   *)
(* task.                                                                   *)
(***************************************************************************)
THEOREM OneLateTask == Spec => []AtMostOneLateTask
<1>1. Init => LateWorkersLeave
  BY DEF Init, LateWorkersLeave
<1>2. LateWorkersLeave => AtMostOneLateTask
  BY DEF LateWorkersLeave, AtMostOneLateTask
<1>3. QED
  BY <1>1, <1>2, TypeCorrect, LateStep, PTL DEF Spec

(***************************************************************************)
(* The tasks submitted are those started followed by those still queued,   *)
(* until the destructor drops the latter, and then nothing starts any more.*)
(***************************************************************************)
LEMMA FifoStep == TypeOK /\ OldestFirst /\ [Next]_vars => OldestFirst'
<1> SUFFICES ASSUME TypeOK, OldestFirst, [Next]_vars PROVE OldestFirst'
  OBVIOUS
<1>0. taskq_ \in Seq(Tasks) /\ submitted \in Seq(Tasks) /\ started \in Seq(Tasks)
  BY DEF TypeOK
<1>1. ASSUME NEW s \in Seq(Tasks), NEW q \in Seq(Tasks) PROVE IsPrefix(s, s \o q)
  <2>1. CASE Len(s) = 0
    BY <2>1, ConcatProperties, SubSeqEmpty, LenProperties DEF IsPrefix
  <2>2. CASE Len(s) > 0
    BY <2>2, ConcatProperties, SubSeqOfConcat1, LenProperties DEF IsPrefix
  <2>3. QED
    BY <2>1, <2>2, LenProperties
<1>2. CASE UNCHANGED <<taskq_, submitted, started, mpc>>
  BY <1>2 DEF OldestFirst
<1>3. ASSUME NEW t \in Tasks, Submission(t) PROVE OldestFirst'
  <2>0. submitted = started \o taskq_ /\ submitted' = Append(submitted, t)
    BY <1>3 DEF Submission, submit, OldestFirst
  <2>1. submitted' = started \o Append(taskq_, t) /\ Append(taskq_, t) \in Seq(Tasks)
    <3>1. Append(started \o taskq_, t) = started \o Append(taskq_, t)
      <4>1. t \in Tasks /\ started \in Seq(Tasks) /\ taskq_ \in Seq(Tasks)
        BY <1>0, <1>3
      <4>2. Append(started \o taskq_, t) = (started \o taskq_) \o <<t>>
        BY <4>1, ConcatProperties, AppendIsConcat
      <4>3. Append(taskq_, t) = taskq_ \o <<t>> /\ <<t>> \in Seq(Tasks)
        BY <4>1, AppendIsConcat
      <4>4. QED
        BY <4>1, <4>2, <4>3, ConcatAssociative
    <3>2. Append(taskq_, t) \in Seq(Tasks)
      BY <1>0, <1>3, AppendProperties
    <3>3. QED
      BY <2>0, <3>1, <3>2
  <2>2. taskq_' = Append(taskq_, t) /\ started' = started
    BY <1>3 DEF Submission, submit
  <2>3. IsPrefix(started', submitted')
    BY <1>0, <1>1, <2>1, <2>2
  <2>4. QED
    BY <2>1, <2>2, <2>3 DEF OldestFirst
<1>4. ASSUME NEW w \in Workers, Take(w) PROVE OldestFirst'
  <2>1. mpc # "destroyed"
    BY <1>4 DEF Take, TypeOK
  <2>2. started' \o taskq_' = submitted /\ submitted' = submitted
    BY <1>0, <1>4, <2>1, MoveHead DEF Take, OldestFirst
  <2>3. started' \in Seq(Tasks) /\ taskq_' \in Seq(Tasks)
    BY <1>0, <1>4, HeadTailProperties, AppendProperties DEF Take
  <2>4. QED
    BY <1>1, <2>2, <2>3 DEF OldestFirst
<1>5. CASE Joined \/ Destroy \/ OwnerResumes \/ \E t \in Roots : OwnerWaits(t)
  BY <1>5 DEF Joined, Destroy, OwnerResumes, OwnerWaits, OldestFirst
<1>6. QED
  BY <1>2, <1>3, <1>4, <1>5, StepCases DEF vars, ownerVars, CheckDone, Yield, Finish

(***************************************************************************)
(* Tasks are started in the order they were submitted in, each once.       *)
(***************************************************************************)
THEOREM StartedInOrder == Spec => []OldestFirst
<1>1. Init => OldestFirst
  BY SubSeqEmpty DEF Init, OldestFirst, IsPrefix
<1>2. QED
  BY <1>1, TypeCorrect, FifoStep, PTL DEF Spec

-----------------------------------------------------------------------------
(* The index lists and the tuple functions.                                *)

(***************************************************************************)
(* What a list r is, by its length and elements: the naturals from first   *)
(* to last; n times v; the reverse of il; the n elements of il after the   *)
(* first ind; il1 and il2 one after the other; il with 1 added to each.    *)
(***************************************************************************)
Counts(r, first, last) == Len(r) = last - first + 1 /\ \A i \in 1 .. Len(r) : r[i] = first + i - 1
AllOf(r, n, v)         == Len(r) = n /\ \A i \in 1 .. n : r[i] = v
Reversed(r, il)        == Len(r) = Len(il) /\ \A i \in 1 .. Len(il) : r[i] = il[Len(il) + 1 - i]
Part(r, ind, n, il)    == Len(r) = n /\ \A i \in 1 .. n : r[i] = il[ind + i]
Joins(r, il1, il2) ==
  /\ Len(r) = Len(il1) + Len(il2)
  /\ \A i \in 1 .. Len(il1) : r[i] = il1[i]
  /\ \A i \in 1 .. Len(il2) : r[Len(il1) + i] = il2[i]
Successors(r, il)      == Len(r) = Len(il) /\ \A i \in 1 .. Len(il) : r[i] = il[i] + 1

(***************************************************************************)
(* The same for il with n elements after the first ind reversed in place,  *)
(* and for il with its first n elements moved behind the others.           *)
(***************************************************************************)
TurnedAt(r, ind, n, il) ==
  /\ Len(r) = Len(il)
  /\ \A i \in 1 .. Len(il) :
       r[i] = il[IF i \in ind + 1 .. ind + n THEN 2 * ind + n + 1 - i ELSE i]
Rotated(r, n, il) ==
  /\ Len(r) = Len(il)
  /\ \A i \in 1 .. Len(il) : r[i] = il[IF i <= Len(il) - n THEN n + i ELSE i - (Len(il) - n)]

\* Two recursive functions with the same value at 0 and the same steps agree.
SameSteps(n, f, c) == f[0] = c[0] /\ \A k \in 1 .. n : f[k - 1] = c[k - 1] => f[k] = c[k]

\* So they have the same values, which the induction of Nat shows once for all
\* of the recursive functions.
LEMMA StepsAgree ==
  ASSUME NEW n \in Nat, NEW f, NEW c, SameSteps(n, f, c)
  PROVE  \A k \in 0 .. n : f[k] = c[k]
<1> DEFINE I == {k \in Nat : k \in 0 .. n => f[k] = c[k]}
<1>1. 0 \in I
  BY DEF SameSteps
<1>2. ASSUME NEW k \in Nat, k \in I PROVE k + 1 \in I
  <2>1. SUFFICES ASSUME k + 1 \in 0 .. n PROVE f[k + 1] = c[k + 1]
    OBVIOUS
  <2>2. k \in 0 .. n /\ k + 1 \in 1 .. n /\ k + 1 - 1 = k
    BY <2>1
  <2>3. f[k] = c[k]
    BY <1>2, <2>2
  <2>4. QED
    BY <2>2, <2>3 DEF SameSteps
<1>3. Nat \subseteq I
  <2> HIDE DEF I
  <2> QED BY <1>1, <1>2, SetInduction
<1>4. QED
  BY <1>3

\* t is s with x after its last element, or before its first.
PushedBack(t, x, s)  == Len(t) = Len(s) + 1 /\ t[Len(t)] = x /\ \A i \in 1 .. Len(s) : t[i] = s[i]
PushedFront(t, x, s) == Len(t) = Len(s) + 1 /\ t[1] = x /\ \A i \in 1 .. Len(s) : t[i + 1] = s[i]

\* What push_back returns is known by its length and elements.
LEMMA PushBackIs ==
  ASSUME NEW S, NEW s \in Seq(S), NEW t \in Seq(S), NEW x \in S, PushedBack(t, x, s)
  PROVE  push_back(x, s) = t
BY DEF push_back, PushedBack

\* What push_front returns is known by its length and elements.
LEMMA PushFrontIs ==
  ASSUME NEW S, NEW s \in Seq(S), NEW t \in Seq(S), NEW x \in S, PushedFront(t, x, s)
  PROVE  push_front(x, s) = t
BY DEF push_front, PushedFront

\* What pop_front returns is known by its length and elements.
LEMMA PopFrontIs ==
  ASSUME NEW S, NEW s \in Seq(S), NEW t, Len(s) > 0,
         t \in [1 .. Len(s) - 1 -> S], \A i \in 1 .. Len(s) - 1 : t[i] = s[i + 1]
  PROVE  pop_front(s) = t
BY DEF pop_front

\* Sequences of the same length with the same elements are the same.
LEMMA SameSeq ==
  ASSUME NEW S, NEW s \in Seq(S), NEW t \in Seq(S), Len(s) = Len(t), \A i \in 1 .. Len(s) : s[i] = t[i]
  PROVE  s = t
OBVIOUS

\* The indices first .. last.
LEMMA RangeIs ==
  ASSUME NEW first \in Nat, NEW last \in Nat, first <= last
  PROVE  /\ make_indlist_from_range(first, last) \in Seq(Nat)
         /\ Counts(make_indlist_from_range(first, last), first, last)
<1> DEFINE Eq(f) == f =
             [k \in 0 .. last - first |-> IF k = 0 THEN <<last>> ELSE push_front(last - k, f[k - 1])]
           c == [k \in 0 .. last - first |-> [i \in 1 .. k + 1 |-> last - (k) + i - 1]]
<1>0. last - first \in Nat
  OBVIOUS
<1>1. c[0] = <<last>>
  BY <1>0
<1>2. ASSUME NEW k \in 1 .. last - first PROVE c[k] = push_front(last - k, c[k - 1])
  <2>1. c[k - 1] \in Seq(Nat) /\ Len(c[k - 1]) = (k + 1) - 1
    BY <1>0, SMTT(30)
  <2>2. c[k] \in Seq(Nat) /\ Len(c[k]) = (k + 1)
    BY <1>0, SMTT(30)
  <2>3. c[k][1] = (last - k) /\ \A i \in 1 .. (k + 1) - 1 : c[k][i + 1] = c[k - 1][i]
    BY <1>0, SMTT(30)
  <2> HIDE DEF c
  <2>4. (last - k) \in Nat /\ (k + 1) \in Nat
    BY <1>0
  <2>5. Len(c[k]) = Len(c[k - 1]) + 1
        /\ \A i \in 1 .. Len(c[k - 1]) : c[k][i + 1] = c[k - 1][i]
    <3>1. (k + 1) - 1 = Len(c[k - 1])
      BY ONLY <2>1
    <3>2. Len(c[k - 1]) = k
      BY ONLY <2>1, k \in 1 .. last - first, first \in Nat, last \in Nat
    <3>3. Len(c[k]) = Len(c[k - 1]) + 1
      BY ONLY <2>2, <3>2
    <3>4. QED
      BY ONLY <2>3, <3>1, <3>3, Zenon
  <2>6. ASSUME NEW s, NEW t, NEW x, s = c[k - 1], t = c[k], x = (last - k)
        PROVE  push_front(x, s) = t
    <3>1. s \in Seq(Nat) /\ t \in Seq(Nat) /\ x \in Nat
      BY <2>1, <2>2, <2>4, <2>6
    <3>2. PushedFront(t, x, s)
      BY <2>3, <2>5, <2>6 DEF PushedFront
    <3>3. QED
      BY ONLY <3>1, <3>2, PushFrontIs, Zenon
  <2>7. QED
    BY <2>6
<1>3. /\ c = [k \in 0 .. last - first |-> c[k]]
      /\ c[last - first] = [i \in 1 .. last - first + 1 |-> last - (last - first) + i - 1]
  BY <1>0
<1>4. Eq(c)
  <2> HIDE DEF c
  <2>1. ASSUME NEW k \in 0 .. last - first
        PROVE  c[k] = IF k = 0 THEN <<last>> ELSE push_front(last - k, c[k - 1])
    <3>1. CASE k = 0
      BY <1>1, <3>1
    <3>2. CASE k # 0
      BY <1>0, <1>2, <3>2
    <3>3. QED
      BY <3>1, <3>2
  <2>2. QED
    BY <2>1, <1>3
<1>5. make_indlist_from_range(first, last) = (CHOOSE f : Eq(f))[last - first]
  BY DEF make_indlist_from_range
<1>6. PICK f : Eq(f) /\ make_indlist_from_range(first, last) = f[last - first]
  <2> HIDE DEF Eq
  <2> QED BY <1>4, <1>5
<1>7. \A k \in 0 .. last - first : f[k] = IF k = 0 THEN <<last>> ELSE push_front(last - k, f[k - 1])
  BY <1>6, Zenon
<1>8. f[last - first] = c[last - first]
  <2> HIDE DEF c, Eq
  <2>1. last - first \in Nat
    BY <1>0
  <2>2. f[0] = c[0]
    BY <1>1, <1>7, <2>1
  <2>3. ASSUME NEW k \in 1 .. last - first, f[k - 1] = c[k - 1] PROVE f[k] = c[k]
    BY <1>2, <1>7, <2>1, <2>3
  <2>4. SameSteps(last - first, f, c)
    BY <2>2, <2>3 DEF SameSteps
  <2>5. \A k \in 0 .. last - first : f[k] = c[k]
    BY ONLY <2>1, <2>4, StepsAgree
  <2>6. QED
    BY <2>1, <2>5
<1>9. ASSUME NEW r, r = [i \in 1 .. last - first + 1 |-> last - (last - first) + i - 1]
      PROVE r \in Seq(Nat) /\ Counts(r, first, last)
  BY <1>0, <1>9 DEF Counts
<1>10. QED
  <2> HIDE DEF c, Eq
  <2>1. make_indlist_from_range(first, last)
        = [i \in 1 .. last - first + 1 |-> last - (last - first) + i - 1]
    BY <1>3, <1>6, <1>8, Zenon
  <2>2. QED
    BY <1>9, <2>1, Zenon

\* n times v.
LEMMA UniformIs ==
  ASSUME NEW S, NEW n \in Nat, NEW v \in S
  PROVE  make_uniform_indlist(n, v) \in Seq(S) /\ AllOf(make_uniform_indlist(n, v), n, v)
<1> DEFINE Eq(f) == f = [k \in 0 .. n |-> IF k = 0 THEN <<>> ELSE push_back(v, f[k - 1])]
           c == [k \in 0 .. n |-> [i \in 1 .. k |-> v]]
<1>0. n \in Nat
  OBVIOUS
<1>1. c[0] = <<>>
  BY <1>0
<1>2. ASSUME NEW k \in 1 .. n PROVE c[k] = push_back(v, c[k - 1])
  <2>1. c[k - 1] \in Seq(S) /\ Len(c[k - 1]) = k - 1
    BY <1>0, SMTT(30)
  <2>2. c[k] \in Seq(S) /\ Len(c[k]) = k
    BY <1>0, SMTT(30)
  <2>3. c[k][k] = v /\ \A i \in 1 .. k - 1 : c[k][i] = c[k - 1][i]
    BY <1>0, SMTT(30)
  <2> HIDE DEF c
  <2>4. v \in S /\ k \in Nat
    BY <1>0
  <2>5. Len(c[k]) = Len(c[k - 1]) + 1 /\ c[k][Len(c[k])] = v
        /\ \A i \in 1 .. Len(c[k - 1]) : c[k][i] = c[k - 1][i]
    BY <2>1, <2>2, <2>3, <2>4, SMTT(30)
  <2>6. ASSUME NEW s, NEW t, NEW x, s = c[k - 1], t = c[k], x = v
        PROVE  push_back(x, s) = t
    <3>1. s \in Seq(S) /\ t \in Seq(S) /\ x \in S
      BY <2>1, <2>2, <2>4, <2>6
    <3>2. PushedBack(t, x, s)
      BY <2>5, <2>6 DEF PushedBack
    <3>3. QED
      BY ONLY <3>1, <3>2, PushBackIs, Zenon
  <2>7. QED
    BY <2>6
<1>3. c = [k \in 0 .. n |-> c[k]] /\ c[n] = [i \in 1 .. n |-> v]
  BY <1>0
<1>4. Eq(c)
  <2> HIDE DEF c
  <2>1. ASSUME NEW k \in 0 .. n
        PROVE  c[k] = IF k = 0 THEN <<>> ELSE push_back(v, c[k - 1])
    <3>1. CASE k = 0
      BY <1>1, <3>1
    <3>2. CASE k # 0
      BY <1>0, <1>2, <3>2
    <3>3. QED
      BY <3>1, <3>2
  <2>2. QED
    BY <2>1, <1>3
<1>5. make_uniform_indlist(n, v) = (CHOOSE f : Eq(f))[n]
  BY DEF make_uniform_indlist
<1>6. PICK f : Eq(f) /\ make_uniform_indlist(n, v) = f[n]
  <2> HIDE DEF Eq
  <2> QED BY <1>4, <1>5
<1>7. \A k \in 0 .. n : f[k] = IF k = 0 THEN <<>> ELSE push_back(v, f[k - 1])
  BY <1>6, Zenon
<1>8. f[n] = c[n]
  <2> HIDE DEF c, Eq
  <2>1. n \in Nat
    BY <1>0
  <2>2. f[0] = c[0]
    BY <1>1, <1>7, <2>1
  <2>3. ASSUME NEW k \in 1 .. n, f[k - 1] = c[k - 1] PROVE f[k] = c[k]
    BY <1>2, <1>7, <2>1, <2>3
  <2>4. SameSteps(n, f, c)
    BY <2>2, <2>3 DEF SameSteps
  <2>5. \A k \in 0 .. n : f[k] = c[k]
    BY ONLY <2>1, <2>4, StepsAgree
  <2>6. QED
    BY <2>1, <2>5
<1>9. ASSUME NEW r, r = [i \in 1 .. n |-> v]
      PROVE r \in Seq(S) /\ AllOf(r, n, v)
  BY <1>0, <1>9 DEF AllOf
<1>10. QED
  <2> HIDE DEF c, Eq
  <2>1. make_uniform_indlist(n, v) = [i \in 1 .. n |-> v]
    BY <1>3, <1>6, <1>8, Zenon
  <2>2. QED
    BY <1>9, <2>1, Zenon

\* The indices from the last to the first.
LEMMA ReverseIs ==
  ASSUME NEW S, NEW il \in Seq(S)
  PROVE  reverse(il) \in Seq(S) /\ Reversed(reverse(il), il)
<1> DEFINE Eq(f) == f =
             [k \in 0 .. Len(il) |-> IF k = 0 THEN <<>> ELSE push_back(il[Len(il) + 1 - k], f[k - 1])]
           c == [k \in 0 .. Len(il) |-> [i \in 1 .. k |-> il[Len(il) + 1 - i]]]
<1>0. Len(il) \in Nat /\ \A i \in 1 .. Len(il) : il[i] \in S
  BY LenProperties, ElementOfSeq
<1>1. c[0] = <<>>
  BY <1>0
<1>2. ASSUME NEW k \in 1 .. Len(il) PROVE c[k] = push_back(il[Len(il) + 1 - k], c[k - 1])
  <2>1. c[k - 1] \in Seq(S) /\ Len(c[k - 1]) = k - 1
    BY <1>0, SMTT(30)
  <2>2. c[k] \in Seq(S) /\ Len(c[k]) = k
    BY <1>0, SMTT(30)
  <2>3. c[k][k] = il[Len(il) + 1 - k] /\ \A i \in 1 .. k - 1 : c[k][i] = c[k - 1][i]
    BY <1>0, SMTT(30)
  <2> HIDE DEF c
  <2>4. il[Len(il) + 1 - k] \in S /\ k \in Nat
    BY <1>0
  <2>5. Len(c[k]) = Len(c[k - 1]) + 1 /\ c[k][Len(c[k])] = il[Len(il) + 1 - k]
        /\ \A i \in 1 .. Len(c[k - 1]) : c[k][i] = c[k - 1][i]
    BY <2>1, <2>2, <2>3, <2>4, SMTT(30)
  <2>6. ASSUME NEW s, NEW t, NEW x, s = c[k - 1], t = c[k], x = il[Len(il) + 1 - k]
        PROVE  push_back(x, s) = t
    <3>1. s \in Seq(S) /\ t \in Seq(S) /\ x \in S
      BY <2>1, <2>2, <2>4, <2>6
    <3>2. PushedBack(t, x, s)
      BY <2>5, <2>6 DEF PushedBack
    <3>3. QED
      BY ONLY <3>1, <3>2, PushBackIs, Zenon
  <2>7. QED
    BY <2>6
<1>3. c = [k \in 0 .. Len(il) |-> c[k]] /\ c[Len(il)] = [i \in 1 .. Len(il) |-> il[Len(il) + 1 - i]]
  BY <1>0
<1>4. Eq(c)
  <2> HIDE DEF c
  <2>1. ASSUME NEW k \in 0 .. Len(il)
        PROVE  c[k] = IF k = 0 THEN <<>> ELSE push_back(il[Len(il) + 1 - k], c[k - 1])
    <3>1. CASE k = 0
      BY <1>1, <3>1
    <3>2. CASE k # 0
      BY <1>0, <1>2, <3>2
    <3>3. QED
      BY <3>1, <3>2
  <2>2. QED
    BY <2>1, <1>3
<1>5. reverse(il) = (CHOOSE f : Eq(f))[Len(il)]
  BY DEF reverse
<1>6. PICK f : Eq(f) /\ reverse(il) = f[Len(il)]
  <2> HIDE DEF Eq
  <2> QED BY <1>4, <1>5
<1>7. \A k \in 0 .. Len(il) : f[k] = IF k = 0 THEN <<>> ELSE push_back(il[Len(il) + 1 - k], f[k - 1])
  BY <1>6, Zenon
<1>8. f[Len(il)] = c[Len(il)]
  <2> HIDE DEF c, Eq
  <2>1. Len(il) \in Nat
    BY <1>0
  <2>2. f[0] = c[0]
    BY <1>1, <1>7, <2>1
  <2>3. ASSUME NEW k \in 1 .. Len(il), f[k - 1] = c[k - 1] PROVE f[k] = c[k]
    BY <1>2, <1>7, <2>1, <2>3
  <2>4. SameSteps(Len(il), f, c)
    BY <2>2, <2>3 DEF SameSteps
  <2>5. \A k \in 0 .. Len(il) : f[k] = c[k]
    BY ONLY <2>1, <2>4, StepsAgree
  <2>6. QED
    BY <2>1, <2>5
<1>9. ASSUME NEW r, r = [i \in 1 .. Len(il) |-> il[Len(il) + 1 - i]]
      PROVE r \in Seq(S) /\ Reversed(r, il)
  BY <1>0, <1>9 DEF Reversed
<1>10. QED
  <2> HIDE DEF c, Eq
  <2>1. reverse(il) = [i \in 1 .. Len(il) |-> il[Len(il) + 1 - i]]
    BY <1>3, <1>6, <1>8, Zenon
  <2>2. QED
    BY <1>9, <2>1, Zenon

\* All but the first n.
LEMMA PopnFrontIs ==
  ASSUME NEW S, NEW il \in Seq(S), NEW n \in Nat, n <= Len(il)
  PROVE  popn_front(n, il) \in Seq(S) /\ Part(popn_front(n, il), n, Len(il) - n, il)
<1> DEFINE Eq(f) == f = [k \in 0 .. n |-> IF k = 0 THEN il ELSE pop_front(f[k - 1])]
           c == [k \in 0 .. n |-> [i \in 1 .. Len(il) - k |-> il[k + i]]]
<1>0. Len(il) \in Nat /\ n \in Nat /\ n <= Len(il) /\ \A i \in 1 .. Len(il) : il[i] \in S
  BY LenProperties, ElementOfSeq
<1>1. c[0] = il
  BY <1>0
<1>2. ASSUME NEW k \in 1 .. n PROVE c[k] = pop_front(c[k - 1])
  <2>1. c[k - 1] \in Seq(S) /\ Len(c[k - 1]) = Len(il) - k + 1
    BY <1>0, SMTT(30)
  <2>2. Len(c[k - 1]) > 0
    BY <1>0, <2>1
  <2>3. /\ c[k] \in [1 .. Len(c[k - 1]) - 1 -> S]
        /\ \A i \in 1 .. Len(c[k - 1]) - 1 : c[k][i] = c[k - 1][i + 1]
    BY <1>0, <2>1
  <2> HIDE DEF c
  <2>4. pop_front(c[k - 1]) = c[k]
    BY ONLY <2>1, <2>2, <2>3, PopFrontIs
  <2>5. QED
    BY <2>4
<1>3. c = [k \in 0 .. n |-> c[k]] /\ c[n] = [i \in 1 .. Len(il) - n |-> il[n + i]]
  BY <1>0
<1>4. Eq(c)
  <2> HIDE DEF c
  <2>1. ASSUME NEW k \in 0 .. n
        PROVE  c[k] = IF k = 0 THEN il ELSE pop_front(c[k - 1])
    <3>1. CASE k = 0
      BY <1>1, <3>1
    <3>2. CASE k # 0
      BY <1>0, <1>2, <3>2
    <3>3. QED
      BY <3>1, <3>2
  <2>2. QED
    BY <2>1, <1>3
<1>5. popn_front(n, il) = (CHOOSE f : Eq(f))[n]
  BY DEF popn_front
<1>6. PICK f : Eq(f) /\ popn_front(n, il) = f[n]
  <2> HIDE DEF Eq
  <2> QED BY <1>4, <1>5
<1>7. \A k \in 0 .. n : f[k] = IF k = 0 THEN il ELSE pop_front(f[k - 1])
  BY <1>6, Zenon
<1>8. f[n] = c[n]
  <2> HIDE DEF c, Eq
  <2>1. n \in Nat
    BY <1>0
  <2>2. f[0] = c[0]
    BY <1>1, <1>7, <2>1
  <2>3. ASSUME NEW k \in 1 .. n, f[k - 1] = c[k - 1] PROVE f[k] = c[k]
    BY <1>2, <1>7, <2>1, <2>3
  <2>4. SameSteps(n, f, c)
    BY <2>2, <2>3 DEF SameSteps
  <2>5. \A k \in 0 .. n : f[k] = c[k]
    BY ONLY <2>1, <2>4, StepsAgree
  <2>6. QED
    BY <2>1, <2>5
<1>9. ASSUME NEW r, r = [i \in 1 .. Len(il) - n |-> il[n + i]]
      PROVE r \in Seq(S) /\ Part(r, n, Len(il) - n, il)
  BY <1>0, <1>9 DEF Part
<1>10. QED
  <2> HIDE DEF c, Eq
  <2>1. popn_front(n, il) = [i \in 1 .. Len(il) - n |-> il[n + i]]
    BY <1>3, <1>6, <1>8, Zenon
  <2>2. QED
    BY <1>9, <2>1, Zenon

\* All but the last.
LEMMA PopBackIs ==
  ASSUME NEW S, NEW il \in Seq(S), Len(il) > 0
  PROVE  pop_back(il) \in Seq(S) /\ Part(pop_back(il), 0, Len(il) - 1, il)
<1>1. PICK a : a = reverse(il) /\ a \in Seq(S) /\ Reversed(a, il)
  BY ReverseIs, Zenon
<1>2. PICK b : b = Tail(a)
  OBVIOUS
<1>3. b \in Seq(S) /\ Len(b) = Len(il) - 1 /\ \A i \in 1 .. Len(b) : b[i] = a[i + 1]
  BY <1>1, <1>2, LenProperties DEF Reversed
<1>4. PICK r : r = reverse(b) /\ r \in Seq(S) /\ Reversed(r, b)
  BY <1>3, ReverseIs, Zenon
<1>5. pop_back(il) = r
  BY <1>1, <1>2, <1>4, Zenon DEF pop_back, pop_front
<1>6. ASSUME NEW i \in 1 .. Len(il) - 1 PROVE r[i] = il[0 + i]
  <2>1. Len(il) \in Nat /\ i \in 1 .. Len(b) /\ Len(b) + 1 - i \in 1 .. Len(b)
    BY <1>3, LenProperties
  <2>2. r[i] = b[Len(b) + 1 - i]
    BY <1>4, <2>1 DEF Reversed
  <2>3. b[Len(b) + 1 - i] = a[Len(b) + 1 - i + 1]
    BY <1>3, <2>1
  <2>4. /\ Len(b) + 1 - i + 1 \in 1 .. Len(il)
        /\ Len(il) + 1 - (Len(b) + 1 - i + 1) = 0 + i
    BY <1>3, <2>1
  <2>5. a[Len(b) + 1 - i + 1] = il[Len(il) + 1 - (Len(b) + 1 - i + 1)]
    BY <1>1, <2>4 DEF Reversed
  <2>6. QED
    BY <2>2, <2>3, <2>4, <2>5
<1>7. QED
  BY <1>3, <1>4, <1>5, <1>6 DEF Part, Reversed

\* All but the last n.
LEMMA PopnBackIs ==
  ASSUME NEW S, NEW il \in Seq(S), NEW n \in Nat, n <= Len(il)
  PROVE  popn_back(n, il) \in Seq(S) /\ Part(popn_back(n, il), 0, Len(il) - n, il)
<1> DEFINE Eq(f) == f = [k \in 0 .. n |-> IF k = 0 THEN il ELSE pop_back(f[k - 1])]
           c == [k \in 0 .. n |-> [i \in 1 .. Len(il) - k |-> il[i]]]
<1>0. Len(il) \in Nat /\ n \in Nat /\ n <= Len(il) /\ \A i \in 1 .. Len(il) : il[i] \in S
  BY LenProperties, ElementOfSeq
<1>1. c[0] = il
  BY <1>0
<1>2. ASSUME NEW k \in 1 .. n PROVE c[k] = pop_back(c[k - 1])
  <2>1. c[k - 1] \in Seq(S) /\ Len(c[k - 1]) = Len(il) - k + 1
    BY <1>0, SMTT(30)
  <2>2. Len(c[k - 1]) > 0
    BY <1>0, <2>1
  <2>3. /\ c[k] \in Seq(S) /\ Len(c[k]) = Len(c[k - 1]) - 1
        /\ \A i \in 1 .. Len(c[k - 1]) - 1 : c[k][i] = c[k - 1][i]
    BY <1>0, <2>1
  <2> HIDE DEF c
  <2>4. PICK r : r = pop_back(c[k - 1]) /\ r \in Seq(S) /\ Part(r, 0, Len(c[k - 1]) - 1, c[k - 1])
    BY <2>1, <2>2, PopBackIs, Zenon
  <2>5. r = c[k]
    <3>1. Len(r) = Len(c[k]) /\ \A i \in 1 .. Len(r) : r[i] = c[k][i]
      BY <2>1, <2>3, <2>4 DEF Part
    <3>2. QED
      BY ONLY <2>3, <2>4, <3>1, SameSeq
  <2>6. QED
    BY <2>4, <2>5
<1>3. c = [k \in 0 .. n |-> c[k]] /\ c[n] = [i \in 1 .. Len(il) - n |-> il[i]]
  BY <1>0
<1>4. Eq(c)
  <2> HIDE DEF c
  <2>1. ASSUME NEW k \in 0 .. n
        PROVE  c[k] = IF k = 0 THEN il ELSE pop_back(c[k - 1])
    <3>1. CASE k = 0
      BY <1>1, <3>1
    <3>2. CASE k # 0
      BY <1>0, <1>2, <3>2
    <3>3. QED
      BY <3>1, <3>2
  <2>2. QED
    BY <2>1, <1>3
<1>5. popn_back(n, il) = (CHOOSE f : Eq(f))[n]
  BY DEF popn_back
<1>6. PICK f : Eq(f) /\ popn_back(n, il) = f[n]
  <2> HIDE DEF Eq
  <2> QED BY <1>4, <1>5
<1>7. \A k \in 0 .. n : f[k] = IF k = 0 THEN il ELSE pop_back(f[k - 1])
  BY <1>6, Zenon
<1>8. f[n] = c[n]
  <2> HIDE DEF c, Eq
  <2>1. n \in Nat
    BY <1>0
  <2>2. f[0] = c[0]
    BY <1>1, <1>7, <2>1
  <2>3. ASSUME NEW k \in 1 .. n, f[k - 1] = c[k - 1] PROVE f[k] = c[k]
    BY <1>2, <1>7, <2>1, <2>3
  <2>4. SameSteps(n, f, c)
    BY <2>2, <2>3 DEF SameSteps
  <2>5. \A k \in 0 .. n : f[k] = c[k]
    BY ONLY <2>1, <2>4, StepsAgree
  <2>6. QED
    BY <2>1, <2>5
<1>9. ASSUME NEW r, r = [i \in 1 .. Len(il) - n |-> il[i]]
      PROVE r \in Seq(S) /\ Part(r, 0, Len(il) - n, il)
  BY <1>0, <1>9 DEF Part
<1>10. QED
  <2> HIDE DEF c, Eq
  <2>1. popn_back(n, il) = [i \in 1 .. Len(il) - n |-> il[i]]
    BY <1>3, <1>6, <1>8, Zenon
  <2>2. QED
    BY <1>9, <2>1, Zenon

\* The indices of both lists.
LEMMA AppendListIs ==
  ASSUME NEW S, NEW il1 \in Seq(S), NEW il2 \in Seq(S)
  PROVE  append(il1, il2) \in Seq(S) /\ Joins(append(il1, il2), il1, il2)
<1> DEFINE Eq(f) == f = [k \in 0 .. Len(il2) |-> IF k = 0 THEN il1 ELSE push_back(il2[k], f[k - 1])]
           c == [k \in 0 .. Len(il2) |-> [i \in 1 .. Len(il1) + k |->
                    IF i <= Len(il1) THEN il1[i] ELSE il2[i - Len(il1)]]]
<1>0. /\ Len(il1) \in Nat /\ Len(il2) \in Nat
      /\ \A i \in 1 .. Len(il1) : il1[i] \in S
      /\ \A i \in 1 .. Len(il2) : il2[i] \in S
  BY LenProperties, ElementOfSeq
<1>1. c[0] = il1
  BY <1>0
<1>2. ASSUME NEW k \in 1 .. Len(il2) PROVE c[k] = push_back(il2[k], c[k - 1])
  <2>1. c[k - 1] \in Seq(S) /\ Len(c[k - 1]) = (Len(il1) + k) - 1
    BY <1>0, SMTT(30)
  <2>2. c[k] \in Seq(S) /\ Len(c[k]) = (Len(il1) + k)
    BY <1>0, SMTT(30)
  <2>3. c[k][(Len(il1) + k)] = il2[k] /\ \A i \in 1 .. (Len(il1) + k) - 1 : c[k][i] = c[k - 1][i]
    BY <1>0, SMTT(30)
  <2> HIDE DEF c
  <2>4. il2[k] \in S /\ (Len(il1) + k) \in Nat
    BY <1>0
  <2>5. Len(c[k]) = Len(c[k - 1]) + 1 /\ c[k][Len(c[k])] = il2[k]
        /\ \A i \in 1 .. Len(c[k - 1]) : c[k][i] = c[k - 1][i]
    BY <2>1, <2>2, <2>3, <2>4, SMTT(30)
  <2>6. ASSUME NEW s, NEW t, NEW x, s = c[k - 1], t = c[k], x = il2[k]
        PROVE  push_back(x, s) = t
    <3>1. s \in Seq(S) /\ t \in Seq(S) /\ x \in S
      BY <2>1, <2>2, <2>4, <2>6
    <3>2. PushedBack(t, x, s)
      BY <2>5, <2>6 DEF PushedBack
    <3>3. QED
      BY ONLY <3>1, <3>2, PushBackIs, Zenon
  <2>7. QED
    BY <2>6
<1>3. /\ c = [k \in 0 .. Len(il2) |-> c[k]]
      /\ c[Len(il2)] = [i \in 1 .. Len(il1) + Len(il2) |->
                         IF i <= Len(il1) THEN il1[i] ELSE il2[i - Len(il1)]]
  BY <1>0
<1>4. Eq(c)
  <2> HIDE DEF c
  <2>1. ASSUME NEW k \in 0 .. Len(il2)
        PROVE  c[k] = IF k = 0 THEN il1 ELSE push_back(il2[k], c[k - 1])
    <3>1. CASE k = 0
      BY <1>1, <3>1
    <3>2. CASE k # 0
      BY <1>0, <1>2, <3>2
    <3>3. QED
      BY <3>1, <3>2
  <2>2. QED
    BY <2>1, <1>3
<1>5. append(il1, il2) = (CHOOSE f : Eq(f))[Len(il2)]
  BY DEF append
<1>6. PICK f : Eq(f) /\ append(il1, il2) = f[Len(il2)]
  <2> HIDE DEF Eq
  <2> QED BY <1>4, <1>5
<1>7. \A k \in 0 .. Len(il2) : f[k] = IF k = 0 THEN il1 ELSE push_back(il2[k], f[k - 1])
  BY <1>6, Zenon
<1>8. f[Len(il2)] = c[Len(il2)]
  <2> HIDE DEF c, Eq
  <2>1. Len(il2) \in Nat
    BY <1>0
  <2>2. f[0] = c[0]
    BY <1>1, <1>7, <2>1
  <2>3. ASSUME NEW k \in 1 .. Len(il2), f[k - 1] = c[k - 1] PROVE f[k] = c[k]
    BY <1>2, <1>7, <2>1, <2>3
  <2>4. SameSteps(Len(il2), f, c)
    BY <2>2, <2>3 DEF SameSteps
  <2>5. \A k \in 0 .. Len(il2) : f[k] = c[k]
    BY ONLY <2>1, <2>4, StepsAgree
  <2>6. QED
    BY <2>1, <2>5
<1>9. ASSUME NEW r, r = [i \in 1 .. Len(il1) + Len(il2) |->
              IF i <= Len(il1) THEN il1[i] ELSE il2[i - Len(il1)]]
      PROVE r \in Seq(S) /\ Joins(r, il1, il2)
  BY <1>0, <1>9 DEF Joins
<1>10. QED
  <2> HIDE DEF c, Eq
  <2>1. append(il1, il2) = [i \in 1 .. Len(il1) + Len(il2) |->
              IF i <= Len(il1) THEN il1[i] ELSE il2[i - Len(il1)]]
    BY <1>3, <1>6, <1>8, Zenon
  <2>2. QED
    BY <1>9, <2>1, Zenon

\* Each index with 1 added.
LEMMA Add1Is ==
  ASSUME NEW il \in Seq(Nat)
  PROVE  add1(il) \in Seq(Nat) /\ Successors(add1(il), il)
<1> DEFINE Eq(f) == f =
             [k \in 0 .. Len(il) |->
                IF k = 0 THEN <<>> ELSE push_front(il[Len(il) + 1 - k] + 1, f[k - 1])]
           c == [k \in 0 .. Len(il) |-> [i \in 1 .. k |-> il[Len(il) - (k) + i] + 1]]
<1>0. Len(il) \in Nat /\ \A i \in 1 .. Len(il) : il[i] + 1 \in Nat
  BY LenProperties, ElementOfSeq
<1>1. c[0] = <<>>
  BY <1>0
<1>2. ASSUME NEW k \in 1 .. Len(il) PROVE c[k] = push_front(il[Len(il) + 1 - k] + 1, c[k - 1])
  <2>1. c[k - 1] \in Seq(Nat) /\ Len(c[k - 1]) = k - 1
    <3>1. \A i \in 1 .. k - 1 : il[Len(il) - (k - 1) + i] + 1 \in Nat
      BY <1>0, SMTT(30)
    <3>2. QED
      BY <1>0, <3>1
  <2>2. c[k] \in Seq(Nat) /\ Len(c[k]) = k
    BY <1>0, SMTT(30)
  <2>3. c[k][1] = (il[Len(il) + 1 - k] + 1) /\ \A i \in 1 .. k - 1 : c[k][i + 1] = c[k - 1][i]
    BY <1>0, SMTT(30)
  <2> HIDE DEF c
  <2>4. (il[Len(il) + 1 - k] + 1) \in Nat /\ k \in Nat
    BY <1>0
  <2>5. Len(c[k]) = Len(c[k - 1]) + 1
        /\ \A i \in 1 .. Len(c[k - 1]) : c[k][i + 1] = c[k - 1][i]
    BY <2>1, <2>2, <2>3, <2>4, SMTT(30)
  <2>6. ASSUME NEW s, NEW t, NEW x, s = c[k - 1], t = c[k], x = (il[Len(il) + 1 - k] + 1)
        PROVE  push_front(x, s) = t
    <3>1. s \in Seq(Nat) /\ t \in Seq(Nat) /\ x \in Nat
      BY <2>1, <2>2, <2>4, <2>6
    <3>2. PushedFront(t, x, s)
      BY <2>3, <2>5, <2>6 DEF PushedFront
    <3>3. QED
      BY ONLY <3>1, <3>2, PushFrontIs, Zenon
  <2>7. QED
    BY <2>6
<1>3. /\ c = [k \in 0 .. Len(il) |-> c[k]]
      /\ c[Len(il)] = [i \in 1 .. Len(il) |-> il[Len(il) - (Len(il)) + i] + 1]
  BY <1>0
<1>4. Eq(c)
  <2> HIDE DEF c
  <2>1. ASSUME NEW k \in 0 .. Len(il)
        PROVE  c[k] = IF k = 0 THEN <<>> ELSE push_front(il[Len(il) + 1 - k] + 1, c[k - 1])
    <3>1. CASE k = 0
      BY <1>1, <3>1
    <3>2. CASE k # 0
      BY <1>0, <1>2, <3>2
    <3>3. QED
      BY <3>1, <3>2
  <2>2. QED
    BY <2>1, <1>3
<1>5. add1(il) = (CHOOSE f : Eq(f))[Len(il)]
  BY DEF add1
<1>6. PICK f : Eq(f) /\ add1(il) = f[Len(il)]
  <2> HIDE DEF Eq
  <2> QED BY <1>4, <1>5
<1>7. \A k \in 0 .. Len(il) : f[k] =
      IF k = 0 THEN <<>> ELSE push_front(il[Len(il) + 1 - k] + 1, f[k - 1])
  BY <1>6, Zenon
<1>8. f[Len(il)] = c[Len(il)]
  <2> HIDE DEF c, Eq
  <2>1. Len(il) \in Nat
    BY <1>0
  <2>2. f[0] = c[0]
    BY <1>1, <1>7, <2>1
  <2>3. ASSUME NEW k \in 1 .. Len(il), f[k - 1] = c[k - 1] PROVE f[k] = c[k]
    BY <1>2, <1>7, <2>1, <2>3
  <2>4. SameSteps(Len(il), f, c)
    BY <2>2, <2>3 DEF SameSteps
  <2>5. \A k \in 0 .. Len(il) : f[k] = c[k]
    BY ONLY <2>1, <2>4, StepsAgree
  <2>6. QED
    BY <2>1, <2>5
<1>9. ASSUME NEW r, r = [i \in 1 .. Len(il) |-> il[Len(il) - (Len(il)) + i] + 1]
      PROVE r \in Seq(Nat) /\ Successors(r, il)
  BY <1>0, <1>9 DEF Successors
<1>10. QED
  <2> HIDE DEF c, Eq
  <2>1. add1(il) = [i \in 1 .. Len(il) |-> il[Len(il) - (Len(il)) + i] + 1]
    BY <1>3, <1>6, <1>8, Zenon
  <2>2. QED
    BY <1>9, <2>1, Zenon

\* The last index.
LEMMA BackIs ==
  ASSUME NEW S, NEW il \in Seq(S), Len(il) > 0
  PROVE  back(il) = <<il[Len(il)]>>
<1>1. PICK a : a = reverse(il) /\ a \in Seq(S) /\ Reversed(a, il)
  BY ReverseIs, Zenon
<1>2. Head(a) = il[Len(il)]
  BY <1>1, LenProperties DEF Reversed
<1>3. QED
  BY <1>1, <1>2, Zenon DEF back, front

\* The first n indices.
LEMMA FirstnIs ==
  ASSUME NEW S, NEW il \in Seq(S), NEW n \in Nat, n <= Len(il)
  PROVE  firstn(n, il) \in Seq(S) /\ Part(firstn(n, il), 0, n, il)
<1>1. PICK m \in Nat : m = Len(il) - n
  BY LenProperties
<1>2. m <= Len(il) /\ Len(il) - m = n
  BY <1>1, LenProperties
<1>3. popn_back(m, il) \in Seq(S) /\ Part(popn_back(m, il), 0, Len(il) - m, il)
  BY <1>2, PopnBackIs, Zenon
<1>4. QED
  BY <1>1, <1>2, <1>3, Zenon DEF firstn

\* The last n indices.
LEMMA LastnIs ==
  ASSUME NEW S, NEW il \in Seq(S), NEW n \in Nat, n <= Len(il)
  PROVE  lastn(n, il) \in Seq(S) /\ Part(lastn(n, il), Len(il) - n, n, il)
<1>1. PICK a : a = reverse(il) /\ a \in Seq(S) /\ Reversed(a, il)
  BY ReverseIs, Zenon
<1>2. n <= Len(a)
  BY <1>1 DEF Reversed
<1>3. PICK b : b = firstn(n, a) /\ b \in Seq(S) /\ Part(b, 0, n, a)
  BY <1>1, <1>2, FirstnIs, Zenon
<1>4. PICK r : r = reverse(b) /\ r \in Seq(S) /\ Reversed(r, b)
  BY <1>3, ReverseIs, Zenon
<1>5. lastn(n, il) = r
  BY <1>1, <1>3, <1>4, Zenon DEF lastn
<1>6. ASSUME NEW i \in 1 .. n PROVE r[i] = il[Len(il) - n + i]
  <2>1. /\ Len(il) \in Nat /\ n + 1 - i \in 1 .. n /\ 0 + (n + 1 - i) \in 1 .. Len(il)
        /\ Len(il) + 1 - (0 + (n + 1 - i)) = Len(il) - n + i
    BY LenProperties
  <2>2. r[i] = b[n + 1 - i] /\ b[n + 1 - i] = a[0 + (n + 1 - i)]
    BY <1>3, <1>4, <2>1 DEF Part, Reversed
  <2>3. a[0 + (n + 1 - i)] = il[Len(il) + 1 - (0 + (n + 1 - i))]
    BY <1>1, <2>1 DEF Reversed
  <2>4. QED
    BY <2>1, <2>2, <2>3
<1>7. Len(r) = n
  BY <1>3, <1>4 DEF Part, Reversed
<1>8. QED
  BY <1>4, <1>5, <1>6, <1>7 DEF Part

\* n indices after the first ind.
LEMMA SliceIs ==
  ASSUME NEW S, NEW il \in Seq(S), NEW ind \in Nat, NEW n \in Nat, ind + n <= Len(il)
  PROVE  slice(ind, n, il) \in Seq(S) /\ Part(slice(ind, n, il), ind, n, il)
<1>1. ind <= Len(il) /\ Len(il) \in Nat
  BY LenProperties
<1>2. PICK a : a = popn_front(ind, il) /\ a \in Seq(S) /\ Part(a, ind, Len(il) - ind, il)
  BY <1>1, PopnFrontIs, Zenon
<1>3. PICK m \in Nat : m = Len(a) - n
  <2>1. Len(a) - n \in Nat
    BY <1>1, <1>2 DEF Part
  <2>2. QED
    BY <2>1
<1>4. m <= Len(a) /\ Len(a) - m = n /\ Len(a) = Len(il) - ind
  BY <1>1, <1>2, <1>3 DEF Part
<1>5. PICK r : r = popn_back(m, a) /\ r \in Seq(S) /\ Part(r, 0, Len(a) - m, a)
  BY <1>2, <1>4, PopnBackIs, Zenon
<1>6. slice(ind, n, il) = r
  BY <1>2, <1>3, <1>5, Zenon DEF slice
<1>7. ASSUME NEW i \in 1 .. n PROVE r[i] = il[ind + i]
  BY <1>1, <1>2, <1>4, <1>5 DEF Part
<1>8. Len(r) = n
  BY <1>4, <1>5 DEF Part
<1>9. QED
  BY <1>5, <1>6, <1>7, <1>8 DEF Part

\* n indices after the first ind are reversed where they are.
LEMMA ReverseSliceIs ==
  ASSUME NEW S, NEW il \in Seq(S), NEW ind \in Nat, NEW n \in Nat, ind + n <= Len(il)
  PROVE  reverse_slice(ind, n, il) \in Seq(S) /\ TurnedAt(reverse_slice(ind, n, il), ind, n, il)
<1>1. PICK j \in Nat : j = ind + n
  OBVIOUS
<1>2. PICK m \in Nat : m = Len(il) - j
  <2>1. Len(il) - j \in Nat
    BY <1>1, LenProperties
  <2>2. QED
    BY <2>1
<1>3. Len(il) \in Nat /\ 0 \in Nat /\ 0 + ind <= Len(il) /\ j + m <= Len(il)
  BY <1>1, <1>2, LenProperties
<1>4. PICK left : left = slice(0, ind, il) /\ left \in Seq(S) /\ Part(left, 0, ind, il)
  BY <1>3, SliceIs, Zenon
<1>5. PICK a : a = slice(ind, n, il) /\ a \in Seq(S) /\ Part(a, ind, n, il)
  BY SliceIs, Zenon
<1>6. PICK mid : mid = reverse(a) /\ mid \in Seq(S) /\ Reversed(mid, a)
  BY <1>5, ReverseIs, Zenon
<1>7. PICK right : right = slice(j, m, il) /\ right \in Seq(S) /\ Part(right, j, m, il)
  BY <1>3, SliceIs, Zenon
<1>8. PICK b : b = append(left, mid) /\ b \in Seq(S) /\ Joins(b, left, mid)
  BY <1>4, <1>6, AppendListIs, Zenon
<1>9. PICK r : r = append(b, right) /\ r \in Seq(S) /\ Joins(r, b, right)
  BY <1>7, <1>8, AppendListIs, Zenon
<1>10. reverse_slice(ind, n, il) = r
  BY <1>1, <1>2, <1>4, <1>5, <1>6, <1>7, <1>8, <1>9, Zenon DEF reverse_slice
<1>11. Len(left) = ind /\ Len(a) = n /\ Len(mid) = n /\ Len(right) = m
  BY <1>4, <1>5, <1>6, <1>7 DEF Part, Reversed
<1>12. Len(b) = j /\ Len(r) = Len(il)
  BY <1>1, <1>2, <1>3, <1>8, <1>9, <1>11 DEF Joins
<1>13. ASSUME NEW i \in 1 .. ind PROVE r[i] = il[i]
  <2>1. i \in 1 .. Len(b) /\ 0 + i = i
    BY <1>1, <1>12
  <2>2. r[i] = b[i] /\ b[i] = left[i] /\ left[i] = il[0 + i]
    BY <1>4, <1>8, <1>9, <1>11, <2>1 DEF Joins, Part
  <2>3. QED
    BY <2>1, <2>2
<1>14. ASSUME NEW i \in ind + 1 .. ind + n PROVE r[i] = il[2 * ind + n + 1 - i]
  <2>1. PICK k \in 1 .. n : i = ind + k
    <3>1. i - ind \in 1 .. n /\ i = ind + (i - ind)
      BY <1>14
    <3>2. QED
      BY <3>1
  <2>2. i \in 1 .. Len(b) /\ n + 1 - k \in 1 .. n /\ ind + (n + 1 - k) = 2 * ind + n + 1 - i
    BY <1>1, <1>12, <2>1
  <2>3. r[i] = b[i]
    BY <1>9, <2>2 DEF Joins
  <2>4. b[i] = mid[k]
    BY <1>8, <1>11, <2>1 DEF Joins
  <2>5. mid[k] = a[n + 1 - k]
    BY <1>6, <1>11, <2>1 DEF Reversed
  <2>6. a[n + 1 - k] = il[ind + (n + 1 - k)]
    BY <1>5, <2>2 DEF Part
  <2>7. QED
    BY <2>2, <2>3, <2>4, <2>5, <2>6
<1>15. ASSUME NEW i \in j + 1 .. Len(il) PROVE r[i] = il[i]
  <2>1. PICK k \in 1 .. m : i = j + k
    <3>1. i - j \in 1 .. m /\ i = j + (i - j)
      BY <1>2, <1>3
    <3>2. QED
      BY <3>1
  <2>2. r[i] = right[k]
    BY <1>9, <1>11, <1>12, <2>1 DEF Joins
  <2>3. right[k] = il[j + k]
    BY <1>7 DEF Part
  <2>4. QED
    BY <2>1, <2>2, <2>3
<1>16. ASSUME NEW i \in 1 .. Len(il)
       PROVE  r[i] = il[IF i \in ind + 1 .. ind + n THEN 2 * ind + n + 1 - i ELSE i]
  <2>1. i \in 1 .. ind \/ i \in ind + 1 .. ind + n \/ i \in j + 1 .. Len(il)
    BY <1>1, <1>3
  <2>2. i \in 1 .. ind \/ i \in j + 1 .. Len(il) => i \notin ind + 1 .. ind + n
    BY <1>1, <1>3
  <2>3. QED
    BY <1>13, <1>14, <1>15, <2>1, <2>2, Zenon
<1>17. QED
  BY <1>9, <1>10, <1>12, <1>16 DEF TurnedAt

\* The first n indices move behind the others.
LEMMA RotateLeftIs ==
  ASSUME NEW S, NEW il \in Seq(S), NEW n \in Nat, n <= Len(il)
  PROVE  rotate_left(n, il) \in Seq(S) /\ Rotated(rotate_left(n, il), n, il)
<1>1. PICK m \in Nat : m = Len(il) - n
  BY LenProperties
<1>2. Len(il) \in Nat /\ n + m = Len(il) /\ n + m <= Len(il) /\ 0 \in Nat /\ 0 + n <= Len(il)
  BY <1>1, LenProperties
<1>3. PICK a : a = reverse_slice(0, n, il) /\ a \in Seq(S) /\ TurnedAt(a, 0, n, il)
  BY <1>2, ReverseSliceIs, Zenon
<1>4. PICK b : b = reverse_slice(n, m, il) /\ b \in Seq(S) /\ TurnedAt(b, n, m, il)
  BY <1>2, ReverseSliceIs, Zenon
<1>5. 0 + n <= Len(a) /\ n + m <= Len(b)
  BY <1>2, <1>3, <1>4 DEF TurnedAt
<1>6. PICK r1 : r1 = slice(0, n, a) /\ r1 \in Seq(S) /\ Part(r1, 0, n, a)
  BY <1>2, <1>3, <1>5, SliceIs, Zenon
<1>7. PICK r2 : r2 = slice(n, m, b) /\ r2 \in Seq(S) /\ Part(r2, n, m, b)
  BY <1>4, <1>5, SliceIs, Zenon
<1>8. PICK c : c = append(r1, r2) /\ c \in Seq(S) /\ Joins(c, r1, r2)
  BY <1>6, <1>7, AppendListIs, Zenon
<1>9. PICK r : r = reverse(c) /\ r \in Seq(S) /\ Reversed(r, c)
  BY <1>8, ReverseIs, Zenon
<1>10. rotate_left(n, il) = r
  BY <1>1, <1>3, <1>4, <1>6, <1>7, <1>8, <1>9, Zenon DEF rotate_left
<1>11. Len(r1) = n /\ Len(r2) = m /\ Len(c) = Len(il) /\ Len(r) = Len(il)
  BY <1>2, <1>6, <1>7, <1>8, <1>9 DEF Part, Joins, Reversed
<1>12. ASSUME NEW i \in 1 .. n PROVE r1[i] = il[n + 1 - i]
  <2>1. 0 + i \in 1 .. Len(il) /\ 0 + i \in 0 + 1 .. 0 + n /\ 2 * 0 + n + 1 - (0 + i) = n + 1 - i
    BY <1>2
  <2>2. r1[i] = a[0 + i]
    BY <1>6 DEF Part
  <2>3. a[0 + i] = il[2 * 0 + n + 1 - (0 + i)]
    BY <1>3, <2>1, Zenon DEF TurnedAt
  <2>4. QED
    BY <2>1, <2>2, <2>3
<1>13. ASSUME NEW i \in 1 .. m PROVE r2[i] = il[Len(il) + 1 - i]
  <2>1. n + i \in 1 .. Len(il) /\ n + i \in n + 1 .. n + m /\ 2 * n + m + 1 - (n + i) = Len(il) + 1 - i
    BY <1>2
  <2>2. r2[i] = b[n + i]
    BY <1>7 DEF Part
  <2>3. b[n + i] = il[2 * n + m + 1 - (n + i)]
    BY <1>4, <2>1, Zenon DEF TurnedAt
  <2>4. QED
    BY <2>1, <2>2, <2>3
<1>14. ASSUME NEW i \in 1 .. Len(il)
       PROVE  r[i] = il[IF i <= Len(il) - n THEN n + i ELSE i - (Len(il) - n)]
  <2>1. r[i] = c[Len(il) + 1 - i]
    BY <1>9, <1>11 DEF Reversed
  <2>2. CASE i <= Len(il) - n
    <3>1. PICK k \in 1 .. m : Len(il) + 1 - i = n + k
      <4>1. m + 1 - i \in 1 .. m /\ Len(il) + 1 - i = n + (m + 1 - i)
        BY <1>2, <2>2
      <4>2. QED
        BY <4>1
    <3>2. c[n + k] = r2[k]
      BY <1>8, <1>11 DEF Joins
    <3>3. r2[k] = il[Len(il) + 1 - k] /\ Len(il) + 1 - k = n + i
      BY <1>2, <1>13, <3>1
    <3>4. QED
      BY <2>1, <2>2, <3>1, <3>2, <3>3
  <2>3. CASE ~(i <= Len(il) - n)
    <3>1. PICK k \in 1 .. n : Len(il) + 1 - i = k
      BY <1>2, <2>3
    <3>2. c[k] = r1[k]
      BY <1>8, <1>11 DEF Joins
    <3>3. r1[k] = il[n + 1 - k] /\ n + 1 - k = i - (Len(il) - n)
      BY <1>2, <1>12, <3>1
    <3>4. QED
      BY <2>1, <2>3, <3>1, <3>2, <3>3
  <2>4. QED
    BY <2>2, <2>3
<1>15. QED
  BY <1>9, <1>10, <1>11, <1>14 DEF Rotated

(***************************************************************************)
(* Tuples.                                                                 *)
(***************************************************************************)
\* The indices of a tuple count from 0.
LEMMA TupleIndices ==
  ASSUME NEW S, NEW tu \in Seq(S)
  PROVE  /\ make_indlist_from_tuple(tu) \in Seq(Nat)
         /\ Counts(make_indlist_from_tuple(tu), 0, Len(tu) - 1)
<1>1. CASE tu = <<>>
  BY <1>1 DEF make_indlist_from_tuple, Counts
<1>2. CASE tu # <<>>
  <2>1. PICK n \in Nat : n = Len(tu) - 1
    <3>1. Len(tu) - 1 \in Nat
      BY <1>2, EmptySeq, LenProperties
    <3>2. QED
      BY <3>1
  <2>2. 0 \in Nat /\ 0 <= n
    BY <2>1
  <2>3. make_indlist_from_range(0, n) \in Seq(Nat) /\ Counts(make_indlist_from_range(0, n), 0, n)
    BY <2>2, RangeIs, Zenon
  <2>4. QED
    BY <1>2, <2>1, <2>3, Zenon DEF make_indlist_from_tuple
<1>3. QED
  BY <1>1, <1>2

\* SubSeq, Reverse and \o in the same terms as the lists of indices.
LEMMA SubSeqIs ==
  ASSUME NEW S, NEW s \in Seq(S), NEW ind \in Nat, NEW n \in Nat, ind + n <= Len(s),
         NEW first, first = ind + 1, NEW last, last = ind + n
  PROVE  SubSeq(s, first, last) \in Seq(S) /\ Part(SubSeq(s, first, last), ind, n, s)
<1>1. Len(s) \in Nat /\ first \in Int /\ last \in Int /\ \A i \in 1 .. n : s[ind + i] \in S
  <2>1. \A i \in 1 .. n : ind + i \in 1 .. Len(s)
    BY LenProperties
  <2>2. QED
    BY <2>1, ElementOfSeq, LenProperties
<1>2. SubSeq(s, first, last) = [i \in 1 .. n |-> s[ind + i]]
  BY <1>1
<1>3. ASSUME NEW r, r = [i \in 1 .. n |-> s[ind + i]] PROVE r \in Seq(S) /\ Part(r, ind, n, s)
  BY <1>1, <1>3 DEF Part
<1>4. QED
  BY <1>2, <1>3, Zenon

\* Reverse reverses.
LEMMA ReverseReverses ==
  ASSUME NEW S, NEW s \in Seq(S)
  PROVE  Reverse(s) \in Seq(S) /\ Reversed(Reverse(s), s)
<1>1. Len(s) \in Nat /\ \A i \in 1 .. Len(s) : s[Len(s) - i + 1] \in S
  BY LenProperties, ElementOfSeq
<1>2. Reverse(s) = [i \in 1 .. Len(s) |-> s[Len(s) - i + 1]]
  BY DEF Reverse
<1>3. ASSUME NEW r, r = [i \in 1 .. Len(s) |-> s[Len(s) - i + 1]]
      PROVE  r \in Seq(S) /\ Reversed(r, s)
  <2>1. r \in Seq(S) /\ Len(r) = Len(s)
    BY <1>1, <1>3
  <2>2. ASSUME NEW i \in 1 .. Len(s) PROVE r[i] = s[Len(s) + 1 - i]
    <3>1. Len(s) - i + 1 = Len(s) + 1 - i
      BY <1>1
    <3>2. QED
      BY <1>3, <3>1
  <2>3. QED
    BY <2>1, <2>2 DEF Reversed
<1>4. QED
  BY <1>2, <1>3, Zenon

\* A concatenation joins its two parts.
LEMMA ConcatJoins ==
  ASSUME NEW S, NEW a \in Seq(S), NEW b \in Seq(S)
  PROVE  a \o b \in Seq(S) /\ Joins(a \o b, a, b)
BY DEF Joins

\* The elements of tu that r names are those of s.
Names(r, tu, s) == Len(r) = Len(s) /\ \A k \in 1 .. Len(s) : tu[r[k] + 1] = s[k]

\* A transformed tuple is known from its elements.
LEMMA TransformIs ==
  ASSUME NEW S, NEW tu, NEW r \in Seq(Nat), NEW s \in Seq(S), Names(r, tu, s)
  PROVE  transform_tuple(r, tu) = s
<1>1. DOMAIN r = 1 .. Len(s) /\ s = [k \in 1 .. Len(s) |-> s[k]]
  BY LenProperties DEF Names
<1>2. transform_tuple(r, tu) = [k \in 1 .. Len(s) |-> tu[r[k] + 1]]
  BY <1>1 DEF transform_tuple
<1>3. QED
  BY <1>1, <1>2 DEF Names

\* From first to last are the n elements of tu after the first ind.
Spans(first, last, ind, n, tu) == ind + n <= Len(tu) /\ first = ind + 1 /\ last = ind + n

\* The elements a part of the indices names are that part of the tuple.
LEMMA TransformPart ==
  ASSUME NEW S, NEW tu \in Seq(S), NEW il \in Seq(Nat), Counts(il, 0, Len(tu) - 1),
         NEW r \in Seq(Nat), NEW ind \in Nat, NEW n \in Nat, Part(r, ind, n, il),
         NEW first, NEW last, Spans(first, last, ind, n, tu),
         NEW s, s = SubSeq(tu, first, last)
  PROVE  transform_tuple(r, tu) = s
<1>0. ind + n <= Len(tu) /\ first = ind + 1 /\ last = ind + n
  BY DEF Spans
<1>1. s \in Seq(S) /\ Part(s, ind, n, tu)
  BY <1>0, SubSeqIs, Zenon
<1>2. Len(tu) \in Nat /\ Len(il) = Len(tu) /\ Len(r) = n /\ Len(s) = n /\ ind + n <= Len(tu)
  BY <1>0, <1>1, LenProperties DEF Counts, Part
<1>3. ASSUME NEW k \in 1 .. n PROVE tu[r[k] + 1] = s[k]
  <2>1. r[k] = il[ind + k] /\ ind + k \in 1 .. Len(il) /\ s[k] = tu[ind + k]
    <3>1. ind + k \in 1 .. Len(il)
      BY <1>2
    <3>2. QED
      BY <1>1, <3>1 DEF Part
  <2>2. il[ind + k] = 0 + (ind + k) - 1
    BY <2>1 DEF Counts
  <2>3. r[k] + 1 = ind + k
    BY <2>1, <2>2
  <2>4. QED
    BY <2>1, <2>3
<1>4. Names(r, tu, s)
  BY <1>2, <1>3 DEF Names
<1>5. QED
  BY <1>1, <1>4, TransformIs, Zenon

\* The elements the reversed indices name are the reversed tuple.
LEMMA TransformReversed ==
  ASSUME NEW S, NEW tu \in Seq(S), NEW il \in Seq(Nat), Counts(il, 0, Len(tu) - 1),
         NEW r \in Seq(Nat), Reversed(r, il)
  PROVE  transform_tuple(r, tu) = Reverse(tu)
<1>1. PICK s : s = Reverse(tu) /\ s \in Seq(S) /\ Reversed(s, tu)
  BY ReverseReverses, Zenon
<1>2. /\ Len(tu) \in Nat /\ Len(il) = Len(tu) /\ Len(r) = Len(tu) /\ Len(s) = Len(tu)
  BY <1>1, LenProperties DEF Counts, Reversed
<1>3. ASSUME NEW k \in 1 .. Len(tu) PROVE tu[r[k] + 1] = s[k]
  <2>1. /\ r[k] = il[Len(tu) + 1 - k] /\ Len(tu) + 1 - k \in 1 .. Len(il)
        /\ s[k] = tu[Len(tu) + 1 - k]
    BY <1>1, <1>2 DEF Reversed
  <2>2. il[Len(tu) + 1 - k] = 0 + (Len(tu) + 1 - k) - 1
    BY <2>1 DEF Counts
  <2>3. r[k] + 1 = Len(tu) + 1 - k
    BY <1>2, <2>1, <2>2
  <2>4. QED
    BY <2>1, <2>3
<1>4. Names(r, tu, s)
  BY <1>2, <1>3 DEF Names
<1>5. QED
  BY <1>1, <1>4, TransformIs, Zenon

\* Reversing the indices in place reverses the elements in place.
LEMMA TransformTurned ==
  ASSUME NEW S, NEW tu \in Seq(S), NEW il \in Seq(Nat), Counts(il, 0, Len(tu) - 1),
         NEW ind \in Nat, NEW n \in Nat, ind + n <= Len(tu),
         NEW r \in Seq(Nat), TurnedAt(r, ind, n, il)
  PROVE  transform_tuple(r, tu) = SubSeq(tu, 1, ind) \o Reverse(SubSeq(tu, ind + 1, ind + n))
                                    \o SubSeq(tu, ind + n + 1, Len(tu))
<1>1. Len(tu) \in Nat /\ Len(il) = Len(tu) /\ Len(r) = Len(tu)
  BY LenProperties DEF Counts, TurnedAt
<1>2. PICK m \in Nat : m = Len(tu) - (ind + n)
  <2>1. Len(tu) - (ind + n) \in Nat
    BY <1>1
  <2>2. QED
    BY <2>1
<1>3. PICK j \in Nat : j = ind + n
  OBVIOUS
<1>4. PICK left : left = SubSeq(tu, 1, ind) /\ left \in Seq(S) /\ Part(left, 0, ind, tu)
  <2>1. 0 \in Nat /\ 0 + ind <= Len(tu) /\ 1 = 0 + 1 /\ ind = 0 + ind
    BY <1>1
  <2>2. QED
    BY <2>1, SubSeqIs, Zenon
<1>5. PICK a : a = SubSeq(tu, ind + 1, ind + n) /\ a \in Seq(S) /\ Part(a, ind, n, tu)
  BY SubSeqIs, Zenon
<1>6. PICK mid : mid = Reverse(a) /\ mid \in Seq(S) /\ Reversed(mid, a)
  BY <1>5, ReverseReverses, Zenon
<1>7. PICK right : /\ right = SubSeq(tu, ind + n + 1, Len(tu)) /\ right \in Seq(S)
                   /\ Part(right, j, m, tu)
  <2>1. j + m <= Len(tu) /\ ind + n + 1 = j + 1 /\ Len(tu) = j + m
    BY <1>1, <1>2, <1>3
  <2>2. QED
    BY <2>1, SubSeqIs, Zenon
<1>8. PICK b : b = left \o mid /\ b \in Seq(S) /\ Joins(b, left, mid)
  BY <1>4, <1>6, ConcatJoins, Zenon
<1>9. PICK s : s = b \o right /\ s \in Seq(S) /\ Joins(s, b, right)
  BY <1>7, <1>8, ConcatJoins, Zenon
<1>10. /\ Len(left) = ind /\ Len(a) = n /\ Len(mid) = n /\ Len(right) = m
       /\ Len(b) = j /\ Len(s) = Len(tu)
  <2>1. Len(left) = ind /\ Len(a) = n /\ Len(mid) = n /\ Len(right) = m
    BY <1>4, <1>5, <1>6, <1>7 DEF Part, Reversed
  <2>2. QED
    BY <1>1, <1>2, <1>3, <1>8, <1>9, <2>1 DEF Joins
<1>11. ASSUME NEW i \in 1 .. Len(tu) PROVE tu[r[i] + 1] = s[i]
  <2>1. PICK p \in 1 .. Len(tu) : p = IF i \in ind + 1 .. ind + n THEN 2 * ind + n + 1 - i ELSE i
    <3>1. (IF i \in ind + 1 .. ind + n THEN 2 * ind + n + 1 - i ELSE i) \in 1 .. Len(tu)
      BY <1>1
    <3>2. QED
      BY <3>1
  <2>2. r[i] = il[p] /\ il[p] = 0 + p - 1
    BY <1>1, <2>1 DEF TurnedAt, Counts
  <2>3. r[i] + 1 = p
    BY <2>2
  <2>4. CASE i \in 1 .. ind
    <3>1. p = i /\ i \in 1 .. Len(b) /\ 0 + i = i
      BY <1>3, <1>10, <2>1, <2>4
    <3>2. s[i] = b[i] /\ b[i] = left[i] /\ left[i] = tu[0 + i]
      BY <1>4, <1>8, <1>9, <1>10, <2>4, <3>1 DEF Joins, Part
    <3>3. QED
      BY <2>3, <3>1, <3>2
  <2>5. CASE i \in ind + 1 .. ind + n
    <3>1. PICK k \in 1 .. n : i = ind + k
      <4>1. i - ind \in 1 .. n /\ i = ind + (i - ind)
        BY <2>5
      <4>2. QED
        BY <4>1
    <3>2. i \in 1 .. Len(b) /\ n + 1 - k \in 1 .. n /\ ind + (n + 1 - k) = p
      BY <1>3, <1>10, <2>1, <2>5, <3>1
    <3>3. s[i] = b[i]
      BY <1>9, <3>2 DEF Joins
    <3>4. b[i] = mid[k]
      BY <1>8, <1>10, <3>1 DEF Joins
    <3>5. mid[k] = a[n + 1 - k]
      BY <1>6, <1>10 DEF Reversed
    <3>6. a[n + 1 - k] = tu[ind + (n + 1 - k)]
      BY <1>5, <3>2 DEF Part
    <3>7. QED
      BY <2>3, <3>2, <3>3, <3>4, <3>5, <3>6
  <2>6. CASE i \in j + 1 .. Len(tu)
    <3>1. PICK k \in 1 .. m : i = j + k
      <4>1. i - j \in 1 .. m /\ i = j + (i - j)
        BY <1>1, <1>2, <1>3, <2>6
      <4>2. QED
        BY <4>1
    <3>2. s[i] = right[k]
      BY <1>9, <1>10, <3>1 DEF Joins
    <3>3. right[k] = tu[j + k]
      BY <1>7 DEF Part
    <3>4. p = i
      BY <1>3, <2>1, <2>6
    <3>5. QED
      BY <2>3, <3>1, <3>2, <3>3, <3>4
  <2>7. i \in 1 .. ind \/ i \in ind + 1 .. ind + n \/ i \in j + 1 .. Len(tu)
    BY <1>1, <1>3
  <2>8. QED
    BY <2>4, <2>5, <2>6, <2>7, Zenon
<1>12. Names(r, tu, s)
  BY <1>1, <1>10, <1>11 DEF Names
<1>13. transform_tuple(r, tu) = s
  BY <1>9, <1>12, TransformIs, Zenon
<1>14. QED
  BY <1>4, <1>5, <1>6, <1>7, <1>8, <1>9, <1>13, Zenon

\* Moving the first indices behind the others moves the elements.
LEMMA TransformRotated ==
  ASSUME NEW S, NEW tu \in Seq(S), NEW il \in Seq(Nat), Counts(il, 0, Len(tu) - 1),
         NEW n \in Nat, n <= Len(tu), NEW r \in Seq(Nat), Rotated(r, n, il)
  PROVE  transform_tuple(r, tu) = SubSeq(tu, n + 1, Len(tu)) \o SubSeq(tu, 1, n)
<1>1. Len(tu) \in Nat /\ Len(il) = Len(tu) /\ Len(r) = Len(tu)
  BY LenProperties DEF Counts, Rotated
<1>2. PICK m \in Nat : m = Len(tu) - n
  <2>1. Len(tu) - n \in Nat
    BY <1>1
  <2>2. QED
    BY <2>1
<1>3. PICK a : a = SubSeq(tu, n + 1, Len(tu)) /\ a \in Seq(S) /\ Part(a, n, m, tu)
  <2>1. n + m <= Len(tu) /\ Len(tu) = n + m
    BY <1>1, <1>2
  <2>2. QED
    BY <2>1, SubSeqIs, Zenon
<1>4. PICK b : b = SubSeq(tu, 1, n) /\ b \in Seq(S) /\ Part(b, 0, n, tu)
  <2>1. 0 \in Nat /\ 0 + n <= Len(tu) /\ 1 = 0 + 1 /\ n = 0 + n
    BY <1>1
  <2>2. QED
    BY <2>1, SubSeqIs, Zenon
<1>5. PICK s : s = a \o b /\ s \in Seq(S) /\ Joins(s, a, b)
  BY <1>3, <1>4, ConcatJoins, Zenon
<1>6. Len(a) = m /\ Len(b) = n /\ Len(s) = Len(tu)
  <2>1. Len(a) = m /\ Len(b) = n
    BY <1>3, <1>4 DEF Part
  <2>2. QED
    BY <1>1, <1>2, <1>5, <2>1 DEF Joins
<1>7. ASSUME NEW i \in 1 .. Len(tu) PROVE tu[r[i] + 1] = s[i]
  <2>1. PICK p \in 1 .. Len(tu) : p = IF i <= Len(il) - n THEN n + i ELSE i - (Len(il) - n)
    <3>1. (IF i <= Len(il) - n THEN n + i ELSE i - (Len(il) - n)) \in 1 .. Len(tu)
      BY <1>1
    <3>2. QED
      BY <3>1
  <2>2. r[i] = il[p] /\ il[p] = 0 + p - 1
    BY <1>1, <2>1 DEF Rotated, Counts
  <2>3. r[i] + 1 = p
    BY <2>2
  <2>4. CASE i <= Len(il) - n
    <3>1. i \in 1 .. m /\ p = n + i
      BY <1>1, <1>2, <2>1, <2>4
    <3>2. s[i] = a[i] /\ a[i] = tu[n + i]
      BY <1>3, <1>5, <1>6, <3>1 DEF Joins, Part
    <3>3. QED
      BY <2>3, <3>1, <3>2
  <2>5. CASE ~(i <= Len(il) - n)
    <3>1. p \in 1 .. n /\ i = m + p /\ 0 + p = p
      BY <1>1, <1>2, <2>1, <2>5
    <3>2. s[i] = b[p] /\ b[p] = tu[0 + p]
      BY <1>4, <1>5, <1>6, <3>1 DEF Joins, Part
    <3>3. QED
      BY <2>3, <3>1, <3>2
  <2>6. QED
    BY <2>4, <2>5
<1>8. Names(r, tu, s)
  BY <1>1, <1>6, <1>7 DEF Names
<1>9. transform_tuple(r, tu) = s
  BY <1>5, <1>8, TransformIs, Zenon
<1>10. QED
  BY <1>3, <1>4, <1>5, <1>9, Zenon

\* All but the last of the indices, with 1 added to each, name all but the first.
LEMMA TransformSuccessors ==
  ASSUME NEW S, NEW tu \in Seq(S), Len(tu) > 0,
         NEW il \in Seq(Nat), Counts(il, 0, Len(tu) - 1)
  PROVE  transform_tuple(pop_back(add1(il)), tu) = SubSeq(tu, 2, Len(tu))
<1>1. Len(tu) \in Nat /\ Len(il) = Len(tu)
  BY LenProperties DEF Counts
<1>2. PICK a : a = add1(il) /\ a \in Seq(Nat) /\ Successors(a, il)
  BY Add1Is, Zenon
<1>3. Len(a) > 0 /\ Len(a) = Len(tu)
  BY <1>1, <1>2 DEF Successors
<1>4. PICK r : r = pop_back(a) /\ r \in Seq(Nat) /\ Part(r, 0, Len(a) - 1, a)
  BY <1>2, <1>3, PopBackIs, Zenon
<1>5. Len(r) = Len(tu) - 1 /\ DOMAIN r = 1 .. Len(tu) - 1
  BY <1>1, <1>3, <1>4, LenProperties DEF Part
<1>6. ASSUME NEW k \in 1 .. Len(tu) - 1 PROVE tu[r[k] + 1] = tu[k + 1]
  <2>1. r[k] = a[0 + k] /\ 0 + k \in 1 .. Len(il)
    BY <1>1, <1>3, <1>4 DEF Part
  <2>2. a[0 + k] = il[0 + k] + 1 /\ il[0 + k] = 0 + (0 + k) - 1
    BY <1>1, <1>2, <2>1 DEF Successors, Counts
  <2>3. r[k] + 1 = k + 1
    BY <2>1, <2>2
  <2>4. QED
    BY <2>3
<1>7. transform_tuple(r, tu) = [k \in 1 .. Len(tu) - 1 |-> tu[r[k] + 1]]
  BY <1>5 DEF transform_tuple
<1>8. SubSeq(tu, 2, Len(tu)) = [k \in 1 .. Len(tu) - 1 |-> tu[k + 1]]
  BY <1>1
<1>9. QED
  BY <1>2, <1>4, <1>6, <1>7, <1>8

(***************************************************************************)
(* Sums and products.  The function in Sum has a value for each length, so *)
(* Sum is one of its values.                                               *)
(***************************************************************************)
SumsOf(u, s)       == u = [k \in 0 .. Len(s) |-> IF k = 0 THEN 0 ELSE u[k - 1] + s[k]]
SumsUpto(u, n, s)  == u[0] = 0 /\ \A k \in 1 .. n : u[k] = u[k - 1] + s[k]

\* There is such a function.
LEMMA SumsExist ==
  ASSUME NEW s \in Seq(Int)
  PROVE  \E u : SumsOf(u, s)
<1> DEFINE I == {n \in Nat : \E u : SumsUpto(u, n, s)}
<1>1. 0 \in I
  <2>1. SumsUpto([k \in {0} |-> 0], 0, s)
    BY DEF SumsUpto
  <2>2. QED
    BY <2>1
<1>2. ASSUME NEW n \in Nat, n \in I PROVE n + 1 \in I
  <2>1. PICK u : SumsUpto(u, n, s)
    BY <1>2
  <2> DEFINE g == [k \in 0 .. n + 1 |-> IF k = n + 1 THEN u[n] + s[n + 1] ELSE u[k]]
  <2>2. \A k \in 0 .. n : g[k] = u[k]
    OBVIOUS
  <2>3. g[n + 1] = u[n] + s[n + 1]
    OBVIOUS
  <2> HIDE DEF g
  <2>4. ASSUME NEW k \in 1 .. n + 1 PROVE g[k] = g[k - 1] + s[k]
    <3>1. CASE k = n + 1
      BY <2>2, <2>3, <3>1
    <3>2. CASE k # n + 1
      BY <2>1, <2>2, <3>2 DEF SumsUpto
    <3>3. QED
      BY <3>1, <3>2
  <2>5. g[0] = 0
    BY <2>1, <2>2 DEF SumsUpto
  <2>6. SumsUpto(g, n + 1, s)
    BY <2>4, <2>5 DEF SumsUpto
  <2>7. QED
    BY <2>6
<1>3. Nat \subseteq I
  <2> HIDE DEF I
  <2> QED BY <1>1, <1>2, SetInduction
<1>4. PICK u : SumsUpto(u, Len(s), s)
  BY <1>3, LenProperties
<1> DEFINE h == [k \in 0 .. Len(s) |-> u[k]]
<1>5. SumsOf(h, s)
  <2>1. ASSUME NEW k \in 0 .. Len(s) PROVE h[k] = IF k = 0 THEN 0 ELSE h[k - 1] + s[k]
    BY <1>4, LenProperties DEF SumsUpto
  <2>2. QED
    BY <2>1 DEF SumsOf
<1>6. QED
  BY <1>5

\* Sum is the value of such a function at the length of the sequence.
LEMMA SumIs ==
  ASSUME NEW s \in Seq(Int)
  PROVE  \E u : /\ Sum(s) = u[Len(s)] /\ u[0] = 0
                /\ \A k \in 1 .. Len(s) : u[k] = u[k - 1] + s[k]
<1>1. Sum(s) = (CHOOSE u : SumsOf(u, s))[Len(s)]
  BY DEF Sum, SumsOf
<1>2. PICK u : SumsOf(u, s) /\ Sum(s) = u[Len(s)]
  BY <1>1, SumsExist
<1>3. \A k \in 0 .. Len(s) : u[k] = IF k = 0 THEN 0 ELSE u[k - 1] + s[k]
  BY <1>2, Zenon DEF SumsOf
<1>4. u[0] = 0 /\ \A k \in 1 .. Len(s) : u[k] = u[k - 1] + s[k]
  BY <1>3, LenProperties
<1>5. QED
  BY <1>2, <1>4

\* The adder of a tuple with elements is their sum.
LEMMA AdderIs ==
  ASSUME NEW tu \in Seq(Int), Len(tu) > 0
  PROVE  adder(tu) = Sum(tu)
<1> DEFINE n == Len(tu)
           Eq(f) == f = [k \in 1 .. n |-> IF k = 1 THEN tu[1] ELSE f[k - 1] + tu[k]]
<1>1. n \in Nat /\ n > 0 /\ tu[1] \in Int
  BY LenProperties, ElementOfSeq
<1>2. PICK u : Sum(tu) = u[n] /\ u[0] = 0 /\ \A k \in 1 .. n : u[k] = u[k - 1] + tu[k]
  BY SumIs, Zenon
<1> DEFINE c == [k \in 1 .. n |-> u[k]]
<1>3. \A k \in 1 .. n : c[k] = u[k]
  OBVIOUS
<1>4. Eq(c)
  <2> HIDE DEF n
  <2>1. ASSUME NEW k \in 1 .. n PROVE c[k] = IF k = 1 THEN tu[1] ELSE c[k - 1] + tu[k]
    <3>1. CASE k = 1
      BY <1>1, <1>2, <3>1
    <3>2. CASE k # 1
      BY <1>1, <1>2, <3>2
    <3>3. QED
      BY <3>1, <3>2
  <2>2. QED
    BY <2>1
<1>5. adder(tu) = (CHOOSE f : Eq(f))[n]
  BY DEF adder, foldl_tuple
<1>6. PICK f : Eq(f) /\ adder(tu) = f[n]
  <2> HIDE DEF Eq
  <2> QED BY <1>4, <1>5
<1>7. \A k \in 1 .. n : f[k] = IF k = 1 THEN tu[1] ELSE f[k - 1] + tu[k]
  BY <1>6, Zenon
<1> DEFINE h == [k \in 0 .. n |-> IF k = 0 THEN 0 ELSE f[k]]
<1>8. \A k \in 0 .. n : h[k] = u[k]
  <2> HIDE DEF n, Eq, c
  <2>1. h[0] = u[0]
    BY <1>1, <1>2
  <2>2. ASSUME NEW k \in 1 .. n, h[k - 1] = u[k - 1] PROVE h[k] = u[k]
    <3>1. CASE k = 1
      BY <1>1, <1>2, <1>7, <3>1
    <3>2. CASE k # 1
      BY <1>1, <1>2, <1>7, <2>2, <3>2
    <3>3. QED
      BY <3>1, <3>2
  <2> HIDE DEF h
  <2>3. n \in Nat
    BY <1>1
  <2>4. SameSteps(n, h, u)
    BY <2>1, <2>2 DEF SameSteps
  <2>5. QED
    BY ONLY <2>3, <2>4, StepsAgree
<1>9. f[n] = u[n]
  <2>1. n \in 0 .. n /\ n # 0
    BY <1>1
  <2>2. h[n] = f[n]
    BY <2>1
  <2> HIDE DEF h, Eq
  <2>3. QED
    BY <1>8, <2>1, <2>2
<1>10. QED
  BY <1>2, <1>6, <1>9, Zenon

\* The multiplier of two.
LEMMA MultiplierIs ==
  ASSUME NEW tu \in Seq(Int), Len(tu) = 2
  PROVE  multiplier(tu) = tu[1] * tu[2]
<1> DEFINE Eq(f) == f = [k \in 1 .. Len(tu) |-> IF k = 1 THEN tu[1] ELSE f[k - 1] * tu[k]]
           c == [k \in 1 .. Len(tu) |-> IF k = 1 THEN tu[1] ELSE tu[1] * tu[k]]
<1>1. Eq(c)
  <2>1. ASSUME NEW k \in 1 .. Len(tu) PROVE c[k] = IF k = 1 THEN tu[1] ELSE c[k - 1] * tu[k]
    <3>1. CASE k = 1
      BY <3>1
    <3>2. CASE k # 1
      <4>1. k - 1 = 1 /\ 1 \in 1 .. Len(tu)
        BY <3>2
      <4>2. c[1] = tu[1]
        BY <4>1
      <4>3. QED
        BY <3>2, <4>1, <4>2
    <3>3. QED
      BY <3>1, <3>2
  <2>2. QED
    BY <2>1
<1>2. multiplier(tu) = (CHOOSE f : Eq(f))[Len(tu)]
  BY DEF multiplier, foldl_tuple
<1>3. PICK f : Eq(f) /\ multiplier(tu) = f[Len(tu)]
  <2> HIDE DEF Eq
  <2> QED BY <1>1, <1>2
<1>4. \A k \in 1 .. Len(tu) : f[k] = IF k = 1 THEN tu[1] ELSE f[k - 1] * tu[k]
  BY <1>3, Zenon
<1>5. f[1] = tu[1] /\ f[2] = f[1] * tu[2]
  BY <1>4
<1>6. QED
  BY <1>3, <1>5

\* The inner product of a tuple and its reverse.
LEMMA InnerProductIs ==
  ASSUME NEW tu \in Seq(Int), Len(tu) > 0
  PROVE  tuple_inner_product(<<tu, Reverse(tu)>>)
           = Sum([c \in DOMAIN tu |-> tu[c] * tu[Len(tu) + 1 - c]])
<1>1. PICK n \in Nat : n = Len(tu) /\ n > 0 /\ DOMAIN tu = 1 .. n
  BY LenProperties
<1>2. PICK il : il = make_indlist_from_tuple(tu) /\ il \in Seq(Nat) /\ Counts(il, 0, Len(tu) - 1)
  BY TupleIndices, Zenon
<1>3. Len(il) = n /\ DOMAIN il = 1 .. n /\ \A k \in 1 .. n : il[k] = k - 1
  BY <1>1, <1>2, LenProperties DEF Counts
<1>4. PICK rev : rev = Reverse(tu) /\ rev \in Seq(Int) /\ Reversed(rev, tu)
  BY ReverseReverses, Zenon
<1>5. PICK tus : tus = <<tu, rev>>
  OBVIOUS
<1>6. DOMAIN tus = 1 .. 2 /\ Len(tus) = 2 /\ tus[1] = tu /\ tus[2] = rev
  BY <1>5
<1>7. ASSUME NEW k \in 1 .. n
      PROVE  /\ multiplier(apply_elem_tuples(make_uniform_indlist(2, il[k]), tus))
                  = tu[k] * tu[n + 1 - k]
             /\ tu[k] * tu[n + 1 - k] \in Int
  <2>1. 2 \in Nat /\ il[k] \in Nat
    BY <1>3
  <2>2. PICK ks : /\ ks = make_uniform_indlist(2, il[k])
                  /\ ks \in Seq(Nat) /\ AllOf(ks, 2, il[k])
    BY <2>1, UniformIs, Zenon
  <2>3. ks[1] + 1 = k /\ ks[2] + 1 = k
    BY <1>3, <2>2, SMTT(60) DEF AllOf
  <2>4. tus[1][ks[1] + 1] = tu[k] /\ tus[2][ks[2] + 1] = tu[n + 1 - k]
    BY <1>1, <1>4, <1>6, <2>3 DEF Reversed
  <2>5. tu[k] \in Int /\ tu[n + 1 - k] \in Int
    BY <1>1, ElementOfSeq
  <2>6. PICK e : e = apply_elem_tuples(ks, tus)
    OBVIOUS
  <2>7. e = [j \in 1 .. 2 |-> tus[j][ks[j] + 1]]
    BY <1>6, <2>6 DEF apply_elem_tuples
  <2>8. e[1] = tu[k] /\ e[2] = tu[n + 1 - k]
    BY <2>4, <2>7
  <2>9. e \in Seq(Int) /\ Len(e) = 2
    <3>1. \A j \in 1 .. 2 : e[j] \in Int
      BY <2>5, <2>8
    <3>2. QED
      BY <2>7, <3>1
  <2>10. multiplier(e) = e[1] * e[2]
    BY <2>9, MultiplierIs
  <2>11. QED
    BY <2>2, <2>5, <2>6, <2>8, <2>10
<1>8. PICK p : p = [c \in 1 .. n |-> tu[c] * tu[n + 1 - c]]
  OBVIOUS
<1>9. p \in Seq(Int) /\ Len(p) > 0
  BY <1>1, <1>7, <1>8
<1>10. [k \in DOMAIN il |->
          multiplier(apply_elem_tuples(make_uniform_indlist(Len(tus), il[k]), tus))] = p
  BY <1>3, <1>6, <1>7, <1>8
<1>11. tuple_inner_product(tus) = adder(p)
  BY <1>2, <1>6, <1>10, Zenon DEF tuple_inner_product
<1>12. adder(p) = Sum(p)
  BY <1>9, AdderIs
<1>13. [c \in DOMAIN tu |-> tu[c] * tu[Len(tu) + 1 - c]] = p
  BY <1>1, <1>8
<1>14. QED
  BY <1>4, <1>5, <1>11, <1>12, <1>13, Zenon

(***************************************************************************)
(* Setting columns one by one.                                             *)
(***************************************************************************)
\* Every column is set, whatever it held.
LEMMA SetColumnsIs ==
  ASSUME NEW S, NEW to \in Seq(S), NEW from \in Seq(S), Len(to) = Len(from)
  PROVE  SetColumns(to, from) = from
<1> DEFINE il == make_indlist_from_tuple(to)
           n == Len(il)
           Set(t, k) == [t EXCEPT ![il[k] + 1] = from[il[k] + 1]]
           Eq(f) == f = [k \in 0 .. n |-> IF k = 0 THEN to ELSE Set(f[k - 1], k)]
           c == [k \in 0 .. n |-> [j \in 1 .. n |-> IF j <= k THEN from[j] ELSE to[j]]]
<1>1. il \in Seq(Nat) /\ Counts(il, 0, Len(to) - 1)
  BY TupleIndices, Zenon
<1>2. SetColumns(to, from) = (CHOOSE f : Eq(f))[n]
  BY DEF SetColumns, apply_ind_tuple_ntimes_with_indlist
<1> HIDE DEF il
<1>3. n \in Nat /\ n = Len(to) /\ n = Len(from) /\ \A k \in 1 .. n : il[k] + 1 = k
  BY <1>1, LenProperties DEF Counts
<1> HIDE DEF n
<1>4. to = [j \in 1 .. n |-> to[j]] /\ from = [j \in 1 .. n |-> from[j]]
  BY <1>3, LenProperties
<1>5. c[0] = to
  <2>1. c[0] = [j \in 1 .. n |-> IF j <= 0 THEN from[j] ELSE to[j]]
    BY <1>3
  <2>2. \A j \in 1 .. n : (IF j <= 0 THEN from[j] ELSE to[j]) = to[j]
    BY <1>3
  <2>3. QED
    BY <1>4, <2>1, <2>2
<1>6. c[n] = from
  <2>1. c[n] = [j \in 1 .. n |-> IF j <= n THEN from[j] ELSE to[j]]
    BY <1>3
  <2>2. \A j \in 1 .. n : (IF j <= n THEN from[j] ELSE to[j]) = from[j]
    BY <1>3
  <2>3. QED
    BY <1>4, <2>1, <2>2
<1>7. ASSUME NEW k \in 1 .. n
      PROVE  c[k] = Set(c[k - 1], k)
  <2>1. c[k - 1] = [j \in 1 .. n |-> IF j <= k - 1 THEN from[j] ELSE to[j]]
    BY <1>3
  <2>2. c[k] = [j \in 1 .. n |-> IF j <= k THEN from[j] ELSE to[j]]
    BY <1>3
  <2>3. \A j \in 1 .. n : (IF j <= k THEN from[j] ELSE to[j])
                            = IF j = k THEN from[k] ELSE IF j <= k - 1 THEN from[j] ELSE to[j]
    BY <1>3
  <2> HIDE DEF c
  <2>4. [c[k - 1] EXCEPT ![k] = from[k]]
          = [j \in 1 .. n |-> IF j = k THEN from[k] ELSE IF j <= k - 1 THEN from[j] ELSE to[j]]
    BY <2>1
  <2>5. il[k] + 1 = k
    BY <1>3
  <2>6. QED
    BY <2>2, <2>3, <2>4, <2>5
<1>8. c = [k \in 0 .. n |-> c[k]]
  OBVIOUS
<1> HIDE DEF Set
<1>9. Eq(c)
  <2> HIDE DEF c
  <2>1. ASSUME NEW k \in 0 .. n
        PROVE  c[k] = IF k = 0 THEN to ELSE Set(c[k - 1], k)
    <3>1. CASE k = 0
      BY <1>5, <3>1
    <3>2. CASE k # 0
      BY <1>3, <1>7, <3>2
    <3>3. QED
      BY <3>1, <3>2
  <2>2. QED
    BY <1>8, <2>1
<1>10. PICK f : Eq(f) /\ SetColumns(to, from) = f[n]
  <2> HIDE DEF Eq
  <2> QED BY <1>2, <1>9
<1>11. \A k \in 0 .. n : f[k] = IF k = 0 THEN to ELSE Set(f[k - 1], k)
  BY <1>10, Zenon
<1>12. f[n] = c[n]
  <2> HIDE DEF c, Eq
  <2>1. n \in Nat
    BY <1>3
  <2>2. f[0] = c[0]
    BY <1>5, <1>11, <2>1
  <2>3. ASSUME NEW k \in 1 .. n, f[k - 1] = c[k - 1] PROVE f[k] = c[k]
    BY <1>7, <1>11, <2>1, <2>3
  <2>4. SameSteps(n, f, c)
    BY <2>2, <2>3 DEF SameSteps
  <2>5. \A k \in 0 .. n : f[k] = c[k]
    BY ONLY <2>1, <2>4, StepsAgree
  <2>6. QED
    BY <2>1, <2>5
<1>13. QED
  <2> HIDE DEF c, Eq
  <2> QED BY <1>6, <1>10, <1>12, Zenon

(***************************************************************************)
(* What a program makes of a row with the tuple functions.                 *)
(***************************************************************************)
\* A row has a value for every column.
IsRow(row) == row \in Seq(Int) /\ Len(row) = NCols

\* What is known of a row and its indices.
LEMMA RowIndices ==
  ASSUME NEW row, IsRow(row)
  PROVE  /\ make_indlist_from_tuple(row) \in Seq(Nat)
         /\ Counts(make_indlist_from_tuple(row), 0, Len(row) - 1)
         /\ Len(make_indlist_from_tuple(row)) = NCols
<1>1. row \in Seq(Int) /\ Len(row) = NCols /\ NCols \in Nat /\ NCols > 0
  BY OcciAssumption DEF IsRow
<1>2. PICK il : il = make_indlist_from_tuple(row) /\ il \in Seq(Nat) /\ Counts(il, 0, Len(row) - 1)
  BY <1>1, TupleIndices, Zenon
<1>3. Len(il) = NCols
  BY <1>1, <1>2 DEF Counts
<1>4. QED
  BY <1>1, <1>2, <1>3, Zenon

\* The shapes that name a part of the row.
LEMMA PartShapes ==
  ASSUME NEW row, IsRow(row),
         shape \in Shapes, shape.fn \in {"popn_front", "popn_back", "firstn", "lastn", "slice"}
  PROVE  Transform(row) = Promised(row)
<1>1. PICK il : /\ il = make_indlist_from_tuple(row) /\ il \in Seq(Nat)
                /\ Counts(il, 0, Len(row) - 1) /\ Len(il) = NCols
  BY RowIndices, Zenon
<1>2. NCols \in Nat /\ NCols > 0 /\ row \in Seq(Int) /\ Len(row) = NCols
  BY OcciAssumption DEF IsRow
<1>3. PICK n \in Nat : n = shape.n /\ n <= NCols /\ n <= Len(row)
  BY <1>2 DEF Shapes
<1>0. row \in Seq(Int) /\ il \in Seq(Nat) /\ Counts(il, 0, Len(row) - 1)
  BY <1>1, <1>2, Zenon
<1>4. PICK m \in Nat : m = NCols - n
  <2>1. NCols - n \in Nat
    BY <1>2, <1>3
  <2>2. QED
    BY <2>1
<1>5. CASE shape.fn = "popn_front"
  <2>1. popn_front(n, il) \in Seq(Nat) /\ Part(popn_front(n, il), n, m, il)
    BY <1>1, <1>3, <1>4, PopnFrontIs, Zenon
  <2>2. Spans(n + 1, Len(row), n, m, row)
    BY <1>2, <1>3, <1>4 DEF Spans
  <2>3. transform_tuple(popn_front(n, il), row) = SubSeq(row, n + 1, Len(row))
    BY <1>0, <2>1, <2>2, TransformPart, Zenon
  <2>4. Transform(row) = transform_tuple(popn_front(n, il), row)
    BY <1>1, <1>3, <1>5 DEF Transform, popn_front_tuple
  <2>5. Promised(row) = SubSeq(row, n + 1, Len(row))
    BY <1>3, <1>5 DEF Promised
  <2>6. QED
    BY <2>3, <2>4, <2>5, Zenon
<1>6. CASE shape.fn = "popn_back"
  <2>1. popn_back(n, il) \in Seq(Nat) /\ Part(popn_back(n, il), 0, m, il)
    BY <1>1, <1>3, <1>4, PopnBackIs, Zenon
  <2>2. 0 \in Nat /\ Spans(1, m, 0, m, row)
    BY <1>2, <1>3, <1>4 DEF Spans
  <2>3. transform_tuple(popn_back(n, il), row) = SubSeq(row, 1, m)
    BY <1>0, <2>1, <2>2, TransformPart, Zenon
  <2>4. Transform(row) = transform_tuple(popn_back(n, il), row)
    BY <1>1, <1>3, <1>6 DEF Transform, popn_back_tuple
  <2>5. Promised(row) = SubSeq(row, 1, m)
    BY <1>2, <1>3, <1>4, <1>6 DEF Promised
  <2>6. QED
    BY <2>3, <2>4, <2>5, Zenon
<1>7. CASE shape.fn = "firstn"
  <2>1. firstn(n, il) \in Seq(Nat) /\ Part(firstn(n, il), 0, n, il)
    BY <1>1, <1>3, FirstnIs, Zenon
  <2>2. 0 \in Nat /\ Spans(1, n, 0, n, row)
    BY <1>2, <1>3 DEF Spans
  <2>3. transform_tuple(firstn(n, il), row) = SubSeq(row, 1, n)
    BY <1>0, <2>1, <2>2, TransformPart, Zenon
  <2>4. Transform(row) = transform_tuple(firstn(n, il), row)
    BY <1>1, <1>3, <1>7 DEF Transform
  <2>5. Promised(row) = SubSeq(row, 1, n)
    BY <1>3, <1>7 DEF Promised
  <2>6. QED
    BY <2>3, <2>4, <2>5, Zenon
<1>8. CASE shape.fn = "lastn"
  <2>1. lastn(n, il) \in Seq(Nat) /\ Part(lastn(n, il), m, n, il)
    BY <1>1, <1>3, <1>4, LastnIs, Zenon
  <2>2. Spans(m + 1, Len(row), m, n, row)
    BY <1>2, <1>3, <1>4 DEF Spans
  <2>3. transform_tuple(lastn(n, il), row) = SubSeq(row, m + 1, Len(row))
    BY <1>0, <2>1, <2>2, TransformPart, Zenon
  <2>4. Transform(row) = transform_tuple(lastn(n, il), row)
    BY <1>1, <1>3, <1>8 DEF Transform
  <2>5. Promised(row) = SubSeq(row, Len(row) - n + 1, Len(row))
    BY <1>3, <1>8 DEF Promised
  <2>6. Len(row) - n = m
    BY <1>2, <1>4
  <2>7. QED
    BY <2>3, <2>4, <2>5, <2>6, Zenon
<1>9. CASE shape.fn = "slice"
  <2>1. PICK ind \in Nat : ind = shape.i /\ ind + n <= Len(row) /\ ind + n <= Len(il)
    BY <1>1, <1>2, <1>3, <1>9 DEF Shapes
  <2>2. slice(ind, n, il) \in Seq(Nat) /\ Part(slice(ind, n, il), ind, n, il)
    BY <1>1, <2>1, SliceIs, Zenon
  <2>0. Spans(ind + 1, ind + n, ind, n, row)
    BY <2>1 DEF Spans
  <2>3. transform_tuple(slice(ind, n, il), row) = SubSeq(row, ind + 1, ind + n)
    BY <1>0, <2>0, <2>2, TransformPart, Zenon
  <2>4. Transform(row) = transform_tuple(slice(ind, n, il), row)
    BY <1>1, <1>3, <1>9, <2>1 DEF Transform
  <2>5. Promised(row) = SubSeq(row, ind + 1, ind + n)
    BY <1>3, <1>9, <2>1 DEF Promised
  <2>6. QED
    BY <2>3, <2>4, <2>5, Zenon
<1>10. QED
  BY <1>5, <1>6, <1>7, <1>8, <1>9

\* The shapes that reorder the row.
LEMMA OrderShapes ==
  ASSUME NEW row, IsRow(row),
         shape \in Shapes, shape.fn \in {"reverse", "rotate_left", "reverse_slice"}
  PROVE  Transform(row) = Promised(row)
<1>1. PICK il : /\ il = make_indlist_from_tuple(row) /\ il \in Seq(Nat)
                /\ Counts(il, 0, Len(row) - 1) /\ Len(il) = NCols
  BY RowIndices, Zenon
<1>2. NCols \in Nat /\ NCols > 0 /\ row \in Seq(Int) /\ Len(row) = NCols
  BY OcciAssumption DEF IsRow
<1>3. PICK n \in Nat : n = shape.n /\ n <= NCols /\ n <= Len(row)
  BY <1>2 DEF Shapes
<1>0. row \in Seq(Int) /\ il \in Seq(Nat) /\ Counts(il, 0, Len(row) - 1)
  BY <1>1, <1>2, Zenon
<1>4. CASE shape.fn = "reverse"
  <2>1. reverse(il) \in Seq(Nat) /\ Reversed(reverse(il), il)
    BY <1>1, ReverseIs, Zenon
  <2>2. transform_tuple(reverse(il), row) = Reverse(row)
    BY <1>1, <1>2, <2>1, TransformReversed, Zenon
  <2>3. Transform(row) = transform_tuple(reverse(il), row)
    BY <1>1, <1>4 DEF Transform, reverse_tuple
  <2>4. Promised(row) = Reverse(row)
    BY <1>4 DEF Promised
  <2>5. QED
    BY <2>2, <2>3, <2>4, Zenon
<1>5. CASE shape.fn = "rotate_left"
  <2>1. rotate_left(n, il) \in Seq(Nat) /\ Rotated(rotate_left(n, il), n, il)
    BY <1>1, <1>3, RotateLeftIs, Zenon
  <2>2. transform_tuple(rotate_left(n, il), row) = SubSeq(row, n + 1, Len(row)) \o SubSeq(row, 1, n)
    BY <1>0, <1>3, <2>1, TransformRotated, ZenonT(60)
  <2>3. Transform(row) = transform_tuple(rotate_left(n, il), row)
    BY <1>1, <1>3, <1>5 DEF Transform
  <2>4. Promised(row) = SubSeq(row, n + 1, Len(row)) \o SubSeq(row, 1, n)
    BY <1>3, <1>5 DEF Promised
  <2>5. QED
    BY <2>2, <2>3, <2>4, Zenon
<1>6. CASE shape.fn = "reverse_slice"
  <2>1. PICK ind \in Nat : ind = shape.i /\ ind + n <= Len(row) /\ ind + n <= Len(il)
    BY <1>1, <1>2, <1>3, <1>6 DEF Shapes
  <2>0. ind + n <= Len(row)
    BY <2>1, Zenon
  <2>2. reverse_slice(ind, n, il) \in Seq(Nat) /\ TurnedAt(reverse_slice(ind, n, il), ind, n, il)
    BY <1>1, <2>1, ReverseSliceIs, Zenon
  <2>3. transform_tuple(reverse_slice(ind, n, il), row)
          = SubSeq(row, 1, ind) \o Reverse(SubSeq(row, ind + 1, ind + n))
              \o SubSeq(row, ind + n + 1, Len(row))
    BY <1>0, <2>0, <2>2, TransformTurned, ZenonT(60)
  <2>4. Transform(row) = transform_tuple(reverse_slice(ind, n, il), row)
    BY <1>1, <1>3, <1>6, <2>1 DEF Transform
  <2>5. Promised(row) = SubSeq(row, 1, ind) \o Reverse(SubSeq(row, ind + 1, ind + n))
                          \o SubSeq(row, ind + n + 1, Len(row))
    BY <1>3, <1>6, <2>1 DEF Promised
  <2>6. QED
    BY <2>3, <2>4, <2>5, Zenon
<1>7. QED
  BY <1>4, <1>5, <1>6

\* The shapes that compute.
LEMMA ValueShapes ==
  ASSUME NEW row, IsRow(row),
         shape \in Shapes, shape.fn \in {"back", "add1", "sum", "product"}
  PROVE  Transform(row) = Promised(row)
<1>1. PICK il : /\ il = make_indlist_from_tuple(row) /\ il \in Seq(Nat)
                /\ Counts(il, 0, Len(row) - 1) /\ Len(il) = NCols
  BY RowIndices, Zenon
<1>2. NCols \in Nat /\ NCols > 0 /\ row \in Seq(Int) /\ Len(row) = NCols /\ Len(row) > 0 /\ Len(il) > 0
  BY <1>1, OcciAssumption DEF IsRow
<1>3. CASE shape.fn = "back"
  <2>1. back(il) = <<il[Len(il)]>>
    BY <1>1, <1>2, BackIs, Zenon
  <2>2. il[Len(il)] + 1 = Len(row)
    BY <1>1, <1>2 DEF Counts
  <2>3. PICK b : b = <<il[Len(il)]>>
    OBVIOUS
  <2>4. DOMAIN b = 1 .. 1 /\ b[1] + 1 = Len(row)
    BY <2>2, <2>3
  <2>5. transform_tuple(b, row) = <<row[Len(row)]>>
    BY <2>4 DEF transform_tuple
  <2>6. Transform(row) = transform_tuple(back(il), row)
    BY <1>1, <1>3 DEF Transform
  <2>7. Promised(row) = <<row[Len(row)]>>
    BY <1>3 DEF Promised
  <2>8. QED
    BY <2>1, <2>3, <2>5, <2>6, <2>7, Zenon
<1>4. CASE shape.fn = "add1"
  <2>1. transform_tuple(pop_back(add1(il)), row) = SubSeq(row, 2, Len(row))
    BY <1>1, <1>2, TransformSuccessors, Zenon
  <2>2. Transform(row) = transform_tuple(pop_back(add1(il)), row)
    BY <1>1, <1>4 DEF Transform
  <2>3. Promised(row) = SubSeq(row, 2, Len(row))
    BY <1>4 DEF Promised
  <2>4. QED
    BY <2>1, <2>2, <2>3, Zenon
<1>5. CASE shape.fn = "sum"
  <2>1. adder(row) = Sum(row)
    BY <1>2, AdderIs
  <2>2. Transform(row) = <<adder(row)>>
    BY <1>5 DEF Transform
  <2>3. Promised(row) = <<Sum(row)>>
    BY <1>5 DEF Promised
  <2>4. QED
    BY <2>1, <2>2, <2>3, Zenon
<1>6. CASE shape.fn = "product"
  <2>1. reverse(il) \in Seq(Nat) /\ Reversed(reverse(il), il)
    BY <1>1, ReverseIs, Zenon
  <2>2. reverse_tuple(row) = Reverse(row)
    BY <1>1, <1>2, <2>1, TransformReversed, Zenon DEF reverse_tuple
  <2>3. PICK p : p = tuple_inner_product(<<row, reverse_tuple(row)>>)
    OBVIOUS
  <2>4. PICK q : q = Sum([c \in DOMAIN row |-> row[c] * row[Len(row) + 1 - c]])
    OBVIOUS
  <2>5. p = q
    BY <1>2, <2>2, <2>3, <2>4, InnerProductIs, Zenon
  <2>6. Transform(row) = <<p>>
    BY <1>6, <2>3 DEF Transform
  <2>7. Promised(row) = <<q>>
    BY <1>6, <2>4 DEF Promised
  <2>8. QED
    BY <2>5, <2>6, <2>7, Zenon
<1>7. QED
  BY <1>3, <1>4, <1>5, <1>6

(***************************************************************************)
(* The tuple functions of type_utils.h make of a row of any number of      *)
(* integer columns what they promise by position.                          *)
(***************************************************************************)
THEOREM TupleFunctions ==
  ASSUME NEW row, IsRow(row), shape \in Shapes
  PROVE  Transform(row) = Promised(row)
<1>1. shape.fn \in {"popn_front", "popn_back", "firstn", "lastn", "slice",
                    "reverse", "rotate_left", "reverse_slice", "back", "add1", "sum", "product"}
  BY DEF Shapes
<1>2. QED
  BY <1>1, PartShapes, OrderShapes, ValueShapes

(***************************************************************************)
(* The program of Occi, for a query of any number of rows of any number of *)
(* columns, for batches of every size, and however its objects are         *)
(* constructed.                                                            *)
(***************************************************************************)
Exceptions == {"no", "batchsize", "connect", "open", "fetch", "dereference end", "bind", "update"}

\* The types of the program's state.
ProgramTypeOK ==
  /\ nrows \in Nat /\ shape \in Shapes /\ kind \in Kinds
  /\ commit_ \in {"Commit", "Rollback", "Nop"} /\ batchsize_ \in Nat
  /\ pc \in {"source", "sink", "output", "input", "loop", "row", "step", "after", "unwind", "terminated"}
  /\ alive \subseteq Objects \cup {"input", "output"}
  /\ env_ \in [Objects -> {"none", "created", "terminated"}]
  /\ conn_ \in [Objects -> {"none", "users", "open", "terminated", "released"}]
  /\ fetched \in Nat /\ IsRow(currentRow_) /\ end_ \in BOOLEAN
  /\ pending \in Seq(Seq(Int)) /\ nwaiting_ \in Nat
  /\ inserted \in Seq(Seq(Int)) /\ committed \in Seq(Seq(Int)) /\ written \in Seq(Seq(Int))
  /\ flushed \in BOOLEAN /\ threw \in Exceptions

\* What is alive where the program is, and that no exception is on its way
\* until it unwinds.
Scoped ==
  /\ pc = "source" => alive = {}
  /\ pc = "sink" => alive = {"source"}
  /\ pc \in {"output", "terminated"} => alive = Objects
  /\ pc \in {"input", "after"} => alive = Objects \cup {"output"}
  /\ pc \in {"loop", "row", "step"} => alive = Objects \cup {"input", "output"}
  /\ "input" \in alive => "output" \in alive
  /\ "output" \in alive => "sink" \in alive
  /\ "sink" \in alive => "source" \in alive /\ batchsize_ > 0
  /\ pc \notin {"unwind", "terminated"} => threw = "no" /\ ~flushed

\* Before the loop nothing has been fetched or written; in it, a row has been
\* written for each row fetched but the one the iterator is at.
RowsFetched ==
  /\ pc \in {"source", "sink", "output", "input"} => fetched = 0 /\ written = <<>>
  /\ pc \in {"loop", "row"} /\ ~end_ => currentRow_ = Row(fetched) /\ fetched = Len(written) + 1
  /\ pc = "row" => ~end_
  /\ pc = "step" => fetched = Len(written) /\ ~end_
  /\ RowsTransformed

\* What the table and the statement hold of the rows written.
RowsBound ==
  /\ pc \in {"source", "sink", "output", "input"} =>
        written = <<>> /\ inserted = <<>> /\ pending = <<>> /\ nwaiting_ = 0
  /\ IsPrefix(inserted, written)
  /\ threw = "no" /\ pc \notin {"source", "sink"} => Len(written) - Len(inserted) < batchsize_
  /\ RowsInOrder

\* A sink commits what is in the table when it is destroyed, and not before.
CommittedLast ==
  /\ pc # "unwind" => committed = <<>>
  /\ "sink" \in alive \/ commit_ # "Commit" => committed = <<>>
  /\ IsPrefix(committed, inserted)
  /\ flushed => threw = "no" /\ inserted = written
  /\ pc = "unwind" /\ "sink" \notin alive /\ commit_ = "Commit" /\ threw = "no" => committed = inserted

\* The connection and the environment of an object that is alive, and of one
\* that is not: not constructed, destroyed, or without a connection.
Holds(o) ==
  IF o \in alive
  THEN /\ conn_[o] = IF kind[o] = "conn" THEN "users" ELSE "open"
       /\ env_[o] = "created" => kind[o] = "auth"
  ELSE /\ conn_[o] \in {"none", "users", IF kind[o] = "pool" THEN "released" ELSE "terminated"}
       /\ env_[o] = "created" => threw = "connect" /\ conn_[o] = "none"
       /\ pc \in Objects => conn_[o] = "none"

ObjectsHold == \A o \in Objects : Holds(o)

ProgramInv == ProgramTypeOK /\ Scoped /\ RowsFetched /\ RowsBound /\ CommittedLast /\ ObjectsHold

\* The rows of the query have a value in each column.
LEMMA RowIs ==
  ASSUME NEW n \in Nat
  PROVE  IsRow(Row(n)) /\ Row(n) \in Seq(Int)
BY OcciAssumption DEF Row, IsRow

\* A binder sets every column of the statement to that of the row.
LEMMA BoundIs ==
  ASSUME NEW row \in Seq(Int)
  PROVE  Bound(row) = row
<1>1. PICK z : z = [c \in DOMAIN row |-> 0]
  OBVIOUS
<1>2. z \in Seq(Int) /\ Len(z) = Len(row)
  BY <1>1, LenProperties
<1>3. SetColumns(z, row) = row
  BY <1>2, SetColumnsIs, Zenon
<1>4. QED
  BY <1>1, <1>3, Zenon DEF Bound

\* Sums of integers are integers.
LEMMA SumType ==
  ASSUME NEW s \in Seq(Int)
  PROVE  Sum(s) \in Int
<1>1. PICK u : /\ Sum(s) = u[Len(s)] /\ u[0] = 0
               /\ \A k \in 1 .. Len(s) : u[k] = u[k - 1] + s[k]
  BY SumIs, Zenon
<1> DEFINE I == {k \in Nat : k <= Len(s) => u[k] \in Int}
<1>2. 0 \in I
  BY <1>1
<1>3. ASSUME NEW k \in Nat, k \in I PROVE k + 1 \in I
  <2>1. SUFFICES ASSUME k + 1 <= Len(s) PROVE u[k + 1] \in Int
    OBVIOUS
  <2>2. u[k] \in Int /\ k + 1 \in 1 .. Len(s) /\ s[k + 1] \in Int /\ k + 1 - 1 = k
    BY <1>3, <2>1, LenProperties, ElementOfSeq
  <2>3. u[k + 1] = u[k] + s[k + 1]
    BY <1>1, <2>2
  <2>4. QED
    BY <2>2, <2>3
<1>4. Nat \subseteq I
  <2> HIDE DEF I
  <2> QED BY <1>2, <1>3, SetInduction
<1>5. QED
  BY <1>1, <1>4, LenProperties

\* What is made of a row is a sequence of integers.
LEMMA PromisedType ==
  ASSUME NEW row, IsRow(row), shape \in Shapes
  PROVE  Promised(row) \in Seq(Int)
<1>1. row \in Seq(Int) /\ Len(row) = NCols /\ NCols \in Nat /\ NCols > 0
  BY OcciAssumption DEF IsRow
<1>2. ASSUME NEW a \in Int, NEW b \in Int, 1 <= a, b <= Len(row)
      PROVE  SubSeq(row, a, b) \in Seq(Int)
  BY <1>1, <1>2, LenProperties
<1>3. ASSUME NEW s \in Seq(Int) PROVE Reverse(s) \in Seq(Int)
  BY ReverseReverses, Zenon
<1>4. shape.n \in Nat /\ shape.n <= NCols
  BY <1>1 DEF Shapes
<1>5. CASE shape.fn = "reverse"
  BY <1>1, <1>3, <1>5 DEF Promised
<1>6. CASE shape.fn \in {"back", "sum", "product"}
  <2>1. row[Len(row)] \in Int /\ Sum(row) \in Int
    BY <1>1, SumType, ElementOfSeq
  <2>2. \A c \in DOMAIN row : row[c] * row[Len(row) + 1 - c] \in Int
    BY <1>1, LenProperties, ElementOfSeq
  <2>3. PICK products : products = [c \in DOMAIN row |-> row[c] * row[Len(row) + 1 - c]]
    OBVIOUS
  <2>4. products \in Seq(Int)
    BY <1>1, <2>2, <2>3
  <2>5. Sum(products) \in Int
    BY <2>4, SumType
  <2>6. CASE shape.fn = "product"
    <3>1. Promised(row) = <<Sum(products)>>
      BY <2>3, <2>6, Zenon DEF Promised
    <3>2. QED
      BY <2>5, <3>1
  <2>7. QED
    BY <1>6, <2>1, <2>6 DEF Promised
<1>7. CASE shape.fn \in {"popn_front", "popn_back", "firstn", "lastn", "add1"}
  <2>1. /\ Len(row) - shape.n \in Int /\ Len(row) - shape.n <= Len(row)
        /\ Len(row) - shape.n + 1 \in Int /\ 1 <= Len(row) - shape.n + 1
        /\ shape.n \in Int /\ shape.n <= Len(row)
        /\ shape.n + 1 \in Int /\ 1 <= shape.n + 1
        /\ Len(row) \in Int /\ Len(row) <= Len(row) /\ 1 <= 2 /\ 2 \in Int /\ 1 \in Int /\ 1 <= 1
    BY <1>1, <1>4
  <2>2. /\ SubSeq(row, shape.n + 1, Len(row)) \in Seq(Int)
        /\ SubSeq(row, 1, Len(row) - shape.n) \in Seq(Int)
        /\ SubSeq(row, 1, shape.n) \in Seq(Int)
        /\ SubSeq(row, Len(row) - shape.n + 1, Len(row)) \in Seq(Int)
        /\ SubSeq(row, 2, Len(row)) \in Seq(Int)
    BY <1>2, <2>1, Zenon
  <2>3. \/ Promised(row) = SubSeq(row, shape.n + 1, Len(row))
        \/ Promised(row) = SubSeq(row, 1, Len(row) - shape.n)
        \/ Promised(row) = SubSeq(row, 1, shape.n)
        \/ Promised(row) = SubSeq(row, Len(row) - shape.n + 1, Len(row))
        \/ Promised(row) = SubSeq(row, 2, Len(row))
    BY <1>7 DEF Promised
  <2>4. QED
    BY <2>2, <2>3, Zenon
<1>8. CASE shape.fn = "rotate_left"
  <2>1. SubSeq(row, shape.n + 1, Len(row)) \in Seq(Int) /\ SubSeq(row, 1, shape.n) \in Seq(Int)
    BY <1>1, <1>2, <1>4
  <2>2. Promised(row) = SubSeq(row, shape.n + 1, Len(row)) \o SubSeq(row, 1, shape.n)
    BY <1>8 DEF Promised
  <2>3. QED
    BY <2>1, <2>2, ConcatProperties
<1>9. CASE shape.fn \in {"slice", "reverse_slice"}
  <2>1. shape.i \in Nat /\ shape.i + shape.n <= NCols
    BY <1>1, <1>9 DEF Shapes
  <2>2. PICK a : a = SubSeq(row, 1, shape.i)
    OBVIOUS
  <2>3. PICK b : b = SubSeq(row, shape.i + 1, shape.i + shape.n)
    OBVIOUS
  <2>4. PICK c : c = SubSeq(row, shape.i + shape.n + 1, Len(row))
    OBVIOUS
  <2>5. a \in Seq(Int) /\ b \in Seq(Int) /\ c \in Seq(Int)
    <3>1. /\ shape.i \in Int /\ shape.i <= Len(row) /\ shape.i + 1 \in Int /\ 1 <= shape.i + 1
          /\ shape.i + shape.n \in Int /\ shape.i + shape.n <= Len(row)
          /\ shape.i + shape.n + 1 \in Int /\ 1 <= shape.i + shape.n + 1 /\ Len(row) \in Int
          /\ Len(row) <= Len(row) /\ 1 \in Int /\ 1 <= 1
      BY <1>1, <1>4, <2>1, SMTT(60)
    <3>2. a \in Seq(Int)
      BY <1>2, <2>2, <3>1, Zenon
    <3>3. b \in Seq(Int)
      BY <1>2, <2>3, <3>1, Zenon
    <3>4. c \in Seq(Int)
      BY <1>2, <2>4, <3>1, Zenon
    <3>5. QED
      BY <3>2, <3>3, <3>4
  <2>6. Reverse(b) \in Seq(Int)
    BY <1>3, <2>5
  <2>7. shape.fn = "slice" => Promised(row) = b
    BY <2>3 DEF Promised
  <2>8. shape.fn = "reverse_slice" => Promised(row) = a \o Reverse(b) \o c
    BY <2>2, <2>3, <2>4 DEF Promised
  <2>9. a \o Reverse(b) \o c \in Seq(Int)
    BY <2>5, <2>6, ConcatProperties
  <2>10. QED
    BY <1>9, <2>5, <2>7, <2>8, <2>9, Zenon
<1>10. QED
  BY <1>5, <1>6, <1>7, <1>8, <1>9 DEF Shapes

\* And so is what the tuple functions make of it.
LEMMA TransformType ==
  ASSUME NEW row, IsRow(row), shape \in Shapes
  PROVE  Transform(row) \in Seq(Int) /\ Transform(row) = Promised(row)
BY PromisedType, TupleFunctions, Zenon

\* nextrow fetches the next row, whatever the row before was, or finds the end.
LEMMA NextRowIs ==
  ASSUME ProgramTypeOK, NextRow
  PROVE  \/ fetched' = fetched + 1 /\ currentRow_' = Row(fetched + 1) /\ end_' = end_
         \/ end_' = TRUE /\ fetched' = fetched /\ currentRow_' = currentRow_
<1>1. PICK r : r = Row(fetched + 1) /\ IsRow(r)
  BY RowIs DEF ProgramTypeOK
<1>2. currentRow_ \in Seq(Int) /\ r \in Seq(Int) /\ Len(currentRow_) = Len(r)
  BY <1>1 DEF ProgramTypeOK, IsRow
<1>3. SetColumns(currentRow_, r) = r
  BY <1>2, SetColumnsIs, Zenon
<1>4. QED
  BY <1>1, <1>3 DEF NextRow

\* A prefix is known by its length and elements.
LEMMA PrefixIs ==
  ASSUME NEW S, NEW s \in Seq(S), NEW t \in Seq(S)
  PROVE  IsPrefix(s, t) <=> Extends(t, s)
<1>1. ASSUME IsPrefix(s, t) PROVE Extends(t, s)
  <2>1. Len(s) <= Len(t) /\ SubSeq(s, 1, Len(s)) = SubSeq(t, 1, Len(s))
    BY <1>1 DEF IsPrefix
  <2>2. ASSUME NEW i \in 1 .. Len(s) PROVE t[i] = s[i]
    <3>1. SubSeq(s, 1, Len(s))[i] = s[i] /\ SubSeq(t, 1, Len(s))[i] = t[i]
      BY <2>1, LenProperties
    <3>2. QED
      BY <2>1, <3>1
  <2>3. QED
    BY <2>1, <2>2 DEF Extends
<1>2. ASSUME Extends(t, s) PROVE IsPrefix(s, t)
  BY <1>2, LenProperties DEF IsPrefix, Extends
<1>3. QED
  BY <1>1, <1>2

\* The empty sequence, and the sequence itself, are prefixes; a prefix remains
\* one when the sequence grows, and so does a prefix of a prefix.
LEMMA PrefixFacts ==
  ASSUME NEW S
  PROVE  /\ \A t \in Seq(S) : IsPrefix(<<>>, t) /\ IsPrefix(t, t)
         /\ \A s \in Seq(S), t \in Seq(S) : IsPrefix(s, t) => \A x \in S : IsPrefix(s, Append(t, x))
         /\ \A r \in Seq(S), s \in Seq(S), t \in Seq(S) :
               IsPrefix(r, s) /\ IsPrefix(s, t) => IsPrefix(r, t)
<1>1. ASSUME NEW t \in Seq(S) PROVE IsPrefix(<<>>, t) /\ IsPrefix(t, t)
  <2>1. Extends(t, <<>>) /\ Extends(t, t) /\ <<>> \in Seq(S)
    BY DEF Extends
  <2>2. QED
    BY <2>1, PrefixIs, Zenon
<1>2. ASSUME NEW s \in Seq(S), NEW t \in Seq(S), IsPrefix(s, t), NEW x \in S
      PROVE  IsPrefix(s, Append(t, x))
  <2>1. Extends(t, s)
    BY <1>2, PrefixIs, Zenon
  <2>2. PICK u : u = Append(t, x)
    OBVIOUS
  <2>5. u \in Seq(S) /\ Len(u) = Len(t) + 1 /\ \A i \in 1 .. Len(t) : u[i] = t[i]
    BY <2>2
  <2>3. Extends(u, s)
    BY <2>1, <2>5, LenProperties DEF Extends
  <2>4. QED
    BY <2>2, <2>3, <2>5, PrefixIs, Zenon
<1>3. ASSUME NEW r \in Seq(S), NEW s \in Seq(S), NEW t \in Seq(S), IsPrefix(r, s), IsPrefix(s, t)
      PROVE  IsPrefix(r, t)
  <2>1. Extends(s, r) /\ Extends(t, s)
    BY <1>3, PrefixIs, Zenon
  <2>2. Extends(t, r)
    BY <2>1, LenProperties DEF Extends
  <2>3. QED
    BY <2>2, PrefixIs, Zenon
<1>4. QED
  BY <1>1, <1>2, <1>3, Zenon

\* executeUpdate() of a batch: all of it is in the table, or Oracle has thrown
\* and a part of it is.
LEMMA ExecuteIs ==
  ASSUME NEW T, NEW next, NEW batch \in Seq(T), NEW w \in Seq(T), inserted \in Seq(T),
         w = inserted \o batch, Execute(batch, next)
  PROVE  /\ inserted' \in Seq(T) /\ pending' \in Seq(T) /\ nwaiting_' \in Nat
         /\ IsPrefix(inserted, inserted') /\ IsPrefix(inserted', w)
         /\ \/ /\ threw' = threw /\ pc' = next
               /\ inserted' = w /\ pending' = <<>> /\ nwaiting_' = 0
            \/ threw' = "update" /\ pc' = "unwind"
<1> DEFINE done == pending' = <<>> /\ nwaiting_' = 0 /\ inserted' = w
<1>1. Len(batch) \in Nat /\ Len(inserted) \in Nat
  BY LenProperties
<1>2. Joins(w, inserted, batch)
  BY ConcatJoins, Zenon
<1>3. CASE /\ inserted' = inserted \o batch /\ pending' = <<>> /\ nwaiting_' = 0
           /\ pc' = next /\ threw' = threw
  <2>1. Extends(w, inserted)
    BY <1>1, <1>2, LenProperties DEF Joins, Extends
  <2>2. IsPrefix(inserted, w) /\ IsPrefix(w, w)
    BY <2>1, PrefixIs, PrefixFacts, Zenon
  <2>3. <<>> \in Seq(T) /\ 0 \in Nat
    OBVIOUS
  <2>4. QED
    BY <1>3, <2>2, <2>3, Zenon
<1>4. CASE /\ \E k \in 0 .. Len(batch) - 1 : inserted' = inserted \o SubSeq(batch, 1, k)
           /\ pending' = batch /\ nwaiting_' = Len(batch)
           /\ pc' = "unwind" /\ threw' = "update"
  <2>1. PICK k \in 0 .. Len(batch) - 1 : inserted' = inserted \o SubSeq(batch, 1, k)
    BY <1>4
  <2>2. PICK part : part = SubSeq(batch, 1, k)
    OBVIOUS
  <2>3. part \in Seq(T) /\ Part(part, 0, k, batch)
    <3>1. 0 \in Nat /\ k \in Nat /\ 0 + k <= Len(batch) /\ 1 = 0 + 1 /\ k = 0 + k
      BY <1>1
    <3>2. QED
      BY <2>2, <3>1, SubSeqIs, Zenon
  <2>4. PICK i : i = inserted \o part /\ i \in Seq(T) /\ Joins(i, inserted, part)
    BY <2>3, ConcatJoins, Zenon
  <2>5. Len(part) = k /\ k \in Nat /\ k <= Len(batch) /\ \A j \in 1 .. k : part[j] = batch[j]
    BY <1>1, <2>3 DEF Part
  <2>6. Len(i) = Len(inserted) + k /\ Len(w) = Len(inserted) + Len(batch)
    BY <1>2, <2>4, <2>5 DEF Joins
  <2>7. Extends(i, inserted)
    BY <1>1, <2>4, <2>5, <2>6 DEF Joins, Extends
  <2>8. ASSUME NEW j \in 1 .. Len(i) PROVE w[j] = i[j]
    <3>1. CASE j <= Len(inserted)
      BY <1>1, <1>2, <2>4, <3>1 DEF Joins
    <3>2. CASE j > Len(inserted)
      <4>1. PICK m \in 1 .. k : j = Len(inserted) + m
        <5>1. j - Len(inserted) \in 1 .. k
          BY <1>1, <2>5, <2>6, <3>2
        <5>2. j = Len(inserted) + (j - Len(inserted))
          BY <1>1
        <5>3. QED
          BY <5>1, <5>2
      <4>2. i[j] = part[m] /\ w[j] = batch[m] /\ part[m] = batch[m]
        BY <1>1, <1>2, <2>4, <2>5, <4>1 DEF Joins
      <4>3. QED
        BY <4>2
    <3>3. QED
      BY <1>1, <2>5, <2>6, <3>1, <3>2
  <2>9. Extends(w, i)
    BY <1>1, <2>5, <2>6, <2>8 DEF Extends
  <2>10. IsPrefix(inserted, i) /\ IsPrefix(i, w)
    BY <2>4, <2>7, <2>9, PrefixIs, Zenon
  <2>11. inserted' = i
    BY <2>1, <2>2, <2>4, Zenon
  <2>12. QED
    BY <1>1, <1>4, <2>4, <2>10, <2>11, Zenon
<1>5. QED
  BY <1>3, <1>4, Zenon DEF Execute, Throw

\* A row is written behind the rows bound: the first of a batch as well, since
\* none is bound then.
LEMMA WriteIs ==
  ASSUME ProgramTypeOK, RowsFetched, RowsBound, Scoped, Write
  PROVE  \E row \in Seq(Int), batch \in Seq(Seq(Int)) :
           /\ row = Promised(Row(fetched)) /\ batch = Append(pending, row)
           /\ pc = "row" /\ threw = "no" /\ "output" \in alive
           /\ written' = Append(written, row) /\ written' = inserted \o batch
           /\ \/ Execute(batch, "step")
              \/ /\ nwaiting_ + 1 # batchsize_
                 /\ pending' = batch /\ nwaiting_' = nwaiting_ + 1
                 /\ pc' = "step" /\ inserted' = inserted /\ threw' = threw
              \/ /\ pc' = "unwind" /\ threw' = "bind" /\ nwaiting_' = nwaiting_ + 1
                 /\ pending' = pending /\ inserted' = inserted
           /\ UNCHANGED <<setup, alive, env_, conn_, input, committed, flushed>>
<1> DEFINE n == nwaiting_ + 1
<1>1. /\ pc = "row" /\ threw = "no" /\ "output" \in alive /\ currentRow_ = Row(fetched)
      /\ written = inserted \o pending /\ Len(pending) = nwaiting_
  BY DEF Write, RowsFetched, RowsBound, Scoped, RowsInOrder
<1>2. PICK row \in Seq(Int) : row = Transform(currentRow_) /\ row = Promised(Row(fetched))
  <2>1. IsRow(currentRow_) /\ shape \in Shapes
    BY DEF ProgramTypeOK
  <2>2. QED
    BY <1>1, <2>1, TransformType, Zenon
<1>3. PICK batch : batch = Append(pending, row)
  OBVIOUS
<1>4. Bound(row) = row
  BY BoundIs
<1>5. (IF n > 1 THEN Append(pending, row) ELSE <<row>>) = batch
  <2>1. CASE n > 1
    BY <1>3, <2>1
  <2>2. CASE ~(n > 1)
    <3>1. pending = <<>>
      BY <1>1, <2>2, EmptySeq DEF ProgramTypeOK
    <3>2. Append(<<>>, row) = <<row>>
      OBVIOUS
    <3>3. QED
      BY <1>3, <2>2, <3>1, <3>2, Zenon
  <2>3. QED
    BY <2>1, <2>2
<1>6. /\ written' = Append(written, row)
      /\ \/ n = batchsize_ /\ Execute(batch, "step")
         \/ /\ n # batchsize_
            /\ pending' = batch /\ nwaiting_' = n
            /\ pc' = "step"
            /\ UNCHANGED <<inserted, threw>>
         \/ /\ Throw("bind")
            /\ nwaiting_' = n
            /\ UNCHANGED <<pending, inserted>>
      /\ UNCHANGED <<setup, alive, env_, conn_, input, committed, flushed>>
  BY <1>2, <1>4, <1>5, Zenon DEF Write
<1>7. batch \in Seq(Seq(Int))
  BY <1>3 DEF ProgramTypeOK
<1>8. written' = inserted \o batch
  <2>1. PICK T : row \in T /\ inserted \in Seq(T) /\ pending \in Seq(T)
    BY DEF ProgramTypeOK
  <2>2. AppendOf(ConcatOf(inserted, pending), row) = ConcatOf(inserted, AppendOf(pending, row))
    BY ONLY <2>1, PushJoined
  <2>3. QED
    BY <1>1, <1>3, <1>6, <2>2, Zenon DEF AppendOf, ConcatOf
<1>9. QED
  BY <1>1, <1>2, <1>3, <1>6, <1>7, <1>8, Zenon DEF Throw

-----------------------------------------------------------------------------
(* Types, and what is alive.                                               *)

\* The batches a program is constructed with, and how.
LEMMA SetupTypes ==
  ASSUME ProgramInit
  PROVE  nrows \in Nat /\ kind \in Kinds /\ batchsize_ \in Nat
BY OcciAssumption DEF ProgramInit

\* The types at the beginning.
LEMMA ProgramTypeInit == ProgramInit => ProgramTypeOK
<1> SUFFICES ASSUME ProgramInit PROVE ProgramTypeOK
  OBVIOUS
<1>1. nrows \in Nat /\ kind \in Kinds /\ batchsize_ \in Nat
  BY SetupTypes
<1>2. IsRow(currentRow_)
  BY RowIs DEF ProgramInit
<1>3. /\ pending \in Seq(Seq(Int)) /\ inserted \in Seq(Seq(Int))
      /\ committed \in Seq(Seq(Int)) /\ written \in Seq(Seq(Int))
  BY DEF ProgramInit
<1>4. /\ env_ \in [Objects -> {"none", "created", "terminated"}]
      /\ conn_ \in [Objects -> {"none", "users", "open", "terminated", "released"}]
  BY DEF ProgramInit
<1>5. QED
  BY <1>1, <1>2, <1>3, <1>4 DEF ProgramInit, ProgramTypeOK, Exceptions

\* A row written, a batch executed and a flush keep the types.
LEMMA TablesTyped ==
  ASSUME ProgramInv, Write \/ Flush
  PROVE  /\ pending' \in Seq(Seq(Int)) /\ inserted' \in Seq(Seq(Int)) /\ written' \in Seq(Seq(Int))
         /\ nwaiting_' \in Nat /\ pc' \in {"step", "unwind"}
         /\ threw' \in Exceptions /\ flushed' \in BOOLEAN
         /\ UNCHANGED <<setup, alive, env_, conn_, input, committed>>
<1> USE DEF ProgramInv
<1>0. /\ pending \in Seq(Seq(Int)) /\ inserted \in Seq(Seq(Int)) /\ written \in Seq(Seq(Int))
      /\ nwaiting_ \in Nat /\ threw \in Exceptions /\ flushed \in BOOLEAN
  BY DEF ProgramTypeOK
<1>1. CASE Write
  <2>1. PICK row \in Seq(Int), batch \in Seq(Seq(Int)) :
           /\ written' = Append(written, row) /\ written' = inserted \o batch
           /\ \/ Execute(batch, "step")
              \/ /\ nwaiting_ + 1 # batchsize_
                 /\ pending' = batch /\ nwaiting_' = nwaiting_ + 1
                 /\ pc' = "step" /\ inserted' = inserted /\ threw' = threw
              \/ /\ pc' = "unwind" /\ threw' = "bind" /\ nwaiting_' = nwaiting_ + 1
                 /\ pending' = pending /\ inserted' = inserted
           /\ UNCHANGED <<setup, alive, env_, conn_, input, committed, flushed>>
    BY <1>1, WriteIs, Zenon
  <2>2. written' \in Seq(Seq(Int)) /\ nwaiting_ + 1 \in Nat
    BY <1>0, <2>1
  <2>3. CASE Execute(batch, "step")
    <3>1. /\ inserted' \in Seq(Seq(Int)) /\ pending' \in Seq(Seq(Int)) /\ nwaiting_' \in Nat
          /\ (threw' = threw /\ pc' = "step") \/ (threw' = "update" /\ pc' = "unwind")
      BY <1>0, <2>1, <2>2, <2>3, ExecuteIs, Zenon
    <3>2. QED
      BY <1>0, <2>1, <2>2, <3>1 DEF Exceptions
  <2>4. QED
    BY <1>0, <2>1, <2>2, <2>3 DEF Exceptions
<1>2. CASE Flush
  <2>1. /\ written' = written /\ UNCHANGED <<setup, alive, env_, conn_, input, committed>>
        /\ flushed' \in BOOLEAN
    BY <1>2 DEF Flush
  <2>2. CASE Execute(pending, "unwind")
    <3>1. written = inserted \o pending
      BY <1>2 DEF Flush, RowsBound, Scoped, RowsInOrder
    <3>2. /\ inserted' \in Seq(Seq(Int)) /\ pending' \in Seq(Seq(Int)) /\ nwaiting_' \in Nat
          /\ (threw' = threw /\ pc' = "unwind") \/ (threw' = "update" /\ pc' = "unwind")
      BY <1>0, <2>2, <3>1, ExecuteIs, Zenon
    <3>3. QED
      BY <1>0, <2>1, <3>2 DEF Exceptions
  <2>3. CASE pc' = "unwind" /\ UNCHANGED <<pending, nwaiting_, inserted, threw>>
    BY <1>0, <2>1, <2>3
  <2>4. QED
    BY <1>2, <2>2, <2>3 DEF Flush
<1>3. QED
  BY <1>1, <1>2

\* A constructor throws at once, acquires what it needs, or leaves the
\* environment it has created behind.
LEMMA ConstructIs ==
  ASSUME NEW o \in Objects, Construct(o)
  PROVE  /\ pc = o /\ UNCHANGED <<setup, input, table, written, flushed>>
         /\ \/ /\ pc' = "unwind" /\ threw' = "batchsize"
               /\ alive' = alive /\ env_' = env_ /\ conn_' = conn_
            \/ \E e \in {"none", "created"}, c \in {"users", "open"} :
                 /\ o = "sink" => batchsize_ # 0
                 /\ env_' = [env_ EXCEPT ![o] = e] /\ conn_' = [conn_ EXCEPT ![o] = c]
                 /\ e = "created" => kind[o] = "auth"
                 /\ c = IF kind[o] = "conn" THEN "users" ELSE "open"
                 /\ alive' = alive \cup {o} /\ threw' = threw
                 /\ pc' = IF o = "source" THEN "sink" ELSE "output"
            \/ \E e \in {"none", "created"} :
                 /\ pc' = "unwind" /\ threw' = "connect"
                 /\ env_' = [env_ EXCEPT ![o] = e]
                 /\ alive' = alive /\ conn_' = conn_
<1>1. PICK e : e = IF kind[o] = "auth" THEN "created" ELSE "none"
  OBVIOUS
<1>2. PICK c : c = IF kind[o] = "conn" THEN "users" ELSE "open"
  OBVIOUS
<1>3. e \in {"none", "created"} /\ c \in {"users", "open"} /\ (e = "created" => kind[o] = "auth")
  BY <1>1, <1>2
<1>4. PICK next : next = IF o = "source" THEN "sink" ELSE "output"
  OBVIOUS
<1>5. /\ pc = o /\ UNCHANGED <<setup, input, table, written, flushed>>
      /\ \/ /\ pc' = "unwind" /\ threw' = "batchsize"
            /\ UNCHANGED <<alive, env_, conn_>>
         \/ /\ o = "sink" => batchsize_ # 0
            /\ env_' = [env_ EXCEPT ![o] = e] /\ conn_' = [conn_ EXCEPT ![o] = c]
            /\ alive' = alive \cup {o} /\ pc' = next /\ UNCHANGED threw
         \/ /\ env_' = [env_ EXCEPT ![o] = e] /\ pc' = "unwind" /\ threw' = "connect"
            /\ UNCHANGED <<alive, conn_>>
  BY <1>1, <1>2, <1>4, Zenon DEF Construct, Throw
<1>6. QED
  BY <1>2, <1>3, <1>4, <1>5, Zenon

\* A constructor's part of the types.
LEMMA ConstructTyped ==
  ASSUME ProgramTypeOK, NEW o \in Objects, Construct(o)
  PROVE  ProgramTypeOK'
<1>1. /\ env_ \in [Objects -> {"none", "created", "terminated"}]
      /\ conn_ \in [Objects -> {"none", "users", "open", "terminated", "released"}]
      /\ alive \subseteq Objects \cup {"input", "output"} /\ threw \in Exceptions
  BY DEF ProgramTypeOK
<1>2. /\ env_' \in [Objects -> {"none", "created", "terminated"}]
      /\ conn_' \in [Objects -> {"none", "users", "open", "terminated", "released"}]
      /\ alive' \subseteq Objects \cup {"input", "output"} /\ threw' \in Exceptions
      /\ pc' \in {"sink", "output", "unwind"}
      /\ UNCHANGED <<setup, input, table, written, flushed>>
  <2>1. CASE /\ pc' = "unwind" /\ threw' = "batchsize"
             /\ alive' = alive /\ env_' = env_ /\ conn_' = conn_
    BY <1>1, <2>1, ConstructIs DEF Exceptions
  <2>2. ASSUME NEW e \in {"none", "created"}, NEW c \in {"users", "open"},
               env_' = [env_ EXCEPT ![o] = e], conn_' = [conn_ EXCEPT ![o] = c],
               alive' = alive \cup {o}, threw' = threw,
               pc' = IF o = "source" THEN "sink" ELSE "output",
               UNCHANGED <<setup, input, table, written, flushed>>
        PROVE  /\ env_' \in [Objects -> {"none", "created", "terminated"}]
               /\ conn_' \in [Objects -> {"none", "users", "open", "terminated", "released"}]
               /\ alive' \subseteq Objects \cup {"input", "output"} /\ threw' \in Exceptions
               /\ pc' \in {"sink", "output", "unwind"}
               /\ UNCHANGED <<setup, input, table, written, flushed>>
    BY <1>1, <2>2
  <2>3. ASSUME NEW e \in {"none", "created"}, env_' = [env_ EXCEPT ![o] = e],
               pc' = "unwind", threw' = "connect", alive' = alive, conn_' = conn_,
               UNCHANGED <<setup, input, table, written, flushed>>
        PROVE  /\ env_' \in [Objects -> {"none", "created", "terminated"}]
               /\ conn_' \in [Objects -> {"none", "users", "open", "terminated", "released"}]
               /\ alive' \subseteq Objects \cup {"input", "output"} /\ threw' \in Exceptions
               /\ pc' \in {"sink", "output", "unwind"}
               /\ UNCHANGED <<setup, input, table, written, flushed>>
    BY <1>1, <2>3 DEF Exceptions
  <2>4. QED
    BY <2>1, <2>2, <2>3, ConstructIs, Zenon
<1>3. QED
  BY <1>2 DEF ProgramTypeOK, setup, input, table, IsRow

\* A destructor's part of the types.
LEMMA ReleaseTyped ==
  ASSUME ProgramTypeOK, NEW o \in Objects, Release(o)
  PROVE  /\ env_' \in [Objects -> {"none", "created", "terminated"}]
         /\ conn_' \in [Objects -> {"none", "users", "open", "terminated", "released"}]
<1>1. kind[o] \in {"auth", "env", "conn", "pool"}
  BY OcciAssumption DEF ProgramTypeOK, Objects
<1>2. CASE kind[o] \in {"auth", "env"}
  BY <1>2 DEF Release, ProgramTypeOK
<1>3. CASE kind[o] = "pool"
  BY <1>3 DEF Release, ProgramTypeOK
<1>4. CASE kind[o] = "conn"
  BY <1>4 DEF Release, ProgramTypeOK
<1>5. QED
  BY <1>1, <1>2, <1>3, <1>4

\* Every step keeps the types.
LEMMA ProgramTypeStep == ProgramInv /\ [ProgramNext]_programVars => ProgramTypeOK'
<1> SUFFICES ASSUME ProgramInv, [ProgramNext]_programVars PROVE ProgramTypeOK'
  OBVIOUS
<1>0. ProgramTypeOK
  BY DEF ProgramInv
<1>1. CASE UNCHANGED programVars
  BY <1>0, <1>1 DEF programVars, setup, input, table, ProgramTypeOK, IsRow
<1>2. ASSUME NEW o \in Objects, Construct(o) PROVE ProgramTypeOK'
  BY <1>0, <1>2, ConstructTyped
<1>3. CASE OpenOutput
  BY <1>0, <1>3 DEF OpenOutput, Throw, setup, input, table, ProgramTypeOK, IsRow, Exceptions
<1>4. CASE Fetch
  <2>1. fetched' \in Nat /\ IsRow(currentRow_)' /\ end_' \in BOOLEAN
    <3>1. CASE NextRow
      <4>1. /\ fetched \in Nat /\ fetched + 1 \in Nat /\ IsRow(currentRow_)
            /\ end_ \in BOOLEAN /\ TRUE \in BOOLEAN
        BY <1>0 DEF ProgramTypeOK
      <4>2. IsRow(Row(fetched + 1))
        BY <4>1, RowIs
      <4>3. \/ fetched' = fetched + 1 /\ currentRow_' = Row(fetched + 1) /\ end_' = end_
            \/ end_' = TRUE /\ fetched' = fetched /\ currentRow_' = currentRow_
        BY <1>0, <3>1, NextRowIs
      <4>4. IsRow(currentRow_)' <=> currentRow_' \in Seq(Int) /\ Len(currentRow_') = NCols
        BY DEF IsRow
      <4>5. QED
        BY <4>1, <4>2, <4>3, <4>4, Zenon DEF IsRow
    <3>2. CASE UNCHANGED input
      BY <1>0, <3>2 DEF input, ProgramTypeOK, IsRow
    <3>3. QED
      BY <1>4, <3>1, <3>2 DEF Fetch
  <2>2. /\ UNCHANGED <<setup, env_, conn_, table, written, flushed>>
        /\ alive' \subseteq Objects \cup {"input", "output"} /\ threw' \in Exceptions
        /\ pc' \in {"loop", "unwind"}
    BY <1>0, <1>4 DEF Fetch, Throw, Exceptions, ProgramTypeOK
  <2>3. QED
    BY <1>0, <2>1, <2>2 DEF setup, table, ProgramTypeOK
<1>5. CASE Dereference
  BY <1>0, <1>5 DEF Dereference, Throw, setup, input, table, ProgramTypeOK, IsRow, Exceptions
<1>6. CASE LeaveLoop \/ NoFlush
  BY <1>0, <1>6 DEF LeaveLoop, NoFlush, setup, input, table, ProgramTypeOK, IsRow
<1>7. CASE Write \/ Flush
  <2>1. /\ pending' \in Seq(Seq(Int)) /\ inserted' \in Seq(Seq(Int)) /\ written' \in Seq(Seq(Int))
        /\ nwaiting_' \in Nat /\ pc' \in {"step", "unwind"}
        /\ threw' \in Exceptions /\ flushed' \in BOOLEAN
        /\ UNCHANGED <<setup, alive, env_, conn_, input, committed>>
    BY <1>7, TablesTyped, Zenon
  <2>2. QED
    BY <1>0, <2>1 DEF setup, input, ProgramTypeOK, IsRow
<1>8. CASE DestroyIterator
  <2>1. /\ pending' \in Seq(Seq(Int)) /\ nwaiting_' \in Nat
        /\ alive' \subseteq Objects \cup {"input", "output"}
        /\ UNCHANGED <<setup, pc, env_, conn_, input, inserted, committed, written, flushed, threw>>
    BY <1>0, <1>8 DEF DestroyIterator, ProgramTypeOK
  <2>2. QED
    BY <1>0, <2>1 DEF setup, input, ProgramTypeOK, IsRow
<1>9. CASE DestroySink
  <2>1. /\ env_' \in [Objects -> {"none", "created", "terminated"}]
        /\ conn_' \in [Objects -> {"none", "users", "open", "terminated", "released"}]
    <3>1. CASE Release("sink")
      BY <1>0, <3>1, ReleaseTyped DEF Objects
    <3>2. CASE UNCHANGED <<env_, conn_>>
      BY <1>0, <3>2 DEF ProgramTypeOK
    <3>3. QED
      BY <1>9, <3>1, <3>2 DEF DestroySink
  <2>2. /\ committed' \in Seq(Seq(Int)) /\ alive' \subseteq Objects \cup {"input", "output"}
        /\ pc' \in {"unwind", "terminated"}
        /\ UNCHANGED <<setup, input, pending, nwaiting_, inserted, written, flushed, threw>>
    BY <1>0, <1>9 DEF DestroySink, ProgramTypeOK
  <2>3. QED
    BY <1>0, <2>1, <2>2 DEF setup, input, ProgramTypeOK, IsRow
<1>10. CASE DestroySource
  <2>1. /\ env_' \in [Objects -> {"none", "created", "terminated"}]
        /\ conn_' \in [Objects -> {"none", "users", "open", "terminated", "released"}]
    BY <1>0, <1>10, ReleaseTyped DEF Objects, DestroySource
  <2>2. alive' = {} /\ UNCHANGED <<setup, pc, input, table, written, flushed, threw>>
    BY <1>10 DEF DestroySource
  <2>3. QED
    BY <1>0, <2>1, <2>2 DEF setup, input, table, ProgramTypeOK, IsRow
<1>11. QED
  BY <1>1, <1>2, <1>3, <1>4, <1>5, <1>6, <1>7, <1>8, <1>9, <1>10 DEF ProgramNext

\* Every step keeps what is alive where the program is.
LEMMA ScopedStep == ProgramInv /\ [ProgramNext]_programVars => Scoped'
<1> SUFFICES ASSUME ProgramInv, [ProgramNext]_programVars PROVE Scoped'
  OBVIOUS
<1> USE DEF Scoped
<1>0. ProgramTypeOK /\ Scoped
  BY DEF ProgramInv
<1>1. CASE UNCHANGED programVars
  BY <1>0, <1>1 DEF programVars, setup
<1>2. ASSUME NEW o \in Objects, Construct(o) PROVE Scoped'
  <2>1. UNCHANGED <<batchsize_, flushed>> /\ batchsize_ \in Nat
    BY <1>0, <1>2 DEF Construct, setup, ProgramTypeOK
  <2>2. CASE o = "source"
    BY <1>0, <1>2, <2>1, <2>2, ConstructIs DEF Objects
  <2>3. CASE o = "sink"
    BY <1>0, <1>2, <2>1, <2>3, ConstructIs DEF Objects
  <2>4. QED
    BY <2>2, <2>3 DEF Objects
<1>3. CASE OpenOutput
  BY <1>0, <1>3 DEF OpenOutput, Throw, setup, Objects
<1>4. CASE Fetch
  BY <1>0, <1>4 DEF Fetch, Throw, setup, Objects
<1>5. CASE Dereference
  BY <1>0, <1>5 DEF Dereference, Throw, setup, Objects
<1>6. CASE LeaveLoop \/ NoFlush
  BY <1>0, <1>6 DEF LeaveLoop, NoFlush, setup, Objects
<1>7. CASE Write \/ Flush
  <2>1. UNCHANGED <<alive, batchsize_>>
    BY <1>7, TablesTyped DEF setup
  <2>2. pc' = "step" => pc = "row" /\ threw' = threw /\ flushed' = flushed
    BY <1>7 DEF Write, Flush, Execute, Throw
  <2>3. pc' \in {"step", "unwind"}
    BY <1>7, TablesTyped
  <2>4. QED
    BY <1>0, <2>1, <2>2, <2>3
<1>8. CASE DestroyIterator
  BY <1>0, <1>8 DEF DestroyIterator, setup, Objects
<1>9. CASE DestroySink
  <2>1. /\ "input" \notin alive /\ "output" \notin alive /\ "sink" \in alive /\ "source" \in alive
        /\ alive = Objects
    BY <1>0, <1>9, ZenonT(60) DEF DestroySink, ProgramTypeOK, Objects
  <2>2. QED
    BY <1>0, <1>9, <2>1 DEF DestroySink, setup, Objects
<1>10. CASE DestroySource
  BY <1>0, <1>10 DEF DestroySource, setup, Objects
<1>11. QED
  BY <1>1, <1>2, <1>3, <1>4, <1>5, <1>6, <1>7, <1>8, <1>9, <1>10 DEF ProgramNext

-----------------------------------------------------------------------------
(* The rows fetched and written.                                           *)

\* What is promised for a row does not change while the program runs.
LEMMA PromiseKept ==
  ASSUME NEW row, shape' = shape
  PROVE  Promised(row)' = Promised(row)
BY DEF Promised

\* Every step keeps the rows written as promised.
LEMMA RowsFetchedStep == ProgramInv /\ [ProgramNext]_programVars => RowsFetched'
<1> SUFFICES ASSUME ProgramInv, [ProgramNext]_programVars PROVE RowsFetched'
  OBVIOUS
<1>0. ProgramTypeOK /\ Scoped /\ RowsFetched /\ RowsBound
  BY DEF ProgramInv
<1>1. ProgramTypeOK' /\ Scoped'
  BY ProgramTypeStep, ScopedStep
<1>2. shape' = shape
  <2>1. CASE Write \/ Flush
    BY <2>1, TablesTyped DEF setup
  <2>2. ASSUME NEW o \in Objects, Construct(o) PROVE shape' = shape
    BY <2>2 DEF Construct, setup
  <2>3. QED
    BY <2>1, <2>2 DEF ProgramNext, programVars, OpenOutput, Fetch, Dereference, LeaveLoop, NoFlush,
                      DestroyIterator, DestroySink, DestroySource, setup
<1>3. \A row : Promised(row)' = Promised(row)
  BY <1>2, PromiseKept
<1>4. written \in Seq(Seq(Int)) /\ written' \in Seq(Seq(Int)) /\ Len(written) \in Nat /\ fetched \in Nat
  BY <1>0, <1>1, LenProperties DEF ProgramTypeOK
<1>5. \A k \in 1 .. Len(written) : written[k] = Promised(Row(k))
  BY <1>0, <1>4, LenProperties DEF RowsFetched, RowsTransformed
<1>6. (\A k \in 1 .. Len(written') : written'[k] = Promised(Row(k))') => RowsTransformed'
  BY <1>4, LenProperties DEF RowsTransformed
<1>7. ASSUME UNCHANGED <<fetched, end_, currentRow_, written>>,
             pc' \in {"unwind", "terminated", "after"} \/ pc' = pc
             \/ (pc \in {"source", "sink", "output"} /\ pc' \in {"sink", "output", "input"})
             \/ (pc = "loop" /\ pc' = "row" /\ ~end_)
      PROVE  RowsFetched'
  <2>1. RowsTransformed'
    <3>1. \A k \in 1 .. Len(written') : written'[k] = Promised(Row(k))'
      BY <1>3, <1>5, <1>7, Zenon
    <3>2. QED
      BY <1>6, <3>1
  <2>2. QED
    BY <1>0, <1>7, <2>1 DEF RowsFetched, Row
<1>8. CASE Write
  <2>1. PICK row : /\ row = Promised(Row(fetched)) /\ pc = "row" /\ written' = Append(written, row)
                   /\ UNCHANGED input /\ pc' \in {"step", "unwind"}
    <3>1. PICK row \in Seq(Int), batch \in Seq(Seq(Int)) :
           /\ row = Promised(Row(fetched)) /\ pc = "row" /\ written' = Append(written, row)
           /\ UNCHANGED <<setup, alive, env_, conn_, input, committed, flushed>>
      BY <1>0, <1>8, WriteIs, Zenon
    <3>2. pc' \in {"step", "unwind"} /\ UNCHANGED input
      BY <1>8, TablesTyped
    <3>3. QED
      BY <3>1, <3>2, Zenon
  <2>2. fetched = Len(written) + 1 /\ ~end_
    BY <1>0, <2>1 DEF RowsFetched
  <2>3. row \in Seq(Int)
    BY <1>0, <2>1, PromisedType, RowIs DEF ProgramTypeOK
  <2>4. Len(written') = Len(written) + 1 /\ written'[Len(written) + 1] = row
        /\ \A k \in 1 .. Len(written) : written'[k] = written[k]
    BY <1>4, <2>1, <2>3
  <2>5. ASSUME NEW k \in 1 .. Len(written') PROVE written'[k] = Promised(Row(k))'
    <3>1. Promised(Row(k))' = Promised(Row(k))
      BY <1>2 DEF Promised, Row
    <3>2. CASE k = Len(written) + 1
      BY <2>1, <2>2, <2>4, <3>1, <3>2
    <3>3. CASE k # Len(written) + 1
      <4>1. k \in 1 .. Len(written)
        BY <1>4, <2>4, <3>3
      <4>2. QED
        BY <1>5, <2>4, <3>1, <4>1
    <3>4. QED
      BY <3>2, <3>3
  <2>6. RowsTransformed'
    BY <1>6, <2>5
  <2>7. QED
    BY <1>4, <2>1, <2>2, <2>4, <2>6 DEF RowsFetched, input
<1>9. CASE Fetch /\ NextRow
  <2>1. \/ fetched' = fetched + 1 /\ currentRow_' = Row(fetched + 1) /\ end_' = end_
        \/ end_' = TRUE /\ fetched' = fetched /\ currentRow_' = currentRow_
    BY <1>0, <1>9, NextRowIs
  <2>2. (fetched = Len(written) /\ written' = written /\ pc' = "loop") \/ pc' = "unwind"
    BY <1>0, <1>4, <1>9 DEF Fetch, Throw, RowsFetched
  <2>3. RowsTransformed'
    <3>1. \A k \in 1 .. Len(written') : written'[k] = Promised(Row(k))'
      BY <1>3, <1>5, <1>9, Zenon DEF Fetch
    <3>2. QED
      BY <1>6, <3>1
  <2>4. pc' = "loop" /\ ~end_' => currentRow_' = Row(fetched') /\ fetched' = Len(written') + 1
    BY <1>4, <2>1, <2>2 DEF Row
  <2>5. QED
    BY <2>2, <2>3, <2>4 DEF RowsFetched
<1>10. ASSUME \/ UNCHANGED programVars \/ (Fetch /\ UNCHANGED input /\ pc' = "unwind")
              \/ (\E o \in Objects : Construct(o))
              \/ OpenOutput \/ Dereference \/ LeaveLoop \/ Flush \/ NoFlush
              \/ DestroyIterator \/ DestroySink \/ DestroySource
      PROVE  RowsFetched'
  <2>1. CASE UNCHANGED programVars
    BY <1>7, <2>1 DEF programVars, input
  <2>2. ASSUME NEW o \in Objects, Construct(o) PROVE RowsFetched'
    BY <1>7, <2>2, ConstructIs DEF input, Objects
  <2>3. CASE OpenOutput \/ Dereference \/ LeaveLoop \/ NoFlush
    BY <1>7, <2>3 DEF OpenOutput, Dereference, LeaveLoop, NoFlush, input, Throw
  <2>4. CASE Fetch /\ UNCHANGED input /\ pc' = "unwind"
    BY <1>7, <2>4 DEF Fetch, input
  <2>5. CASE Flush
    BY <1>7, <2>5 DEF Flush, Execute, Throw, input
  <2>6. CASE DestroyIterator \/ DestroySink \/ DestroySource
    BY <1>7, <2>6 DEF DestroyIterator, DestroySink, DestroySource, input
  <2>7. QED
    BY <1>10, <2>1, <2>2, <2>3, <2>4, <2>5, <2>6
<1>11. QED
  BY <1>8, <1>9, <1>10 DEF ProgramNext, Fetch, Throw

-----------------------------------------------------------------------------
(* The rows bound, executed and committed.                                 *)

\* Every step keeps the rows executed and bound those written.
LEMMA RowsBoundStep == ProgramInv /\ [ProgramNext]_programVars => RowsBound'
<1> SUFFICES ASSUME ProgramInv, [ProgramNext]_programVars PROVE RowsBound'
  OBVIOUS
<1>1. ProgramTypeOK /\ Scoped /\ RowsFetched /\ RowsBound /\ ProgramTypeOK' /\ Scoped'
  BY ProgramTypeStep, ScopedStep DEF ProgramInv
<1>2. PICK T : /\ inserted \in Seq(T) /\ pending \in Seq(T) /\ written \in Seq(T)
               /\ inserted' \in Seq(T) /\ pending' \in Seq(T) /\ written' \in Seq(T)
               /\ T = Seq(Int)
  BY <1>1 DEF ProgramTypeOK
<1>3. nwaiting_ \in Nat /\ batchsize_ \in Nat
  BY <1>1 DEF ProgramTypeOK
<1>4. CASE /\ UNCHANGED table /\ UNCHANGED written /\ UNCHANGED batchsize_
           /\ threw' = "no" => threw = "no"
           /\ pc' \in {"source", "sink", "output", "input"}
                 => pc \in {"source", "sink", "output", "input"}
           /\ threw' = "no" /\ pc' \notin {"source", "sink"} /\ pc \in {"source", "sink"}
                 => batchsize_ > 0
           /\ threw' = "no" /\ "output" \in alive'
                 => "output" \in alive \/ (pc = "output" /\ batchsize_ > 0)
  <2>1. written = <<>> /\ inserted = <<>> /\ pending = <<>> =>
           Len(written) - Len(inserted) = 0 /\ written = inserted \o pending /\ Len(pending) = 0
    OBVIOUS
  <2>2. QED
    BY <1>1, <1>3, <1>4, <2>1 DEF RowsBound, RowsInOrder, table
<1>5. CASE Write
  <2>1. PICK row \in T, batch \in Seq(T) :
           /\ pc = "row" /\ threw = "no" /\ "output" \in alive /\ batch = Append(pending, row)
           /\ written' = Append(written, row) /\ written' = inserted \o batch
           /\ \/ Execute(batch, "step")
              \/ /\ nwaiting_ + 1 # batchsize_
                 /\ pending' = batch /\ nwaiting_' = nwaiting_ + 1
                 /\ pc' = "step" /\ inserted' = inserted /\ threw' = threw
              \/ /\ pc' = "unwind" /\ threw' = "bind" /\ nwaiting_' = nwaiting_ + 1
                 /\ pending' = pending /\ inserted' = inserted
           /\ UNCHANGED <<setup, alive, env_, conn_, input, committed, flushed>>
    BY <1>1, <1>2, <1>5, WriteIs, Zenon
  <2>2. /\ batchsize_' = batchsize_ /\ batchsize_ > 0 /\ pc' \in {"step", "unwind"}
        /\ nwaiting_ < batchsize_ /\ Len(pending) = nwaiting_
    BY <1>1, <1>5, <2>1, TablesTyped DEF setup, Scoped, RowsBound, RowsInOrder, ProgramInv
  <2>3. CASE Execute(batch, "step")
    <3>1. /\ IsPrefix(inserted', written')
          /\ \/ threw' = threw /\ inserted' = written' /\ pending' = <<>> /\ nwaiting_' = 0
             \/ threw' = "update"
      BY <1>2, <2>1, <2>3, ExecuteIs, Zenon
    <3>2. CASE threw' = "update"
      BY <2>2, <3>1, <3>2 DEF RowsBound, RowsInOrder
    <3>3. CASE inserted' = written' /\ pending' = <<>> /\ nwaiting_' = 0
      <4>1. written' \o <<>> = written' /\ Len(written') - Len(written') = 0 /\ Len(<<>>) = 0
        BY <1>2, LenProperties, ConcatEmptySeq
      <4>2. written' = inserted' \o pending'
        BY <3>3, <4>1, Zenon
      <4>3. QED
        BY <2>2, <3>1, <3>3, <4>1, <4>2 DEF RowsBound, RowsInOrder
    <3>4. QED
      BY <3>1, <3>2, <3>3
  <2>4. IsPrefix(inserted, written')
    <3>1. IsPrefix(inserted, written)
      BY <1>1 DEF RowsBound
    <3>2. inserted \in Seq(T) /\ written \in Seq(T) /\ row \in T
      BY <1>2
    <3>3. IsPrefix(inserted, Append(written, row))
      BY ONLY <3>1, <3>2, PrefixFacts, Zenon
    <3>4. QED
      BY <2>1, <3>3, Zenon
  <2>5. CASE /\ pending' = batch /\ nwaiting_' = nwaiting_ + 1
             /\ nwaiting_ + 1 # batchsize_ /\ inserted' = inserted
    <3>1. Len(batch) = nwaiting_ + 1 /\ Len(inserted \o batch) = Len(inserted) + Len(batch)
          /\ Len(inserted) \in Nat
      BY <1>2, <2>1, <2>2, LenProperties
    <3>2. nwaiting_' < batchsize_ /\ Len(written') - Len(inserted') < batchsize_
      BY <1>3, <2>1, <2>2, <2>5, <3>1
    <3>3. written' = inserted' \o pending' /\ Len(pending') = nwaiting_' /\ IsPrefix(inserted', written')
      BY <2>1, <2>4, <2>5, <3>1, Zenon
    <3>4. QED
      BY <2>2, <3>2, <3>3 DEF RowsBound, RowsInOrder
  <2>6. CASE threw' = "bind" /\ inserted' = inserted
    <3>1. IsPrefix(inserted', written')
      BY <2>4, <2>6, Zenon
    <3>2. QED
      BY <2>2, <2>6, <3>1 DEF RowsBound, RowsInOrder
  <2>7. QED
    BY <2>1, <2>3, <2>5, <2>6
<1>6. CASE Flush
  <2>1. /\ threw = "no" /\ "output" \in alive /\ pc' = "unwind" /\ written' = written
        /\ batchsize_' = batchsize_ /\ alive' = alive /\ batchsize_ > 0
    BY <1>1, <1>6 DEF Flush, Scoped, Execute, Throw, setup
  <2>2. written = inserted \o pending /\ Len(pending) = nwaiting_ /\ IsPrefix(inserted, written)
    BY <1>1, <2>1 DEF RowsBound, RowsInOrder
  <2>3. CASE Execute(pending, "unwind")
    <3>1. /\ IsPrefix(inserted', written)
          /\ \/ threw' = threw /\ inserted' = written /\ pending' = <<>> /\ nwaiting_' = 0
             \/ threw' = "update"
      BY <1>2, <2>2, <2>3, ExecuteIs, Zenon
    <3>2. IsPrefix(inserted', written')
      BY <2>1, <3>1, Zenon
    <3>3. CASE threw' = "update"
      BY <2>1, <3>2, <3>3 DEF RowsBound, RowsInOrder
    <3>4. CASE inserted' = written /\ pending' = <<>> /\ nwaiting_' = 0
      <4>1. written \o <<>> = written /\ Len(written) - Len(written) = 0 /\ Len(<<>>) = 0
        BY <1>2, LenProperties, ConcatEmptySeq
      <4>2. written' = inserted' \o pending'
        BY <2>1, <3>4, <4>1, Zenon
      <4>3. QED
        BY <2>1, <3>2, <3>4, <4>1, <4>2 DEF RowsBound, RowsInOrder
    <3>5. QED
      BY <3>1, <3>3, <3>4
  <2>4. CASE UNCHANGED <<pending, nwaiting_, inserted, threw>>
    BY <1>1, <2>1, <2>4 DEF RowsBound, RowsInOrder, Scoped
  <2>5. QED
    BY <1>6, <2>3, <2>4 DEF Flush
<1>7. CASE DestroyIterator
  <2>1. /\ UNCHANGED <<pc, inserted, written, threw, batchsize_>> /\ pc = "unwind"
        /\ "output" \in alive' => pending' = pending /\ nwaiting_' = nwaiting_ /\ "output" \in alive
    BY <1>7 DEF DestroyIterator, setup
  <2>2. QED
    BY <1>1, <2>1 DEF RowsBound, RowsInOrder
<1>8. CASE DestroySink
  BY <1>1, <1>8 DEF DestroySink, RowsBound, RowsInOrder, Scoped, setup
<1>9. ASSUME NEW o \in Objects, Construct(o) PROVE RowsBound'
  <2>1. /\ UNCHANGED table /\ UNCHANGED written /\ UNCHANGED batchsize_ /\ threw = "no"
        /\ "output" \in alive' => "output" \in alive
        /\ (pc' \in {"sink", "output"} \/ threw' # "no") /\ pc \in {"source", "sink"}
        /\ pc' = "output" => batchsize_ # 0
    BY <1>1, <1>9, ConstructIs DEF setup, Objects, Scoped
  <2>2. threw' = "no" /\ pc' \notin {"source", "sink"} => pc' = "output"
    BY <2>1
  <2>3. QED
    BY <1>3, <1>4, <2>1, <2>2
<1>10. CASE OpenOutput
  BY <1>1, <1>4, <1>10 DEF OpenOutput, Throw, setup, Scoped, Objects
<1>11. CASE Fetch
  BY <1>4, <1>11 DEF Fetch, Throw, setup
<1>12. CASE Dereference \/ LeaveLoop \/ NoFlush
  BY <1>4, <1>12 DEF Dereference, LeaveLoop, NoFlush, Throw, setup, table
<1>13. CASE DestroySource \/ UNCHANGED programVars
  BY <1>4, <1>13 DEF DestroySource, programVars, setup
<1>14. QED
  BY <1>5, <1>6, <1>7, <1>8, <1>9, <1>10, <1>11, <1>12, <1>13 DEF ProgramNext

\* Every step keeps what a sink commits, and when.
LEMMA CommittedLastStep == ProgramInv /\ [ProgramNext]_programVars => CommittedLast'
<1> SUFFICES ASSUME ProgramInv, [ProgramNext]_programVars PROVE CommittedLast'
  OBVIOUS
<1>1. ProgramTypeOK /\ Scoped /\ RowsBound /\ CommittedLast /\ ProgramTypeOK' /\ Scoped'
  BY ProgramTypeStep, ScopedStep DEF ProgramInv
<1>2. PICK T : inserted \in Seq(T) /\ written \in Seq(T) /\ inserted' \in Seq(T) /\ T = Seq(Int)
  BY <1>1 DEF ProgramTypeOK
<1>3. ASSUME committed' = committed, commit_' = commit_, pc # "unwind",
             pc' # "terminated" \/ pc = "terminated",
             IsPrefix(<<>>, inserted'), flushed' => threw' = "no" /\ inserted' = written',
             pc' = "unwind" /\ threw' = "no" => "sink" \in alive'
      PROVE  CommittedLast'
  BY <1>1, <1>3 DEF CommittedLast
<1>4. IsPrefix(<<>>, inserted') /\ IsPrefix(inserted, inserted)
  BY <1>2, PrefixFacts, Zenon
<1>5. CASE UNCHANGED programVars
  BY <1>1, <1>5 DEF CommittedLast, programVars, setup, table
<1>6. CASE Write
  BY <1>1, <1>3, <1>4, <1>6, TablesTyped DEF Write, Throw, Execute, Scoped, setup
<1>7. CASE Flush
  <2>1. /\ committed' = committed /\ commit_' = commit_ /\ pc = "after" /\ pc' = "unwind"
        /\ alive' = alive /\ written' = written /\ "sink" \in alive /\ threw = "no" /\ "output" \in alive
        /\ flushed' = (threw' = "no")
    BY <1>1, <1>7 DEF Flush, Scoped, setup, Execute, Throw, Objects
  <2>2. written = inserted \o pending /\ pending \in Seq(T) /\ Len(pending) = nwaiting_
    BY <1>1, <1>2, <2>1 DEF RowsBound, RowsInOrder, ProgramTypeOK
  <2>3. threw' = "no" => inserted' = written
    <3>1. CASE Execute(pending, "unwind")
      BY <1>2, <2>1, <2>2, <3>1, ExecuteIs, Zenon
    <3>2. CASE nwaiting_ = 0 /\ inserted' = inserted
      <4>1. pending = <<>> /\ inserted \o <<>> = inserted
        BY <1>2, <2>2, <3>2, EmptySeq, ConcatEmptySeq
      <4>2. QED
        BY <2>2, <3>2, <4>1, Zenon
    <3>3. QED
      BY <1>7, <3>1, <3>2 DEF Flush
  <2>4. QED
    BY <1>3, <1>4, <2>1, <2>3
<1>8. CASE DestroyIterator
  BY <1>1, <1>8 DEF DestroyIterator, CommittedLast, setup
<1>9. CASE DestroySink
  <2>1. /\ pc = "unwind" /\ "sink" \in alive /\ UNCHANGED <<inserted, written, flushed, threw, commit_>>
        /\ committed = <<>>
    BY <1>1, <1>9 DEF DestroySink, CommittedLast, setup
  <2>2. CASE /\ committed' = IF commit_ = "Commit" THEN inserted ELSE committed
             /\ alive' = alive \ {"sink"} /\ UNCHANGED pc
    <3>1. committed' = inserted \/ (committed' = committed /\ commit_ # "Commit")
      BY <2>2
    <3>2. IsPrefix(committed', inserted')
      BY <1>4, <2>1, <3>1, Zenon
    <3>3. QED
      BY <1>1, <2>1, <2>2, <3>1, <3>2 DEF CommittedLast
  <2>3. CASE pc' = "terminated" /\ UNCHANGED <<committed, alive>>
    BY <1>1, <1>4, <2>1, <2>3 DEF CommittedLast
  <2>4. QED
    BY <1>9, <2>2, <2>3 DEF DestroySink
<1>10. CASE DestroySource
  BY <1>1, <1>10 DEF DestroySource, CommittedLast, setup, table
<1>11. ASSUME NEW o \in Objects, Construct(o) PROVE CommittedLast'
  BY <1>1, <1>3, <1>4, <1>11, ConstructIs DEF setup, table, Objects, Scoped
<1>12. CASE OpenOutput
  BY <1>1, <1>3, <1>4, <1>12 DEF OpenOutput, Throw, setup, table, Scoped
<1>13. CASE Fetch
  BY <1>1, <1>3, <1>4, <1>13 DEF Fetch, Throw, setup, table, Scoped
<1>14. CASE Dereference
  BY <1>1, <1>3, <1>4, <1>14 DEF Dereference, Throw, setup, table, Scoped
<1>15. CASE LeaveLoop \/ NoFlush
  BY <1>1, <1>3, <1>4, <1>15 DEF LeaveLoop, NoFlush, setup, table, Scoped, Objects
<1>16. QED
  BY <1>5, <1>6, <1>7, <1>8, <1>9, <1>10, <1>11, <1>12, <1>13, <1>14, <1>15 DEF ProgramNext

-----------------------------------------------------------------------------
(* Connections and environments.                                           *)

\* A destructor gives back what the constructor acquired.
LEMMA ReleaseIs ==
  ASSUME ProgramInv, NEW o \in Objects, o \in alive, Release(o), alive' = alive \ {o},
         kind' = kind, threw' = threw, pc' = pc, pc = "unwind"
  PROVE  ObjectsHold'
<1>1. /\ kind[o] \in {"auth", "env", "conn", "pool"} /\ Holds(o) /\ \A p \in Objects : Holds(p)
      /\ env_ \in [Objects -> {"none", "created", "terminated"}]
      /\ conn_ \in [Objects -> {"none", "users", "open", "terminated", "released"}]
  BY OcciAssumption DEF ProgramInv, ProgramTypeOK, Objects, ObjectsHold
<1>2. PICK c : c = CASE kind[o] \in {"auth", "env"} -> "terminated"
                     [] kind[o] = "pool"            -> "released"
                     [] kind[o] = "conn"            -> conn_[o]
  OBVIOUS
<1>3. PICK e : e = IF kind[o] = "auth" THEN "terminated" ELSE env_[o]
  OBVIOUS
<1>4. conn_' = [conn_ EXCEPT ![o] = c] /\ env_' = [env_ EXCEPT ![o] = e]
  BY <1>2, <1>3, Zenon DEF Release
<1>5. c \in {"none", "users", IF kind[o] = "pool" THEN "released" ELSE "terminated"}
  BY <1>1, <1>2 DEF Holds
<1>6. e # "created"
  BY <1>1, <1>3 DEF Holds
<1>7. conn_'[o] = c /\ env_'[o] = e
  BY <1>1, <1>4
<1>8. Holds(o)'
  BY <1>5, <1>6, <1>7 DEF Holds, Objects
<1>9. ASSUME NEW p \in Objects, p # o PROVE Holds(p)'
  <2>1. conn_'[p] = conn_[p] /\ env_'[p] = env_[p] /\ (p \in alive' <=> p \in alive)
    BY <1>1, <1>4, <1>9
  <2>2. QED
    BY <1>1, <2>1 DEF Holds
<1>10. QED
  BY <1>8, <1>9 DEF ObjectsHold

\* Every step keeps what the objects hold.
LEMMA ObjectsHoldStep == ProgramInv /\ [ProgramNext]_programVars => ObjectsHold'
<1> SUFFICES ASSUME ProgramInv, [ProgramNext]_programVars PROVE ObjectsHold'
  OBVIOUS
<1>1. ProgramTypeOK /\ Scoped /\ ObjectsHold
  BY DEF ProgramInv
<1>2. ASSUME UNCHANGED <<env_, conn_, kind>>, \A o \in Objects : o \in alive' <=> o \in alive,
             threw' = "connect" \/ threw' = threw \/ threw = "no", pc' \in Objects => pc \in Objects
      PROVE  ObjectsHold'
  BY <1>1, <1>2 DEF ObjectsHold, Holds
<1>3. CASE \/ UNCHANGED programVars \/ OpenOutput \/ Fetch \/ Dereference \/ LeaveLoop
           \/ NoFlush \/ DestroyIterator
  BY <1>1, <1>2, <1>3 DEF programVars, OpenOutput, Fetch, Dereference, LeaveLoop, NoFlush,
                           DestroyIterator, Throw, setup, Scoped, Objects
<1>4. CASE Write \/ Flush
  <2>1. UNCHANGED <<alive, env_, conn_, kind>> /\ threw = "no" /\ pc' \notin Objects
    BY <1>1, <1>4, TablesTyped DEF setup, Write, Flush, Execute, Throw, Scoped, Objects
  <2>2. QED
    BY <1>2, <2>1
<1>5. CASE DestroySink
  <2>1. CASE Release("sink") /\ alive' = alive \ {"sink"}
    BY <1>5, <2>1, ReleaseIs DEF DestroySink, setup, Objects
  <2>2. CASE UNCHANGED <<alive, env_, conn_>>
    BY <1>2, <1>5, <2>2 DEF DestroySink, setup, Objects
  <2>3. QED
    BY <1>5, <2>1, <2>2 DEF DestroySink
<1>6. CASE DestroySource
  <2>1. alive' = alive \ {"source"}
    BY <1>6 DEF DestroySource
  <2>2. QED
    BY <1>6, <2>1, ReleaseIs DEF DestroySource, setup, Objects
<1>7. ASSUME NEW o \in Objects, Construct(o) PROVE ObjectsHold'
  <2>1. /\ kind' = kind /\ threw = "no" /\ o \notin alive /\ pc \in Objects
        /\ env_ \in [Objects -> {"none", "created", "terminated"}]
        /\ conn_ \in [Objects -> {"none", "users", "open", "terminated", "released"}]
        /\ \A p \in Objects : Holds(p)
    BY <1>1, <1>7, ConstructIs DEF Construct, setup, Scoped, Objects, ObjectsHold, ProgramTypeOK
  <2>2. CASE UNCHANGED <<alive, env_, conn_>>
    BY <1>2, <2>1, <2>2
  <2>3. ASSUME NEW e \in {"none", "created"}, NEW c \in {"users", "open"},
               env_' = [env_ EXCEPT ![o] = e], conn_' = [conn_ EXCEPT ![o] = c],
               e = "created" => kind[o] = "auth",
               c = IF kind[o] = "conn" THEN "users" ELSE "open",
               alive' = alive \cup {o}, threw' = threw
        PROVE  ObjectsHold'
    <3>1. ASSUME NEW p \in Objects, p # o PROVE Holds(p)'
      BY <2>1, <2>3, <3>1 DEF Holds
    <3>2. Holds(o)'
      BY <2>1, <2>3 DEF Holds
    <3>3. QED
      BY <3>1, <3>2 DEF ObjectsHold
  <2>4. ASSUME NEW e \in {"none", "created"}, env_' = [env_ EXCEPT ![o] = e],
               alive' = alive, conn_' = conn_, threw' = "connect"
        PROVE  ObjectsHold'
    <3>1. ASSUME NEW p \in Objects, p # o PROVE Holds(p)'
      BY <2>1, <2>4, <3>1 DEF Holds
    <3>2. Holds(o)'
      BY <2>1, <2>4 DEF Holds
    <3>3. QED
      BY <3>1, <3>2 DEF ObjectsHold
  <2>5. QED
    BY <1>7, <2>2, <2>3, <2>4, ConstructIs, Zenon
<1>8. QED
  BY <1>3, <1>4, <1>5, <1>6, <1>7 DEF ProgramNext

-----------------------------------------------------------------------------
(***************************************************************************)
(* The inductive invariant of the program.                                 *)
(***************************************************************************)
LEMMA ProgramInvInit == ProgramInit => ProgramInv
<1> SUFFICES ASSUME ProgramInit PROVE ProgramInv
  OBVIOUS
<1>1. ProgramTypeOK
  BY ProgramTypeInit
<1>2. Scoped
  BY DEF ProgramInit, Scoped, Objects
<1>3. RowsFetched
  <2>1. RowsTransformed
    BY DEF ProgramInit, RowsTransformed
  <2>2. QED
    BY <2>1 DEF ProgramInit, RowsFetched
<1>4. IsPrefix(<<>>, <<>>)
  <2>1. <<>> \in Seq(Int)
    OBVIOUS
  <2>2. QED
    BY <2>1, PrefixFacts, Zenon
<1>5. RowsBound /\ CommittedLast
  BY <1>4 DEF ProgramInit, RowsBound, RowsInOrder, CommittedLast
<1>6. ObjectsHold
  BY DEF ProgramInit, ObjectsHold, Holds
<1>7. QED
  BY <1>1, <1>2, <1>3, <1>5, <1>6 DEF ProgramInv

(***************************************************************************)
(* The state of a program with a source and a sink has the types it is     *)
(* declared with, what is alive is what its scopes have constructed and    *)
(* not unwound, and the rows are where the other theorems say.             *)
(***************************************************************************)
THEOREM ProgramCorrect == ProgramSpec => []ProgramInv
<1>1. ProgramInv /\ [ProgramNext]_programVars => ProgramInv'
  BY ProgramTypeStep, ScopedStep, RowsFetchedStep, RowsBoundStep, CommittedLastStep, ObjectsHoldStep
     DEF ProgramInv
<1>2. QED
  BY <1>1, ProgramInvInit, PTL DEF ProgramSpec

(***************************************************************************)
(* Each row of the query is fetched once and in order, and what is written *)
(* for it is what the tuple functions promise of its columns by position.  *)
(***************************************************************************)
THEOREM WrittenAsPromised == ProgramSpec => []RowsTransformed
<1>1. ProgramInv => RowsTransformed
  BY DEF ProgramInv, RowsFetched
<1>2. QED
  BY <1>1, ProgramCorrect, PTL

(***************************************************************************)
(* While no exception has come, the rows written are those executed        *)
(* followed by those bound, fewer than a batch, for every size of a batch. *)
(***************************************************************************)
THEOREM BatchesInOrder == ProgramSpec => []RowsInOrder
<1>1. ProgramInv => RowsInOrder
  BY DEF ProgramInv, RowsBound
<1>2. QED
  BY <1>1, ProgramCorrect, PTL

(***************************************************************************)
(* The rows executed are a prefix of those written and the rows committed  *)
(* of those executed; what a sink has committed when it is gone is all     *)
(* after a flush, at most a batch less without, nothing if it was not to   *)
(* commit.                                                                 *)
(***************************************************************************)
THEOREM CommitsWhatWasExecuted == ProgramSpec => []CommittedPrefix
<1>1. ProgramInv => CommittedPrefix
  <2> SUFFICES ASSUME ProgramInv PROVE CommittedPrefix
    OBVIOUS
  <2>1. IsPrefix(committed, inserted) /\ IsPrefix(inserted, written)
    BY DEF ProgramInv, CommittedLast, RowsBound
  <2>2. QED
    BY <2>1 DEF ProgramInv, CommittedLast, RowsBound, CommittedPrefix
<1>2. QED
  BY <1>1, ProgramCorrect, PTL

(***************************************************************************)
(* When all is destroyed, every connection and environment the objects     *)
(* acquired has been given back, however each was constructed, but for the *)
(* environment of an object whose connection could not be opened.          *)
(***************************************************************************)
THEOREM EverythingGivenBack == ProgramSpec => []ResourcesReleased
<1>1. ProgramInv => ResourcesReleased
  BY DEF ProgramInv, ObjectsHold, Holds, ResourcesReleased
<1>2. QED
  BY <1>1, ProgramCorrect, PTL
================================================================================
