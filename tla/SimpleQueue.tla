----------------------------- MODULE SimpleQueue -----------------------------
(***************************************************************************)
(* boost::asio::simple_queue (simple_queue.hpp): a bounded FIFO guarded by *)
(* one mutex, with one condition variable shared by blocked enq and deq    *)
(* callers.                                                                *)
(*                                                                         *)
(* A critical section holds the mutex from its lock to its return, except  *)
(* while it is blocked in cond_->wait or cond_->wait_for, so each stretch  *)
(* between two such points is one action.  A caller that is notified, that *)
(* wakes spuriously, or whose deadline passes has to take the mutex again  *)
(* before it evaluates its predicate: other critical sections can run in   *)
(* between.                                                                *)
(***************************************************************************)
EXTENDS Integers, Sequences, QueueOps

CONSTANTS Threads,    \* the threads using the queue
          Items,      \* the values they queue; each is accepted at most once
          NoItem,     \* the default constructed value, T{}
          MaxSizes,   \* the capacities passed to the ctor and to set_maxsize
          Calls,      \* Calls[t]: the operations thread t calls
          SizeMod     \* the number of values of std::size_t

ASSUME ItemsAssumption == NoItem \notin Items
ASSUME MaxSizesAssumption == MaxSizes \subseteq Nat
ASSUME SizeModAssumption == SizeMod \in Nat \ {0}

VARIABLES q_, maxsize_, enq_enabled_, deq_enabled_,
          pc,         \* pc[t]: where thread t is, see Where below
          late,       \* late[t]: the deadline of the timed call of t has passed
          call,       \* call[t]: operation and item (argument, then result)
          ec,         \* ec[t]: error code of the last call of t
          sized,      \* sized[t]: what t has computed of its size() so far
          sent,       \* history: items pushed, in order
          received    \* history: items popped, in order

queueVars   == <<q_, maxsize_, enq_enabled_, deq_enabled_>>
historyVars == <<sent, received>>
vars == <<queueVars, pc, late, call, ec, sized, historyVars>>

\* Inside a blocking call: about to take the mutex ("ready"), in the wait set
\* of cond_ ("waiting"), or out of it because the deadline passed and about to
\* take the mutex ("expired").
Inside == {"ready", "waiting", "expired"}
Where  == Inside \cup {"idle", "start_loaded", "finish_loaded"}

Init == /\ q_ = <<>>
        /\ maxsize_ \in MaxSizes
        /\ enq_enabled_ = TRUE
        /\ deq_enabled_ = TRUE
        /\ pc = [t \in Threads |-> "idle"]
        /\ late = [t \in Threads |-> FALSE]
        /\ call = [t \in Threads |-> [op |-> "none", item |-> NoItem]]
        /\ ec = [t \in Threads |-> "success"]
        /\ sized = [t \in Threads |-> 0]
        /\ sent = <<>>
        /\ received = <<>>

-----------------------------------------------------------------------------
Empty == q_ = <<>>
Full_OffByOne == Len(q_) > maxsize_          \* mutant
Full  == Len(q_) >= maxsize_

\* The predicates passed to cond_->wait and cond_->wait_for.
EnqReady == ~enq_enabled_ \/ ~Full
DeqReady == ~deq_enabled_ \/ ~Empty
Ready(t) == IF call[t].op \in EnqOps THEN EnqReady ELSE DeqReady

Enabled(t) == IF call[t].op \in EnqOps THEN enq_enabled_ ELSE deq_enabled_

\* cond_->notify_all(): every thread in the wait set becomes a contender for
\* the mutex.  Enq and deq callers share the wait set.
Notified == [t \in Threads |-> IF pc[t] = "waiting" THEN "ready" ELSE pc[t]]

\* Threads that evaluate their predicate when they get the mutex.
Contends(t) == pc[t] \in {"ready", "expired"}

\* The critical section of t ends with notify_all and error code success.
Succeed(t) == /\ pc' = [Notified EXCEPT ![t] = "idle"]
              /\ ec' = [ec EXCEPT ![t] = "success"]
              /\ late' = [late EXCEPT ![t] = FALSE]
              /\ UNCHANGED <<maxsize_, enq_enabled_, deq_enabled_, sized>>

-----------------------------------------------------------------------------
\* An item nobody has pushed or is pushing: callers use each item once, or
\* again after a call that did not succeed.
Fresh(x) == /\ \A i \in DOMAIN sent : sent[i] # x
            /\ \A t \in Threads : pc[t] \in Inside => call[t].item # x

\* Thread t calls a blocking operation, with an error_code of its own, and
\* goes for the mutex.
Enter(t, op, x) ==
  /\ pc[t] = "idle"
  /\ op \in Calls[t] \cap BlockingOps
  /\ IF op \in PushOps THEN x \in Items /\ Fresh(x) ELSE x = NoItem
  /\ pc' = [pc EXCEPT ![t] = "ready"]
  /\ call' = [call EXCEPT ![t] = [op |-> op, item |-> x]]
  /\ ec' = [ec EXCEPT ![t] = "success"]
  /\ UNCHANGED <<queueVars, late, sized, historyVars>>

\* The predicate is false: wait() releases the mutex and blocks.  With its
\* deadline already behind it, wait_for() returns at once.
Block(t) ==
  /\ pc[t] = "ready" /\ ~Ready(t)
  /\ pc' = [pc EXCEPT ![t] = IF late[t] THEN "expired" ELSE "waiting"]
  /\ UNCHANGED <<queueVars, late, call, ec, sized, historyVars>>

\* enq, timed_enq with room in an enabled queue.
Push(t) ==
  /\ Contends(t) /\ call[t].op \in PushOps
  /\ EnqReady /\ enq_enabled_
  /\ q_' = Append(q_, call[t].item)
  /\ sent' = Append(sent, call[t].item)
  /\ Succeed(t)
  /\ UNCHANGED <<call, received>>

\* Mutant: the newest item is taken.
Pop_Newest(t) ==
  /\ Contends(t) /\ call[t].op \in PopOps
  /\ DeqReady /\ deq_enabled_
  /\ call' = [call EXCEPT ![t].item = q_[Len(q_)]]
  /\ q_' = SubSeq(q_, 1, Len(q_) - 1)
  /\ received' = Append(received, q_[Len(q_)])
  /\ Succeed(t)
  /\ UNCHANGED sent

\* deq, timed_deq with an item in an enabled queue.
Pop(t) ==
  /\ Contends(t) /\ call[t].op \in PopOps
  /\ DeqReady /\ deq_enabled_
  /\ call' = [call EXCEPT ![t].item = Head(q_)]
  /\ q_' = Tail(q_)
  /\ received' = Append(received, Head(q_))
  /\ Succeed(t)
  /\ UNCHANGED sent

\* wait_enq, timed_wait_enq: notifies although it changes nothing.
WaitEnq(t) ==
  /\ Contends(t) /\ call[t].op \in WaitEnqOps
  /\ EnqReady /\ enq_enabled_
  /\ Succeed(t)
  /\ UNCHANGED <<q_, call, historyVars>>

\* wait_deq, timed_wait_deq.
WaitDeq(t) ==
  /\ Contends(t) /\ call[t].op \in WaitDeqOps
  /\ DeqReady /\ deq_enabled_
  /\ Succeed(t)
  /\ UNCHANGED <<q_, call, historyVars>>

\* The call ends without notifying anyone, with error code c.
Fail(t, c) == /\ pc' = [pc EXCEPT ![t] = "idle"]
              /\ ec' = [ec EXCEPT ![t] = c]
              /\ late' = [late EXCEPT ![t] = FALSE]
              /\ UNCHANGED <<queueVars, call, sized, historyVars>>

\* The predicate is true because the side is disabled.
Aborted(t) == /\ Contends(t) /\ Ready(t) /\ ~Enabled(t)
              /\ Fail(t, "operation_aborted")

\* Mutant: the predicate is not evaluated again when the deadline passes.
TimedOut_NoRecheck(t) == pc[t] = "expired" /\ Fail(t, "timed_out")

\* wait_for() returns false: the deadline has passed and the predicate,
\* evaluated once more under the mutex, is still false.
TimedOut(t) == /\ pc[t] = "expired" /\ ~Ready(t)
               /\ Fail(t, "timed_out")

-----------------------------------------------------------------------------
\* Mutant: calls without a timeout expire too.
Deadline_Untimed(t) ==
  /\ pc[t] \in {"ready", "waiting"} /\ ~late[t]
  /\ late' = [late EXCEPT ![t] = TRUE]
  /\ pc' = [pc EXCEPT ![t] = IF pc[t] = "waiting" THEN "expired" ELSE "ready"]
  /\ UNCHANGED <<queueVars, call, ec, sized, historyVars>>

\* The deadline of a timed call passes; a blocked caller leaves the wait set.
Deadline(t) ==
  /\ pc[t] \in {"ready", "waiting"} /\ call[t].op \in TimedOps /\ ~late[t]
  /\ late' = [late EXCEPT ![t] = TRUE]
  /\ pc' = [pc EXCEPT ![t] = IF pc[t] = "waiting" THEN "expired" ELSE "ready"]
  /\ UNCHANGED <<queueVars, call, ec, sized, historyVars>>

\* A condition variable may wake a thread for no reason.
SpuriousWakeup(t) ==
  /\ pc[t] = "waiting"
  /\ pc' = [pc EXCEPT ![t] = "ready"]
  /\ UNCHANGED <<queueVars, late, call, ec, sized, historyVars>>

-----------------------------------------------------------------------------
\* The operations that take the mutex, change a setting and notify_all.
CallsControl(t, op) == /\ pc[t] = "idle" /\ op \in Calls[t]
                       /\ UNCHANGED <<q_, late, call, ec, sized, historyVars>>

disable_deq(t, disable) == /\ CallsControl(t, "disable_deq")
                           /\ deq_enabled_' = ~disable
                           /\ pc' = Notified
                           /\ UNCHANGED <<maxsize_, enq_enabled_>>

disable_enq(t, disable) == /\ CallsControl(t, "disable_enq")
                           /\ enq_enabled_' = ~disable
                           /\ pc' = Notified
                           /\ UNCHANGED <<maxsize_, deq_enabled_>>

\* Mutant: a larger capacity is not announced.
set_maxsize_Silent(t, maxsize) == /\ CallsControl(t, "set_maxsize")
                                  /\ maxsize_' = maxsize
                                  /\ UNCHANGED <<enq_enabled_, deq_enabled_, pc>>

set_maxsize(t, maxsize) == /\ CallsControl(t, "set_maxsize")
                           /\ maxsize_' = maxsize
                           /\ pc' = Notified
                           /\ UNCHANGED <<enq_enabled_, deq_enabled_>>

-----------------------------------------------------------------------------
(* size() declares a unique_lock without giving it the mutex, so it reads   *)
(* the two ends of the container while other threads move them.  The two   *)
(* loads happen in either order; a load never splits the critical section  *)
(* of another thread here, which only leaves out worse outcomes.  The end  *)
(* positions of the container are the lengths of the two histories.        *)
SizeFirstLoad(t) ==
  /\ pc[t] = "idle" /\ "size" \in Calls[t]
  /\ \/ /\ pc' = [pc EXCEPT ![t] = "start_loaded"]
        /\ sized' = [sized EXCEPT ![t] = Len(received)]
     \/ /\ pc' = [pc EXCEPT ![t] = "finish_loaded"]
        /\ sized' = [sized EXCEPT ![t] = Len(sent)]
  /\ UNCHANGED <<queueVars, late, call, ec, historyVars>>

SizeSecondLoad(t) ==
  /\ \/ /\ pc[t] = "start_loaded"
        /\ sized' = [sized EXCEPT ![t] = (Len(sent) - sized[t]) % SizeMod]
     \/ /\ pc[t] = "finish_loaded"
        /\ sized' = [sized EXCEPT ![t] = (sized[t] - Len(received)) % SizeMod]
  /\ pc' = [pc EXCEPT ![t] = "idle"]
  /\ UNCHANGED <<queueVars, late, call, ec, historyVars>>

-----------------------------------------------------------------------------
\* What a thread does once it has the mutex in a blocking call.
Run(t) == \/ Block(t) \/ Push(t) \/ Pop(t) \/ WaitEnq(t) \/ WaitDeq(t)
          \/ Aborted(t) \/ TimedOut(t)

Next == \E t \in Threads :
           \/ \E op \in BlockingOps, x \in Items \cup {NoItem} : Enter(t, op, x)
           \/ Run(t)
           \/ Deadline(t)
           \/ SpuriousWakeup(t)
           \/ \E disable \in BOOLEAN : disable_deq(t, disable) \/ disable_enq(t, disable)
           \/ \E maxsize \in MaxSizes : set_maxsize(t, maxsize)
           \/ SizeFirstLoad(t)
           \/ SizeSecondLoad(t)

Spec == Init /\ [][Next]_vars

\* A thread that wants the mutex gets it in the end, and clocks advance.
\* Nothing obliges a thread to make a call, a condition variable to wake
\* anybody without a notification, or a scheduler to be fair among callers
\* whose predicate keeps changing.
FairSpec == /\ Spec
            /\ \A t \in Threads : WF_vars(Run(t)) /\ WF_vars(Deadline(t))

-----------------------------------------------------------------------------
Outcome == [op : BlockingOps \cup {"none"}, item : Items \cup {NoItem}]

\* The types, and what the place of a thread says about its call: only
\* blocking calls block, only pushes carry an item in, only timed ones expire.
TypeOK ==
  /\ q_ \in Seq(Items) /\ sent \in Seq(Items) /\ received \in Seq(Items)
  /\ maxsize_ \in MaxSizes
  /\ enq_enabled_ \in BOOLEAN /\ deq_enabled_ \in BOOLEAN
  /\ pc \in [Threads -> Where]
  /\ late \in [Threads -> BOOLEAN]
  /\ call \in [Threads -> Outcome]
  /\ ec \in [Threads -> Codes]
  /\ sized \in [Threads -> Nat]
  /\ \A t \in Threads : pc[t] \in Inside =>
        /\ call[t].op \in BlockingOps
        /\ call[t].op \in PushOps <=> call[t].item \in Items
  /\ \A t \in Threads : late[t] => pc[t] \in Inside /\ call[t].op \in TimedOps
  /\ \A t \in Threads : pc[t] = "expired" => late[t]

\* No wakeup is lost: whatever order pushes, pops, shutdowns, capacity
\* changes, timeouts and spurious wakeups come in, no thread is left blocked
\* on cond_ while the predicate it waits for is true.
NoLostWakeup == \A t \in Threads : pc[t] = "waiting" => ~Ready(t)

\* Every accepted item is delivered exactly once and in order: the items
\* accepted are those delivered followed by those still in the container,
\* across disabling, re-enabling, shrinking and timeouts.
Delivery == sent = received \o q_

\* set_maxsize may leave more items than the new capacity, but no step takes
\* the queue further beyond the capacity in force, and nothing goes in or out
\* through a disabled side, however long ago the caller was let in.
RespectsSettings ==
  [][ /\ Len(q_') > Len(q_) => enq_enabled_ /\ Len(q_') <= maxsize_
      /\ Len(q_') < Len(q_) => deq_enabled_ ]_vars

\* simple_queue implements the bounded FIFO channel, its promise to return
\* included: a call that disable_enq or disable_deq should release, and a
\* timed call, return however often they are notified in vain.
Fifo == INSTANCE BoundedFifo WITH
          limit <- maxsize_, enqOpen <- enq_enabled_, deqOpen <- deq_enabled_,
          pending <- {t \in Threads : pc[t] \in Inside}

ImplementsFifo == Fifo!Spec
ImplementsFifoSafety == Fifo!Safety
=============================================================================
