----------------------------- MODULE PolldirQueue -----------------------------
(***************************************************************************)
(* boost::asio::polldir_queue (polldir_queue.hpp): a queue kept as files   *)
(* in a directory, used through queue objects that live in any number of   *)
(* processes.  The objects share the directory, a named mutex and a named  *)
(* condition; each object has its own enabled flags and its own cache, a   *)
(* list of files sorted by modification time in whole seconds.             *)
(*                                                                         *)
(* The mutex is modelled by its holder and the writing of a file takes two *)
(* steps, because the name of the mutex can be removed and created anew    *)
(* (removelocks_): objects opened before and after then hold different     *)
(* mutexes and their critical sections interleave.                         *)
(***************************************************************************)
EXTENDS Integers, Sequences, FiniteSets, QueueOps, SequencesExt

CONSTANTS Queues,     \* the queue objects on one directory
          Threads, ObjOf,  \* ObjOf[t]: the object thread t uses
          Calls,      \* Calls[t]: the operations thread t calls
          Items,      \* messages; an item also names the file that holds it
          NoItem, NoThread,
          MaxSize,    \* maxsize_ of all objects, 0 for no limit
          Removers,   \* objects constructed with removelocks
          MaxClock,   \* bound on the clock that stamps files, in seconds
          MaxLocks    \* bound on how often the named lock is created

ASSUME SizesAssumption == MaxSize \in Nat /\ MaxClock \in Nat /\ MaxLocks \in Nat \ {0}
ASSUME NamesAssumption == /\ NoItem \notin Items /\ NoThread \notin Threads
                          /\ ObjOf \in [Threads -> Queues]

VARIABLES
  files,      \* the files in the directory
  partial,    \* those of them whose writing is not finished
  stamp,      \* stamp[x]: last_write_time of file x, 0 if there is none
  clock,      \* current time in seconds
  cache_, deq_enabled_, enq_enabled_,   \* per queue object
  lockName,   \* the lock the name denotes now
  lockOf,     \* lockOf[q]: the lock object q has open
  holder,     \* holder[l]: the thread holding lock l
  pc, late, call, ec,   \* per thread, as in SimpleQueue
  accepted,   \* history: the items whose file has been written and closed,
  removed,    \* those whose file a consumer has removed,
  delivered   \* and those that deq and timed_deq have returned

dirVars   == <<files, partial, stamp, clock>>
objVars   == <<cache_, deq_enabled_, enq_enabled_>>
lockVars  == <<lockName, lockOf>>
callVars  == <<late, call, ec>>
historyVars == <<accepted, removed, delivered>>
vars == <<dirVars, objVars, lockVars, holder, pc, callVars, historyVars>>

Inside  == {"ready", "waiting", "expired"}
\* Holding the mutex with the predicate known to be true.
Granted == {"granted", "writing", "reading", "done"}
Locks   == 1 .. MaxLocks

Init == /\ files = {} /\ partial = {}
        /\ stamp = [x \in Items |-> 0]
        /\ clock = 0
        /\ cache_ = [q \in Queues |-> <<>>]
        /\ deq_enabled_ = [q \in Queues |-> TRUE]
        /\ enq_enabled_ = [q \in Queues |-> TRUE]
        /\ lockName = 1
        /\ lockOf = [q \in Queues |-> 1]
        /\ holder = [l \in Locks |-> NoThread]
        /\ pc = [t \in Threads |-> "idle"]
        /\ late = [t \in Threads |-> FALSE]
        /\ call = [t \in Threads |-> [op |-> "none", item |-> NoItem]]
        /\ ec = [t \in Threads |-> "success"]
        /\ accepted = {} /\ removed = {} /\ delivered = {}

-----------------------------------------------------------------------------
Lock(t) == lockOf[ObjOf[t]]

\* The mutex is free for t to take.
CanLock(t) == holder[Lock(t)] = NoThread

Listings_Unsorted == SetToSeqs(files)          \* mutant
\* The directory as getTsOrderedFiles() can list it: by second, and within one
\* second in whatever order the directory is iterated.
Listings == {s \in SetToSeqs(files) :
               \A i, j \in 1 .. Len(s) : i < j => stamp[s[i]] <= stamp[s[j]]}

\* The cache without the files that no longer exist: what is left, in the order
\* it had.
Cleaned(q) ==
  {s \in SetToSeqs(Range(cache_[q]) \cap files) :
     \A i, j \in 1 .. Len(s), k, l \in DOMAIN cache_[q] :
        i < j /\ s[i] = cache_[q][k] /\ s[j] = cache_[q][l] => k < l}

\* Evaluating a predicate refreshes the cache.  fullNolock() and emptyNolock()
\* are modelled by the set of caches they can leave.

\* Mutant: the limit is compared with the cache as it is.
FullNolock_Stale(q) == {cache_[q]}
\* fullNolock() re-reads the directory unless there is no limit.
FullNolock(q) == IF MaxSize = 0 THEN {cache_[q]} ELSE Listings

\* emptyNolock() re-reads the directory only when the cleaned cache is empty.
EmptyNolock(q) == IF Range(cache_[q]) \cap files # {} THEN Cleaned(q) ELSE Listings

\* The predicate of t's wait when the cache has become c: a disabled side makes
\* it true without a look at the directory.
Refreshed(t) ==
  LET q == ObjOf[t]
  IN  IF call[t].op \in EnqOps
      THEN IF enq_enabled_[q] THEN FullNolock(q) ELSE {cache_[q]}
      ELSE IF deq_enabled_[q] THEN EmptyNolock(q) ELSE {cache_[q]}

Predicate(t, c) ==
  IF call[t].op \in EnqOps
  THEN enq_enabled_[ObjOf[t]] => MaxSize = 0 \/ Len(c) < MaxSize
  ELSE deq_enabled_[ObjOf[t]] => c # <<>>

Evaluate(t, result) ==
  \E c \in Refreshed(t) :
     /\ Predicate(t, c) <=> result
     /\ cache_' = [cache_ EXCEPT ![ObjOf[t]] = c]
     /\ UNCHANGED <<deq_enabled_, enq_enabled_>>

\* What each operation tests after its wait.  deq() looks at the flag of the
\* other side.
Enabled(t) == IF call[t].op \in EnqOps \cup {"deq"} THEN enq_enabled_[ObjOf[t]]
                                                    ELSE deq_enabled_[ObjOf[t]]

\* notify_all() on the condition that goes with lock l.
Notified(l) == [t \in Threads |-> IF pc[t] = "waiting" /\ Lock(t) = l THEN "ready" ELSE pc[t]]

\* A call of t ends with code c, releasing the mutex if t holds it.
Return(t, newpc, c) ==
  /\ pc' = [newpc EXCEPT ![t] = "idle"]
  /\ ec' = [ec EXCEPT ![t] = c]
  /\ late' = [late EXCEPT ![t] = FALSE]
  /\ holder' = [holder EXCEPT ![Lock(t)] = NoThread]

-----------------------------------------------------------------------------
Busy(x) == \E t \in Threads : pc[t] \in Inside \cup Granted /\ call[t].item = x

Enter(t, op, x) ==
  /\ pc[t] = "idle" /\ op \in Calls[t] \cap BlockingOps
  /\ IF op \in PushOps THEN x \in Items \ accepted /\ ~Busy(x) ELSE x = NoItem
  /\ pc' = [pc EXCEPT ![t] = "ready"]
  /\ call' = [call EXCEPT ![t] = [op |-> op, item |-> x]]
  /\ ec' = [ec EXCEPT ![t] = "success"]
  /\ UNCHANGED <<dirVars, objVars, lockVars, holder, late, historyVars>>

\* The predicate is false: wait() releases the mutex.
Block(t) ==
  /\ pc[t] = "ready" /\ CanLock(t) /\ Evaluate(t, FALSE)
  /\ pc' = [pc EXCEPT ![t] = IF late[t] THEN "expired" ELSE "waiting"]
  /\ UNCHANGED <<dirVars, lockVars, holder, callVars, historyVars>>

TimedOut(t) ==
  /\ pc[t] = "expired" /\ CanLock(t) /\ Evaluate(t, FALSE)
  /\ Return(t, pc, "timed_out")
  /\ UNCHANGED <<dirVars, lockVars, call, historyVars>>

\* The predicate is true but the operation finds its flag off.
Aborted(t) ==
  /\ pc[t] \in {"ready", "expired"} /\ CanLock(t) /\ Evaluate(t, TRUE)
  /\ ~Enabled(t)
  /\ Return(t, pc, "operation_aborted")
  /\ UNCHANGED <<dirVars, lockVars, call, historyVars>>

\* The predicate is true: a waiting operation returns, the others go on with
\* the mutex held.
WaitDone(t) ==
  /\ pc[t] \in {"ready", "expired"} /\ CanLock(t) /\ Evaluate(t, TRUE)
  /\ Enabled(t) /\ call[t].op \in WaitEnqOps \cup WaitDeqOps
  /\ Return(t, Notified(Lock(t)), "success")
  /\ UNCHANGED <<dirVars, lockVars, call, historyVars>>

Grant(t) ==
  /\ pc[t] \in {"ready", "expired"} /\ CanLock(t) /\ Evaluate(t, TRUE)
  /\ Enabled(t) /\ call[t].op \in PushOps \cup PopOps
  /\ pc' = [pc EXCEPT ![t] = "granted"]
  /\ holder' = [holder EXCEPT ![Lock(t)] = t]
  /\ UNCHANGED <<dirVars, lockVars, callVars, historyVars>>

\* write(): the file appears in the directory when it is opened ...
OpenFile(t) ==
  /\ pc[t] = "granted" /\ call[t].op \in PushOps
  /\ files' = files \cup {call[t].item}
  /\ partial' = partial \cup {call[t].item}
  /\ stamp' = [stamp EXCEPT ![call[t].item] = clock]
  /\ pc' = [pc EXCEPT ![t] = "writing"]
  /\ UNCHANGED <<clock, objVars, lockVars, holder, callVars, historyVars>>

\* ... and holds the message, with a later time, when it is closed.
CloseFile(t) ==
  /\ pc[t] = "writing"
  /\ partial' = partial \ {call[t].item}
  /\ stamp' = [stamp EXCEPT ![call[t].item] = clock]
  /\ accepted' = accepted \cup {call[t].item}
  /\ pc' = [pc EXCEPT ![t] = "done"]
  /\ UNCHANGED <<files, clock, objVars, lockVars, holder, callVars, removed, delivered>>

\* read(): the first file of the cache is opened and read ...
ReadFile(t) ==
  LET q == ObjOf[t]  x == Head(cache_[q]) IN
  /\ pc[t] = "granted" /\ call[t].op \in PopOps
  /\ cache_[q] # <<>> /\ x \in files
  /\ cache_' = [cache_ EXCEPT ![q] = Tail(@)]
  /\ call' = [call EXCEPT ![t].item = x]
  /\ pc' = [pc EXCEPT ![t] = "reading"]
  /\ UNCHANGED <<dirVars, deq_enabled_, enq_enabled_, lockVars, holder, late, ec, historyVars>>

\* Mutant: the file stays in the directory.
RemoveFile_Kept(t) ==
  /\ pc[t] = "reading"
  /\ removed' = removed \cup {call[t].item}
  /\ pc' = [pc EXCEPT ![t] = "done"]
  /\ UNCHANGED <<dirVars, objVars, lockVars, holder, callVars, accepted, delivered>>

\* ... and removed: from here on only this call has the item.
RemoveFile(t) ==
  /\ pc[t] = "reading"
  /\ files' = files \ {call[t].item}
  /\ stamp' = [stamp EXCEPT ![call[t].item] = 0]
  /\ removed' = removed \cup {call[t].item}
  /\ pc' = [pc EXCEPT ![t] = "done"]
  /\ UNCHANGED <<partial, clock, objVars, lockVars, holder, callVars, accepted, delivered>>

\* What a call that ends well returns to its caller.
Returned(t) == IF call[t].op \in PopOps THEN {call[t].item} ELSE {}

\* Mutant: nobody is notified of the file written or removed.
Finish_Silent(t) ==
  /\ pc[t] = "done"
  /\ delivered' = delivered \cup Returned(t)
  /\ Return(t, pc, "success")
  /\ UNCHANGED <<dirVars, objVars, lockVars, call, accepted, removed>>

\* enq, timed_enq, deq and timed_deq notify and return.
Finish(t) ==
  /\ pc[t] = "done"
  /\ delivered' = delivered \cup Returned(t)
  /\ Return(t, Notified(Lock(t)), "success")
  /\ UNCHANGED <<dirVars, objVars, lockVars, call, accepted, removed>>

\* The file is gone: read() throws, which releases the mutex and notifies
\* nobody.
PopThrows(t) ==
  LET q == ObjOf[t] IN
  /\ pc[t] = "granted" /\ call[t].op \in PopOps
  /\ cache_[q] # <<>> /\ Head(cache_[q]) \notin files
  /\ cache_' = [cache_ EXCEPT ![q] = Tail(@)]
  /\ Return(t, pc, "exception")
  /\ UNCHANGED <<dirVars, deq_enabled_, enq_enabled_, lockVars, call, historyVars>>

\* The threads and the memory of a process that dies; the objects of qs live
\* in it.
Dead(qs) ==
  LET dead == {t \in Threads : ObjOf[t] \in qs}
  IN  /\ pc' = [t \in Threads |-> IF t \in dead THEN "crashed" ELSE pc[t]]
      /\ late' = [t \in Threads |-> t \notin dead /\ late[t]]
      /\ cache_' = [q \in Queues |-> IF q \in qs THEN <<>> ELSE cache_[q]]
      /\ UNCHANGED <<dirVars, deq_enabled_, enq_enabled_, lockVars, call, ec, historyVars>>

Die_Unlocks(qs) ==                           \* mutant
  /\ Dead(qs)
  /\ holder' = [l \in Locks |-> IF holder[l] \in Threads /\ ObjOf[holder[l]] \in qs
                               THEN NoThread ELSE holder[l]]
\* A mutex that one of its threads holds stays locked: a named mutex is not
\* robust.
Die(qs) == Dead(qs) /\ UNCHANGED holder

\* The cache is empty: front() of an empty list is undefined, and copying the
\* path it yields brings the process down.
PopUndefined(t) ==
  /\ pc[t] = "granted" /\ call[t].op \in PopOps
  /\ cache_[ObjOf[t]] = <<>>
  /\ \E qs \in SUBSET Queues : ObjOf[t] \in qs /\ Die(qs)

\* A process dies at any point, of something outside this code.
Crash == \E qs \in SUBSET Queues \ {{}} :
           /\ \A t \in Threads : ObjOf[t] \in qs => pc[t] # "crashed"
           /\ Die(qs)

-----------------------------------------------------------------------------
Deadline(t) ==
  /\ pc[t] \in {"ready", "waiting"} /\ call[t].op \in TimedOps /\ ~late[t]
  /\ late' = [late EXCEPT ![t] = TRUE]
  /\ pc' = [pc EXCEPT ![t] = IF pc[t] = "waiting" THEN "expired" ELSE "ready"]
  /\ UNCHANGED <<dirVars, objVars, lockVars, holder, call, ec, historyVars>>

\* A condition variable may wake a thread for no reason.
SpuriousWakeup(t) ==
  /\ pc[t] = "waiting"
  /\ pc' = [pc EXCEPT ![t] = "ready"]
  /\ UNCHANGED <<dirVars, objVars, lockVars, holder, callVars, historyVars>>

\* The flags belong to the object: other objects on the directory, in this or
\* another process, are not affected, although all of them are notified.
disable_deq(t, disable) ==
  /\ pc[t] = "idle" /\ "disable_deq" \in Calls[t] /\ CanLock(t)
  /\ deq_enabled_' = [deq_enabled_ EXCEPT ![ObjOf[t]] = ~disable]
  /\ pc' = Notified(Lock(t))
  /\ UNCHANGED <<dirVars, cache_, enq_enabled_, lockVars, holder, callVars, historyVars>>

disable_enq(t, disable) ==
  /\ pc[t] = "idle" /\ "disable_enq" \in Calls[t] /\ CanLock(t)
  /\ enq_enabled_' = [enq_enabled_ EXCEPT ![ObjOf[t]] = ~disable]
  /\ pc' = Notified(Lock(t))
  /\ UNCHANGED <<dirVars, cache_, deq_enabled_, lockVars, holder, callVars, historyVars>>

\* size() re-reads the directory, and so does full() under a limit; empty()
\* does only when the cleaned cache is empty.
Refresh(t) ==
  /\ pc[t] = "idle" /\ "size" \in Calls[t] /\ CanLock(t)
  /\ \E c \in Listings \cup EmptyNolock(ObjOf[t]) : cache_' = [cache_ EXCEPT ![ObjOf[t]] = c]
  /\ UNCHANGED <<dirVars, deq_enabled_, enq_enabled_, lockVars, holder, pc, callVars, historyVars>>

\* An object nobody is using is destroyed, and with removelocks_ the name of
\* the lock goes with it; an object is constructed in its place, or in another
\* process, and opens or creates the lock the name then denotes.  After a
\* crash the process is started again, and no destructor has run.
Reopen(q) ==
  /\ \/ /\ \A t \in Threads : ObjOf[t] = q => pc[t] = "idle"
        /\ IF q \in Removers THEN lockName < MaxLocks /\ lockName' = lockName + 1
                             ELSE UNCHANGED lockName
     \/ /\ \E t \in Threads : ObjOf[t] = q /\ pc[t] = "crashed"
        /\ UNCHANGED lockName
  /\ pc' = [t \in Threads |-> IF ObjOf[t] = q THEN "idle" ELSE pc[t]]
  /\ lockOf' = [lockOf EXCEPT ![q] = lockName']
  /\ cache_' = [cache_ EXCEPT ![q] = <<>>]
  /\ deq_enabled_' = [deq_enabled_ EXCEPT ![q] = TRUE]
  /\ enq_enabled_' = [enq_enabled_ EXCEPT ![q] = TRUE]
  /\ UNCHANGED <<dirVars, holder, callVars, historyVars>>

Tick == /\ clock < MaxClock
        /\ clock' = clock + 1
        /\ UNCHANGED <<files, partial, stamp, objVars, lockVars, holder, pc, callVars, historyVars>>

Run(t) == \/ Block(t) \/ TimedOut(t) \/ Aborted(t) \/ WaitDone(t) \/ Grant(t)
          \/ OpenFile(t) \/ CloseFile(t) \/ ReadFile(t) \/ RemoveFile(t) \/ Finish(t)
          \/ PopThrows(t) \/ PopUndefined(t)

Next == \/ \E t \in Threads :
              \/ \E op \in BlockingOps, x \in Items \cup {NoItem} : Enter(t, op, x)
              \/ Run(t)
              \/ Deadline(t)
              \/ SpuriousWakeup(t)
              \/ \E disable \in BOOLEAN : disable_deq(t, disable) \/ disable_enq(t, disable)
              \/ Refresh(t)
        \/ Crash
        \/ \E q \in Queues : Reopen(q)
        \/ Tick

Spec == Init /\ [][Next]_vars

-----------------------------------------------------------------------------
\* Types, and what the place of a thread says about its call.
TypeOK ==
  /\ partial \subseteq Items /\ files \subseteq Items
  /\ accepted \subseteq Items /\ removed \subseteq Items /\ delivered \subseteq Items
  /\ stamp \in [Items -> 0 .. MaxClock] /\ clock \in 0 .. MaxClock
  /\ cache_ \in [Queues -> Seq(Items)]
  /\ deq_enabled_ \in [Queues -> BOOLEAN] /\ enq_enabled_ \in [Queues -> BOOLEAN]
  /\ lockOf \in [Queues -> Locks] /\ lockName \in Locks
  /\ holder \in [Locks -> Threads \cup {NoThread}]
  /\ pc \in [Threads -> Inside \cup Granted \cup {"idle", "crashed"}]
  /\ late \in [Threads -> BOOLEAN] /\ ec \in [Threads -> Codes \cup {"exception"}]
  /\ call \in [Threads -> [op : BlockingOps \cup {"none"}, item : Items \cup {NoItem}]]
  /\ \A t \in Threads :
        /\ pc[t] \in Granted => holder[Lock(t)] = t
        /\ pc[t] \in {"granted", "done"} => call[t].op \in PushOps \cup PopOps
        /\ pc[t] = "writing" => call[t].op \in PushOps
        /\ pc[t] = "reading" => call[t].op \in PopOps
        /\ pc[t] \in Inside \cup Granted /\ call[t].op \in PushOps => call[t].item \in Items
        /\ pc[t] \in {"reading", "done"} => call[t].item \in Items

\* The name of the lock has not been removed: all objects share one mutex.
OneLock == lockName = 1

\* No object has a file in its cache that is still being written, so no
\* message is read half written ("enq/deq have locks around them so that we
\* cannot read partial messages").
PartialHidden == \A q \in Queues : Range(cache_[q]) \cap partial = {}

\* ... as long as all objects share one mutex: a half written file, also one
\* that a crash left behind, is never without a locked mutex between it and
\* every reader.
NoPartialRead ==
  OneLock => /\ PartialHidden
             /\ partial # {} => holder[1] # NoThread

\* Across all objects, their caches, and objects closed and opened again, each
\* accepted item either is still a file or was removed, never both; and what
\* was removed was returned to a caller, but for at most one item, which is in
\* the hands of the thread in the critical section, or was lost with a process
\* that died there (between std::remove and the return) and left the mutex
\* locked.
Conservation ==
  OneLock => /\ accepted = (files \ partial) \cup removed /\ files \cap removed = {}
             /\ delivered \subseteq removed
             /\ \A x, y \in removed \ delivered : x = y /\ holder[1] # NoThread

\* Items leave the directory in the order of the seconds they were written in,
\* although each object takes them from a cache of its own.  Within a second
\* the order is not kept.
OldestSecondFirst ==
  [][ OneLock => \A x \in files \ files' : \A y \in files : stamp[x] <= stamp[y] ]_vars

\* t has good reason to wait: its side is enabled, and full or empty.
Blocked(t) ==
  IF call[t].op \in EnqOps
  THEN enq_enabled_[ObjOf[t]] /\ MaxSize # 0 /\ Cardinality(files) >= MaxSize
  ELSE deq_enabled_[ObjOf[t]] /\ files = {}

\* No object leaves a caller blocked whose predicate another object or process
\* has made true.
NoLostWakeup ==
  OneLock /\ holder[1] = NoThread => \A t \in Threads : pc[t] = "waiting" => Blocked(t)

\* With one mutex, the number of files never exceeds the limit.
CapacityHeld == OneLock /\ MaxSize # 0 => Cardinality(files) <= MaxSize
=============================================================================
