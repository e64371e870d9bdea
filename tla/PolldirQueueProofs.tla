-------------------------- MODULE PolldirQueueProofs --------------------------
(***************************************************************************)
(* Theorems about PolldirQueue, for every set of objects, threads and      *)
(* items, every limit and every assignment of operations to threads, with  *)
(* processes that die anywhere, as long as all objects have one mutex.     *)
(***************************************************************************)
EXTENDS PolldirQueue, SequenceTheorems, FiniteSetTheorems, TLAPS

(***************************************************************************)
(* The steps.                                                              *)
(***************************************************************************)
LEMMA NextCases ==
  ASSUME Next
  PROVE  \/ \E t \in Threads :
              \/ \E op \in BlockingOps, x \in Items \cup {NoItem} : Enter(t, op, x)
              \/ Block(t) \/ TimedOut(t) \/ Aborted(t) \/ WaitDone(t) \/ Grant(t)
              \/ OpenFile(t) \/ CloseFile(t) \/ ReadFile(t) \/ RemoveFile(t) \/ Finish(t)
              \/ PopThrows(t) \/ Deadline(t) \/ SpuriousWakeup(t) \/ Refresh(t)
              \/ \E disable \in BOOLEAN : disable_deq(t, disable) \/ disable_enq(t, disable)
         \/ \E qs \in SUBSET Queues : Die(qs)
         \/ \E q \in Queues : Reopen(q)
         \/ Tick
BY DEF Next, Run, PopUndefined, Crash

(***************************************************************************)
(* A listing of a finite set is a sequence of its elements.                *)
(***************************************************************************)
LEMMA Listed ==
  ASSUME NEW S, IsFiniteSet(S), NEW s \in SetToSeqs(S)
  PROVE  /\ s \in Seq(S) /\ Len(s) = Cardinality(S) /\ Range(s) \subseteq S
         /\ s = <<>> <=> S = {}
<1>1. Cardinality(S) \in Nat /\ (Cardinality(S) = 0 <=> S = {})
  BY FS_CardinalityType, FS_EmptySet
<1>2. s \in [1 .. Cardinality(S) -> S]
  BY DEF SetToSeqs
<1>3. s \in Seq(S) /\ Len(s) = Cardinality(S)
  BY <1>1, <1>2
<1>4. s = <<>> <=> Len(s) = 0
  BY <1>3, EmptySeq
<1>5. QED
  BY <1>1, <1>2, <1>3, <1>4 DEF Range

(***************************************************************************)
(* What the evaluation of a predicate says about the directory, and what   *)
(* it can put in the cache.                                                *)
(***************************************************************************)
LEMMA Evaluation ==
  ASSUME TypeOK, IsFiniteSet(files), NEW t \in Threads, NEW result \in BOOLEAN,
         Evaluate(t, result)
  PROVE  /\ \E c \in Seq(Items) : /\ cache_' = [cache_ EXCEPT ![ObjOf[t]] = c]
                                  /\ Range(c) \subseteq Range(cache_[ObjOf[t]]) \cup files
         /\ UNCHANGED <<deq_enabled_, enq_enabled_>>
         /\ ~result => Blocked(t)
         /\ result /\ call[t].op \in EnqOps /\ enq_enabled_[ObjOf[t]]
               => MaxSize = 0 \/ Cardinality(files) < MaxSize
<1> DEFINE q == ObjOf[t]
           kept == Range(cache_[q]) \cap files
<1>1. q \in Queues /\ cache_[q] \in Seq(Items) /\ files \subseteq Items
  BY NamesAssumption DEF TypeOK
<1>2. PICK c \in Refreshed(t) : /\ Predicate(t, c) <=> result
                                /\ cache_' = [cache_ EXCEPT ![q] = c]
                                /\ UNCHANGED <<deq_enabled_, enq_enabled_>>
  BY DEF Evaluate
<1>3. \A s \in Listings : /\ s \in Seq(Items) /\ Len(s) = Cardinality(files) /\ Range(s) \subseteq files
                          /\ s = <<>> <=> files = {}
  BY <1>1, Listed, SeqMonotonic DEF Listings
<1>4. ASSUME NEW s \in Cleaned(q), kept # {}
      PROVE  s \in Seq(Items) /\ Range(s) \subseteq Range(cache_[q]) /\ s # <<>>
  <2>1. IsFiniteSet(kept) /\ s \in SetToSeqs(kept)
    BY <1>4, FS_Subset DEF Cleaned
  <2>2. s \in Seq(kept) /\ Range(s) \subseteq kept /\ (s = <<>> <=> kept = {})
    BY <2>1, Listed
  <2>3. QED
    BY <1>1, <1>4, <2>2, SeqMonotonic
<1>5. c \in Seq(Items) /\ Range(c) \subseteq Range(cache_[q]) \cup files
  BY <1>1, <1>2, <1>3, <1>4 DEF Refreshed, FullNolock, EmptyNolock
<1>6. CASE call[t].op \in EnqOps
  <2>1. CASE enq_enabled_[q] /\ MaxSize # 0
    <3>1. Len(c) = Cardinality(files) /\ Cardinality(files) \in Nat
      BY <1>2, <1>3, <1>6, <2>1, FS_CardinalityType DEF Refreshed, FullNolock
    <3>2. result <=> Cardinality(files) < MaxSize
      BY <1>2, <1>6, <2>1, <3>1 DEF Predicate
    <3>3. ~(Cardinality(files) < MaxSize) => Cardinality(files) >= MaxSize
      BY <3>1, SizesAssumption
    <3>4. QED
      BY <1>2, <1>5, <1>6, <2>1, <3>2, <3>3, Zenon DEF Blocked
  <2>2. CASE ~(enq_enabled_[q] /\ MaxSize # 0)
    BY <1>2, <1>5, <1>6, <2>2 DEF Predicate
  <2>3. QED
    BY <2>1, <2>2
<1>7. CASE call[t].op \notin EnqOps
  <2>1. ~result => deq_enabled_[q] /\ c = <<>>
    BY <1>2, <1>7 DEF Predicate
  <2>2. ~result => files = {}
    BY <1>2, <1>3, <1>4, <1>7, <2>1 DEF Refreshed, EmptyNolock
  <2>3. QED
    BY <1>2, <1>5, <1>7, <2>1, <2>2 DEF Blocked
<1>8. QED
  BY <1>6, <1>7

(***************************************************************************)
(* What size() and empty() can put in the cache: files that exist.         *)
(***************************************************************************)
LEMMA RefreshedCaches ==
  ASSUME TypeOK, IsFiniteSet(files), NEW q \in Queues, NEW c \in Listings \cup EmptyNolock(q)
  PROVE  c \in Seq(Items) /\ Range(c) \subseteq files
<1> DEFINE kept == Range(cache_[q]) \cap files
<1>1. files \subseteq Items /\ kept \subseteq files /\ IsFiniteSet(kept)
  BY FS_Subset DEF TypeOK
<1>2. c \in SetToSeqs(files) \/ c \in SetToSeqs(kept)
  BY DEF Listings, EmptyNolock, Cleaned
<1>3. (c \in Seq(files) \/ c \in Seq(kept)) /\ Range(c) \subseteq files
  BY <1>1, <1>2, Listed
<1>4. QED
  BY <1>1, <1>3, SeqMonotonic

(***************************************************************************)
(* Where a thread can be, and what a notification does to it.              *)
(***************************************************************************)
Places == Inside \cup Granted \cup {"idle", "crashed"}

\* notify_all wakes those who wait on that lock, and nobody else.
LEMMA NotifiedPlaces ==
  ASSUME TypeOK, NEW l
  PROVE  /\ Notified(l) \in [Threads -> Places]
         /\ \A t \in Threads : /\ Notified(l)[t] \in {pc[t], "ready"}
                               /\ Notified(l)[t] # pc[t] => pc[t] = "waiting"
                               /\ pc[t] = "waiting" /\ Lock(t) = l => Notified(l)[t] = "ready"
                               /\ pc[t] # "waiting" => Notified(l)[t] = pc[t]
BY DEF TypeOK, Notified, Inside, Places

\* Evaluating a predicate leaves a cache of items.
LEMMA EvaluationTypes ==
  ASSUME TypeOK, IsFiniteSet(files), NEW t \in Threads, NEW result \in BOOLEAN,
         Evaluate(t, result)
  PROVE  /\ cache_' \in [Queues -> Seq(Items)]
         /\ deq_enabled_' = deq_enabled_ /\ enq_enabled_' = enq_enabled_
<1>1. PICK c \in Seq(Items) : cache_' = [cache_ EXCEPT ![ObjOf[t]] = c]
  BY Evaluation
<1>2. QED
  BY <1>1, Evaluation DEF TypeOK

(***************************************************************************)
(* The end of a call.                                                      *)
(***************************************************************************)
LEMMA ReturnTypes ==
  ASSUME TypeOK, NEW t \in Threads, NEW c \in Codes \cup {"exception"},
         NEW p \in {pc, Notified(Lock(t))}, Return(t, p, c),
         holder[Lock(t)] \in {t, NoThread}
  PROVE  /\ ec' \in [Threads -> Codes \cup {"exception"}]
         /\ late' \in [Threads -> BOOLEAN]
         /\ pc' \in [Threads -> Places]
         /\ holder' \in [Locks -> Threads \cup {NoThread}]
         /\ \A u \in Threads : /\ pc'[u] \in Granted => pc'[u] = pc[u] /\ u # t
                               /\ pc'[u] \in Inside \cup Granted => pc[u] \in Inside \cup Granted /\ u # t
                               /\ pc'[u] \in Granted => Lock(u) # Lock(t)
                               /\ Lock(u) # Lock(t) => holder'[Lock(u)] = holder[Lock(u)]
                               /\ pc'[u] = "waiting" => pc[u] = "waiting"
<1>1. Lock(t) \in Locks /\ holder \in [Locks -> Threads \cup {NoThread}]
      /\ \A u \in Threads : Lock(u) \in Locks
  BY NamesAssumption DEF TypeOK, Lock
<1>2. p \in [Threads -> Places] /\ \A u \in Threads : p[u] = pc[u] \/ (pc[u] = "waiting" /\ p[u] = "ready")
  BY NotifiedPlaces DEF TypeOK, Places
<1>3. pc' = [p EXCEPT ![t] = "idle"] /\ holder' = [holder EXCEPT ![Lock(t)] = NoThread]
      /\ ec' = [ec EXCEPT ![t] = c] /\ late' = [late EXCEPT ![t] = FALSE]
  BY DEF Return
<1>4. "idle" \in Places
  BY DEF Places
<1>5. /\ ec' \in [Threads -> Codes \cup {"exception"}] /\ late' \in [Threads -> BOOLEAN]
      /\ pc' \in [Threads -> Places]
  BY <1>2, <1>3, <1>4 DEF TypeOK
<1>6. holder' \in [Locks -> Threads \cup {NoThread}]
  BY <1>1, <1>3
<1>7. ASSUME NEW u \in Threads
      PROVE /\ pc'[u] \in Granted => pc'[u] = pc[u] /\ u # t
            /\ pc'[u] \in Inside \cup Granted => pc[u] \in Inside \cup Granted /\ u # t
            /\ pc'[u] = "waiting" => pc[u] = "waiting"
  BY <1>2, <1>3 DEF Inside, Granted
<1>8. ASSUME NEW u \in Threads PROVE pc'[u] \in Granted => Lock(u) # Lock(t)
  BY <1>7, NamesAssumption DEF TypeOK, Granted
<1>9. ASSUME NEW u \in Threads PROVE Lock(u) # Lock(t) => holder'[Lock(u)] = holder[Lock(u)]
  BY <1>1, <1>3
<1>10. QED
  BY <1>5, <1>6, <1>7, <1>8, <1>9

(***************************************************************************)
(* Every step keeps the types, and the set of files finite.                *)
(***************************************************************************)
Types == TypeOK /\ IsFiniteSet(files)

\* The steps that evaluate a predicate keep the types.
LEMMA EvaluatorTypes ==
  ASSUME Types, NEW t \in Threads,
         Block(t) \/ TimedOut(t) \/ Aborted(t) \/ WaitDone(t) \/ Grant(t)
  PROVE  Types'
<1>0. TypeOK /\ IsFiniteSet(files) /\ Lock(t) \in Locks /\ \A u \in Threads : Lock(u) \in Locks
  BY NamesAssumption DEF Types, TypeOK, Lock
<1>1. \E result \in BOOLEAN : Evaluate(t, result)
  BY DEF Block, TimedOut, Aborted, WaitDone, Grant
<1>2. /\ cache_' \in [Queues -> Seq(Items)]
      /\ deq_enabled_' = deq_enabled_ /\ enq_enabled_' = enq_enabled_
  BY <1>0, <1>1, EvaluationTypes
<1>3. UNCHANGED <<dirVars, lockVars, call, historyVars>> /\ CanLock(t)
  BY DEF Block, TimedOut, Aborted, WaitDone, Grant, callVars
<1>4. holder[Lock(t)] = NoThread
  BY <1>3 DEF CanLock
<1>5. CASE \E p \in {pc, Notified(Lock(t))}, c \in Codes : Return(t, p, c)
  <2>1. PICK p \in {pc, Notified(Lock(t))}, c \in Codes : Return(t, p, c)
    BY <1>5
  <2>2. QED
    BY <1>0, <1>2, <1>3, <1>4, <2>1, ReturnTypes DEF Types, TypeOK, Lock, Places,
       dirVars, lockVars, historyVars, Granted
<1>6. CASE Block(t)
  BY <1>0, <1>2, <1>3, <1>6 DEF Block, Types, TypeOK, Lock, dirVars, lockVars, historyVars,
     callVars, Inside, Granted
<1>7. CASE Grant(t)
  <2>1. \A u \in Threads : pc[u] \in Granted => Lock(u) # Lock(t)
    BY <1>0, <1>4, NamesAssumption DEF TypeOK
  <2>2. /\ pc' = [pc EXCEPT ![t] = "granted"] /\ holder' = [holder EXCEPT ![Lock(t)] = t]
        /\ call[t].op \in PushOps \cup PopOps /\ UNCHANGED <<late, ec>> /\ pc[t] \in Inside
    BY <1>7 DEF Grant, callVars, Inside
  <2>3. pc' \in [Threads -> Inside \cup Granted \cup {"idle", "crashed"}]
        /\ holder' \in [Locks -> Threads \cup {NoThread}]
    BY <1>0, <2>2 DEF TypeOK, Granted
  <2>4. \A u \in Threads : pc'[u] \in Granted => holder'[Lock(u)] = u
    BY <1>0, <2>1, <2>2 DEF TypeOK
  <2>5. QED
    BY <1>0, <1>2, <1>3, <2>2, <2>3, <2>4 DEF Types, TypeOK, Lock, dirVars, lockVars, historyVars,
       Inside, Granted
<1>8. QED
  BY <1>5, <1>6, <1>7 DEF TimedOut, Aborted, WaitDone, Codes

\* The steps that write, read or remove a file keep the types.
LEMMA FileTypes ==
  ASSUME Types, NEW t \in Threads,
         OpenFile(t) \/ CloseFile(t) \/ ReadFile(t) \/ RemoveFile(t)
  PROVE  Types'
<1>0. TypeOK /\ IsFiniteSet(files) /\ Lock(t) \in Locks /\ (\A u \in Threads : Lock(u) \in Locks)
      /\ ObjOf[t] \in Queues
  BY NamesAssumption DEF Types, TypeOK, Lock
<1>1. pc[t] \in Granted /\ holder[Lock(t)] = t
  BY <1>0 DEF OpenFile, CloseFile, ReadFile, RemoveFile, Granted, TypeOK
<1>2. CASE OpenFile(t)
  <2>1. call[t].item \in Items /\ call[t].op \in PushOps
    BY <1>0, <1>1, <1>2 DEF OpenFile, TypeOK
  <2>2. /\ files' \subseteq Items /\ partial' \subseteq Items /\ IsFiniteSet(files')
        /\ stamp' \in [Items -> 0 .. MaxClock]
    BY <1>0, <1>2, <2>1, FS_AddElement DEF OpenFile, TypeOK
  <2>3. /\ pc' = [pc EXCEPT ![t] = "writing"]
        /\ UNCHANGED <<clock, objVars, lockVars, holder, callVars, historyVars>>
    BY <1>2 DEF OpenFile
  <2>4. QED
    BY <1>0, <1>1, <2>1, <2>2, <2>3 DEF Types, TypeOK, Lock, objVars, lockVars, callVars, historyVars,
       Inside, Granted
<1>3. CASE CloseFile(t)
  <2>1. call[t].item \in Items /\ call[t].op \in PushOps
    BY <1>0, <1>1, <1>3 DEF CloseFile, TypeOK
  <2>2. /\ partial' \subseteq Items /\ accepted' \subseteq Items
        /\ stamp' \in [Items -> 0 .. MaxClock]
        /\ pc' = [pc EXCEPT ![t] = "done"]
        /\ UNCHANGED <<files, clock, objVars, lockVars, holder, callVars, removed, delivered>>
    BY <1>0, <1>3, <2>1 DEF CloseFile, TypeOK
  <2>3. QED
    BY <1>0, <1>1, <2>1, <2>2 DEF Types, TypeOK, Lock, objVars, lockVars, callVars, Inside, Granted
<1>4. CASE ReadFile(t)
  <2> DEFINE x == Head(cache_[ObjOf[t]])
  <2>1. /\ x \in Items /\ Tail(cache_[ObjOf[t]]) \in Seq(Items)
        /\ cache_' = [cache_ EXCEPT ![ObjOf[t]] = Tail(@)]
        /\ UNCHANGED <<dirVars, deq_enabled_, enq_enabled_, lockVars, holder, late, ec, historyVars>>
        /\ pc' = [pc EXCEPT ![t] = "reading"] /\ call[t].op \in PopOps
        /\ call' = [call EXCEPT ![t].item = x]
    BY <1>0, <1>4, HeadTailProperties DEF ReadFile, TypeOK
  <2> HIDE DEF x
  <2>2. cache_' \in [Queues -> Seq(Items)]
    BY <1>0, <2>1 DEF TypeOK
  <2>3. /\ call' \in [Threads -> [op : BlockingOps \cup {"none"}, item : Items \cup {NoItem}]]
        /\ \A u \in Threads : call'[u] = IF u = t THEN [op |-> call[t].op, item |-> x] ELSE call[u]
    <3>1. call \in [Threads -> [op : BlockingOps \cup {"none"}, item : Items \cup {NoItem}]]
      BY <1>0 DEF TypeOK
    <3>2. call' = [call EXCEPT ![t] = [op |-> call[t].op, item |-> x]]
      <4>1. [call[t] EXCEPT !.item = x] = [op |-> call[t].op, item |-> x]
        BY <3>1
      <4>2. call' = [call EXCEPT ![t] = [call[t] EXCEPT !.item = x]]
        BY <2>1
      <4>3. QED
        BY <4>1, <4>2
    <3>3. [op |-> call[t].op, item |-> x] \in [op : BlockingOps \cup {"none"}, item : Items \cup {NoItem}]
      BY <2>1, <3>1
    <3>4. QED
      BY <3>1, <3>2, <3>3
  <2>4. /\ call'[t].op = call[t].op /\ call'[t].item = x
        /\ \A u \in Threads \ {t} : call'[u] = call[u]
    BY <2>3
  <2>5. pc' \in [Threads -> Places] /\ pc'[t] = "reading"
        /\ \A u \in Threads \ {t} : pc'[u] = pc[u]
    BY <1>0, <2>1 DEF TypeOK, Places, Granted
  <2>6. PushOps \cap PopOps = {}
    BY DEF PushOps, PopOps
  <2>7. \A u \in Threads : Lock(u)' = Lock(u)
    BY <2>1 DEF lockVars, Lock
  <2>8. ASSUME NEW u \in Threads
        PROVE  /\ pc'[u] \in Granted => holder'[Lock(u)'] = u
               /\ pc'[u] \in {"granted", "done"} => call'[u].op \in PushOps \cup PopOps
               /\ pc'[u] = "writing" => call'[u].op \in PushOps
               /\ pc'[u] = "reading" => call'[u].op \in PopOps
               /\ pc'[u] \in Inside \cup Granted /\ call'[u].op \in PushOps => call'[u].item \in Items
               /\ pc'[u] \in {"reading", "done"} => call'[u].item \in Items
    <3>1. CASE u = t
      BY <1>1, <2>1, <2>4, <2>5, <2>6, <2>7, <3>1
    <3>2. CASE u # t
      BY <1>0, <2>1, <2>4, <2>5, <2>7, <3>2 DEF TypeOK
    <3>3. QED
      BY <3>1, <3>2
  <2>9. QED
    BY <1>0, <2>1, <2>2, <2>3, <2>5, <2>8 DEF Types, TypeOK, Places, dirVars, lockVars, historyVars
<1>5. CASE RemoveFile(t)
  <2>1. call[t].item \in Items /\ call[t].op \in PopOps
    BY <1>0, <1>1, <1>5 DEF RemoveFile, TypeOK
  <2>2. files' \subseteq Items /\ removed' \subseteq Items /\ IsFiniteSet(files')
    BY <1>0, <1>5, <2>1, FS_RemoveElement DEF RemoveFile, TypeOK
  <2>3. stamp' \in [Items -> 0 .. MaxClock]
    <3>1. stamp' = [stamp EXCEPT ![call[t].item] = 0] /\ 0 \in 0 .. MaxClock
      BY <1>5, SizesAssumption DEF RemoveFile
    <3>2. QED
      BY <1>0, <2>1, <3>1 DEF TypeOK
  <2>4. /\ pc' = [pc EXCEPT ![t] = "done"]
        /\ UNCHANGED <<partial, clock, objVars, lockVars, holder, callVars, accepted, delivered>>
    BY <1>5 DEF RemoveFile
  <2>5. QED
    BY <1>0, <1>1, <2>1, <2>2, <2>3, <2>4 DEF Types, TypeOK, Lock, objVars, lockVars, callVars, Inside, Granted
<1>6. QED
  BY <1>2, <1>3, <1>4, <1>5

\* The ends of the calls that held the mutex keep the types.
LEMMA FinishTypes ==
  ASSUME Types, NEW t \in Threads, Finish(t) \/ PopThrows(t)
  PROVE  Types'
<1>0. TypeOK /\ IsFiniteSet(files) /\ (\A u \in Threads : Lock(u) \in Locks) /\ ObjOf[t] \in Queues
  BY NamesAssumption DEF Types, TypeOK, Lock
<1>1. pc[t] \in Granted /\ holder[Lock(t)] = t
  BY <1>0 DEF Finish, PopThrows, Granted, TypeOK
<1>2. CASE Finish(t)
  <2>1. /\ delivered' \subseteq Items
        /\ UNCHANGED <<dirVars, objVars, lockVars, call, accepted, removed>>
        /\ Return(t, Notified(Lock(t)), "success")
    BY <1>0, <1>2 DEF Finish, Returned, TypeOK
  <2>2. QED
    BY <1>0, <1>1, <2>1, ReturnTypes DEF Types, TypeOK, Lock, Places, dirVars, objVars, lockVars,
       Codes, Granted
<1>3. CASE PopThrows(t)
  <2>1. /\ Tail(cache_[ObjOf[t]]) \in Seq(Items)
        /\ cache_' = [cache_ EXCEPT ![ObjOf[t]] = Tail(@)]
        /\ UNCHANGED <<dirVars, deq_enabled_, enq_enabled_, lockVars, call, historyVars>>
        /\ Return(t, pc, "exception")
    BY <1>0, <1>3, HeadTailProperties DEF PopThrows, TypeOK
  <2>2. cache_' \in [Queues -> Seq(Items)]
    BY <1>0, <2>1 DEF TypeOK
  <2>3. QED
    BY <1>0, <1>1, <2>1, <2>2, ReturnTypes DEF Types, TypeOK, Lock, Places, dirVars, lockVars,
       historyVars, Granted
<1>4. QED
  BY <1>2, <1>3

\* The steps of a thread outside its critical section, and the setters, keep the types.
LEMMA OtherTypes ==
  ASSUME Types, NEW t \in Threads,
         \/ \E op \in BlockingOps, x \in Items \cup {NoItem} : Enter(t, op, x)
         \/ Deadline(t) \/ SpuriousWakeup(t) \/ Refresh(t)
         \/ \E disable \in BOOLEAN : disable_deq(t, disable) \/ disable_enq(t, disable)
  PROVE  Types'
<1>0. TypeOK /\ IsFiniteSet(files) /\ (\A u \in Threads : Lock(u) \in Locks)
      /\ ObjOf[t] \in Queues
  BY NamesAssumption DEF Types, TypeOK, Lock
<1>1. ASSUME NEW op \in BlockingOps, NEW x \in Items \cup {NoItem}, Enter(t, op, x) PROVE Types'
  <2>1. /\ call' \in [Threads -> [op : BlockingOps \cup {"none"}, item : Items \cup {NoItem}]]
        /\ ec' \in [Threads -> Codes \cup {"exception"}]
        /\ op \in PushOps => x \in Items
    BY <1>0, <1>1 DEF Enter, TypeOK, Codes
  <2>2. QED
    BY <1>0, <1>1, <2>1 DEF Enter, Types, TypeOK, Lock, dirVars, objVars, lockVars, historyVars,
       Inside, Granted
<1>2. CASE Deadline(t) \/ SpuriousWakeup(t)
  BY <1>0, <1>2, ZenonT(60) DEF Deadline, SpuriousWakeup, Types, TypeOK, Lock, dirVars, objVars, lockVars,
     historyVars, callVars, Inside, Granted
<1>3. CASE Refresh(t)
  <2>1. PICK c \in Listings \cup EmptyNolock(ObjOf[t]) : cache_' = [cache_ EXCEPT ![ObjOf[t]] = c]
    BY <1>3 DEF Refresh
  <2>2. c \in Seq(Items)
    BY <1>0, <2>1, RefreshedCaches, NamesAssumption DEF TypeOK
  <2>3. cache_' \in [Queues -> Seq(Items)]
    BY <1>0, <2>1, <2>2 DEF TypeOK
  <2>4. QED
    BY <1>0, <1>3, <2>3 DEF Refresh, Types, TypeOK, Lock, dirVars, lockVars, historyVars, callVars
<1>4. ASSUME NEW disable \in BOOLEAN, disable_deq(t, disable) \/ disable_enq(t, disable) PROVE Types'
  <2>1. pc' = Notified(Lock(t)) /\ UNCHANGED <<dirVars, cache_, lockVars, holder, callVars, historyVars>>
    BY <1>4 DEF disable_deq, disable_enq
  <2>2. deq_enabled_' \in [Queues -> BOOLEAN] /\ enq_enabled_' \in [Queues -> BOOLEAN]
    BY <1>0, <1>4 DEF disable_deq, disable_enq, TypeOK
  <2>3. /\ pc' \in [Threads -> Places]
        /\ \A u \in Threads : pc'[u] = pc[u] \/ (pc[u] = "waiting" /\ pc'[u] = "ready")
    BY <1>0, <2>1, NotifiedPlaces
  <2>4. QED
    BY <1>0, <2>1, <2>2, <2>3 DEF Types, TypeOK, Lock, Places, dirVars, lockVars, callVars, historyVars,
       Inside, Granted
<1>5. QED
  BY <1>1, <1>2, <1>3, <1>4

\* Every step keeps the types.
LEMMA TypeStep == Types /\ [Next]_vars => Types'
<1> SUFFICES ASSUME Types, [Next]_vars PROVE Types'
  OBVIOUS
<1>0. TypeOK /\ IsFiniteSet(files)
  BY DEF Types
<1>1. CASE UNCHANGED vars
  BY <1>1 DEF vars, dirVars, objVars, lockVars, callVars, historyVars, Types, TypeOK, Lock
<1>2. ASSUME NEW qs \in SUBSET Queues, Die(qs) PROVE Types'
  <2>1. cache_' \in [Queues -> Seq(Items)]
    BY <1>0, <1>2 DEF Die, Dead, TypeOK
  <2>2. QED
    BY <1>0, <1>2, <2>1 DEF Die, Dead, dirVars, lockVars, historyVars, Types, TypeOK, Lock, Inside, Granted
<1>3. ASSUME NEW q \in Queues, Reopen(q) PROVE Types'
  <2>1. lockName' \in Locks
    BY <1>0, <1>3, SizesAssumption DEF Reopen, TypeOK, Locks
  <2>2. /\ deq_enabled_' \in [Queues -> BOOLEAN] /\ enq_enabled_' \in [Queues -> BOOLEAN]
        /\ cache_' \in [Queues -> Seq(Items)] /\ lockOf' \in [Queues -> Locks]
        /\ pc' \in [Threads -> Places]
    BY <1>0, <1>3, <2>1 DEF Reopen, TypeOK, Places
  <2>3. \A u \in Threads : pc'[u] # "idle" => pc'[u] = pc[u] /\ ObjOf[u] # q
    BY <1>3 DEF Reopen
  <2>4. \A u \in Threads : pc'[u] # "idle" => Lock(u)' = Lock(u)
    BY <1>0, <1>3, <2>3, NamesAssumption DEF Reopen, TypeOK, Lock
  <2>5. UNCHANGED <<dirVars, holder, callVars, historyVars>>
    BY <1>3 DEF Reopen
  <2>6. QED
    BY <1>0, <2>1, <2>2, <2>3, <2>4, <2>5 DEF Types, TypeOK, Places, dirVars, callVars, historyVars,
       Inside, Granted
<1>4. CASE Tick
  <2>1. clock' \in 0 .. MaxClock
    BY <1>0, <1>4, SizesAssumption DEF Tick, TypeOK
  <2>2. QED
    BY <1>0, <1>4, <2>1 DEF Tick, objVars, lockVars, callVars, historyVars, Types, TypeOK, Lock
<1>5. QED
  BY <1>1, <1>2, <1>3, <1>4, EvaluatorTypes, FileTypes, FinishTypes, OtherTypes, NextCases

(***************************************************************************)
(* Types, for any number of locks: a thread with the mutex granted is the  *)
(* holder of the lock its object has open.                                 *)
(***************************************************************************)
THEOREM TypeCorrect == Spec => []TypeOK
<1>1. Init => Types
  <2>1. NoItem \in Items \cup {NoItem} /\ 1 \in Locks /\ 0 \in 0 .. MaxClock
    BY SizesAssumption DEF Locks
  <2>2. QED
    BY <2>1, FS_EmptySet DEF Init, Types, TypeOK, Codes, Inside, Granted
<1>2. Types => TypeOK
  BY DEF Types
<1>3. QED
  BY <1>1, <1>2, TypeStep, PTL DEF Spec

(***************************************************************************)
(* What holds as long as there is one lock.  The mutex: only its holder    *)
(* writes, one file at a time, and a half written file is never without a  *)
(* holder.                                                                 *)
(***************************************************************************)
Exclusive ==
  /\ \A q \in Queues : lockOf[q] = 1
  /\ \A t \in Threads : pc[t] = "writing" => partial = {call[t].item}
  /\ \A t \in Threads : pc[t] \in {"granted", "reading", "done"} => partial = {}
  /\ partial # {} => holder[1] # NoThread

(***************************************************************************)
(* The items: those being pushed are new and different, those in a cache   *)
(* have been accepted, and an accepted one is a whole file or was removed. *)
(***************************************************************************)
Pending(t) == pc[t] \in Inside \cup {"granted", "writing"} /\ call[t].op \in PushOps

Bookkeeping ==
  /\ \A t \in Threads : Pending(t) => call[t].item \notin accepted
  /\ \A t, u \in Threads : Pending(t) /\ Pending(u) /\ call[t].item = call[u].item => t = u
  /\ \A q \in Queues : Range(cache_[q]) \subseteq accepted
  /\ partial \subseteq files /\ accepted = (files \ partial) \cup removed
  /\ files \cap removed = {}

(***************************************************************************)
(* The item on its way to a caller: a file that exists while it is read,   *)
(* and the only removed one not returned once it is removed, unless it was *)
(* lost with its process and the mutex is held for ever.                   *)
(***************************************************************************)
Handover ==
  /\ delivered \subseteq removed
  /\ \A t \in Threads : /\ pc[t] = "reading" => call[t].item \in files
                        /\ pc[t] = "done" => Returned(t) \subseteq removed
                        /\ pc[t] \in Granted => removed \ delivered \subseteq
                                                 IF pc[t] = "done" THEN Returned(t) ELSE {}
  /\ \A x, y \in removed \ delivered : x = y /\ holder[1] # NoThread

(***************************************************************************)
(* A push is granted only below the limit.                                 *)
(***************************************************************************)
Capacity ==
  MaxSize # 0 => /\ Cardinality(files) <= MaxSize
                 /\ \A t \in Threads : pc[t] = "granted" /\ call[t].op \in PushOps
                                          => Cardinality(files) < MaxSize

(***************************************************************************)
(* While nobody holds the mutex, or its holder has not begun, who waits has *)
(* a reason to.                                                            *)
(***************************************************************************)
Undisturbed == holder[1] = NoThread \/ \E t \in Threads : pc[t] = "granted"

Waiters == Undisturbed => \A t \in Threads : pc[t] = "waiting" => Blocked(t)

Safe == Exclusive /\ Bookkeeping /\ Handover /\ Capacity /\ Waiters

\* With one mutex, whoever writes or removes a file holds it; a free one means no partial file.
LEMMA OneMutex ==
  ASSUME Types, Exclusive
  PROVE  /\ \A t \in Threads : Lock(t) = 1 /\ (pc[t] \in Granted => holder[1] = t)
         /\ holder[1] = NoThread => partial = {} /\ \A t \in Threads : pc[t] \notin Granted
         /\ 1 \in Locks
BY NamesAssumption, SizesAssumption DEF Types, TypeOK, Exclusive, Lock, Locks

\* A step that evaluates a predicate keeps the safety invariant.
LEMMA EvaluatorStep ==
  ASSUME Types, Safe, NEW t \in Threads,
         Block(t) \/ TimedOut(t) \/ Aborted(t) \/ WaitDone(t) \/ Grant(t)
  PROVE  Safe'
<1>0. TypeOK /\ IsFiniteSet(files) /\ Exclusive /\ Bookkeeping /\ Handover /\ Capacity /\ Waiters
      /\ ObjOf[t] \in Queues
  BY NamesAssumption DEF Types, Safe, TypeOK
<1>1. \E result \in BOOLEAN : Evaluate(t, result)
  BY DEF Block, TimedOut, Aborted, WaitDone, Grant
<1>2. UNCHANGED <<files, partial, lockOf, call, accepted, removed, delivered>> /\ holder[Lock(t)] = NoThread
  BY DEF Block, TimedOut, Aborted, WaitDone, Grant, callVars, dirVars, lockVars, historyVars, CanLock
<1>3. partial = {} /\ (\A u \in Threads : Lock(u) = 1 /\ pc[u] \notin Granted) /\ holder[1] = NoThread
      /\ 1 \in Locks
  BY <1>0, <1>2, OneMutex
<1>4. /\ \E c \in Seq(Items) : /\ cache_' = [cache_ EXCEPT ![ObjOf[t]] = c]
                               /\ Range(c) \subseteq Range(cache_[ObjOf[t]]) \cup files
      /\ UNCHANGED <<deq_enabled_, enq_enabled_>>
  BY <1>0, <1>1, Evaluation
<1>5. \A q \in Queues : Range(cache_'[q]) \subseteq accepted
  <2>1. PICK c \in Seq(Items) : /\ cache_' = [cache_ EXCEPT ![ObjOf[t]] = c]
                                /\ Range(c) \subseteq Range(cache_[ObjOf[t]]) \cup files
    BY <1>4
  <2>2. Range(c) \subseteq accepted
    BY <1>0, <1>3, <2>1 DEF Bookkeeping
  <2>3. QED
    BY <1>0, <2>1, <2>2 DEF Bookkeeping, TypeOK
<1>6. \A u \in Threads : Blocked(u)' <=> Blocked(u)
  BY <1>2, <1>4 DEF Blocked
<1>7. \A u \in Threads :
        /\ pc'[u] \in Inside \cup Granted => pc[u] \in Inside \cup Granted
        /\ pc'[u] \in Granted => pc'[u] = "granted"
        /\ pc'[u] = "granted" => u = t /\ (call[t].op \in PushOps => MaxSize = 0 \/ Cardinality(files) < MaxSize)
        /\ pc'[u] = "waiting" => pc[u] = "waiting" \/ (u = t /\ Blocked(t))
  <2>1. CASE \E p \in {pc, Notified(Lock(t))}, c \in Codes : Return(t, p, c)
    <3>1. PICK p \in {pc, Notified(Lock(t))}, c \in Codes : Return(t, p, c)
      BY <2>1
    <3>2. c \in Codes \cup {"exception"} /\ holder[Lock(t)] \in {t, NoThread}
      BY <1>2
    <3>3. \A u \in Threads : /\ pc'[u] \in Granted => pc'[u] = pc[u]
                             /\ pc'[u] \in Inside \cup Granted => pc[u] \in Inside \cup Granted
                             /\ pc'[u] = "waiting" => pc[u] = "waiting"
      BY <1>0, <3>1, <3>2, ReturnTypes
    <3>4. QED
      BY <1>3, <3>3 DEF Granted
  <2>2. CASE Block(t)
    <3>1. Evaluate(t, FALSE) /\ pc[t] = "ready" /\ pc' = [pc EXCEPT ![t] = IF late[t] THEN "expired" ELSE "waiting"]
      BY <2>2 DEF Block
    <3>2. Blocked(t)
      BY <1>0, <3>1, Evaluation
    <3>3. pc \in [Threads -> Places]
      BY <1>0 DEF TypeOK, Places
    <3>4. pc'[t] \in {"expired", "waiting"} /\ \A u \in Threads \ {t} : pc'[u] = pc[u]
      BY <3>1, <3>3
    <3>5. QED
      BY <1>3, <3>1, <3>2, <3>4 DEF Inside, Granted
  <2>3. CASE Grant(t)
    <3>1. Evaluate(t, TRUE) /\ pc[t] \in {"ready", "expired"} /\ pc' = [pc EXCEPT ![t] = "granted"]
          /\ Enabled(t)
      BY <2>3 DEF Grant
    <3>2. call[t].op \in PushOps => MaxSize = 0 \/ Cardinality(files) < MaxSize
      BY <1>0, <3>1, Evaluation DEF Enabled, EnqOps
    <3>3. pc \in [Threads -> Places]
      BY <1>0 DEF TypeOK, Places
    <3>4. QED
      BY <1>3, <3>1, <3>2, <3>3 DEF Inside, Granted
  <2>4. QED
    BY <2>1, <2>2, <2>3 DEF TimedOut, Aborted, WaitDone, Codes
<1>8. Exclusive'
  BY <1>0, <1>2, <1>3, <1>7 DEF Exclusive, Granted
<1>9. Bookkeeping'
  <2>1. \A u \in Threads : Pending(u)' => Pending(u)
    BY <1>2, <1>3, <1>7 DEF Pending, Inside, Granted
  <2>2. QED
    BY <1>0, <1>2, <1>5, <2>1 DEF Bookkeeping
<1>10. Handover'
  <2>1. removed \ delivered = {}
    BY <1>0, <1>3 DEF Handover
  <2>2. QED
    BY <1>0, <1>2, <1>7, <2>1 DEF Handover, Granted
<1>11. Capacity'
  BY <1>0, <1>2, <1>7, SizesAssumption DEF Capacity
<1>12. Waiters'
  BY <1>0, <1>2, <1>3, <1>6, <1>7 DEF Waiters, Undisturbed
<1>13. QED
  BY <1>8, <1>9, <1>10, <1>11, <1>12 DEF Safe

(***************************************************************************)
(* A file appears, and is completed, read and removed, under the mutex:    *)
(* nobody else is in a critical section, and none of the steps but the     *)
(* last changes where the others are.                                      *)
(***************************************************************************)
LEMMA AloneInside ==
  ASSUME Types, Exclusive, NEW t \in Threads, pc[t] \in Granted
  PROVE  /\ holder[1] = t /\ holder[1] # NoThread
         /\ \A u \in Threads : pc[u] \in Granted => u = t
BY OneMutex, NamesAssumption DEF Types, TypeOK

\* A file appears: nobody has it yet.
LEMMA OpenFileStep == ASSUME Types, Safe, NEW t \in Threads, OpenFile(t) PROVE Safe'
<1>0. TypeOK /\ IsFiniteSet(files) /\ Exclusive /\ Bookkeeping /\ Handover /\ Capacity
  BY DEF Types, Safe
<1> DEFINE x == call[t].item
<1>1. /\ pc[t] = "granted" /\ call[t].op \in PushOps
      /\ files' = files \cup {x} /\ partial' = partial \cup {x}
      /\ pc' = [pc EXCEPT ![t] = "writing"]
      /\ UNCHANGED <<cache_, lockOf, holder, call, accepted, removed, delivered>>
  BY DEF OpenFile, objVars, lockVars, callVars, historyVars
<1>2. pc[t] \in Granted /\ partial = {}
  BY <1>0, <1>1 DEF Exclusive, Granted
<1>3. /\ holder[1] = t /\ holder[1] # NoThread
      /\ \A u \in Threads : /\ pc[u] \in Granted => u = t
                            /\ pc'[u] = IF u = t THEN "writing" ELSE pc[u]
  <2>1. holder[1] = t /\ holder[1] # NoThread /\ \A u \in Threads : pc[u] \in Granted => u = t
    BY <1>0, <1>2, AloneInside
  <2>2. \A u \in Threads : pc'[u] = IF u = t THEN "writing" ELSE pc[u]
    BY <1>0, <1>1 DEF TypeOK
  <2>3. QED
    BY <2>1, <2>2
<1>4. x \notin accepted /\ x \notin files /\ x \notin removed /\ Pending(t)
  BY <1>0, <1>1, <1>2 DEF Bookkeeping, Pending
<1>5. Exclusive'
  BY <1>0, <1>1, <1>2, <1>3 DEF Exclusive, Granted
<1>6. Bookkeeping'
  <2>1. \A u \in Threads : Pending(u)' => Pending(u)
    BY <1>1, <1>3, <1>4 DEF Pending
  <2>2. QED
    BY <1>0, <1>1, <1>2, <1>4, <2>1 DEF Bookkeeping
<1>7. Handover'
  <2>1. removed \ delivered = {}
    BY <1>0, <1>1, <1>2 DEF Handover
  <2>2. QED
    BY <1>0, <1>1, <1>3, <2>1 DEF Handover, Granted
<1>8. Capacity'
  <2>1. MaxSize # 0 => Cardinality(files) < MaxSize
    BY <1>0, <1>1 DEF Capacity
  <2>2. Cardinality(files') = Cardinality(files) + 1 /\ Cardinality(files) \in Nat
    BY <1>0, <1>1, <1>4, FS_AddElement, FS_CardinalityType
  <2>3. MaxSize # 0 => Cardinality(files') <= MaxSize
    BY <2>1, <2>2, SizesAssumption
  <2>4. \A u \in Threads : pc'[u] # "granted"
    BY <1>3 DEF Granted
  <2>5. QED
    BY <2>3, <2>4 DEF Capacity
<1>9. Waiters'
  BY <1>1, <1>3 DEF Waiters, Undisturbed, Granted
<1>10. QED
  BY <1>5, <1>6, <1>7, <1>8, <1>9 DEF Safe

\* It is completed: the item is accepted.
LEMMA CloseFileStep == ASSUME Types, Safe, NEW t \in Threads, CloseFile(t) PROVE Safe'
<1>0. TypeOK /\ Exclusive /\ Bookkeeping /\ Handover /\ Capacity
  BY DEF Types, Safe
<1> DEFINE x == call[t].item
<1>1. /\ pc[t] = "writing" /\ partial' = partial \ {x} /\ accepted' = accepted \cup {x}
      /\ pc' = [pc EXCEPT ![t] = "done"]
      /\ UNCHANGED <<files, cache_, lockOf, holder, call, removed, delivered>>
  BY DEF CloseFile, objVars, lockVars, callVars
<1>2. /\ partial = {x} /\ partial' = {}
      /\ call[t].op \in PushOps /\ call[t].op \notin PopOps /\ Pending(t)
  BY <1>0, <1>1 DEF Exclusive, TypeOK, Pending, PushOps, PopOps
<1>3. pc[t] \in Granted
  BY <1>1 DEF Granted
<1>4. /\ holder[1] = t /\ holder[1] # NoThread
      /\ \A u \in Threads : /\ pc[u] \in Granted => u = t
                            /\ pc'[u] = IF u = t THEN "done" ELSE pc[u]
  <2>1. holder[1] = t /\ holder[1] # NoThread /\ \A u \in Threads : pc[u] \in Granted => u = t
    BY <1>0, <1>3, AloneInside
  <2>2. \A u \in Threads : pc'[u] = IF u = t THEN "done" ELSE pc[u]
    BY <1>0, <1>1 DEF TypeOK
  <2>3. QED
    BY <2>1, <2>2
<1>5. Exclusive'
  BY <1>0, <1>1, <1>2, <1>4 DEF Exclusive, Granted
<1>6. Bookkeeping'
  <2>1. \A u \in Threads : Pending(u)' => Pending(u) /\ u # t
    BY <1>1, <1>4 DEF Pending, Inside
  <2>2. \A u \in Threads : Pending(u)' => call'[u].item \notin accepted'
    BY <1>0, <1>1, <1>2, <2>1 DEF Bookkeeping
  <2>3. partial' \subseteq files' /\ accepted' = (files' \ partial') \cup removed'
        /\ files' \cap removed' = {}
    BY <1>0, <1>1, <1>2 DEF Bookkeeping
  <2>4. QED
    BY <1>0, <1>1, <2>1, <2>2, <2>3 DEF Bookkeeping
<1>7. Handover'
  <2>1. removed \ delivered = {}
    BY <1>0, <1>1, <1>3 DEF Handover
  <2>2. Returned(t)' = {}
    BY <1>1, <1>2 DEF Returned
  <2>3. QED
    BY <1>0, <1>1, <1>4, <2>1, <2>2 DEF Handover, Granted
<1>8. Capacity'
  BY <1>0, <1>1, <1>4 DEF Capacity, Granted
<1>9. Waiters'
  BY <1>1, <1>4 DEF Waiters, Undisturbed, Granted
<1>10. QED
  BY <1>5, <1>6, <1>7, <1>8, <1>9 DEF Safe

\* It is read: it leaves the cache it was taken from, and stays a file.
LEMMA ReadFileStep == ASSUME Types, Safe, NEW t \in Threads, ReadFile(t) PROVE Safe'
<1>0. TypeOK /\ Exclusive /\ Bookkeeping /\ Handover /\ Capacity /\ ObjOf[t] \in Queues
  BY NamesAssumption DEF Types, Safe, TypeOK
<1> DEFINE c == cache_[ObjOf[t]]
           x == Head(c)
<1>1. /\ pc[t] = "granted" /\ call[t].op \in PopOps /\ c # <<>> /\ x \in files
      /\ cache_' = [cache_ EXCEPT ![ObjOf[t]] = Tail(c)]
      /\ call' = [call EXCEPT ![t].item = x]
      /\ pc' = [pc EXCEPT ![t] = "reading"]
      /\ UNCHANGED <<files, partial, lockOf, holder, accepted, removed, delivered>>
  BY DEF ReadFile, dirVars, lockVars, historyVars
<1>2. partial = {} /\ pc[t] \in Granted
  BY <1>0, <1>1 DEF Exclusive, Granted
<1>3. /\ holder[1] = t /\ holder[1] # NoThread
      /\ \A u \in Threads : /\ pc[u] \in Granted => u = t
                            /\ pc'[u] = IF u = t THEN "reading" ELSE pc[u]
  <2>1. holder[1] = t /\ holder[1] # NoThread /\ \A u \in Threads : pc[u] \in Granted => u = t
    BY <1>0, <1>2, AloneInside
  <2>2. \A u \in Threads : pc'[u] = IF u = t THEN "reading" ELSE pc[u]
    BY <1>0, <1>1 DEF TypeOK
  <2>3. QED
    BY <2>1, <2>2
<1>4. /\ \A u \in Threads \ {t} : call'[u] = call[u]
      /\ call'[t].item = x
  BY <1>0, <1>1 DEF TypeOK
<1>5. \A q \in Queues : Range(cache_'[q]) \subseteq accepted
  <2>1. c \in Seq(Items) /\ Range(c) \subseteq accepted
    BY <1>0 DEF TypeOK, Bookkeeping
  <2>2. Range(Tail(c)) \subseteq Range(c)
    BY <1>1, <2>1, HeadTailProperties DEF Range
  <2>3. QED
    BY <1>0, <1>1, <2>1, <2>2 DEF TypeOK, Bookkeeping
<1>6. Exclusive'
  BY <1>0, <1>1, <1>2, <1>3 DEF Exclusive, Granted
<1>7. Bookkeeping'
  <2>1. \A u \in Threads : Pending(u)' => Pending(u) /\ u # t
    BY <1>3, <1>4 DEF Pending, Inside
  <2>2. QED
    BY <1>0, <1>1, <1>4, <1>5, <2>1 DEF Bookkeeping
<1>8. Handover'
  <2>1. removed \ delivered = {}
    BY <1>0, <1>1, <1>2 DEF Handover
  <2>2. QED
    BY <1>0, <1>1, <1>3, <1>4, <2>1 DEF Handover, Granted
<1>9. Capacity'
  BY <1>0, <1>1, <1>3 DEF Capacity, Granted
<1>10. Waiters'
  BY <1>1, <1>3 DEF Waiters, Undisturbed, Granted
<1>11. QED
  BY <1>6, <1>7, <1>8, <1>9, <1>10 DEF Safe

\* It is removed: only the call that removed it has the item.
LEMMA RemoveFileStep == ASSUME Types, Safe, NEW t \in Threads, RemoveFile(t) PROVE Safe'
<1>0. TypeOK /\ IsFiniteSet(files) /\ Exclusive /\ Bookkeeping /\ Handover /\ Capacity
  BY DEF Types, Safe
<1> DEFINE x == call[t].item
<1>1. /\ pc[t] = "reading" /\ files' = files \ {x} /\ removed' = removed \cup {x}
      /\ pc' = [pc EXCEPT ![t] = "done"]
      /\ UNCHANGED <<partial, cache_, lockOf, holder, call, accepted, delivered>>
  BY DEF RemoveFile, objVars, lockVars, callVars
<1>2. /\ partial = {} /\ pc[t] \in Granted /\ call[t].op \in PopOps /\ x \in files
      /\ removed \ delivered = {}
  BY <1>0, <1>1 DEF Exclusive, Handover, TypeOK, Granted
<1>3. /\ holder[1] = t /\ holder[1] # NoThread
      /\ \A u \in Threads : /\ pc[u] \in Granted => u = t
                            /\ pc'[u] = IF u = t THEN "done" ELSE pc[u]
  <2>1. holder[1] = t /\ holder[1] # NoThread /\ \A u \in Threads : pc[u] \in Granted => u = t
    BY <1>0, <1>2, AloneInside
  <2>2. \A u \in Threads : pc'[u] = IF u = t THEN "done" ELSE pc[u]
    BY <1>0, <1>1 DEF TypeOK
  <2>3. QED
    BY <2>1, <2>2
<1>4. Exclusive'
  BY <1>0, <1>1, <1>2, <1>3 DEF Exclusive, Granted
<1>5. Bookkeeping'
  <2>1. \A u \in Threads : Pending(u)' => Pending(u)
    BY <1>1, <1>3 DEF Pending, Inside
  <2>2. partial' \subseteq files' /\ accepted' = (files' \ partial') \cup removed'
        /\ files' \cap removed' = {}
    BY <1>0, <1>1, <1>2 DEF Bookkeeping
  <2>3. QED
    BY <1>0, <1>1, <2>1, <2>2 DEF Bookkeeping
<1>6. Handover'
  <2>1. Returned(t)' = {x} /\ removed' \ delivered' \subseteq {x} /\ delivered' \subseteq removed'
    BY <1>0, <1>1, <1>2 DEF Returned, Handover
  <2>2. QED
    BY <1>0, <1>1, <1>3, <2>1 DEF Handover, Granted
<1>7. Capacity'
  <2>1. Cardinality(files') = Cardinality(files) - 1 /\ Cardinality(files) \in Nat
    BY <1>0, <1>1, <1>2, FS_RemoveElement, FS_CardinalityType
  <2>2. MaxSize # 0 => Cardinality(files') <= MaxSize
    BY <1>0, <2>1, SizesAssumption DEF Capacity
  <2>3. \A u \in Threads : pc'[u] # "granted"
    BY <1>3 DEF Granted
  <2>4. QED
    BY <2>2, <2>3 DEF Capacity
<1>8. Waiters'
  BY <1>1, <1>3 DEF Waiters, Undisturbed, Granted
<1>9. QED
  BY <1>4, <1>5, <1>6, <1>7, <1>8 DEF Safe

(***************************************************************************)
(* The end of the call, with a notification: nobody waits afterwards, and  *)
(* what was removed has been returned.                                     *)
(***************************************************************************)
LEMMA FinishStep == ASSUME Types, Safe, NEW t \in Threads, Finish(t) PROVE Safe'
<1>0. TypeOK /\ Exclusive /\ Bookkeeping /\ Handover /\ Capacity
      /\ (\A u \in Threads : Lock(u) = 1) /\ 1 \in Locks
  BY OneMutex DEF Types, Safe
<1>1. /\ pc[t] = "done" /\ delivered' = delivered \cup Returned(t)
      /\ Return(t, Notified(1), "success")
      /\ UNCHANGED <<files, partial, cache_, lockOf, call, accepted, removed>>
  BY <1>0 DEF Finish, dirVars, objVars, lockVars
<1>2. /\ partial = {} /\ pc[t] \in Granted /\ Returned(t) \subseteq removed
      /\ removed \ delivered \subseteq Returned(t) /\ delivered \subseteq removed
  BY <1>0, <1>1 DEF Exclusive, Handover, Granted
<1>3. \A u \in Threads : pc[u] \in Granted => u = t
  BY <1>0, <1>2, OneMutex DEF Types
<1>4. pc' = [Notified(1) EXCEPT ![t] = "idle"] /\ holder' = [holder EXCEPT ![1] = NoThread]
  BY <1>0, <1>1 DEF Return
<1>5. Notified(1) \in [Threads -> Places]
      /\ \A u \in Threads : /\ Notified(1)[u] \in {pc[u], "ready"}
                            /\ Notified(1)[u] # pc[u] => pc[u] = "waiting"
                            /\ pc[u] = "waiting" => Notified(1)[u] = "ready"
  BY <1>0, NotifiedPlaces
<1>6. pc'[t] = "idle" /\ \A u \in Threads \ {t} : pc'[u] = Notified(1)[u]
  BY <1>4, <1>5
<1>7. \A u \in Threads : /\ pc'[u] \in Inside => pc[u] \in Inside /\ u # t
                         /\ pc'[u] \notin Granted /\ pc'[u] # "waiting"
  BY <1>3, <1>5, <1>6 DEF Inside, Granted
<1>8. Exclusive'
  BY <1>0, <1>1, <1>2, <1>7 DEF Exclusive, Granted
<1>9. Bookkeeping'
  <2>1. \A u \in Threads : Pending(u)' => Pending(u)
    BY <1>1, <1>7 DEF Pending, Granted
  <2>2. QED
    BY <1>0, <1>1, <2>1 DEF Bookkeeping
<1>10. Handover'
  <2>1. delivered' = removed'
    BY <1>1, <1>2
  <2>2. QED
    BY <1>7, <2>1 DEF Handover, Granted
<1>11. Capacity'
  BY <1>0, <1>1, <1>7 DEF Capacity, Granted
<1>12. Waiters'
  BY <1>7 DEF Waiters
<1>13. QED
  BY <1>8, <1>9, <1>10, <1>11, <1>12 DEF Safe

\* A read that fails ends the call without one; the directory is as it was.
LEMMA PopThrowsStep == ASSUME Types, Safe, NEW t \in Threads, PopThrows(t) PROVE Safe'
<1>0. TypeOK /\ Exclusive /\ Bookkeeping /\ Handover /\ Capacity /\ Waiters /\ ObjOf[t] \in Queues
  BY NamesAssumption DEF Types, Safe, TypeOK
<1> DEFINE c == cache_[ObjOf[t]]
<1>1. /\ pc[t] = "granted" /\ c # <<>> /\ cache_' = [cache_ EXCEPT ![ObjOf[t]] = Tail(c)]
      /\ Return(t, pc, "exception")
      /\ UNCHANGED <<files, partial, deq_enabled_, enq_enabled_, lockOf, call, accepted, removed, delivered>>
  BY DEF PopThrows, dirVars, lockVars, historyVars
<1>2. /\ partial = {} /\ pc[t] \in Granted /\ holder[Lock(t)] = t /\ removed \ delivered = {}
      /\ Undisturbed
  BY <1>0, <1>1 DEF Exclusive, Granted, TypeOK, Handover, Undisturbed
<1>3. \A u \in Threads : pc'[u] = IF u = t THEN "idle" ELSE pc[u]
  BY <1>0, <1>1 DEF Return, TypeOK
<1>4. \A q \in Queues : Range(cache_'[q]) \subseteq accepted
  <2>1. c \in Seq(Items) /\ Range(c) \subseteq accepted
    BY <1>0 DEF TypeOK, Bookkeeping
  <2>2. Range(Tail(c)) \subseteq Range(c)
    BY <1>1, <2>1, HeadTailProperties DEF Range
  <2>3. QED
    BY <1>0, <1>1, <2>1, <2>2 DEF TypeOK, Bookkeeping
<1>5. Exclusive'
  BY <1>0, <1>1, <1>2, <1>3 DEF Exclusive
<1>6. Bookkeeping'
  <2>1. \A u \in Threads : Pending(u)' => Pending(u)
    BY <1>1, <1>3 DEF Pending, Inside
  <2>2. QED
    BY <1>0, <1>1, <1>4, <2>1 DEF Bookkeeping
<1>7. Handover'
  BY <1>0, <1>1, <1>2, <1>3 DEF Handover, Returned, Granted
<1>8. Capacity'
  BY <1>0, <1>1, <1>3 DEF Capacity
<1>9. Waiters'
  BY <1>0, <1>1, <1>2, <1>3 DEF Waiters, Blocked
<1>10. QED
  BY <1>5, <1>6, <1>7, <1>8, <1>9 DEF Safe

(***************************************************************************)
(* The steps that leave the directory alone.                               *)
(***************************************************************************)
LEMMA QuietStep ==
  ASSUME Types, Safe, NEW t \in Threads,
         \/ \E op \in BlockingOps, x \in Items \cup {NoItem} : Enter(t, op, x)
         \/ Deadline(t) \/ SpuriousWakeup(t) \/ Refresh(t)
         \/ \E disable \in BOOLEAN : disable_deq(t, disable) \/ disable_enq(t, disable)
  PROVE  Safe'
<1>0. TypeOK /\ IsFiniteSet(files) /\ Exclusive /\ Bookkeeping /\ Handover /\ Capacity /\ Waiters
      /\ ObjOf[t] \in Queues /\ \A u \in Threads : Lock(u) = 1
  BY NamesAssumption, OneMutex DEF Types, Safe, TypeOK
<1>1. ASSUME NEW op \in BlockingOps, NEW x \in Items \cup {NoItem}, Enter(t, op, x) PROVE Safe'
  <2>1. /\ call' = [call EXCEPT ![t] = [op |-> op, item |-> x]]
        /\ pc' = [pc EXCEPT ![t] = "ready"] /\ pc[t] = "idle"
        /\ UNCHANGED <<files, partial, cache_, deq_enabled_, enq_enabled_, lockOf, holder, accepted, removed, delivered>>
    BY <1>1 DEF Enter, dirVars, objVars, lockVars, historyVars
  <2>2. \A u \in Threads \ {t} : call'[u] = call[u] /\ pc'[u] = pc[u]
    BY <1>0, <2>1 DEF TypeOK
  <2>3. pc'[t] = "ready" /\ call'[t].op = op /\ call'[t].item = x
    BY <1>0, <2>1 DEF TypeOK
  <2>4. op \in PushOps => x \notin accepted /\ \A u \in Threads : Pending(u) => call[u].item # x
    BY <1>1 DEF Enter, Busy, Pending, Granted
  <2>5. Exclusive'
    BY <1>0, <2>1, <2>2, <2>3 DEF Exclusive
  <2>6. Bookkeeping'
    <3>1. \A u \in Threads \ {t} : Pending(u)' <=> Pending(u)
      BY <2>2 DEF Pending
    <3>2. Pending(t)' => op \in PushOps
      BY <2>3 DEF Pending
    <3>3. QED
      BY <1>0, <2>1, <2>2, <2>3, <2>4, <3>1, <3>2 DEF Bookkeeping
  <2>7. Handover'
    BY <1>0, <2>1, <2>2, <2>3 DEF Handover, Returned, Granted
  <2>8. Capacity'
    BY <1>0, <2>1, <2>2, <2>3 DEF Capacity
  <2>9. Waiters'
    BY <1>0, <2>1, <2>2, <2>3 DEF Waiters, Undisturbed, Blocked
  <2>10. QED
    BY <2>5, <2>6, <2>7, <2>8, <2>9 DEF Safe
<1>2. ASSUME UNCHANGED <<files, partial, lockOf, holder, call, accepted, removed, delivered>>,
             \A q \in Queues : Range(cache_'[q]) \subseteq Range(cache_[q]) \cup accepted,
             \A u \in Threads : \/ pc'[u] = pc[u]
                                \/ pc[u] \in {"ready", "waiting"} /\ pc'[u] \in {"ready", "expired"},
             \A u \in Threads : pc'[u] = "waiting" => (Blocked(u)' <=> Blocked(u))
      PROVE  Safe'
  <2>1. \A u \in Threads : /\ pc'[u] \in Inside => pc[u] \in Inside
                           /\ pc'[u] \in Granted \cup {"waiting"} => pc'[u] = pc[u]
    BY <1>2 DEF Inside, Granted
  <2>2. Exclusive'
    BY <1>0, <1>2, <2>1 DEF Exclusive, Granted
  <2>3. Bookkeeping'
    BY <1>0, <1>2, <2>1 DEF Bookkeeping, Pending, Granted
  <2>4. Handover'
    BY <1>0, <1>2, <2>1 DEF Handover, Returned, Granted
  <2>5. Capacity'
    BY <1>0, <1>2, <2>1 DEF Capacity, Granted
  <2>6. Waiters'
    BY <1>0, <1>2, <2>1 DEF Waiters, Undisturbed, Granted
  <2>7. QED
    BY <2>2, <2>3, <2>4, <2>5, <2>6 DEF Safe
<1>3. CASE Deadline(t) \/ SpuriousWakeup(t)
  <2>1. /\ UNCHANGED <<files, partial, cache_, deq_enabled_, enq_enabled_, lockOf, holder, call,
                       accepted, removed, delivered>>
        /\ pc[t] \in {"ready", "waiting"}
        /\ pc' = [pc EXCEPT ![t] = "ready"] \/ pc' = [pc EXCEPT ![t] = "expired"]
    BY <1>3 DEF Deadline, SpuriousWakeup, dirVars, objVars, lockVars, callVars, historyVars
  <2>2. \A u \in Threads : \/ pc'[u] = pc[u]
                           \/ pc[u] \in {"ready", "waiting"} /\ pc'[u] \in {"ready", "expired"}
    <3>1. pc \in [Threads -> Places]
      BY <1>0 DEF TypeOK, Places
    <3>2. pc'[t] \in {"ready", "expired"} /\ \A u \in Threads \ {t} : pc'[u] = pc[u]
      BY <2>1, <3>1
    <3>3. QED
      BY <2>1, <3>2
  <2>3. \A u \in Threads : Blocked(u)' <=> Blocked(u)
    BY <2>1 DEF Blocked
  <2>4. QED
    BY <1>2, <2>1, <2>2, <2>3
<1>4. CASE Refresh(t)
  <2>1. PICK c \in Listings \cup EmptyNolock(ObjOf[t]) : cache_' = [cache_ EXCEPT ![ObjOf[t]] = c]
    BY <1>4 DEF Refresh
  <2>2. /\ UNCHANGED <<files, partial, deq_enabled_, enq_enabled_, lockOf, holder, call, pc,
                       accepted, removed, delivered>>
        /\ holder[1] = NoThread
    BY <1>0, <1>4 DEF Refresh, CanLock, dirVars, lockVars, callVars, historyVars
  <2>3. Range(c) \subseteq files /\ files \subseteq accepted
    BY <1>0, <2>1, <2>2, RefreshedCaches DEF Exclusive, Bookkeeping
  <2>4. \A q \in Queues : Range(cache_'[q]) \subseteq Range(cache_[q]) \cup accepted
    BY <1>0, <2>1, <2>3 DEF TypeOK
  <2>5. \A u \in Threads : Blocked(u)' <=> Blocked(u)
    BY <2>2 DEF Blocked
  <2>6. QED
    BY <1>2, <2>2, <2>4, <2>5
<1>5. ASSUME NEW disable \in BOOLEAN, disable_deq(t, disable) \/ disable_enq(t, disable) PROVE Safe'
  <2>1. pc' = Notified(1) /\ UNCHANGED <<files, partial, cache_, lockOf, holder, call, accepted, removed, delivered>>
    BY <1>0, <1>5 DEF disable_deq, disable_enq, dirVars, lockVars, callVars, historyVars
  <2>2. \A u \in Threads : /\ pc'[u] # "waiting"
                           /\ pc'[u] = pc[u] \/ (pc[u] = "waiting" /\ pc'[u] = "ready")
    BY <1>0, <2>1, NotifiedPlaces
  <2>3. QED
    BY <1>2, <2>1, <2>2
<1>6. QED
  BY <1>1, <1>3, <1>4, <1>5

(***************************************************************************)
(* A process that dies keeps what it had; an object constructed afterwards *)
(* starts with nothing in its cache and nobody waiting on it.              *)
(***************************************************************************)
LEMMA DieStep == ASSUME Types, Safe, NEW qs \in SUBSET Queues, Die(qs) PROVE Safe'
<1>0. TypeOK /\ Exclusive /\ Bookkeeping /\ Handover /\ Capacity /\ Waiters
  BY DEF Types, Safe
<1>1. UNCHANGED <<files, partial, deq_enabled_, enq_enabled_, lockOf, holder, call,
                  accepted, removed, delivered>>
  BY DEF Die, Dead, dirVars, lockVars, historyVars
<1>2. /\ \A u \in Threads : pc'[u] = pc[u] \/ pc'[u] = "crashed"
      /\ \A q \in Queues : Range(cache_'[q]) \subseteq Range(cache_[q])
  BY DEF Die, Dead, Range
<1>3. \A u \in Threads : pc'[u] \in Inside \cup Granted => pc'[u] = pc[u]
  BY <1>2 DEF Inside, Granted
<1>4. Exclusive' /\ Capacity'
  BY <1>0, <1>1, <1>3 DEF Exclusive, Capacity, Granted
<1>5. Bookkeeping'
  BY <1>0, <1>1, <1>2, <1>3 DEF Bookkeeping, Pending, Granted
<1>6. Handover'
  BY <1>0, <1>1, <1>3 DEF Handover, Returned, Granted
<1>7. Waiters'
  BY <1>0, <1>1, <1>2 DEF Waiters, Undisturbed, Blocked
<1>8. QED
  BY <1>4, <1>5, <1>6, <1>7 DEF Safe

\* So does an object constructed again on the same lock.
LEMMA ReopenStep ==
  ASSUME Types, Safe, NEW q \in Queues, Reopen(q), lockName' = 1
  PROVE  Safe'
<1>0. TypeOK /\ Exclusive /\ Bookkeeping /\ Handover /\ Capacity /\ Waiters
  BY DEF Types, Safe
<1>1. /\ UNCHANGED <<files, partial, holder, call, accepted, removed, delivered>>
      /\ lockOf' = [lockOf EXCEPT ![q] = 1] /\ cache_' = [cache_ EXCEPT ![q] = <<>>]
      /\ deq_enabled_' = [deq_enabled_ EXCEPT ![q] = TRUE]
      /\ enq_enabled_' = [enq_enabled_ EXCEPT ![q] = TRUE]
      /\ pc' = [u \in Threads |-> IF ObjOf[u] = q THEN "idle" ELSE pc[u]]
  BY DEF Reopen, dirVars, callVars, historyVars
<1>2. \A u \in Threads : pc'[u] # "idle" => pc'[u] = pc[u] /\ ObjOf[u] \in Queues \ {q}
  BY <1>1, NamesAssumption
<1>3. \A u \in Threads : pc'[u] \in Inside \cup Granted => pc'[u] = pc[u]
  BY <1>2 DEF Inside, Granted
<1>4. \A r \in Queues : /\ lockOf'[r] = 1
                        /\ Range(cache_'[r]) \subseteq Range(cache_[r])
  BY <1>0, <1>1 DEF TypeOK, Exclusive, Range
<1>5. Exclusive' /\ Capacity'
  BY <1>0, <1>1, <1>3, <1>4 DEF Exclusive, Capacity, Granted
<1>6. Bookkeeping'
  BY <1>0, <1>1, <1>3, <1>4 DEF Bookkeeping, Pending, Granted
<1>7. ASSUME NEW u \in Threads, Undisturbed, pc'[u] = "waiting" PROVE Blocked(u)'
  <2>1. pc[u] = "waiting" /\ ObjOf[u] \in Queues \ {q}
    BY <1>2, <1>7
  <2>2. deq_enabled_'[ObjOf[u]] = deq_enabled_[ObjOf[u]]
        /\ enq_enabled_'[ObjOf[u]] = enq_enabled_[ObjOf[u]]
    BY <1>0, <1>1, <2>1 DEF TypeOK
  <2>3. QED
    BY <1>0, <1>1, <1>7, <2>1, <2>2 DEF Waiters, Blocked
<1>8. Waiters'
  BY <1>1, <1>3, <1>7 DEF Waiters, Undisturbed, Granted
<1>9. Handover'
  BY <1>0, <1>1, <1>3 DEF Handover, Returned, Granted
<1>10. QED
  BY <1>5, <1>6, <1>8, <1>9 DEF Safe

(***************************************************************************)
(* The invariant: types always, and the rest while there is one lock.      *)
(***************************************************************************)
Inv == Types /\ (OneLock => Safe)

\* The invariant holds at first,
LEMMA InvInit == Init => Inv
<1> SUFFICES ASSUME Init PROVE Inv
  OBVIOUS
<1>1. Types
  <2>1. NoItem \in Items \cup {NoItem} /\ 1 \in Locks /\ 0 \in 0 .. MaxClock
    BY SizesAssumption DEF Locks
  <2>2. QED
    BY <2>1, FS_EmptySet DEF Init, Types, TypeOK, Codes, Inside, Granted
<1>2. Exclusive /\ Waiters /\ Handover
  BY DEF Init, Exclusive, Waiters, Handover, Granted
<1>3. Bookkeeping
  BY DEF Init, Bookkeeping, Pending, Inside, Granted, Range
<1>4. Capacity
  BY FS_EmptySet, SizesAssumption DEF Init, Capacity
<1>5. QED
  BY <1>1, <1>2, <1>3, <1>4 DEF Inv, Safe

\* is kept by every step,
LEMMA InvStep == Inv /\ [Next]_vars => Inv'
<1> SUFFICES ASSUME Inv, [Next]_vars PROVE Inv'
  OBVIOUS
<1>1. Types /\ Types'
  BY TypeStep DEF Inv
<1>2. ASSUME OneLock' PROVE Safe'
  <2>1. CASE UNCHANGED vars
    <3>1. Safe
      BY <1>2, <2>1 DEF Inv, OneLock, vars, lockVars
    <3>2. QED
      BY <2>1, <3>1 DEF vars, dirVars, objVars, lockVars, callVars, historyVars, Safe, Exclusive,
         Bookkeeping, Handover, Capacity, Waiters, Undisturbed, Pending, Returned, Blocked
  <2>2. ASSUME NEW q \in Queues, Reopen(q) PROVE Safe'
    <3>1. lockName' = 1 /\ lockName \in Nat /\ lockName >= 1 /\ lockName' \in {lockName, lockName + 1}
      BY <1>1, <1>2, <2>2, SizesAssumption DEF OneLock, Reopen, Types, TypeOK, Locks
    <3>2. lockName = 1
      BY <3>1
    <3>3. QED
      BY <1>1, <2>2, <3>1, <3>2, ReopenStep DEF Inv, OneLock
  <2>3. CASE Tick
    <3>1. Safe
      BY <1>2, <2>3 DEF Inv, OneLock, Tick, lockVars
    <3>2. QED
      BY <2>3, <3>1 DEF Tick, objVars, lockVars, callVars, historyVars, Safe, Exclusive,
         Bookkeeping, Handover, Capacity, Waiters, Undisturbed, Pending, Returned, Blocked
  <2>4. ASSUME NEW qs \in SUBSET Queues, Die(qs) PROVE Safe'
    BY <1>1, <1>2, <2>4, DieStep DEF Inv, OneLock, Die, Dead, lockVars
  <2>5. ASSUME NEW t \in Threads,
               \/ Block(t) \/ TimedOut(t) \/ Aborted(t) \/ WaitDone(t) \/ Grant(t)
               \/ OpenFile(t) \/ CloseFile(t) \/ ReadFile(t) \/ RemoveFile(t) \/ Finish(t)
               \/ PopThrows(t) \/ Deadline(t) \/ SpuriousWakeup(t) \/ Refresh(t)
               \/ \E op \in BlockingOps, x \in Items \cup {NoItem} : Enter(t, op, x)
               \/ \E disable \in BOOLEAN : disable_deq(t, disable) \/ disable_enq(t, disable)
        PROVE  Safe'
    <3>1. UNCHANGED lockName
      BY <2>5 DEF Block, TimedOut, Aborted, WaitDone, Grant, OpenFile, CloseFile, ReadFile, RemoveFile,
         Finish, PopThrows, Deadline, SpuriousWakeup, Refresh, Enter, disable_deq, disable_enq, lockVars
    <3>2. Safe
      BY <1>2, <3>1 DEF Inv, OneLock
    <3>3. QED
      BY <1>1, <2>5, <3>2, EvaluatorStep, OpenFileStep, CloseFileStep, ReadFileStep, RemoveFileStep,
         FinishStep, PopThrowsStep, QuietStep
  <2>6. QED
    BY <2>1, <2>2, <2>3, <2>4, <2>5, NextCases
<1>3. QED
  BY <1>1, <1>2 DEF Inv

\* and therefore always holds.
LEMMA Invariant == Spec => []Inv
BY InvInit, InvStep, PTL DEF Spec

(***************************************************************************)
(* No half written file is in a cache, and none is without a locked mutex  *)
(* before it, whichever process dies.                                      *)
(***************************************************************************)
THEOREM ReadersSeeWholeFiles == Spec => []NoPartialRead
<1>1. Inv => NoPartialRead
  BY DEF Inv, Safe, Exclusive, Bookkeeping, NoPartialRead, PartialHidden
<1>2. QED
  BY <1>1, Invariant, PTL

(***************************************************************************)
(* Every accepted item is a whole file or was removed, and not both; what  *)
(* was removed was returned, but for at most one item, in the hands of the *)
(* holder of the mutex or lost with it.                                    *)
(***************************************************************************)
THEOREM ItemsConserved == Spec => []Conservation
<1>1. Inv => Conservation
  BY DEF Inv, Safe, Bookkeeping, Handover, Conservation
<1>2. QED
  BY <1>1, Invariant, PTL

(***************************************************************************)
(* The number of files never exceeds the limit.                            *)
(***************************************************************************)
THEOREM LimitHeld == Spec => []CapacityHeld
<1>1. Inv => CapacityHeld
  BY DEF Inv, Safe, Capacity, CapacityHeld
<1>2. QED
  BY <1>1, Invariant, PTL

(***************************************************************************)
(* Whoever waits on any object, in any process, has a reason to.           *)
(***************************************************************************)
THEOREM NoWakeupIsLost == Spec => []NoLostWakeup
<1>1. Inv => NoLostWakeup
  BY DEF Inv, Safe, Waiters, Undisturbed, NoLostWakeup
<1>2. QED
  BY <1>1, Invariant, PTL

-----------------------------------------------------------------------------
(***************************************************************************)
(* A listing of a finite set has all of its elements.                      *)
(***************************************************************************)
LEMMA ListedAll ==
  ASSUME NEW S, IsFiniteSet(S), NEW s \in SetToSeqs(S)
  PROVE  Range(s) = S
<1> DEFINE n == Cardinality(S)
<1>1. n \in Nat
  BY FS_CardinalityType
<1>2. s \in [1 .. n -> S] /\ \A i, j \in 1 .. n : i # j => s[i] # s[j]
  BY DEF SetToSeqs
<1>3. s \in Injection(1 .. n, S)
  BY <1>2 DEF Injection, IsInjective
<1>4. Cardinality(1 .. n) = n
  BY <1>1, FS_Interval
<1>5. s \in Surjection(1 .. n, S)
  BY <1>3, <1>4, FS_Injection
<1>6. QED
  BY <1>2, <1>5 DEF Surjection, Range

(***************************************************************************)
(* The order of a cache c, when fs are the files and st their times: the   *)
(* files that are in it are sorted by time, and those it lacks are not     *)
(* older than any that it has. The cache of an object can lag behind the   *)
(* directory, by files that others took and files that others wrote, and   *)
(* keeps this order.                                                       *)
(***************************************************************************)
Ordered(c, fs, st) ==
  /\ \A i, j \in 1 .. Len(c) : i < j /\ c[i] \in fs /\ c[j] \in fs => st[c[i]] <= st[c[j]]
  /\ \A i \in 1 .. Len(c), y \in fs \ Range(c) : c[i] \in fs => st[c[i]] <= st[y]

(***************************************************************************)
(* So it is with the caches of all objects as long as there is one lock,   *)
(* except that a file being read is no longer in the cache it was taken    *)
(* from; it is one of the oldest.  The clock does not run backwards.       *)
(***************************************************************************)
Reads(t, q) == pc[t] = "reading" /\ ObjOf[t] = q

Known(q) == files \ {call[t].item : t \in {u \in Threads : Reads(u, q)}}

Ages ==
  /\ \A x \in files : stamp[x] <= clock
  /\ \A q \in Queues : Ordered(cache_[q], Known(q), stamp)
  /\ \A t \in Threads : pc[t] = "reading" => \A y \in files : stamp[call[t].item] <= stamp[y]

\* Nobody reads, or only t does.
LEMMA KnownFiles ==
  ASSUME NEW t, \A u \in Threads : pc[u] = "reading" => u = t
  PROVE  \A q \in Queues : Known(q) = IF t \in Threads /\ Reads(t, q)
                                      THEN files \ {call[t].item} ELSE files
BY DEF Known, Reads

(***************************************************************************)
(* An empty cache, and one some files of which have gone.                  *)
(***************************************************************************)
LEMMA OrderedNone == ASSUME NEW fs, NEW st PROVE Ordered(<<>>, fs, st)
BY DEF Ordered

\* A sorted cache stays sorted when files disappear.
LEMMA OrderedLess ==
  ASSUME NEW c \in Seq(Items), NEW fs, NEW st, NEW gs \in SUBSET fs, NEW su,
         Ordered(c, fs, st), \A y \in gs : su[y] = st[y]
  PROVE  Ordered(c, gs, su)
BY DEF Ordered

(***************************************************************************)
(* A file x that is not in the cache gets the time k, now.                 *)
(***************************************************************************)
LEMMA OrderedMore ==
  ASSUME NEW c \in Seq(Items), NEW fs \in SUBSET Items, NEW st \in [Items -> Nat], NEW x \in Items, NEW k \in Nat,
         Ordered(c, fs, st), x \notin Range(c), \A y \in fs : st[y] <= k
  PROVE  Ordered(c, fs \cup {x}, [st EXCEPT ![x] = k])
<1> DEFINE su == [st EXCEPT ![x] = k]
<1>1. su[x] = k /\ \A y \in Items \ {x} : su[y] = st[y]
  OBVIOUS
<1>2. DOMAIN c = 1 .. Len(c) /\ \A i \in 1 .. Len(c) : c[i] \in Items /\ c[i] # x
  BY LenProperties DEF Range
<1>3. \A i \in 1 .. Len(c) : c[i] \in fs \cup {x} => c[i] \in fs /\ su[c[i]] = st[c[i]]
  BY <1>1, <1>2
<1>4. ASSUME NEW y \in fs \cup {x}, y \notin Range(c), NEW i \in 1 .. Len(c), c[i] \in fs
      PROVE  su[c[i]] <= su[y]
  BY <1>1, <1>3, <1>4 DEF Ordered
<1>5. QED
  BY <1>3, <1>4 DEF Ordered

(***************************************************************************)
(* The first file is taken from the cache and, if it is still there, from  *)
(* the directory.                                                          *)
(***************************************************************************)
LEMMA OrderedTail ==
  ASSUME NEW c \in Seq(Items), c # <<>>, NEW fs, NEW st, NEW su, Ordered(c, fs, st),
         \A y \in fs \ {Head(c)} : su[y] = st[y]
  PROVE  Ordered(Tail(c), fs \ {Head(c)}, su)
<1>1. PICK d \in Seq(Items) : d = Tail(c)
  BY HeadTailProperties
<1>2. /\ Len(c) \in Nat /\ Len(c) >= 1 /\ Len(d) = Len(c) - 1 /\ Head(c) = c[1]
      /\ \A i \in 1 .. Len(d) : d[i] = c[i + 1]
      /\ DOMAIN c = 1 .. Len(c) /\ DOMAIN d = 1 .. Len(d)
  BY <1>1, EmptySeq, HeadTailProperties, LenProperties
<1>3. \A y : y \in Range(c) => y = c[1] \/ y \in Range(d)
  <2>1. SUFFICES ASSUME NEW j \in 1 .. Len(c), j # 1 PROVE c[j] \in Range(d)
    BY <1>2 DEF Range
  <2>2. j - 1 \in 1 .. Len(d) /\ d[j - 1] = c[j]
    BY <1>2, <2>1
  <2>3. QED
    BY <1>2, <2>2 DEF Range
<1>4. \A i \in 1 .. Len(d) : i + 1 \in 1 .. Len(c)
  BY <1>2
<1>5. ASSUME NEW i \in 1 .. Len(d), NEW j \in 1 .. Len(d), i < j,
             d[i] \in fs \ {c[1]}, d[j] \in fs \ {c[1]}
      PROVE  su[d[i]] <= su[d[j]]
  <2>1. i + 1 < j + 1 /\ d[i] = c[i + 1] /\ d[j] = c[j + 1]
    BY <1>2, <1>5
  <2>2. st[d[i]] <= st[d[j]]
    BY <1>4, <1>5, <2>1 DEF Ordered
  <2>3. QED
    BY <1>2, <1>5, <2>2
<1>6. ASSUME NEW i \in 1 .. Len(d), NEW y \in (fs \ {c[1]}) \ Range(d), d[i] \in fs \ {c[1]}
      PROVE  su[d[i]] <= su[y]
  <2>1. y \in fs \ Range(c) /\ d[i] = c[i + 1]
    BY <1>2, <1>3, <1>6
  <2>2. st[d[i]] <= st[y]
    BY <1>4, <1>6, <2>1 DEF Ordered
  <2>3. QED
    BY <1>2, <1>6, <2>2
<1>7. Ordered(d, fs \ {c[1]}, su)
  BY <1>5, <1>6 DEF Ordered
<1>8. QED
  BY <1>1, <1>2, <1>7, Zenon

(***************************************************************************)
(* What the evaluation of a predicate, and size() and empty(), can leave   *)
(* in the cache: a listing, or the cleaned cache.                          *)
(***************************************************************************)
LEMMA OrderedCaches ==
  ASSUME TypeOK, IsFiniteSet(files), NEW q \in Queues, Ordered(cache_[q], files, stamp),
         NEW c \in Listings \cup EmptyNolock(q)
  PROVE  c \in Seq(Items) /\ Ordered(c, files, stamp)
<1> DEFINE kept == Range(cache_[q]) \cap files
<1>1. c \in Seq(Items)
  BY RefreshedCaches
<1>2. CASE c \in Listings
  <2>1. /\ c \in SetToSeqs(files)
        /\ \A i, j \in 1 .. Len(c) : i < j => stamp[c[i]] <= stamp[c[j]]
    BY <1>2 DEF Listings
  <2>2. Range(c) = files
    BY <2>1, ListedAll
  <2>3. QED
    BY <1>1, <2>1, <2>2 DEF Ordered
<1>3. CASE c \in Cleaned(q)
  <2>1. IsFiniteSet(kept) /\ c \in SetToSeqs(kept)
    BY <1>3, FS_Subset DEF Cleaned
  <2>2. Range(c) = kept /\ DOMAIN c = 1 .. Len(c)
    BY <1>1, <2>1, ListedAll, LenProperties
  <2>3. DOMAIN cache_[q] = 1 .. Len(cache_[q]) /\ Ordered(cache_[q], files, stamp)
    BY LenProperties DEF TypeOK
  <2>4. \A i \in 1 .. Len(c) : \E k \in 1 .. Len(cache_[q]) : c[i] = cache_[q][k]
    BY <2>2, <2>3 DEF Range
  <2>5. ASSUME NEW i \in 1 .. Len(c), NEW j \in 1 .. Len(c), i < j, c[i] \in files, c[j] \in files
        PROVE  stamp[c[i]] <= stamp[c[j]]
    <3>1. PICK k \in 1 .. Len(cache_[q]), l \in 1 .. Len(cache_[q]) :
             c[i] = cache_[q][k] /\ c[j] = cache_[q][l]
      BY <2>4
    <3>2. k < l
      BY <1>3, <2>3, <2>5, <3>1 DEF Cleaned
    <3>3. QED
      BY <2>3, <2>5, <3>1, <3>2 DEF Ordered
  <2>6. ASSUME NEW i \in 1 .. Len(c), NEW y \in files \ Range(c), c[i] \in files
        PROVE  stamp[c[i]] <= stamp[y]
    <3>1. PICK k \in 1 .. Len(cache_[q]) : c[i] = cache_[q][k]
      BY <2>4
    <3>2. y \in files \ Range(cache_[q])
      BY <2>2, <2>6
    <3>3. QED
      BY <2>3, <2>6, <3>1, <3>2 DEF Ordered
  <2>7. QED
    BY <1>1, <2>5, <2>6 DEF Ordered
<1>4. QED
  BY <1>2, <1>3 DEF EmptyNolock

\* Evaluating a predicate leaves a cache that is sorted by stamp, whether it was refreshed or not.
LEMMA EvaluationOrdered ==
  ASSUME TypeOK, IsFiniteSet(files), NEW t \in Threads, NEW result \in BOOLEAN, Evaluate(t, result),
         Ordered(cache_[ObjOf[t]], files, stamp)
  PROVE  \E c \in Seq(Items) : /\ cache_' = [cache_ EXCEPT ![ObjOf[t]] = c]
                               /\ Ordered(c, files, stamp)
<1> DEFINE q == ObjOf[t]
<1>1. q \in Queues /\ cache_[q] \in Seq(Items) /\ Ordered(cache_[q], files, stamp)
  BY NamesAssumption DEF TypeOK
<1>2. PICK c \in Refreshed(t) : cache_' = [cache_ EXCEPT ![q] = c]
  BY DEF Evaluate
<1>3. c = cache_[q] \/ c \in Listings \cup EmptyNolock(q)
  BY DEF Refreshed, FullNolock
<1>4. c \in Seq(Items) /\ Ordered(c, files, stamp)
  BY <1>1, <1>3, OrderedCaches
<1>5. QED
  BY <1>2, <1>4

(***************************************************************************)
(* The steps: a cache is refreshed, a file is written, a file is taken.    *)
(***************************************************************************)
NoReader == \A t \in Threads : pc[t] # "reading"

\* While nobody reads, every cache knows all files.
LEMMA AgesWithoutReader ==
  ASSUME NoReader
  PROVE  Ages <=> /\ \A x \in files : stamp[x] <= clock
                  /\ \A q \in Queues : Ordered(cache_[q], files, stamp)
<1>1. \A q \in Queues : Known(q) = files
  BY DEF NoReader, Known, Reads
<1>2. QED
  BY <1>1 DEF Ages, NoReader

\* A cache is refreshed.
LEMMA AgesKept ==
  ASSUME TypeOK, Ages, NoReader, NoReader', UNCHANGED <<files, stamp, clock>>,
         NEW q \in Queues, NEW c, Ordered(c, files, stamp), cache_' = [cache_ EXCEPT ![q] = c]
  PROVE  Ages'
<1>1. \A r \in Queues : Ordered(cache_[r], files, stamp)
  BY AgesWithoutReader
<1>2. \A r \in Queues : Ordered(cache_'[r], files, stamp)
  BY <1>1 DEF TypeOK
<1>3. (\A x \in files' : stamp'[x] <= clock') /\ \A r \in Queues : Ordered(cache_'[r], files', stamp')
  BY <1>2 DEF Ages
<1>4. \A r \in Queues : Known(r)' = files'
  BY DEF NoReader, Known, Reads
<1>5. QED
  BY <1>3, <1>4 DEF Ages, NoReader

\* A file stamped now is younger than what the caches hold.
LEMMA AgesStamped ==
  ASSUME TypeOK, Ages, NoReader, NoReader', NEW x \in Items, \A q \in Queues : x \notin Range(cache_[q]),
         files' = files \cup {x}, stamp' = [stamp EXCEPT ![x] = clock], UNCHANGED <<clock, cache_>>
  PROVE  Ages'
<1>1. /\ stamp \in [Items -> Nat] /\ clock \in Nat /\ files \subseteq Items
      /\ \A y \in files : stamp[y] <= clock
      /\ \A q \in Queues : cache_[q] \in Seq(Items) /\ Ordered(cache_[q], files, stamp)
  BY SizesAssumption, AgesWithoutReader DEF TypeOK
<1>2. \A y \in files' : stamp'[y] <= clock'
  BY <1>1
<1>3. ASSUME NEW q \in Queues PROVE Ordered(cache_'[q], files', stamp')
  BY <1>1, OrderedMore
<1>4. \A q \in Queues : Known(q)' = files'
  BY DEF NoReader, Known, Reads
<1>5. QED
  BY <1>2, <1>3, <1>4 DEF Ages, NoReader

(***************************************************************************)
(* The first file of a cache, if it still exists, is one of the oldest in  *)
(* the directory.                                                          *)
(***************************************************************************)
LEMMA OldestTaken ==
  ASSUME TypeOK, NEW q \in Queues, Ordered(cache_[q], files, stamp),
         cache_[q] # <<>>, Head(cache_[q]) \in files
  PROVE  \A y \in files : stamp[Head(cache_[q])] <= stamp[y]
<1> DEFINE c == cache_[q]
<1>1. c \in Seq(Items) /\ Ordered(c, files, stamp) /\ stamp \in [Items -> Nat] /\ files \subseteq Items
  BY SizesAssumption DEF TypeOK
<1>2. Head(c) = c[1] /\ Len(c) \in Nat /\ Len(c) >= 1 /\ DOMAIN c = 1 .. Len(c) /\ 1 \in 1 .. Len(c)
  BY <1>1, EmptySeq, HeadTailProperties, LenProperties
<1>3. SUFFICES ASSUME NEW y \in files PROVE stamp[c[1]] <= stamp[y]
  BY <1>2
<1>4. CASE y \notin Range(c)
  BY <1>1, <1>2, <1>4 DEF Ordered
<1>5. CASE y \in Range(c)
  <2>1. PICK j \in 1 .. Len(c) : c[j] = y
    BY <1>2, <1>5 DEF Range
  <2>2. CASE j = 1
    BY <1>1, <2>1, <2>2
  <2>3. CASE 1 < j
    BY <1>1, <1>2, <2>1, <2>3 DEF Ordered
  <2>4. QED
    BY <1>2, <2>2, <2>3
<1>6. QED
  BY <1>4, <1>5

\* The head of one cache is taken from it, and is being read or does not exist.
LEMMA AgesTail ==
  ASSUME TypeOK, Ages, NoReader, NEW t \in Threads, NEW q \in Queues, q = ObjOf[t], cache_[q] # <<>>,
         cache_' = [cache_ EXCEPT ![q] = Tail(cache_[q])], UNCHANGED <<files, stamp, clock>>,
         \A u \in Threads \ {t} : pc'[u] # "reading",
         IF Head(cache_[q]) \in files THEN pc'[t] = "reading" /\ call'[t].item = Head(cache_[q])
                                      ELSE pc'[t] # "reading"
  PROVE  Ages'
<1> DEFINE x == Head(cache_[q])
<1>1. \A r \in Queues : cache_[r] \in Seq(Items) /\ Ordered(cache_[r], files, stamp)
  BY AgesWithoutReader DEF TypeOK
<1>2. \A r \in Queues : Known(r)' = IF r = q THEN files \ {x} ELSE files
  <2>1. CASE x \in files
    BY <2>1 DEF Known, Reads
  <2>2. CASE x \notin files
    BY <2>2 DEF Known, Reads
  <2>3. QED
    BY <2>1, <2>2
<1>3. ASSUME NEW r \in Queues PROVE Ordered(cache_'[r], Known(r)', stamp')
  <2>1. CASE r = q
    <3>1. cache_'[r] = Tail(cache_[q])
      BY <2>1 DEF TypeOK
    <3>2. Ordered(Tail(cache_[q]), files \ {x}, stamp)
      BY <1>1, OrderedTail
    <3>3. QED
      BY <1>2, <2>1, <3>1, <3>2
  <2>2. CASE r # q
    <3>1. cache_'[r] = cache_[r]
      BY <2>2 DEF TypeOK
    <3>2. QED
      BY <1>1, <1>2, <2>2, <3>1
  <2>3. QED
    BY <2>1, <2>2
<1>4. ASSUME NEW u \in Threads, pc'[u] = "reading" PROVE \A y \in files : stamp[call'[u].item] <= stamp[y]
  <2>1. u = t /\ x \in files /\ call'[u].item = x
    BY <1>4
  <2>2. QED
    BY <1>1, <2>1, OldestTaken
<1>5. QED
  BY <1>3, <1>4 DEF Ages

\* The file that t has read is removed.
LEMMA AgesRemoved ==
  ASSUME TypeOK, Ages, NEW t \in Threads, pc[t] = "reading", \A u \in Threads \ {t} : pc[u] # "reading",
         NoReader', files' = files \ {call[t].item}, \A y \in files' : stamp'[y] = stamp[y],
         UNCHANGED <<clock, cache_>>
  PROVE  Ages'
<1> DEFINE x == call[t].item
<1>1. \A y \in files' : stamp'[y] <= clock'
  BY DEF Ages
<1>2. ASSUME NEW q \in Queues PROVE Ordered(cache_'[q], files', stamp')
  <2>1. /\ cache_[q] \in Seq(Items) /\ Ordered(cache_[q], Known(q), stamp)
        /\ Known(q) \in {files, files \ {x}}
    BY KnownFiles DEF TypeOK, Ages
  <2>2. files' \in SUBSET Known(q)
    BY <2>1
  <2>3. QED
    BY <2>1, <2>2, OrderedLess
<1>3. \A q \in Queues : Known(q)' = files'
  BY DEF NoReader, Known, Reads
<1>4. QED
  BY <1>1, <1>2, <1>3 DEF Ages, NoReader

\* The objects of qs lose their caches, and nobody is reading through them any more.
LEMMA AgesEmptied ==
  ASSUME TypeOK, Ages, NEW qs \in SUBSET Queues, UNCHANGED <<files, stamp, clock, call>>,
         \A q \in Queues : cache_'[q] = IF q \in qs THEN <<>> ELSE cache_[q],
         \A u \in Threads : IF ObjOf[u] \in qs THEN pc'[u] # "reading" ELSE pc'[u] = pc[u]
  PROVE  Ages'
<1>1. ASSUME NEW q \in Queues PROVE Ordered(cache_'[q], Known(q)', stamp')
  <2>1. CASE q \in qs
    <3>1. cache_'[q] = <<>>
      BY <2>1
    <3>2. QED
      BY <3>1, OrderedNone
  <2>2. CASE q \notin qs
    <3>1. Known(q)' = Known(q)
      <4>1. \A u \in Threads : Reads(u, q)' <=> Reads(u, q)
        BY <2>2 DEF Reads
      <4>2. QED
        BY <4>1 DEF Known
    <3>2. QED
      BY <2>2, <3>1 DEF Ages
  <2>3. QED
    BY <2>1, <2>2
<1>2. \A u \in Threads : pc'[u] = "reading" => pc[u] = "reading"
  OBVIOUS
<1>3. QED
  BY <1>1, <1>2 DEF Ages

\* A step that neither touches directory and caches nor who reads what.
LEMMA AgesQuiet ==
  ASSUME TypeOK, Ages, UNCHANGED <<files, stamp, cache_>>, clock' = clock \/ clock' = clock + 1,
         \A u \in Threads : /\ pc'[u] = "reading" <=> pc[u] = "reading"
                            /\ pc[u] = "reading" => call'[u] = call[u]
  PROVE  Ages'
<1>1. \A x \in files : stamp[x] \in Nat /\ stamp[x] <= clock /\ clock \in Nat
  BY SizesAssumption DEF TypeOK, Ages
<1>2. \A x \in files' : stamp'[x] <= clock'
  BY <1>1
<1>3. \A q \in Queues : Known(q)' = Known(q)
  BY DEF Known, Reads
<1>4. \A q \in Queues : Ordered(cache_'[q], Known(q)', stamp')
  BY <1>3 DEF Ages
<1>5. QED
  BY <1>2, <1>4 DEF Ages

(***************************************************************************)
(* Every step keeps the order of the caches, and removes an oldest file if *)
(* any.                                                                    *)
(***************************************************************************)
LEMMA AgesStep ==
  ASSUME Types, Safe, Ages, [Next]_vars
  PROVE  Ages' /\ \A x \in files \ files' : \A y \in files : stamp[x] <= stamp[y]
<1> DEFINE OldestOnly == \A x \in files \ files' : \A y \in files : stamp[x] <= stamp[y]
<1>0. /\ TypeOK /\ IsFiniteSet(files) /\ Exclusive /\ Bookkeeping /\ Handover
      /\ \A t \in Threads : ObjOf[t] \in Queues /\ Lock(t) = 1
      /\ pc \in [Threads -> Places] /\ call \in [Threads -> [op : BlockingOps \cup {"none"}, item : Items \cup {NoItem}]]
  BY NamesAssumption, OneMutex DEF Types, Safe, TypeOK, Places
<1>1. \A t \in Threads : pc[t] \in Granted => \A u \in Threads : pc[u] \in Granted => u = t
  BY <1>0, OneMutex
<1>2. holder[1] = NoThread => NoReader
  BY <1>0, OneMutex DEF NoReader, Granted
<1>3. ASSUME NEW t \in Threads, Block(t) \/ TimedOut(t) \/ Aborted(t) \/ WaitDone(t) \/ Grant(t)
      PROVE  Ages' /\ OldestOnly
  <2>1. (\E result \in BOOLEAN : Evaluate(t, result)) /\ UNCHANGED <<files, stamp, clock>>
        /\ holder[1] = NoThread
    BY <1>0, <1>3 DEF Block, TimedOut, Aborted, WaitDone, Grant, dirVars, CanLock
  <2>2. NoReader /\ \A q \in Queues : Ordered(cache_[q], files, stamp)
    BY <1>2, <2>1, AgesWithoutReader
  <2>3. PICK c \in Seq(Items) : cache_' = [cache_ EXCEPT ![ObjOf[t]] = c] /\ Ordered(c, files, stamp)
    BY <1>0, <2>1, <2>2, EvaluationOrdered
  <2>4. NoReader'
    <3>1. CASE \E p \in {pc, Notified(Lock(t))}, k \in Codes : Return(t, p, k)
      <4>1. PICK p \in {pc, Notified(Lock(t))}, k \in Codes : Return(t, p, k)
        BY <3>1
      <4>2. holder[Lock(t)] \in {t, NoThread} /\ k \in Codes \cup {"exception"}
        BY <1>0, <2>1
      <4>3. \A u \in Threads : pc'[u] \in Granted => pc'[u] = pc[u]
        BY <1>0, <4>1, <4>2, ReturnTypes
      <4>4. QED
        BY <2>2, <4>3 DEF NoReader, Granted
    <3>2. CASE Block(t) \/ Grant(t)
      BY <1>0, <2>2, <3>2 DEF Block, Grant, NoReader
    <3>3. QED
      BY <1>3, <3>1, <3>2 DEF TimedOut, Aborted, WaitDone, Codes
  <2>5. QED
    BY <1>0, <2>1, <2>2, <2>3, <2>4, AgesKept
<1>4. ASSUME NEW t \in Threads, OpenFile(t) \/ CloseFile(t) PROVE Ages' /\ OldestOnly
  <2>1. /\ pc[t] \in {"granted", "writing"} /\ call[t].op \in PushOps
        /\ stamp' = [stamp EXCEPT ![call[t].item] = clock] /\ UNCHANGED <<clock, cache_>>
        /\ pc' = [pc EXCEPT ![t] = "writing"] \/ pc' = [pc EXCEPT ![t] = "done"]
    BY <1>0, <1>4 DEF OpenFile, CloseFile, objVars, TypeOK
  <2>2. call[t].item \in Items /\ call[t].item \notin accepted
    BY <1>0, <2>1 DEF TypeOK, Bookkeeping, Pending, Granted
  <2>3. files' = files \cup {call[t].item}
    <3>1. CASE OpenFile(t)
      BY <3>1 DEF OpenFile
    <3>2. CASE CloseFile(t)
      BY <1>0, <3>2 DEF CloseFile, Exclusive, Bookkeeping
    <3>3. QED
      BY <1>4, <3>1, <3>2
  <2>4. \A q \in Queues : call[t].item \notin Range(cache_[q])
    BY <1>0, <2>2 DEF Bookkeeping
  <2>5. NoReader /\ NoReader'
    BY <1>0, <1>1, <2>1 DEF NoReader, Granted
  <2>6. QED
    BY <1>0, <2>1, <2>2, <2>3, <2>4, <2>5, AgesStamped
<1>5. ASSUME NEW t \in Threads, ReadFile(t) PROVE Ages' /\ OldestOnly
  <2>1. PICK q \in Queues : q = ObjOf[t]
    BY <1>0
  <2>2. PICK x \in files : x = Head(cache_[q])
    BY <1>5, <2>1 DEF ReadFile
  <2>3. /\ pc[t] = "granted" /\ cache_[q] # <<>> /\ cache_' = [cache_ EXCEPT ![q] = Tail(cache_[q])]
        /\ pc' = [pc EXCEPT ![t] = "reading"] /\ call' = [call EXCEPT ![t].item = x]
        /\ UNCHANGED <<files, stamp, clock>>
    BY <1>5, <2>1, <2>2 DEF ReadFile, dirVars
  <2>4. NoReader /\ pc'[t] = "reading" /\ \A u \in Threads \ {t} : pc'[u] # "reading"
    BY <1>0, <1>1, <2>3 DEF NoReader, Granted
  <2>5. call'[t].item = x
    BY <1>0, <2>3
  <2>6. QED
    BY <1>0, <2>1, <2>2, <2>3, <2>4, <2>5, AgesTail
<1>6. ASSUME NEW t \in Threads, RemoveFile(t) PROVE Ages' /\ OldestOnly
  <2>1. /\ pc[t] = "reading" /\ pc' = [pc EXCEPT ![t] = "done"] /\ files' = files \ {call[t].item}
        /\ stamp' = [stamp EXCEPT ![call[t].item] = 0] /\ UNCHANGED <<clock, cache_>>
    BY <1>6 DEF RemoveFile, objVars
  <2>2. NoReader' /\ \A u \in Threads \ {t} : pc[u] # "reading"
    BY <1>0, <1>1, <2>1 DEF NoReader, Granted
  <2>3. \A y \in files' : stamp'[y] = stamp[y]
    BY <1>0, <2>1 DEF TypeOK
  <2>4. Ages'
    BY <1>0, <2>1, <2>2, <2>3, AgesRemoved
  <2>5. OldestOnly
    BY <2>1 DEF Ages
  <2>6. QED
    BY <2>4, <2>5
<1>7. ASSUME NEW t \in Threads, PopThrows(t) PROVE Ages' /\ OldestOnly
  <2>1. PICK q \in Queues : q = ObjOf[t]
    BY <1>0
  <2>2. /\ pc[t] = "granted" /\ cache_[q] # <<>> /\ cache_' = [cache_ EXCEPT ![q] = Tail(cache_[q])]
        /\ Head(cache_[q]) \notin files /\ UNCHANGED <<files, stamp, clock>>
        /\ pc' = [pc EXCEPT ![t] = "idle"]
    BY <1>7, <2>1 DEF PopThrows, Return, dirVars
  <2>3. NoReader /\ pc'[t] # "reading" /\ \A u \in Threads \ {t} : pc'[u] # "reading"
    BY <1>0, <1>1, <2>2 DEF NoReader, Granted
  <2>4. QED
    BY <1>0, <2>1, <2>2, <2>3, AgesTail
<1>8. ASSUME NEW t \in Threads, Refresh(t) PROVE Ages' /\ OldestOnly
  <2>1. PICK q \in Queues : q = ObjOf[t]
    BY <1>0
  <2>2. UNCHANGED <<files, stamp, clock, pc>> /\ holder[1] = NoThread
    BY <1>0, <1>8 DEF Refresh, dirVars, CanLock
  <2>3. PICK c \in Listings \cup EmptyNolock(q) : cache_' = [cache_ EXCEPT ![q] = c]
    BY <1>8, <2>1 DEF Refresh
  <2>4. NoReader /\ NoReader' /\ Ordered(cache_[q], files, stamp)
    BY <1>2, <2>2, AgesWithoutReader DEF NoReader
  <2>5. Ordered(c, files, stamp)
    BY <1>0, <2>4, OrderedCaches
  <2>6. QED
    BY <1>0, <2>2, <2>3, <2>4, <2>5, AgesKept
<1>9. ASSUME NEW qs \in SUBSET Queues, Die(qs) PROVE Ages' /\ OldestOnly
  <2>1. UNCHANGED <<files, stamp, clock, call>>
    BY <1>9 DEF Die, Dead, dirVars
  <2>2. /\ \A q \in Queues : cache_'[q] = IF q \in qs THEN <<>> ELSE cache_[q]
        /\ \A u \in Threads : IF ObjOf[u] \in qs THEN pc'[u] = "crashed" ELSE pc'[u] = pc[u]
    BY <1>9 DEF Die, Dead
  <2>3. QED
    BY <1>0, <2>1, <2>2, AgesEmptied
<1>10. ASSUME NEW q \in Queues, Reopen(q) PROVE Ages' /\ OldestOnly
  <2>1. UNCHANGED <<files, stamp, clock, call>>
    BY <1>10 DEF Reopen, dirVars, callVars
  <2>2. /\ \A r \in Queues : cache_'[r] = IF r \in {q} THEN <<>> ELSE cache_[r]
        /\ \A u \in Threads : IF ObjOf[u] \in {q} THEN pc'[u] = "idle" ELSE pc'[u] = pc[u]
    BY <1>0, <1>10 DEF Reopen, TypeOK
  <2>3. QED
    BY <1>0, <2>1, <2>2, AgesEmptied
<1>11. ASSUME NEW t \in Threads, Finish(t) PROVE Ages' /\ OldestOnly
  <2>1. UNCHANGED <<files, stamp, clock, cache_, call>> /\ pc[t] = "done"
        /\ pc' = [Notified(1) EXCEPT ![t] = "idle"]
    BY <1>0, <1>11 DEF Finish, Return, dirVars, objVars
  <2>2. \A u \in Threads : pc'[u] = "reading" <=> pc[u] = "reading"
    BY <2>1 DEF Notified
  <2>3. QED
    BY <1>0, <2>1, <2>2, AgesQuiet
<1>12. ASSUME NEW t \in Threads,
              \/ \E op \in BlockingOps, x \in Items \cup {NoItem} : Enter(t, op, x)
              \/ Deadline(t) \/ SpuriousWakeup(t)
              \/ \E disable \in BOOLEAN : disable_deq(t, disable) \/ disable_enq(t, disable)
       PROVE  Ages' /\ OldestOnly
  <2>1. UNCHANGED <<files, stamp, clock, cache_>>
    BY <1>12 DEF Enter, Deadline, SpuriousWakeup, disable_deq, disable_enq, dirVars, objVars
  <2>2. \A u \in Threads : /\ pc'[u] = "reading" <=> pc[u] = "reading"
                           /\ pc[u] = "reading" => call'[u] = call[u]
    BY <1>0, <1>12 DEF Enter, Deadline, SpuriousWakeup, disable_deq, disable_enq, Notified, callVars
  <2>3. QED
    BY <1>0, <2>1, <2>2, AgesQuiet
<1>13. CASE Tick \/ UNCHANGED vars
  <2>1. UNCHANGED <<files, stamp, cache_, pc, call>> /\ clock' \in {clock, clock + 1}
    BY <1>13 DEF Tick, vars, dirVars, objVars, callVars
  <2>2. QED
    BY <1>0, <2>1, AgesQuiet
<1>14. QED
  BY <1>3, <1>4, <1>5, <1>6, <1>7, <1>8, <1>9, <1>10, <1>11, <1>12, <1>13, NextCases

(***************************************************************************)
(* The name of the lock is never put back.                                 *)
(***************************************************************************)
LEMMA OneLockBefore == ASSUME Types, [Next]_vars, OneLock' PROVE OneLock
<1>1. lockName \in Nat /\ lockName >= 1
  BY SizesAssumption DEF Types, TypeOK, Locks
<1>2. lockName' = lockName \/ lockName' = lockName + 1
  <2>1. ASSUME NEW q \in Queues, Reopen(q) PROVE lockName' = lockName \/ lockName' = lockName + 1
    BY <2>1 DEF Reopen
  <2>2. ASSUME NEW t \in Threads,
               \/ \E op \in BlockingOps, x \in Items \cup {NoItem} : Enter(t, op, x)
               \/ Block(t) \/ TimedOut(t) \/ Aborted(t) \/ WaitDone(t) \/ Grant(t)
               \/ OpenFile(t) \/ CloseFile(t) \/ ReadFile(t) \/ RemoveFile(t) \/ Finish(t)
               \/ PopThrows(t) \/ Deadline(t) \/ SpuriousWakeup(t) \/ Refresh(t)
               \/ \E disable \in BOOLEAN : disable_deq(t, disable) \/ disable_enq(t, disable)
        PROVE  lockName' = lockName
    BY <2>2 DEF Enter, Block, TimedOut, Aborted, WaitDone, Grant, OpenFile, CloseFile, ReadFile, RemoveFile,
       Finish, PopThrows, Deadline, SpuriousWakeup, Refresh, disable_deq, disable_enq, lockVars
  <2>3. CASE Tick \/ UNCHANGED vars \/ \E qs \in SUBSET Queues : Die(qs)
    BY <2>3 DEF Die, Dead, Tick, vars, lockVars
  <2>4. QED
    BY <2>1, <2>2, <2>3, NextCases
<1>3. QED
  BY <1>1, <1>2 DEF OneLock

(***************************************************************************)
(* Items leave the directory in the order of the seconds they were written *)
(* in, whichever object takes them.                                        *)
(***************************************************************************)
THEOREM OldestLeavesFirst == Spec => OldestSecondFirst
<1>1. Init => (OneLock => Ages)
  BY OrderedNone DEF Init, Ages, Known
<1>2. Inv /\ (OneLock => Ages) /\ [Next]_vars => (OneLock => Ages)'
  BY AgesStep, OneLockBefore DEF Inv
<1>3. Inv /\ (OneLock => Ages) /\ [Next]_vars
        => [OneLock => \A x \in files \ files' : \A y \in files : stamp[x] <= stamp[y]]_vars
  BY AgesStep DEF Inv
<1>4. QED
  BY <1>1, <1>2, <1>3, Invariant, PTL DEF Spec, OldestSecondFirst
================================================================================
