-------------------------- MODULE SimpleQueueProofs --------------------------
(***************************************************************************)
(* Theorems about SimpleQueue, for every set of threads, items, capacities *)
(* and every assignment of operations to threads.                          *)
(***************************************************************************)
EXTENDS SimpleQueue, SeqLemmas, TLAPS

(***************************************************************************)
(* The actions of one thread, as the case split every step proof uses.     *)
(***************************************************************************)
LEMMA NextCases ==
  ASSUME Next
  PROVE  \E t \in Threads :
            \/ \E op \in BlockingOps, x \in Items \cup {NoItem} : Enter(t, op, x)
            \/ Block(t) \/ Push(t) \/ Pop(t) \/ WaitEnq(t) \/ WaitDeq(t)
            \/ Aborted(t) \/ TimedOut(t)
            \/ Deadline(t) \/ SpuriousWakeup(t)
            \/ \E disable \in BOOLEAN : disable_deq(t, disable)
            \/ \E disable \in BOOLEAN : disable_enq(t, disable)
            \/ \E maxsize \in MaxSizes : set_maxsize(t, maxsize)
            \/ SizeFirstLoad(t) \/ SizeSecondLoad(t)
BY DEF Next, Run

(***************************************************************************)
(* Initially the types are right.                                          *)
(***************************************************************************)
LEMMA TypeInit == Init => TypeOK
BY DEF Init, TypeOK, Outcome, Codes, Where, Inside

(***************************************************************************)
(* Every action keeps the types, and keeps the place of a thread           *)
(* consistent with the operation it calls.                                 *)
(***************************************************************************)
LEMMA TypeStep == TypeOK /\ [Next]_vars => TypeOK'
<1> SUFFICES ASSUME TypeOK, [Next]_vars PROVE TypeOK'
  OBVIOUS
<1> USE ItemsAssumption DEF TypeOK, Where, Inside, Codes
<1>1. CASE UNCHANGED vars
  BY <1>1 DEF vars, queueVars, historyVars, Outcome
<1>2. CASE Next
  <2>1. PICK t \in Threads :
            \/ \E op \in BlockingOps, x \in Items \cup {NoItem} : Enter(t, op, x)
            \/ Block(t) \/ Push(t) \/ Pop(t) \/ WaitEnq(t) \/ WaitDeq(t)
            \/ Aborted(t) \/ TimedOut(t)
            \/ Deadline(t) \/ SpuriousWakeup(t)
            \/ \E disable \in BOOLEAN : disable_deq(t, disable)
            \/ \E disable \in BOOLEAN : disable_enq(t, disable)
            \/ \E maxsize \in MaxSizes : set_maxsize(t, maxsize)
            \/ SizeFirstLoad(t) \/ SizeSecondLoad(t)
    BY <1>2, NextCases
  <2>2. ASSUME NEW op \in BlockingOps, NEW x \in Items \cup {NoItem}, Enter(t, op, x)
        PROVE  TypeOK'
    <3>1. t \in Threads /\ pc[t] = "idle" /\ ~late[t]
      BY <2>2 DEF Enter
    <3>2. /\ pc' = [pc EXCEPT ![t] = "ready"]
          /\ call' = [call EXCEPT ![t] = [op |-> op, item |-> x]]
          /\ ec' = [ec EXCEPT ![t] = "success"]
          /\ UNCHANGED <<q_, maxsize_, enq_enabled_, deq_enabled_, late, sized, sent, received>>
          /\ op \in PushOps <=> x \in Items
      BY <2>2 DEF Enter, queueVars, historyVars
    <3>3. call' \in [Threads -> Outcome]
      BY <3>1, <3>2 DEF Outcome
    <3>4. \A u \in Threads : u # t => pc'[u] = pc[u] /\ call'[u] = call[u]
      BY <3>1, <3>2
    <3>5. call'[t].op = op /\ call'[t].item = x
      BY <3>1, <3>2
    <3>6. QED
      BY <3>1, <3>2, <3>3, <3>4, <3>5
  <2>3. CASE Block(t)
    BY <2>3 DEF Block, queueVars, historyVars
  <2>4. CASE Push(t)
    BY <2>4 DEF Push, Succeed, Notified, Contends
  <2>5. CASE Pop(t)
    <3>1. q_ # <<>>
      BY <2>5 DEF Pop, DeqReady, Empty
    <3>2. Head(q_) \in Items /\ Tail(q_) \in Seq(Items)
      BY <3>1
    <3>3. call' \in [Threads -> Outcome]
      <4>1. [call[t] EXCEPT !.item = Head(q_)] \in Outcome
        BY <3>2 DEF Outcome
      <4>2. call' = [call EXCEPT ![t] = [call[t] EXCEPT !.item = Head(q_)]]
        BY <2>5 DEF Pop
      <4>3. QED
        BY <4>1, <4>2
    <3>4. received' \in Seq(Items)
      BY <2>5, <3>2 DEF Pop
    <3>5. \A u \in Threads : u # t => call'[u] = call[u]
      BY <2>5 DEF Pop
    <3>6. /\ pc' = [Notified EXCEPT ![t] = "idle"]
          /\ ec' = [ec EXCEPT ![t] = "success"]
          /\ late' = [late EXCEPT ![t] = FALSE]
          /\ UNCHANGED <<maxsize_, enq_enabled_, deq_enabled_, sized, sent>>
          /\ q_' = Tail(q_)
      BY <2>5 DEF Pop, Succeed
    <3>7. QED
      BY <3>2, <3>3, <3>4, <3>5, <3>6 DEF Notified
  <2>6. CASE WaitEnq(t) \/ WaitDeq(t)
    BY <2>6, ZenonT(60) DEF WaitEnq, WaitDeq, Succeed, Notified, historyVars
  <2>7. CASE Aborted(t) \/ TimedOut(t)
    BY <2>7, ZenonT(60) DEF Aborted, TimedOut, Fail, queueVars, historyVars
  <2>8. CASE Deadline(t)
    BY <2>8 DEF Deadline, queueVars, historyVars
  <2>9. CASE SpuriousWakeup(t)
    BY <2>9 DEF SpuriousWakeup, queueVars, historyVars
  <2>10. ASSUME NEW disable \in BOOLEAN, disable_deq(t, disable) \/ disable_enq(t, disable)
         PROVE  TypeOK'
    BY <2>10, ZenonT(60) DEF disable_deq, disable_enq, CallsControl, Notified, historyVars
  <2>11. ASSUME NEW maxsize \in MaxSizes, set_maxsize(t, maxsize)
         PROVE  TypeOK'
    BY <2>11 DEF set_maxsize, CallsControl, Notified, historyVars
  <2>12. CASE SizeFirstLoad(t)
    <3>1. pc[t] = "idle" /\ ~late[t]
      BY <2>12 DEF SizeFirstLoad
    <3>2. /\ pc' \in [Threads -> Where] /\ pc'[t] \notin Inside
          /\ \A u \in Threads : u # t => pc'[u] = pc[u]
      BY <2>12 DEF SizeFirstLoad
    <3>3. sized' \in [Threads -> Nat]
      <4>1. Len(sent) \in Nat /\ Len(received) \in Nat
        OBVIOUS
      <4>2. QED
        BY <2>12, <4>1 DEF SizeFirstLoad
    <3>4. UNCHANGED <<q_, maxsize_, enq_enabled_, deq_enabled_, late, call, ec, sent, received>>
      BY <2>12 DEF SizeFirstLoad, queueVars, historyVars
    <3>5. QED
      BY <3>1, <3>2, <3>3, <3>4
  <2>13. CASE SizeSecondLoad(t)
    <3>1. pc[t] \in {"start_loaded", "finish_loaded"} /\ ~late[t]
      BY <2>13 DEF SizeSecondLoad
    <3>2. /\ pc' \in [Threads -> Where] /\ pc'[t] = "idle"
          /\ \A u \in Threads : u # t => pc'[u] = pc[u]
      BY <2>13 DEF SizeSecondLoad
    <3>3. Len(sent) \in Nat /\ Len(received) \in Nat /\ sized[t] \in Nat
      OBVIOUS
    <3>4. (Len(sent) - sized[t]) % SizeMod \in Nat /\ (sized[t] - Len(received)) % SizeMod \in Nat
      BY <3>3, SizeModAssumption
    <3>5. sized' \in [Threads -> Nat]
      BY <2>13, <3>4 DEF SizeSecondLoad
    <3>6. UNCHANGED <<q_, maxsize_, enq_enabled_, deq_enabled_, late, call, ec, sent, received>>
      BY <2>13 DEF SizeSecondLoad, queueVars, historyVars
    <3>7. QED
      BY <3>1, <3>2, <3>5, <3>6
  <2>14. QED
    BY <2>1, <2>2, <2>3, <2>4, <2>5, <2>6, <2>7, <2>8, <2>9, <2>10, <2>11, <2>12, <2>13
<1>3. QED
  BY <1>1, <1>2 DEF vars

(***************************************************************************)
(* The queue, the calls and the settings have the types the code gives     *)
(* them, and a thread blocks only in a blocking operation.                 *)
(***************************************************************************)
THEOREM TypeCorrect == Spec => []TypeOK
BY TypeInit, TypeStep, PTL DEF Spec

(***************************************************************************)
(* No thread is left blocked on cond_ with its predicate true: the actions *)
(* that can make a predicate true notify every waiter, and the others      *)
(* leave both predicates alone.                                            *)
(***************************************************************************)
LEMMA WakeupStep == TypeOK /\ NoLostWakeup /\ [Next]_vars => NoLostWakeup'
<1> SUFFICES ASSUME TypeOK, NoLostWakeup, [Next]_vars PROVE NoLostWakeup'
  OBVIOUS
<1>1. /\ pc \in [Threads -> Where]
      /\ \A u \in Threads : pc[u] = "waiting" => ~Ready(u)
      /\ \A u \in Threads : call[u] \in Outcome
  BY DEF TypeOK, NoLostWakeup
<1>2. SUFFICES ASSUME NEW u \in Threads, pc'[u] = "waiting" PROVE ~Ready(u)'
  BY DEF NoLostWakeup
\* A step that notifies leaves nobody waiting.
<1>3. ASSUME NEW t \in Threads, pc' = Notified \/ pc' = [Notified EXCEPT ![t] = "idle"]
      PROVE  FALSE
  BY <1>2, <1>3 DEF Notified
\* A step that leaves the queue, its settings and the call of u alone leaves
\* the predicate of u alone.
<1>4. ASSUME UNCHANGED queueVars, call'[u].op = call[u].op, pc[u] = "waiting"
      PROVE  ~Ready(u)'
  BY <1>1, <1>4 DEF queueVars, Ready, EnqReady, DeqReady, Full, Empty
<1>5. CASE UNCHANGED vars
  BY <1>2, <1>4, <1>5 DEF vars
<1>6. CASE Next
  <2>1. PICK t \in Threads :
            \/ \E op \in BlockingOps, x \in Items \cup {NoItem} : Enter(t, op, x)
            \/ Block(t) \/ Push(t) \/ Pop(t) \/ WaitEnq(t) \/ WaitDeq(t)
            \/ Aborted(t) \/ TimedOut(t)
            \/ Deadline(t) \/ SpuriousWakeup(t)
            \/ \E disable \in BOOLEAN : disable_deq(t, disable)
            \/ \E disable \in BOOLEAN : disable_enq(t, disable)
            \/ \E maxsize \in MaxSizes : set_maxsize(t, maxsize)
            \/ SizeFirstLoad(t) \/ SizeSecondLoad(t)
    BY <1>6, NextCases
  <2>2. ASSUME NEW op \in BlockingOps, NEW x \in Items \cup {NoItem}, Enter(t, op, x)
        PROVE  ~Ready(u)'
    <3>1. u # t /\ pc[u] = "waiting" /\ call'[u] = call[u] /\ UNCHANGED queueVars
      BY <1>1, <1>2, <2>2 DEF Enter
    <3>2. QED
      BY <3>1, <1>4
  <2>3. CASE Block(t)
    <3>1. CASE u = t
      BY <2>3, <3>1 DEF Block, Ready, EnqReady, DeqReady, Full, Empty, queueVars
    <3>2. CASE u # t
      BY <1>1, <1>2, <1>4, <2>3, <3>2 DEF Block
    <3>3. QED
      BY <3>1, <3>2
  <2>4. CASE Push(t) \/ Pop(t) \/ WaitEnq(t) \/ WaitDeq(t)
    BY <1>3, <2>4 DEF Push, Pop, WaitEnq, WaitDeq, Succeed
  <2>5. CASE Aborted(t) \/ TimedOut(t)
    BY <1>1, <1>2, <1>4, <2>5 DEF Aborted, TimedOut, Fail
  <2>6. CASE Deadline(t) \/ SpuriousWakeup(t)
    BY <1>1, <1>2, <1>4, <2>6 DEF Deadline, SpuriousWakeup
  <2>7. ASSUME NEW disable \in BOOLEAN, disable_deq(t, disable) \/ disable_enq(t, disable)
        PROVE  ~Ready(u)'
    BY <1>3, <2>7 DEF disable_deq, disable_enq
  <2>8. ASSUME NEW maxsize \in MaxSizes, set_maxsize(t, maxsize)
        PROVE  ~Ready(u)'
    BY <1>3, <2>8 DEF set_maxsize
  <2>9. CASE SizeFirstLoad(t) \/ SizeSecondLoad(t)
    BY <1>1, <1>2, <1>4, <2>9 DEF SizeFirstLoad, SizeSecondLoad
  <2>10. QED
    BY <2>1, <2>2, <2>3, <2>4, <2>5, <2>6, <2>7, <2>8, <2>9
<1>7. QED
  BY <1>5, <1>6

(***************************************************************************)
(* A blocked thread's predicate is false, in every reachable state.        *)
(***************************************************************************)
THEOREM NoWakeupIsLost == Spec => []NoLostWakeup
<1>1. Init => NoLostWakeup
  BY DEF Init, NoLostWakeup
<1>2. QED
  BY <1>1, TypeCorrect, WakeupStep, PTL DEF Spec

(***************************************************************************)
(* Only enq and timed_enq, deq and timed_deq move items.                   *)
(***************************************************************************)
LEMMA TrafficFrame ==
  ASSUME [Next]_vars
  PROVE  \/ \E t \in Threads : Push(t) \/ Pop(t)
         \/ UNCHANGED <<q_, historyVars>>
<1>1. CASE UNCHANGED vars
  BY <1>1 DEF vars, queueVars
<1>2. CASE Next
  <2>1. PICK t \in Threads :
            \/ \E op \in BlockingOps, x \in Items \cup {NoItem} : Enter(t, op, x)
            \/ Block(t) \/ Push(t) \/ Pop(t) \/ WaitEnq(t) \/ WaitDeq(t)
            \/ Aborted(t) \/ TimedOut(t)
            \/ Deadline(t) \/ SpuriousWakeup(t)
            \/ \E disable \in BOOLEAN : disable_deq(t, disable)
            \/ \E disable \in BOOLEAN : disable_enq(t, disable)
            \/ \E maxsize \in MaxSizes : set_maxsize(t, maxsize)
            \/ SizeFirstLoad(t) \/ SizeSecondLoad(t)
    BY <1>2, NextCases
  <2>2. QED
    BY <2>1 DEF Enter, Block, WaitEnq, WaitDeq, Succeed, Aborted, TimedOut, Fail,
                Deadline, SpuriousWakeup, disable_deq, disable_enq, set_maxsize,
                CallsControl, SizeFirstLoad, SizeSecondLoad, queueVars
<1>3. QED
  BY <1>1, <1>2

\* Every step keeps the accepted items equal to the delivered ones followed by the contents.
LEMMA DeliveryStep == TypeOK /\ Delivery /\ [Next]_vars => Delivery'
<1> SUFFICES ASSUME TypeOK, Delivery, [Next]_vars PROVE Delivery'
  OBVIOUS
<1>1. q_ \in Seq(Items) /\ received \in Seq(Items) /\ sent = received \o q_
  BY DEF TypeOK, Delivery
<1>2. ASSUME NEW t \in Threads, Push(t) PROVE Delivery'
  <2>1. call[t].item \in Items
    BY <1>2 DEF Push, Contends, TypeOK, Inside
  <2>2. /\ sent' = Append(received \o q_, call[t].item)
        /\ received' = received /\ q_' = Append(q_, call[t].item)
    BY <1>1, <1>2 DEF Push
  <2>3. AppendOf(ConcatOf(received, q_), call[t].item) = ConcatOf(received, AppendOf(q_, call[t].item))
    BY <1>1, <2>1, PushJoined
  <2>4. QED
    BY <2>2, <2>3, Zenon DEF Delivery, AppendOf, ConcatOf
<1>3. ASSUME NEW t \in Threads, Pop(t) PROVE Delivery'
  <2>1. /\ q_ # <<>> /\ sent' = sent
        /\ received' = Append(received, Head(q_)) /\ q_' = Tail(q_)
    BY <1>3 DEF Pop, DeqReady, Empty
  <2>2. QED
    BY <1>1, <2>1, MoveHead DEF Delivery
<1>4. CASE UNCHANGED <<q_, historyVars>>
  BY <1>1, <1>4 DEF Delivery, historyVars
<1>5. QED
  BY <1>2, <1>3, <1>4, TrafficFrame

(***************************************************************************)
(* Every accepted item is delivered exactly once, in the order accepted.   *)
(***************************************************************************)
THEOREM DeliveredOnceInOrder == Spec => []Delivery
<1>1. Init => Delivery
  BY DEF Init, Delivery
<1>2. QED
  BY <1>1, TypeCorrect, DeliveryStep, PTL DEF Spec

(***************************************************************************)
(* The queue grows only below the capacity in force and through an enabled *)
(* enq side, and shrinks only through an enabled deq side.                 *)
(***************************************************************************)
THEOREM SettingsRespected == Spec => RespectsSettings
<1>1. TypeOK /\ [Next]_vars =>
        [ /\ Len(q_') > Len(q_) => enq_enabled_ /\ Len(q_') <= maxsize_
          /\ Len(q_') < Len(q_) => deq_enabled_ ]_vars
  <2> SUFFICES ASSUME TypeOK, [Next]_vars
               PROVE  /\ Len(q_') > Len(q_) => enq_enabled_ /\ Len(q_') <= maxsize_
                      /\ Len(q_') < Len(q_) => deq_enabled_
    OBVIOUS
  <2>1. q_ \in Seq(Items) /\ Len(q_) \in Nat /\ maxsize_ \in Nat
    BY MaxSizesAssumption DEF TypeOK
  <2>2. ASSUME NEW t \in Threads, Push(t)
        PROVE  enq_enabled_ /\ Len(q_') <= maxsize_ /\ Len(q_') = Len(q_) + 1
    <3>1. enq_enabled_ /\ ~Full /\ q_' = Append(q_, call[t].item) /\ call[t].item \in Items
      BY <2>2 DEF Push, EnqReady, Contends, TypeOK, Inside
    <3>2. QED
      BY <2>1, <3>1 DEF Full
  <2>3. ASSUME NEW t \in Threads, Pop(t)
        PROVE  deq_enabled_ /\ Len(q_') = Len(q_) - 1
    BY <2>1, <2>3 DEF Pop, DeqReady, Empty
  <2>4. CASE UNCHANGED <<q_, historyVars>>
    BY <2>1, <2>4
  <2>5. QED
    BY <2>1, <2>2, <2>3, <2>4, TrafficFrame
<1>2. QED
  BY <1>1, TypeCorrect, PTL DEF Spec, RespectsSettings

-----------------------------------------------------------------------------
(***************************************************************************)
(* The refinement.  A call is pending in BoundedFifo while its thread is   *)
(* inside a blocking call here, wherever in it the thread is.              *)
(***************************************************************************)
Pending == {t \in Threads : pc[t] \in Inside}

(***************************************************************************)
(* The operations are the same in both modules.                            *)
(***************************************************************************)
LEMMA SameOps ==
  /\ Fifo!BlockingOps = BlockingOps /\ Fifo!TimedOps = TimedOps
  /\ Fifo!EnqOps = EnqOps /\ Fifo!DeqOps = DeqOps
  /\ Fifo!PushOps = PushOps /\ Fifo!PopOps = PopOps
  /\ Fifo!WaitEnqOps = WaitEnqOps /\ Fifo!WaitDeqOps = WaitDeqOps
BY DEF Fifo!BlockingOps, BlockingOps, Fifo!TimedOps, TimedOps,
       Fifo!EnqOps, EnqOps, Fifo!DeqOps, DeqOps, Fifo!PushOps, PushOps,
       Fifo!PopOps, PopOps, Fifo!WaitEnqOps, WaitEnqOps, Fifo!WaitDeqOps, WaitDeqOps

(***************************************************************************)
(* The container holds what the two histories say it holds.                *)
(***************************************************************************)
LEMMA ContentsAreHistory ==
  ASSUME TypeOK, Delivery
  PROVE  /\ Fifo!Stored = Len(q_) /\ Len(q_) \in Nat
         /\ Empty <=> ~(Fifo!Stored > 0)
         /\ ~Empty => sent[Len(received) + 1] = Head(q_)
<1>1. q_ \in Seq(Items) /\ received \in Seq(Items) /\ sent = received \o q_
  BY DEF TypeOK, Delivery
<1>2. Len(sent) = Len(received) + Len(q_) /\ Len(received) \in Nat /\ Len(q_) \in Nat
  BY <1>1, ConcatProperties
<1>3. ASSUME ~Empty PROVE sent[Len(received) + 1] = Head(q_)
  <2>1. Len(q_) >= 1 /\ Head(q_) = q_[1]
    BY <1>1, <1>2, <1>3, EmptySeq DEF Empty
  <2>2. \A i \in 1 .. Len(received) + Len(q_) :
           sent[i] = IF i <= Len(received) THEN received[i] ELSE q_[i - Len(received)]
    BY <1>1, ConcatProperties
  <2>3. QED
    BY <1>2, <2>1, <2>2
<1>4. Empty <=> Len(q_) = 0
  BY <1>1 DEF Empty
<1>5. QED
  BY <1>2, <1>3, <1>4 DEF Fifo!Stored

(***************************************************************************)
(* The predicate passed to the condition variable is the condition under   *)
(* which BoundedFifo lets a call finish without waiting.                   *)
(***************************************************************************)
LEMMA PredicateIsPossible ==
  ASSUME TypeOK, Delivery, NEW t \in Threads, pc[t] \in Inside
  PROVE  /\ Fifo!Open(t) <=> Enabled(t)
         /\ Fifo!Possible(t) <=> Ready(t)
<1>1. call[t].op \in EnqOps \/ call[t].op \in DeqOps
  BY DEF TypeOK, BlockingOps
<1>2. ~(call[t].op \in EnqOps /\ call[t].op \in DeqOps)
  BY DEF EnqOps, DeqOps, PushOps, PopOps, WaitEnqOps, WaitDeqOps
<1>3. Fifo!Open(t) <=> Enabled(t)
  BY SameOps DEF Fifo!Open, Enabled
<1>4. Fifo!Stored < maxsize_ <=> ~Full
  BY ContentsAreHistory, MaxSizesAssumption DEF Full, TypeOK
<1>5. Fifo!Stored > 0 <=> ~Empty
  BY ContentsAreHistory
<1>6. QED
  BY <1>1, <1>2, <1>3, <1>4, <1>5, SameOps
     DEF Fifo!Possible, Ready, EnqReady, DeqReady, Enabled

\* An empty simple_queue is an empty channel.
LEMMA FifoInit == Init => Fifo!Init
BY DEF Init, Fifo!Init, Inside

(***************************************************************************)
(* How each action moves the set of pending calls.                         *)
(***************************************************************************)
LEMMA PendingStep ==
  ASSUME TypeOK, NEW t \in Threads
  PROVE  /\ pc' = [Notified EXCEPT ![t] = "idle"] => Pending' = Pending \ {t}
         /\ pc' = [pc EXCEPT ![t] = "idle"] => Pending' = Pending \ {t}
         /\ pc' = Notified => Pending' = Pending
         /\ \A w \in Inside : pc' = [pc EXCEPT ![t] = w] => Pending' = Pending \cup {t}
BY DEF TypeOK, Pending, Notified, Inside

\* Every step of the code is a step of the channel, or none of it.
LEMMA FifoStep ==
  TypeOK /\ Delivery /\ [Next]_vars => [Fifo!Next]_(Fifo!vars)
<1> SUFFICES ASSUME TypeOK, Delivery, [Next]_vars PROVE [Fifo!Next]_(Fifo!vars)
  OBVIOUS
<1>1. UNCHANGED <<sent, received, maxsize_, enq_enabled_, deq_enabled_, Pending, call, ec>>
        => UNCHANGED Fifo!vars
  BY DEF Fifo!vars, Pending
<1>2. CASE UNCHANGED vars
  BY <1>1, <1>2 DEF vars, queueVars, historyVars, Pending
<1>3. CASE Next
  <2>1. PICK t \in Threads :
            \/ \E op \in BlockingOps, x \in Items \cup {NoItem} : Enter(t, op, x)
            \/ Block(t) \/ Push(t) \/ Pop(t) \/ WaitEnq(t) \/ WaitDeq(t)
            \/ Aborted(t) \/ TimedOut(t)
            \/ Deadline(t) \/ SpuriousWakeup(t)
            \/ \E disable \in BOOLEAN : disable_deq(t, disable)
            \/ \E disable \in BOOLEAN : disable_enq(t, disable)
            \/ \E maxsize \in MaxSizes : set_maxsize(t, maxsize)
            \/ SizeFirstLoad(t) \/ SizeSecondLoad(t)
    BY <1>3, NextCases
  \* It is enough that some action of t in BoundedFifo, or a stutter, results.
  <2>2. SUFFICES \/ \E op \in BlockingOps, x \in Items \cup {NoItem} : Fifo!Invoke(t, op, x)
                 \/ Fifo!Finish(t)
                 \/ Fifo!Control(t)
                 \/ UNCHANGED <<sent, received, maxsize_, enq_enabled_, deq_enabled_,
                                Pending, call, ec>>
    BY <1>1, <2>1, SameOps DEF Fifo!Next
  <2>3. ASSUME NEW op \in BlockingOps, NEW x \in Items \cup {NoItem}, Enter(t, op, x)
        PROVE  Fifo!Invoke(t, op, x)
    <3>1. Pending' = Pending \cup {t}
      BY <2>3, PendingStep DEF Enter, Inside
    <3>2. t \notin Pending
      BY <2>3 DEF Enter, Pending, Inside
    <3>3. QED
      BY <2>3, <3>1, <3>2, SameOps DEF Enter, Fifo!Invoke, Pending, queueVars, historyVars
  <2>4. ASSUME Contends(t) \/ pc[t] = "ready" \/ pc[t] = "expired"
        PROVE  /\ t \in Pending
               /\ Fifo!Open(t) <=> Enabled(t)
               /\ Fifo!Possible(t) <=> Ready(t)
    BY <2>4, PredicateIsPossible DEF Contends, Inside, Pending
  <2>5. CASE Push(t)
    <3>1. Fifo!Stored < maxsize_
      BY <2>5, ContentsAreHistory, MaxSizesAssumption DEF Push, EnqReady, Full, TypeOK
    <3>2. Pending' = Pending \ {t}
      BY <2>5, PendingStep DEF Push, Succeed
    <3>3. Fifo!Accept(t)
      BY <2>4, <2>5, <3>1, <3>2, SameOps DEF Push, Succeed, Fifo!Accept, Fifo!Return, Pending
    <3>4. QED
      BY <3>3 DEF Fifo!Finish
  <2>6. CASE Pop(t)
    <3>1. Fifo!Stored > 0 /\ Head(q_) = sent[Len(received) + 1]
      BY <2>6, ContentsAreHistory DEF Pop, DeqReady
    <3>2. Pending' = Pending \ {t}
      BY <2>6, PendingStep DEF Pop, Succeed
    <3>3. Fifo!Deliver(t)
      BY <2>4, <2>6, <3>1, <3>2, SameOps DEF Pop, Succeed, Fifo!Deliver, Fifo!Return, Pending
    <3>4. QED
      BY <3>3 DEF Fifo!Finish
  <2>7. CASE WaitEnq(t) \/ WaitDeq(t)
    <3>1. /\ call[t].op \in WaitEnqOps \cup WaitDeqOps
          /\ Contends(t) /\ Ready(t) /\ Enabled(t)
      BY <2>7 DEF WaitEnq, WaitDeq, Ready, Enabled, EnqOps, PushOps, WaitEnqOps, WaitDeqOps
    <3>2. Pending' = Pending \ {t}
      BY <2>7, PendingStep DEF WaitEnq, WaitDeq, Succeed
    <3>3. Fifo!Grant(t)
      BY <2>4, <2>7, <3>1, <3>2, SameOps
         DEF WaitEnq, WaitDeq, Succeed, Fifo!Grant, Fifo!Return, Pending, historyVars
    <3>4. QED
      BY <3>3 DEF Fifo!Finish
  <2>8. CASE Aborted(t)
    <3>1. Pending' = Pending \ {t}
      BY <2>8, PendingStep DEF Aborted, Fail
    <3>2. Fifo!Refuse(t)
      BY <2>4, <2>8, <3>1
         DEF Aborted, Fail, Fifo!Refuse, Fifo!Return, Pending, queueVars, historyVars
    <3>3. QED
      BY <3>2 DEF Fifo!Finish
  <2>9. CASE TimedOut(t)
    <3>1. Pending' = Pending \ {t}
      BY <2>9, PendingStep DEF TimedOut, Fail
    <3>2. call[t].op \in TimedOps
      BY <2>9 DEF TimedOut, TypeOK
    <3>3. Fifo!TimeOut(t)
      BY <2>4, <2>9, <3>1, <3>2, SameOps
         DEF TimedOut, Fail, Fifo!TimeOut, Fifo!Return, Pending, queueVars, historyVars
    <3>4. QED
      BY <3>3 DEF Fifo!Finish
  <2>10. CASE Block(t) \/ Deadline(t) \/ SpuriousWakeup(t)
    <3>1. pc[t] \in Inside /\ \E w \in Inside : pc' = [pc EXCEPT ![t] = w]
      BY <2>10 DEF Block, Deadline, SpuriousWakeup, Inside
    <3>2. Pending' = Pending
      BY <3>1, PendingStep DEF Pending
    <3>3. QED
      BY <2>10, <3>2 DEF Block, Deadline, SpuriousWakeup, queueVars, historyVars
  <2>11. ASSUME NEW disable \in BOOLEAN, disable_deq(t, disable) \/ disable_enq(t, disable)
         PROVE  Fifo!Control(t)
    <3>1. Pending' = Pending /\ t \notin Pending
      BY <2>11, PendingStep DEF disable_deq, disable_enq, CallsControl, Pending, Inside
    <3>2. QED
      BY <2>11, <3>1 DEF disable_deq, disable_enq, CallsControl, Fifo!Control, Pending, historyVars
  <2>12. ASSUME NEW maxsize \in MaxSizes, set_maxsize(t, maxsize)
         PROVE  Fifo!Control(t)
    <3>1. Pending' = Pending /\ t \notin Pending
      BY <2>12, PendingStep DEF set_maxsize, CallsControl, Pending, Inside
    <3>2. QED
      BY <2>12, <3>1 DEF set_maxsize, CallsControl, Fifo!Control, Pending, historyVars
  <2>13. CASE SizeFirstLoad(t) \/ SizeSecondLoad(t)
    <3>1. Pending' = Pending
      BY <2>13 DEF SizeFirstLoad, SizeSecondLoad, Pending, Inside, TypeOK
    <3>2. QED
      BY <2>13, <3>1 DEF SizeFirstLoad, SizeSecondLoad, queueVars, historyVars
  <2>14. QED
    BY <2>1, <2>3, <2>5, <2>6, <2>7, <2>8, <2>9, <2>10, <2>11, <2>12, <2>13
<1>4. QED
  BY <1>2, <1>3

(***************************************************************************)
(* simple_queue implements the bounded FIFO channel: every return of a     *)
(* blocking call is the one atomic step its caller was promised, and the   *)
(* waiting, waking and expiring in between is invisible.                   *)
(***************************************************************************)
THEOREM Implementation == Spec => ImplementsFifoSafety
BY FifoInit, FifoStep, TypeCorrect, DeliveredOnceInOrder, PTL
   DEF Spec, ImplementsFifoSafety, Fifo!Safety
=============================================================================
