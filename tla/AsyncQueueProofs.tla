--------------------------- MODULE AsyncQueueProofs ---------------------------
(***************************************************************************)
(* Theorems about AsyncQueue, for every set of senders, listeners and      *)
(* controllers, every capacity and every number of async calls.            *)
(***************************************************************************)
EXTENDS AsyncQueue, SeqLemmas, FiniteSetTheorems

(***************************************************************************)
(* The objects' bookkeeping, as far as the theorem needs it: an operation  *)
(* object exists while the implementation's thread is between taking it    *)
(* and dropping it.                                                        *)
(***************************************************************************)
Bookkeeping ==
  /\ DOMAIN ops = Objects /\ DOMAIN running = Objects
  /\ DOMAIN thr = Objects /\ DOMAIN ownerRef = Objects
  /\ \A o \in Objects : running[o] = <<>> <=> thr[o] \in {"polling", "exited"}

(***************************************************************************)
(* A reference is only given up when run() has returned, and when run()    *)
(* has returned no operation exists, queued or running, nor ever will.     *)
(***************************************************************************)
DestroysLate ==
  /\ policy = "after_run" /\ (\E o \in Objects : ~ownerRef[o]) => mpc = "returned"
  /\ mpc = "returned" => \A o \in Objects : ops[o] = <<>> /\ running[o] = <<>>

Safe == Bookkeeping /\ DestroysLate /\ NoSelfJoinAfterRun

\* Safe holds at first.
LEMMA SafeInit == Init => Safe
BY DEF Init, Safe, Bookkeeping, DestroysLate, NoSelfJoinAfterRun, NoSelfJoin

(***************************************************************************)
(* The steps, and what each leaves alone.                                  *)
(***************************************************************************)
LEMMA NextCases ==
  ASSUME Next
  PROVE  \/ \E o \in Objects, op \in BlockingOps : Async(o, op)
         \/ \E op \in SyncOps : Sync(op)
         \/ \E o \in Objects : Destroy(o)
         \/ SyncReturn \/ RunHandler \/ RunReturn \/ DtorStop \/ DtorJoin
         \/ StartRun \/ HandlerReturn
         \/ \E o \in Objects : \/ TakeOp(o) \/ BeginCall(o) \/ FinishCall(o) \/ PostHandler(o)
                               \/ PostOrphan(o) \/ ReleaseRef(o) \/ DropOp(o) \/ ExitThread(o)
         \/ \E c \in Controllers : ControlQueue(c)
BY DEF Next, MainSteps, LeaveUserCode, ImplSteps

(***************************************************************************)
(* Every step keeps the bookkeeping.                                       *)
(***************************************************************************)
LEMMA BookkeepingStep == Bookkeeping /\ [Next]_vars => Bookkeeping'
<1> SUFFICES ASSUME Bookkeeping, [Next]_vars PROVE Bookkeeping'
  OBVIOUS
<1>1. CASE UNCHANGED vars
  BY <1>1 DEF vars, implVars, Bookkeeping
<1>2. CASE Next
  <2>1. CASE \E o \in Objects, op \in BlockingOps : Async(o, op)
    BY <2>1 DEF Async, Bookkeeping
  <2>2. CASE \/ \E op \in SyncOps : Sync(op)
             \/ SyncReturn \/ RunHandler \/ RunReturn \/ DtorStop \/ StartRun \/ HandlerReturn
             \/ \E c \in Controllers : ControlQueue(c)
    BY <2>2 DEF Sync, SyncReturn, RunHandler, RunReturn, DtorStop, StartRun, HandlerReturn,
                ControlQueue, implVars, Bookkeeping
  <2>3. CASE DtorJoin \/ \E o \in Objects : Destroy(o)
    BY <2>3 DEF DtorJoin, Destroy, implVars, Bookkeeping
  <2>4. ASSUME NEW o \in Objects, TakeOp(o) PROVE Bookkeeping'
    <3>1. running'[o] = <<Head(ops[o])>> /\ thr'[o] = "took"
      BY <2>4 DEF TakeOp, Bookkeeping
    <3>2. running'[o] # <<>>
      BY <3>1
    <3>3. QED
      BY <2>4, <3>1, <3>2 DEF TakeOp, Bookkeeping
  <2>5. ASSUME NEW o \in Objects,
               \/ BeginCall(o) \/ FinishCall(o) \/ PostHandler(o) \/ PostOrphan(o)
               \/ ReleaseRef(o) \/ DropOp(o) \/ ExitThread(o)
        PROVE  Bookkeeping'
    BY <2>5 DEF BeginCall, FinishCall, PostHandler, PostOrphan, ReleaseRef, DropOp, ExitThread,
                Bookkeeping
  <2>6. QED
    BY <1>2, <2>1, <2>2, <2>3, <2>4, <2>5, NextCases
<1>3. QED
  BY <1>1, <1>2

(***************************************************************************)
(* Nothing starts again after run() has returned, and with policy          *)
(* "after_run" no reference goes before.                                   *)
(***************************************************************************)
LEMMA DestroysLateStep == Bookkeeping /\ DestroysLate /\ [Next]_vars => DestroysLate'
<1> SUFFICES ASSUME Bookkeeping, DestroysLate, [Next]_vars PROVE DestroysLate'
  OBVIOUS
<1>1. CASE UNCHANGED vars
  BY <1>1 DEF vars, implVars, mainVars, DestroysLate
<1>2. CASE Next
  <2>1. CASE \/ \E o \in Objects, op \in BlockingOps : Async(o, op)
             \/ RunHandler \/ StartRun \/ HandlerReturn
    BY <2>1 DEF Async, UserCode, RunHandler, StartRun, HandlerReturn, implVars, mainVars, DestroysLate
  <2>2. CASE \/ \E op \in SyncOps : Sync(op)
             \/ SyncReturn \/ DtorStop \/ \E c \in Controllers : ControlQueue(c)
    BY <2>2 DEF Sync, SyncReturn, DtorStop, ControlQueue, implVars, mainVars, DestroysLate
  <2>3. CASE RunReturn
    BY <2>3 DEF RunReturn, OutstandingWork, implVars, DestroysLate
  <2>4. CASE DtorJoin
    BY <2>4 DEF DtorJoin, Bookkeeping, DestroysLate
  <2>5. ASSUME NEW o \in Objects, Destroy(o) PROVE DestroysLate'
    BY <2>5 DEF Destroy, implVars, DestroysLate
  <2>6. ASSUME NEW o \in Objects, TakeOp(o) PROVE DestroysLate'
    BY <2>6 DEF TakeOp, mainVars, DestroysLate
  <2>7. ASSUME NEW o \in Objects, DropOp(o) PROVE DestroysLate'
    BY <2>7 DEF DropOp, mainVars, Bookkeeping, DestroysLate
  <2>8. ASSUME NEW o \in Objects,
               \/ BeginCall(o) \/ FinishCall(o) \/ PostHandler(o) \/ PostOrphan(o)
               \/ ReleaseRef(o) \/ ExitThread(o)
        PROVE  DestroysLate'
    BY <2>8 DEF BeginCall, FinishCall, PostHandler, PostOrphan, ReleaseRef, ExitThread,
                mainVars, DestroysLate
  <2>9. QED
    BY <1>2, <2>1, <2>2, <2>3, <2>4, <2>5, <2>6, <2>7, <2>8, NextCases
<1>3. QED
  BY <1>1, <1>2

(***************************************************************************)
(* Only the release of an operation's reference can run the destructor on  *)
(* the implementation's own thread, and it holds the last one only if the  *)
(* IO object gave its own up while the operation existed.                  *)
(***************************************************************************)
LEMMA NoSelfJoinStep == Safe /\ [Next]_vars => NoSelfJoinAfterRun'
<1> SUFFICES ASSUME Safe, [Next]_vars PROVE NoSelfJoinAfterRun'
  OBVIOUS
<1> USE DEF Safe, NoSelfJoinAfterRun, NoSelfJoin
<1>1. CASE UNCHANGED vars
  BY <1>1 DEF vars, mainVars
<1>2. CASE Next
  <2>1. ASSUME NEW o \in Objects, ReleaseRef(o) PROVE NoSelfJoinAfterRun'
    <3>1. running[o] # <<>>
      BY <2>1 DEF ReleaseRef, Bookkeeping
    <3>2. policy = "after_run" => ownerRef[o]
      BY <3>1 DEF DestroysLate
    <3>3. QED
      BY <2>1, <3>2 DEF ReleaseRef, mainVars
  <2>2. CASE ~ \E o \in Objects : ReleaseRef(o)
    <3>1. UNCHANGED <<terminated, policy>>
      BY <1>2, <2>2, NextCases
         DEF Async, Sync, Destroy, SyncReturn, RunHandler, RunReturn, DtorStop, DtorJoin, StartRun,
             HandlerReturn, TakeOp, BeginCall, FinishCall, PostHandler, PostOrphan, DropOp,
             ExitThread, ControlQueue, mainVars
    <3>2. QED
      BY <3>1
  <2>3. QED
    BY <2>1, <2>2
<1>3. QED
  BY <1>1, <1>2

(***************************************************************************)
(* A program that destroys its senders and listeners only after            *)
(* io_service::run has returned never has an implementation destroyed on   *)
(* the thread its destructor joins.                                        *)
(***************************************************************************)
THEOREM DestroyedAfterRun == Spec => []NoSelfJoinAfterRun
<1>1. Safe /\ [Next]_vars => Safe'
  BY BookkeepingStep, DestroysLateStep, NoSelfJoinStep DEF Safe
<1>2. Safe => NoSelfJoinAfterRun
  BY DEF Safe
<1>3. QED
  BY SafeInit, <1>1, <1>2, PTL DEF Spec

-----------------------------------------------------------------------------
(***************************************************************************)
(* Type correctness, in four parts: the queue, the implementations, the    *)
(* user's thread, and what the place of an implementation's thread says.   *)
(***************************************************************************)
Values == Payloads \cup {NoItem}
Calling == [op : BlockingOps \cup {"none"}, item : Values]

ChanTypes ==
  /\ sent \in Seq(Payloads) /\ received \in Seq(Payloads)
  /\ pending \subseteq Callers
  /\ call \in [Callers -> Calling]
  /\ ec \in [Callers -> Codes]
  /\ \A c \in pending : call[c].op \in PushOps => call[c].item \in Payloads

ImplTypes ==
  /\ ops \in [Objects -> Seq(Operation)]
  /\ running \in [Objects -> Seq(Operation)]
  /\ thr \in [Objects -> {"polling", "took", "calling", "finished", "posted", "released",
                          "exited"}]
  /\ issued \in [Objects -> 0 .. MaxOps]
  /\ ownerRef \in [Objects -> BOOLEAN]
  /\ opRef \in [Objects -> BOOLEAN]
  /\ stopped \in [Objects -> BOOLEAN]

MainTypes ==
  /\ handlers \in Seq(Handler) /\ ran \in Seq(Handler)
  /\ mpc \in {"setup", "run", "handler", "returned"}
  /\ joining \in Objects \cup {NoObject}
  /\ policy \in Policies
  /\ terminated \in BOOLEAN

Places ==
  \A o \in Objects :
     /\ Len(running[o]) = IF thr[o] \in {"polling", "exited"} THEN 0 ELSE 1
     /\ opRef[o] => thr[o] \in {"calling", "finished", "posted"}
     /\ o \in pending <=> thr[o] = "calling"

\* The type invariant, as the conjunction of its parts.
LEMMA TypeParts == TypeOK <=> ChanTypes /\ ImplTypes /\ MainTypes /\ Places
BY DEF TypeOK, ChanTypes, ImplTypes, MainTypes, Places, Values, Calling

\* The callers of the queue are the implementations, the controllers and the thread of the user.
LEMMA CallersAre == /\ Objects \subseteq Callers /\ Controllers \subseteq Callers
                    /\ main \in Callers /\ main \notin Objects
BY ObjectsAssumption DEF Callers

\* The types hold at first.
LEMMA TypeInit == Init => TypeOK
<1> SUFFICES ASSUME Init PROVE TypeOK
  OBVIOUS
<1>1. ChanTypes
  BY DEF Init, Chan!Init, ChanTypes, Calling, Values, Codes
<1>2. ImplTypes
  BY MaxOpsAssumption DEF Init, ImplTypes
<1>3. MainTypes
  <2>1. <<>> \in Seq(Handler)
    OBVIOUS
  <2>2. QED
    BY <2>1 DEF Init, MainTypes
<1>4. Places
  BY CallersAre DEF Init, Chan!Init, Places
<1>5. QED
  BY <1>1, <1>2, <1>3, <1>4, TypeParts

(***************************************************************************)
(* What the steps of the queue underneath do to its callers.               *)
(***************************************************************************)
LEMMA SameOps == /\ Chan!BlockingOps = BlockingOps
                 /\ Chan!PushOps = PushOps /\ Chan!PopOps = PopOps
BY DEF BlockingOps, EnqOps, DeqOps, PushOps, WaitEnqOps, PopOps, WaitDeqOps,
       Chan!BlockingOps, Chan!EnqOps, Chan!DeqOps, Chan!PushOps, Chan!WaitEnqOps, Chan!PopOps,
       Chan!WaitDeqOps

\* A call on the queue keeps its types.
LEMMA InvokeTypes ==
  ASSUME ChanTypes, NEW t \in Callers, NEW op, NEW x, Chan!Invoke(t, op, x)
  PROVE  ChanTypes' /\ pending' = pending \cup {t}
<1>1. op \in BlockingOps
  BY SameOps DEF Chan!Invoke
<1>2. x \in Values /\ (op \in PushOps => x \in Payloads)
  BY SameOps DEF Chan!Invoke, Values
<1>3. [op |-> op, item |-> x] \in Calling
  BY <1>1, <1>2 DEF Calling
<1>4. call' \in [Callers -> Calling] /\ ec' \in [Callers -> Codes]
  BY <1>3 DEF Chan!Invoke, ChanTypes, Codes
<1>5. \A c \in pending' : call'[c].op \in PushOps => call'[c].item \in Payloads
  BY <1>2 DEF Chan!Invoke, ChanTypes
<1>6. QED
  BY <1>4, <1>5 DEF Chan!Invoke, ChanTypes

\* So does the end of one; only an operation that pops delivers an item.
LEMMA FinishTypes ==
  ASSUME ChanTypes, NEW t \in Callers, Chan!Finish(t)
  PROVE  /\ ChanTypes' /\ pending' = pending \ {t}
         /\ received' # received => call[t].op \in PopOps /\ call'[t].item \in Payloads
<1> USE DEF ChanTypes, Codes, Chan!Return
<1>1. CASE Chan!Accept(t)
  <2>1. call[t].item \in Payloads
    BY <1>1, SameOps DEF Chan!Accept
  <2>2. QED
    BY <1>1, <2>1 DEF Chan!Accept
<1>2. CASE Chan!Deliver(t)
  <2>1. sent[Len(received) + 1] \in Payloads
    BY <1>2 DEF Chan!Deliver, Chan!Stored
  <2>2. received' \in Seq(Payloads)
    BY <1>2, <2>1 DEF Chan!Deliver
  <2>3. call' \in [Callers -> Calling] /\ call'[t].item \in Payloads
    BY <1>2, <2>1 DEF Chan!Deliver, Calling, Values
  <2>4. \A c \in pending' : call'[c].op \in PushOps => call'[c].item \in Payloads
    BY <1>2 DEF Chan!Deliver
  <2>5. ec' \in [Callers -> Codes] /\ sent' \in Seq(Payloads) /\ pending' = pending \ {t}
    BY <1>2 DEF Chan!Deliver
  <2>6. call[t].op \in PopOps
    BY <1>2, SameOps DEF Chan!Deliver
  <2>7. QED
    BY <2>2, <2>3, <2>4, <2>5, <2>6
<1>3. CASE Chan!Grant(t)
  BY <1>3 DEF Chan!Grant
<1>4. CASE Chan!Refuse(t)
  BY <1>4 DEF Chan!Refuse
<1>5. CASE Chan!TimeOut(t)
  BY <1>5 DEF Chan!TimeOut
<1>6. QED
  BY <1>1, <1>2, <1>3, <1>4, <1>5 DEF Chan!Finish

(***************************************************************************)
(* Every step keeps the types and the places.                              *)
(***************************************************************************)
LEMMA TypeStep == TypeOK /\ [Next]_vars => TypeOK'
<1> SUFFICES ASSUME ChanTypes, ImplTypes, MainTypes, Places, [Next]_vars
             PROVE  ChanTypes' /\ ImplTypes' /\ MainTypes' /\ Places'
  BY TypeParts, PTL
<1>1. CASE UNCHANGED vars
  BY <1>1 DEF vars, chanVars, implVars, mainVars, ChanTypes, ImplTypes, MainTypes, Places
<1>2. CASE Next
  <2>1. ASSUME NEW o \in Objects, NEW op \in BlockingOps, Async(o, op)
        PROVE  ChanTypes' /\ ImplTypes' /\ MainTypes' /\ Places'
    <3>1. issued[o] + 1 \in 1 .. MaxOps
      BY <2>1, MaxOpsAssumption DEF Async, ImplTypes
    <3>2. [op |-> op, id |-> issued[o] + 1] \in Operation
      BY <3>1 DEF Operation
    <3>3. ops' \in [Objects -> Seq(Operation)]
      BY <2>1, <3>2 DEF Async, ImplTypes
    <3>4. ImplTypes'
      BY <2>1, <3>1, <3>3 DEF Async, ImplTypes
    <3>5. QED
      BY <2>1, <3>4 DEF Async, chanVars, mainVars, ChanTypes, MainTypes, Places
  <2>2. ASSUME NEW op \in SyncOps, Sync(op)
        PROVE  ChanTypes' /\ ImplTypes' /\ MainTypes' /\ Places'
    <3>1. ChanTypes' /\ pending' = pending \cup {main}
      BY <2>2, CallersAre, InvokeTypes DEF Sync
    <3>2. QED
      BY <2>2, <3>1, CallersAre DEF Sync, implVars, mainVars, ImplTypes, MainTypes, Places
  <2>3. CASE SyncReturn
    <3>1. /\ ChanTypes' /\ pending' = pending \ {main}
          /\ received' # received => call[main].op \in PopOps /\ call'[main].item \in Payloads
      BY <2>3, CallersAre, FinishTypes DEF SyncReturn
    <3>2. ran' \in Seq(Handler)
      <4>1. CASE received' = received
        BY <2>3, <4>1 DEF SyncReturn, MainTypes
      <4>2. CASE received' # received
        <5>1. Len(received') \in Nat
          BY <3>1 DEF ChanTypes
        <5>2. [obj |-> main, id |-> Len(received'), op |-> call[main].op,
               ec |-> "success", item |-> call'[main].item] \in Handler
          BY <3>1, <4>2, <5>1 DEF Handler, Codes, BlockingOps, DeqOps
        <5>3. QED
          BY <2>3, <4>2, <5>2 DEF SyncReturn, MainTypes
      <4>3. QED
        BY <4>1, <4>2
    <3>3. QED
      BY <2>3, <3>1, <3>2, CallersAre DEF SyncReturn, implVars, mainVars, ImplTypes, MainTypes, Places
  <2>4. CASE StartRun \/ HandlerReturn \/ RunReturn
    BY <2>4 DEF StartRun, HandlerReturn, RunReturn, chanVars, implVars,
                ChanTypes, ImplTypes, MainTypes, Places
  <2>5. CASE RunHandler
    <3>1. Head(handlers) \in Handler /\ Tail(handlers) \in Seq(Handler)
      BY <2>5 DEF RunHandler, MainTypes
    <3>2. ran' \in Seq(Handler)
      BY <2>5, <3>1 DEF RunHandler, MainTypes
    <3>3. QED
      BY <2>5, <3>1, <3>2 DEF RunHandler, chanVars, implVars, ChanTypes, ImplTypes, MainTypes, Places
  <2>6. ASSUME NEW o \in Objects, Destroy(o)
        PROVE  ChanTypes' /\ ImplTypes' /\ MainTypes' /\ Places'
    BY <2>6 DEF Destroy, chanVars, implVars, ChanTypes, ImplTypes, MainTypes, Places
  <2>7. CASE DtorStop \/ DtorJoin
    <3>1. ImplTypes'
      <4>1. <<>> \in Seq(Operation)
        OBVIOUS
      <4>2. CASE DtorJoin
        <5>1. ops' \in [Objects -> Seq(Operation)]
          BY <4>1, <4>2 DEF DtorJoin, ImplTypes
        <5>2. QED
          BY <4>2, <5>1 DEF DtorJoin, ImplTypes
      <4>3. CASE DtorStop
        BY <4>3 DEF DtorStop, implVars, ImplTypes
      <4>4. QED
        BY <2>7, <4>2, <4>3
    <3>2. QED
      BY <2>7, <3>1 DEF DtorStop, DtorJoin, chanVars, implVars, mainVars, ChanTypes, MainTypes, Places
  <2>8. ASSUME NEW o \in Objects, TakeOp(o)
        PROVE  ChanTypes' /\ ImplTypes' /\ MainTypes' /\ Places'
    <3>1. Head(ops[o]) \in Operation /\ Tail(ops[o]) \in Seq(Operation)
      BY <2>8 DEF TakeOp, ImplTypes
    <3>2. <<Head(ops[o])>> \in Seq(Operation) /\ Len(<<Head(ops[o])>>) = 1
      BY <3>1
    <3>3. ImplTypes'
      BY <2>8, <3>1, <3>2 DEF TakeOp, ImplTypes
    <3>4. running'[o] = <<Head(ops[o])>> /\ \A p \in Objects \ {o} : running'[p] = running[p]
      BY <2>8 DEF TakeOp, ImplTypes
    <3>5. Places'
      BY <2>8, <3>2, <3>4 DEF TakeOp, chanVars, ImplTypes, Places
    <3>6. QED
      BY <2>8, <3>3, <3>5 DEF TakeOp, chanVars, mainVars, ChanTypes, MainTypes
  <2>9. ASSUME NEW o \in Objects, BeginCall(o)
        PROVE  ChanTypes' /\ ImplTypes' /\ MainTypes' /\ Places'
    <3>1. ChanTypes' /\ pending' = pending \cup {o}
      BY <2>9, CallersAre, InvokeTypes DEF BeginCall
    <3>2. ImplTypes'
      BY <2>9 DEF BeginCall, ImplTypes
    <3>3. Places'
      BY <2>9, <3>1 DEF BeginCall, ImplTypes, Places
    <3>4. QED
      BY <2>9, <3>1, <3>2, <3>3 DEF BeginCall, mainVars, MainTypes
  <2>10. ASSUME NEW o \in Objects, FinishCall(o)
         PROVE  ChanTypes' /\ ImplTypes' /\ MainTypes' /\ Places'
    <3>1. ChanTypes' /\ pending' = pending \ {o}
      BY <2>10, CallersAre, FinishTypes DEF FinishCall
    <3>2. ImplTypes'
      BY <2>10 DEF FinishCall, ImplTypes
    <3>3. Places'
      BY <2>10, <3>1 DEF FinishCall, ImplTypes, Places
    <3>4. QED
      BY <2>10, <3>1, <3>2, <3>3 DEF FinishCall, mainVars, MainTypes
  <2>11. ASSUME NEW o \in Objects, PostHandler(o) \/ PostOrphan(o)
         PROVE  ChanTypes' /\ ImplTypes' /\ MainTypes' /\ Places'
    <3>1. running[o][1] \in Operation
      <4>1. running[o] \in Seq(Operation) /\ thr[o] \in {"took", "finished"}
        BY <2>11 DEF PostHandler, PostOrphan, ImplTypes
      <4>2. Len(running[o]) = 1
        BY <4>1 DEF Places
      <4>3. QED
        BY <4>1, <4>2
    <3>2. running[o][1].id \in Nat /\ running[o][1].op \in BlockingOps
      BY <3>1 DEF Operation
    <3>3. \A c \in Codes, x \in Values : Bound(o, c, x) \in Handler
      BY <3>2 DEF Bound, Handler, Values
    <3>4. ec[o] \in Codes /\ call[o].item \in Values /\ NoItem \in Values
          /\ "success" \in Codes /\ "operation_aborted" \in Codes
      BY CallersAre DEF ChanTypes, Calling, Values, Codes
    <3>5. PICK b \in Handler : handlers' = Append(handlers, b)
      <4>1. CASE PostHandler(o)
        BY <4>1, <3>3, <3>4 DEF PostHandler
      <4>2. CASE PostOrphan(o)
        BY <4>2, <3>3, <3>4 DEF PostOrphan
      <4>3. QED
        BY <2>11, <4>1, <4>2
    <3>6. handlers' \in Seq(Handler)
      BY <3>5 DEF MainTypes
    <3>7. ImplTypes' /\ Places'
      <4>1. /\ thr[o] \in {"took", "finished"} /\ thr' = [thr EXCEPT ![o] = "posted"]
            /\ UNCHANGED <<pending, ops, running, opRef, issued, ownerRef, stopped>>
        BY <2>11 DEF PostHandler, PostOrphan, chanVars
      <4>2. QED
        BY <4>1 DEF ImplTypes, Places
    <3>8. QED
      BY <2>11, <3>6, <3>7 DEF PostHandler, PostOrphan, chanVars, mainVars, ChanTypes, MainTypes
  <2>12. ASSUME NEW o \in Objects, ReleaseRef(o) \/ ExitThread(o)
         PROVE  ChanTypes' /\ ImplTypes' /\ MainTypes' /\ Places'
    BY <2>12, ZenonT(60) DEF ReleaseRef, ExitThread, chanVars, mainVars, ChanTypes, ImplTypes, MainTypes, Places
  <2>13. ASSUME NEW o \in Objects, DropOp(o)
         PROVE  ChanTypes' /\ ImplTypes' /\ MainTypes' /\ Places'
    <3>1. ImplTypes'
      BY <2>13 DEF DropOp, ImplTypes
    <3>2. Places'
      BY <2>13 DEF DropOp, chanVars, ImplTypes, Places
    <3>3. QED
      BY <2>13, <3>1, <3>2 DEF DropOp, chanVars, mainVars, ChanTypes, MainTypes
  <2>14. ASSUME NEW c \in Controllers, ControlQueue(c)
         PROVE  ChanTypes' /\ ImplTypes' /\ MainTypes' /\ Places'
    <3>1. ChanTypes' /\ pending' = pending
      BY <2>14 DEF ControlQueue, Chan!Control, ChanTypes
    <3>2. QED
      BY <2>14, <3>1 DEF ControlQueue, implVars, mainVars, ImplTypes, MainTypes, Places
  <2>15. QED
    BY <1>2, <2>1, <2>2, <2>3, <2>4, <2>5, <2>6, <2>7, <2>8, <2>9, <2>10, <2>11, <2>12, <2>13,
       <2>14, NextCases
<1>3. QED
  BY <1>1, <1>2

(***************************************************************************)
(* The type invariant of the senders and listeners, their queue and the    *)
(* user's io_service.                                                      *)
(***************************************************************************)
THEOREM TypeCorrect == Spec => []TypeOK
BY TypeInit, TypeStep, PTL DEF Spec

-----------------------------------------------------------------------------
(***************************************************************************)
(* What a call asks of the queue or was given by it, and the operation an  *)
(* implementation runs.                                                    *)
(***************************************************************************)
Item(o) == call[o].item
Doing(o) == running[o][1]

(***************************************************************************)
(* The posted handlers are handlers, and so are those of one object.       *)
(***************************************************************************)
LEMMA PostedTypes ==
  ASSUME MainTypes
  PROVE  /\ Posted \in Seq(Handler)
         /\ \A o \in Objects : PostedBy(o) \in Seq(Handler)
<1>1. Posted \in Seq(Handler)
  BY ConcatProperties DEF MainTypes, Posted
<1>2. ASSUME NEW o \in Objects PROVE PostedBy(o) \in Seq(Handler)
  <2>1. PostedBy(o) \in Seq(Handler \cap HandlersOf(o))
    BY <1>1, SelectedType DEF PostedBy
  <2>2. QED
    BY <2>1
<1>3. QED
  BY <1>1, <1>2

(***************************************************************************)
(* Posting a handler adds it to those of its object, and to those of no    *)
(* other.                                                                  *)
(***************************************************************************)
LEMMA PostedAppend ==
  ASSUME MainTypes, NEW h \in Handler, handlers' = Append(handlers, h), ran' = ran
  PROVE  /\ Posted' = Append(Posted, h)
         /\ \A o \in Objects : PostedBy(o)' = IF h.obj = o THEN Append(PostedBy(o), h) ELSE PostedBy(o)
<1>1. Posted' = Append(Posted, h)
  BY AppendToConcat DEF MainTypes, Posted
<1>2. ASSUME NEW o \in Objects
      PROVE PostedBy(o)' = IF h.obj = o THEN Append(PostedBy(o), h) ELSE PostedBy(o)
  <2>1. PostedBy(o)' = Selected(Append(Posted, h), HandlersOf(o))
    BY <1>1 DEF PostedBy
  <2>2. h \in HandlersOf(o) <=> h.obj = o
    BY DEF HandlersOf
  <2>3. QED
    BY <2>1, <2>2, PostedTypes, SelectedAppend DEF PostedBy
<1>3. QED
  BY <1>1, <1>2

(***************************************************************************)
(* Running a handler posts none: it only moves the oldest one over to      *)
(* those that ran.                                                         *)
(***************************************************************************)
LEMMA PostedRun ==
  ASSUME MainTypes, RunHandler
  PROVE  Posted' = Posted /\ \A o \in Objects : PostedBy(o)' = PostedBy(o)
<1>1. Posted' = Posted
  BY MoveHead DEF RunHandler, MainTypes, Posted
<1>2. QED
  BY <1>1 DEF PostedBy

(***************************************************************************)
(* What sync_deq returns is nobody's handler, although it ends up among    *)
(* what ran.                                                               *)
(***************************************************************************)
LEMMA PostedSync ==
  ASSUME MainTypes, NEW h \in Handler, h.obj = main, ran' = Append(ran, h), handlers' = handlers
  PROVE  \A o \in Objects : /\ PostedBy(o)' = PostedBy(o)
                            /\ Selected(ran', HandlersOf(o)) = Selected(ran, HandlersOf(o))
<1> SUFFICES ASSUME NEW o \in Objects
             PROVE  /\ PostedBy(o)' = PostedBy(o)
                    /\ Selected(ran', HandlersOf(o)) = Selected(ran, HandlersOf(o))
  OBVIOUS
<1>1. ran \in Seq(Handler) /\ handlers \in Seq(Handler) /\ Append(ran, h) \in Seq(Handler)
  BY AppendProperties DEF MainTypes
<1>2. h \notin HandlersOf(o)
  BY CallersAre DEF HandlersOf
<1>3. Selected(Append(ran, h), HandlersOf(o)) = Selected(ran, HandlersOf(o))
  BY <1>1, <1>2, SelectedAppend
<1>4. PostedBy(o)' = Selected(Append(ran, h) \o handlers, HandlersOf(o))
  BY DEF PostedBy, Posted
<1>5. Selected(Append(ran, h) \o handlers, HandlersOf(o)) = Selected(ran \o handlers, HandlersOf(o))
  BY <1>1, <1>2, SelectedInsert
<1>6. QED
  BY <1>3, <1>4, <1>5 DEF PostedBy, Posted

\* A sync_deq that returns an item is counted among the handlers run, under the name of the thread.
LEMMA SyncPostsWhat ==
  ASSUME ChanTypes, MainTypes, SyncReturn, received' # received
  PROVE  \E h \in Handler : ran' = Append(ran, h) /\ h.item = Item(main)' /\ h.obj = main
<1>1. /\ ChanTypes' /\ pending' = pending \ {main}
      /\ received' # received => call[main].op \in PopOps /\ call'[main].item \in Payloads
  BY CallersAre, FinishTypes DEF SyncReturn
<1> DEFINE h == [obj |-> main, id |-> Len(received'), op |-> call[main].op,
                 ec |-> "success", item |-> call'[main].item]
<1>2. Len(received') \in Nat
  BY <1>1 DEF ChanTypes
<1>3. h \in Handler /\ h.obj = main /\ h.item = Item(main)'
  BY <1>1, <1>2 DEF Handler, Codes, BlockingOps, DeqOps, Item
<1>4. ran' = Append(ran, h)
  BY DEF SyncReturn
<1> HIDE DEF h
<1>5. QED
  BY <1>3, <1>4

\* It leaves the handlers of every object as they are.
LEMMA SyncPosts ==
  ASSUME ChanTypes, MainTypes, SyncReturn, NEW o \in Objects
  PROVE  /\ PostedBy(o)' = PostedBy(o)
         /\ Selected(ran', HandlersOf(o)) = Selected(ran, HandlersOf(o))
<1>1. CASE received' = received
  BY <1>1 DEF SyncReturn, PostedBy, Posted
<1>2. CASE received' # received
  <2>1. PICK h \in Handler : ran' = Append(ran, h) /\ h.obj = main
    BY <1>2, SyncPostsWhat
  <2>2. handlers' = handlers
    BY DEF SyncReturn
  <2>3. QED
    BY <2>1, <2>2, PostedSync
<1>3. QED
  BY <1>1, <1>2

(***************************************************************************)
(* An implementation posts one handler, of the object and the operation it *)
(* runs: with what the call left, or with nothing when the object is gone. *)
(***************************************************************************)
LEMMA PostsWhat ==
  ASSUME ChanTypes, ImplTypes, Places, NEW o \in Objects, PostHandler(o) \/ PostOrphan(o)
  PROVE  \E h \in Handler :
           /\ handlers' = Append(handlers, h) /\ h.obj = o
           /\ h.id = running[o][1].id /\ h.op = Doing(o).op
           /\ PostOrphan(o) => h.item = NoItem
           /\ PostHandler(o) =>
                /\ h.item = IF Doing(o).op \in PopOps /\ ec[o] = "success" THEN call[o].item ELSE NoItem
                /\ h.ec = ec[o]
<1>1. running[o][1] \in Operation
  <2>1. running[o] \in Seq(Operation) /\ thr[o] \in {"took", "finished"}
    BY DEF PostHandler, PostOrphan, ImplTypes
  <2>2. Len(running[o]) = 1
    BY <2>1 DEF Places
  <2>3. QED
    BY <2>1, <2>2
<1>2. running[o][1].id \in Nat /\ running[o][1].op \in BlockingOps
  BY <1>1 DEF Operation
<1>3. \A c \in Codes, x \in Values :
         /\ Bound(o, c, x) \in Handler /\ Bound(o, c, x).obj = o /\ Bound(o, c, x).op = Doing(o).op
         /\ Bound(o, c, x).id = running[o][1].id
         /\ Bound(o, c, x).item = x /\ Bound(o, c, x).ec = c
  BY <1>2 DEF Bound, Handler, Values, Doing
<1>4. ec[o] \in Codes /\ call[o].item \in Values /\ NoItem \in Values
      /\ "success" \in Codes /\ "operation_aborted" \in Codes
  BY CallersAre DEF ChanTypes, Calling, Values, Codes
<1>5. CASE PostHandler(o)
  <2> DEFINE x == IF Doing(o).op \in PopOps /\ ec[o] = "success" THEN call[o].item ELSE NoItem
  <2>1. handlers' = Append(handlers, Bound(o, ec[o], x)) /\ ~PostOrphan(o)
    BY <1>5 DEF PostHandler, PostOrphan, Doing
  <2>2. x \in Values
    BY <1>4
  <2> HIDE DEF x
  <2>3. QED
    BY <1>3, <1>4, <2>1, <2>2 DEF x
<1>6. CASE PostOrphan(o)
  BY <1>3, <1>4, <1>6 DEF PostOrphan, PostHandler
<1>7. QED
  BY <1>5, <1>6

-----------------------------------------------------------------------------
(***************************************************************************)
(* Calls in line: the ids of the handlers posted, p, the operation being   *)
(* run, u, and the operations queued, q, count up from 1.                  *)
(***************************************************************************)
InLine(p, u, q) ==
  /\ \A i \in 1 .. Len(p) : p[i].id = i
  /\ \A i \in 1 .. Len(u) : u[i].id = Len(p) + i
  /\ \A i \in 1 .. Len(q) : q[i].id = Len(p) + Len(u) + i

Numbering == [op : BlockingOps, id : Nat]

(***************************************************************************)
(* Making a call, taking its operation and posting its handler keep the    *)
(* line.                                                                   *)
(***************************************************************************)
LEMMA LineJoin ==
  ASSUME NEW p \in Seq(Handler), NEW u \in Seq(Numbering), NEW q \in Seq(Numbering), NEW x \in Numbering,
         InLine(p, u, q), x.id = Len(p) + Len(u) + Len(q) + 1
  PROVE  InLine(p, u, Append(q, x)) /\ Len(Append(q, x)) = Len(q) + 1
<1> DEFINE r == Append(q, x)
<1>1. /\ Len(r) = Len(q) + 1 /\ r[Len(q) + 1] = x
      /\ \A i \in 1 .. Len(q) : r[i] = q[i]
  BY AppendProperties
<1>2. Len(q) \in Nat
  BY LenProperties
<1> HIDE DEF r
<1>3. ASSUME NEW i \in 1 .. Len(r) PROVE r[i].id = Len(p) + Len(u) + i
  <2>1. CASE i = Len(q) + 1
    BY <1>1, <2>1, LenProperties
  <2>2. CASE i # Len(q) + 1
    <3>1. i \in 1 .. Len(q)
      BY <1>1, <1>2, <2>2
    <3>2. QED
      BY <1>1, <3>1 DEF InLine
  <2>3. QED
    BY <2>1, <2>2
<1>4. InLine(p, u, r)
  BY <1>3 DEF InLine
<1>5. QED
  BY <1>1, <1>4 DEF r

\* Taking an operation from the io_service keeps the line of numbers.
LEMMA LineTake ==
  ASSUME NEW p \in Seq(Handler), NEW q \in Seq(Numbering), q # <<>>, InLine(p, <<>>, q)
  PROVE  InLine(p, <<Head(q)>>, Tail(q)) /\ Len(<<Head(q)>>) + Len(Tail(q)) = Len(q)
<1> DEFINE r == Tail(q)  u == <<Head(q)>>
<1>1. /\ Len(q) \in Nat /\ Len(q) >= 1 /\ Len(r) = Len(q) - 1
      /\ \A i \in 1 .. Len(q) - 1 : r[i] = q[i + 1]
      /\ Len(u) = 1 /\ u[1] = q[1]
  BY HeadTailProperties, LenProperties, EmptySeq
<1>2. Len(p) \in Nat /\ Len(<<>>) = 0
  BY LenProperties
<1> HIDE DEF r, u
<1>3. ASSUME NEW i \in 1 .. Len(q) PROVE q[i].id = Len(p) + i
  BY <1>2 DEF InLine
<1>4. ASSUME NEW i \in 1 .. Len(r) PROVE r[i].id = Len(p) + Len(u) + i
  <2>1. i + 1 \in 1 .. Len(q) /\ r[i] = q[i + 1]
    BY <1>1
  <2>2. r[i].id = Len(p) + (i + 1)
    BY <1>3, <2>1
  <2>3. QED
    BY <1>1, <1>2, <2>2
<1>5. ASSUME NEW i \in 1 .. Len(u) PROVE u[i].id = Len(p) + i
  BY <1>1, <1>2, <1>3
<1>6. InLine(p, u, r)
  BY <1>4, <1>5 DEF InLine
<1>7. QED
  BY <1>1, <1>6 DEF u, r

\* Posting the handler of the operation taken keeps it too.
LEMMA LinePost ==
  ASSUME NEW p \in Seq(Handler), NEW u \in Seq(Numbering), NEW q \in Seq(Numbering), NEW h \in Handler,
         InLine(p, u, q), Len(u) = 1, h.id = u[1].id
  PROVE  InLine(Append(p, h), <<>>, q) /\ Len(Append(p, h)) = Len(p) + 1
<1> DEFINE r == Append(p, h)
<1>1. /\ Len(r) = Len(p) + 1 /\ r[Len(p) + 1] = h
      /\ \A i \in 1 .. Len(p) : r[i] = p[i]
  BY AppendProperties
<1>2. Len(p) \in Nat /\ Len(q) \in Nat /\ Len(<<>>) = 0
  BY LenProperties
<1> HIDE DEF r
<1>3. ASSUME NEW i \in 1 .. Len(r) PROVE r[i].id = i
  <2>1. CASE i = Len(p) + 1
    BY <1>1, <1>2, <2>1 DEF InLine
  <2>2. CASE i # Len(p) + 1
    <3>1. i \in 1 .. Len(p)
      BY <1>1, <1>2, <2>2
    <3>2. r[i] = p[i]
      BY <1>1, <3>1
    <3>3. QED
      BY <3>1, <3>2 DEF InLine
  <2>3. QED
    BY <2>1, <2>2
<1>4. ASSUME NEW i \in 1 .. Len(q) PROVE q[i].id = Len(r) + Len(<<>>) + i
  <2>1. q[i].id = Len(p) + Len(u) + i
    BY DEF InLine
  <2>2. QED
    BY <1>1, <1>2, <2>1
<1>5. InLine(r, <<>>, q)
  BY <1>2, <1>3, <1>4 DEF InLine
<1>6. QED
  BY <1>1, <1>5 DEF r

(***************************************************************************)
(* The ids of a line are 1, 2, 3 and so on.                                *)
(***************************************************************************)
Ids(s) == [i \in 1 .. Len(s) |-> s[i].id]

Counting(ids, n) == Len(ids) = n /\ ids = [i \in 1 .. Len(ids) |-> i]

\* The numbers along the line are 1, 2, 3 and so on.
LEMMA LineIds ==
  ASSUME NEW p \in Seq(Handler), NEW u \in Seq(Numbering), NEW q \in Seq(Numbering), InLine(p, u, q)
  PROVE  Counting(Ids(p) \o Ids(u \o q), Len(p) + Len(u) + Len(q))
<1> DEFINE r == u \o q
           a == Ids(p)
           b == Ids(r)
           ids == a \o b
<1>1. /\ r \in Seq(Numbering) /\ Len(r) = Len(u) + Len(q)
      /\ \A i \in 1 .. Len(r) : r[i] = IF i <= Len(u) THEN u[i] ELSE q[i - Len(u)]
  BY ConcatProperties
<1>2. Len(p) \in Nat /\ Len(u) \in Nat /\ Len(q) \in Nat
  BY LenProperties
<1> HIDE DEF r
<1>3. ASSUME NEW i \in 1 .. Len(r) PROVE r[i].id = Len(p) + i
  <2>1. CASE i <= Len(u)
    BY <1>1, <1>2, <2>1 DEF InLine
  <2>2. CASE ~(i <= Len(u))
    <3>1. r[i] = q[i - Len(u)] /\ i - Len(u) \in 1 .. Len(q)
      BY <1>1, <1>2, <2>2
    <3>2. q[i - Len(u)].id = Len(p) + Len(u) + (i - Len(u))
      BY <3>1 DEF InLine
    <3>3. QED
      BY <1>2, <3>1, <3>2
  <2>3. QED
    BY <2>1, <2>2
<1>4. ASSUME NEW i \in 1 .. Len(p) PROVE p[i].id = i
  BY DEF InLine
<1>5. a \in Seq(Nat) /\ Len(a) = Len(p) /\ \A i \in 1 .. Len(p) : a[i] = i
  <2>1. a = [i \in 1 .. Len(p) |-> i]
    BY <1>4 DEF Ids
  <2>2. QED
    BY <1>2, <2>1
<1>6. b \in Seq(Nat) /\ Len(b) = Len(r) /\ \A i \in 1 .. Len(r) : b[i] = Len(p) + i
  <2>1. b = [i \in 1 .. Len(r) |-> Len(p) + i]
    BY <1>3 DEF Ids
  <2>2. QED
    BY <1>1, <1>2, <2>1
<1> HIDE DEF a, b
<1>7. /\ ids \in Seq(Nat) /\ Len(ids) = Len(a) + Len(b)
      /\ \A i \in 1 .. Len(a) + Len(b) : ids[i] = IF i <= Len(a) THEN a[i] ELSE b[i - Len(a)]
  BY <1>5, <1>6, ConcatProperties
<1> HIDE DEF ids
<1>8. ASSUME NEW i \in 1 .. Len(ids) PROVE ids[i] = i
  <2>1. CASE i <= Len(p)
    <3>1. i \in 1 .. Len(p) /\ ids[i] = a[i]
      BY <1>1, <1>2, <1>5, <1>6, <1>7, <2>1
    <3>2. QED
      BY <1>5, <3>1
  <2>2. CASE ~(i <= Len(p))
    <3>1. i - Len(p) \in 1 .. Len(r) /\ ids[i] = b[i - Len(p)]
      BY <1>1, <1>2, <1>5, <1>6, <1>7, <2>2
    <3>2. QED
      BY <1>2, <1>6, <3>1
  <2>3. QED
    BY <2>1, <2>2
<1>9. ids = [i \in 1 .. Len(ids) |-> i]
  BY <1>7, <1>8
<1>10. Len(ids) = Len(p) + Len(u) + Len(q)
  BY <1>1, <1>2, <1>5, <1>6, <1>7
<1>11. Counting(ids, Len(p) + Len(u) + Len(q))
  BY <1>9, <1>10 DEF Counting
<1>12. QED
  BY <1>11 DEF ids, a, b, r

(***************************************************************************)
(* The strengthening of HandlersInOrder. The calls of each object are in   *)
(* line and, until its thread has exited, none is missing; and a thread    *)
(* exits only when the io_service was stopped, which a destructor does     *)
(* that runs once the object gave up its reference. That is what keeps an  *)
(* async call from joining a line whose thread is gone.                    *)
(***************************************************************************)
Queued(o) == ops[o]

Numbered(o) ==
  /\ InLine(PostedBy(o), Unposted(o), Queued(o))
  /\ thr[o] # "exited" => Len(PostedBy(o)) + Len(Unposted(o)) + Len(Queued(o)) = issued[o]

Gone == \A o \in Objects : /\ joining = o \/ stopped[o] => ~ownerRef[o]
                           /\ thr[o] = "exited" => stopped[o]

Ordered == Gone /\ \A o \in Objects : Numbered(o)

\* The lines are empty at first.
LEMMA OrderedInit == Init => Ordered
<1> SUFFICES ASSUME Init PROVE Ordered
  OBVIOUS
<1>1. Gone
  BY ObjectsAssumption DEF Init, Gone
<1>2. ASSUME NEW o \in Objects PROVE Numbered(o)
  <2>1. Posted = <<>>
    BY DEF Init, Posted
  <2>2. PostedBy(o) = <<>>
    BY <2>1, SelectedEmpty DEF PostedBy
  <2>3. Unposted(o) = <<>> /\ Queued(o) = <<>> /\ issued[o] = 0
    BY DEF Init, Unposted, Queued
  <2>4. QED
    BY <2>2, <2>3 DEF Numbered, InLine
<1>3. QED
  BY <1>1, <1>2 DEF Ordered

(***************************************************************************)
(* Every step keeps the order in which an object is torn down.             *)
(***************************************************************************)
LEMMA GoneStep == TypeOK /\ Gone /\ [Next]_vars => Gone'
<1> SUFFICES ASSUME ImplTypes, MainTypes, Gone, [Next]_vars PROVE Gone'
  BY TypeParts
<1>1. CASE UNCHANGED vars
  BY <1>1 DEF vars, implVars, mainVars, Gone
<1>2. CASE Next
  <2>1. ASSUME NEW o \in Objects, \/ TakeOp(o) \/ BeginCall(o) \/ FinishCall(o) \/ PostHandler(o)
                                  \/ PostOrphan(o) \/ ReleaseRef(o) \/ DropOp(o) \/ ExitThread(o)
        PROVE  Gone'
    BY <2>1 DEF TakeOp, BeginCall, FinishCall, PostHandler, PostOrphan, ReleaseRef, DropOp,
                ExitThread, mainVars, ImplTypes, Gone
  <2>2. CASE DtorStop \/ DtorJoin \/ \E o \in Objects : Destroy(o)
    BY <2>2, ObjectsAssumption, ZenonT(60) DEF DtorStop, DtorJoin, Destroy, implVars, mainVars, ImplTypes, MainTypes, Gone
  <2>3. CASE \/ \E o \in Objects, op \in BlockingOps : Async(o, op)
             \/ \E op \in SyncOps : Sync(op)
             \/ SyncReturn \/ RunHandler \/ RunReturn \/ StartRun \/ HandlerReturn
             \/ \E c \in Controllers : ControlQueue(c)
    BY <2>3 DEF Async, Sync, SyncReturn, RunHandler, RunReturn, StartRun, HandlerReturn,
                ControlQueue, implVars, mainVars, Gone
  <2>4. QED
    BY <1>2, <2>1, <2>2, <2>3, NextCases
<1>3. QED
  BY <1>1, <1>2

(***************************************************************************)
(* Every step keeps the lines.                                             *)
(***************************************************************************)
LEMMA NumberedFrame ==
  ASSUME NEW o \in Objects, Numbered(o), PostedBy(o)' = PostedBy(o), Unposted(o)' = Unposted(o),
         Queued(o)' = Queued(o), issued'[o] = issued[o], thr[o] = "exited" => thr'[o] = "exited"
  PROVE  Numbered(o)'
BY DEF Numbered

\* The parts of a line are sequences.
LEMMA LineTypes ==
  ASSUME ImplTypes, MainTypes, NEW o \in Objects
  PROVE  /\ PostedBy(o) \in Seq(Handler) /\ Len(PostedBy(o)) \in Nat
         /\ Unposted(o) \in Seq(Numbering) /\ Len(Unposted(o)) \in Nat
         /\ Queued(o) \in Seq(Numbering) /\ Len(Queued(o)) \in Nat
<1>1. Operation \subseteq Numbering
  BY MaxOpsAssumption DEF Operation, Numbering
<1>2. Seq(Operation) \subseteq Seq(Numbering)
  BY <1>1
<1>3. Queued(o) \in Seq(Operation) /\ Unposted(o) \in Seq(Operation)
  BY DEF ImplTypes, Unposted, Queued
<1>4. QED
  BY <1>2, <1>3, PostedTypes, LenProperties

\* Every step keeps the line of every object.
LEMMA NumberedStep ==
  ASSUME TypeOK, Ordered, [Next]_vars, NEW o \in Objects
  PROVE  Numbered(o)'
<1>0. ChanTypes /\ ImplTypes /\ MainTypes /\ Places /\ Gone /\ Numbered(o)
  BY TypeParts DEF Ordered
<1> USE <1>0
<1>1. CASE UNCHANGED vars
  BY <1>1, NumberedFrame DEF Queued, vars, implVars, PostedBy, Posted, Unposted
<1>2. CASE Next
  <2>1. ASSUME NEW p \in Objects, NEW op \in BlockingOps, Async(p, op)
        PROVE  Numbered(o)'
    <3>1. PostedBy(o)' = PostedBy(o) /\ Unposted(o)' = Unposted(o) /\ thr' = thr
      BY <2>1 DEF Async, PostedBy, Posted, Unposted
    <3>2. CASE p # o
      BY <2>1, <3>1, <3>2, NumberedFrame DEF Queued, Async, ImplTypes
    <3>3. CASE p = o
      <4>1. thr[o] # "exited"
        BY <2>1, <3>3 DEF Async, Gone
      <4>2. /\ Queued(o)' = Append(Queued(o), [op |-> op, id |-> issued[o] + 1])
            /\ issued'[o] = issued[o] + 1
        BY <2>1, <3>3 DEF Async, ImplTypes, Queued
      <4>3. PICK x \in Numbering : x = [op |-> op, id |-> issued[o] + 1]
        <5>1. issued[o] + 1 \in Nat
          BY MaxOpsAssumption DEF ImplTypes
        <5>2. [op |-> op, id |-> issued[o] + 1] \in Numbering
          BY <5>1 DEF Numbering
        <5>3. QED
          BY <5>2
      <4>4. Queued(o)' = Append(Queued(o), x)
        BY <4>2, <4>3, Zenon
      <4>5. x.id = Len(PostedBy(o)) + Len(Unposted(o)) + Len(Queued(o)) + 1
        BY <4>1, <4>3 DEF Numbered
      <4>6. InLine(PostedBy(o), Unposted(o), Append(Queued(o), x)) /\ Len(Append(Queued(o), x)) = Len(Queued(o)) + 1
        BY <4>5, LineTypes, LineJoin DEF Numbered
      <4>7. Len(PostedBy(o)) \in Nat /\ Len(Unposted(o)) \in Nat /\ Len(Queued(o)) \in Nat
        BY LineTypes
      <4>8. InLine(PostedBy(o)', Unposted(o)', Queued(o)')
        BY <3>1, <4>4, <4>6, Zenon
      <4>9. /\ Len(PostedBy(o)') = Len(PostedBy(o)) /\ Len(Unposted(o)') = Len(Unposted(o))
            /\ Len(Queued(o)') = Len(Queued(o)) + 1
        BY <3>1, <4>4, <4>6, Zenon
      <4>10. Len(PostedBy(o)) + Len(Unposted(o)) + Len(Queued(o)) = issued[o] /\ issued'[o] = issued[o] + 1
        BY <4>1, <4>2 DEF Numbered
      <4>11. Len(PostedBy(o)') + Len(Unposted(o)') + Len(Queued(o)') = issued'[o]
        BY ONLY <4>7, <4>9, <4>10
      <4>12. QED
        BY <4>8, <4>11 DEF Numbered
    <3>4. QED
      BY <3>2, <3>3
  <2>2. CASE \/ \E op \in SyncOps : Sync(op)
             \/ RunReturn \/ DtorStop \/ StartRun \/ HandlerReturn
             \/ \E p \in Objects : Destroy(p)
             \/ \E c \in Controllers : ControlQueue(c)
    <3>1. UNCHANGED <<ops, running, thr, issued, handlers, ran>>
      BY <2>2 DEF Sync, RunReturn, DtorStop, StartRun, HandlerReturn, Destroy, ControlQueue, implVars
    <3>2. QED
      BY <3>1, NumberedFrame DEF Queued, PostedBy, Posted, Unposted
  <2>3. CASE SyncReturn
    <3>1. PostedBy(o)' = PostedBy(o)
      BY <2>3, SyncPosts
    <3>2. QED
      BY <2>3, <3>1, NumberedFrame DEF Queued, SyncReturn, implVars, Unposted
  <2>4. CASE RunHandler
    BY <2>4, PostedRun, NumberedFrame DEF Queued, RunHandler, implVars, Unposted
  <2>5. CASE DtorJoin
    <3>1. PostedBy(o)' = PostedBy(o) /\ Unposted(o)' = Unposted(o)
      BY <2>5 DEF DtorJoin, PostedBy, Posted, Unposted
    <3>2. CASE joining # o
      BY <2>5, <3>1, <3>2, NumberedFrame DEF Queued, DtorJoin, ImplTypes
    <3>3. CASE joining = o
      BY <2>5, <3>1, <3>3 DEF DtorJoin, ImplTypes, Numbered, InLine, Queued
    <3>4. QED
      BY <3>2, <3>3
  <2>6. ASSUME NEW p \in Objects, TakeOp(p) PROVE Numbered(o)'
    <3>1. PostedBy(o)' = PostedBy(o)
      BY <2>6 DEF TakeOp, PostedBy, Posted
    <3>2. CASE p # o
      BY <2>6, <3>1, <3>2, NumberedFrame DEF Queued, TakeOp, ImplTypes, Unposted
    <3>3. CASE p = o
      <4>1. /\ Unposted(o) = <<>> /\ Unposted(o)' = <<Head(Queued(o))>>
            /\ Queued(o)' = Tail(Queued(o)) /\ thr'[o] = "took" /\ thr[o] = "polling"
            /\ issued' = issued /\ Queued(o) # <<>>
        BY <2>6, <3>3 DEF TakeOp, ImplTypes, Unposted, Queued
      <4>2. /\ InLine(PostedBy(o), <<Head(Queued(o))>>, Tail(Queued(o)))
            /\ Len(<<Head(Queued(o))>>) + Len(Tail(Queued(o))) = Len(Queued(o))
        BY <4>1, LineTypes, LineTake DEF Numbered
      <4>3. Len(PostedBy(o)) \in Nat /\ Len(Tail(Queued(o))) \in Nat /\ Len(<<Head(Queued(o))>>) \in Nat
            /\ Len(Queued(o)) \in Nat /\ Len(<<>>) = 0
        BY <4>1, LineTypes
      <4>4. InLine(PostedBy(o)', Unposted(o)', Queued(o)')
        BY <3>1, <4>1, <4>2, Zenon
      <4>5. /\ Len(PostedBy(o)') = Len(PostedBy(o)) /\ Len(Unposted(o)) = 0
            /\ Len(Unposted(o)') + Len(Queued(o)') = Len(Queued(o))
        BY <3>1, <4>1, <4>2, <4>3, Zenon
      <4>6. Len(Unposted(o)') \in Nat /\ Len(Queued(o)') \in Nat
        BY <4>1, <4>3, Zenon
      <4>7. /\ Len(PostedBy(o)) + Len(Unposted(o)) + Len(Queued(o)) = issued[o] /\ issued'[o] = issued[o]
            /\ Len(PostedBy(o)) \in Nat /\ Len(Queued(o)) \in Nat
        BY <4>1, <4>3 DEF Numbered
      <4>8. Len(PostedBy(o)') + Len(Unposted(o)') + Len(Queued(o)') = issued'[o]
        BY ONLY <4>5, <4>6, <4>7
      <4>9. QED
        BY <4>4, <4>8 DEF Numbered
    <3>4. QED
      BY <3>2, <3>3
  <2>7. ASSUME NEW p \in Objects, PostHandler(p) \/ PostOrphan(p) PROVE Numbered(o)'
    <3>1. PICK h \in Handler : /\ handlers' = Append(handlers, h) /\ h.obj = p
                               /\ h.id = running[p][1].id
      BY <2>7, PostsWhat
    <3>2. PostedBy(o)' = IF p = o THEN Append(PostedBy(o), h) ELSE PostedBy(o)
      BY <2>7, <3>1, PostedAppend DEF PostHandler, PostOrphan
    <3>3. CASE p # o
      BY <2>7, <3>2, <3>3, NumberedFrame DEF Queued, PostHandler, PostOrphan, ImplTypes, Unposted
    <3>4. CASE p = o
      <4>1. /\ Unposted(o) = running[o] /\ Unposted(o)' = <<>>
            /\ Queued(o)' = Queued(o) /\ issued' = issued /\ thr'[o] = "posted" /\ thr[o] # "exited"
            /\ Len(running[o]) = 1
        BY <2>7, <3>4 DEF PostHandler, PostOrphan, ImplTypes, Unposted, Places, Queued
      <4>2. /\ InLine(Append(PostedBy(o), h), <<>>, Queued(o))
            /\ Len(Append(PostedBy(o), h)) = Len(PostedBy(o)) + 1
        BY <3>1, <3>4, <4>1, LineTypes, LinePost DEF Numbered
      <4>3. Len(PostedBy(o)) \in Nat /\ Len(Queued(o)) \in Nat /\ Len(<<>>) = 0
        BY LineTypes
      <4>4. InLine(PostedBy(o)', Unposted(o)', Queued(o)')
        <5>1. PostedBy(o)' = Append(PostedBy(o), h) /\ Queued(o)' = Queued(o)
          BY <3>2, <3>4, <4>1
        <5>2. QED
          BY <4>1, <4>2, <5>1, Zenon
      <4>5. /\ Len(PostedBy(o)') = Len(PostedBy(o)) + 1 /\ Len(Unposted(o)') = 0
            /\ Len(Unposted(o)) = 1 /\ Len(Queued(o)') = Len(Queued(o))
        <5>1. PostedBy(o)' = Append(PostedBy(o), h)
          BY <3>2, <3>4
        <5>2. QED
          BY <4>1, <4>2, <4>3, <5>1, Zenon
      <4>6. Len(PostedBy(o)) + Len(Unposted(o)) + Len(Queued(o)) = issued[o] /\ issued'[o] = issued[o]
        BY <4>1 DEF Numbered
      <4>7. Len(PostedBy(o)') + Len(Unposted(o)') + Len(Queued(o)') = issued'[o]
        BY ONLY <4>3, <4>5, <4>6
      <4>8. QED
        BY <4>4, <4>7 DEF Numbered
    <3>5. QED
      BY <3>3, <3>4
  <2>8. ASSUME NEW p \in Objects,
               BeginCall(p) \/ FinishCall(p) \/ ReleaseRef(p) \/ DropOp(p) \/ ExitThread(p)
        PROVE  Numbered(o)'
    <3>1. /\ UNCHANGED <<ops, issued, handlers, ran>>
          /\ Unposted(o)' = Unposted(o)
          /\ thr[o] = "exited" => thr'[o] = "exited"
      BY <2>8 DEF BeginCall, FinishCall, ReleaseRef, DropOp, ExitThread, ImplTypes, Unposted
    <3>2. QED
      BY <3>1, NumberedFrame DEF Queued, PostedBy, Posted
  <2>9. QED
    BY <1>2, <2>1, <2>2, <2>3, <2>4, <2>5, <2>6, <2>7, <2>8, NextCases
<1>3. QED
  BY <1>1, <1>2

(***************************************************************************)
(* The line is what HandlersInOrder states.                                *)
(***************************************************************************)
LEMMA OrderedAnswers == TypeOK /\ Ordered => HandlersInOrder
<1> SUFFICES ASSUME TypeOK, Ordered, NEW o \in Objects
    PROVE  LET answered == [i \in 1 .. Len(PostedBy(o)) |-> PostedBy(o)[i].id]
               rest     == Unposted(o) \o ops[o]
               ids      == answered \o [i \in 1 .. Len(rest) |-> rest[i].id]
           IN  /\ ids = [i \in 1 .. Len(ids) |-> i]
               /\ thr[o] # "exited" => Len(ids) = issued[o]
  BY DEF HandlersInOrder
<1>1. ImplTypes /\ MainTypes /\ InLine(PostedBy(o), Unposted(o), Queued(o))
  BY TypeParts DEF Ordered, Numbered
<1>2. Counting(Ids(PostedBy(o)) \o Ids(Unposted(o) \o Queued(o)),
               Len(PostedBy(o)) + Len(Unposted(o)) + Len(Queued(o)))
  BY <1>1, LineTypes, LineIds
<1>3. thr[o] # "exited" => Len(PostedBy(o)) + Len(Unposted(o)) + Len(Queued(o)) = issued[o]
  BY DEF Ordered, Numbered
<1>4. QED
  BY <1>2, <1>3, Zenon DEF Counting, Ids, Queued

\* Safe always holds.
LEMMA SafeInv == Spec => []Safe
<1>1. Safe /\ [Next]_vars => Safe'
  BY BookkeepingStep, DestroysLateStep, NoSelfJoinStep DEF Safe
<1>2. QED
  BY SafeInit, <1>1, PTL DEF Spec

\* Ordered always holds.
LEMMA OrderedInv == Spec => []Ordered
<1>1. TypeOK /\ Ordered /\ [Next]_vars => Ordered'
  <2>1. TypeOK /\ Ordered /\ [Next]_vars => Gone'
    BY GoneStep DEF Ordered
  <2>2. ASSUME TypeOK, Ordered, [Next]_vars PROVE \A o \in Objects : Numbered(o)'
    BY <2>2, NumberedStep
  <2>3. QED
    BY <2>1, <2>2 DEF Ordered
<1>2. QED
  BY OrderedInit, <1>1, TypeCorrect, PTL DEF Spec

(***************************************************************************)
(* Each async call has its handler posted at most once and in the order of *)
(* the calls, and until the object is destroyed none is forgotten.         *)
(***************************************************************************)
THEOREM CallsAnsweredInOrder == Spec => []HandlersInOrder
BY OrderedInv, OrderedAnswers, TypeCorrect, PTL

-----------------------------------------------------------------------------
(***************************************************************************)
(* Once run() has returned no handler is left to run, because main is      *)
(* outside of it and the implementations have nothing to run.              *)
(***************************************************************************)
RunOver == mpc = "returned" => handlers = <<>>

(***************************************************************************)
(* run() returns only when no operation is left, so with policy            *)
(* "after_run" no thread has exited either and the line is made of         *)
(* handlers that ran.                                                      *)
(***************************************************************************)
LEMMA RunReturnStep ==
  ASSUME TypeOK, Safe, Ordered, RunReturn
  PROVE  RunOver' /\ RunAnswersAll'
<1>1. /\ handlers = <<>> /\ \A o \in Objects : ops[o] = <<>> /\ running[o] = <<>>
      /\ UNCHANGED <<handlers, ran, issued, policy>> /\ mpc = "run"
  BY DEF RunReturn, OutstandingWork, implVars
<1>2. ASSUME policy = "after_run", NEW o \in Objects
      PROVE  Len(Selected(ran, HandlersOf(o))) = issued[o]
  <2>1. ownerRef[o]
    BY <1>1, <1>2 DEF Safe, DestroysLate
  <2>2. thr[o] # "exited"
    BY <2>1 DEF Ordered, Gone
  <2>3. Posted = ran
    <3>1. ran \in Seq(Handler)
      BY TypeParts DEF MainTypes
    <3>2. QED
      BY <1>1, <3>1, ConcatEmptySeq DEF Posted
  <2>4. Unposted(o) = <<>> /\ Queued(o) = <<>>
    BY <1>1 DEF Unposted, Queued
  <2>5. Len(PostedBy(o)) + Len(Unposted(o)) + Len(Queued(o)) = issued[o]
    BY <2>2 DEF Ordered, Numbered
  <2>6. Len(PostedBy(o)) \in Nat
    BY TypeParts, LineTypes
  <2>7. Len(PostedBy(o)) = issued[o]
    BY <2>4, <2>5, <2>6
  <2>8. QED
    BY <2>3, <2>7 DEF PostedBy
<1>3. QED
  BY <1>1, <1>2 DEF RunOver, RunAnswersAll

(***************************************************************************)
(* Afterwards nothing posts or runs a handler, and nobody makes an async   *)
(* call.                                                                   *)
(***************************************************************************)
LEMMA RunOverStep ==
  ASSUME TypeOK, Safe, Ordered, RunOver, RunAnswersAll, [Next]_vars
  PROVE  RunOver' /\ RunAnswersAll'
<1>0. ChanTypes /\ ImplTypes /\ MainTypes /\ Bookkeeping
  BY TypeParts DEF Safe
<1>1. CASE RunReturn
  BY <1>1, RunReturnStep
<1>2. ASSUME ~RunReturn, mpc' = "returned"
      PROVE  /\ mpc = "returned" /\ UNCHANGED <<policy, issued, handlers>>
             /\ ran' = ran \/ SyncReturn
  <2>1. mpc = "returned" /\ UNCHANGED policy
    BY <1>2, NextCases
       DEF vars, mainVars, Async, Sync, Destroy, SyncReturn, RunHandler, DtorStop, DtorJoin,
           StartRun, HandlerReturn, TakeOp, BeginCall, FinishCall, PostHandler, PostOrphan,
           ReleaseRef, DropOp, ExitThread, ControlQueue
  <2>2. \A o \in Objects : thr[o] \in {"polling", "exited"}
    BY <1>0, <2>1 DEF Safe, DestroysLate, Bookkeeping
  <2>3. QED
    BY <1>2, <2>1, <2>2, NextCases
       DEF vars, Async, UserCode, Sync, Destroy, SyncReturn, RunHandler, DtorStop, DtorJoin,
           StartRun, HandlerReturn, TakeOp, BeginCall, FinishCall, PostHandler, PostOrphan,
           ReleaseRef, DropOp, ExitThread, ControlQueue
<1>3. ASSUME ~RunReturn PROVE RunOver' /\ RunAnswersAll'
  <2>1. RunOver'
    BY <1>2, <1>3 DEF RunOver
  <2>2. ASSUME mpc' = "returned", policy' = "after_run", NEW o \in Objects
        PROVE  Len(Selected(ran', HandlersOf(o))) = issued'[o]
    <3>1. Selected(ran', HandlersOf(o)) = Selected(ran, HandlersOf(o))
      BY <1>0, <1>2, <1>3, <2>2, SyncPosts
    <3>2. QED
      BY <1>2, <1>3, <2>2, <3>1 DEF RunAnswersAll
  <2>3. QED
    BY <2>1, <2>2 DEF RunAnswersAll
<1>4. QED
  BY <1>1, <1>3

(***************************************************************************)
(* When io_service::run has returned, every async call made has had its    *)
(* handler run, unless the object was destroyed under it.                  *)
(***************************************************************************)
THEOREM EveryCallAnswered == Spec => []RunAnswersAll
<1>1. Init => RunOver /\ RunAnswersAll
  BY DEF Init, RunOver, RunAnswersAll
<1>2. TypeOK /\ Safe /\ Ordered /\ (RunOver /\ RunAnswersAll) /\ [Next]_vars
        => (RunOver /\ RunAnswersAll)'
  BY RunOverStep
<1>3. QED
  BY <1>1, <1>2, SafeInv, OrderedInv, TypeCorrect, PTL DEF Spec

-----------------------------------------------------------------------------
(***************************************************************************)
(* The handlers of p whose item is y, and a set of one element.            *)
(***************************************************************************)
With(p, y) == {n \in 1 .. Len(p) : p[n].item = y}
One(S) == \E n : S = {n}

(***************************************************************************)
(* A handler inserted among others brings its own item and disturbs no     *)
(* other.                                                                  *)
(***************************************************************************)
LEMMA InsertedWith ==
  ASSUME NEW p \in Seq(Handler), NEW t \in Seq(Handler), NEW x \in Handler, Inserted(p, t, x), NEW y
  PROVE  /\ y # x.item /\ With(p, y) = {} => With(t, y) = {}
         /\ y # x.item /\ One(With(p, y)) => One(With(t, y))
         /\ y = x.item /\ With(p, y) = {} => One(With(t, y))
<1>1. PICK m \in 1 .. Len(p) + 1 :
         /\ Len(t) = Len(p) + 1 /\ t[m] = x
         /\ \A n \in 1 .. Len(p) + 1 : n < m => t[n] = p[n]
         /\ \A n \in 1 .. Len(p) + 1 : n > m => t[n] = p[n - 1]
  BY DEF Inserted
<1>2. Len(p) \in Nat
  BY LenProperties
<1> DEFINE old(n) == IF n < m THEN n ELSE n - 1
           new(n) == IF n < m THEN n ELSE n + 1
<1>3. \A n \in 1 .. Len(p) + 1 : n # m => old(n) \in 1 .. Len(p) /\ t[n] = p[old(n)] /\ new(old(n)) = n
  BY <1>1, <1>2
<1>4. \A n \in 1 .. Len(p) : /\ new(n) \in 1 .. Len(p) + 1 /\ new(n) # m
                             /\ old(new(n)) = n
  BY <1>1, <1>2
<1>5. \A n \in 1 .. Len(p) : t[new(n)] = p[n]
  BY <1>3, <1>4
<1> HIDE DEF old, new
<1>6. ASSUME y # x.item
      PROVE  /\ \A n \in With(t, y) : n # m /\ old(n) \in With(p, y) /\ new(old(n)) = n
             /\ \A n \in With(p, y) : new(n) \in With(t, y)
  BY <1>1, <1>3, <1>4, <1>5, <1>6 DEF With
<1>7. ASSUME y # x.item, With(p, y) = {} PROVE With(t, y) = {}
  BY <1>6, <1>7
<1>8. ASSUME y # x.item, One(With(p, y)) PROVE One(With(t, y))
  <2>1. PICK k : With(p, y) = {k}
    BY <1>8 DEF One
  <2>2. new(k) \in With(t, y)
    BY <1>6, <1>8, <2>1
  <2>3. \A n \in With(t, y) : n = new(k)
    BY <1>6, <1>8, <2>1
  <2>4. QED
    BY <2>2, <2>3 DEF One
<1>9. ASSUME y = x.item, With(p, y) = {} PROVE One(With(t, y))
  <2>1. \A n \in 1 .. Len(p) : p[n].item # y
    BY <1>9 DEF With
  <2>2. \A n \in 1 .. Len(p) + 1 : n # m => t[n].item # y
    BY <1>3, <2>1
  <2>3. With(t, y) = {m}
    BY <1>1, <1>9, <2>2 DEF With
  <2>4. QED
    BY <2>3 DEF One
<1>10. QED
  BY <1>7, <1>8, <1>9

(***************************************************************************)
(* What the calls under way are for. An implementation calls the queue for *)
(* the operation it runs, a push with the value of that async call; the    *)
(* call of a listener leaves an item if, and only if, it popped one.       *)
(***************************************************************************)
Asked ==
  \A o \in Objects : thr[o] \in {"calling", "finished"} =>
     /\ call[o].op = Doing(o).op /\ call[o].op \in CallsOf[o]
     /\ thr[o] = "calling" => Item(o) = IF call[o].op \in PushOps THEN <<o, Doing(o).id>> ELSE NoItem
     /\ thr[o] = "finished" /\ call[o].op \in PopOps /\ ec[o] = "success" => Item(o) \in Payloads
     /\ thr[o] = "finished" /\ o \in Listeners /\ ~(call[o].op \in PopOps /\ ec[o] = "success")
          => Item(o) = NoItem

(***************************************************************************)
(* main pushes one value of its own, once.                                 *)
(***************************************************************************)
MainAsked ==
  main \in pending /\ call[main].op \in PushOps =>
     Item(main) = <<main, 1>> /\ Item(main) \notin Range(sent)

\* Which operations each caller uses.
LEMMA CallsAre == /\ \A o \in Senders : CallsOf[o] = EnqOps
                  /\ \A o \in Listeners : CallsOf[o] = DeqOps
                  /\ CallsOf[main] = SyncOps
BY ObjectsAssumption DEF CallsOf, Callers, Objects

\* The classes of operations that exclude each other.
LEMMA OpsDiffer == /\ PushOps \cap DeqOps = {} /\ PopOps \cap EnqOps = {} /\ PopOps \subseteq DeqOps
                   /\ PushOps \subseteq EnqOps /\ PushOps \cap PopOps = {}
                   /\ (WaitEnqOps \cup WaitDeqOps) \cap (PushOps \cup PopOps) = {}
BY DEF PushOps, DeqOps, PopOps, EnqOps, WaitDeqOps, WaitEnqOps

(***************************************************************************)
(* What a call that returns leaves in the queue and in the caller's        *)
(* variables.                                                              *)
(***************************************************************************)
LEMMA FinishEffect ==
  ASSUME ChanTypes, NEW t \in Callers, Chan!Finish(t)
  PROVE  /\ \A c \in Callers : c # t => call'[c] = call[c] /\ ec'[c] = ec[c]
         /\ call'[t].op = call[t].op
         /\ t \in pending /\ pending' = pending \ {t}
         /\ \/ /\ call[t].op \in PushOps /\ ec'[t] = "success" /\ call'[t] = call[t]
               /\ sent' = Append(sent, Item(t)) /\ received' = received
            \/ /\ call[t].op \in PopOps /\ ec'[t] = "success" /\ sent' = sent
               /\ Len(received) < Len(sent)
               /\ received' = Append(received, sent[Len(received) + 1])
               /\ Item(t)' = sent[Len(received) + 1]
            \/ /\ call'[t] = call[t] /\ sent' = sent /\ received' = received
               /\ ec'[t] = "success" => call[t].op \notin PopOps
<1> USE DEF ChanTypes, Chan!Return, Item
<1>1. CASE Chan!Accept(t)
  BY <1>1, SameOps DEF Chan!Accept
<1>2. CASE Chan!Deliver(t)
  <2>1. Len(received) < Len(sent)
    BY <1>2 DEF Chan!Deliver, Chan!Stored
  <2>2. QED
    BY <1>2, <2>1, SameOps DEF Chan!Deliver, Calling
<1>3. CASE Chan!Grant(t)
  <2>1. call[t].op \notin PopOps
    BY <1>3, OpsDiffer DEF Chan!Grant, Chan!WaitEnqOps, Chan!WaitDeqOps, WaitEnqOps, WaitDeqOps
  <2>2. QED
    BY <1>3, <2>1 DEF Chan!Grant
<1>4. CASE Chan!Refuse(t)
  BY <1>4 DEF Chan!Refuse
<1>5. CASE Chan!TimeOut(t)
  BY <1>5 DEF Chan!TimeOut
<1>6. QED
  BY <1>1, <1>2, <1>3, <1>4, <1>5 DEF Chan!Finish

(***************************************************************************)
(* Every step keeps what the calls are for.                                *)
(***************************************************************************)
LEMMA AskedFrame ==
  ASSUME Asked, NEW o \in Objects, call'[o] = call[o], ec'[o] = ec[o], running'[o] = running[o],
         thr'[o] \in {"calling", "finished"} => thr'[o] = thr[o]
  PROVE  thr'[o] \in {"calling", "finished"} =>
     /\ call'[o].op = Doing(o)'.op /\ call'[o].op \in CallsOf[o]
     /\ thr'[o] = "calling" => Item(o)' = IF call'[o].op \in PushOps THEN <<o, Doing(o)'.id>> ELSE NoItem
     /\ thr'[o] = "finished" /\ call'[o].op \in PopOps /\ ec'[o] = "success" => Item(o)' \in Payloads
     /\ thr'[o] = "finished" /\ o \in Listeners /\ ~(call'[o].op \in PopOps /\ ec'[o] = "success")
          => Item(o)' = NoItem
BY DEF Asked, Item, Doing

\* Every step keeps what a call asks for and what it is given apart from other calls.
LEMMA AskedStep ==
  ASSUME TypeOK, Asked, [Next]_vars
  PROVE  Asked'
<1>0. ChanTypes /\ ImplTypes /\ MainTypes /\ Places
  BY TypeParts
<1> USE <1>0
<1>1. CASE UNCHANGED <<call, ec, running, thr>>
  BY <1>1 DEF Asked, Item, Doing
<1>2. ASSUME NEW p \in Objects, TakeOp(p) \/ PostHandler(p) \/ PostOrphan(p)
                                \/ ReleaseRef(p) \/ DropOp(p) \/ ExitThread(p)
      PROVE  Asked'
  <2>1. ASSUME NEW o \in Objects
        PROVE /\ call'[o] = call[o] /\ ec'[o] = ec[o]
              /\ thr'[o] \in {"calling", "finished"} => thr'[o] = thr[o] /\ running'[o] = running[o]
    BY <1>2 DEF TakeOp, PostHandler, PostOrphan, ReleaseRef, DropOp, ExitThread, chanVars, ImplTypes
  <2>2. QED
    BY <2>1, AskedFrame DEF Asked, Item, Doing
<1>3. ASSUME NEW p \in Objects, BeginCall(p) PROVE Asked'
  <2>1. /\ call' = [call EXCEPT ![p] = [op |-> Doing(p).op,
                       item |-> IF Doing(p).op \in PushOps THEN <<p, Doing(p).id>> ELSE NoItem]]
        /\ ec' = [ec EXCEPT ![p] = "success"]
        /\ Doing(p).op \in CallsOf[p]
        /\ running' = running /\ thr' = [thr EXCEPT ![p] = "calling"]
    BY <1>3 DEF BeginCall, Chan!Invoke, Doing
  <2>2. ASSUME NEW o \in Objects, o # p
        PROVE /\ call'[o] = call[o] /\ ec'[o] = ec[o] /\ thr'[o] = thr[o] /\ running'[o] = running[o]
    BY <2>1, <2>2, CallersAre DEF ChanTypes, ImplTypes
  <2>3. /\ call'[p].op = Doing(p)'.op /\ call'[p].op \in CallsOf[p] /\ thr'[p] = "calling"
        /\ Item(p)' = IF call'[p].op \in PushOps THEN <<p, Doing(p)'.id>> ELSE NoItem
    BY <2>1, CallersAre DEF ChanTypes, ImplTypes, Item, Doing
  <2>4. QED
    BY <2>2, <2>3, AskedFrame DEF Asked
<1>4. ASSUME NEW p \in Objects, FinishCall(p) PROVE Asked'
  <2>1. Chan!Finish(p) /\ thr[p] = "calling" /\ thr' = [thr EXCEPT ![p] = "finished"]
        /\ running' = running /\ p \in Callers
    BY <1>4, CallersAre DEF FinishCall
  <2>2. ASSUME NEW o \in Objects, o # p
        PROVE /\ call'[o] = call[o] /\ ec'[o] = ec[o] /\ thr'[o] = thr[o] /\ running'[o] = running[o]
    BY <2>1, <2>2, FinishEffect, CallersAre DEF ImplTypes
  <2>3. /\ call'[p].op = Doing(p)'.op /\ call'[p].op \in CallsOf[p] /\ thr'[p] = "finished"
        /\ call[p].op = call'[p].op
        /\ Item(p) = IF call[p].op \in PushOps THEN <<p, Doing(p).id>> ELSE NoItem
    BY <2>1, FinishEffect DEF Asked, Doing, ImplTypes
  <2>4. call'[p].op \in PopOps /\ ec'[p] = "success" => Item(p)' \in Payloads
    <3>1. ASSUME Len(received) < Len(sent) PROVE sent[Len(received) + 1] \in Payloads
      BY <3>1 DEF ChanTypes
    <3>2. QED
      BY <2>1, <2>3, <3>1, FinishEffect, OpsDiffer
  <2>5. p \in Listeners /\ ~(call'[p].op \in PopOps /\ ec'[p] = "success") => Item(p)' = NoItem
    <3>1. p \in Listeners => call[p].op \notin PushOps
      BY <2>3, CallsAre, OpsDiffer
    <3>2. ~(call'[p].op \in PopOps /\ ec'[p] = "success") => call'[p] = call[p]
      BY <2>1, <2>3, FinishEffect
    <3>3. QED
      BY <2>3, <3>1, <3>2 DEF Item
  <2>6. QED
    BY <2>2, <2>3, <2>4, <2>5, AskedFrame DEF Asked
<1>5. ASSUME NEW op \in SyncOps, Sync(op) PROVE Asked'
  <2>1. ASSUME NEW o \in Objects
        PROVE /\ call'[o] = call[o] /\ ec'[o] = ec[o] /\ thr'[o] = thr[o] /\ running'[o] = running[o]
    BY <1>5, CallersAre DEF Sync, Chan!Invoke, ChanTypes, implVars
  <2>2. QED
    BY <2>1, AskedFrame DEF Asked
<1>6. CASE SyncReturn
  <2>1. ASSUME NEW o \in Objects
        PROVE /\ call'[o] = call[o] /\ ec'[o] = ec[o] /\ thr'[o] = thr[o] /\ running'[o] = running[o]
    BY <1>6, CallersAre, FinishEffect DEF SyncReturn, implVars
  <2>2. QED
    BY <2>1, AskedFrame DEF Asked
<1>7. QED
  <2>1. CASE UNCHANGED vars
    BY <1>1, <2>1 DEF vars, chanVars, implVars
  <2>2. CASE Next
    BY <1>1, <1>2, <1>3, <1>4, <1>5, <1>6, <2>2, NextCases
       DEF Async, Destroy, RunHandler, RunReturn, DtorStop, DtorJoin, StartRun, HandlerReturn,
           ControlQueue, Chan!Control, chanVars, implVars
  <2>3. QED
    BY <2>1, <2>2

(***************************************************************************)
(* The traffic of the queue: it hands out what was pushed, in that order,  *)
(* and no value was pushed twice, because a value carries the number of    *)
(* its call and the calls are in line: what an object has pushed so far    *)
(* has been answered or is about to be.                                    *)
(***************************************************************************)
Sent(y) == y \in Range(sent)
Done(o) == Len(PostedBy(o)) + (IF thr[o] = "finished" THEN 1 ELSE 0)

SentOnce ==
  /\ Len(received) <= Len(sent) /\ \A i \in 1 .. Len(received) : received[i] = sent[i]
  /\ IsInjective(sent)
  /\ \A o \in Objects, n \in 1 .. MaxOps : Sent(<<o, n>>) => n <= Done(o)

Traffic == SentOnce /\ MainAsked

(***************************************************************************)
(* Delivering an item that was not delivered before, and pushing one that  *)
(* was not pushed before.                                                  *)
(***************************************************************************)
LEMMA Fresh ==
  ASSUME ChanTypes, SentOnce, Len(received) < Len(sent), NEW x, x = sent[Len(received) + 1],
         received' = Append(received, x)
  PROVE  /\ x \in Payloads /\ x \notin Range(received)
         /\ Range(received') = Range(received) \cup {x}
         /\ Len(received') <= Len(sent) /\ \A i \in 1 .. Len(received') : received'[i] = sent[i]
<1>1. sent \in Seq(Payloads) /\ received \in Seq(Payloads) /\ Len(sent) \in Nat /\ Len(received) \in Nat
      /\ DOMAIN sent = 1 .. Len(sent) /\ DOMAIN received = 1 .. Len(received)
  BY DEF ChanTypes
<1>2. Len(received) + 1 \in 1 .. Len(sent) /\ x \in Payloads
  BY <1>1
<1>3. x \notin Range(received)
  <2>1. ASSUME NEW i \in 1 .. Len(received), received[i] = x PROVE FALSE
    <3>1. i \in 1 .. Len(sent) /\ sent[i] = sent[Len(received) + 1] /\ i # Len(received) + 1
      BY <1>1, <1>2, <2>1 DEF SentOnce
    <3>2. QED
      BY <1>1, <1>2, <3>1 DEF SentOnce, IsInjective
  <2>2. QED
    BY <1>1, <2>1 DEF Range
<1>4. Range(received') = Range(received) \cup {x}
  BY <1>1, <1>2, AppendNew
<1>5. /\ Len(received') = Len(received) + 1 /\ received'[Len(received) + 1] = x
      /\ \A i \in 1 .. Len(received) : received'[i] = received[i]
  BY <1>1, <1>2
<1>6. ASSUME NEW i \in 1 .. Len(received') PROVE received'[i] = sent[i]
  <2>1. CASE i = Len(received) + 1
    BY <1>5, <2>1
  <2>2. CASE i # Len(received) + 1
    <3>1. i \in 1 .. Len(received)
      BY <1>1, <1>5, <2>2
    <3>2. QED
      BY <1>5, <3>1 DEF SentOnce
  <2>3. QED
    BY <2>1, <2>2
<1>7. QED
  BY <1>1, <1>2, <1>3, <1>4, <1>5, <1>6

\* Accepting an item that was never sent keeps the items sent different from each other.
LEMMA SentMore ==
  ASSUME ChanTypes, SentOnce, NEW x \in Payloads, ~Sent(x), sent' = Append(sent, x)
  PROVE  /\ IsInjective(sent') /\ \A y : Sent(y)' <=> Sent(y) \/ y = x
         /\ Len(received) <= Len(sent') /\ \A i \in 1 .. Len(received) : received[i] = sent'[i]
<1>1. sent \in Seq(Payloads) /\ received \in Seq(Payloads) /\ Len(sent) \in Nat /\ Len(received) \in Nat
  BY DEF ChanTypes
<1>2. IsInjective(sent') /\ Range(sent') = Range(sent) \cup {x}
  BY <1>1, AppendNew DEF SentOnce, Sent
<1>3. /\ Len(sent') = Len(sent) + 1
      /\ \A i \in 1 .. Len(sent) : sent'[i] = sent[i]
  BY <1>1
<1>4. QED
  BY <1>1, <1>2, <1>3 DEF SentOnce, Sent

(***************************************************************************)
(* What an object has done only grows.                                     *)
(***************************************************************************)
LEMMA DoneGrows ==
  ASSUME TypeOK, [Next]_vars, NEW o \in Objects
  PROVE  Done(o) \in Nat /\ Done(o)' \in Nat /\ Done(o) <= Done(o)'
<1>0. ChanTypes /\ ImplTypes /\ MainTypes /\ Places /\ Len(PostedBy(o)) \in Nat
  BY TypeParts, LineTypes
<1> USE <1>0
<1>1. Done(o) \in Nat
  BY DEF Done
<1>2. CASE PostedBy(o)' = PostedBy(o) /\ (thr[o] = "finished" => thr'[o] = "finished")
  BY <1>2 DEF Done
<1>3. ASSUME NEW p \in Objects, PostHandler(p) \/ PostOrphan(p) PROVE Done(o)' \in Nat /\ Done(o) <= Done(o)'
  <2>1. PICK h \in Handler : /\ handlers' = Append(handlers, h) /\ h.obj = p
    BY <1>3, PostsWhat
  <2>2. PostedBy(o)' = IF p = o THEN Append(PostedBy(o), h) ELSE PostedBy(o)
    BY <1>3, <2>1, PostedAppend DEF PostHandler, PostOrphan
  <2>3. CASE p # o
    BY <1>2, <1>1, <1>3, <2>2, <2>3 DEF PostHandler, PostOrphan, ImplTypes
  <2>4. CASE p = o
    <3>1. thr'[o] = "posted"
      BY <1>3, <2>4 DEF PostHandler, PostOrphan, ImplTypes
    <3>2. PICK b \in Seq(Handler) : b = PostedBy(o)
      BY PostedTypes
    <3>3. Len(Append(b, h)) = Len(b) + 1
      BY AppendProperties
    <3>4. Len(PostedBy(o)') = Len(PostedBy(o)) + 1
      BY <2>2, <2>4, <3>2, <3>3, Zenon
    <3>5. QED
      BY <3>1, <3>4 DEF Done
  <2>5. QED
    BY <2>3, <2>4
<1>4. QED
  <2>1. CASE UNCHANGED vars
    BY <1>1, <1>2, <2>1 DEF vars, implVars, PostedBy, Posted
  <2>2. CASE RunHandler
    BY <1>1, <1>2, <2>2, PostedRun DEF RunHandler, implVars
  <2>3. CASE SyncReturn
    BY <1>1, <1>2, <2>3, SyncPosts DEF SyncReturn, implVars
  <2>4. ASSUME NEW p \in Objects, \/ TakeOp(p) \/ BeginCall(p) \/ FinishCall(p)
                                  \/ ReleaseRef(p) \/ DropOp(p) \/ ExitThread(p)
        PROVE  PostedBy(o)' = PostedBy(o) /\ (thr[o] = "finished" => thr'[o] = "finished")
    BY <2>4 DEF TakeOp, BeginCall, FinishCall, ReleaseRef, DropOp, ExitThread, ImplTypes, PostedBy, Posted
  <2>5. CASE \/ \E p \in Objects, op \in BlockingOps : Async(p, op)
             \/ \E op \in SyncOps : Sync(op)
             \/ \E p \in Objects : Destroy(p)
             \/ RunReturn \/ DtorStop \/ DtorJoin \/ StartRun \/ HandlerReturn
             \/ \E c \in Controllers : ControlQueue(c)
    <3>1. UNCHANGED <<thr, handlers, ran>>
      BY <2>5 DEF Async, Sync, Destroy, RunReturn, DtorStop, DtorJoin, StartRun, HandlerReturn,
                  ControlQueue, implVars
    <3>2. QED
      BY <1>1, <1>2, <3>1 DEF PostedBy, Posted
  <2>6. CASE Next
    BY <1>1, <1>2, <1>3, <2>2, <2>3, <2>4, <2>5, <2>6, NextCases
  <2>7. QED
    BY <2>1, <2>6

(***************************************************************************)
(* Every step keeps the traffic.                                           *)
(***************************************************************************)
LEMMA TrafficFrame ==
  ASSUME TypeOK, Traffic, [Next]_vars, UNCHANGED <<sent, received>>,
         main \in pending' => main \in pending /\ call'[main] = call[main]
  PROVE  Traffic'
<1>1. \A o \in Objects : Done(o) \in Nat /\ Done(o)' \in Nat /\ Done(o) <= Done(o)'
  BY DoneGrows
<1>2. SentOnce'
  BY <1>1 DEF Traffic, SentOnce, Sent
<1>3. MainAsked'
  BY DEF Traffic, MainAsked, Item
<1>4. QED
  BY <1>2, <1>3 DEF Traffic

\* Every step keeps what is known of the items sent and received.
LEMMA TrafficStep ==
  ASSUME TypeOK, Ordered, Asked, Traffic, [Next]_vars
  PROVE  Traffic'
<1>0. ChanTypes /\ ImplTypes /\ MainTypes /\ Places
  BY TypeParts
<1> USE <1>0
<1>1. \A o \in Objects : Done(o) \in Nat /\ Done(o)' \in Nat /\ Done(o) <= Done(o)'
  BY DoneGrows
<1>2. ASSUME NEW t \in Callers, Chan!Finish(t),
             call[t].op \in PushOps =>
                /\ ~Sent(Item(t))
                /\ \A o \in Objects, n \in 1 .. MaxOps : Item(t) = <<o, n>> => n <= Done(o)'
                /\ main \in pending /\ t # main /\ call[main].op \in PushOps => Item(t) # Item(main)
      PROVE  Traffic'
  <2>1. main \in pending' => main # t /\ main \in pending /\ call'[main] = call[main]
    BY <1>2, FinishEffect, CallersAre
  <2>2. CASE UNCHANGED <<sent, received>>
    BY <2>1, <2>2, TrafficFrame
  <2>3. CASE call[t].op \in PushOps /\ sent' = Append(sent, Item(t)) /\ received' = received
    <3>1. Item(t) \in Payloads
      BY <1>2, <2>3, FinishEffect DEF ChanTypes, Item
    <3>2. /\ IsInjective(sent') /\ \A y : Sent(y)' <=> Sent(y) \/ y = Item(t)
          /\ Len(received) <= Len(sent') /\ \A i \in 1 .. Len(received) : received[i] = sent'[i]
      BY <1>2, <2>3, <3>1, SentMore DEF Traffic
    <3>3. ASSUME NEW o \in Objects, NEW n \in 1 .. MaxOps, Sent(<<o, n>>)' PROVE n <= Done(o)'
      BY <1>1, <1>2, <2>3, <3>2, <3>3, MaxOpsAssumption DEF Traffic, SentOnce
    <3>4. SentOnce'
      BY <2>3, <3>2, <3>3 DEF SentOnce
    <3>5. MainAsked'
      <4>1. ASSUME main \in pending', call'[main].op \in PushOps
            PROVE  Item(main)' = <<main, 1>> /\ Item(main)' \notin Range(sent')
        <5>1. Item(main)' = Item(main) /\ Item(main) = <<main, 1>> /\ ~Sent(Item(main))
          BY <2>1, <4>1 DEF Traffic, MainAsked, Item, Sent
        <5>2. Item(t) # Item(main)
          BY <1>2, <2>1, <2>3, <4>1
        <5>3. ~Sent(Item(main))'
          BY <3>2, <5>1, <5>2
        <5>4. QED
          BY <5>1, <5>3 DEF Sent
      <4>2. QED
        BY <4>1 DEF MainAsked
    <3>6. QED
      BY <3>4, <3>5 DEF Traffic
  <2>4. CASE /\ sent' = sent /\ Len(received) < Len(sent)
             /\ received' = Append(received, sent[Len(received) + 1])
    <3>1. Len(received') <= Len(sent) /\ \A i \in 1 .. Len(received') : received'[i] = sent[i]
      BY <2>4, Fresh DEF Traffic
    <3>2. SentOnce'
      BY <1>1, <2>4, <3>1, MaxOpsAssumption DEF Traffic, SentOnce, Sent
    <3>3. MainAsked'
      BY <2>1, <2>4 DEF Traffic, MainAsked, Item
    <3>4. QED
      BY <3>2, <3>3 DEF Traffic
  <2>5. QED
    BY <1>2, <2>2, <2>3, <2>4, FinishEffect
<1>3. ASSUME NEW p \in Objects, FinishCall(p) PROVE Traffic'
  <2>1. Chan!Finish(p) /\ thr[p] = "calling" /\ thr'[p] = "finished" /\ p \in Callers
        /\ PostedBy(p)' = PostedBy(p)
    BY <1>3, CallersAre DEF FinishCall, ImplTypes, PostedBy, Posted
  <2>2. Doing(p).id = Len(PostedBy(p)) + 1 /\ Doing(p).id \in Nat
    <3>1. Unposted(p) = running[p] /\ Len(running[p]) = 1
      BY <2>1 DEF Unposted, Places
    <3>2. InLine(PostedBy(p), Unposted(p), Queued(p))
      BY DEF Ordered, Numbered
    <3>3. Len(PostedBy(p)) \in Nat
      BY LineTypes
    <3>4. PICK u : u = Unposted(p)
      OBVIOUS
    <3>5. Len(u) = 1 /\ u[1].id = Len(PostedBy(p)) + 1
      BY <3>1, <3>2, <3>3, <3>4 DEF InLine
    <3>6. QED
      BY <3>1, <3>3, <3>4, <3>5 DEF Doing
  <2>3. Done(p) = Len(PostedBy(p)) /\ Done(p)' = Len(PostedBy(p)) + 1 /\ Len(PostedBy(p)) \in Nat
    BY <2>1, LineTypes DEF Done
  <2>4. call[p].op \in PushOps => Item(p) = <<p, Doing(p).id>>
    BY <2>1 DEF Asked
  <2>5. ASSUME call[p].op \in PushOps PROVE ~Sent(Item(p))
    <3>1. Item(p) \in Payloads
      BY <2>1, <2>5 DEF ChanTypes, Chan!Finish, Chan!Accept, Chan!Deliver, Chan!Grant, Chan!Refuse,
                        Chan!TimeOut, Item
    <3>2. Doing(p).id \in 1 .. MaxOps
      BY <2>4, <2>5, <3>1 DEF Payloads
    <3>3. QED
      BY <2>2, <2>3, <2>4, <2>5, <3>2 DEF Traffic, SentOnce
  <2>6. \A o \in Objects, n \in 1 .. MaxOps : Item(p) = <<o, n>> /\ call[p].op \in PushOps => n <= Done(o)'
    BY <2>2, <2>3, <2>4
  <2>7. main \in pending /\ call[main].op \in PushOps /\ call[p].op \in PushOps => Item(p) # Item(main)
    BY <2>4, CallersAre DEF Traffic, MainAsked
  <2>8. QED
    BY <1>2, <2>1, <2>5, <2>6, <2>7
<1>4. CASE SyncReturn
  <2>1. Chan!Finish(main) /\ main \in Callers /\ main \in pending
    BY <1>4, CallersAre, FinishEffect DEF SyncReturn
  <2>2. call[main].op \in PushOps => Item(main) = <<main, 1>> /\ ~Sent(Item(main))
    BY <2>1 DEF Traffic, MainAsked, Sent
  <2>3. \A o \in Objects, n \in 1 .. MaxOps : <<main, 1>> # <<o, n>>
    BY CallersAre
  <2>4. QED
    BY <1>2, <2>1, <2>2, <2>3
<1>5. ASSUME NEW op \in SyncOps, Sync(op) PROVE Traffic'
  <2>1. UNCHANGED <<sent, received>> /\ <<main, 1>> \notin Range(sent)
    BY <1>5 DEF Sync, Chan!Invoke
  <2>2. call'[main].op \in PushOps => Item(main)' = <<main, 1>>
    <3>1. PICK x \in {NoItem, <<main, 1>>} : Chan!Invoke(main, op, x)
      BY <1>5 DEF Sync
    <3>2. call'[main] = [op |-> op, item |-> x] /\ (op \in PushOps => x \in Payloads)
      BY <3>1, CallersAre, SameOps DEF Chan!Invoke, ChanTypes
    <3>3. QED
      BY <3>1, <3>2, NoItemAssumption DEF Item
  <2>3. SentOnce'
    BY <1>1, <2>1, MaxOpsAssumption DEF Traffic, SentOnce, Sent
  <2>4. MainAsked'
    BY <2>1, <2>2 DEF MainAsked
  <2>5. QED
    BY <2>3, <2>4 DEF Traffic
<1>6. ASSUME NEW p \in Objects, BeginCall(p) PROVE Traffic'
  <2>1. UNCHANGED <<sent, received>> /\ (main \in pending' => main \in pending /\ call'[main] = call[main])
    BY <1>6, CallersAre DEF BeginCall, Chan!Invoke, ChanTypes
  <2>2. QED
    BY <2>1, TrafficFrame
<1>7. CASE UNCHANGED <<sent, received, pending, call>>
  BY <1>7, TrafficFrame
<1>8. QED
  <2>1. CASE UNCHANGED vars
    BY <1>7, <2>1 DEF vars, chanVars
  <2>2. CASE Next
    BY <1>3, <1>4, <1>5, <1>6, <1>7, <2>2, NextCases
       DEF Async, Destroy, RunHandler, RunReturn, DtorStop, DtorJoin, StartRun, HandlerReturn,
           ControlQueue, Chan!Control, chanVars, TakeOp, PostHandler, PostOrphan, ReleaseRef,
           DropOp, ExitThread
  <2>3. QED
    BY <2>1, <2>2

(***************************************************************************)
(* Where the items are: one that was delivered is with one handler or with *)
(* one listener on its way to post it, and one that was not is nowhere.    *)
(***************************************************************************)
Held(y) == With(Posted, y)
Holders(y) == {c \in Listeners : thr[c] = "finished" /\ ec[c] = "success" /\ call[c].item = y}

Delivered(y) == y \in Range(received)

Placed(y) ==
  IF Delivered(y) THEN \/ One(Held(y)) /\ Holders(y) = {}
                       \/ Held(y) = {} /\ One(Holders(y))
  ELSE Held(y) = {} /\ Holders(y) = {}

PlacedOnce == \A y \in Payloads : Placed(y)

(***************************************************************************)
(* Only a call that returns and a handler that is posted change what the   *)
(* listeners have in hand.                                                 *)
(***************************************************************************)
LEMMA HoldersFrame ==
  ASSUME TypeOK, Asked, [Next]_vars, ~ \E p \in Objects : FinishCall(p) \/ PostHandler(p)
  PROVE  \A y : Holders(y)' = Holders(y)
<1>0. ChanTypes /\ ImplTypes /\ MainTypes /\ Places
  BY TypeParts
<1> USE <1>0
<1>1. SUFFICES ASSUME NEW c \in Listeners
      PROVE  \/ thr'[c] # "finished" /\ thr[c] # "finished"
             \/ thr'[c] = thr[c] /\ ec'[c] = ec[c] /\ call'[c] = call[c]
  BY DEF Holders
<1>2. c \in Objects
  BY DEF Objects
<1>3. ASSUME NEW p \in Objects, \/ TakeOp(p) \/ PostOrphan(p) \/ ReleaseRef(p) \/ DropOp(p) \/ ExitThread(p)
      PROVE  \/ thr'[c] # "finished" /\ thr[c] # "finished"
             \/ thr'[c] = thr[c] /\ ec'[c] = ec[c] /\ call'[c] = call[c]
  BY <1>2, <1>3 DEF TakeOp, PostOrphan, ReleaseRef, DropOp, ExitThread, ImplTypes, chanVars
<1>4. ASSUME NEW p \in Objects, BeginCall(p)
      PROVE  \/ thr'[c] # "finished" /\ thr[c] # "finished"
             \/ thr'[c] = thr[c] /\ ec'[c] = ec[c] /\ call'[c] = call[c]
  BY <1>2, <1>4, CallersAre DEF BeginCall, Chan!Invoke, ImplTypes, ChanTypes
<1>5. ASSUME NEW op \in SyncOps, Sync(op)
      PROVE  thr'[c] = thr[c] /\ ec'[c] = ec[c] /\ call'[c] = call[c]
  BY <1>2, <1>5, CallersAre DEF Sync, Chan!Invoke, ChanTypes, implVars
<1>6. CASE SyncReturn
  BY <1>2, <1>6, CallersAre, FinishEffect DEF SyncReturn, implVars
<1>7. CASE UNCHANGED <<thr, ec, call>>
  BY <1>7
<1>8. QED
  <2>1. CASE UNCHANGED vars
    BY <1>7, <2>1 DEF vars, chanVars, implVars
  <2>2. CASE Next
    BY <1>3, <1>4, <1>5, <1>6, <1>7, <2>2, NextCases
       DEF Async, Destroy, RunHandler, RunReturn, DtorStop, DtorJoin, StartRun, HandlerReturn,
           ControlQueue, Chan!Control, chanVars, implVars
  <2>3. QED
    BY <2>1, <2>2

(***************************************************************************)
(* A handler is posted at the end, and what sync_deq returned goes in      *)
(* front of the handlers not run: either way one item is added.            *)
(***************************************************************************)
LEMMA PostedInserts ==
  ASSUME MainTypes, NEW h \in Handler,
         \/ handlers' = Append(handlers, h) /\ ran' = ran
         \/ ran' = Append(ran, h) /\ handlers' = handlers
  PROVE  Inserted(Posted, Posted', h) /\ Posted' \in Seq(Handler)
<1>1. ran \in Seq(Handler) /\ handlers \in Seq(Handler) /\ Posted \in Seq(Handler)
  BY PostedTypes DEF MainTypes
<1>2. CASE handlers' = Append(handlers, h) /\ ran' = ran
  <2>1. Posted' = Append(Posted, h)
    BY <1>2, PostedAppend
  <2>2. Inserted(Posted, Append(Posted, h), h) /\ Append(Posted, h) \in Seq(Handler)
    BY <1>1, AppendInserts, AppendProperties
  <2>3. QED
    BY <2>1, <2>2, Zenon
<1>3. CASE ran' = Append(ran, h) /\ handlers' = handlers
  <2>1. Posted' = Append(ran, h) \o handlers /\ Posted = ran \o handlers
    BY <1>3, Zenon DEF Posted
  <2>2. Inserted(ran \o handlers, Append(ran, h) \o handlers, h)
    BY <1>1, MiddleInserts
  <2>3. Append(ran, h) \o handlers \in Seq(Handler)
    BY <1>1, AppendProperties, ConcatProperties
  <2>4. QED
    BY <2>1, <2>2, <2>3, Zenon
<1>4. QED
  BY <1>2, <1>3

\* A handler posted or run holds its item, and changes nothing about the others.
LEMMA HeldInserts ==
  ASSUME MainTypes, NEW h \in Handler,
         \/ handlers' = Append(handlers, h) /\ ran' = ran
         \/ ran' = Append(ran, h) /\ handlers' = handlers,
         NEW y
  PROVE  /\ y # h.item /\ Held(y) = {} => Held(y)' = {}
         /\ y # h.item /\ One(Held(y)) => One(Held(y)')
         /\ y = h.item /\ Held(y) = {} => One(Held(y)')
<1>1. PICK t \in Seq(Handler) : t = Posted' /\ Inserted(Posted, t, h)
  BY PostedInserts
<1>2. PICK p \in Seq(Handler) : p = Posted
  BY PostedTypes
<1>3. Held(y) = With(p, y) /\ Held(y)' = With(t, y)
  BY <1>1, <1>2 DEF Held
<1>4. QED
  BY <1>1, <1>2, <1>3, InsertedWith

(***************************************************************************)
(* A delivery is of an item that was not delivered before.                 *)
(***************************************************************************)
LEMMA DeliverPlaces ==
  ASSUME ChanTypes, Traffic, NEW x, Len(received) < Len(sent), x = sent[Len(received) + 1],
         received' = Append(received, x)
  PROVE  x \in Payloads /\ ~Delivered(x) /\ \A y : Delivered(y)' <=> Delivered(y) \/ y = x
BY Fresh DEF Traffic, Delivered

(***************************************************************************)
(* Every step keeps each item in its one place.                            *)
(***************************************************************************)
LEMMA PlacedStep ==
  ASSUME TypeOK, Asked, Traffic, PlacedOnce, [Next]_vars
  PROVE  PlacedOnce'
<1>0. ChanTypes /\ ImplTypes /\ MainTypes /\ Places
  BY TypeParts
<1> USE <1>0
<1>1. ASSUME \A y \in Payloads : Held(y)' = Held(y) /\ Holders(y)' = Holders(y) /\ (Delivered(y)' <=> Delivered(y))
      PROVE  PlacedOnce'
  BY <1>1 DEF PlacedOnce, Placed
<1>2. ASSUME NEW p \in Objects, FinishCall(p) PROVE PlacedOnce'
  <2>1. /\ Chan!Finish(p) /\ p \in Callers /\ thr[p] = "calling" /\ thr' = [thr EXCEPT ![p] = "finished"]
        /\ Posted' = Posted
    BY <1>2, CallersAre DEF FinishCall, Posted
  <2>2. \A c \in Listeners : c # p => call'[c] = call[c] /\ ec'[c] = ec[c] /\ thr'[c] = thr[c]
    BY <2>1, FinishEffect, CallersAre DEF Objects, ImplTypes
  <2>3. thr'[p] = "finished"
    BY <2>1 DEF ImplTypes
  <2>4. \A y : Held(y)' = Held(y)
    BY <2>1 DEF Held
  <2>5. ASSUME NEW y, ~(p \in Listeners /\ ec'[p] = "success" /\ Item(p)' = y) PROVE Holders(y)' = Holders(y)
    BY <2>1, <2>2, <2>3, <2>5 DEF Holders, Item
  <2>6. ASSUME NEW y, p \in Listeners /\ ec'[p] = "success" /\ Item(p)' = y PROVE Holders(y)' = Holders(y) \cup {p}
    BY <2>1, <2>2, <2>3, <2>6 DEF Holders, Item
  <2>7. CASE /\ call[p].op \in PopOps /\ ec'[p] = "success" /\ sent' = sent
             /\ Len(received) < Len(sent)
             /\ received' = Append(received, sent[Len(received) + 1])
             /\ Item(p)' = sent[Len(received) + 1]
    <3>1. p \in Listeners
      <4>1. call[p].op \in CallsOf[p]
        BY <2>1 DEF Asked
      <4>2. QED
        BY <2>7, <4>1, CallsAre, OpsDiffer DEF Objects
    <3>2. /\ Item(p)' \in Payloads /\ ~Delivered(Item(p)')
          /\ \A y : Delivered(y)' <=> Delivered(y) \/ y = Item(p)'
      BY <2>7, DeliverPlaces
    <3>3. ASSUME NEW y \in Payloads PROVE Placed(y)'
      <4>1. CASE y # Item(p)'
        BY <2>4, <2>5, <3>2, <4>1 DEF PlacedOnce, Placed
      <4>2. CASE y = Item(p)'
        <5>1. Held(y) = {} /\ Holders(y) = {}
          BY <3>2, <4>2 DEF PlacedOnce, Placed
        <5>2. Held(y)' = {} /\ Holders(y)' = {p}
          BY <2>4, <2>6, <2>7, <3>1, <4>2, <5>1
        <5>3. Delivered(y)'
          BY <3>2, <4>2
        <5>4. QED
          BY <5>2, <5>3 DEF Placed, One
      <4>3. QED
        BY <4>1, <4>2
    <3>4. QED
      BY <3>3 DEF PlacedOnce
  <2>8. CASE received' = received /\ ~(call[p].op \in PopOps /\ ec'[p] = "success")
    <3>1. p \in Listeners => Item(p)' = NoItem
      <4>1. Asked'
        BY AskedStep
      <4>2. call'[p].op = call[p].op
        BY <2>1, FinishEffect
      <4>3. QED
        BY <2>3, <2>8, <4>1, <4>2 DEF Asked
    <3>2. \A y \in Payloads : Holders(y)' = Holders(y)
      BY <2>5, <3>1, NoItemAssumption
    <3>3. QED
      BY <1>1, <2>4, <2>8, <3>2 DEF Delivered
  <2>9. call[p].op \in PushOps => call[p].op \notin PopOps
    BY OpsDiffer
  <2>10. QED
    BY <2>1, <2>7, <2>8, <2>9, FinishEffect
<1>3. ASSUME NEW p \in Objects, PostHandler(p) PROVE PlacedOnce'
  <2> DEFINE x == IF Doing(p).op \in PopOps /\ ec[p] = "success" THEN call[p].item ELSE NoItem
  <2>1. PICK h \in Handler : handlers' = Append(handlers, h) /\ h.item = x
    BY <1>3, PostsWhat
  <2>2. ran' = ran /\ received' = received /\ UNCHANGED <<call, ec>>
        /\ thr[p] = "finished" /\ thr' = [thr EXCEPT ![p] = "posted"]
    BY <1>3 DEF PostHandler, chanVars
  <2>3. \A y : /\ y # x /\ Held(y) = {} => Held(y)' = {}
               /\ y # x /\ One(Held(y)) => One(Held(y)')
               /\ y = x /\ Held(y) = {} => One(Held(y)')
    BY <2>1, <2>2, HeldInserts
  <2>4. \A y : Holders(y)' = Holders(y) \ {p}
    BY <2>2 DEF Holders, Objects, ImplTypes
  <2>5. \A y \in Payloads : p \in Holders(y) => y = x
    <3>1. ASSUME NEW y \in Payloads, p \in Holders(y) PROVE y = x
      <4>1. p \in Listeners /\ ec[p] = "success" /\ call[p].item = y
        BY <3>1 DEF Holders
      <4>2. call[p].op = Doing(p).op
        BY <2>2 DEF Asked
      <4>3. call[p].op \in PopOps
        BY <2>2, <4>1, NoItemAssumption DEF Asked, Item
      <4>4. QED
        BY <4>1, <4>2, <4>3
    <3>2. QED
      BY <3>1
  <2>6. x \in Payloads => p \in Holders(x)
    <3>1. ASSUME x \in Payloads PROVE p \in Holders(x)
      <4>1. Doing(p).op \in PopOps /\ ec[p] = "success" /\ x = call[p].item
        BY <3>1, NoItemAssumption
      <4>2. call[p].op = Doing(p).op /\ call[p].op \in CallsOf[p]
        BY <2>2 DEF Asked
      <4>3. p \in Listeners
        BY <4>1, <4>2, CallsAre, OpsDiffer DEF Objects
      <4>4. QED
        BY <2>2, <4>1, <4>3 DEF Holders
    <3>2. QED
      BY <3>1
  <2> HIDE DEF x
  <2>7. ASSUME NEW y \in Payloads PROVE Placed(y)'
    <3>1. Delivered(y)' <=> Delivered(y)
      BY <2>2 DEF Delivered
    <3>2. CASE y # x
      <4>1. Holders(y)' = Holders(y)
        BY <2>4, <2>5, <3>2
      <4>2. QED
        BY <2>3, <3>1, <3>2, <4>1 DEF PlacedOnce, Placed
    <3>3. CASE y = x
      <4>1. p \in Holders(y)
        BY <2>6, <3>3
      <4>2. Delivered(y) /\ Held(y) = {} /\ One(Holders(y))
        BY <4>1 DEF PlacedOnce, Placed
      <4>3. Holders(y)' = {}
        BY <2>4, <4>1, <4>2 DEF One
      <4>4. One(Held(y)')
        BY <2>3, <3>3, <4>2
      <4>5. QED
        BY <3>1, <4>2, <4>3, <4>4 DEF Placed
    <3>4. QED
      BY <3>2, <3>3
  <2>8. QED
    BY <2>7 DEF PlacedOnce
<1>4. ASSUME NEW p \in Objects, PostOrphan(p) PROVE PlacedOnce'
  <2>1. PICK h \in Handler : handlers' = Append(handlers, h) /\ h.item = NoItem
    BY <1>4, PostsWhat
  <2>2. ran' = ran /\ received' = received /\ thr[p] = "took" /\ thr'[p] = "posted"
    BY <1>4 DEF PostOrphan, chanVars, ImplTypes
  <2>3. \A y \in Payloads : /\ Held(y) = {} => Held(y)' = {}
                            /\ One(Held(y)) => One(Held(y)')
    BY <2>1, <2>2, HeldInserts, NoItemAssumption
  <2>4. \A y : Holders(y)' = Holders(y)
    <3>1. ~ \E q \in Objects : FinishCall(q) \/ PostHandler(q)
      BY <1>4, <2>2 DEF FinishCall, PostHandler, PostOrphan, ImplTypes
    <3>2. QED
      BY <3>1, HoldersFrame
  <2>5. QED
    BY <2>2, <2>3, <2>4 DEF PlacedOnce, Placed, Delivered
<1>5. CASE SyncReturn
  <2>1. Chan!Finish(main) /\ main \in Callers /\ thr' = thr /\ handlers' = handlers
    BY <1>5, CallersAre DEF SyncReturn, implVars
  <2>2. \A y : Holders(y)' = Holders(y)
    BY <2>1, FinishEffect, CallersAre DEF Holders, Objects
  <2>3. CASE received' = received
    <3>1. Posted' = Posted
      BY <1>5, <2>3 DEF SyncReturn, Posted
    <3>2. QED
      BY <1>1, <2>2, <2>3, <3>1 DEF Held, Delivered
  <2>4. CASE received' # received
    <3>1. /\ Len(received) < Len(sent) /\ received' = Append(received, sent[Len(received) + 1])
          /\ Item(main)' = sent[Len(received) + 1]
      BY <2>1, <2>4, FinishEffect
    <3>2. /\ Item(main)' \in Payloads /\ ~Delivered(Item(main)')
          /\ \A y : Delivered(y)' <=> Delivered(y) \/ y = Item(main)'
      BY <3>1, DeliverPlaces
    <3>3. PICK h \in Handler : ran' = Append(ran, h) /\ h.item = Item(main)' /\ h.obj = main
      BY <1>5, <2>4, SyncPostsWhat
    <3>4. ASSUME NEW y \in Payloads PROVE Placed(y)'
      <4>1. /\ y # Item(main)' /\ Held(y) = {} => Held(y)' = {}
            /\ y # Item(main)' /\ One(Held(y)) => One(Held(y)')
            /\ y = Item(main)' /\ Held(y) = {} => One(Held(y)')
        BY <2>1, <3>3, HeldInserts
      <4>2. QED
        BY <2>2, <3>2, <4>1 DEF PlacedOnce, Placed
    <3>5. QED
      BY <3>4 DEF PlacedOnce
  <2>5. QED
    BY <2>3, <2>4
<1>6. ASSUME ~ \E p \in Objects : FinishCall(p) \/ PostHandler(p) \/ PostOrphan(p), ~SyncReturn
      PROVE  PlacedOnce'
  <2>1. \A y : Holders(y)' = Holders(y)
    BY <1>6, HoldersFrame
  <2>2. received' = received /\ Posted' = Posted
    <3>1. CASE UNCHANGED vars
      BY <3>1 DEF vars, chanVars, Posted
    <3>2. CASE Next
      BY <1>6, <3>2, NextCases, PostedRun
         DEF Async, Destroy, RunReturn, DtorStop, DtorJoin, StartRun, HandlerReturn, Sync, BeginCall,
             Chan!Invoke, RunHandler, TakeOp, ReleaseRef, DropOp, ExitThread,
             ControlQueue, Chan!Control, chanVars, implVars, Posted
    <3>3. QED
      BY <3>1, <3>2
  <2>3. QED
    BY <1>1, <2>1, <2>2 DEF Held, Delivered
<1>7. QED
  BY <1>2, <1>3, <1>4, <1>5, <1>6

(***************************************************************************)
(* A handler of a listener that still exists is told success only with an  *)
(* item. The owner's reference is given up once and never taken again.     *)
(***************************************************************************)
Honest(h) == h.op \in PopOps /\ h.ec = "success" /\ h.obj \in Objects
               => h.item # NoItem \/ ~ownerRef[h.obj]

Told == \A n \in 1 .. Len(Posted) : Honest(Posted[n])

\* An implementation that lost its owner does not get it back.
LEMMA OwnerGone ==
  ASSUME ImplTypes, [Next]_vars, NEW o \in Objects, ~ownerRef[o]
  PROVE  ~ownerRef'[o]
<1>1. \/ ownerRef' = ownerRef
      \/ \E p \in Objects : ownerRef' = [ownerRef EXCEPT ![p] = FALSE]
  <2>1. CASE UNCHANGED vars
    BY <2>1 DEF vars
  <2>2. CASE Next
    BY <2>2, NextCases
       DEF Async, Sync, Destroy, SyncReturn, RunHandler, RunReturn, DtorStop, DtorJoin,
           StartRun, HandlerReturn, TakeOp, BeginCall, FinishCall, PostHandler, PostOrphan,
           ReleaseRef, DropOp, ExitThread, ControlQueue
  <2>3. QED
    BY <2>1, <2>2
<1>2. QED
  BY <1>1 DEF ImplTypes

(***************************************************************************)
(* Every step keeps the handlers honest.                                   *)
(***************************************************************************)
LEMMA ToldMore ==
  ASSUME ImplTypes, MainTypes, Told, [Next]_vars, NEW h \in Handler,
         \/ handlers' = Append(handlers, h) /\ ran' = ran
         \/ ran' = Append(ran, h) /\ handlers' = handlers,
         Honest(h)'
  PROVE  Told'
<1>1. PICK t \in Seq(Handler) : t = Posted' /\ Inserted(Posted, t, h)
  BY PostedInserts
<1>2. PICK p \in Seq(Handler) : p = Posted
  BY PostedTypes
<1>3. \A k \in 1 .. Len(p) : Honest(p[k])'
  <2>1. \A k \in 1 .. Len(p) : Honest(p[k])
    BY <1>2 DEF Told
  <2>2. QED
    BY <2>1, OwnerGone DEF Honest
<1>4. \A n \in 1 .. Len(t) : t[n] = h \/ \E k \in 1 .. Len(p) : t[n] = p[k]
  BY <1>1, <1>2, InsertedRange
<1>5. \A n \in 1 .. Len(t) : Honest(t[n])'
  BY <1>3, <1>4
<1>6. QED
  BY <1>1, <1>5 DEF Told

\* Every step keeps what handlers tell of an object that is gone.
LEMMA ToldStep ==
  ASSUME TypeOK, Asked, Told, [Next]_vars
  PROVE  Told'
<1>0. ChanTypes /\ ImplTypes /\ MainTypes /\ Places
  BY TypeParts
<1> USE <1>0
<1>1. ASSUME NEW p \in Objects, PostHandler(p) PROVE Told'
  <2>1. thr[p] = "finished" /\ ran' = ran
    BY <1>1 DEF PostHandler
  <2>2. PICK h \in Handler :
           /\ handlers' = Append(handlers, h) /\ h.obj = p /\ h.op = Doing(p).op
           /\ h.item = IF Doing(p).op \in PopOps /\ ec[p] = "success" THEN call[p].item ELSE NoItem
           /\ h.ec = ec[p]
    BY <1>1, PostsWhat
  <2>3. call[p].op = Doing(p).op
        /\ (call[p].op \in PopOps /\ ec[p] = "success" => Item(p) \in Payloads)
    BY <2>1 DEF Asked
  <2>4. Honest(h)'
    BY <2>2, <2>3, NoItemAssumption DEF Honest, Item
  <2>5. QED
    BY <2>1, <2>2, <2>4, ToldMore
<1>2. ASSUME NEW p \in Objects, PostOrphan(p) PROVE Told'
  <2>1. ~ownerRef'[p] /\ ran' = ran
    BY <1>2 DEF PostOrphan
  <2>2. PICK h \in Handler : handlers' = Append(handlers, h) /\ h.obj = p
    BY <1>2, PostsWhat
  <2>3. Honest(h)'
    BY <2>1, <2>2 DEF Honest
  <2>4. QED
    BY <2>1, <2>2, <2>3, ToldMore
<1>3. CASE SyncReturn /\ received' # received
  <2>1. PICK h \in Handler : ran' = Append(ran, h) /\ h.item = Item(main)' /\ h.obj = main
    BY <1>3, SyncPostsWhat
  <2>2. Honest(h)' /\ handlers' = handlers
    BY <1>3, <2>1, CallersAre DEF Honest, SyncReturn
  <2>3. QED
    BY <2>1, <2>2, ToldMore
<1>4. CASE Posted' = Posted
  BY <1>4, OwnerGone, PostedTypes DEF Told, Honest, Handler
<1>5. ASSUME ~ \E p \in Objects : PostHandler(p) \/ PostOrphan(p), ~(SyncReturn /\ received' # received)
      PROVE  Posted' = Posted
  <2>1. CASE UNCHANGED vars
    BY <2>1 DEF vars, Posted
  <2>2. CASE SyncReturn
    BY <1>5, <2>2 DEF SyncReturn, Posted
  <2>3. CASE Next /\ ~SyncReturn
    BY <1>5, <2>3, NextCases, PostedRun
       DEF Async, Destroy, RunReturn, DtorStop, DtorJoin, StartRun, HandlerReturn, Sync, BeginCall,
           FinishCall, RunHandler, TakeOp, ReleaseRef, DropOp, ExitThread, ControlQueue, Posted
  <2>4. QED
    BY <2>1, <2>2, <2>3
<1>6. QED
  BY <1>1, <1>2, <1>3, <1>4, <1>5

(***************************************************************************)
(* The strengthening of NoItemLost.                                        *)
(***************************************************************************)
Located == Asked /\ Traffic /\ PlacedOnce /\ Told

\* No item is anywhere at first.
LEMMA LocatedInit == Init => Located
<1> SUFFICES ASSUME Init PROVE Located
  OBVIOUS
<1>1. Asked
  BY DEF Init, Asked
<1>2. sent = <<>> /\ received = <<>> /\ pending = {}
  BY DEF Init, Chan!Init
<1>3. Range(sent) = {} /\ Range(received) = {}
  BY <1>2 DEF Range
<1>4. Traffic
  BY <1>2, <1>3 DEF Traffic, SentOnce, MainAsked, Sent, IsInjective
<1>5. Posted = <<>>
  BY DEF Init, Posted
<1>6. PlacedOnce
  BY <1>3, <1>5 DEF Init, PlacedOnce, Placed, Delivered, Held, With, Holders, Objects
<1>7. Told
  BY <1>5 DEF Told
<1>8. QED
  BY <1>1, <1>4, <1>6, <1>7 DEF Located

\* Located always holds.
LEMMA LocatedInv == Spec => []Located
<1>1. TypeOK /\ Ordered /\ Located /\ [Next]_vars => Located'
  BY AskedStep, TrafficStep, PlacedStep, ToldStep DEF Located
<1>2. QED
  BY LocatedInit, <1>1, TypeCorrect, OrderedInv, PTL DEF Spec

(***************************************************************************)
(* In one place, an item is counted once.                                  *)
(***************************************************************************)
LEMMA OneCounts == ASSUME NEW S, One(S) PROVE Cardinality(S) = 1
BY FS_Singleton DEF One

\* An item that is located is not lost.
LEMMA LocatedKept == TypeOK /\ Located => NoItemLost
<1> SUFFICES ASSUME TypeOK, Located PROVE NoItemLost
  OBVIOUS
<1>0. ChanTypes /\ MainTypes
  BY TypeParts
<1>1. PICK p \in Seq(Handler) : p = Posted
  BY <1>0, PostedTypes
<1>2. DOMAIN p = 1 .. Len(p)
  OBVIOUS
<1>3. ASSUME NEW i \in DOMAIN received
      PROVE    Cardinality({n \in DOMAIN Posted : Posted[n].item = received[i]})
             + Cardinality({c \in Listeners : thr[c] = "finished" /\ ec[c] = "success"
                                              /\ call[c].item = received[i]})
             = 1
  <2>1. PICK y \in Payloads : y = received[i]
    BY <1>0 DEF ChanTypes
  <2>2. Delivered(y)
    BY <2>1 DEF Delivered, Range
  <2>3. Placed(y)
    BY DEF Located, PlacedOnce
  <2>4. {n \in DOMAIN Posted : Posted[n].item = received[i]} = Held(y)
    BY <1>1, <1>2, <2>1 DEF Held, With
  <2>5. {c \in Listeners : thr[c] = "finished" /\ ec[c] = "success"
                           /\ call[c].item = received[i]} = Holders(y)
    BY <2>1 DEF Holders
  <2>6. Cardinality(Held(y)) + Cardinality(Holders(y)) = 1
    <3>1. CASE One(Held(y)) /\ Holders(y) = {}
      BY <3>1, OneCounts, FS_EmptySet
    <3>2. CASE Held(y) = {} /\ One(Holders(y))
      BY <3>2, OneCounts, FS_EmptySet
    <3>3. QED
      BY <2>2, <2>3, <3>1, <3>2 DEF Placed
  <2>7. QED
    BY <2>4, <2>5, <2>6
<1>4. \A n \in DOMAIN Posted : Honest(Posted[n])
  BY <1>1, <1>2 DEF Located, Told
<1>5. QED
  BY <1>3, <1>4 DEF NoItemLost, Honest

(***************************************************************************)
(* An item a listener took from the queue is with exactly one handler or   *)
(* on its way there in the thread that took it, whatever is destroyed or   *)
(* disabled meanwhile, and no handler of a listener that still exists is   *)
(* told success without an item.                                           *)
(***************************************************************************)
THEOREM EveryItemPlaced == Spec => []NoItemLost
BY LocatedInv, LocatedKept, TypeCorrect, PTL
===============================================================================
