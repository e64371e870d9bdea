------------------------------ MODULE AsyncQueue ------------------------------
(***************************************************************************)
(* queue_sender and queue_listener (queue_sender.hpp, queue_listener.hpp): *)
(* asio IO objects that turn the blocking operations of a queue into       *)
(* asynchronous ones.                                                      *)
(*                                                                         *)
(* Each object has an implementation with an io_service and a thread of    *)
(* its own.  An async call posts an operation object to that io_service;   *)
(* the implementation's thread runs it: it makes the blocking call on the  *)
(* queue and posts the user's handler to the user's io_service.  The       *)
(* implementation is reference counted: the IO object holds one reference, *)
(* and an operation takes another while it runs.                           *)
(*                                                                         *)
(* The queue is the channel BoundedFifo, which SimpleQueue implements; the *)
(* implementation threads and the user's threads are its callers.  One     *)
(* user thread ("main") makes the async calls, runs the user's io_service  *)
(* and destroys the objects.                                               *)
(***************************************************************************)
EXTENDS Integers, Sequences, FiniteSets, QueueOps, Selection, SequencesExt

CONSTANTS Senders, Listeners,   \* the IO objects
          Controllers,          \* threads that disable and enable the queue
          main,                 \* the thread that runs the user's io_service
          SyncOps,              \* operations main uses through sync_enq, sync_deq
          AsyncOps,             \* operations used asynchronously
          Policies,             \* when main destroys IO objects, see Destroy
          MaxSizes, NoItem,
          NoObject,
          MaxOps                \* bound on the async calls made on one object

Objects == Senders \cup Listeners
Callers == Objects \cup Controllers \cup {main}

ASSUME ObjectsAssumption == /\ Senders \cap Listeners = {}
                            /\ Objects \cap Controllers = {}
                            /\ main \notin Objects \cup Controllers
                            /\ NoObject \notin Objects
ASSUME PoliciesAssumption == Policies \subseteq {"after_run", "any_time"}
ASSUME MaxOpsAssumption == MaxOps \in Nat

\* The n-th async_enq on sender o carries the value <<o, n>>.
Payloads == (Objects \cup {main}) \X (1 .. MaxOps)

\* The default constructed value a handler is bound to when nothing was taken
\* from the queue is told from the values that were sent.
ASSUME NoItemAssumption == NoItem \notin Payloads

CallsOf == [c \in Callers |->
              CASE c \in Senders     -> EnqOps
                [] c \in Listeners   -> DeqOps
                [] c \in Controllers -> {"disable_enq", "disable_deq"}
                [] OTHER             -> SyncOps]

VARIABLES sent, received, limit, enqOpen, deqOpen, pending, call, ec  \* the queue

VARIABLES
  ops,         \* ops[o]: operations posted to impl_io_service_ and not begun
  running,     \* running[o]: the operation object being run, <<>> or <<op>>
  thr,         \* thr[o]: where impl_thread_ is, see ImplSteps
  issued,      \* issued[o]: number of async calls made on o
  ownerRef,    \* ownerRef[o]: the IO object still holds its reference
  opRef,       \* opRef[o]: the running operation holds a reference
  stopped,     \* stopped[o]: impl_io_service_.stop() was called
  handlers,    \* handlers posted to the user's io_service and not run
  ran,         \* history: handlers run, and items returned by sync_deq
  mpc,         \* what main is doing
  joining,     \* the object whose implementation main is destroying
  policy,      \* when main destroys IO objects
  terminated   \* std::terminate was called

chanVars == <<sent, received, limit, enqOpen, deqOpen, pending, call, ec>>
implVars == <<ops, running, thr, opRef>>
mainVars == <<mpc, joining, policy>>
vars == <<chanVars, implVars, issued, ownerRef, stopped, handlers, ran, mainVars, terminated>>

Chan == INSTANCE BoundedFifo WITH Threads <- Callers, Items <- Payloads, Calls <- CallsOf

Init == /\ Chan!Init
        /\ ops = [o \in Objects |-> <<>>]
        /\ running = [o \in Objects |-> <<>>]
        /\ thr = [o \in Objects |-> "polling"]
        /\ issued = [o \in Objects |-> 0]
        /\ ownerRef = [o \in Objects |-> TRUE]
        /\ opRef = [o \in Objects |-> FALSE]
        /\ stopped = [o \in Objects |-> FALSE]
        /\ handlers = <<>>
        /\ ran = <<>>
        /\ mpc = "setup"
        /\ joining = NoObject
        /\ policy \in Policies
        /\ terminated = FALSE

-----------------------------------------------------------------------------
(* The user's thread.                                                      *)

\* main executes user code: before io_service::run, or inside a handler.
UserCode == /\ mpc \in {"setup", "handler"}
            /\ joining = NoObject /\ main \notin pending

\* async_enq, timed_async_enq, async_wait_enq, async_deq and so on.  Posting
\* an operation also counts it as work of the user's io_service (work_).
Async(o, op) ==
  /\ UserCode /\ ownerRef[o]
  /\ op \in CallsOf[o] \cap AsyncOps
  /\ issued[o] < MaxOps
  /\ issued' = [issued EXCEPT ![o] = @ + 1]
  /\ ops' = [ops EXCEPT ![o] = Append(@, [op |-> op, id |-> issued[o] + 1])]
  /\ UNCHANGED <<chanVars, running, thr, opRef, ownerRef, stopped, handlers, ran,
                 mainVars, terminated>>

\* sync_enq and sync_deq call the queue on the caller's thread.
Sync(op) ==
  /\ UserCode
  /\ \E x \in {NoItem, <<main, 1>>} : Chan!Invoke(main, op, x)
  /\ <<main, 1>> \notin Range(sent)
  /\ UNCHANGED <<implVars, issued, ownerRef, stopped, handlers, ran, mainVars, terminated>>

\* An item sync_deq returns is in the hands of the user's code at once.
SyncReturn ==
  /\ Chan!Finish(main)
  /\ ran' = IF received' = received THEN ran
            ELSE Append(ran, [obj |-> main, id |-> Len(received'), op |-> call[main].op,
                              ec |-> "success", item |-> call'[main].item])
  /\ UNCHANGED <<implVars, issued, ownerRef, stopped, handlers, mainVars, terminated>>

\* main enters io_service::run.
StartRun ==
  /\ mpc = "setup" /\ UserCode
  /\ mpc' = "run"
  /\ UNCHANGED <<chanVars, implVars, issued, ownerRef, stopped, handlers, ran,
                 joining, policy, terminated>>

\* run() takes the next posted handler and calls it.
RunHandler ==
  /\ mpc = "run" /\ handlers # <<>>
  /\ ran' = Append(ran, Head(handlers))
  /\ handlers' = Tail(handlers)
  /\ mpc' = "handler"
  /\ UNCHANGED <<chanVars, implVars, issued, ownerRef, stopped, joining, policy, terminated>>

HandlerReturn ==
  /\ mpc = "handler" /\ UserCode
  /\ mpc' = "run"
  /\ UNCHANGED <<chanVars, implVars, issued, ownerRef, stopped, handlers, ran,
                 joining, policy, terminated>>

\* Mutants: only queued operations count as work; the work is released before
\* the reference; a live object counts as work.
OutstandingWork_QueuedOnly == \E o \in Objects : ops[o] # <<>>
OutstandingWork_Early ==
  \E o \in Objects : ops[o] # <<>> \/ (running[o] # <<>> /\ thr[o] # "posted")
OutstandingWork_Owner ==
  \E o \in Objects : ops[o] # <<>> \/ running[o] # <<>> \/ ownerRef[o]

\* Operation objects own an io_service::work, so run() goes on while one
\* exists, queued or running.
OutstandingWork == \E o \in Objects : ops[o] # <<>> \/ running[o] # <<>>

RunReturn ==
  /\ mpc = "run" /\ handlers = <<>> /\ ~OutstandingWork
  /\ mpc' = "returned"
  /\ UNCHANGED <<chanVars, implVars, issued, ownerRef, stopped, handlers, ran,
                 joining, policy, terminated>>

\* The IO object is destroyed: destroy() resets its reference, and if that was
\* the last one the implementation's destructor runs, on main.  With policy
\* "after_run" main destroys objects only when run() has returned.
Destroy(o) ==
  /\ ownerRef[o]
  /\ \/ policy = "any_time" /\ UserCode
     \/ mpc = "returned" /\ joining = NoObject
  /\ ownerRef' = [ownerRef EXCEPT ![o] = FALSE]
  /\ joining' = IF opRef[o] THEN NoObject ELSE o
  /\ UNCHANGED <<chanVars, implVars, issued, stopped, handlers, ran, mpc, policy, terminated>>

\* Mutant: the io_service is not stopped.
DtorStop_Missing == joining # NoObject /\ ~stopped[joining] /\ UNCHANGED vars

\* ~impl: the work object is dropped and the io_service stopped ...
DtorStop ==
  /\ joining # NoObject /\ ~stopped[joining]
  /\ stopped' = [stopped EXCEPT ![joining] = TRUE]
  /\ UNCHANGED <<chanVars, implVars, issued, ownerRef, handlers, ran, mainVars, terminated>>

\* ... and its thread joined.  Destroying impl_io_service_ then destroys the
\* operations it still holds, without running them.
DtorJoin ==
  /\ joining # NoObject /\ stopped[joining] /\ thr[joining] = "exited"
  /\ ops' = [ops EXCEPT ![joining] = <<>>]
  /\ joining' = NoObject
  /\ UNCHANGED <<chanVars, running, thr, opRef, issued, ownerRef, stopped, handlers, ran,
                 mpc, policy, terminated>>

-----------------------------------------------------------------------------
(* The implementation's thread.                                            *)

\* Mutant: the newest operation is taken.
TakeOp_Newest(o) ==
  /\ thr[o] = "polling" /\ ~stopped[o] /\ ops[o] # <<>>
  /\ running' = [running EXCEPT ![o] = <<Last(ops[o])>>]
  /\ ops' = [ops EXCEPT ![o] = Front(@)]
  /\ thr' = [thr EXCEPT ![o] = "took"]
  /\ UNCHANGED <<chanVars, opRef, issued, ownerRef, stopped, handlers, ran, mainVars, terminated>>

\* impl_io_service_.run() takes the oldest operation.
TakeOp(o) ==
  /\ thr[o] = "polling" /\ ~stopped[o] /\ ops[o] # <<>>
  /\ running' = [running EXCEPT ![o] = <<Head(ops[o])>>]
  /\ ops' = [ops EXCEPT ![o] = Tail(@)]
  /\ thr' = [thr EXCEPT ![o] = "took"]
  /\ UNCHANGED <<chanVars, opRef, issued, ownerRef, stopped, handlers, ran, mainVars, terminated>>

\* wimpl_.lock() yields a reference, and the blocking call is made.
BeginCall(o) ==
  /\ thr[o] = "took" /\ ownerRef[o]
  /\ LET op == running[o][1].op
         x  == IF op \in PushOps THEN <<o, running[o][1].id>> ELSE NoItem
     IN  Chan!Invoke(o, op, x)
  /\ opRef' = [opRef EXCEPT ![o] = TRUE]
  /\ thr' = [thr EXCEPT ![o] = "calling"]
  /\ UNCHANGED <<ops, running, issued, ownerRef, stopped, handlers, ran, mainVars, terminated>>

FinishCall(o) ==
  /\ thr[o] = "calling" /\ Chan!Finish(o)
  /\ thr' = [thr EXCEPT ![o] = "finished"]
  /\ UNCHANGED <<ops, running, opRef, issued, ownerRef, stopped, handlers, ran,
                 mainVars, terminated>>

\* What is bound to the handler: error code and, for deq operations, the item.
Bound(o, c, x) == [obj |-> o, id |-> running[o][1].id, op |-> running[o][1].op,
                   ec |-> c, item |-> x]

\* Mutant: no handler is posted once the IO object is gone.
PostHandler_IfOwned(o) ==
  /\ thr[o] = "finished"
  /\ LET op == running[o][1].op
         x  == IF op \in PopOps /\ ec[o] = "success" THEN call[o].item ELSE NoItem
     IN  handlers' = IF ownerRef[o] THEN Append(handlers, Bound(o, ec[o], x)) ELSE handlers
  /\ thr' = [thr EXCEPT ![o] = "posted"]
  /\ UNCHANGED <<chanVars, ops, running, opRef, issued, ownerRef, stopped, ran,
                 mainVars, terminated>>

PostHandler(o) ==
  /\ thr[o] = "finished"
  /\ LET op == running[o][1].op
         x  == IF op \in PopOps /\ ec[o] = "success" THEN call[o].item ELSE NoItem
     IN  handlers' = Append(handlers, Bound(o, ec[o], x))
  /\ thr' = [thr EXCEPT ![o] = "posted"]
  /\ UNCHANGED <<chanVars, ops, running, opRef, issued, ownerRef, stopped, ran,
                 mainVars, terminated>>

\* wimpl_.lock() fails: the else branches.  Only enq_operation posts
\* operation_aborted; the three others post an error_code nobody has set.
PostOrphan(o) ==
  /\ thr[o] = "took" /\ ~ownerRef[o]
  /\ LET c == IF running[o][1].op \in PushOps THEN "operation_aborted" ELSE "success"
     IN  handlers' = Append(handlers, Bound(o, c, NoItem))
  /\ thr' = [thr EXCEPT ![o] = "posted"]
  /\ UNCHANGED <<chanVars, ops, running, opRef, issued, ownerRef, stopped, ran,
                 mainVars, terminated>>

\* The local shared_ptr goes out of scope.  If it holds the last reference the
\* destructor runs here, on the thread it joins: join() throws out of a
\* destructor and the program is terminated.
ReleaseRef(o) ==
  /\ thr[o] = "posted"
  /\ opRef' = [opRef EXCEPT ![o] = FALSE]
  /\ terminated' = (opRef[o] /\ ~ownerRef[o])
  /\ thr' = [thr EXCEPT ![o] = "released"]
  /\ UNCHANGED <<chanVars, ops, running, issued, ownerRef, stopped, handlers, ran, mainVars>>

\* The operation object is destroyed, and its io_service::work with it.
DropOp(o) ==
  /\ thr[o] = "released"
  /\ running' = [running EXCEPT ![o] = <<>>]
  /\ thr' = [thr EXCEPT ![o] = "polling"]
  /\ UNCHANGED <<chanVars, ops, opRef, issued, ownerRef, stopped, handlers, ran,
                 mainVars, terminated>>

\* impl_io_service_.run() returns because the io_service was stopped.
ExitThread(o) ==
  /\ thr[o] = "polling" /\ stopped[o]
  /\ thr' = [thr EXCEPT ![o] = "exited"]
  /\ UNCHANGED <<chanVars, ops, running, opRef, issued, ownerRef, stopped, handlers, ran,
                 mainVars, terminated>>

ImplSteps(o) == \/ TakeOp(o) \/ BeginCall(o) \/ FinishCall(o) \/ PostHandler(o)
                \/ PostOrphan(o) \/ ReleaseRef(o) \/ DropOp(o) \/ ExitThread(o)

\* Another thread disables or enables a side of the queue.
ControlQueue(c) ==
  /\ Chan!Control(c)
  /\ UNCHANGED <<implVars, issued, ownerRef, stopped, handlers, ran, mainVars, terminated>>

\* What main does in the library, and where it leaves the user's code.
MainSteps == SyncReturn \/ RunHandler \/ RunReturn \/ DtorStop \/ DtorJoin
LeaveUserCode == StartRun \/ HandlerReturn

Next == /\ ~terminated
        /\ \/ \E o \in Objects, op \in BlockingOps : Async(o, op)
           \/ \E op \in SyncOps : Sync(op)
           \/ \E o \in Objects : Destroy(o)
           \/ MainSteps
           \/ LeaveUserCode
           \/ \E o \in Objects : ImplSteps(o)
           \/ \E c \in Controllers : ControlQueue(c)

Spec == Init /\ [][Next]_vars

\* Threads that can run do run, and the user's code returns however often it
\* blocks in sync_deq before; it is not obliged to make calls or to destroy
\* anything, nor the controllers to disable the queue.
FairSpec == /\ Spec
            /\ WF_vars(~terminated /\ MainSteps)
            /\ SF_vars(~terminated /\ LeaveUserCode)
            /\ \A o \in Objects : WF_vars(~terminated /\ ImplSteps(o))

-----------------------------------------------------------------------------
\* Handlers posted so far, whether run or not, and what sync_deq returned.
Posted == ran \o handlers

\* Operation objects, and handlers with what is bound to them.
Operation == [op : BlockingOps, id : 1 .. MaxOps]
Handler == [obj : Objects \cup {main}, id : Nat, op : BlockingOps, ec : Codes,
            item : Payloads \cup {NoItem}]

HandlersOf(o) == {h \in Handler : h.obj = o}

PostedBy(o) == Selected(Posted, HandlersOf(o))

\* The operation being run, unless its handler has been posted already.
Unposted(o) == IF thr[o] \in {"took", "calling", "finished"} THEN running[o] ELSE <<>>

\* Type invariant, with what the place of an implementation's thread says: it
\* has an operation object from TakeOp to DropOp, it is a caller of the queue
\* while it is "calling", and it holds a reference only from the call to the
\* release.
TypeOK ==
  /\ sent \in Seq(Payloads) /\ received \in Seq(Payloads)
  /\ pending \subseteq Callers
  /\ call \in [Callers -> [op : BlockingOps \cup {"none"}, item : Payloads \cup {NoItem}]]
  /\ ec \in [Callers -> Codes]
  /\ \A c \in pending : call[c].op \in PushOps => call[c].item \in Payloads
  /\ ops \in [Objects -> Seq(Operation)]
  /\ running \in [Objects -> Seq(Operation)]
  /\ thr \in [Objects -> {"polling", "took", "calling", "finished", "posted", "released",
                          "exited"}]
  /\ issued \in [Objects -> 0 .. MaxOps]
  /\ ownerRef \in [Objects -> BOOLEAN]
  /\ opRef \in [Objects -> BOOLEAN]
  /\ stopped \in [Objects -> BOOLEAN]
  /\ handlers \in Seq(Handler) /\ ran \in Seq(Handler)
  /\ mpc \in {"setup", "run", "handler", "returned"}
  /\ joining \in Objects \cup {NoObject}
  /\ policy \in Policies
  /\ terminated \in BOOLEAN
  /\ \A o \in Objects :
        /\ Len(running[o]) = IF thr[o] \in {"polling", "exited"} THEN 0 ELSE 1
        /\ opRef[o] => thr[o] \in {"calling", "finished", "posted"}
        /\ o \in pending <=> thr[o] = "calling"

\* Each async call has its handler posted at most once and in the order of the
\* calls, and until the object has been destroyed none is forgotten: the calls
\* made on an object are those answered, then the one being run, then those
\* still queued.
HandlersInOrder ==
  \A o \in Objects :
     LET answered == [i \in 1 .. Len(PostedBy(o)) |-> PostedBy(o)[i].id]
         rest     == Unposted(o) \o ops[o]
         ids      == answered \o [i \in 1 .. Len(rest) |-> rest[i].id]
     IN  /\ ids = [i \in 1 .. Len(ids) |-> i]
         /\ thr[o] # "exited" => Len(ids) = issued[o]

\* An item a listener took from the queue is with exactly one handler, or on
\* its way there in the thread that took it: never lost, never handed out
\* twice, whatever is destroyed or disabled meanwhile.  And as long as the
\* listener exists no handler of it is told success without an item: only the
\* orphaned operations of a destroyed listener post that.
NoItemLost ==
  /\ \A i \in DOMAIN received :
        Cardinality({n \in DOMAIN Posted : Posted[n].item = received[i]})
      + Cardinality({c \in Listeners : thr[c] = "finished" /\ ec[c] = "success"
                                       /\ call[c].item = received[i]})
      = 1
  /\ \A n \in DOMAIN Posted :
        Posted[n].op \in PopOps /\ Posted[n].ec = "success" /\ Posted[n].obj \in Objects
          => Posted[n].item # NoItem \/ ~ownerRef[Posted[n].obj]

\* When run() has returned, every async call made has had its handler run,
\* unless the object was destroyed under it.
RunAnswersAll ==
  mpc = "returned" /\ policy = "after_run" =>
     \A o \in Objects : Len(Selected(ran, HandlersOf(o))) = issued[o]

\* The destructor never runs on the thread it joins ...
NoSelfJoin == ~terminated

\* ... as long as objects are destroyed only after run() has returned.
NoSelfJoinAfterRun == policy = "after_run" => NoSelfJoin

\* Destroying an object returns, whatever its thread is doing.
DestructionReturns == \A o \in Objects : joining = o ~> (joining # o \/ terminated)

\* Once both sides of the queue stay disabled, io_service::run returns.
RunReturns ==
  <>[](~enqOpen /\ ~deqOpen) => <>(mpc = "returned" \/ terminated)
=============================================================================
