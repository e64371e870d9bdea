------------------------------- MODULE FdStream -------------------------------
(***************************************************************************)
(* fdenq_queue and fddeq_queue: the two ends of a queue over descriptors   *)
(* of the user, here the ends of a pipe, with the recvwait and sendwait of *)
(* fdqueue_support.hpp.  SockQueue models the same two functions on the    *)
(* blocking sockets of the socket queues; here the descriptors may be      *)
(* non-blocking, the caller may pass an error code it used before, and a   *)
(* second thread enables and disables the queue.                           *)
(*                                                                         *)
(* A call holds the mutex of its queue from its first statement to its     *)
(* return, also while it is blocked.  A message is a body and a separator. *)
(***************************************************************************)
EXTENDS Integers, Sequences, QueueOps, Selection

CONSTANTS MaxMsgs,     \* bound: messages, numbered in the order enq accepts them
          Ops,         \* Ops[e]: the operations called at end e
          Modes,       \* which ends may have a non-blocking descriptor
          BufSize,     \* bytes a pipe holds
          Errnos       \* what errno may hold when deq is called

Msgs    == 1 .. MaxMsgs
NoMsg   == 0
Ends    == {"enq", "deq"}
Peer(e) == IF e = "enq" THEN "deq" ELSE "enq"

ASSUME FdAssumption == /\ MaxMsgs \in Nat /\ BufSize \in Nat \ {0}
                       /\ Ops["enq"] \subseteq EnqOps /\ Ops["deq"] \subseteq DeqOps
                       /\ Modes \subseteq SUBSET Ends
                       /\ Errnos \subseteq {"other", "wouldblock"}

VARIABLES
  nonblock,  \* ends whose descriptor is non-blocking
  enabled,   \* enabled[e]: enq_enabled_, deq_enabled_
  pc,        \* pc[e]: "idle", in the "first" select or a "later" one, in "read"
             \* or "write", or "closed"
  call,      \* call[e]: operation, message, and the error code it was given
  ec,        \* the error code of deq's caller, which outlives a call
  errno,     \* errno of deq's thread, as far as the code reads it
  buf,       \* buf[e]: bytes read so far, or still to be written
  ctl,       \* ctl[e]: "idle", or what another thread calls disable_* with
  pipe,      \* bytes written and not read
  \* histories
  accepted,  \* messages for which enq returned true
  taken,     \* messages deq read, whether it returned true, and the code it was given
  torn       \* a signal ended a call in the middle of a message

vars == <<nonblock, enabled, pc, call, ec, errno, buf, ctl, pipe, accepted, taken, torn>>

NoCall   == [op |-> "none", msg |-> NoMsg, given |-> "success"]
Bytes(m) == <<<<m, "body">>, <<m, "sep">>>>

Init == /\ nonblock \in Modes
        /\ enabled = [e \in Ends |-> TRUE]
        /\ pc = [e \in Ends |-> "idle"] /\ call = [e \in Ends |-> NoCall]
        /\ ec = "success" /\ errno = "other"
        /\ buf = [e \in Ends |-> <<>>] /\ ctl = [e \in Ends |-> "idle"]
        /\ pipe = <<>> /\ accepted = <<>> /\ taken = <<>> /\ torn = FALSE

-----------------------------------------------------------------------------
Closed(e) == pc[e] = "closed"

\* Select reports a descriptor ready when its other end is closed, too.
HasData  == pipe # <<>>
HasRoom  == Len(pipe) < BufSize
Ready(e) == Closed(Peer(e)) \/ IF e = "deq" THEN HasData ELSE HasRoom

InCall(e) == pc[e] \in {"first", "later", "read", "write"}

\* The call at e ends with error code c.  Only deq ever reads the code it was
\* given, and only recvwait an errno it has not just set.
Return(e, c) == /\ pc' = [pc EXCEPT ![e] = "idle"]
                /\ call' = [call EXCEPT ![e] = NoCall]
                /\ ec' = IF e = "deq" THEN c ELSE ec
                /\ errno' = IF e = "deq" THEN "other" ELSE errno
                /\ buf' = [buf EXCEPT ![e] = <<>>]

Calls(e) == {k \in [op : Ops[e], msg : Msgs \cup {NoMsg}] :
               IF k.op \in PushOps THEN k.msg = Len(accepted) + 1 ELSE k.msg = NoMsg}

\* A call on a disabled queue, and one that goes to select.  The error code is
\* a new one or that of the last call.
Refused(e) ==
  /\ pc[e] = "idle" /\ ~enabled[e]
  /\ ec' = IF e = "deq" THEN "operation_aborted" ELSE ec
  /\ UNCHANGED <<nonblock, enabled, pc, call, errno, buf, ctl, pipe, accepted, taken, torn>>

Call(e) ==
  /\ pc[e] = "idle" /\ enabled[e]
  /\ \E k \in Calls(e), n \in Errnos, c \in {ec, "success"} :
        /\ call' = [call EXCEPT ![e] = [op |-> k.op, msg |-> k.msg,
                                        given |-> IF k.op \in PopOps THEN c ELSE "success"]]
        /\ buf' = [buf EXCEPT ![e] = IF k.op \in PushOps THEN Bytes(k.msg) ELSE <<>>]
        /\ IF k.op \in PopOps THEN ec' = c /\ errno' = n ELSE UNCHANGED <<ec, errno>>
  /\ pc' = [pc EXCEPT ![e] = "first"]
  /\ UNCHANGED <<nonblock, enabled, ctl, pipe, accepted, taken, torn>>

-----------------------------------------------------------------------------
(* recvwait and sendwait.                                                  *)

\* The descriptor is ready: the operations that only wait return.
Select(e) ==
  /\ pc[e] \in {"first", "later"} /\ Ready(e)
  /\ \/ /\ call[e].op \in WaitEnqOps \cup WaitDeqOps
        /\ Return(e, "success")
     \/ /\ call[e].op \in PushOps \cup PopOps
        /\ pc' = [pc EXCEPT ![e] = IF e = "deq" THEN "read" ELSE "write"]
        /\ UNCHANGED <<call, ec, errno, buf>>
  /\ UNCHANGED <<nonblock, enabled, ctl, pipe, accepted, taken, torn>>

TimeOut_Untimed(e) ==            \* mutant: the waiting operations pass no timeout
  /\ pc[e] = "first" /\ ~Ready(e) /\ call[e].op \in TimedOps \cap (PushOps \cup PopOps)
  /\ Return(e, "timed_out")
  /\ UNCHANGED <<nonblock, enabled, ctl, pipe, accepted, taken, torn>>

\* Only the first select has a timeout.
TimeOut(e) ==
  /\ pc[e] = "first" /\ ~Ready(e) /\ call[e].op \in TimedOps
  /\ Return(e, "timed_out")
  /\ UNCHANGED <<nonblock, enabled, ctl, pipe, accepted, taken, torn>>

\* A byte of the message.  With the separator deq has its message, and returns
\* true only if the error code, which recvwait has not touched, says success.
ReadByte ==
  LET got == Append(buf["deq"], Head(pipe))
      m   == IF got = Bytes(got[1][1]) THEN got[1][1] ELSE NoMsg
  IN  /\ pc["deq"] = "read" /\ HasData
      /\ pipe' = Tail(pipe)
      /\ \/ /\ Head(pipe)[2] # "sep"
            /\ buf' = [buf EXCEPT !["deq"] = got]
            /\ UNCHANGED <<pc, call, ec, errno, taken>>
         \/ /\ Head(pipe)[2] = "sep"
            /\ taken' = Append(taken, [msg |-> m, reported |-> ec = "success",
                                       given |-> call["deq"].given])
            /\ Return("deq", ec)
      /\ UNCHANGED <<nonblock, enabled, ctl, accepted, torn>>

\* A byte of the message; the last one ends sendwait, which returns true.
WriteByte ==
  /\ pc["enq"] = "write" /\ HasRoom /\ ~Closed("deq")
  /\ pipe' = Append(pipe, Head(buf["enq"]))
  /\ \/ /\ Len(buf["enq"]) > 1
        /\ buf' = [buf EXCEPT !["enq"] = Tail(@)]
        /\ UNCHANGED <<pc, call, ec, errno, accepted>>
     \/ /\ Len(buf["enq"]) = 1
        /\ accepted' = Append(accepted, call["enq"].msg)
        /\ Return("enq", "success")
  /\ UNCHANGED <<nonblock, enabled, ctl, taken, torn>>

\* Back to select: a call whose errno is EWOULDBLOCK is not failed.
Again(e) ==
  /\ pc' = [pc EXCEPT ![e] = "later"]
  /\ errno' = IF e = "deq" THEN "wouldblock" ELSE errno
  /\ UNCHANGED <<nonblock, enabled, call, ec, buf, ctl, pipe, accepted, taken, torn>>

WouldBlock_Forgets(e) ==         \* mutant: the stringstream is one of each round
  /\ e \in nonblock /\ ~Ready(e)
  /\ pc[e] \in {"read", "write"}
  /\ pc' = [pc EXCEPT ![e] = "later"]
  /\ errno' = IF e = "deq" THEN "wouldblock" ELSE errno
  /\ buf' = IF e = "deq" THEN [buf EXCEPT ![e] = <<>>] ELSE buf
  /\ UNCHANGED <<nonblock, enabled, call, ec, ctl, pipe, accepted, taken, torn>>

\* read or write on a non-blocking descriptor with nothing to do.
WouldBlock(e) ==
  /\ e \in nonblock /\ ~Ready(e)
  /\ pc[e] \in {"read", "write"}
  /\ Again(e)

EndOfFile_Waits ==               \* mutant: read's 0 is taken for nothing yet
  /\ pc["deq"] = "read" /\ ~HasData /\ Closed("enq")
  /\ pc' = [pc EXCEPT !["deq"] = "later"]
  /\ UNCHANGED <<nonblock, enabled, call, ec, errno, buf, ctl, pipe, accepted, taken, torn>>

\* At end of file read returns 0 and leaves errno alone, so the call fails, or
\* selects and reads again if the last error of this thread was EWOULDBLOCK.
EndOfFile ==
  /\ pc["deq"] = "read" /\ ~HasData /\ Closed("enq")
  /\ \/ /\ errno = "wouldblock"
        /\ Again("deq")
     \/ /\ errno # "wouldblock"
        /\ Return("deq", "error")
        /\ UNCHANGED <<nonblock, enabled, ctl, pipe, accepted, taken, torn>>

\* EPIPE, in a program that survives SIGPIPE; otherwise its process exits.
BrokenPipe ==
  /\ pc["enq"] = "write" /\ Closed("deq")
  /\ Return("enq", "error")
  /\ UNCHANGED <<nonblock, enabled, ctl, pipe, accepted, taken, torn>>

MidMessage(e) == IF e = "deq" THEN buf[e] # <<>>
                 ELSE buf[e] # <<>> /\ buf[e] # Bytes(call[e].msg)

\* A handled signal ends the system call e waits in; read's and write's retry
\* loops compare their result with EINTR instead of errno.  Bound: one signal
\* in the middle of a message.
Interrupted(e) ==
  /\ \/ pc[e] \in {"first", "later"}
     \/ pc[e] \in {"read", "write"} /\ e \notin nonblock
  /\ ~Ready(e)
  /\ ~(torn /\ MidMessage(e))
  /\ torn' = (torn \/ MidMessage(e))
  /\ Return(e, "error")
  /\ UNCHANGED <<nonblock, enabled, ctl, pipe, accepted, taken>>

-----------------------------------------------------------------------------
(* The other thread, and the end of a process or a queue.                  *)

\* Another thread calls disable_enq or disable_deq with b ...
DisableCalled(e, b) ==
  /\ ctl[e] = "idle" /\ ~Closed(e)
  /\ ctl' = [ctl EXCEPT ![e] = IF b THEN "disable" ELSE "enable"]
  /\ UNCHANGED <<nonblock, enabled, pc, call, ec, errno, buf, pipe, accepted, taken, torn>>

Disable_NoLock(e) ==             \* mutant: the flag is set without the mutex
  /\ ctl[e] # "idle" /\ ~Closed(e)
  /\ enabled' = [enabled EXCEPT ![e] = ctl[e] = "enable"]
  /\ ctl' = [ctl EXCEPT ![e] = "idle"]
  /\ UNCHANGED <<nonblock, pc, call, ec, errno, buf, pipe, accepted, taken, torn>>

\* ... and gets the mutex when no call holds it.
Disable(e) ==
  /\ ctl[e] # "idle" /\ pc[e] = "idle"
  /\ enabled' = [enabled EXCEPT ![e] = ctl[e] = "enable"]
  /\ ctl' = [ctl EXCEPT ![e] = "idle"]
  /\ UNCHANGED <<nonblock, pc, call, ec, errno, buf, pipe, accepted, taken, torn>>

\* The queue is destroyed and closes its descriptor (closeOnExit_), or its
\* process ends wherever it is.
Close(e) ==
  /\ ~Closed(e)
  /\ pc' = [pc EXCEPT ![e] = "closed"]
  /\ call' = [call EXCEPT ![e] = NoCall]
  /\ buf' = [buf EXCEPT ![e] = <<>>]
  /\ ctl' = [ctl EXCEPT ![e] = "idle"]
  /\ errno' = IF e = "deq" THEN "other" ELSE errno
  /\ UNCHANGED <<nonblock, enabled, ec, pipe, accepted, taken, torn>>

Step(e) == \/ Select(e) \/ TimeOut(e) \/ WouldBlock(e) \/ Disable(e)
           \/ e = "deq" /\ (ReadByte \/ EndOfFile)
           \/ e = "enq" /\ (WriteByte \/ BrokenPipe)

Next == \E e \in Ends : \/ Call(e) \/ Refused(e) \/ Step(e) \/ Interrupted(e) \/ Close(e)
                        \/ \E b \in BOOLEAN : DisableCalled(e, b)

Spec == Init /\ [][Next]_vars

\* A thread inside an operation goes on when the kernel and the mutex let it,
\* and clocks run.  Nothing makes a program call, or a signal or an end happen.
FairSpec == Spec /\ \A e \in Ends : WF_vars(Step(e))

-----------------------------------------------------------------------------
\* Types, what the place of a call says about it, and that the waiting
\* operations move no byte.
Stream == Seq(Msgs \X {"body", "sep"})
TypeOK ==
  /\ nonblock \in Modes /\ enabled \in [Ends -> BOOLEAN] /\ torn \in BOOLEAN
  /\ ctl \in [Ends -> {"idle", "disable", "enable"}]
  /\ ec \in Codes \cup {"error"} /\ errno \in {"other", "wouldblock"}
  /\ pc \in [Ends -> {"idle", "first", "later", "read", "write", "closed"}]
  /\ call \in [Ends -> [op : BlockingOps \cup {"none"}, msg : Msgs \cup {NoMsg},
                        given : Codes \cup {"error"}]]
  /\ buf \in [Ends -> Stream] /\ pipe \in Stream /\ Len(pipe) <= BufSize
  /\ accepted \in Seq(Msgs)
  /\ taken \in Seq([msg : Msgs \cup {NoMsg}, reported : BOOLEAN, given : Codes \cup {"error"}])
  /\ \A e \in Ends : /\ call[e].op \in (IF InCall(e) THEN Ops[e] ELSE {"none"})
                     /\ ~InCall(e) => buf[e] = <<>>
                     /\ pc[e] \in {"later", "read", "write"} => call[e].op \in PushOps \cup PopOps
  /\ pc["enq"] # "read" /\ pc["deq"] # "write"
  /\ call["enq"].op \in PushOps => call["enq"].msg \in Msgs /\ buf["enq"] # <<>>

\* Messages are read whole, in order, each once and only if enq accepted them,
\* and none that was accepted disappears, unless a signal tore one.  deq
\* reports every message it has read, however often it had to wait for the rest
\* of it, except to a caller that passed an error code already set.
WholeMessagesInOrder ==
  ~torn => LET seps == Selected(pipe, Msgs \X {"sep"})
           IN  /\ accepted = [i \in DOMAIN taken |-> taken[i].msg] \o [i \in DOMAIN seps |-> seps[i][1]]
               /\ \A i \in DOMAIN taken : taken[i].given = "success" => taken[i].reported

\* Once disable_enq or disable_deq has returned, that end moves no byte, not
\* even for a call that was let in before.
NothingAfterDisable ==
  [][/\ Len(pipe') > Len(pipe) => enabled["enq"] /\ enabled'["enq"]
     /\ Len(pipe') < Len(pipe) => enabled["deq"] /\ enabled'["deq"]]_vars

\* deq spins: end of file, read with errno EWOULDBLOCK from an earlier read.
Spins == pc["deq"] \in {"read", "later"} /\ errno = "wouldblock"
         /\ Closed("enq") /\ ~HasData

\* A call returns once the other end is closed, whatever it has read or
\* written by then, except when it spins.
PeerGoneReleases ==
  \A e \in Ends : (InCall(e) /\ Closed(Peer(e))) ~> (~InCall(e) \/ (e = "deq" /\ Spins))

\* A timed call returns, or finds its descriptor ready.
TimedCallsEnd ==
  \A e \in Ends : (pc[e] = "first" /\ call[e].op \in TimedOps) ~> pc[e] # "first"

================================================================================
