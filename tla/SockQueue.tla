------------------------------- MODULE SockQueue -------------------------------
(***************************************************************************)
(* sockserv_queue and sockclient_queue, the two ends of a full duplex      *)
(* queue over a TCP connection, with the recvwait and sendwait they use    *)
(* (fdqueue_support.hpp) and waitForClientConnect (sockqueue_support.hpp). *)
(*                                                                         *)
(* Each end is used by one thread, as the classes ask for, in a process of *)
(* its own.  A message on the wire is a body and a separator.  The network *)
(* is the kernel: a connection is numbered by the client process that made *)
(* it, bytes arrive in order, and a closed end is seen as end of file      *)
(* ("fin") or, when data got lost, as a reset ("rst").                     *)
(***************************************************************************)
EXTENDS Integers, Sequences, SequencesExt, QueueOps

CONSTANTS Msgs,           \* Msgs[e]: what the program at end e enqueues
          NoMsg,
          Ops,            \* Ops[e]: the operations it uses
          Unserialisable, \* messages whose serialiser throws
          Unreadable,     \* messages whose deserialiser throws
          MaxRuns,        \* bound: MaxRuns[e] processes one after the other at end e
          BufSize,        \* bytes the kernel holds for a reader
          Errnos          \* what errno may hold when an operation is called

Ends    == {"serv", "cli"}
Peer(e) == IF e = "serv" THEN "cli" ELSE "serv"
Conns   == 1 .. MaxRuns["cli"]

AllMsgs == Msgs["serv"] \cup Msgs["cli"]

ASSUME SockAssumption == /\ \A e \in Ends : MaxRuns[e] \in Nat \ {0} /\ Ops[e] \subseteq BlockingOps
                         /\ BufSize \in Nat \ {0}
                         /\ NoMsg \notin AllMsgs
                         /\ Errnos \subseteq {"other", "wouldblock"}

VARIABLES
  alive,      \* alive[e]: "up", "destroyed" (the object, not its process), "dead"
  run,        \* run[e]: number of processes so far
  state_,     \* state_[e], as in the code
  pc,         \* pc[e]: "idle" between calls, or where the call is
  call,       \* call[e]: operation and message
  buf,        \* buf[e]: bytes read so far, or still to be written
  errno,      \* errno[e], as far as the code reads it
  listening,  \* servsocket_ is open
  conn,       \* conn[e]: the connection of clientsocket_, 0 if none
  sockOpen,   \* the client's clientsocket_ is open
  \* the network
  pending,    \* connections not yet accepted
  out,        \* out[c][e]: bytes end e wrote on c
  got,        \* got[c][e]: how many bytes end e read from c
  shut,       \* shut[c][e]: "open", or how the close of end e is seen
  \* histories
  accepted,   \* accepted[c][e]: messages for which enq returned true
  delivered,  \* delivered[c][e]: messages deq returned
  accepts,    \* connections accepted by this server process
  threw       \* threw[e]: a serialiser threw in this process

endVars == <<alive, run, state_, pc, call, buf, errno>>
descVars == <<listening, conn, sockOpen>>
netVars == <<pending, out, got, shut>>
histVars == <<accepted, delivered, accepts, threw>>
vars == <<endVars, descVars, netVars, histVars>>

NoCall   == [op |-> "none", msg |-> NoMsg]
Bytes(m) == <<<<m, "body">>, <<m, "sep">>>>
perEnd(v) == [e \in Ends |-> v]

Init == /\ alive = perEnd("up") /\ run = perEnd(1)
        /\ state_ = perEnd("IDLE") /\ pc = perEnd("idle") /\ call = perEnd(NoCall)
        /\ buf = perEnd(<<>>) /\ errno = perEnd("other")
        /\ listening = TRUE /\ conn = perEnd(0) /\ sockOpen = TRUE
        /\ pending = <<>>
        /\ out = [c \in Conns |-> perEnd(<<>>)] /\ got = [c \in Conns |-> perEnd(0)]
        /\ shut = [c \in Conns |-> perEnd("open")]
        /\ accepted = [c \in Conns |-> perEnd(<<>>)]
        /\ delivered = [c \in Conns |-> perEnd(<<>>)]
        /\ accepts = 0 /\ threw = perEnd(FALSE)

-----------------------------------------------------------------------------
(* The kernel's view of end e.                                             *)
Unread(c, e) == Len(out[c][Peer(e)]) - got[c][e]
PeerOpen(e)  == shut[conn[e]][Peer(e)] = "open"
Usable(e)    == e = "serv" \/ sockOpen

Readable(e) == Unread(conn[e], e) > 0 \/ ~PeerOpen(e)
Writable(e) == Unread(conn[e], Peer(e)) < BufSize \/ ~PeerOpen(e)

\* End e closes its descriptor of connection c: unread bytes make it a reset.
ClosedBy(e, c) ==
  IF c = 0 THEN shut
  ELSE [shut EXCEPT ![c][e] = IF @ # "open" THEN @ ELSE IF Unread(c, e) > 0 THEN "rst" ELSE "fin"]

\* Closing the listening socket resets the connections nobody accepted.
ListenerClosed(sh) ==
  /\ listening' = FALSE
  /\ pending' = <<>>
  /\ shut' = [c \in Conns |-> IF c \in Range(pending) THEN [sh[c] EXCEPT !["serv"] = "rst"]
                              ELSE sh[c]]

-----------------------------------------------------------------------------
(* Calls.                                                                  *)

\* The call k goes from CONNECTED to select.  sendwait serialises first, and
\* only the server has already left CONNECTED when the serialiser throws.
Enter(e, k) ==
  LET throws == k.op \in PushOps /\ k.msg \in Unserialisable
  IN  /\ state_' = [state_ EXCEPT ![e] = CASE k.op \in DeqOps -> "READING"
                                           [] k.op \in EnqOps /\ e = "serv" -> "WRITING"
                                           [] OTHER -> "CONNECTED"]
      /\ pc' = [pc EXCEPT ![e] = IF throws THEN "idle" ELSE "select"]
      /\ call' = [call EXCEPT ![e] = IF throws THEN NoCall ELSE k]
      /\ threw' = [threw EXCEPT ![e] = @ \/ throws]

\* Bound: a message is enqueued again only when it was not accepted before.
Fresh(e, m) == \A c \in Conns : m \notin Range(accepted[c][e])

Calls(e) == {k \in [op : Ops[e], msg : Msgs[e] \cup {NoMsg}] :
               IF k.op \in PushOps THEN k.msg # NoMsg /\ Fresh(e, k.msg) ELSE k.msg = NoMsg}

\* In READING and WRITING, and when its side is disabled, an operation returns
\* false without changing anything.  errno is whatever the thread left in it;
\* only recvwait looks at it when no call has just set it.
Call(e) ==
  /\ alive[e] = "up" /\ pc[e] = "idle"
  /\ \E k \in Calls(e), n \in Errnos :
        /\ \/ /\ state_[e] = "IDLE"
              /\ pc' = [pc EXCEPT ![e] = "connect"]
              /\ call' = [call EXCEPT ![e] = k]
              /\ UNCHANGED <<state_, threw>>
           \/ /\ state_[e] = "CONNECTED"
              /\ Enter(e, k)
        /\ errno' = [errno EXCEPT ![e] = IF k.op \in PopOps THEN n ELSE "other"]
  /\ UNCHANGED <<alive, run, buf, descVars, netVars, accepted, delivered, accepts>>

\* The end of a call: state_ and the histories are up to the caller.
Return(e) == /\ pc' = [pc EXCEPT ![e] = "idle"]
             /\ call' = [call EXCEPT ![e] = NoCall]
             /\ buf' = [buf EXCEPT ![e] = <<>>]
             /\ errno' = [errno EXCEPT ![e] = "other"]

Fail_KeepsListening(e) ==          \* mutant: eclose(servsocket_) forgotten
  /\ Return(e)
  /\ state_' = [state_ EXCEPT ![e] = "IDLE"]
  /\ sockOpen' = (sockOpen /\ e # "cli")
  /\ shut' = IF e = "cli" THEN ClosedBy(e, conn[e]) ELSE shut
  /\ UNCHANGED <<alive, run, conn, listening, pending, out, got, histVars>>

\* The error exit of deqAux and enqAux.  The server closes the socket it
\* listens on and keeps the one of the client.
Fail(e) ==
  /\ Return(e)
  /\ state_' = [state_ EXCEPT ![e] = "IDLE"]
  /\ \/ /\ e = "serv" /\ ListenerClosed(shut)
        /\ UNCHANGED sockOpen
     \/ /\ e = "cli" /\ sockOpen' = FALSE
        /\ shut' = ClosedBy(e, conn[e])
        /\ UNCHANGED <<listening, pending>>
  /\ UNCHANGED <<alive, run, conn, out, got, histVars>>

-----------------------------------------------------------------------------
(* Connecting.                                                             *)
Accept == /\ pc["serv"] = "connect" /\ listening /\ pending # <<>>
          /\ conn' = [conn EXCEPT !["serv"] = Head(pending)]
          /\ pending' = Tail(pending)
          /\ accepts' = accepts + 1
          /\ Enter("serv", call["serv"])
          /\ UNCHANGED <<alive, run, buf, errno, listening, sockOpen, out, got, shut,
                         accepted, delivered>>

\* accept reads addrlen, which nobody set: with a negative length it fails and
\* drops the connection it took.
AcceptDrops ==
  /\ pc["serv"] = "connect" /\ listening /\ pending # <<>>
  /\ Fail("serv")

\* connect succeeds as soon as somebody listens; acceptance comes later.
Connect == /\ pc["cli"] = "connect" /\ sockOpen /\ listening
           /\ conn' = [conn EXCEPT !["cli"] = run["cli"]]
           /\ pending' = Append(pending, run["cli"])
           /\ Enter("cli", call["cli"])
           /\ UNCHANGED <<alive, run, buf, errno, listening, sockOpen, out, got, shut,
                          accepted, delivered, accepts>>

\* Nobody listens, or the socket was closed by an earlier error.
\* connect2server leaves CONNECTED all the same, and its caller closes the socket.
ConnectFails ==
  /\ pc["cli"] = "connect" /\ (~sockOpen \/ ~listening)
  /\ Return("cli")
  /\ state_' = [state_ EXCEPT !["cli"] = "CONNECTED"]
  /\ sockOpen' = FALSE
  /\ UNCHANGED <<alive, run, listening, conn, netVars, histVars>>

-----------------------------------------------------------------------------
(* Waiting, and reading and writing byte by byte.                          *)
IsDeq(e) == call[e].op \in DeqOps

\* select finds the descriptor ready.  The operations that only wait return.
SelectReady(e) ==
  /\ pc[e] = "select" /\ Usable(e)
  /\ IF IsDeq(e) THEN Readable(e) ELSE Writable(e)
  /\ \/ /\ call[e].op \in WaitDeqOps \cup WaitEnqOps
        /\ Return(e)
        /\ state_' = [state_ EXCEPT ![e] = "CONNECTED"]
     \/ /\ call[e].op \in PopOps \cup PushOps
        /\ pc' = [pc EXCEPT ![e] = IF IsDeq(e) THEN "read" ELSE "write"]
        /\ buf' = [buf EXCEPT ![e] = IF IsDeq(e) THEN <<>> ELSE Bytes(call[e].msg)]
        /\ UNCHANGED <<state_, call, errno>>
  /\ UNCHANGED <<alive, run, descVars, netVars, histVars>>

\* A descriptor that is already closed.
SelectFails(e) ==
  /\ \/ pc[e] = "select" /\ ~Usable(e)
     \/ e = "serv" /\ pc[e] = "connect" /\ ~listening
  /\ Fail(e)

\* Reading a byte; the separator ends the message.
ReadByte(e) ==
  LET c == conn[e]
      byte == out[c][Peer(e)][got[c][e] + 1]
      whole == Append(buf[e], byte) = Bytes(byte[1])
      throws == whole /\ byte[1] \in Unreadable
  IN  /\ pc[e] = "read" /\ Unread(c, e) > 0
      /\ got' = [got EXCEPT ![c][e] = @ + 1]
      /\ \/ /\ byte[2] # "sep"
            /\ buf' = [buf EXCEPT ![e] = Append(@, byte)]
            /\ UNCHANGED <<state_, pc, call, errno, delivered, threw>>
         \/ /\ byte[2] = "sep"
            /\ Return(e)
            /\ threw' = [threw EXCEPT ![e] = @ \/ throws]
            /\ IF throws THEN UNCHANGED <<state_, delivered>>
               ELSE /\ state_' = [state_ EXCEPT ![e] = "CONNECTED"]
                    /\ delivered' = [delivered EXCEPT ![c][e] =
                                       Append(@, IF whole THEN byte[1] ELSE NoMsg)]
      /\ UNCHANGED <<alive, run, descVars, pending, out, shut, accepted, accepts>>

ReadEnd_NoEof(e) == /\ pc[e] = "read" /\ Unread(conn[e], e) = 0          \* mutant
                    /\ shut[conn[e]][Peer(e)] = "rst"
                    /\ Fail(e)

\* read returns -1 for a reset and 0 at end of file.  Both are errors, unless
\* the errno left from earlier is EWOULDBLOCK: then recvwait selects and reads
\* again for ever.
ReadEnd(e) == /\ pc[e] = "read" /\ Unread(conn[e], e) = 0
              /\ \/ shut[conn[e]][Peer(e)] = "rst"
                 \/ shut[conn[e]][Peer(e)] = "fin" /\ errno[e] # "wouldblock"
              /\ Fail(e)

Spins(e) == /\ pc[e] = "read" /\ errno[e] = "wouldblock"
            /\ Unread(conn[e], e) = 0 /\ shut[conn[e]][Peer(e)] = "fin"

\* Writing a byte; sendwait and enqAux return with the last one.  What is
\* written to a closed end is lost and resets the connection.
WriteByte(e) ==
  LET c == conn[e]
  IN  /\ pc[e] = "write" /\ Writable(e) /\ shut[c][Peer(e)] # "rst"
      /\ out' = [out EXCEPT ![c][e] = Append(@, Head(buf[e]))]
      /\ shut' = [shut EXCEPT ![c][Peer(e)] = IF @ = "fin" THEN "rst" ELSE @]
      /\ \/ /\ Len(buf[e]) > 1
            /\ buf' = [buf EXCEPT ![e] = Tail(@)]
            /\ UNCHANGED <<state_, pc, call, errno, accepted>>
         \/ /\ Len(buf[e]) = 1
            /\ Return(e)
            /\ state_' = [state_ EXCEPT ![e] = "CONNECTED"]
            /\ accepted' = [accepted EXCEPT ![c][e] = Append(@, call[e].msg)]
      /\ UNCHANGED <<alive, run, descVars, pending, got, delivered, accepts, threw>>

\* In a program that survives SIGPIPE; otherwise its process exits.
WriteFails(e) == /\ pc[e] = "write" /\ shut[conn[e]][Peer(e)] = "rst"
                 /\ Fail(e)

\* End e is inside a system call that waits.
Waits(e) ==
  \/ e = "serv" /\ pc[e] = "connect" /\ listening /\ pending = <<>>
  \/ pc[e] = "select" /\ Usable(e) /\ ~(IF IsDeq(e) THEN Readable(e) ELSE Writable(e))
  \/ pc[e] = "read" /\ ~Readable(e)
  \/ pc[e] = "write" /\ ~Writable(e)

MayTimeOut_NotDeq(e) ==          \* mutant: deqAux passes 0 to recvwait, as enqAux does
  pc[e] = "connect" /\ call[e].op \in TimedOps

MayTimeOut_MidMessage(e) ==      \* mutant: recvwait keeps the timeout after the first byte
  /\ call[e].op \in TimedOps
  /\ pc[e] \in {"connect", "select", "read"} /\ (pc[e] = "select" => IsDeq(e))

\* recvwait only has a timeout before the message, and enqAux passes none.
MayTimeOut(e) == /\ call[e].op \in TimedOps
                 /\ pc[e] = "connect" \/ (pc[e] = "select" /\ IsDeq(e))

TimeOut_StillReading(e) ==       \* mutant: the state is not set back
  /\ Waits(e) /\ MayTimeOut(e)
  /\ Return(e)
  /\ UNCHANGED <<alive, run, state_, descVars, netVars, histVars>>

TimeOut(e) == /\ Waits(e) /\ MayTimeOut(e)
              /\ Return(e)
              /\ state_' = [state_ EXCEPT ![e] = IF @ = "IDLE" THEN "IDLE" ELSE "CONNECTED"]
              /\ UNCHANGED <<alive, run, descVars, netVars, histVars>>

\* A handled signal ends the system call with EINTR.  The retry loop around
\* read and write compares the wrong value with EINTR, so it is an error.
Interrupted(e) == Waits(e) /\ Fail(e)

-----------------------------------------------------------------------------
(* The life of an end.                                                     *)

\* The destructor closes by state_: nothing in IDLE, and the server's client
\* socket only in CONNECTED.
Destroy(e) ==
  /\ alive[e] = "up" /\ pc[e] = "idle"
  /\ alive' = [alive EXCEPT ![e] = "destroyed"]
  /\ \/ /\ state_[e] = "IDLE" /\ UNCHANGED <<listening, sockOpen, pending, shut>>
     \/ /\ e = "serv" /\ state_[e] # "IDLE"
        /\ ListenerClosed(IF state_[e] = "CONNECTED" THEN ClosedBy(e, conn[e]) ELSE shut)
        /\ UNCHANGED sockOpen
     \/ /\ e = "cli" /\ state_[e] # "IDLE"
        /\ sockOpen' = FALSE /\ shut' = ClosedBy(e, conn[e])
        /\ UNCHANGED <<listening, pending>>
  /\ UNCHANGED <<run, state_, pc, call, buf, errno, conn, out, got, histVars>>

\* The process ends, at any point; the kernel closes its descriptors.  The next
\* one, if any, starts in IDLE.
Exit(e) ==
  /\ alive[e] # "dead"
  /\ alive' = [alive EXCEPT ![e] = "dead"]
  /\ Return(e)
  /\ state_' = [state_ EXCEPT ![e] = "IDLE"]
  /\ \/ e = "serv" /\ ListenerClosed(ClosedBy(e, conn[e])) /\ UNCHANGED sockOpen
     \/ /\ e = "cli" /\ sockOpen' = FALSE /\ shut' = ClosedBy(e, conn[e])
        /\ UNCHANGED <<listening, pending>>
  /\ UNCHANGED <<run, conn, out, got, histVars>>

\* Another process constructs the queue.
Restart(e) ==
  /\ alive[e] = "dead" /\ run[e] < MaxRuns[e]
  /\ alive' = [alive EXCEPT ![e] = "up"]
  /\ run' = [run EXCEPT ![e] = @ + 1]
  /\ conn' = [conn EXCEPT ![e] = 0]
  /\ threw' = [threw EXCEPT ![e] = FALSE]
  /\ listening' = (listening \/ e = "serv")
  /\ accepts' = IF e = "serv" THEN 0 ELSE accepts
  /\ sockOpen' = (sockOpen \/ e = "cli")
  /\ UNCHANGED <<state_, pc, call, buf, errno, netVars, accepted, delivered>>

\* What a call does once it has started.
Connecting(e) == \/ e = "serv" /\ (Accept \/ AcceptDrops)
                 \/ e = "cli" /\ (Connect \/ ConnectFails)
Step(e) == \/ Connecting(e) \/ SelectReady(e) \/ SelectFails(e)
           \/ ReadByte(e) \/ ReadEnd(e) \/ WriteByte(e) \/ WriteFails(e) \/ TimeOut(e)

Next == \E e \in Ends : Call(e) \/ Step(e) \/ Interrupted(e) \/ Destroy(e) \/ Exit(e) \/ Restart(e)

Spec == Init /\ [][Next]_vars

\* A thread inside a call goes on when the kernel lets it, and clocks run.
\* Nothing makes a program call, or a signal or an exit happen.
FairSpec == Spec /\ \A e \in Ends : WF_vars(Step(e))

-----------------------------------------------------------------------------
\* On each connection an end receives, from the first on and in order, messages
\* the other end's enq has accepted: a timeout, a signal or a process that ends
\* in the middle of a message never makes a message out of its rest, nor
\* delivers one whose enq failed.
WholeMessagesInOrder ==
  \A c \in Conns, e \in Ends : IsPrefix(delivered[c][e], accepted[c][Peer(e)])

\* Between calls an end is IDLE or CONNECTED, so that the "dummy return" at the
\* end of deqAux and enqAux is not reached, unless a serialiser threw.
StuckOnlyAfterThrow ==
  \A e \in Ends : pc[e] = "idle" /\ state_[e] \in {"READING", "WRITING"} /\ alive[e] = "up" => threw[e]

\* Only one client is ever served, although an error leads back to the state
\* that waits for clients.
OneClientPerServer == accepts <= 1

\* A call returns once the other end has closed the connection, whatever it
\* has read or written by then, except when it spins.
PeerGoneReleases ==
  \A e \in Ends :
     (conn[e] # 0 /\ pc[e] \in {"select", "read", "write"} /\ ~PeerOpen(e))
        ~> (pc[e] = "idle" \/ Spins(e))

\* A timed deq returns, or starts to read a message.
TimedDeqEnds ==
  \A e \in Ends : (pc[e] \in {"connect", "select"} /\ call[e].op \in TimedOps /\ IsDeq(e))
                     ~> pc[e] \in {"idle", "read"}
================================================================================
