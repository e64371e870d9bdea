------------------------------ MODULE SockdeqServ ------------------------------
(***************************************************************************)
(* sockdeq_serv_queue: a thread of its own accepts clients and collects    *)
(* their messages in one select loop (acceptClientsAndDequeue in           *)
(* sockqueue_support.hpp) and pushes them on a queue that other threads    *)
(* take them from.                                                         *)
(*                                                                         *)
(* The taking side is, line by line, the one of simple_queue, so it is an  *)
(* instance of SimpleQueue in which only the server thread pushes and      *)
(* there is no capacity.  A message is one or more bytes and a separator;  *)
(* a run of bytes of one message is one token, here and in the kernel, and *)
(* a client can always add another byte to it.                             *)
(***************************************************************************)
EXTENDS Integers, Sequences, SequencesExt, FiniteSets, QueueOps, Selection

CONSTANTS Consumers,   \* threads that take messages
          Calls,       \* Calls[t]: the operations consumer t uses
          server,      \* serv_thr_
          Clients,     \* connections, each made once
          Sends,       \* Sends[c]: the messages client c sends, in order
          NoMsg,
          Unreadable,  \* messages whose deserialiser throws
          maxclients_,
          BufSize      \* tokens the kernel holds for a reader

Msgs    == UNION {Range(Sends[c]) : c \in Clients}
Threads == Consumers \cup {server}

\* Messages have an identity: none is sent twice, here or elsewhere.
ASSUME ServAssumption ==
  /\ server \notin Consumers \cup Clients /\ NoMsg \notin Msgs
  /\ \A c \in Clients : Sends[c] \in Seq(Msgs) /\ IsInjective(Sends[c])
  /\ \A c, d \in Clients : c # d => Range(Sends[c]) \cap Range(Sends[d]) = {}
  /\ maxclients_ \in Nat /\ BufSize \in Nat \ {0}

VARIABLES
  \* the queue, see SimpleQueue
  q_, deq_enabled_, pc, late, call, ec, sent, received,
  \* the server thread
  spc,          \* where it is in its loop, "ended" or "terminated"
  stop_server_,
  owner,        \* the destructor: "using", "joining", "destroyed"
  input,        \* what select found ready: clients, and server for servsocket
  client_data,  \* the keys of client_data
  buf,          \* buf[c]: the vector client_data keeps for c
  fd2erase,
  client_fd,    \* the client being read
  firstTime,
  \* the kernel and the clients
  pending,      \* connections waiting for accept
  conn,         \* conn[c]: "new", "pending", "open" in the server, "closed" by it,
                \* or "refused" by a failing accept
  wire,         \* wire[c]: tokens client c wrote and nobody read
  gone,         \* gone[c]: client c closed its end, "fin", or was cut off, "rst"
  written       \* written[c]: how many messages c wrote to the end

queueVars  == <<q_, deq_enabled_, pc, late, call, ec, sent, received>>
loopVars   == <<spc, input, client_data, buf, fd2erase, client_fd, firstTime>>
clientVars == <<pending, conn, wire, gone, written>>
vars == <<queueVars, loopVars, stop_server_, owner, clientVars>>

\* The only caller of enq is the server thread, and it never waits.
Queue == INSTANCE SimpleQueue WITH
           Items <- Msgs, NoItem <- NoMsg, MaxSizes <- {Cardinality(Msgs) + 1}, SizeMod <- 1,
           Calls <- [t \in Threads |-> IF t = server THEN {"enq"} ELSE Calls[t]],
           maxsize_ <- Cardinality(Msgs) + 1, enq_enabled_ <- (server \in Threads),
           sized <- [t \in Threads |-> 0]

Init == /\ Queue!Init
        /\ spc = "start" /\ stop_server_ = FALSE /\ owner = "using"
        /\ input = {} /\ client_data = {} /\ fd2erase = {}
        /\ client_fd = server /\ firstTime = FALSE
        /\ buf = [c \in Clients |-> <<>>]
        /\ pending = <<>>
        /\ conn = [c \in Clients |-> "new"]
        /\ wire = [c \in Clients |-> <<>>]
        /\ gone = [c \in Clients |-> "no"]
        /\ written = [c \in Clients |-> 0]

Running == spc # "terminated"

-----------------------------------------------------------------------------
(* Clients, outside the process.  A connection is complete, and can be     *)
(* written to, once it is in the backlog.                                  *)
AddToken(s, b) == IF s # <<>> /\ Last(s) = b THEN s ELSE Append(s, b)

Connect(c) ==
  /\ Running /\ conn[c] = "new" /\ spc # "start" /\ owner # "destroyed"
  /\ Len(pending) <= maxclients_
  /\ conn' = [conn EXCEPT ![c] = "pending"]
  /\ pending' = Append(pending, c)
  /\ UNCHANGED <<queueVars, loopVars, stop_server_, owner, wire, gone, written>>

\* The next byte of a message, or its separator once it has a byte.
Write(c) ==
  /\ Running /\ conn[c] \in {"pending", "open"} /\ gone[c] = "no"
  /\ written[c] < Len(Sends[c])
  /\ LET m == Sends[c][written[c] + 1]
     IN  \/ /\ Len(AddToken(wire[c], <<m, "body">>)) <= BufSize
            /\ wire' = [wire EXCEPT ![c] = AddToken(@, <<m, "body">>)]
            /\ UNCHANGED written
         \/ /\ Len(wire[c]) < BufSize
            /\ <<m, "body">> \in Range(wire[c]) \cup Range(buf[c])
            /\ wire' = [wire EXCEPT ![c] = Append(@, <<m, "sep">>)]
            /\ written' = [written EXCEPT ![c] = @ + 1]
  /\ UNCHANGED <<queueVars, loopVars, stop_server_, owner, pending, conn, gone>>

\* The client closes its end, or the connection breaks and what was on the
\* way is lost.
Leave(c) ==
  /\ Running /\ conn[c] \in {"pending", "open"} /\ gone[c] = "no"
  /\ \/ gone' = [gone EXCEPT ![c] = "fin"] /\ UNCHANGED wire
     \/ gone' = [gone EXCEPT ![c] = "rst"] /\ wire' = [wire EXCEPT ![c] = <<>>]
  /\ UNCHANGED <<queueVars, loopVars, stop_server_, owner, pending, conn, written>>

-----------------------------------------------------------------------------
(* The server thread.                                                      *)

\* An exception leaves the thread function: the program is terminated.
Terminate == /\ spc' = "terminated"
             /\ UNCHANGED <<queueVars, input, client_data, buf, fd2erase, client_fd,
                            firstTime, stop_server_, owner, clientVars>>

\* createListenSocket succeeds or throws.
Start ==
  /\ spc = "start"
  /\ \/ Terminate
     \/ /\ spc' = "head"
        /\ UNCHANGED <<queueVars, input, client_data, buf, fd2erase, client_fd,
                       firstTime, stop_server_, owner, clientVars>>

\* The test of the loop.  Leaving it closes every client.
LoopHead ==
  /\ spc = "head"
  /\ spc' = IF stop_server_ THEN "ended" ELSE "select"
  /\ conn' = [c \in Clients |-> IF stop_server_ /\ c \in client_data THEN "closed" ELSE conn[c]]
  /\ UNCHANGED <<queueVars, input, client_data, buf, fd2erase, client_fd,
                 firstTime, stop_server_, owner, pending, wire, gone, written>>

Ready == {c \in client_data : wire[c] # <<>> \/ gone[c] # "no"}
         \cup IF pending # <<>> THEN {server} ELSE {}

Select_NoTimeout ==              \* mutant: select blocks until something happens
  /\ spc = "select" /\ Ready # {}
  /\ input' = Ready
  /\ spc' = IF server \in Ready THEN "accept" ELSE "serve"
  /\ UNCHANGED <<queueVars, client_data, buf, fd2erase, client_fd, firstTime,
                 stop_server_, owner, clientVars>>

\* select returns what is ready, or 0 after tmo_poll_ms_.
Select ==
  /\ spc = "select"
  /\ input' = Ready
  /\ spc' = IF Ready = {} THEN "head" ELSE IF server \in Ready THEN "accept" ELSE "serve"
  /\ UNCHANGED <<queueVars, client_data, buf, fd2erase, client_fd, firstTime,
                 stop_server_, owner, clientVars>>

\* A signal handled on this thread: n < 0 is an error whatever errno is.
Interrupted == spc = "select" /\ Terminate

\* accept and setFdNonblock succeed; the client is read in a later round.
Accept ==
  /\ spc = "accept"
  /\ conn' = [conn EXCEPT ![Head(pending)] = "open"]
  /\ client_data' = client_data \cup {Head(pending)}
  /\ pending' = Tail(pending)
  /\ spc' = "serve"
  /\ UNCHANGED <<queueVars, input, buf, fd2erase, client_fd, firstTime,
                 stop_server_, owner, wire, gone, written>>

\* Either fails, and the round is over before any client is read: the
\* connection is lost, or, when accept fails for want of descriptors or memory,
\* stays where it is and select reports it again.
AcceptFails ==
  /\ spc = "accept"
  /\ \/ /\ conn' = [conn EXCEPT ![Head(pending)] = "refused"]
        /\ pending' = Tail(pending)
     \/ UNCHANGED <<conn, pending>>
  /\ spc' = "head"
  /\ UNCHANGED <<queueVars, input, client_data, buf, fd2erase, client_fd,
                 firstTime, stop_server_, owner, wire, gone, written>>

NextClient_OnePerRound ==        \* mutant: back to select after the first client
  /\ spc = "serve"
  /\ \E c \in input \cap client_data : client_fd' = c
  /\ input' = {}
  /\ firstTime' = TRUE
  /\ spc' = "read"
  /\ UNCHANGED <<queueVars, client_data, buf, fd2erase, stop_server_, owner, clientVars>>

\* The for loop over client_data, in the order of a hash table.
NextClient ==
  /\ spc = "serve"
  /\ \E c \in input \cap client_data :
        /\ client_fd' = c
        /\ input' = input \ {c}
  /\ firstTime' = TRUE
  /\ spc' = "read"
  /\ UNCHANGED <<queueVars, client_data, buf, fd2erase, stop_server_, owner, clientVars>>

EndOfRound_KeepsKeys ==          \* mutant: fd2erase is not applied
  /\ spc = "serve" /\ input \cap client_data = {}
  /\ fd2erase' = {}
  /\ spc' = "head"
  /\ UNCHANGED <<queueVars, input, client_data, buf, client_fd, firstTime,
                 stop_server_, owner, clientVars>>

EndOfRound ==
  /\ spc = "serve" /\ input \cap client_data = {}
  /\ client_data' = client_data \ fd2erase
  /\ buf' = [c \in Clients |-> IF c \in fd2erase THEN <<>> ELSE buf[c]]
  /\ fd2erase' = {}
  /\ spc' = "head"
  /\ UNCHANGED <<queueVars, input, client_fd, firstTime, stop_server_, owner, clientVars>>

\* What the user's deserialiser makes of a stream: the first message in it.
deser(bytes) == bytes[1][1]

ReadByte_KeepsBuf ==             \* mutant: buf.clear() forgotten
  /\ spc = "read" /\ wire[client_fd] # <<>>
  /\ LET bytes == AddToken(buf[client_fd], Head(wire[client_fd]))
     IN  /\ buf' = [buf EXCEPT ![client_fd] = bytes]
         /\ IF Last(bytes)[2] = "sep"
            THEN /\ call' = [call EXCEPT ![server] = [op |-> "enq", item |-> deser(bytes)]]
                 /\ pc' = [pc EXCEPT ![server] = "ready"]
                 /\ spc' = "create"
            ELSE UNCHANGED <<call, pc, spc>>
  /\ wire' = [wire EXCEPT ![client_fd] = Tail(@)]
  /\ firstTime' = FALSE
  /\ UNCHANGED <<q_, deq_enabled_, late, ec, sent, received, input, client_data, fd2erase,
                 client_fd, stop_server_, owner, pending, conn, gone, written>>

\* A byte of the client, kept until a separator completes the message: then
\* the thread goes for the mutex with what it collected.
ReadByte ==
  /\ spc = "read" /\ wire[client_fd] # <<>>
  /\ LET bytes == AddToken(buf[client_fd], Head(wire[client_fd]))
     IN  IF Last(bytes)[2] = "sep"
         THEN /\ buf' = [buf EXCEPT ![client_fd] = <<>>]
              /\ call' = [call EXCEPT ![server] = [op |-> "enq", item |-> deser(bytes)]]
              /\ pc' = [pc EXCEPT ![server] = "ready"]
              /\ spc' = "create"
         ELSE /\ buf' = [buf EXCEPT ![client_fd] = bytes]
              /\ UNCHANGED <<call, pc, spc>>
  /\ wire' = [wire EXCEPT ![client_fd] = Tail(@)]
  /\ firstTime' = FALSE
  /\ UNCHANGED <<q_, deq_enabled_, late, ec, sent, received, input, client_data, fd2erase,
                 client_fd, stop_server_, owner, pending, conn, gone, written>>

\* read() has nothing, at once (the client is gone: closed) or after some
\* bytes (the client stays, with the bytes of an unfinished message).
ReadNothing ==
  /\ spc = "read" /\ wire[client_fd] = <<>>
  /\ conn' = [conn EXCEPT ![client_fd] = IF firstTime THEN "closed" ELSE @]
  /\ fd2erase' = IF firstTime THEN fd2erase \cup {client_fd} ELSE fd2erase
  /\ spc' = "serve"
  /\ UNCHANGED <<queueVars, input, client_data, buf, client_fd, firstTime,
                 stop_server_, owner, pending, wire, gone, written>>

createItem_Silent ==             \* mutant: nobody is notified
  /\ spc = "create"
  /\ q_' = Append(q_, call[server].item)
  /\ sent' = Append(sent, call[server].item)
  /\ pc' = [pc EXCEPT ![server] = "idle"]
  /\ spc' = "read"
  /\ UNCHANGED <<deq_enabled_, late, call, ec, received, input, client_data, buf,
                 fd2erase, client_fd, firstTime, stop_server_, owner, clientVars>>

\* Under the mutex: deserialise, push, notify.  A deserialiser that throws
\* takes the thread function with it.
createItem ==
  /\ spc = "create"
  /\ \/ call[server].item \in Unreadable /\ Terminate
     \/ /\ call[server].item \notin Unreadable
        /\ Queue!Push(server)
        /\ spc' = "read"
        /\ UNCHANGED <<input, client_data, buf, fd2erase, client_fd, firstTime,
                       stop_server_, owner, clientVars>>

Server == Start \/ LoopHead \/ Select \/ Accept \/ AcceptFails \/ NextClient
          \/ EndOfRound \/ ReadByte \/ ReadNothing \/ createItem

-----------------------------------------------------------------------------
(* The threads that use the queue.                                         *)

UnchangedLoop == UNCHANGED <<loopVars, stop_server_, owner, clientVars>>

\* Consumer t calls deq, timed_deq, wait_deq, timed_wait_deq or disable_deq.
Call(t) == /\ Running /\ owner = "using" /\ UnchangedLoop
           /\ \/ \E op \in DeqOps : Queue!Enter(t, op, NoMsg)
              \/ \E disable \in BOOLEAN : Queue!disable_deq(t, disable)

Run(t)      == Running /\ Queue!Run(t) /\ UnchangedLoop
Deadline(t) == Running /\ Queue!Deadline(t) /\ UnchangedLoop
Wakeup(t)   == Running /\ Queue!SpuriousWakeup(t) /\ UnchangedLoop

\* The destructor, called when no thread is in a call: it sets stop_server_,
\* joins the thread and closes the listening socket.
Destroy ==
  /\ Running /\ owner = "using" /\ \A t \in Consumers : pc[t] = "idle"
  /\ owner' = "joining" /\ stop_server_' = TRUE
  /\ UNCHANGED <<queueVars, loopVars, clientVars>>

Join ==
  /\ owner = "joining" /\ spc = "ended"
  /\ owner' = "destroyed"
  /\ conn' = [c \in Clients |-> IF c \in Range(pending) THEN "refused" ELSE conn[c]]
  /\ pending' = <<>>
  /\ UNCHANGED <<queueVars, loopVars, stop_server_, wire, gone, written>>

Next == \/ Server \/ Interrupted \/ Destroy \/ Join
        \/ \E t \in Consumers : Call(t) \/ Run(t) \/ Deadline(t) \/ Wakeup(t)
        \/ \E c \in Clients : Connect(c) \/ Write(c) \/ Leave(c)

Spec == Init /\ [][Next]_vars

\* The server thread and the destructor run.  Nothing makes a client or a
\* consumer act, and no signal has to come.
FairSpec == Spec /\ WF_vars(Server) /\ WF_vars(Join)

-----------------------------------------------------------------------------
\* The messages of c that are in the queue or were, in the server's hand, or
\* whole in the kernel.
Queued(c)  == Selected(sent, Range(Sends[c]))
InHand(c)  == IF spc = "create" /\ client_fd = c THEN <<call[server].item>> ELSE <<>>
Waiting(c) == LET seps == Selected(wire[c], Msgs \X {"sep"})
              IN  [i \in DOMAIN seps |-> seps[i][1]]

\* However rounds, connects, disconnects and writes of several clients mix,
\* the messages of a client arrive whole, once and in order, and none that it
\* finished is lost between the kernel and the queue unless its connection
\* broke.  What the kernel holds of a connection that was refused or closed
\* counts as waiting there, and nobody will read it.
WholeMessagesInOrder ==
  Running => \A c \in Clients :
     LET all == Queued(c) \o InHand(c) \o Waiting(c)
     IN  /\ IsPrefix(all, SubSeq(Sends[c], 1, written[c]))
         /\ gone[c] # "rst" => Len(all) = written[c]

\* Between rounds client_data holds exactly the descriptors that are open, so
\* select is never given a closed one; when the thread has ended none is open.
DescriptorsTracked ==
  /\ spc \in {"head", "select", "accept"} => client_data = {c \in Clients : conn[c] = "open"}
  /\ spc = "ended" => \A c \in Clients : conn[c] # "open"

\* No consumer sleeps while a message is queued or taking is disabled.
NoLostWakeup == Queue!NoLostWakeup

\* The thread is in the inner loop for one client for good: the bytes come as
\* fast as it reads them.
Captured == \E c \in Clients : <>[](spc \in {"read", "create"} /\ client_fd = c)

\* The destructor returns within a poll interval, unless a client that never
\* stops writing keeps the loop from testing stop_server_.
DestructionReturns ==
  Captured \/ (owner = "joining" ~> owner = "destroyed" \/ ~Running)

\* Every round, for good, ends in accept, which fails and keeps the connection:
\* no client is read any more.
AcceptKeepsFailing == <>[](spc \in {"head", "select", "accept"} /\ pending # <<>>)

\* A message a client finished is queued, also when the client left behind it,
\* unless its accept failed, the connection broke, the server is being stopped,
\* another client has captured the loop, or accept fails for good.
MessageReachesQueue ==
  Captured \/ AcceptKeepsFailing \/ \A c \in Clients : \A i \in 1 .. Len(Sends[c]) :
     (written[c] >= i) ~> \/ Sends[c][i] \in Range(sent)
                         \/ gone[c] = "rst" \/ conn[c] = "refused"
                         \/ stop_server_ \/ ~Running

================================================================================
