------------------------ MODULE SockdeqServProofs ----------------------------
(***************************************************************************)
(* Theorems about SockdeqServ, for any number of clients, consumers and    *)
(* messages, any buffer of the kernel and any choice of operations.        *)
(***************************************************************************)
EXTENDS SockdeqServ, SeqLemmas

-----------------------------------------------------------------------------
(***************************************************************************)
(* What the variables hold.                                                *)
(***************************************************************************)
Spots  == {"start", "head", "select", "accept", "serve", "read", "create", "ended", "terminated"}
Fates  == {"new", "pending", "open", "closed", "refused"}
Tokens == Msgs \X {"body", "sep"}
Outcome == [op : DeqOps \cup {"none", "enq"}, item : Msgs \cup {NoMsg}]

TypeQueue ==
  /\ q_ \in Seq(Msgs) /\ sent \in Seq(Msgs) /\ received \in Seq(Msgs)
  /\ deq_enabled_ \in BOOLEAN
  /\ pc \in [Threads -> {"idle", "ready", "waiting", "expired"}]
  /\ late \in [Threads -> BOOLEAN]
  /\ call \in [Threads -> Outcome]
  /\ ec \in [Threads -> Codes]

TypeLoop ==
  /\ spc \in Spots /\ stop_server_ \in BOOLEAN /\ owner \in {"using", "joining", "destroyed"}
  /\ input \subseteq Clients \cup {server}
  /\ client_data \subseteq Clients /\ fd2erase \subseteq client_data
  /\ client_fd \in Clients \cup {server} /\ firstTime \in BOOLEAN

TypeClients ==
  /\ buf \in [Clients -> Seq(Tokens)] /\ wire \in [Clients -> Seq(Tokens)]
  /\ pending \in Seq(Clients)
  /\ conn \in [Clients -> Fates]
  /\ gone \in [Clients -> {"no", "fin", "rst"}]
  /\ written \in [Clients -> Nat]

TypeOK == TypeQueue /\ TypeLoop /\ TypeClients

(***************************************************************************)
(* Where the loop is. A client that is read is in client_data, is not      *)
(* marked in fd2erase and is no longer in input; marks are made only in a  *)
(* round and applied at its end; accept finds a connection.                *)
(***************************************************************************)
Place ==
  /\ spc \in {"read", "create"} => client_fd \in client_data \ (fd2erase \cup input)
  /\ fd2erase \cap input = {}
  /\ spc \notin {"serve", "read", "create", "terminated"} => fd2erase = {}
  /\ spc = "accept" => pending # <<>>

\* The backlog holds every pending connection, once.
Backlog ==
  /\ IsInjective(pending)
  /\ \A c \in Clients : conn[c] = "pending" <=> c \in Range(pending)

(***************************************************************************)
(* Except for the marked ones, which are closed already, client_data holds *)
(* the descriptors that are open.                                          *)
(***************************************************************************)
Descriptors ==
  /\ spc \notin {"ended", "terminated"} =>
       \A c \in Clients : c \in client_data \ fd2erase <=> conn[c] = "open"
  /\ spc = "ended" => \A c \in Clients : conn[c] # "open"

(***************************************************************************)
(* The server thread only pushes and never waits, the consumers only take; *)
(* and a consumer that is blocked has nothing to take.                     *)
(***************************************************************************)
Callers ==
  /\ pc[server] \in {"idle", "ready"} /\ call[server].op \in {"none", "enq"}
  /\ call[server].op = "enq" => call[server].item \in Msgs
  /\ \A t \in Consumers : pc[t] # "idle" => call[t].op \in DeqOps

Sleepers == \A t \in Consumers : pc[t] = "waiting" => deq_enabled_ /\ q_ = <<>>

\* The queue and its users; the loop, the descriptors and the clients.
QueueInv == TypeQueue /\ Callers /\ Sleepers

LoopInv == TypeLoop /\ TypeClients /\ Place /\ Backlog /\ Descriptors
LoopVars == <<loopVars, stop_server_, owner, clientVars>>

\* Both.
Serving == QueueInv /\ LoopInv

-----------------------------------------------------------------------------
\* The actions, as the case split of the step proofs.
LEMMA NextCases ==
  ASSUME Next
  PROVE  \/ Start \/ LoopHead \/ Select \/ Accept \/ AcceptFails \/ NextClient
         \/ EndOfRound \/ ReadByte \/ ReadNothing \/ createItem
         \/ Interrupted \/ Destroy \/ Join
         \/ \E t \in Consumers : Call(t) \/ Run(t) \/ Deadline(t) \/ Wakeup(t)
         \/ \E c \in Clients : Connect(c) \/ Write(c) \/ Leave(c)
BY DEF Next, Server

\* Appending an item that is in S.
LEMMA Appended ==
  ASSUME NEW S, NEW s \in Seq(S), NEW x \in S
  PROVE  /\ Append(s, x) \in Seq(S) /\ Append(s, x) # <<>> /\ Len(Append(s, x)) = Len(s) + 1
         /\ Last(Append(s, x)) = x
<1>1. /\ Append(s, x) \in Seq(S) /\ Len(Append(s, x)) = Len(s) + 1
      /\ Append(s, x)[Len(s) + 1] = x
  BY AppendProperties
<1>2. PICK t \in Seq(S) : t = Append(s, x)
  BY <1>1
<1>3. t # <<>> /\ Last(t) = x
  BY <1>1, <1>2, EmptySeq, LenProperties DEF Last
<1>4. QED
  BY <1>1, <1>2, <1>3, Zenon

\* A byte added to a run of bytes is its last one.
LEMMA AddTokenType ==
  ASSUME NEW s \in Seq(Tokens), NEW b \in Tokens
  PROVE  /\ AddToken(s, b) \in Seq(Tokens) /\ AddToken(s, b) # <<>>
         /\ Last(AddToken(s, b)) = b /\ AddToken(s, b)[1] \in Tokens
<1>1. PICK t \in Seq(Tokens) : t = AddToken(s, b) /\ t # <<>> /\ Last(t) = b
  BY Appended, Zenon DEF AddToken
<1>2. t[1] \in Tokens
  BY <1>1, EmptySeq
<1>3. QED
  BY <1>1, <1>2, Zenon

\* Every message a client sends is a message.
LEMMA SendsType ==
  ASSUME NEW c \in Clients
  PROVE  /\ Sends[c] \in Seq(Msgs) /\ IsInjective(Sends[c])
         /\ \A i \in 1 .. Len(Sends[c]) : Sends[c][i] \in Msgs
BY ServAssumption

\* The invariants hold in the beginning.
LEMMA TypeInit == Init => TypeOK /\ Place /\ Backlog /\ Descriptors /\ Callers /\ Sleepers
<1> SUFFICES ASSUME Init PROVE TypeOK /\ Place /\ Backlog /\ Descriptors /\ Callers /\ Sleepers
  OBVIOUS
<1>1. TypeQueue
  BY DEF Init, Queue!Init, TypeQueue, Outcome, Codes
<1>2. TypeLoop
  BY DEF Init, TypeLoop, Spots
<1>3. TypeClients
  BY DEF Init, TypeClients, Fates
<1>4. Place /\ Descriptors
  BY DEF Init, Place, Descriptors
<1>5. Backlog
  BY DEF Init, Backlog, IsInjective, Range
<1>6. Callers /\ Sleepers
  BY ServAssumption DEF Init, Queue!Init, Callers, Sleepers, Threads
<1>7. QED
  BY <1>1, <1>2, <1>3, <1>4, <1>5, <1>6 DEF TypeOK

-----------------------------------------------------------------------------
\* The queue does not change when its variables do not.
LEMMA QueueKept == QueueInv /\ UNCHANGED queueVars => QueueInv'
BY DEF QueueInv, TypeQueue, Callers, Sleepers, queueVars

\* A consumer calls deq and the like, or disables taking.
LEMMA CallKeeps ==
  ASSUME QueueInv, NEW t \in Consumers, Call(t)
  PROVE  QueueInv'
<1>1. CASE \E op \in DeqOps : Queue!Enter(t, op, NoMsg)
  <2>1. PICK op \in DeqOps : Queue!Enter(t, op, NoMsg)
    BY <1>1
  <2>2. /\ pc[t] = "idle" /\ pc' = [pc EXCEPT ![t] = "ready"]
        /\ call' = [call EXCEPT ![t] = [op |-> op, item |-> NoMsg]]
        /\ ec' = [ec EXCEPT ![t] = "success"]
        /\ UNCHANGED <<q_, deq_enabled_, late, sent, received>>
    BY <2>1 DEF Queue!Enter, Queue!queueVars, Queue!historyVars
  <2>3. t # server /\ t \in Threads /\ server \in Threads
    BY ServAssumption DEF Threads
  <2>4. [op |-> op, item |-> NoMsg] \in Outcome
    BY DEF Outcome
  <2>5. TypeQueue'
    BY <2>2, <2>3, <2>4 DEF QueueInv, TypeQueue, Codes
  <2>6. call' \in [Threads -> Outcome] /\ call'[t].op = op /\ \A u \in Threads : u # t => call'[u] = call[u]
    BY <2>2, <2>3, <2>4 DEF QueueInv, TypeQueue
  <2>7. Callers'
    BY <2>2, <2>3, <2>6 DEF QueueInv, TypeQueue, Callers, Threads
  <2>8. Sleepers'
    BY <2>2, <2>3 DEF QueueInv, TypeQueue, Sleepers, Threads
  <2>9. QED
    BY <2>5, <2>7, <2>8 DEF QueueInv
<1>2. CASE \E disable \in BOOLEAN : Queue!disable_deq(t, disable)
  <2>1. /\ deq_enabled_' \in BOOLEAN
        /\ pc' = [u \in Threads |-> IF pc[u] = "waiting" THEN "ready" ELSE pc[u]]
        /\ UNCHANGED <<q_, late, call, ec, sent, received>>
    BY <1>2 DEF Queue!disable_deq, Queue!CallsControl, Queue!Notified, Queue!historyVars
  <2>2. QED
    BY <2>1 DEF QueueInv, TypeQueue, Callers, Sleepers, Threads
<1>3. QED
  BY <1>1, <1>2 DEF Call

\* A consumer blocks, takes, fails, is woken, or its deadline passes.
LEMMA RunKeeps ==
  ASSUME QueueInv, NEW t \in Consumers, Run(t) \/ Deadline(t) \/ Wakeup(t)
  PROVE  QueueInv'
<1>1. t # server /\ t \in Threads /\ server \in Threads /\ Consumers \subseteq Threads
      /\ \A u \in Threads : u \in Consumers \/ u = server
  BY ServAssumption DEF Threads
<1>2. ASSUME UNCHANGED <<q_, deq_enabled_, call, sent, received>>,
             pc' = [pc EXCEPT ![t] = pc'[t]], late' = [late EXCEPT ![t] = late'[t]],
             pc'[t] \in {"idle", "ready", "waiting", "expired"}, late'[t] \in BOOLEAN,
             ec' \in [Threads -> Codes], pc[t] # "idle",
             pc'[t] = "waiting" => deq_enabled_ /\ q_ = <<>>
      PROVE  QueueInv'
  <2>1. TypeQueue'
    BY <1>1, <1>2 DEF QueueInv, TypeQueue
  <2>2. Callers'
    BY <1>1, <1>2 DEF QueueInv, TypeQueue, Callers
  <2>3. Sleepers'
    BY <1>1, <1>2 DEF QueueInv, TypeQueue, Sleepers
  <2>4. QED
    BY <2>1, <2>2, <2>3 DEF QueueInv
<1>3. pc[t] # "idle" => call[t].op \in DeqOps
  BY DEF QueueInv, Callers
<1>4. CASE Deadline(t)
  BY <1>4, <1>1, <1>2 DEF Deadline, Queue!Deadline, Queue!queueVars, Queue!historyVars, QueueInv, TypeQueue
<1>5. CASE Wakeup(t)
  BY <1>5, <1>1, <1>2 DEF Wakeup, Queue!SpuriousWakeup, Queue!queueVars, Queue!historyVars, QueueInv, TypeQueue
<1>6. CASE Queue!Block(t)
  <2>1. ~Queue!Ready(t) => deq_enabled_ /\ q_ = <<>>
    BY <1>3, <1>6 DEF Queue!Block, Queue!Ready, Queue!DeqReady, Queue!Empty, Queue!EnqOps, Queue!PushOps,
      Queue!WaitEnqOps, DeqOps, PopOps, WaitDeqOps
  <2>2. QED
    BY <2>1, <1>6, <1>1, <1>2 DEF Queue!Block, Queue!queueVars, Queue!historyVars, QueueInv, TypeQueue
<1>7. CASE Queue!Push(t) \/ Queue!WaitEnq(t)
  BY <1>3, <1>7 DEF Queue!Push, Queue!WaitEnq, Queue!Contends, Queue!PushOps, Queue!WaitEnqOps, DeqOps, PopOps, WaitDeqOps
<1>8. CASE Queue!Aborted(t) \/ Queue!TimedOut(t)
  <2>1. PICK c \in Codes : Queue!Fail(t, c) /\ pc[t] # "idle"
    BY <1>8 DEF Queue!Aborted, Queue!TimedOut, Queue!Contends, Codes
  <2>2. QED
    BY <2>1, <1>1, <1>2 DEF Queue!Fail, Queue!queueVars, Queue!historyVars, QueueInv, TypeQueue
<1>9. ASSUME Queue!Succeed(t), q_' \in Seq(Msgs), received' \in Seq(Msgs), UNCHANGED sent,
             call' \in [Threads -> Outcome], \A u \in Threads : call'[u].op = call[u].op,
             call'[server] = call[server], pc[t] # "idle"
      PROVE  QueueInv'
  <2>1. /\ pc' = [u \in Threads |-> IF u = t THEN "idle" ELSE IF pc[u] = "waiting" THEN "ready" ELSE pc[u]]
        /\ ec' = [ec EXCEPT ![t] = "success"] /\ late' = [late EXCEPT ![t] = FALSE]
        /\ UNCHANGED deq_enabled_
    BY <1>9 DEF Queue!Succeed, Queue!Notified
  <2>2. TypeQueue'
    BY <1>1, <1>9, <2>1 DEF QueueInv, TypeQueue, Codes
  <2>3. Callers' /\ Sleepers'
    BY <1>1, <1>9, <2>1 DEF QueueInv, TypeQueue, Callers, Sleepers
  <2>4. QED
    BY <2>2, <2>3 DEF QueueInv
<1>10. CASE Queue!WaitDeq(t)
  BY <1>9, <1>10 DEF Queue!WaitDeq, Queue!Contends, Queue!historyVars, QueueInv, TypeQueue
<1>11. CASE Queue!Pop(t)
  <2>1. /\ pc[t] # "idle" /\ Queue!Succeed(t) /\ UNCHANGED sent /\ q_ # <<>>
        /\ call' = [call EXCEPT ![t].item = Head(q_)]
        /\ q_' = Tail(q_) /\ received' = Append(received, Head(q_))
    BY <1>11 DEF Queue!Pop, Queue!Contends, Queue!DeqReady, Queue!Empty
  <2>2. Head(q_) \in Msgs /\ Tail(q_) \in Seq(Msgs) /\ Append(received, Head(q_)) \in Seq(Msgs)
    BY <2>1, HeadTailProperties DEF QueueInv, TypeQueue
  <2>3. call \in [Threads -> Outcome]
    BY DEF QueueInv, TypeQueue
  <2>4. /\ call' \in [Threads -> Outcome] /\ \A u \in Threads : call'[u].op = call[u].op
        /\ call'[server] = call[server]
    BY ONLY <2>1, <2>2, <2>3, <1>1 DEF Outcome
  <2>5. q_' \in Seq(Msgs) /\ received' \in Seq(Msgs)
    BY ONLY <2>1, <2>2, Zenon
  <2>6. QED
    BY <1>9, <2>1, <2>4, <2>5
<1>12. QED
  BY <1>4, <1>5, <1>6, <1>7, <1>8, <1>10, <1>11 DEF Run, Queue!Run

\* The server thread pushes: every sleeper is notified.
LEMMA PushKeeps ==
  ASSUME QueueInv, createItem
  PROVE  QueueInv'
<1>1. server \in Threads /\ Consumers \subseteq Threads /\ \A t \in Consumers : t # server
  BY ServAssumption DEF Threads
<1>2. CASE UNCHANGED queueVars
  BY <1>2, QueueKept
<1>3. CASE Queue!Push(server)
  <2>1. /\ q_' = Append(q_, call[server].item) /\ sent' = Append(sent, call[server].item)
        /\ pc' = [u \in Threads |-> IF u = server THEN "idle" ELSE IF pc[u] = "waiting" THEN "ready" ELSE pc[u]]
        /\ ec' = [ec EXCEPT ![server] = "success"] /\ late' = [late EXCEPT ![server] = FALSE]
        /\ UNCHANGED <<call, received, deq_enabled_>>
    BY <1>3 DEF Queue!Push, Queue!Succeed, Queue!Notified
  <2>2. call[server].item \in Msgs
    BY <1>3 DEF Queue!Push, Queue!PushOps, QueueInv, Callers
  <2>3. q_' \in Seq(Msgs) /\ sent' \in Seq(Msgs)
    BY <2>1, <2>2, AppendProperties DEF QueueInv, TypeQueue
  <2>4. TypeQueue'
    BY <1>1, <2>1, <2>3 DEF QueueInv, TypeQueue, Codes
  <2>5. Callers' /\ Sleepers'
    BY <1>1, <2>1 DEF QueueInv, TypeQueue, Callers, Sleepers
  <2>6. QED
    BY <2>4, <2>5 DEF QueueInv
<1>4. QED
  BY <1>2, <1>3 DEF createItem, Terminate

\* The server thread goes for the mutex with a message.
LEMMA ReadKeeps ==
  ASSUME QueueInv, TypeClients, Place, TypeLoop, ReadByte
  PROVE  QueueInv'
<1>1. server \in Threads /\ Consumers \subseteq Threads /\ \A t \in Consumers : t # server
  BY ServAssumption DEF Threads
<1>2. client_fd \in Clients /\ wire[client_fd] # <<>>
  BY DEF ReadByte, Place, TypeLoop
<1>3. wire[client_fd] \in Seq(Tokens) /\ buf[client_fd] \in Seq(Tokens)
  BY <1>2 DEF TypeClients
<1>4. PICK b \in Tokens : b = Head(wire[client_fd])
  BY <1>2, <1>3, HeadTailProperties
<1>5. PICK bytes \in Seq(Tokens) : bytes = AddToken(buf[client_fd], b) /\ bytes[1] \in Tokens
  BY <1>3, AddTokenType, Zenon
<1>6. deser(bytes) \in Msgs
  BY <1>5 DEF deser, Tokens
<1>7. \/ /\ call' = [call EXCEPT ![server] = [op |-> "enq", item |-> deser(bytes)]]
         /\ pc' = [pc EXCEPT ![server] = "ready"]
      \/ UNCHANGED <<call, pc>>
  BY <1>4, <1>5, Zenon DEF ReadByte
<1>8. UNCHANGED <<q_, deq_enabled_, late, ec, sent, received>>
  BY DEF ReadByte
<1>9. CASE UNCHANGED <<call, pc>>
  BY <1>8, <1>9, QueueKept DEF queueVars
<1>10. CASE /\ call' = [call EXCEPT ![server] = [op |-> "enq", item |-> deser(bytes)]]
            /\ pc' = [pc EXCEPT ![server] = "ready"]
  <2>1. [op |-> "enq", item |-> deser(bytes)] \in Outcome
    BY <1>6 DEF Outcome
  <2>2. TypeQueue'
    BY <1>1, <1>8, <1>10, <2>1 DEF QueueInv, TypeQueue
  <2>3. /\ call'[server].op = "enq" /\ call'[server].item \in Msgs
        /\ \A u \in Consumers : call'[u] = call[u] /\ pc'[u] = pc[u]
        /\ pc'[server] = "ready"
    BY <1>1, <1>6, <1>10, <2>1 DEF QueueInv, TypeQueue
  <2>4. Callers' /\ Sleepers'
    BY <1>1, <1>8, <2>3 DEF QueueInv, Callers, Sleepers
  <2>5. QED
    BY <2>2, <2>4 DEF QueueInv
<1>11. QED
  BY <1>7, <1>9, <1>10

\* No step of the system leaves a consumer asleep with something to take.
LEMMA QueueStep ==
  ASSUME QueueInv, LoopInv, [Next]_vars
  PROVE  QueueInv'
<1>1. CASE UNCHANGED queueVars
  BY <1>1, QueueKept
<1>2. CASE ReadByte
  BY <1>2, ReadKeeps DEF LoopInv
<1>3. CASE createItem
  BY <1>3, PushKeeps
<1>4. CASE \E t \in Consumers : Call(t) \/ Run(t) \/ Deadline(t) \/ Wakeup(t)
  BY <1>4, CallKeeps, RunKeeps
<1>5. CASE UNCHANGED vars
  BY <1>1, <1>5 DEF vars
<1>6. CASE Next
  <2>1. CASE \/ Start \/ LoopHead \/ Select \/ Accept \/ AcceptFails \/ NextClient
             \/ EndOfRound \/ ReadNothing \/ Interrupted \/ Destroy \/ Join
             \/ \E c \in Clients : Connect(c) \/ Write(c) \/ Leave(c)
    BY <1>1, <2>1 DEF Start, LoopHead, Select, Accept, AcceptFails, NextClient, EndOfRound,
      ReadNothing, Interrupted, Terminate, Destroy, Join, Connect, Write, Leave
  <2>2. QED
    BY <1>2, <1>3, <1>4, <1>6, <2>1, NextCases
<1>7. QED
  BY <1>5, <1>6

-----------------------------------------------------------------------------
\* The loop does not change when its variables do not.
LEMMA LoopKept == LoopInv /\ UNCHANGED LoopVars => LoopInv'
BY DEF LoopInv, LoopVars, loopVars, clientVars, TypeLoop, TypeClients, Place, Backlog, Descriptors, Spots

\* An exception ends the program wherever the loop is.
LEMMA TerminateKeeps == LoopInv /\ Terminate => LoopInv'
BY DEF LoopInv, Terminate, clientVars, TypeLoop, TypeClients, Place, Backlog, Descriptors, Spots

\* The actions that open and close no descriptor.
LEMMA RoundKeeps ==
  ASSUME LoopInv, \/ Start \/ Interrupted \/ Select \/ NextClient
                  \/ createItem \/ Destroy \/ \E t \in Consumers : Call(t) \/ Run(t) \/ Deadline(t) \/ Wakeup(t)
  PROVE  LoopInv'
<1>1. CASE Terminate
  BY <1>1, TerminateKeeps
<1>2. CASE Start
  BY <1>1, <1>2 DEF LoopInv, Start, clientVars, TypeLoop, TypeClients, Place, Backlog, Descriptors, Spots
<1>3. CASE Select
  <2>1. /\ spc = "select" /\ input' = Ready
        /\ spc' = IF Ready = {} THEN "head" ELSE IF server \in Ready THEN "accept" ELSE "serve"
        /\ UNCHANGED <<client_data, buf, fd2erase, client_fd, firstTime,
                       stop_server_, owner, pending, conn, wire, gone, written>>
    BY <1>3 DEF Select, clientVars
  <2>2. /\ Ready \subseteq Clients \cup {server}
        /\ server \in Ready => pending # <<>>
    BY ServAssumption DEF Ready, LoopInv, TypeLoop
  <2>3. QED
    BY <2>1, <2>2 DEF LoopInv, TypeLoop, TypeClients, Place, Backlog, Descriptors, Spots
<1>4. CASE NextClient
  BY <1>4 DEF LoopInv, NextClient, clientVars, TypeLoop, TypeClients, Place, Backlog, Descriptors, Spots
<1>5. CASE createItem
  BY <1>1, <1>5 DEF LoopInv, createItem, clientVars, TypeLoop, TypeClients, Place, Backlog, Descriptors, Spots
<1>6. CASE Destroy
  BY <1>6 DEF LoopInv, Destroy, loopVars, clientVars, TypeLoop, TypeClients, Place, Backlog, Descriptors, Spots
<1>7. CASE \E t \in Consumers : Call(t) \/ Run(t) \/ Deadline(t) \/ Wakeup(t)
  BY <1>7, LoopKept DEF Call, Run, Deadline, Wakeup, UnchangedLoop, LoopVars
<1>8. QED
  BY <1>1, <1>2, <1>3, <1>4, <1>5, <1>6, <1>7 DEF Interrupted

\* The actions that close descriptors or forget the closed ones.
LEMMA EndsKeep ==
  ASSUME LoopInv, LoopHead \/ EndOfRound \/ ReadNothing
  PROVE  LoopInv'
<1>1. CASE LoopHead
  <2>1. /\ spc = "head" /\ spc' = IF stop_server_ THEN "ended" ELSE "select"
        /\ conn' = [c \in Clients |-> IF stop_server_ /\ c \in client_data THEN "closed" ELSE conn[c]]
        /\ UNCHANGED <<input, client_data, buf, fd2erase, client_fd, firstTime,
                       stop_server_, owner, pending, wire, gone, written>>
    BY <1>1 DEF LoopHead
  <2>2. TypeLoop' /\ TypeClients' /\ Place'
    BY <2>1 DEF LoopInv, TypeLoop, TypeClients, Place, Spots, Fates
  <2>3. fd2erase = {} /\ \A c \in Clients : c \in client_data <=> conn[c] = "open"
    BY <2>1 DEF LoopInv, Place, Descriptors
  <2>4. Backlog' /\ Descriptors'
    BY <2>1, <2>3 DEF LoopInv, Backlog, Descriptors
  <2>5. QED
    BY <2>2, <2>4 DEF LoopInv
<1>2. CASE EndOfRound
  <2>1. /\ spc = "serve" /\ input \cap client_data = {} /\ client_data' = client_data \ fd2erase
        /\ buf' = [c \in Clients |-> IF c \in fd2erase THEN <<>> ELSE buf[c]]
        /\ fd2erase' = {} /\ spc' = "head"
        /\ UNCHANGED <<input, client_fd, firstTime, stop_server_, owner, pending, conn, wire, gone, written>>
    BY <1>2 DEF EndOfRound, clientVars
  <2>2. buf' \in [Clients -> Seq(Tokens)]
    BY <2>1 DEF LoopInv, TypeClients
  <2>3. QED
    BY <2>1, <2>2 DEF LoopInv, TypeLoop, TypeClients, Place, Backlog, Descriptors, Spots
<1>3. CASE ReadNothing
  <2>1. /\ spc = "read" /\ spc' = "serve"
        /\ conn' = [conn EXCEPT ![client_fd] = IF firstTime THEN "closed" ELSE conn[client_fd]]
        /\ fd2erase' = IF firstTime THEN fd2erase \cup {client_fd} ELSE fd2erase
        /\ UNCHANGED <<input, client_data, buf, client_fd, firstTime,
                       stop_server_, owner, pending, wire, gone, written>>
    BY <1>3 DEF ReadNothing
  <2>2. client_fd \in Clients /\ client_fd \in client_data \ (fd2erase \cup input) /\ conn[client_fd] = "open"
    BY <2>1 DEF LoopInv, TypeLoop, Place, Descriptors
  <2>3. TypeLoop' /\ TypeClients' /\ Place'
    BY <2>1, <2>2 DEF LoopInv, TypeLoop, TypeClients, Place, Spots, Fates
  <2>4. Backlog' /\ Descriptors'
    BY <2>1, <2>2 DEF LoopInv, TypeLoop, TypeClients, Backlog, Descriptors
  <2>5. QED
    BY <2>3, <2>4 DEF LoopInv
<1>4. QED
  BY <1>1, <1>2, <1>3

\* A connection leaves the backlog for client_data, or is lost.
LEMMA AcceptKeeps ==
  ASSUME LoopInv, Accept \/ AcceptFails
  PROVE  LoopInv'
<1>1. /\ spc = "accept" /\ pending # <<>> /\ fd2erase = {}
      /\ pending \in Seq(Clients) /\ IsInjective(pending)
  BY DEF Accept, AcceptFails, LoopInv, Place, TypeClients, Backlog
<1>2. PICK h \in Clients : h = Head(pending) /\ conn[h] = "pending"
  BY <1>1, HeadTailProperties, TailRest DEF LoopInv, Backlog
<1>3. PICK rest \in Seq(Clients) :
         rest = Tail(pending) /\ IsInjective(rest) /\ Range(rest) = Range(pending) \ {h}
  BY <1>1, <1>2, HeadTailProperties, TailRest
<1>4. CASE Accept
  <2>1. /\ conn' = [conn EXCEPT ![h] = "open"] /\ client_data' = client_data \cup {h}
        /\ pending' = rest /\ spc' = "serve"
        /\ UNCHANGED <<input, buf, fd2erase, client_fd, firstTime, stop_server_, owner, wire, gone, written>>
    BY <1>2, <1>3, <1>4, Zenon DEF Accept
  <2>2. TypeLoop' /\ TypeClients' /\ Place'
    BY <1>1, <1>2, <1>3, <2>1 DEF LoopInv, TypeLoop, TypeClients, Place, Spots, Fates
  <2>3. Backlog' /\ Descriptors'
    BY <1>1, <1>2, <1>3, <2>1 DEF LoopInv, TypeClients, Backlog, Descriptors
  <2>4. QED
    BY <2>2, <2>3 DEF LoopInv
<1>5. CASE AcceptFails
  <2>1. /\ spc' = "head"
        /\ UNCHANGED <<input, client_data, buf, fd2erase, client_fd, firstTime, stop_server_, owner, wire, gone, written>>
    BY <1>5, Zenon DEF AcceptFails
  <2>2. CASE UNCHANGED <<conn, pending>>
    BY <1>1, <2>1, <2>2 DEF LoopInv, TypeLoop, TypeClients, Place, Backlog, Descriptors, Spots
  <2>3. CASE conn' = [conn EXCEPT ![h] = "refused"] /\ pending' = rest
    <3>1. TypeLoop' /\ TypeClients' /\ Place'
      BY <1>1, <1>2, <1>3, <2>1, <2>3 DEF LoopInv, TypeLoop, TypeClients, Place, Spots, Fates
    <3>2. Backlog' /\ Descriptors'
      BY <1>1, <1>2, <1>3, <2>1, <2>3 DEF LoopInv, TypeClients, Backlog, Descriptors
    <3>3. QED
      BY <3>1, <3>2 DEF LoopInv
  <2>4. QED
    BY <1>2, <1>3, <1>5, <2>2, <2>3, Zenon DEF AcceptFails
<1>6. QED
  BY <1>4, <1>5

\* The listening socket is closed with the backlog.
LEMMA JoinKeeps ==
  ASSUME LoopInv, Join
  PROVE  LoopInv'
<1>1. /\ spc = "ended" /\ owner' = "destroyed" /\ pending' = <<>>
      /\ conn' = [c \in Clients |-> IF c \in Range(pending) THEN "refused" ELSE conn[c]]
      /\ UNCHANGED <<spc, input, client_data, buf, fd2erase, client_fd, firstTime, stop_server_, wire, gone, written>>
  BY DEF Join, loopVars
<1>2. TypeLoop' /\ TypeClients' /\ Place'
  BY <1>1 DEF LoopInv, TypeLoop, TypeClients, Place, Spots, Fates
<1>3. \A c \in Clients : c \notin Range(<<>>)
  BY DEF Range
<1>4. Backlog' /\ Descriptors'
  BY <1>1, <1>3 DEF LoopInv, TypeClients, Backlog, Descriptors, IsInjective
<1>5. QED
  BY <1>2, <1>4 DEF LoopInv

\* Bytes move from the kernel to the vector of the client.
LEMMA ReadByteKeeps ==
  ASSUME LoopInv, ReadByte
  PROVE  LoopInv'
<1>1. spc = "read" /\ client_fd \in Clients /\ wire[client_fd] # <<>>
  BY DEF ReadByte, LoopInv, Place, TypeLoop
<1>2. wire[client_fd] \in Seq(Tokens) /\ buf[client_fd] \in Seq(Tokens)
  BY <1>1 DEF LoopInv, TypeClients
<1>3. Head(wire[client_fd]) \in Tokens /\ Tail(wire[client_fd]) \in Seq(Tokens)
  BY <1>1, <1>2, HeadTailProperties
<1>4. PICK bytes \in Seq(Tokens) : bytes = AddToken(buf[client_fd], Head(wire[client_fd]))
  BY <1>2, <1>3, AddTokenType, Zenon
<1>5. /\ \/ buf' = [buf EXCEPT ![client_fd] = <<>>] /\ spc' = "create"
         \/ buf' = [buf EXCEPT ![client_fd] = bytes] /\ spc' = spc
      /\ wire' = [wire EXCEPT ![client_fd] = Tail(wire[client_fd])]
      /\ firstTime' = FALSE
      /\ UNCHANGED <<input, client_data, fd2erase, client_fd, stop_server_, owner, pending, conn, gone, written>>
  BY <1>4, Zenon DEF ReadByte
<1>6. <<>> \in Seq(Tokens)
  BY EmptySeq
<1>7. buf' \in [Clients -> Seq(Tokens)] /\ wire' \in [Clients -> Seq(Tokens)] /\ spc' \in {"read", "create"}
  BY <1>1, <1>3, <1>4, <1>5, <1>6 DEF LoopInv, TypeClients
<1>8. QED
  BY <1>1, <1>5, <1>7 DEF LoopInv, TypeLoop, TypeClients, Place, Backlog, Descriptors, Spots

\* A new connection is at the end of the backlog.
LEMMA ConnectKeeps ==
  ASSUME LoopInv, NEW c \in Clients, Connect(c)
  PROVE  LoopInv'
<1>1. /\ conn[c] = "new" /\ spc # "terminated"
      /\ conn' = [conn EXCEPT ![c] = "pending"] /\ pending' = Append(pending, c)
      /\ UNCHANGED <<loopVars, stop_server_, owner, wire, gone, written>>
  BY DEF Connect, Running
<1>2. PICK more \in Seq(Clients) :
         /\ more = Append(pending, c) /\ more # <<>>
         /\ IsInjective(more) /\ Range(more) = Range(pending) \cup {c}
  <2>1. pending \in Seq(Clients) /\ IsInjective(pending) /\ c \notin Range(pending)
    BY <1>1 DEF LoopInv, TypeClients, Backlog
  <2>2. Append(pending, c) \in Seq(Clients) /\ Append(pending, c) # <<>>
    BY <2>1, Appended, Zenon
  <2>3. IsInjective(Append(pending, c)) /\ Range(Append(pending, c)) = Range(pending) \cup {c}
    BY <2>1, AppendNew, ZenonT(60)
  <2>4. QED
    BY <2>2, <2>3, Zenon
<1>3. pending' = more
  BY <1>1, <1>2, Zenon
<1>4. TypeLoop' /\ TypeClients' /\ Place'
  BY <1>1, <1>2, <1>3 DEF LoopInv, loopVars, TypeLoop, TypeClients, Place, Spots, Fates
<1>5. Backlog' /\ Descriptors'
  BY <1>1, <1>2, <1>3 DEF LoopInv, loopVars, TypeClients, Backlog, Descriptors
<1>6. QED
  BY <1>4, <1>5 DEF LoopInv

\* Clients write and leave: no descriptor of the server changes.
LEMMA WriteKeeps ==
  ASSUME LoopInv, NEW c \in Clients, Write(c) \/ Leave(c)
  PROVE  LoopInv'
<1>1. UNCHANGED <<loopVars, stop_server_, owner, pending, conn>>
  BY DEF Write, Leave
<1>2. <<>> \in Seq(Tokens) /\ wire[c] \in Seq(Tokens) /\ written[c] \in Nat
  BY EmptySeq DEF LoopInv, TypeClients
<1>3. wire' \in [Clients -> Seq(Tokens)] /\ written' \in [Clients -> Nat] /\ gone' \in [Clients -> {"no", "fin", "rst"}]
  <2>1. CASE Leave(c)
    BY <2>1, <1>2 DEF Leave, LoopInv, TypeClients
  <2>2. CASE Write(c)
    <3>1. written[c] + 1 \in 1 .. Len(Sends[c])
      BY <2>2, <1>2, SendsType, LenProperties DEF Write
    <3>2. PICK m \in Msgs : m = Sends[c][written[c] + 1]
      BY <3>1, SendsType
    <3>3. <<m, "body">> \in Tokens /\ <<m, "sep">> \in Tokens
      BY DEF Tokens
    <3>4. /\ \/ wire' = [wire EXCEPT ![c] = AddToken(wire[c], <<m, "body">>)] /\ UNCHANGED written
             \/ /\ wire' = [wire EXCEPT ![c] = Append(wire[c], <<m, "sep">>)]
                /\ written' = [written EXCEPT ![c] = written[c] + 1]
          /\ UNCHANGED gone
      BY <2>2, <3>2, Zenon DEF Write
    <3>5. AddToken(wire[c], <<m, "body">>) \in Seq(Tokens) /\ Append(wire[c], <<m, "sep">>) \in Seq(Tokens)
      BY <1>2, <3>3, AddTokenType, Appended, Zenon
    <3>6. wire \in [Clients -> Seq(Tokens)] /\ written \in [Clients -> Nat] /\ gone \in [Clients -> {"no", "fin", "rst"}]
      BY DEF LoopInv, TypeClients
    <3>7. wire' \in [Clients -> Seq(Tokens)]
      BY ONLY <3>4, <3>5, <3>6
    <3>8. written' \in [Clients -> Nat]
      <4>1. written[c] + 1 \in Nat
        BY <1>2
      <4>2. written' = written \/ written' = [written EXCEPT ![c] = written[c] + 1]
        BY <3>4
      <4>3. QED
        BY ONLY <3>6, <4>1, <4>2
    <3>9. QED
      BY <3>4, <3>6, <3>7, <3>8
  <2>3. QED
    BY <2>1, <2>2
<1>4. TypeLoop' /\ Place'
  BY <1>1 DEF LoopInv, loopVars, TypeLoop, Place
<1>5. TypeClients'
  BY <1>1, <1>3 DEF LoopInv, loopVars, TypeClients
<1>6. Backlog' /\ Descriptors'
  BY <1>1 DEF LoopInv, loopVars, Backlog, Descriptors
<1>7. QED
  BY <1>4, <1>5, <1>6 DEF LoopInv

\* Every step of the system keeps client_data and the descriptors together.
LEMMA LoopStep ==
  ASSUME LoopInv, [Next]_vars
  PROVE  LoopInv'
<1>1. CASE UNCHANGED vars
  BY <1>1, LoopKept DEF vars, LoopVars
<1>2. CASE Next
  BY <1>2, NextCases, RoundKeeps, EndsKeep, AcceptKeeps, JoinKeeps, ReadByteKeeps, ConnectKeeps, WriteKeeps
<1>3. QED
  BY <1>1, <1>2

-----------------------------------------------------------------------------
\* Serving is an invariant.
LEMMA AlwaysServing == Spec => []Serving
<1>1. Init => Serving
  BY TypeInit DEF Serving, QueueInv, LoopInv, TypeOK
<1>2. Serving /\ [Next]_vars => Serving'
  BY QueueStep, LoopStep DEF Serving
<1>3. QED
  BY <1>1, <1>2, PTL DEF Spec

(***************************************************************************)
(* The variables are typed, the loop reads only clients it tracks and has  *)
(* not closed, and every pending connection is in the backlog once.        *)
(***************************************************************************)
THEOREM Served == Spec => [](TypeOK /\ Place /\ Backlog)
<1>1. Serving => TypeOK /\ Place /\ Backlog
  BY DEF Serving, QueueInv, LoopInv, TypeOK
<1>2. QED
  BY <1>1, AlwaysServing, PTL

(***************************************************************************)
(* Between rounds client_data holds exactly the descriptors that are open, *)
(* whatever clients connect, leave and fail to be accepted, and none is    *)
(* open when the thread has ended.                                         *)
(***************************************************************************)
THEOREM NoDescriptorForgotten == Spec => []DescriptorsTracked
<1>1. Serving => DescriptorsTracked
  <2>1. SUFFICES ASSUME Serving PROVE DescriptorsTracked
    OBVIOUS
  <2>2. spc \in {"head", "select", "accept"} => \A c \in Clients : c \in client_data <=> conn[c] = "open"
    BY <2>1 DEF Serving, LoopInv, Place, Descriptors
  <2>3. client_data \subseteq Clients
    BY <2>1 DEF Serving, LoopInv, TypeLoop
  <2>4. spc = "ended" => \A c \in Clients : conn[c] # "open"
    BY <2>1 DEF Serving, LoopInv, Descriptors
  <2>5. QED
    BY <2>2, <2>3, <2>4 DEF DescriptorsTracked
<1>2. QED
  BY <1>1, AlwaysServing, PTL

(***************************************************************************)
(* No consumer sleeps while a message is queued or taking is disabled.     *)
(***************************************************************************)
THEOREM ConsumersWoken == Spec => []NoLostWakeup
<1>1. Serving => NoLostWakeup
  <2>1. SUFFICES ASSUME Serving, NEW t \in Threads, pc[t] = "waiting" PROVE ~Queue!Ready(t)
    BY DEF NoLostWakeup, Queue!NoLostWakeup
  <2>2. t \in Consumers
    BY <2>1 DEF Threads, Serving, QueueInv, Callers
  <2>3. call[t].op \in DeqOps /\ deq_enabled_ /\ q_ = <<>>
    BY <2>1, <2>2 DEF Serving, QueueInv, Callers, Sleepers
  <2>4. QED
    BY <2>3 DEF Queue!Ready, Queue!DeqReady, Queue!Empty, Queue!EnqOps, Queue!PushOps,
      Queue!WaitEnqOps, DeqOps, PopOps, WaitDeqOps
<1>2. QED
  BY <1>1, AlwaysServing, PTL

-----------------------------------------------------------------------------
(***************************************************************************)
(* What client c sends, as one stream: the body of its first message, the  *)
(* separator of it, the body of the second one, and so on. Numbers says    *)
(* that u is the part of it that begins at number p.                       *)
(***************************************************************************)
Separators == Msgs \X {"sep"}
Numbered(c, k) == IF k % 2 = 1 THEN <<Sends[c][(k + 1) \div 2], "body">>
                  ELSE <<Sends[c][k \div 2], "sep">>

Numbers(c, p, u) == \A i \in 1 .. Len(u) : u[i] = Numbered(c, p + i - 1)

(***************************************************************************)
(* Where a connection is in its stream, when n messages were read and w    *)
(* were written: the tokens u that are in the kernel follow those that     *)
(* were read, a body of which is in b, up to what the client wrote last.   *)
(***************************************************************************)
Position(c, n, p, u, b, w, g) ==
  /\ p = 2 * n + 1 \/ p = 2 * n + 2
  /\ Numbers(c, p, u)
  /\ g # "rst" => p + Len(u) = 2 * w + 1 \/ p + Len(u) = 2 * w + 2
  /\ b = <<>> => p = 2 * n + 1
  /\ b # <<>> => b = <<Numbered(c, 2 * n + 1)>>

\* The separators z in the kernel are those of the messages between n and w.
Whole(c, n, z, w, g) ==
  /\ w <= Len(Sends[c]) /\ n <= w
  /\ g # "rst" => n + Len(z) = w
  /\ \A i \in 1 .. Len(z) : z[i] = <<Sends[c][n + i], "sep">>

\* The stream of a connection with u in the kernel and b in the vector.
Stream(c, n, u, b, w, g) ==
  /\ g = "rst" => u = <<>>
  /\ Whole(c, n, Selected(u, Separators), w, g)
  /\ \E p \in Nat : Position(c, n, p, u, b, w, g)

\* A message has two tokens, its body and then its separator.
LEMMA NumberedIs ==
  ASSUME NEW c, NEW j \in Nat
  PROVE  /\ Numbered(c, 2 * j + 1) = <<Sends[c][j + 1], "body">>
         /\ Numbered(c, 2 * j + 2) = <<Sends[c][j + 1], "sep">>
<1>1. /\ (2 * j + 1) % 2 = 1 /\ (2 * j + 1 + 1) \div 2 = j + 1
      /\ (2 * j + 2) % 2 = 0 /\ (2 * j + 2) \div 2 = j + 1
  OBVIOUS
<1>2. QED
  BY <1>1 DEF Numbered

\* Every token is the body or the separator of a message.
LEMMA NumberedOdd ==
  ASSUME NEW c, NEW k \in Nat, k # 0
  PROVE  \E j \in Nat : \/ k = 2 * j + 1 /\ Numbered(c, k) = <<Sends[c][j + 1], "body">>
                        \/ k = 2 * j + 2 /\ Numbered(c, k) = <<Sends[c][j + 1], "sep">>
<1>1. \E j \in Nat : k = 2 * j + 1 \/ k = 2 * j + 2
  <2>1. CASE k % 2 = 1
    <3>1. (k - 1) \div 2 \in Nat /\ k = 2 * ((k - 1) \div 2) + 1
      BY <2>1
    <3>2. QED
      BY <3>1
  <2>2. CASE k % 2 = 0
    <3>1. (k - 2) \div 2 \in Nat /\ k = 2 * ((k - 2) \div 2) + 2
      BY <2>2
    <3>2. QED
      BY <3>1
  <2>3. k % 2 = 0 \/ k % 2 = 1
    OBVIOUS
  <2>4. QED
    BY <2>1, <2>2, <2>3
<1>2. QED
  BY <1>1, NumberedIs, Zenon

\* A part of the stream is continued with the token that follows.
LEMMA NumbersAppend ==
  ASSUME NEW c, NEW p \in Nat, NEW u \in Seq(Tokens), Numbers(c, p, u), NEW x \in Tokens,
         x = Numbered(c, p + Len(u))
  PROVE  Numbers(c, p, Append(u, x))
<1>1. PICK t \in Seq(Tokens) : t = Append(u, x)
  BY AppendProperties
<1>2. /\ Len(t) = Len(u) + 1 /\ t[Len(u) + 1] = x /\ \A i \in 1 .. Len(u) : t[i] = u[i]
      /\ Len(u) \in Nat
  BY <1>1, AppendProperties, LenProperties
<1>3. \A i \in 1 .. Len(t) : t[i] = Numbered(c, p + i - 1)
  <2>1. TAKE i \in 1 .. Len(t)
  <2>2. CASE i = Len(u) + 1
    <3>1. p + i - 1 = p + Len(u)
      BY <2>2, <1>2
    <3>2. QED
      BY <3>1, <2>2, <1>2
  <2>3. CASE i \in 1 .. Len(u)
    BY <2>3, <1>2 DEF Numbers
  <2>4. QED
    BY <2>2, <2>3, <1>2
<1>4. Numbers(c, p, t)
  BY <1>3 DEF Numbers
<1>5. QED
  BY <1>1, <1>4, Zenon

\* What is left of a part of the stream when its first token is read.
LEMMA NumbersTail ==
  ASSUME NEW c, NEW p \in Nat, NEW u \in Seq(Tokens), Numbers(c, p, u), u # <<>>
  PROVE  Numbers(c, p + 1, Tail(u)) /\ Head(u) = Numbered(c, p) /\ Len(Tail(u)) = Len(u) - 1
<1>1. /\ Tail(u) \in Seq(Tokens) /\ Len(Tail(u)) = Len(u) - 1 /\ Head(u) = u[1] /\ Len(u) >= 1
      /\ \A i \in 1 .. Len(Tail(u)) : Tail(u)[i] = u[i + 1]
      /\ Len(u) \in Nat
  BY HeadTailProperties, EmptySeq, LenProperties
<1>2. PICK t \in Seq(Tokens) : t = Tail(u)
  BY <1>1
<1>3. Numbers(c, p + 1, t)
  <2>1. ASSUME NEW i \in 1 .. Len(t) PROVE t[i] = Numbered(c, p + 1 + i - 1)
    <3>1. i + 1 \in 1 .. Len(u) /\ t[i] = u[i + 1] /\ p + 1 + i - 1 = p + (i + 1) - 1
      BY <1>1, <1>2
    <3>2. QED
      BY <3>1 DEF Numbers
  <2>2. QED
    BY <2>1 DEF Numbers
<1>4. u[1] = Numbered(c, p)
  <2>1. 1 \in 1 .. Len(u) /\ p + 1 - 1 = p
    BY <1>1
  <2>2. QED
    BY <2>1 DEF Numbers
<1>5. QED
  BY <1>1, <1>2, <1>3, <1>4, Zenon

\* Nothing is a part of every stream.
LEMMA NumbersNone ==
  ASSUME NEW c, NEW p
  PROVE  Numbers(c, p, <<>>)
BY DEF Numbers

\* The last token of a part of the stream.
LEMMA LastNumbered ==
  ASSUME NEW c, NEW p \in Nat, NEW u \in Seq(Tokens), Numbers(c, p, u), u # <<>>
  PROVE  Last(u) = Numbered(c, p + Len(u) - 1) /\ Len(u) \in Nat /\ Len(u) >= 1
<1>1. Len(u) \in 1 .. Len(u) /\ Len(u) \in Nat /\ Len(u) >= 1
  BY EmptySeq, LenProperties
<1>2. QED
  BY <1>1 DEF Numbers, Last

\* A byte of the next message is written: it joins a body that is still in the kernel.
LEMMA NextBody ==
  ASSUME NEW c \in Clients, NEW n \in Nat, NEW w \in Nat, NEW u \in Seq(Tokens), NEW b, NEW g,
         g # "rst", Stream(c, n, u, b, w, g), w < Len(Sends[c])
  PROVE  Stream(c, n, AddToken(u, <<Sends[c][w + 1], "body">>), b, w, g)
<1>1. Len(Sends[c]) \in Nat /\ w + 1 \in 1 .. Len(Sends[c])
  BY SendsType, LenProperties
<1>2. PICK x \in Tokens : /\ x = <<Sends[c][w + 1], "body">> /\ x = Numbered(c, 2 * w + 1)
                          /\ x \notin Separators
  <2>1. Sends[c][w + 1] \in Msgs
    BY <1>1, SendsType
  <2>2. <<Sends[c][w + 1], "body">> \in Tokens /\ <<Sends[c][w + 1], "body">> \notin Separators
    BY <2>1 DEF Tokens, Separators
  <2>3. QED
    BY <2>2, NumberedIs, Zenon
<1>3. PICK v \in Seq(Tokens) : v = AddToken(u, x)
  BY AddTokenType, Zenon
<1>4. Selected(v, Separators) = Selected(u, Separators)
  <2>1. CASE v = u
    BY <2>1
  <2>2. CASE v = Append(u, x)
    BY <2>2, <1>2, SelectedAppend, Zenon
  <2>3. QED
    BY <2>1, <2>2, <1>3, Zenon DEF AddToken
<1>5. PICK p \in Nat : Position(c, n, p, u, b, w, g)
  BY DEF Stream
<1>6. Len(u) \in Nat
  BY LenProperties
<1>7. CASE u = <<>> \/ Last(u) # x
  <2>1. v = Append(u, x) /\ Len(v) = Len(u) + 1
    BY <1>3, <1>7, Appended, Zenon DEF AddToken
  <2>2. CASE p + Len(u) = 2 * w + 1
    <3>1. Numbers(c, p, v)
      BY <2>1, <2>2, <1>2, <1>5, NumbersAppend, Zenon DEF Position
    <3>2. Position(c, n, p, v, b, w, g)
      BY <3>1, <2>1, <2>2, <1>5, <1>6 DEF Position
    <3>3. QED
      BY <3>2, <1>2, <1>3, <1>4, Zenon DEF Stream
  <2>3. CASE p + Len(u) = 2 * w + 2
    <3>1. u = <<>>
      <4>1. SUFFICES ASSUME u # <<>> PROVE FALSE
        OBVIOUS
      <4>2. Last(u) = Numbered(c, p + Len(u) - 1)
        BY <4>1, <1>5, LastNumbered DEF Position
      <4>3. p + Len(u) - 1 = 2 * w + 1
        BY <2>3, <1>6
      <4>4. QED
        BY <4>1, <4>2, <4>3, <1>2, <1>7
    <3>2. Len(u) = 0 /\ n = w /\ b # <<>>
      BY <3>1, <2>3, <1>5 DEF Position
    <3>3. Numbers(c, 2 * w + 1, v)
      <4>1. Numbers(c, 2 * w + 1, u)
        BY <3>1, NumbersNone, Zenon
      <4>2. 2 * w + 1 + Len(u) = 2 * w + 1 /\ 2 * w + 1 \in Nat
        BY <3>2
      <4>3. QED
        BY <4>1, <4>2, <1>2, <2>1, NumbersAppend, Zenon
    <3>4. Position(c, n, 2 * w + 1, v, b, w, g)
      BY <3>2, <3>3, <2>1, <1>5 DEF Position
    <3>5. 2 * w + 1 \in Nat
      OBVIOUS
    <3>6. QED
      BY <3>4, <3>5, <1>2, <1>3, <1>4, Zenon DEF Stream
  <2>4. QED
    BY <2>2, <2>3, <1>5 DEF Position
<1>8. CASE u # <<>> /\ Last(u) = x
  BY <1>2, <1>3, <1>8, Zenon DEF AddToken
<1>9. QED
  BY <1>7, <1>8

(***************************************************************************)
(* The separator is written after a byte of the message: the body is the   *)
(* last token in the kernel, or it was read already and the kernel is      *)
(* empty.                                                                  *)
(***************************************************************************)
LEMMA BodyThere ==
  ASSUME NEW c \in Clients, NEW n \in Nat, NEW w \in Nat, NEW u \in Seq(Tokens), NEW b \in Seq(Tokens), NEW g,
         g # "rst", NEW p0 \in Nat, Position(c, n, p0, u, b, w, g), w < Len(Sends[c]),
         <<Sends[c][w + 1], "body">> \in Range(u) \cup Range(b)
  PROVE  \E p \in Nat : Position(c, n, p, u, b, w, g) /\ p + Len(u) = 2 * w + 2
<1>1. Len(Sends[c]) \in Nat /\ w + 1 \in 1 .. Len(Sends[c]) /\ DOMAIN Sends[c] = 1 .. Len(Sends[c])
  BY SendsType, LenProperties
<1>2. Len(u) \in Nat
  BY LenProperties
<1>3. SUFFICES ASSUME p0 + Len(u) = 2 * w + 1
               PROVE  \E p \in Nat : Position(c, n, p, u, b, w, g) /\ p + Len(u) = 2 * w + 2
  BY DEF Position
<1>4. <<Sends[c][w + 1], "body">> \notin Range(u)
  <2>1. SUFFICES ASSUME NEW i \in 1 .. Len(u), u[i] = <<Sends[c][w + 1], "body">> PROVE FALSE
    BY LenProperties DEF Range
  <2>2. u[i] = Numbered(c, p0 + i - 1) /\ p0 # 0
    BY DEF Position, Numbers
  <2>3. p0 + i - 1 \in Nat /\ p0 + i - 1 # 0 /\ p0 + i - 1 <= 2 * w
    <3>1. /\ p0 \in Nat /\ p0 # 0 /\ w \in Nat /\ Len(u) \in Nat /\ i \in 1 .. Len(u)
          /\ p0 + Len(u) = 2 * w + 1
      BY <1>2, <1>3, <2>2, Zenon
    <3>2. QED
      BY ONLY <3>1
  <2>4. PICK j \in Nat : p0 + i - 1 = 2 * j + 1 /\ u[i] = <<Sends[c][j + 1], "body">>
    <3>1. PICK j \in Nat : \/ p0 + i - 1 = 2 * j + 1 /\ u[i] = <<Sends[c][j + 1], "body">>
                           \/ p0 + i - 1 = 2 * j + 2 /\ u[i] = <<Sends[c][j + 1], "sep">>
      BY <2>2, <2>3, NumberedOdd
    <3>2. <<Sends[c][j + 1], "sep">> # <<Sends[c][w + 1], "body">>
      OBVIOUS
    <3>3. QED
      BY <3>1, <3>2, <2>1
  <2>5. j + 1 \in 1 .. Len(Sends[c]) /\ j + 1 # w + 1
    BY <2>3, <2>4, <1>1
  <2>6. Sends[c][j + 1] = Sends[c][w + 1]
    BY <2>1, <2>4
  <2>7. QED
    BY <2>5, <2>6, <1>1, SendsType DEF IsInjective
<1>5. PICK y : b = <<y>> /\ y = <<Sends[c][n + 1], "body">> /\ y = <<Sends[c][w + 1], "body">> /\ n <= w
  <2>1. <<Sends[c][w + 1], "body">> \in Range(b)
    BY <1>4
  <2>2. b # <<>>
    BY <2>1 DEF Range
  <2>3. b = <<Numbered(c, 2 * n + 1)>>
    BY <2>2 DEF Position
  <2>4. Numbered(c, 2 * n + 1) = <<Sends[c][n + 1], "body">>
    BY NumberedIs
  <2>5. PICK y : y = Numbered(c, 2 * n + 1)
    OBVIOUS
  <2>6. b = <<y>>
    BY <2>3, <2>5
  <2>7. <<Sends[c][w + 1], "body">> = y
    BY <2>1, <2>6 DEF Range
  <2>8. n <= w
    BY <1>2, <1>3 DEF Position
  <2>9. QED
    BY <2>4, <2>5, <2>6, <2>7, <2>8
<1>6. n = w
  <2>1. Sends[c][n + 1] = Sends[c][w + 1]
    BY <1>5
  <2>2. n + 1 \in 1 .. Len(Sends[c])
    BY <1>1, <1>5
  <2>3. QED
    BY <2>1, <2>2, <1>1, SendsType DEF IsInjective
<1>7. Len(u) = 0 /\ u = <<>>
  <2>1. Len(u) = 0
    BY <1>2, <1>3, <1>6 DEF Position
  <2>2. QED
    BY <2>1, EmptySeq
<1>8. Numbers(c, 2 * w + 2, u)
  BY <1>7, NumbersNone, Zenon
<1>9. b # <<>>
  <2>1. \E z : b = <<z>>
    BY <1>5
  <2>2. QED
    BY <2>1
<1>10. Position(c, n, 2 * w + 2, u, b, w, g)
  BY <1>6, <1>7, <1>8, <1>9 DEF Position
<1>11. QED
  BY <1>7, <1>10

\* The separator of the message is written.
LEMMA NextSep ==
  ASSUME NEW c \in Clients, NEW n \in Nat, NEW w \in Nat, NEW u \in Seq(Tokens), NEW b \in Seq(Tokens), NEW g,
         g # "rst", Stream(c, n, u, b, w, g), w < Len(Sends[c]),
         <<Sends[c][w + 1], "body">> \in Range(u) \cup Range(b)
  PROVE  Stream(c, n, Append(u, <<Sends[c][w + 1], "sep">>), b, w + 1, g)
<1>1. Len(Sends[c]) \in Nat /\ w + 1 \in 1 .. Len(Sends[c]) /\ Len(u) \in Nat
  BY SendsType, LenProperties
<1>2. PICK x \in Tokens : /\ x = <<Sends[c][w + 1], "sep">> /\ x = Numbered(c, 2 * w + 2)
                          /\ x \in Separators
  <2>1. Sends[c][w + 1] \in Msgs
    BY <1>1, SendsType
  <2>2. <<Sends[c][w + 1], "sep">> \in Tokens /\ <<Sends[c][w + 1], "sep">> \in Separators
    BY <2>1 DEF Tokens, Separators
  <2>3. QED
    BY <2>2, NumberedIs, Zenon
<1>3. PICK v \in Seq(Tokens) : v = Append(u, x) /\ Len(v) = Len(u) + 1
  BY Appended, Zenon
<1>4. PICK z \in Seq(Tokens) : z = Selected(u, Separators)
  <2>1. Selected(u, Separators) \in Seq(Tokens \cap Separators)
    BY SelectedType
  <2>2. QED
    BY <2>1
<1>5. PICK y \in Seq(Tokens) : y = Append(z, x)
  BY Appended, Zenon
<1>13. y = Selected(v, Separators)
  <2>1. Selected(Append(u, x), Separators) = Append(Selected(u, Separators), x)
    <3>1. ASSUME NEW s \in Seq(Tokens), NEW e \in Tokens, NEW T, e \in T
          PROVE  Selected(Append(s, e), T) = Append(Selected(s, T), e)
      <4>1. Selected(Append(s, e), T) = IF e \in T THEN Append(Selected(s, T), e) ELSE Selected(s, T)
        BY SelectedAppend
      <4>2. QED
        BY ONLY <3>1, <4>1
    <3>2. QED
      BY <3>1, <1>2, Zenon
  <2>2. QED
    BY <2>1, <1>3, <1>4, <1>5, Zenon
<1>6. /\ Len(y) = Len(z) + 1 /\ y[Len(z) + 1] = x /\ \A i \in 1 .. Len(z) : y[i] = z[i]
      /\ Len(z) \in Nat
  BY <1>5, AppendProperties, LenProperties
<1>7. Whole(c, n, z, w, g)
  BY <1>4 DEF Stream
<1>8. Whole(c, n, y, w + 1, g)
  <2>1. n + Len(y) = w + 1 /\ w + 1 <= Len(Sends[c]) /\ n <= w + 1
    BY <1>1, <1>6, <1>7 DEF Whole
  <2>2. ASSUME NEW i \in 1 .. Len(y) PROVE y[i] = <<Sends[c][n + i], "sep">>
    <3>1. CASE i = Len(z) + 1
      <4>1. n + i = w + 1
        BY <3>1, <2>1, <1>6
      <4>2. QED
        BY <4>1, <3>1, <1>2, <1>6
    <3>2. CASE i \in 1 .. Len(z)
      BY <3>2, <1>6, <1>7 DEF Whole
    <3>3. QED
      BY <3>1, <3>2, <1>6
  <2>3. QED
    BY <2>1, <2>2 DEF Whole
<1>9. PICK p \in Nat : Position(c, n, p, u, b, w, g) /\ p + Len(u) = 2 * w + 2
  <2>1. PICK p0 \in Nat : Position(c, n, p0, u, b, w, g)
    BY DEF Stream
  <2>2. \E p \in Nat : Position(c, n, p, u, b, w, g) /\ p + Len(u) = 2 * w + 2
    BY <2>1, BodyThere, SMTT(60)
  <2>3. QED
    BY <2>2
<1>10. Numbers(c, p, v)
  BY <1>2, <1>3, <1>9, NumbersAppend, Zenon DEF Position
<1>11. Position(c, n, p, v, b, w + 1, g)
  <2>1. p + Len(v) = 2 * (w + 1) + 1
    BY <1>1, <1>3, <1>9
  <2>2. QED
    BY <1>9, <1>10, <2>1 DEF Position
<1>12. QED
  BY <1>2, <1>3, <1>13, <1>8, <1>11, Zenon DEF Stream

\* A byte of a message is read: it joins the body that was read before.
LEMMA TakeBody ==
  ASSUME NEW c \in Clients, NEW n \in Nat, NEW w \in Nat, NEW u \in Seq(Tokens), NEW b \in Seq(Tokens), NEW g,
         Stream(c, n, u, b, w, g), u # <<>>, Head(u) \notin Separators
  PROVE  Stream(c, n, Tail(u), AddToken(b, Head(u)), w, g)
<1>1. PICK x \in Tokens : x = Head(u)
  BY HeadTailProperties
<1>2. PICK v \in Seq(Tokens) : v = Tail(u)
  BY HeadTailProperties
<1>3. Selected(v, Separators) = Selected(u, Separators)
  BY <1>2, SelectedHead, Zenon
<1>4. PICK p \in Nat : Position(c, n, p, u, b, w, g)
  BY DEF Stream
<1>5. Numbers(c, p + 1, v) /\ x = Numbered(c, p) /\ Len(v) = Len(u) - 1 /\ Len(u) \in Nat
  <2>1. Numbers(c, p, u)
    BY <1>4 DEF Position
  <2>2. Numbers(c, p + 1, Tail(u)) /\ Head(u) = Numbered(c, p) /\ Len(Tail(u)) = Len(u) - 1
    BY <2>1, NumbersTail, Zenon
  <2>3. QED
    BY <1>1, <1>2, <2>2, LenProperties, Zenon
<1>6. p = 2 * n + 1
  <2>1. SUFFICES ASSUME p = 2 * n + 2 PROVE FALSE
    BY <1>4 DEF Position
  <2>2. x = <<Sends[c][n + 1], "sep">>
    BY <2>1, <1>5, NumberedIs
  <2>3. x \in Separators
    BY <1>1, <2>2 DEF Tokens, Separators
  <2>4. QED
    BY <2>3, <1>1
<1>7. PICK d : d = AddToken(b, x) /\ d = <<x>> /\ d # <<>>
  <2>1. CASE b = <<>>
    <3>1. AddToken(b, x) = Append(b, x) /\ Append(<<>>, x) = <<x>>
      BY <2>1, Single, Zenon DEF AddToken
    <3>2. <<x>> # <<>>
      OBVIOUS
    <3>3. QED
      BY <3>1, <3>2, <2>1, Zenon
  <2>2. CASE b # <<>>
    <3>1. b = <<x>>
      BY <2>2, <1>4, <1>5, <1>6, Zenon DEF Position
    <3>2. Last(b) = x
      BY <3>1 DEF Last
    <3>3. AddToken(b, x) = b
      BY <2>2, <3>2, Zenon DEF AddToken
    <3>4. QED
      BY <2>2, <3>1, <3>3, Zenon
  <2>3. QED
    BY <2>1, <2>2
<1>8. d = <<Numbered(c, 2 * n + 1)>>
  BY <1>5, <1>6, <1>7
<1>9. Position(c, n, p + 1, v, d, w, g)
  <2>1. p + 1 = 2 * n + 2 /\ p + 1 + Len(v) = p + Len(u)
    BY <1>5, <1>6
  <2>2. QED
    BY <1>4, <1>5, <1>7, <1>8, <2>1 DEF Position
<1>10. g # "rst"
  BY DEF Stream
<1>11. QED
  BY <1>1, <1>2, <1>3, <1>7, <1>9, <1>10 DEF Stream

\* The separator is read: what was collected is the body of the next message.
LEMMA TakeSep ==
  ASSUME NEW c \in Clients, NEW n \in Nat, NEW w \in Nat, NEW u \in Seq(Tokens), NEW b \in Seq(Tokens), NEW g,
         Stream(c, n, u, b, w, g), u # <<>>, Head(u) \in Separators
  PROVE  /\ n + 1 <= w /\ w <= Len(Sends[c])
         /\ AddToken(b, Head(u))[1][1] = Sends[c][n + 1]
         /\ Stream(c, n + 1, Tail(u), <<>>, w, g)
<1>1. PICK x \in Tokens : x = Head(u) /\ x \in Separators
  BY HeadTailProperties
<1>2. PICK v \in Seq(Tokens) : v = Tail(u)
  BY HeadTailProperties
<1>3. PICK z \in Seq(Tokens) : z = Selected(u, Separators) /\ z # <<>> /\ Tail(z) = Selected(v, Separators)
  BY <1>2, SelectedHead, ZenonT(60)
<1>4. PICK p \in Nat : Position(c, n, p, u, b, w, g)
  BY DEF Stream
<1>5. Numbers(c, p + 1, v) /\ x = Numbered(c, p) /\ Len(v) = Len(u) - 1 /\ Len(u) \in Nat
  <2>1. Numbers(c, p, u)
    BY <1>4 DEF Position
  <2>2. Numbers(c, p + 1, Tail(u)) /\ Head(u) = Numbered(c, p) /\ Len(Tail(u)) = Len(u) - 1
    BY <2>1, NumbersTail, Zenon
  <2>3. QED
    BY <1>1, <1>2, <2>2, LenProperties, Zenon
<1>6. p = 2 * n + 2
  <2>1. SUFFICES ASSUME p = 2 * n + 1 PROVE FALSE
    BY <1>4 DEF Position
  <2>2. x = <<Sends[c][n + 1], "body">>
    BY <2>1, <1>5, NumberedIs
  <2>3. QED
    BY <2>2, <1>1 DEF Separators
<1>7. b # <<>> /\ b = <<Numbered(c, 2 * n + 1)>>
  <2>1. b # <<>>
    BY <1>4, <1>6 DEF Position
  <2>2. QED
    BY <2>1, <1>4 DEF Position
<1>8. PICK y : y = <<Sends[c][n + 1], "body">> /\ b = <<y>>
  BY <1>7, NumberedIs
<1>9. AddToken(b, x)[1][1] = Sends[c][n + 1]
  <2>1. Last(b) = y /\ Len(b) = 1 /\ b[1] = y
    BY <1>8 DEF Last
  <2>2. y # x
    BY <1>1, <1>8 DEF Separators
  <2>3. AddToken(b, x) = Append(b, x)
    BY <2>1, <2>2, Zenon DEF AddToken
  <2>4. Append(b, x)[1] = b[1]
    <3>1. 1 \in 1 .. Len(b)
      BY <2>1
    <3>2. QED
      BY ONLY <3>1, AppendProperties, b \in Seq(Tokens), x \in Tokens
  <2>5. AddToken(b, x)[1] = y
    BY <2>1, <2>3, <2>4, Zenon
  <2>6. QED
    BY <2>5, <1>8
<1>10. Whole(c, n, z, w, g)
  BY <1>3 DEF Stream
<1>11. g # "rst"
  BY DEF Stream
<1>12. PICK r \in Seq(Tokens) : r = Tail(z) /\ Len(r) = Len(z) - 1 /\ Len(z) \in Nat /\ Len(z) >= 1
                                /\ \A i \in 1 .. Len(r) : r[i] = z[i + 1]
  <2>1. /\ Tail(z) \in Seq(Tokens) /\ Len(Tail(z)) = Len(z) - 1
        /\ \A i \in 1 .. Len(Tail(z)) : Tail(z)[i] = z[i + 1]
    BY <1>3, HeadTailProperties, Zenon
  <2>2. Len(z) \in Nat /\ Len(z) # 0
    BY <1>3, EmptySeq, LenProperties
  <2>3. Len(z) >= 1
    BY <2>2
  <2>4. QED
    BY <2>1, <2>2, <2>3, Zenon
<1>13. n + 1 <= w /\ w <= Len(Sends[c])
  BY <1>10, <1>11, <1>12 DEF Whole
<1>14. Whole(c, n + 1, r, w, g)
  <2>1. n + 1 + Len(r) = w
    BY <1>10, <1>11, <1>12 DEF Whole
  <2>2. ASSUME NEW i \in 1 .. Len(r) PROVE r[i] = <<Sends[c][n + 1 + i], "sep">>
    <3>1. i + 1 \in 1 .. Len(z) /\ n + (i + 1) = n + 1 + i
      BY <1>12
    <3>2. z[i + 1] = <<Sends[c][n + (i + 1)], "sep">>
      BY <3>1, <1>10 DEF Whole
    <3>3. QED
      BY <3>1, <3>2, <1>12
  <2>3. QED
    BY <1>13, <2>1, <2>2 DEF Whole
<1>15. Position(c, n + 1, p + 1, v, <<>>, w, g)
  <2>1. p + 1 = 2 * (n + 1) + 1 /\ p + 1 + Len(v) = p + Len(u)
    BY <1>5, <1>6
  <2>2. QED
    BY <1>4, <1>5, <2>1 DEF Position
<1>16. Stream(c, n + 1, v, <<>>, w, g)
  <2>1. p + 1 \in Nat
    OBVIOUS
  <2>2. QED
    BY <1>3, <1>11, <1>12, <1>14, <1>15, <2>1, Zenon DEF Stream
<1>17. QED
  BY <1>1, <1>2, <1>9, <1>13, <1>16, Zenon

\* A connection that breaks loses what is in the kernel.
LEMMA CutOff ==
  ASSUME NEW c \in Clients, NEW n \in Nat, NEW w \in Nat, NEW u \in Seq(Tokens), NEW b, NEW g,
         g # "rst", Stream(c, n, u, b, w, g)
  PROVE  Stream(c, n, <<>>, b, w, "rst") /\ Stream(c, n, u, b, w, "fin")
<1>1. PICK p \in Nat : Position(c, n, p, u, b, w, g)
  BY DEF Stream
<1>2. Position(c, n, p, <<>>, b, w, "rst") /\ Position(c, n, p, u, b, w, "fin")
  BY <1>1, NumbersNone DEF Position
<1>3. Whole(c, n, <<>>, w, "rst") /\ Whole(c, n, Selected(u, Separators), w, "fin")
  BY DEF Stream, Whole
<1>4. QED
  BY <1>2, <1>3, SelectedEmpty DEF Stream

\* A vector is dropped when there is nothing more to read.
LEMMA Forgotten ==
  ASSUME NEW c \in Clients, NEW n \in Nat, NEW w \in Nat, NEW b, NEW g, Stream(c, n, <<>>, b, w, g)
  PROVE  Stream(c, n, <<>>, <<>>, w, g)
<1>1. PICK p \in Nat : Position(c, n, p, <<>>, b, w, g)
  BY DEF Stream
<1>2. g # "rst" => n = w
  BY SelectedEmpty DEF Stream, Whole
<1>3. Position(c, n, 2 * n + 1, <<>>, <<>>, w, g)
  BY <1>1, <1>2, NumbersNone DEF Position
<1>4. 2 * n + 1 \in Nat
  OBVIOUS
<1>5. QED
  BY <1>3, <1>4 DEF Stream

-----------------------------------------------------------------------------
(***************************************************************************)
(* The messages of c that were read: those queued and the one the server   *)
(* thread has in its hand. They are the first ones c sends, and the rest   *)
(* of the stream of c is in the kernel.                                    *)
(***************************************************************************)
Taken(c) == Queued(c) \o InHand(c)

Took(c, taken) == \A i \in 1 .. Len(taken) : taken[i] = Sends[c][i]

Arriving(c) ==
  /\ Took(c, Taken(c))
  /\ Stream(c, Len(Taken(c)), wire[c], buf[c], written[c], gone[c])

(***************************************************************************)
(* So it is with every client while the program runs. A client that is     *)
(* marked has nothing in the kernel, so forgetting its vector loses no     *)
(* message.                                                                *)
(***************************************************************************)
Arrivals ==
  /\ Running => \A c \in Clients : Arriving(c)
  /\ spc = "create" => call[server].op = "enq"
  /\ \A c \in fd2erase : conn[c] = "closed" /\ wire[c] = <<>>

\* Nothing after q.
LEMMA JoinedNone == ASSUME NEW S, NEW q \in Seq(S) PROVE q \o <<>> = q
BY ConcatEmptySeq

\* One item after q.
LEMMA JoinedOne == ASSUME NEW S, NEW q \in Seq(S), NEW x \in S PROVE q \o <<x>> = Append(q, x)
BY AppendIsConcat, Zenon

\* What is queued are messages.
LEMMA QueuedType ==
  ASSUME TypeQueue, NEW c \in Clients
  PROVE  Queued(c) \in Seq(Msgs)
<1>1. sent \in Seq(Msgs)
  BY DEF TypeQueue
<1>2. Selected(sent, Range(Sends[c])) \in Seq(Msgs \cap Range(Sends[c]))
  BY <1>1, SelectedType, Zenon
<1>3. QED
  BY <1>2 DEF Queued

\* What was read, with and without a message in hand.
LEMMA TakenParts ==
  ASSUME Serving, Arrivals, NEW c \in Clients
  PROVE  /\ Queued(c) \in Seq(Msgs) /\ Taken(c) \in Seq(Msgs) /\ Len(Taken(c)) \in Nat
         /\ ~(spc = "create" /\ client_fd = c) => Taken(c) = Queued(c)
         /\ spc = "create" /\ client_fd = c => /\ Taken(c) = Append(Queued(c), call[server].item)
                                               /\ call[server].item \in Msgs
<1>1. Queued(c) \in Seq(Msgs)
  BY QueuedType DEF Serving, QueueInv
<1>2. CASE ~(spc = "create" /\ client_fd = c)
  <2>1. Taken(c) = Queued(c)
    <3>1. InHand(c) = <<>>
      BY <1>2, Zenon DEF InHand
    <3>2. QED
      BY <1>1, <3>1, JoinedNone, Zenon DEF Taken
  <2>2. QED
    BY <1>1, <1>2, <2>1, LenProperties
<1>3. CASE spc = "create" /\ client_fd = c
  <2>1. call[server].item \in Msgs
    BY <1>3 DEF Arrivals, Serving, QueueInv, Callers
  <2>2. Taken(c) = Append(Queued(c), call[server].item)
    <3>1. InHand(c) = <<call[server].item>>
      BY <1>3, Zenon DEF InHand
    <3>2. QED
      BY <1>1, <2>1, <3>1, JoinedOne, Zenon DEF Taken
  <2>3. Append(Queued(c), call[server].item) \in Seq(Msgs)
    BY <1>1, <2>1, Appended, Zenon
  <2>4. Taken(c) \in Seq(Msgs)
    BY <2>2, <2>3, Zenon
  <2>5. Len(Taken(c)) \in Nat
    BY <2>4, LenProperties, Zenon
  <2>6. QED
    BY <1>1, <1>3, <2>1, <2>2, <2>4, <2>5, Zenon
<1>4. QED
  BY <1>2, <1>3

\* In the beginning nothing was read or written.
LEMMA ArrivalsInit == Init => Arrivals
<1> SUFFICES ASSUME Init PROVE Arrivals
  OBVIOUS
<1>1. ASSUME NEW c \in Clients PROVE Arriving(c)
  <2>1. Taken(c) = <<>>
    <3>1. Queued(c) = <<>> /\ InHand(c) = <<>>
      BY SelectedEmpty DEF Init, Queue!Init, Queued, InHand
    <3>2. <<>> \in Seq(Msgs)
      BY EmptySeq
    <3>3. QED
      BY <3>1, <3>2, JoinedNone, Zenon DEF Taken
  <2>2. wire[c] = <<>> /\ buf[c] = <<>> /\ written[c] = 0 /\ gone[c] = "no"
    BY DEF Init
  <2>3. Len(Sends[c]) \in Nat
    BY SendsType, LenProperties
  <2>4. Whole(c, 0, <<>>, 0, "no") /\ Position(c, 0, 1, <<>>, <<>>, 0, "no")
    BY <2>3, NumbersNone DEF Whole, Position
  <2>5. Stream(c, 0, <<>>, <<>>, 0, "no")
    BY <2>4, SelectedEmpty DEF Stream
  <2>6. Len(<<>>) = 0
    OBVIOUS
  <2>7. QED
    BY <2>1, <2>2, <2>5, <2>6 DEF Arriving, Took
<1>2. QED
  BY <1>1 DEF Init, Arrivals

\* A step that moves no byte and queues nothing.
LEMMA Quiet ==
  ASSUME Arrivals, UNCHANGED <<sent, wire, buf, written, gone>>,
         spc' = "create" <=> spc = "create",
         spc = "create" => client_fd' = client_fd /\ call'[server] = call[server],
         Running' => Running
  PROVE  (Running => \A c \in Clients : Arriving(c))'
<1>1. SUFFICES ASSUME Running', NEW c \in Clients PROVE Arriving(c)'
  BY Zenon
<1>2. Arriving(c)
  BY <1>1 DEF Arrivals
<1>3. Taken(c)' = Taken(c)
  <2>1. Queued(c)' = Queued(c)
    BY Zenon DEF Queued
  <2>2. InHand(c)' = InHand(c)
    BY DEF InHand
  <2>3. QED
    BY <2>1, <2>2, Zenon DEF Taken
<1>4. wire'[c] = wire[c] /\ buf'[c] = buf[c] /\ written'[c] = written[c] /\ gone'[c] = gone[c]
  BY Zenon
<1>5. QED
  BY <1>2, <1>3, <1>4, Zenon DEF Arriving

\* Consumers push nothing and leave the call of the server thread alone.
LEMMA CallsLeave ==
  ASSUME QueueInv, NEW t \in Consumers, Call(t) \/ Run(t) \/ Deadline(t) \/ Wakeup(t)
  PROVE  sent' = sent /\ call'[server] = call[server] /\ UNCHANGED LoopVars
<1>1. t # server /\ t \in Threads /\ server \in Threads
  BY ServAssumption DEF Threads
<1>2. call \in [Threads -> Outcome] /\ (pc[t] # "idle" => call[t].op \in DeqOps)
  BY DEF QueueInv, TypeQueue, Callers
<1>3. UNCHANGED LoopVars
  BY DEF Call, Run, Deadline, Wakeup, UnchangedLoop, LoopVars
<1>4. CASE Call(t)
  BY <1>1, <1>2, <1>3, <1>4 DEF Call, Queue!Enter, Queue!disable_deq, Queue!CallsControl, Queue!historyVars
<1>5. CASE Deadline(t) \/ Wakeup(t)
  BY <1>3, <1>5 DEF Deadline, Wakeup, Queue!Deadline, Queue!SpuriousWakeup, Queue!historyVars
<1>6. CASE Run(t)
  <2>1. ~(Queue!Push(t) \/ Queue!WaitEnq(t))
    BY <1>2 DEF Queue!Push, Queue!WaitEnq, Queue!Contends, Queue!PushOps, Queue!WaitEnqOps,
      DeqOps, PopOps, WaitDeqOps
  <2>2. CASE Queue!Pop(t)
    BY <1>1, <1>2, <1>3, <2>2 DEF Queue!Pop
  <2>3. CASE Queue!Block(t) \/ Queue!WaitDeq(t) \/ Queue!Aborted(t) \/ Queue!TimedOut(t)
    BY <1>3, <2>3 DEF Queue!Block, Queue!WaitDeq, Queue!Aborted, Queue!TimedOut, Queue!Fail, Queue!historyVars
  <2>4. QED
    BY <1>6, <2>1, <2>2, <2>3 DEF Run, Queue!Run
<1>7. QED
  BY <1>3, <1>4, <1>5, <1>6

\* Consumers change nothing of what arrives.
LEMMA CallsArrive ==
  ASSUME Serving, Arrivals, NEW t \in Consumers, Call(t) \/ Run(t) \/ Deadline(t) \/ Wakeup(t)
  PROVE  Arrivals'
<1>1. sent' = sent /\ call'[server] = call[server] /\ UNCHANGED LoopVars
  BY CallsLeave DEF Serving
<1>2. (Running => \A c \in Clients : Arriving(c))'
  BY <1>1, Quiet DEF LoopVars, loopVars, clientVars, Running
<1>3. QED
  BY <1>1, <1>2 DEF Arrivals, LoopVars, loopVars, clientVars

\* Neither do the actions of the loop that read nothing.
LEMMA RoundArrives ==
  ASSUME Serving, Arrivals,
         \/ Start \/ LoopHead \/ Select \/ Accept \/ AcceptFails \/ NextClient \/ ReadNothing
         \/ Interrupted \/ Destroy \/ Join \/ \E c \in Clients : Connect(c)
  PROVE  Arrivals'
<1>1. CASE Terminate
  <2>1. ~Running' /\ spc' # "create"
    BY <1>1 DEF Terminate, Running
  <2>2. QED
    BY <1>1, <2>1 DEF Arrivals, Terminate, clientVars
<1>2. CASE \/ (Start /\ ~Terminate) \/ LoopHead \/ Select \/ Accept \/ AcceptFails \/ NextClient \/ ReadNothing
           \/ Destroy \/ Join \/ \E c \in Clients : Connect(c)
  <2>1. /\ UNCHANGED <<sent, wire, buf, written, gone>>
        /\ spc' = "create" <=> spc = "create"
        /\ spc = "create" => client_fd' = client_fd /\ call' = call
        /\ spc # "terminated" \/ UNCHANGED spc
    BY <1>2 DEF Start, LoopHead, Select, Accept, AcceptFails, NextClient, ReadNothing,
      Destroy, Join, Connect, Running, queueVars, loopVars, clientVars
  <2>2. (Running => \A c \in Clients : Arriving(c))'
    BY <2>1, Quiet DEF Running
  <2>3. call' = call
    BY <1>2 DEF Start, LoopHead, Select, Accept, AcceptFails, NextClient, ReadNothing,
      Destroy, Join, Connect, queueVars
  <2>4. \A c \in fd2erase' : conn'[c] = "closed" /\ wire'[c] = <<>>
    <3>0. conn \in [Clients -> Fates] /\ pending \in Seq(Clients) /\ fd2erase \subseteq Clients
      BY DEF Serving, LoopInv, TypeClients, TypeLoop
    <3>1. CASE (Start /\ ~Terminate) \/ Select \/ NextClient \/ Destroy
      BY <3>1 DEF Arrivals, Start, Select, NextClient, Destroy, loopVars, clientVars
    <3>2. CASE LoopHead \/ Accept \/ AcceptFails
      <4>1. fd2erase' = {}
        BY <3>2 DEF LoopHead, Accept, AcceptFails, Serving, LoopInv, Place
      <4>2. QED
        BY <4>1
    <3>3. CASE ReadNothing
      <4>1. client_fd \in Clients /\ wire[client_fd] = <<>>
        BY <3>3 DEF ReadNothing, Serving, LoopInv, TypeLoop, Place
      <4>2. QED
        BY <3>0, <3>3, <4>1 DEF Arrivals, ReadNothing
    <3>4. CASE Join
      <4>1. fd2erase' = {}
        BY <3>4 DEF Join, loopVars, Serving, LoopInv, Place
      <4>2. QED
        BY <4>1
    <3>5. CASE \E c \in Clients : Connect(c)
      BY <3>0, <3>5 DEF Arrivals, Connect, loopVars
    <3>6. QED
      BY <1>2, <3>1, <3>2, <3>3, <3>4, <3>5
  <2>5. QED
    BY <2>1, <2>2, <2>3, <2>4 DEF Arrivals
<1>3. QED
  BY <1>1, <1>2 DEF Interrupted

\* The vectors of the marked clients are dropped.
LEMMA EndOfRoundArrives ==
  ASSUME Serving, Arrivals, EndOfRound
  PROVE  Arrivals'
<1>1. /\ spc = "serve" /\ spc' = "head" /\ fd2erase' = {}
      /\ buf' = [c \in Clients |-> IF c \in fd2erase THEN <<>> ELSE buf[c]]
      /\ UNCHANGED <<sent, call, client_fd, wire, written, gone>>
  BY DEF EndOfRound, queueVars, clientVars
<1>2. ASSUME NEW c \in Clients PROVE Arriving(c)'
  <2>1. Arriving(c) /\ Running
    BY <1>1 DEF Arrivals, Running
  <2>2. Taken(c)' = Taken(c)
    <3>1. Queued(c)' = Queued(c)
      BY <1>1, Zenon DEF Queued
    <3>2. InHand(c)' = InHand(c)
      BY <1>1 DEF InHand
    <3>3. QED
      BY <3>1, <3>2, Zenon DEF Taken
  <2>3. wire'[c] = wire[c] /\ written'[c] = written[c] /\ gone'[c] = gone[c]
    BY <1>1
  <2>4. CASE c \in fd2erase
    <3>1. wire[c] = <<>> /\ buf'[c] = <<>>
      BY <1>1, <2>4 DEF Arrivals
    <3>2. Len(Taken(c)) \in Nat /\ written[c] \in Nat
      BY TakenParts DEF Serving, LoopInv, TypeClients
    <3>3. Stream(c, Len(Taken(c)), <<>>, buf[c], written[c], gone[c])
      BY <2>1, <3>1, Zenon DEF Arriving
    <3>4. Stream(c, Len(Taken(c)), <<>>, <<>>, written[c], gone[c])
      BY <3>2, <3>3, Forgotten, Zenon
    <3>5. QED
      BY <2>1, <2>2, <2>3, <3>1, <3>4, Zenon DEF Arriving
  <2>5. CASE c \notin fd2erase
    <3>1. buf'[c] = buf[c]
      BY <1>1, <2>5
    <3>2. QED
      BY <2>1, <2>2, <2>3, <3>1, Zenon DEF Arriving
  <2>6. QED
    BY <2>4, <2>5
<1>3. QED
  BY <1>1, <1>2 DEF Arrivals

\* A byte is read: with a separator, the message goes from the kernel to the hand.
LEMMA ReadArrives ==
  ASSUME Serving, Arrivals, ReadByte
  PROVE  Arrivals'
<1>1. spc = "read" /\ client_fd \in Clients /\ wire[client_fd] # <<>>
  BY DEF ReadByte, Serving, LoopInv, Place, TypeLoop
<1> DEFINE c == client_fd
           n == Len(Taken(c))
<1>2. /\ wire \in [Clients -> Seq(Tokens)] /\ buf \in [Clients -> Seq(Tokens)]
      /\ written[c] \in Nat /\ call \in [Threads -> Outcome] /\ server \in Threads
  BY <1>1 DEF Serving, LoopInv, QueueInv, TypeClients, TypeQueue, Threads
<1>3. wire[c] \in Seq(Tokens) /\ buf[c] \in Seq(Tokens)
  BY <1>1, <1>2
<1>4. /\ Queued(c) \in Seq(Msgs) /\ Taken(c) = Queued(c) /\ Taken(c) \in Seq(Msgs) /\ n \in Nat
  BY <1>1, TakenParts, Zenon
<1>5. PICK x \in Tokens : x = Head(wire[c])
  BY <1>1, <1>3, HeadTailProperties
<1>6. PICK bytes \in Seq(Tokens) : /\ bytes = AddToken(buf[c], x) /\ Last(bytes) = x /\ bytes[1] \in Tokens
  BY <1>3, AddTokenType, Zenon
<1>7. PICK rest \in Seq(Tokens) : rest = Tail(wire[c])
  BY <1>1, <1>3, HeadTailProperties
<1>8. /\ \/ /\ x[2] = "sep" /\ buf' = [buf EXCEPT ![c] = <<>>] /\ spc' = "create"
            /\ call' = [call EXCEPT ![server] = [op |-> "enq", item |-> deser(bytes)]]
         \/ /\ x[2] # "sep" /\ buf' = [buf EXCEPT ![c] = bytes] /\ spc' = spc /\ call' = call
      /\ wire' = [wire EXCEPT ![c] = rest]
      /\ UNCHANGED <<sent, client_fd, fd2erase, conn, gone, written>>
  BY <1>5, <1>6, <1>7, Zenon DEF ReadByte
<1>9. x \in Separators <=> x[2] = "sep"
  BY <1>5 DEF Tokens, Separators
<1>10. /\ wire'[c] = rest /\ \A d \in Clients : d # c => wire'[d] = wire[d] /\ buf'[d] = buf[d]
       /\ x[2] = "sep" => buf'[c] = <<>> /\ call'[server] = [op |-> "enq", item |-> deser(bytes)]
       /\ x[2] # "sep" => buf'[c] = bytes
  BY <1>1, <1>2, <1>8
<1>11. Running /\ Running' /\ Arriving(c)
  BY <1>1, <1>8 DEF Running, Arrivals
<1>12. \A d \in Clients : Queued(d)' = Queued(d)
  BY <1>8, Zenon DEF Queued
<1>13. ASSUME NEW d \in Clients, d # c PROVE Arriving(d)'
  <2>1. Arriving(d)
    BY <1>11 DEF Arrivals
  <2>2. InHand(d) = <<>> /\ InHand(d)' = <<>>
    BY <1>8, <1>13 DEF InHand
  <2>3. Taken(d)' = Taken(d)
    BY <1>12, <2>2, Zenon DEF Taken
  <2>4. wire'[d] = wire[d] /\ buf'[d] = buf[d] /\ written'[d] = written[d] /\ gone'[d] = gone[d]
    BY <1>8, <1>10, <1>13
  <2>5. QED
    BY <2>1, <2>3, <2>4, Zenon DEF Arriving
<1>14. Stream(c, n, wire[c], buf[c], written[c], gone[c]) /\ Took(c, Taken(c))
  BY <1>11, Zenon DEF Arriving
<1>15. CASE x[2] # "sep"
  <2>1. Stream(c, n, rest, bytes, written[c], gone[c])
    <3>1. Head(wire[c]) \notin Separators
      BY <1>5, <1>9, <1>15
    <3>2. Stream(c, n, Tail(wire[c]), AddToken(buf[c], Head(wire[c])), written[c], gone[c])
      BY <3>1, <1>1, <1>2, <1>3, <1>4, <1>14, TakeBody
    <3>3. QED
      BY <3>2, <1>5, <1>6, <1>7
  <2>3. client_fd' = c /\ written'[c] = written[c] /\ gone'[c] = gone[c] /\ buf'[c] = bytes
    BY <1>8, <1>10, <1>15
  <2>4. ASSUME NEW d \in Clients, d = c PROVE Arriving(d)'
    <3>1. wire'[d] = rest /\ buf'[d] = bytes /\ written'[d] = written[c] /\ gone'[d] = gone[c]
      BY <1>10, <2>3, <2>4
    <3>2. Taken(d)' = Taken(c)
      <4>1. InHand(d)' = InHand(d)
        BY <1>1, <1>8, <1>15 DEF InHand
      <4>2. QED
        BY <4>1, <1>12, <2>4, Zenon DEF Taken
    <3>3. QED
      BY <3>1, <3>2, <2>1, <2>4, <1>14, Zenon DEF Arriving
  <2>5. \A d \in Clients : Arriving(d)'
    BY <1>13, <2>4
  <2>6. spc' = "read" /\ \A e \in fd2erase' : conn'[e] = "closed" /\ wire'[e] = <<>>
    <3>1. c \notin fd2erase /\ fd2erase \subseteq Clients
      BY <1>1 DEF Serving, LoopInv, Place, TypeLoop
    <3>2. QED
      BY <3>1, <1>1, <1>8, <1>10, <1>15 DEF Arrivals
  <2>7. QED
    BY <2>5, <2>6 DEF Arrivals
<1>16. CASE x[2] = "sep"
  <2>1. /\ n + 1 <= written[c] /\ written[c] <= Len(Sends[c])
        /\ bytes[1][1] = Sends[c][n + 1]
        /\ Stream(c, n + 1, rest, <<>>, written[c], gone[c])
    <3>1. Head(wire[c]) \in Separators
      BY <1>5, <1>9, <1>16
    <3>2. /\ n + 1 <= written[c] /\ written[c] <= Len(Sends[c])
          /\ AddToken(buf[c], Head(wire[c]))[1][1] = Sends[c][n + 1]
          /\ Stream(c, n + 1, Tail(wire[c]), <<>>, written[c], gone[c])
      BY <3>1, <1>1, <1>2, <1>3, <1>4, <1>14, TakeSep
    <3>3. QED
      BY <3>2, <1>5, <1>6, <1>7
  <2>2. PICK item \in Msgs : item = deser(bytes) /\ item = Sends[c][n + 1]
    BY <1>6, <2>1 DEF deser, Tokens
  <2>3. PICK more \in Seq(Msgs) :
           /\ more = Append(Taken(c), item) /\ Len(more) = n + 1
           /\ more[n + 1] = item /\ \A i \in 1 .. n : more[i] = Taken(c)[i]
    <3>1. PICK t \in Seq(Msgs) : t = Taken(c) /\ Len(t) = n
      BY <1>4
    <3>2. /\ Append(t, item) \in Seq(Msgs) /\ Len(Append(t, item)) = Len(t) + 1
          /\ Append(t, item)[Len(t) + 1] = item /\ \A i \in 1 .. Len(t) : Append(t, item)[i] = t[i]
      BY AppendProperties
    <3>3. QED
      BY <3>1, <3>2, Zenon
  <2>4. Took(c, more)
    BY <1>4, <1>14, <2>2, <2>3 DEF Took
  <2>5. ASSUME NEW d \in Clients, d = c PROVE Arriving(d)'
    <3>1. wire'[d] = rest /\ buf'[d] = <<>> /\ written'[d] = written[c] /\ gone'[d] = gone[c]
      BY <1>8, <1>10, <1>16, <2>5
    <3>2. InHand(d)' = <<item>>
      <4>1. spc' = "create" /\ client_fd' = d /\ call'[server].item = item
        BY <1>8, <1>10, <1>16, <2>2, <2>5
      <4>2. QED
        BY <4>1 DEF InHand
    <3>3. Taken(d)' = more
      <4>1. Queued(d)' = Taken(c)
        BY <1>4, <1>12, <2>5
      <4>2. Taken(c) \o <<item>> = more
        BY <1>4, <2>3, JoinedOne, Zenon
      <4>3. Taken(d)' = Queued(d)' \o InHand(d)'
        BY DEF Taken
      <4>4. QED
        BY <4>1, <4>2, <4>3, <3>2, Zenon
    <3>4. QED
      BY <3>1, <3>3, <2>1, <2>3, <2>4, <2>5 DEF Arriving
  <2>6. \A d \in Clients : Arriving(d)'
    BY <1>13, <2>5
  <2>7. call'[server].op = "enq" /\ \A e \in fd2erase' : conn'[e] = "closed" /\ wire'[e] = <<>>
    <3>1. c \notin fd2erase /\ fd2erase \subseteq Clients
      BY <1>1 DEF Serving, LoopInv, Place, TypeLoop
    <3>2. QED
      BY <3>1, <1>1, <1>8, <1>10, <1>16 DEF Arrivals
  <2>8. QED
    BY <2>6, <2>7 DEF Arrivals
<1>17. QED
  BY <1>15, <1>16

\* The message in hand is queued, behind those of all clients.
LEMMA CreateArrives ==
  ASSUME Serving, Arrivals, createItem
  PROVE  Arrivals'
<1>1. CASE Terminate
  <2>1. ~Running' /\ spc' # "create"
    BY <1>1 DEF Terminate, Running
  <2>2. QED
    BY <1>1, <2>1 DEF Arrivals, Terminate, clientVars
<1>2. CASE Queue!Push(server) /\ ~Terminate
  <2>1. /\ spc = "create" /\ spc' = "read" /\ sent' = Append(sent, call[server].item)
        /\ UNCHANGED <<call, client_fd, buf, fd2erase, conn, wire, gone, written>>
    BY <1>2 DEF createItem, Queue!Push, clientVars
  <2>2. /\ client_fd \in Clients /\ sent \in Seq(Msgs) /\ Running
        /\ written \in [Clients -> Nat]
    BY <2>1 DEF Serving, LoopInv, QueueInv, TypeQueue, TypeLoop, TypeClients, Place, Running
  <2>3. PICK item \in Msgs : item = call[server].item /\ Taken(client_fd) = Append(Queued(client_fd), item)
                             /\ Queued(client_fd) \in Seq(Msgs)
    BY <2>1, <2>2, TakenParts
  <2>4. item \in Range(Sends[client_fd])
    <3>1. Arriving(client_fd)
      BY <2>2 DEF Arrivals
    <3>2. PICK k \in Nat : k = Len(Queued(client_fd)) + 1 /\ Len(Taken(client_fd)) = k /\ Taken(client_fd)[k] = item
      BY <2>3, AppendProperties, LenProperties
    <3>3. k \in 1 .. k
      BY <2>3, <3>2, LenProperties
    <3>4. item = Sends[client_fd][k] /\ k <= Len(Sends[client_fd])
      BY <3>1, <3>2, <3>3, <2>2 DEF Arriving, Took, Stream, Whole
    <3>5. k \in 1 .. Len(Sends[client_fd]) /\ DOMAIN Sends[client_fd] = 1 .. Len(Sends[client_fd])
      BY <3>3, <3>4, <2>2, SendsType, LenProperties
    <3>6. QED
      BY <3>4, <3>5 DEF Range
  <2>5. ASSUME NEW c \in Clients PROVE Taken(c)' = Taken(c)
    <3>1. InHand(c)' = <<>>
      BY <2>1 DEF InHand
    <3>2. Queued(c)' = Selected(Append(sent, item), Range(Sends[c]))
      BY <2>1, <2>3, Zenon DEF Queued
    <3>3. Queued(c) = Selected(sent, Range(Sends[c])) /\ Queued(c) \in Seq(Msgs)
      BY TakenParts DEF Queued
    <3>4. Selected(Append(sent, item), Range(Sends[c]))
            = IF item \in Range(Sends[c]) THEN Append(Selected(sent, Range(Sends[c])), item)
              ELSE Selected(sent, Range(Sends[c]))
      BY <2>2, SelectedAppend, Zenon
    <3>5. CASE c = client_fd
      <4>1. Queued(c)' = Taken(c)
        BY <3>2, <3>3, <3>4, <3>5, <2>3, <2>4, Zenon
      <4>2. Taken(c) \in Seq(Msgs)
        BY TakenParts
      <4>3. QED
        BY <3>1, <4>1, <4>2, JoinedNone, Zenon DEF Taken
    <3>6. CASE c # client_fd
      <4>1. item \notin Range(Sends[c])
        BY <3>6, <2>2, <2>4, ServAssumption
      <4>2. Queued(c)' = Queued(c)
        BY <3>2, <3>3, <3>4, <4>1, Zenon
      <4>3. InHand(c) = <<>>
        BY <3>6 DEF InHand
      <4>4. QED
        BY <3>1, <4>2, <4>3, Zenon DEF Taken
    <3>7. QED
      BY <3>5, <3>6
  <2>6. ASSUME NEW c \in Clients PROVE Arriving(c)'
    <3>1. Arriving(c)
      BY <2>2 DEF Arrivals
    <3>2. wire'[c] = wire[c] /\ buf'[c] = buf[c] /\ written'[c] = written[c] /\ gone'[c] = gone[c]
      BY <2>1
    <3>3. QED
      BY <3>1, <3>2, <2>5, Zenon DEF Arriving
  <2>7. QED
    BY <2>1, <2>6 DEF Arrivals
<1>3. QED
  BY <1>1, <1>2 DEF createItem

\* A client writes, closes its end or breaks the connection.
LEMMA WriteArrives ==
  ASSUME Serving, Arrivals, NEW c \in Clients, Write(c) \/ Leave(c)
  PROVE  Arrivals'
<1>1. /\ Running /\ conn[c] \in {"pending", "open"} /\ gone[c] = "no"
      /\ UNCHANGED <<sent, spc, client_fd, call, buf, fd2erase, conn>>
  BY DEF Write, Leave, queueVars, loopVars
<1>2. /\ wire \in [Clients -> Seq(Tokens)] /\ buf \in [Clients -> Seq(Tokens)] /\ written \in [Clients -> Nat]
      /\ gone \in [Clients -> {"no", "fin", "rst"}]
  BY DEF Serving, LoopInv, TypeClients
<1>3. \A d \in Clients : Taken(d)' = Taken(d)
  <2>1. TAKE d \in Clients
  <2>2. Queued(d)' = Queued(d)
    BY <1>1, Zenon DEF Queued
  <2>3. InHand(d)' = InHand(d)
    BY <1>1 DEF InHand
  <2>4. QED
    BY <2>2, <2>3, Zenon DEF Taken
<1> DEFINE n == Len(Taken(c))
           w == written[c]
<1>4. n \in Nat /\ w \in Nat /\ wire[c] \in Seq(Tokens) /\ buf[c] \in Seq(Tokens)
  BY <1>2, TakenParts
<1>5. Took(c, Taken(c)) /\ Stream(c, n, wire[c], buf[c], w, gone[c]) /\ gone[c] # "rst"
  BY <1>1 DEF Arrivals, Arriving
<1>6. Stream(c, n, wire'[c], buf[c], written'[c], gone'[c])
  <2>1. CASE Leave(c)
    <3>1. written'[c] = w /\ \/ gone'[c] = "fin" /\ wire'[c] = wire[c]
                             \/ gone'[c] = "rst" /\ wire'[c] = <<>>
      BY <2>1, <1>2 DEF Leave
    <3>2. Stream(c, n, <<>>, buf[c], w, "rst") /\ Stream(c, n, wire[c], buf[c], w, "fin")
      BY <1>4, <1>5, CutOff
    <3>3. QED
      BY <3>1, <3>2, Zenon
  <2>2. CASE Write(c)
    <3>1. PICK m : m = Sends[c][w + 1]
      OBVIOUS
    <3>2. /\ w < Len(Sends[c]) /\ gone' = gone
          /\ \/ wire' = [wire EXCEPT ![c] = AddToken(wire[c], <<m, "body">>)] /\ written' = written
             \/ /\ wire' = [wire EXCEPT ![c] = Append(wire[c], <<m, "sep">>)]
                /\ written' = [written EXCEPT ![c] = w + 1]
                /\ <<m, "body">> \in Range(wire[c]) \cup Range(buf[c])
      BY <2>2, <3>1, Zenon DEF Write
    <3>3. CASE wire' = [wire EXCEPT ![c] = AddToken(wire[c], <<m, "body">>)] /\ written' = written
      <4>1. Stream(c, n, AddToken(wire[c], <<m, "body">>), buf[c], w, gone[c])
        BY <3>1, <3>2, <1>4, <1>5, NextBody
      <4>2. wire'[c] = AddToken(wire[c], <<m, "body">>)
        BY <3>3, <1>2, Zenon
      <4>3. QED
        BY <4>1, <4>2, <3>2, <3>3, Zenon
    <3>4. CASE /\ wire' = [wire EXCEPT ![c] = Append(wire[c], <<m, "sep">>)]
               /\ written' = [written EXCEPT ![c] = w + 1]
               /\ <<m, "body">> \in Range(wire[c]) \cup Range(buf[c])
      <4>1. Stream(c, n, Append(wire[c], <<m, "sep">>), buf[c], w + 1, gone[c])
        BY <3>1, <3>2, <3>4, <1>4, <1>5, NextSep, Zenon
      <4>2. wire'[c] = Append(wire[c], <<m, "sep">>) /\ written'[c] = w + 1
        BY <3>4, <1>2, Zenon
      <4>3. QED
        BY <4>1, <4>2, <3>2, Zenon
    <3>5. QED
      BY <3>2, <3>3, <3>4
  <2>3. QED
    BY <2>1, <2>2
<1>7. \A d \in Clients : d # c => wire'[d] = wire[d] /\ written'[d] = written[d] /\ gone'[d] = gone[d]
  BY <1>2 DEF Write, Leave
<1>8. ASSUME NEW d \in Clients PROVE Arriving(d)'
  <2>1. buf'[d] = buf[d] /\ Taken(d)' = Taken(d) /\ Arriving(d)
    BY <1>1, <1>3 DEF Arrivals
  <2>2. CASE d = c
    BY <2>1, <2>2, <1>5, <1>6, Zenon DEF Arriving
  <2>3. CASE d # c
    BY <2>1, <2>3, <1>7, Zenon DEF Arriving
  <2>4. QED
    BY <2>2, <2>3
<1>9. \A e \in fd2erase : e # c /\ e \in Clients
  BY <1>1 DEF Arrivals, Serving, LoopInv, TypeLoop
<1>10. QED
  BY <1>1, <1>7, <1>8, <1>9 DEF Arrivals

\* Every step of the system.
LEMMA ArrivalsStep ==
  ASSUME Serving, Arrivals, [Next]_vars
  PROVE  Arrivals'
<1>1. CASE UNCHANGED vars
  <2>1. (Running => \A c \in Clients : Arriving(c))'
    BY <1>1, Quiet DEF vars, queueVars, loopVars, clientVars, Running
  <2>2. QED
    BY <1>1, <2>1 DEF Arrivals, vars, queueVars, loopVars, clientVars
<1>2. CASE Next
  BY <1>2, NextCases, CallsArrive, RoundArrives, EndOfRoundArrives, ReadArrives, CreateArrives, WriteArrives
<1>3. QED
  BY <1>1, <1>2

\* What was read and what waits in the kernel, put together.
LEMMA ArrivedWhole ==
  ASSUME Serving, Arrivals
  PROVE  WholeMessagesInOrder
<1>1. SUFFICES ASSUME Running, NEW c \in Clients
               PROVE  LET all == Queued(c) \o InHand(c) \o Waiting(c)
                      IN  /\ IsPrefix(all, SubSeq(Sends[c], 1, written[c]))
                          /\ gone[c] # "rst" => Len(all) = written[c]
  BY DEF WholeMessagesInOrder
<1>2. Arriving(c)
  BY <1>1 DEF Arrivals
<1>3. PICK taken \in Seq(Msgs) : taken = Taken(c) /\ Len(taken) \in Nat
  BY TakenParts
<1>4. wire[c] \in Seq(Tokens) /\ written[c] \in Nat
  BY DEF Serving, LoopInv, TypeClients
<1>5. PICK z \in Seq(Separators) : z = Selected(wire[c], Separators)
  <2>1. Selected(wire[c], Separators) \in Seq(Tokens \cap Separators)
    BY <1>4, SelectedType
  <2>2. Tokens \cap Separators = Separators
    BY DEF Tokens, Separators
  <2>3. QED
    BY <2>1, <2>2
<1>6. Whole(c, Len(taken), z, written[c], gone[c]) /\ Took(c, taken)
      /\ (gone[c] = "rst" => wire[c] = <<>>)
  BY <1>2, <1>3, <1>5 DEF Arriving, Stream
<1>7. PICK msgs \in Seq(Msgs) : /\ msgs = Waiting(c) /\ Len(msgs) = Len(z) /\ Len(z) \in Nat
                                /\ \A i \in 1 .. Len(z) : msgs[i] = Sends[c][Len(taken) + i]
  <2>1. DOMAIN z = 1 .. Len(z) /\ Len(z) \in Nat /\ \A i \in 1 .. Len(z) : z[i] \in Separators
    BY LenProperties
  <2>2. Waiting(c) = [i \in 1 .. Len(z) |-> z[i][1]]
    BY <1>5, <2>1 DEF Waiting, Separators
  <2>3. \A i \in 1 .. Len(z) : z[i][1] \in Msgs /\ z[i][1] = Sends[c][Len(taken) + i]
    BY <2>1, <1>6 DEF Whole, Separators
  <2>4. Waiting(c) \in Seq(Msgs) /\ Len(Waiting(c)) = Len(z)
    BY <2>1, <2>2, <2>3
  <2>5. \A i \in 1 .. Len(z) : Waiting(c)[i] = Sends[c][Len(taken) + i]
    BY <2>2, <2>3
  <2>6. QED
    BY <2>1, <2>4, <2>5
<1>8. gone[c] = "rst" => Len(z) = 0
  BY <1>5, <1>6, SelectedEmpty
<1>9. PICK all \in Seq(Msgs) : all = taken \o msgs /\ all = Queued(c) \o InHand(c) \o Waiting(c)
  <2>1. taken \o msgs \in Seq(Msgs)
    BY <1>3, <1>7, ConcatProperties
  <2>2. Queued(c) \o InHand(c) \o Waiting(c) = taken \o msgs
    BY <1>3, <1>7, Zenon DEF Taken
  <2>3. QED
    BY <2>1, <2>2, Zenon
<1>10. /\ Len(all) = Len(taken) + Len(z)
       /\ \A i \in 1 .. Len(taken) : all[i] = taken[i]
       /\ \A i \in Len(taken) + 1 .. Len(taken) + Len(z) : all[i] = msgs[i - Len(taken)]
  <2>1. taken \in Seq(Msgs) /\ msgs \in Seq(Msgs) /\ Len(msgs) = Len(z)
    BY <1>3, <1>7
  <2>2. /\ Len(taken \o msgs) = Len(taken) + Len(msgs)
        /\ \A i \in 1 .. Len(taken) : (taken \o msgs)[i] = taken[i]
        /\ \A i \in Len(taken) + 1 .. Len(taken) + Len(msgs) : (taken \o msgs)[i] = msgs[i - Len(taken)]
    <3>1. Len(taken) \in Nat /\ Len(msgs) \in Nat
      BY <2>1, LenProperties
    <3>2. /\ Len(taken \o msgs) = Len(taken) + Len(msgs)
          /\ \A i \in 1 .. Len(taken) + Len(msgs) :
                (taken \o msgs)[i] = IF i <= Len(taken) THEN taken[i] ELSE msgs[i - Len(taken)]
      BY ONLY <2>1, ConcatProperties, Zenon
    <3>3. QED
      BY ONLY <3>1, <3>2
  <2>3. QED
    BY <1>9, <2>1, <2>2, Zenon
<1>11. Len(all) \in Nat /\ Len(all) <= written[c] /\ (gone[c] # "rst" => Len(all) = written[c])
  BY <1>3, <1>4, <1>6, <1>7, <1>8, <1>10 DEF Whole
<1>12. \A i \in 1 .. Len(all) : all[i] = Sends[c][i]
  <2>1. TAKE i \in 1 .. Len(all)
  <2>2. CASE i <= Len(taken)
    BY <2>2, <1>3, <1>6, <1>10 DEF Took
  <2>3. CASE i > Len(taken)
    <3>1. i - Len(taken) \in 1 .. Len(z) /\ Len(taken) + (i - Len(taken)) = i
          /\ i \in Len(taken) + 1 .. Len(taken) + Len(z)
      BY <2>3, <1>3, <1>7, <1>10
    <3>2. QED
      BY <3>1, <1>7, <1>10
  <2>4. QED
    BY <2>2, <2>3, <1>3
<1>13. IsPrefix(all, SubSeq(Sends[c], 1, written[c]))
  <2>1. Sends[c] \in Seq(Msgs) /\ written[c] <= Len(Sends[c]) /\ Len(Sends[c]) \in Nat
    BY <1>6, SendsType, LenProperties DEF Whole
  <2>2. PICK s \in Seq(Msgs) : /\ s = SubSeq(Sends[c], 1, written[c]) /\ Len(s) = written[c]
                               /\ \A i \in 1 .. written[c] : s[i] = Sends[c][i]
    <3>1. /\ SubSeq(Sends[c], 1, written[c]) \in Seq(Msgs)
          /\ Len(SubSeq(Sends[c], 1, written[c])) = written[c]
          /\ \A i \in 1 .. written[c] : SubSeq(Sends[c], 1, written[c])[i] = Sends[c][i]
      BY ONLY <2>1, <1>4
    <3>2. QED
      BY <3>1, Zenon
  <2>3. Len(all) <= Len(s)
    BY <1>11, <2>2
  <2>4. SubSeq(all, 1, Len(all)) = SubSeq(s, 1, Len(all))
    BY <1>4, <1>11, <1>12, <2>2, <2>3
  <2>5. IsPrefix(all, s)
    BY <2>3, <2>4 DEF IsPrefix
  <2>6. QED
    BY <2>2, <2>5, Zenon
<1>14. QED
  BY <1>9, <1>11, <1>13, Zenon

(***************************************************************************)
(* However rounds, connects, disconnects and writes of several clients     *)
(* mix, the messages of a client arrive whole, once and in order, and none *)
(* that it finished is lost unless its connection broke.                   *)
(***************************************************************************)
THEOREM MessagesArriveWhole == Spec => []WholeMessagesInOrder
<1>1. Init => Serving /\ Arrivals
  BY TypeInit, ArrivalsInit DEF Serving, QueueInv, LoopInv, TypeOK
<1>2. (Serving /\ Arrivals) /\ [Next]_vars => (Serving /\ Arrivals)'
  BY QueueStep, LoopStep, ArrivalsStep DEF Serving
<1>3. Serving /\ Arrivals => WholeMessagesInOrder
  BY ArrivedWhole
<1>4. QED
  BY <1>1, <1>2, <1>3, PTL DEF Spec

-----------------------------------------------------------------------------
(***************************************************************************)
(* Outside its critical section, from the read of a separator to the push, *)
(* the server thread is in no call, and its last one succeeded. A consumer *)
(* that is in a call carries no message into it.                           *)
(***************************************************************************)
Entered ==
  /\ ec[server] = "success"
  /\ spc \notin {"create", "terminated"} => pc[server] = "idle"
  /\ \A t \in Consumers : pc[t] # "idle" => call[t].item = NoMsg

\* So it is in the beginning.
LEMMA EnteredInit == Init => Entered
BY ServAssumption DEF Init, Queue!Init, Entered, Threads

\* Consumers call, run, and are woken.
LEMMA EnteredCalls ==
  ASSUME QueueInv, Entered, NEW t \in Consumers, Call(t) \/ Run(t) \/ Deadline(t) \/ Wakeup(t)
  PROVE  Entered'
<1>1. t # server /\ t \in Threads /\ server \in Threads /\ Consumers \subseteq Threads
  BY ServAssumption DEF Threads
<1>2. /\ call \in [Threads -> Outcome] /\ (pc[t] # "idle" => call[t].op \in DeqOps)
      /\ pc \in [Threads -> {"idle", "ready", "waiting", "expired"}] /\ ec \in [Threads -> Codes]
      /\ pc[server] \in {"idle", "ready"}
  BY DEF QueueInv, TypeQueue, Callers
<1>3. spc' = spc
  BY DEF Call, Run, Deadline, Wakeup, UnchangedLoop, loopVars
<1>4. ASSUME ec'[server] = ec[server], pc'[server] = pc[server],
             \A u \in Consumers : u # t => call'[u] = call[u] /\ (pc'[u] # "idle" => pc[u] # "idle"),
             pc'[t] # "idle" => call'[t].item = NoMsg
      PROVE  Entered'
  BY <1>3, <1>4 DEF Entered
<1>5. CASE \E op \in DeqOps : Queue!Enter(t, op, NoMsg)
  <2>1. PICK op \in DeqOps : Queue!Enter(t, op, NoMsg)
    BY <1>5
  <2>2. /\ pc' = [pc EXCEPT ![t] = "ready"]
        /\ call' = [call EXCEPT ![t] = [op |-> op, item |-> NoMsg]]
        /\ ec' = [ec EXCEPT ![t] = "success"]
    BY <2>1 DEF Queue!Enter
  <2>3. QED
    BY <1>1, <1>2, <1>4, <2>2
<1>6. CASE \E disable \in BOOLEAN : Queue!disable_deq(t, disable)
  <2>1. /\ pc' = [u \in Threads |-> IF pc[u] = "waiting" THEN "ready" ELSE pc[u]]
        /\ UNCHANGED <<call, ec>>
    BY <1>6 DEF Queue!disable_deq, Queue!CallsControl, Queue!Notified
  <2>2. QED
    BY <1>1, <1>2, <1>4, <2>1 DEF Entered
<1>7. CASE Deadline(t) \/ Wakeup(t) \/ Queue!Block(t) \/ Queue!Aborted(t) \/ Queue!TimedOut(t)
  <2>1. /\ UNCHANGED call /\ \E v : pc' = [pc EXCEPT ![t] = v]
        /\ \E v : ec' = [ec EXCEPT ![t] = v]
        /\ pc[t] # "idle"
    <3>1. CASE Deadline(t) \/ Wakeup(t) \/ Queue!Block(t)
      <4>1. UNCHANGED <<call, ec>> /\ pc[t] # "idle" /\ \E v : pc' = [pc EXCEPT ![t] = v]
        BY <3>1 DEF Deadline, Wakeup, Queue!Deadline, Queue!SpuriousWakeup, Queue!Block
      <4>2. ec' = [ec EXCEPT ![t] = ec[t]]
        BY <4>1, <1>2
      <4>3. QED
        BY <4>1, <4>2, Zenon
    <3>2. CASE Queue!Aborted(t) \/ Queue!TimedOut(t)
      <4>1. PICK c : Queue!Fail(t, c) /\ pc[t] # "idle"
        BY <3>2 DEF Queue!Aborted, Queue!TimedOut, Queue!Contends
      <4>2. QED
        BY <4>1, Zenon DEF Queue!Fail
    <3>3. QED
      BY <1>7, <3>1, <3>2
  <2>2. QED
    BY <1>1, <1>2, <1>4, <2>1 DEF Entered
<1>8. CASE Queue!WaitDeq(t) \/ Queue!Pop(t)
  <2>1. /\ pc' = [u \in Threads |-> IF u = t THEN "idle" ELSE IF pc[u] = "waiting" THEN "ready" ELSE pc[u]]
        /\ ec' = [ec EXCEPT ![t] = "success"]
    BY <1>8 DEF Queue!WaitDeq, Queue!Pop, Queue!Succeed, Queue!Notified
  <2>2. \A u \in Consumers : u # t => call'[u] = call[u]
    BY <1>1, <1>2, <1>8 DEF Queue!WaitDeq, Queue!Pop
  <2>3. QED
    BY <1>1, <1>2, <1>4, <2>1, <2>2
<1>9. ~(Queue!Push(t) \/ Queue!WaitEnq(t))
  BY <1>2 DEF Queue!Push, Queue!WaitEnq, Queue!Contends, Queue!PushOps, Queue!WaitEnqOps,
    DeqOps, PopOps, WaitDeqOps
<1>10. QED
  BY <1>5, <1>6, <1>7, <1>8, <1>9 DEF Call, Run, Queue!Run

\* Every step of the system.
LEMMA EnteredStep ==
  ASSUME Serving, Entered, [Next]_vars
  PROVE  Entered'
<1>1. server \in Threads /\ Consumers \subseteq Threads /\ \A t \in Consumers : t # server
  BY ServAssumption DEF Threads
<1>2. /\ call \in [Threads -> Outcome] /\ ec \in [Threads -> Codes]
      /\ pc \in [Threads -> {"idle", "ready", "waiting", "expired"}]
  BY DEF Serving, QueueInv, TypeQueue
<1>3. CASE \E t \in Consumers : Call(t) \/ Run(t) \/ Deadline(t) \/ Wakeup(t)
  BY <1>3, EnteredCalls DEF Serving
<1>4. CASE ReadByte
  <2>1. /\ \/ spc' = "create" /\ \E m : call' = [call EXCEPT ![server] = m]
              /\ pc' = [pc EXCEPT ![server] = "ready"]
           \/ UNCHANGED <<call, pc, spc>>
        /\ ec' = ec
    BY <1>4, Zenon DEF ReadByte
  <2>2. QED
    BY <1>1, <1>2, <2>1 DEF Entered
<1>5. CASE Queue!Push(server) /\ spc' = "read"
  <2>1. /\ pc' = [u \in Threads |-> IF u = server THEN "idle" ELSE IF pc[u] = "waiting" THEN "ready" ELSE pc[u]]
        /\ ec' = [ec EXCEPT ![server] = "success"] /\ UNCHANGED call
    BY <1>5 DEF Queue!Push, Queue!Succeed, Queue!Notified
  <2>2. QED
    BY <1>1, <1>2, <1>5, <2>1 DEF Entered
<1>6. CASE Terminate
  BY <1>6 DEF Terminate, queueVars, Entered
<1>7. CASE UNCHANGED queueVars /\ (spc' \in {"create", "terminated"} \/ spc \notin {"create", "terminated"})
  BY <1>7 DEF queueVars, Entered
<1>8. CASE UNCHANGED vars
  BY <1>8 DEF vars, queueVars, loopVars, Entered
<1>9. CASE \/ Start \/ LoopHead \/ Select \/ Accept \/ AcceptFails \/ NextClient
           \/ EndOfRound \/ ReadNothing \/ Interrupted \/ Destroy \/ Join
           \/ \E c \in Clients : Connect(c) \/ Write(c) \/ Leave(c)
  <2>1. \/ Terminate
        \/ /\ UNCHANGED queueVars
           /\ \/ spc \in {"start", "head", "select", "accept", "serve", "read", "ended"}
              \/ spc' = spc
    BY <1>9 DEF Start, LoopHead, Select, Accept, AcceptFails, NextClient, EndOfRound, ReadNothing,
      Interrupted, Destroy, Join, Connect, Write, Leave, loopVars
  <2>2. CASE UNCHANGED queueVars /\ spc' = spc
    BY <2>2 DEF queueVars, Entered
  <2>3. QED
    BY <1>6, <1>7, <2>1, <2>2
<1>10. QED
  BY <1>3, <1>4, <1>5, <1>6, <1>8, <1>9, NextCases DEF createItem

(***************************************************************************)
(* What the separator completes is the next message of its client, so it   *)
(* was not pushed before and no other thread carries it: Sends[c] has it   *)
(* once, and what was read of c comes before it.                           *)
(***************************************************************************)
LEMMA NewMessage ==
  ASSUME Serving, Arrivals, Entered, ReadByte, spc' = "create"
  PROVE  /\ call' = [call EXCEPT ![server] = [op |-> "enq", item |-> call'[server].item]]
         /\ call'[server].item \in Msgs /\ Queue!Fresh(call'[server].item)
<1>1. spc = "read" /\ client_fd \in Clients /\ wire[client_fd] # <<>> /\ Running
  BY DEF ReadByte, Serving, LoopInv, Place, TypeLoop, Running
<1>2. PICK c \in Clients : c = client_fd
  BY <1>1
<1> DEFINE n == Len(Taken(c))
<1>3. /\ wire[c] \in Seq(Tokens) /\ buf[c] \in Seq(Tokens) /\ wire[c] # <<>>
      /\ written[c] \in Nat /\ call \in [Threads -> Outcome] /\ server \in Threads
      /\ sent \in Seq(Msgs)
  BY <1>1, <1>2 DEF Serving, LoopInv, QueueInv, TypeClients, TypeQueue, Threads
<1>4. /\ Queued(c) \in Seq(Msgs) /\ Taken(c) = Queued(c) /\ n \in Nat
  BY <1>1, TakenParts, Zenon
<1>5. Stream(c, n, wire[c], buf[c], written[c], gone[c]) /\ Took(c, Taken(c))
  BY <1>1 DEF Arrivals, Arriving
<1>6. PICK x \in Tokens : x = Head(wire[c])
  BY <1>3, HeadTailProperties
<1>7. PICK bytes \in Seq(Tokens) : bytes = AddToken(buf[c], x) /\ Last(bytes) = x /\ bytes[1] \in Tokens
  BY <1>3, AddTokenType, Zenon
<1>8. /\ x[2] = "sep"
      /\ call' = [call EXCEPT ![server] = [op |-> "enq", item |-> deser(bytes)]]
  <2>1. \/ /\ x[2] = "sep" /\ spc' = "create"
           /\ call' = [call EXCEPT ![server] = [op |-> "enq", item |-> deser(bytes)]]
        \/ spc' = spc
    BY <1>2, <1>6, <1>7, Zenon DEF ReadByte
  <2>2. QED
    BY <2>1, <1>1
<1>9. /\ n + 1 <= written[c] /\ written[c] <= Len(Sends[c])
      /\ bytes[1][1] = Sends[c][n + 1]
  <2>1. x \in Separators
    BY <1>6, <1>8 DEF Tokens, Separators
  <2>2. /\ n + 1 <= written[c] /\ written[c] <= Len(Sends[c])
        /\ AddToken(buf[c], Head(wire[c]))[1][1] = Sends[c][n + 1]
    <3>1. Head(wire[c]) \in Separators
      BY <2>1, <1>6
    <3>2. QED
      BY <3>1, <1>3, <1>4, <1>5, TakeSep
  <2>3. QED
    BY <2>2, <1>6, <1>7
<1>10. PICK item \in Msgs : item = deser(bytes) /\ item = Sends[c][n + 1]
  BY <1>7, <1>9 DEF deser, Tokens
<1>11. call'[server] = [op |-> "enq", item |-> item]
  BY <1>3, <1>8, <1>10
<1>12. \A i \in DOMAIN sent : sent[i] # item
  <2>1. SUFFICES ASSUME item \in Range(sent) PROVE FALSE
    BY DEF Range
  <2>2. Sends[c] \in Seq(Msgs) /\ IsInjective(Sends[c])
    BY SendsType
  <2>3. /\ DOMAIN Sends[c] = 1 .. Len(Sends[c]) /\ Len(Sends[c]) \in Nat
    BY <2>2, LenProperties
  <2>4. n + 1 \in DOMAIN Sends[c]
    BY <2>3, <1>3, <1>4, <1>9
  <2>5. item \in Range(Sends[c])
    BY <2>4, <1>10 DEF Range
  <2>6. item \in Range(Queued(c))
    <3>1. Range(Selected(sent, Range(Sends[c]))) = Range(sent) \cap Range(Sends[c])
      BY <1>3, SelectedRange
    <3>2. QED
      BY <2>1, <2>5, <3>1 DEF Queued
  <2>7. DOMAIN Queued(c) = 1 .. n
    BY <1>4, LenProperties
  <2>8. PICK i \in 1 .. n : Queued(c)[i] = item
    BY <2>6, <2>7 DEF Range
  <2>9. Sends[c][i] = item
    BY <1>4, <1>5, <2>8 DEF Took
  <2>10. i \in DOMAIN Sends[c] /\ i # n + 1
    BY <1>3, <1>4, <1>9, <2>3, <2>8
  <2>11. QED
    BY <2>2, <2>4, <2>9, <2>10, <1>10 DEF IsInjective
<1>13. \A t \in Threads : pc[t] \in {"ready", "waiting", "expired"} => call[t].item # item
  BY <1>1, ServAssumption DEF Entered, Threads
<1>14. Queue!Fresh(item)
  BY <1>12, <1>13, Zenon DEF Queue!Fresh, Queue!Inside
<1>15. item = call'[server].item
  BY <1>11
<1>16. QED
  BY <1>8, <1>10, <1>14, <1>15, Zenon

\* Where the queue is unchanged here it is unchanged there.
LEMMA Stutters == UNCHANGED queueVars => UNCHANGED Queue!vars
BY DEF queueVars, Queue!vars, Queue!queueVars, Queue!historyVars

\* The read of a separator is the call of enq.
LEMMA ReadEnters ==
  ASSUME Serving, Arrivals, Entered, ReadByte
  PROVE  \/ \E x \in Msgs : Queue!Enter(server, "enq", x)
         \/ UNCHANGED queueVars
<1>1. UNCHANGED <<q_, deq_enabled_, late, ec, sent, received>>
  BY Zenon DEF ReadByte
<1>2. /\ server \in Threads /\ ec \in [Threads -> Codes] /\ ec[server] = "success"
      /\ spc = "read" /\ pc[server] = "idle"
  BY DEF Serving, QueueInv, TypeQueue, Entered, ReadByte, Threads
<1>3. CASE spc' = "create"
  <2>1. pc' = [pc EXCEPT ![server] = "ready"]
    <3>1. pc' = [pc EXCEPT ![server] = "ready"] \/ spc' = spc
      BY Zenon DEF ReadByte
    <3>2. QED
      BY <3>1, <1>2, <1>3
  <2>2. PICK x : /\ x = call'[server].item /\ x \in Msgs /\ Queue!Fresh(x)
                 /\ call' = [call EXCEPT ![server] = [op |-> "enq", item |-> x]]
    BY <1>3, NewMessage, Zenon
  <2>3. ec' = [ec EXCEPT ![server] = "success"]
    BY <1>1, <1>2
  <2>4. "enq" \in [t \in Threads |-> IF t = server THEN {"enq"} ELSE Calls[t]][server]
              \cap Queue!BlockingOps
    BY <1>2 DEF Queue!BlockingOps, Queue!EnqOps, Queue!PushOps
  <2>5. UNCHANGED <<Queue!queueVars, late, [t \in Threads |-> 0], Queue!historyVars>>
    BY <1>1 DEF Queue!queueVars, Queue!historyVars
  <2>6. Queue!Enter(server, "enq", x)
    <3>1. "enq" \in Queue!PushOps
      BY DEF Queue!PushOps
    <3>2. QED
      BY <1>2, <2>1, <2>2, <2>3, <2>4, <2>5, <3>1, Zenon DEF Queue!Enter
  <2>7. QED
    BY <2>2, <2>6
<1>4. CASE spc' # "create"
  <2>1. UNCHANGED <<call, pc>> \/ spc' = "create"
    BY Zenon DEF ReadByte
  <2>2. QED
    BY <1>1, <1>4, <2>1 DEF queueVars
<1>5. QED
  BY <1>3, <1>4

\* Every step here is one step of simple_queue, or none.
LEMMA QueueSteps ==
  ASSUME Serving, Arrivals, Entered, [Next]_vars
  PROVE  [Queue!Next]_Queue!vars
<1>1. server \in Threads /\ Consumers \subseteq Threads
  BY DEF Threads
<1>2. CASE UNCHANGED queueVars
  BY <1>2, Stutters
<1> "enq" \in Queue!BlockingOps /\ DeqOps \subseteq Queue!BlockingOps
  BY DEF Queue!BlockingOps, Queue!EnqOps, Queue!PushOps, Queue!DeqOps, Queue!PopOps, Queue!WaitDeqOps,
    DeqOps, PopOps, WaitDeqOps
<1>3. CASE \E t \in Threads : Queue!Run(t) \/ Queue!Deadline(t) \/ Queue!SpuriousWakeup(t)
  BY <1>3, Zenon DEF Queue!Next
<1>4. CASE \E t \in Threads : \E op \in Queue!BlockingOps, x \in Msgs \cup {NoMsg} : Queue!Enter(t, op, x)
  BY <1>4, Zenon DEF Queue!Next
<1>5. CASE \E t \in Consumers : Call(t)
  <2>1. PICK t \in Consumers : \/ \E op \in DeqOps : Queue!Enter(t, op, NoMsg)
                              \/ \E disable \in BOOLEAN : Queue!disable_deq(t, disable)
    BY <1>5 DEF Call
  <2>2. CASE \E op \in DeqOps : Queue!Enter(t, op, NoMsg)
    BY <1>1, <1>4, <2>2, Zenon
  <2>3. CASE \E disable \in BOOLEAN : Queue!disable_deq(t, disable)
    BY <1>1, <2>3, Zenon DEF Queue!Next
  <2>4. QED
    BY <2>1, <2>2, <2>3
<1>6. CASE \E t \in Consumers : Run(t) \/ Deadline(t) \/ Wakeup(t)
  BY <1>1, <1>3, <1>6, Zenon DEF Run, Deadline, Wakeup
<1>7. CASE ReadByte
  BY <1>1, <1>2, <1>4, <1>7, ReadEnters, Zenon
<1>8. CASE createItem
  <2>1. Queue!Push(server) \/ UNCHANGED queueVars
    BY <1>8, Zenon DEF createItem, Terminate
  <2>2. QED
    BY <1>1, <1>2, <1>3, <2>1, Zenon DEF Queue!Run
<1>9. CASE \/ Start \/ LoopHead \/ Select \/ Accept \/ AcceptFails \/ NextClient
           \/ EndOfRound \/ ReadNothing \/ Interrupted \/ Destroy \/ Join
           \/ \E c \in Clients : Connect(c) \/ Write(c) \/ Leave(c)
  <2>1. UNCHANGED queueVars
    BY <1>9, Zenon DEF Start, Terminate, LoopHead, Select, Accept, AcceptFails, NextClient, EndOfRound,
      ReadNothing, Interrupted, Destroy, Join, Connect, Write, Leave
  <2>2. QED
    BY <1>2, <2>1
<1>10. CASE UNCHANGED vars
  BY <1>2, <1>10 DEF vars
<1>11. QED
  BY <1>5, <1>6, <1>7, <1>8, <1>9, <1>10, NextCases

(***************************************************************************)
(* The queue of the server is a simple_queue: the select loop never pushes *)
(* a message twice, never calls enq while a call of its own is open, and   *)
(* the consumers, who share the mutex and the condition variable with it,  *)
(* can tell no difference. What SimpleQueueProofs shows of a queue holds   *)
(* of this one.                                                            *)
(***************************************************************************)
THEOREM QueueImplemented == Spec => Queue!Spec
<1>1. Init => Queue!Init
  BY DEF Init
<1>2. Init => Serving /\ Arrivals /\ Entered
  BY TypeInit, ArrivalsInit, EnteredInit DEF Serving, QueueInv, LoopInv, TypeOK
<1>3. (Serving /\ Arrivals /\ Entered) /\ [Next]_vars => (Serving /\ Arrivals /\ Entered)'
  BY QueueStep, LoopStep, ArrivalsStep, EnteredStep DEF Serving
<1>4. (Serving /\ Arrivals /\ Entered) /\ [Next]_vars => [Queue!Next]_Queue!vars
  BY QueueSteps
<1>5. QED
  BY <1>1, <1>2, <1>3, <1>4, PTL DEF Spec, Queue!Spec

-----------------------------------------------------------------------------
(***************************************************************************)
(* The messages queued are those the consumers took, in the order they     *)
(* took them, and those still in the container.                            *)
(***************************************************************************)
InOrder == sent = received \o q_

\* A push and a take both keep the order.
LEMMA InOrderStep ==
  ASSUME Serving, InOrder, [Next]_vars
  PROVE  InOrder'
<1>1. /\ q_ \in Seq(Msgs) /\ received \in Seq(Msgs) /\ sent = received \o q_
      /\ server \in Threads
  BY DEF Serving, QueueInv, TypeQueue, InOrder, Threads
<1>2. CASE UNCHANGED <<q_, sent, received>>
  BY <1>2, Zenon DEF InOrder
<1>3. ASSUME NEW t \in Threads, Queue!Push(t), call[t].item \in Msgs PROVE InOrder'
  <2>1. PICK x \in Msgs : x = call[t].item
    BY <1>3
  <2>2. sent' = Append(received \o q_, x) /\ received' = received /\ q_' = Append(q_, x)
    BY <1>1, <1>3, <2>1, Zenon DEF Queue!Push
  <2>3. AppendOf(ConcatOf(received, q_), x) = ConcatOf(received, AppendOf(q_, x))
    BY <1>1, PushJoined
  <2>4. QED
    BY <2>2, <2>3, Zenon DEF InOrder, AppendOf, ConcatOf
<1>4. ASSUME NEW t \in Threads, Queue!Pop(t), ~Queue!Empty PROVE InOrder'
  <2>1. /\ q_ # <<>> /\ sent' = sent
        /\ received' = Append(received, Head(q_)) /\ q_' = Tail(q_)
    BY <1>4, Zenon DEF Queue!Pop, Queue!Empty
  <2>2. QED
    BY <1>1, <2>1, MoveHead, Zenon DEF InOrder
<1>5. CASE createItem
  <2>1. \/ Queue!Push(server)
        \/ UNCHANGED <<q_, sent, received>>
    BY <1>5, Zenon DEF createItem, Terminate, queueVars
  <2>2. Queue!Push(server) => call[server].item \in Msgs
    BY DEF Queue!Push, Queue!PushOps, Serving, QueueInv, Callers
  <2>3. QED
    BY <1>1, <1>2, <1>3, <2>1, <2>2
<1>6. CASE \E t \in Consumers : Call(t) \/ Run(t) \/ Deadline(t) \/ Wakeup(t)
  <2>1. PICK t \in Consumers : Call(t) \/ Run(t) \/ Deadline(t) \/ Wakeup(t)
    BY <1>6
  <2>2. t \in Threads
    BY DEF Threads
  <2>3. CASE Queue!Pop(t)
    <3>1. ~Queue!Empty
      BY <2>3 DEF Queue!Pop, Queue!DeqReady
    <3>2. QED
      BY <1>4, <2>2, <2>3, <3>1
  <2>4. CASE Queue!Push(t)
    <3>1. pc[t] # "idle" /\ call[t].op \in Queue!PushOps
      BY <2>4 DEF Queue!Push, Queue!Contends
    <3>2. QED
      BY <3>1 DEF Serving, QueueInv, Callers, Queue!PushOps, DeqOps, PopOps, WaitDeqOps
  <2>5. ~Queue!Pop(t) /\ ~Queue!Push(t) => UNCHANGED <<q_, sent, received>>
    <3>1. CASE Call(t)
      BY <3>1, Zenon DEF Call, Queue!Enter, Queue!disable_deq, Queue!CallsControl,
        Queue!queueVars, Queue!historyVars
    <3>2. CASE Run(t)
      BY <3>2, Zenon DEF Run, Queue!Run, Queue!Block, Queue!WaitEnq, Queue!WaitDeq,
        Queue!Aborted, Queue!TimedOut, Queue!Fail, Queue!queueVars, Queue!historyVars
    <3>3. CASE Deadline(t) \/ Wakeup(t)
      BY <3>3, Zenon DEF Deadline, Wakeup, Queue!Deadline, Queue!SpuriousWakeup,
        Queue!queueVars, Queue!historyVars
    <3>4. QED
      BY <2>1, <3>1, <3>2, <3>3
  <2>6. QED
    BY <1>2, <2>3, <2>4, <2>5
<1>7. CASE \/ Start \/ LoopHead \/ Select \/ Accept \/ AcceptFails \/ NextClient
           \/ EndOfRound \/ ReadByte \/ ReadNothing \/ Interrupted \/ Destroy \/ Join
           \/ \E c \in Clients : Connect(c) \/ Write(c) \/ Leave(c)
  <2>1. UNCHANGED <<q_, sent, received>>
    BY <1>7, Zenon DEF Start, Terminate, LoopHead, Select, Accept, AcceptFails, NextClient, EndOfRound,
      ReadByte, ReadNothing, Interrupted, Destroy, Join, Connect, Write, Leave, queueVars
  <2>2. QED
    BY <1>2, <2>1
<1>8. CASE UNCHANGED vars
  BY <1>2, <1>8 DEF vars, queueVars
<1>9. QED
  BY <1>5, <1>6, <1>7, <1>8, NextCases

(***************************************************************************)
(* From the client to the consumer: what consumers have taken of the       *)
(* messages of a client is the first part of what that client sends, with  *)
(* none changed, repeated or left out.                                     *)
(***************************************************************************)
ReceivedInOrder ==
  Running => \A c \in Clients : IsPrefix(Selected(received, Range(Sends[c])), Sends[c])

\* Of each client, the consumers took the first of the messages it wrote.
TakenFirst ==
  Running => \A c \in Clients : \E r \in Seq(Msgs) :
    /\ r = Selected(received, Range(Sends[c]))
    /\ Len(r) <= written[c] /\ written[c] <= Len(Sends[c])
    /\ \A i \in 1 .. Len(r) : r[i] = Sends[c][i]

\* What was taken is the first part of what was read.
LEMMA FirstOfAll ==
  ASSUME Serving, Arrivals, InOrder
  PROVE  TakenFirst
<1>1. SUFFICES ASSUME Running, NEW c \in Clients
               PROVE  \E r \in Seq(Msgs) :
                        /\ r = Selected(received, Range(Sends[c]))
                        /\ Len(r) <= written[c] /\ written[c] <= Len(Sends[c])
                        /\ \A i \in 1 .. Len(r) : r[i] = Sends[c][i]
  BY DEF TakenFirst
<1>2. Arriving(c)
  BY <1>1 DEF Arrivals
<1>3. q_ \in Seq(Msgs) /\ received \in Seq(Msgs) /\ sent = received \o q_
  BY DEF Serving, QueueInv, TypeQueue, InOrder
<1>4. PICK r \in Seq(Msgs) : r = Selected(received, Range(Sends[c]))
  <2>1. Selected(received, Range(Sends[c])) \in Seq(Msgs \cap Range(Sends[c]))
    BY <1>3, SelectedType, Zenon
  <2>2. QED
    BY <2>1
<1>5. PICK q \in Seq(Msgs) : q = Selected(q_, Range(Sends[c]))
  <2>1. Selected(q_, Range(Sends[c])) \in Seq(Msgs \cap Range(Sends[c]))
    BY <1>3, SelectedType, Zenon
  <2>2. QED
    BY <2>1
<1>6. Queued(c) = r \o q
  <2>1. Selected(received \o q_, Range(Sends[c])) = r \o q
    <3>1. Selected(received \o q_, Range(Sends[c]))
            = Selected(received, Range(Sends[c])) \o Selected(q_, Range(Sends[c]))
      <4>1. received \in Seq(Msgs) /\ q_ \in Seq(Msgs)
        BY <1>3
      <4>2. QED
        BY ONLY <4>1, SelectedConcat, SMTT(60)
    <3>2. QED
      BY <3>1, <1>4, <1>5, Zenon
  <2>2. QED
    BY <1>3, <2>1, Zenon DEF Queued
<1>7. PICK taken \in Seq(Msgs) : taken = Taken(c) /\ Len(taken) \in Nat
  BY TakenParts
<1>8. \E h \in Seq(Msgs) : taken = (r \o q) \o h
  <2>1. CASE ~(spc = "create" /\ client_fd = c)
    <3>1. InHand(c) = <<>> /\ <<>> \in Seq(Msgs)
      BY <2>1 DEF InHand
    <3>2. QED
      BY <3>1, <1>6, <1>7, Zenon DEF Taken
  <2>2. CASE spc = "create" /\ client_fd = c
    <3>1. InHand(c) = <<call[server].item>> /\ call[server].item \in Msgs
      BY <2>2, TakenParts DEF InHand
    <3>2. <<call[server].item>> \in Seq(Msgs)
      BY <3>1, Single, Zenon
    <3>3. QED
      BY <3>1, <3>2, <1>6, <1>7, Zenon DEF Taken
  <2>3. QED
    BY <2>1, <2>2
<1>9. PICK h \in Seq(Msgs) : taken = (r \o q) \o h
  BY <1>8
<1>10. /\ Len(r) <= Len(taken) /\ Len(r) \in Nat
       /\ \A i \in 1 .. Len(r) : taken[i] = r[i]
  <2>1. PICK s \in Seq(Msgs) : s = r \o q
    BY ConcatProperties
  <2>2. /\ Len(r) \in Nat /\ Len(q) \in Nat /\ Len(h) \in Nat /\ Len(s) = Len(r) + Len(q)
        /\ \A i \in 1 .. Len(r) : s[i] = r[i]
    BY <2>1, ConcatProperties, LenProperties
  <2>3. /\ Len(taken) = Len(s) + Len(h)
        /\ \A i \in 1 .. Len(s) : taken[i] = s[i]
    BY <2>1, <2>2, <1>9, ConcatProperties
  <2>4. QED
    BY <2>2, <2>3
<1>11. Sends[c] \in Seq(Msgs) /\ Len(Sends[c]) \in Nat
  BY SendsType, LenProperties
<1>12. /\ Len(taken) <= written[c] /\ written[c] <= Len(Sends[c]) /\ written[c] \in Nat
       /\ \A i \in 1 .. Len(taken) : taken[i] = Sends[c][i]
  <2>1. Whole(c, Len(taken), Selected(wire[c], Separators), written[c], gone[c]) /\ Took(c, taken)
    BY <1>2, <1>7 DEF Arriving, Stream
  <2>2. written[c] \in Nat
    BY DEF Serving, LoopInv, TypeClients
  <2>3. QED
    BY <1>7, <1>11, <2>1, <2>2 DEF Whole, Took
<1>13. Len(r) <= written[c] /\ \A i \in 1 .. Len(r) : r[i] = Sends[c][i]
  BY <1>7, <1>10, <1>12
<1>14. QED
  BY <1>4, <1>12, <1>13, Zenon

\* So it is the first part of what the client sends.
LEMMA FirstIsPrefix == TakenFirst /\ TypeClients => ReceivedInOrder
<1>1. SUFFICES ASSUME TakenFirst, TypeClients, Running, NEW c \in Clients
               PROVE  IsPrefix(Selected(received, Range(Sends[c])), Sends[c])
  BY DEF ReceivedInOrder
<1>2. PICK r \in Seq(Msgs) :
         /\ r = Selected(received, Range(Sends[c]))
         /\ Len(r) <= written[c] /\ written[c] <= Len(Sends[c])
         /\ \A i \in 1 .. Len(r) : r[i] = Sends[c][i]
  BY <1>1 DEF TakenFirst
<1>3. Sends[c] \in Seq(Msgs) /\ Len(Sends[c]) \in Nat /\ Len(r) \in Nat /\ written[c] \in Nat
  BY <1>1, SendsType, LenProperties DEF TypeClients
<1>4. Len(r) <= Len(Sends[c]) /\ SubSeq(r, 1, Len(r)) = SubSeq(Sends[c], 1, Len(r))
  BY <1>2, <1>3
<1>5. QED
  BY <1>2, <1>4, Zenon DEF IsPrefix

(***************************************************************************)
(* However clients and consumers interleave, messages reach the consumers  *)
(* in the order their client sent them.                                    *)
(***************************************************************************)
THEOREM ConsumersGetWhatWasSent == Spec => []ReceivedInOrder
<1>1. Init => Serving /\ Arrivals /\ InOrder
  <2>1. Init => InOrder
    BY DEF Init, Queue!Init, InOrder
  <2>2. QED
    BY <2>1, TypeInit, ArrivalsInit DEF Serving, QueueInv, LoopInv, TypeOK
<1>2. (Serving /\ Arrivals /\ InOrder) /\ [Next]_vars => (Serving /\ Arrivals /\ InOrder)'
  BY QueueStep, LoopStep, ArrivalsStep, InOrderStep DEF Serving
<1>3. Serving /\ Arrivals /\ InOrder => ReceivedInOrder
  BY FirstOfAll, FirstIsPrefix DEF Serving, LoopInv
<1>4. QED
  BY <1>1, <1>2, <1>3, PTL DEF Spec

-----------------------------------------------------------------------------
(***************************************************************************)
(* Each client as a channel of messages to the consumers, whichever of     *)
(* them takes a message: it accepts what the client has written to the     *)
(* end, and delivers what is taken from the queue.                         *)
(***************************************************************************)
Channel(c) == INSTANCE MessageChannel WITH
                Msgs <- Range(Sends[c]), accepted <- SubSeq(Sends[c], 1, written[c]),
                delivered <- Selected(received, Range(Sends[c]))

\* A separator written, and a message taken, are the only steps between the
\* client and the consumers.
LEMMA HistoriesMove ==
  ASSUME Serving, [Next]_vars
  PROVE  \/ UNCHANGED <<received, written>>
         \/ /\ UNCHANGED received
            /\ \E c \in Clients : /\ Running /\ written[c] < Len(Sends[c])
                                  /\ written' = [written EXCEPT ![c] = @ + 1]
         \/ /\ UNCHANGED written /\ Running'
            /\ \E m \in Msgs : received' = Append(received, m)
<1>1. q_ \in Seq(Msgs)
  BY DEF Serving, QueueInv, TypeQueue
<1>2. CASE \E t \in Consumers : Call(t) \/ Run(t) \/ Deadline(t) \/ Wakeup(t)
  <2>1. PICK t \in Consumers : Call(t) \/ Run(t) \/ Deadline(t) \/ Wakeup(t)
    BY <1>2
  <2>2. UNCHANGED written /\ (Running => Running')
    BY <2>1, Zenon DEF Call, Run, Deadline, Wakeup, UnchangedLoop, clientVars, loopVars, Running
  <2>3. CASE Queue!Pop(t)
    <3>1. Running
      BY <2>1, Zenon DEF Call, Run, Deadline, Wakeup
    <3>2. q_ # <<>> => Head(q_) \in Msgs
      BY <1>1, HeadTailProperties, EmptySeq
    <3>3. UNCHANGED received \/ (q_ # <<>> /\ received' = Append(received, Head(q_)))
      BY <2>3, Zenon DEF Queue!Pop, Queue!DeqReady, Queue!Empty
    <3>4. QED
      BY <2>2, <3>1, <3>2, <3>3
  <2>4. ~Queue!Pop(t) => UNCHANGED received
    <3>1. CASE Call(t)
      BY <3>1, Zenon DEF Call, Queue!Enter, Queue!disable_deq, Queue!CallsControl, Queue!historyVars
    <3>2. CASE Run(t)
      BY <3>2, Zenon DEF Run, Queue!Run, Queue!Block, Queue!Push, Queue!WaitEnq, Queue!WaitDeq,
        Queue!Aborted, Queue!TimedOut, Queue!Fail, Queue!historyVars
    <3>3. CASE Deadline(t) \/ Wakeup(t)
      BY <3>3, Zenon DEF Deadline, Wakeup, Queue!Deadline, Queue!SpuriousWakeup, Queue!historyVars
    <3>4. QED
      BY <2>1, <3>1, <3>2, <3>3
  <2>5. QED
    BY <2>2, <2>3, <2>4
<1>3. CASE createItem
  BY <1>3, Zenon DEF createItem, Terminate, Queue!Push, queueVars, clientVars
<1>4. CASE \E c \in Clients : Write(c)
  BY <1>4 DEF Write, queueVars
<1>5. CASE \/ Start \/ LoopHead \/ Select \/ Accept \/ AcceptFails \/ NextClient
           \/ EndOfRound \/ ReadByte \/ ReadNothing \/ Interrupted \/ Destroy \/ Join
           \/ \E c \in Clients : Connect(c) \/ Leave(c)
  BY <1>5, Zenon DEF Start, Terminate, LoopHead, Select, Accept, AcceptFails, NextClient, EndOfRound,
    ReadByte, ReadNothing, Interrupted, Destroy, Join, Connect, Leave, queueVars, clientVars
<1>6. CASE UNCHANGED vars
  BY <1>6 DEF vars, queueVars, clientVars
<1>7. QED
  BY <1>2, <1>3, <1>4, <1>5, <1>6, NextCases

\* Every step is a step of the channel of a client, or none.
LEMMA ChannelStep ==
  ASSUME Serving, Serving', TakenFirst', [Next]_vars, NEW c \in Clients
  PROVE  [Channel(c)!Next]_(Channel(c)!vars)
<1>1. /\ Sends[c] \in Seq(Msgs) /\ Len(Sends[c]) \in Nat
      /\ received \in Seq(Msgs) /\ written \in [Clients -> Nat] /\ written[c] \in Nat
  BY SendsType, LenProperties DEF Serving, QueueInv, TypeQueue, LoopInv, TypeClients
<1>2. CASE UNCHANGED <<received, written>>
  BY <1>2 DEF Channel!vars
<1>3. ASSUME UNCHANGED received, NEW d \in Clients, written[d] < Len(Sends[d]),
             written' = [written EXCEPT ![d] = @ + 1]
      PROVE  [Channel(c)!Next]_(Channel(c)!vars)
  <2>1. CASE d = c
    <3>1. written'[c] = written[c] + 1 /\ written[c] < Len(Sends[c])
      BY <1>1, <1>3, <2>1
    <3>2. PICK m \in Msgs : m = Sends[c][written[c] + 1]
      BY <1>1, <3>1, SendsType
    <3>3. m \in Range(Sends[c])
      BY <1>1, <3>1, <3>2 DEF Range
    <3>4. SubSeq(Sends[c], 1, written[c] + 1) = Append(SubSeq(Sends[c], 1, written[c]), m)
      BY <1>1, <3>1, <3>2, SubSeqMore, Zenon
    <3>5. Channel(c)!Accept
      BY <1>3, <3>1, <3>3, <3>4 DEF Channel!Accept
    <3>6. QED
      BY <3>5 DEF Channel!Next
  <2>2. CASE d # c
    <3>1. written'[c] = written[c]
      BY <1>1, <1>3, <2>2
    <3>2. QED
      BY <1>3, <3>1 DEF Channel!vars
  <2>3. QED
    BY <2>1, <2>2
<1>4. ASSUME UNCHANGED written, Running', NEW m \in Msgs, received' = Append(received, m)
      PROVE  [Channel(c)!Next]_(Channel(c)!vars)
  <2>1. PICK r \in Seq(Msgs) : r = Selected(received, Range(Sends[c]))
    <3>1. Selected(received, Range(Sends[c])) \in Seq(Msgs \cap Range(Sends[c]))
      BY <1>1, SelectedType, Zenon
    <3>2. QED
      BY <3>1
  <2>2. Selected(received', Range(Sends[c])) = IF m \in Range(Sends[c]) THEN Append(r, m) ELSE r
    <3>1. Selected(Append(received, m), Range(Sends[c]))
             = IF m \in Range(Sends[c]) THEN Append(Selected(received, Range(Sends[c])), m)
               ELSE Selected(received, Range(Sends[c]))
      BY <1>1, SelectedAppend
    <3>2. QED
      BY <1>4, <2>1, <3>1, Zenon
  <2>3. CASE m \in Range(Sends[c])
    <3>1. PICK n \in Seq(Msgs) :
             /\ n = Selected(received', Range(Sends[c]))
             /\ Len(n) <= written[c] /\ written[c] <= Len(Sends[c])
             /\ \A i \in 1 .. Len(n) : n[i] = Sends[c][i]
      BY <1>4 DEF TakenFirst
    <3>2. n = Append(r, m)
      BY <2>2, <2>3, <3>1, Zenon
    <3>3. Len(r) \in Nat /\ Len(n) = Len(r) + 1 /\ n[Len(r) + 1] = m
      BY <3>2, AppendProperties, LenProperties
    <3>4. Len(r) < written[c] /\ m = Sends[c][Len(r) + 1]
      BY <1>1, <3>1, <3>3
    <3>5. /\ Len(SubSeq(Sends[c], 1, written[c])) = written[c]
          /\ SubSeq(Sends[c], 1, written[c])[Len(r) + 1] = m
      BY <1>1, <3>1, <3>3, <3>4
    <3>6. Channel(c)!Deliver
      BY <1>4, <2>1, <2>2, <2>3, <3>4, <3>5, Zenon DEF Channel!Deliver
    <3>7. QED
      BY <3>6 DEF Channel!Next
  <2>4. CASE m \notin Range(Sends[c])
    BY <1>4, <2>1, <2>2, <2>4, Zenon DEF Channel!vars
  <2>5. QED
    BY <2>3, <2>4
<1>5. QED
  BY <1>2, <1>3, <1>4, HistoriesMove, Zenon

(***************************************************************************)
(* From each client to the consumers the server is a channel of messages,  *)
(* over the connection, the vector of client_data, the hand of the server  *)
(* thread and the queue: what a client writes while it connects, what      *)
(* others do and what consumers do not take are no steps of it.            *)
(***************************************************************************)
THEOREM ChannelImplemented ==
  ASSUME NEW c \in Clients
  PROVE  Spec => Channel(c)!Spec
<1>1. Init => Channel(c)!Init
  <2>1. Init => received = <<>> /\ written[c] = 0
    BY DEF Init, Queue!Init
  <2>2. SubSeq(Sends[c], 1, 0) = <<>>
    BY SendsType
  <2>3. QED
    BY <2>1, <2>2, SelectedEmpty, Zenon DEF Channel!Init
<1>2. Init => Serving /\ Arrivals /\ InOrder
  <2>1. Init => InOrder
    BY DEF Init, Queue!Init, InOrder
  <2>2. QED
    BY <2>1, TypeInit, ArrivalsInit DEF Serving, QueueInv, LoopInv, TypeOK
<1>3. (Serving /\ Arrivals /\ InOrder) /\ [Next]_vars => (Serving /\ Arrivals /\ InOrder)'
  BY QueueStep, LoopStep, ArrivalsStep, InOrderStep DEF Serving
<1>4. Serving /\ Arrivals /\ InOrder => TakenFirst
  BY FirstOfAll
<1>5. Serving /\ Serving' /\ TakenFirst' /\ [Next]_vars => [Channel(c)!Next]_(Channel(c)!vars)
  BY ChannelStep
<1>6. QED
  BY <1>1, <1>2, <1>3, <1>4, <1>5, PTL DEF Spec, Channel!Spec
=============================================================================
