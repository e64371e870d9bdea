---------------------------- MODULE SockQueueProofs ----------------------------
(***************************************************************************)
(* Theorems about SockQueue, for any number of processes at either end,    *)
(* any messages, any buffer of the kernel, and any choice of operations.   *)
(***************************************************************************)
EXTENDS SockQueue, SeqLemmas

-----------------------------------------------------------------------------
(***************************************************************************)
(* What the variables hold.                                                *)
(***************************************************************************)
Byte == AllMsgs \X {"body", "sep"}

EndTypes ==
  /\ alive \in [Ends -> {"up", "destroyed", "dead"}]
  /\ run \in [Ends -> Nat] /\ \A e \in Ends : run[e] \in 1 .. MaxRuns[e]
  /\ state_ \in [Ends -> {"IDLE", "CONNECTED", "READING", "WRITING"}]
  /\ pc \in [Ends -> {"idle", "connect", "select", "read", "write"}]
  /\ call \in [Ends -> [op : BlockingOps \cup {"none"}, msg : AllMsgs \cup {NoMsg}]]
  /\ \A e \in Ends : call[e].op \in PushOps => call[e].msg \in AllMsgs
  /\ buf \in [Ends -> Seq(Byte)]

NetTypes ==
  /\ listening \in BOOLEAN /\ sockOpen \in BOOLEAN
  /\ conn \in [Ends -> Conns \cup {0}]
  /\ pending \in Seq(Conns)
  /\ out \in [Conns -> [Ends -> Seq(Byte)]]
  /\ got \in [Conns -> [Ends -> Nat]]
  /\ shut \in [Conns -> [Ends -> {"open", "fin", "rst"}]]

HistTypes ==
  /\ accepted \in [Conns -> [Ends -> Seq(AllMsgs)]]
  /\ delivered \in [Conns -> [Ends -> Seq(AllMsgs \cup {NoMsg})]]
  /\ accepts \in Nat
  /\ threw \in [Ends -> BOOLEAN]

TypeOK == EndTypes /\ NetTypes /\ HistTypes

(***************************************************************************)
(* The protocol an end follows with its state_: it is in IDLE until it is  *)
(* connected, in READING or WRITING only inside a call or after a throw,   *)
(* and reads and writes on a socket that is open. The server accepts only  *)
(* in IDLE while it listens, which it does again only as a new process.    *)
(***************************************************************************)
InCall(e) == pc[e] \in {"select", "read", "write"}

Within(e) ==
  /\ pc[e] = "connect" => state_[e] = "IDLE"
  /\ InCall(e) => state_[e] # "IDLE"
  /\ alive[e] = "dead" => state_[e] = "IDLE"
  /\ alive[e] # "up" => pc[e] = "idle"
  /\ pc[e] \in {"read", "write"} => Usable(e)
  /\ InCall(e) /\ IsDeq(e) => state_[e] = "READING"
  /\ pc[e] = "read" => IsDeq(e)
  /\ pc[e] = "write" => call[e].op \in PushOps
  /\ pc[e] \notin {"read", "write"} => buf[e] = <<>>
  /\ pc[e] = "idle" /\ state_[e] \in {"READING", "WRITING"} => threw[e]

Control ==
  /\ \A e \in Ends : Within(e)
  /\ alive["cli"] = "dead" => ~sockOpen
  /\ state_["serv"] # "IDLE" => conn["serv"] # 0
  /\ sockOpen => (state_["cli"] = "IDLE" <=> conn["cli"] = 0)
  /\ conn["cli"] \in {0, run["cli"]}
  /\ accepts <= 1 /\ (listening /\ state_["serv"] = "IDLE" => accepts = 0)

(***************************************************************************)
(* The error exits differ in how they are reached, in the middle of a      *)
(* call, and not in what they do.                                          *)
(***************************************************************************)
Fails(e) == pc[e] # "idle" /\ Fail(e)

\* A step is the meeting of two processes, or a step of one end.
LEMMA NextCases ==
  ASSUME [Next]_vars
  PROVE  \/ UNCHANGED vars
         \/ Accept \/ Connect \/ ConnectFails
         \/ \E e \in Ends : \/ Call(e) \/ SelectReady(e) \/ Fails(e)
                            \/ ReadByte(e) \/ WriteByte(e) \/ TimeOut(e)
                            \/ Destroy(e) \/ Exit(e) \/ Restart(e)
<1>1. ASSUME NEW e \in Ends, Step(e)
      PROVE  Accept \/ Connect \/ ConnectFails \/ SelectReady(e) \/ Fails(e) \/ Fails("serv")
               \/ ReadByte(e) \/ WriteByte(e) \/ TimeOut(e)
  <2>1. CASE Connecting(e)
    BY <2>1 DEF Connecting, AcceptDrops, Fails
  <2>2. CASE ReadEnd(e) \/ WriteFails(e) \/ SelectFails(e)
    BY <2>2 DEF ReadEnd, WriteFails, SelectFails, Fails
  <2>3. QED
    BY <1>1, <2>1, <2>2, Zenon DEF Step
<1>2. ASSUME NEW e \in Ends, Interrupted(e) PROVE Fails(e)
  BY <1>2 DEF Interrupted, Waits, Fails
<1>3. QED
  BY <1>1, <1>2, Zenon DEF Next, Ends

(***************************************************************************)
(* The two ends, their operations and the bytes of a message.              *)
(***************************************************************************)
LEMMA EndsAre == /\ Ends = {"serv", "cli"} /\ "serv" \in Ends /\ "cli" \in Ends
                 /\ \A e \in Ends : Peer(e) \in Ends /\ Peer(e) # e
BY DEF Ends, Peer

\* The operations of the two sides.
LEMMA OpsAre ==
  /\ \A o \in BlockingOps : o \in DeqOps \/ o \in EnqOps
  /\ PushOps \subseteq EnqOps /\ PopOps \subseteq DeqOps /\ DeqOps \cap EnqOps = {}
  /\ PopOps \cup PushOps \subseteq BlockingOps /\ "none" \notin BlockingOps
BY DEF BlockingOps, DeqOps, EnqOps, PushOps, PopOps, WaitEnqOps, WaitDeqOps

\* The two bytes of a message, one by one.
LEMMA BytesAre == ASSUME NEW m \in AllMsgs PROVE /\ Bytes(m) \in Seq(Byte) /\ Len(Bytes(m)) = 2
                        /\ Bytes(m)[1] = <<m, "body">> /\ Bytes(m)[2] = <<m, "sep">>
BY DEF Bytes, Byte

\* The connections an end, a process and the queue of the listener refer to.
LEMMA ConnTypes ==
  ASSUME TypeOK
  PROVE  /\ \A e \in Ends : conn[e] \in Conns \cup {0}
         /\ run["cli"] \in Conns /\ 0 \notin Conns
         /\ pending # <<>> => Head(pending) \in Conns /\ Tail(pending) \in Seq(Conns)
<1>1. \A e \in Ends : conn[e] \in Conns \cup {0}
  BY DEF TypeOK, NetTypes
<1>2. run["cli"] \in Conns /\ 0 \notin Conns
  BY SockAssumption, EndsAre DEF TypeOK, EndTypes, Conns
<1>3. pending # <<>> => Head(pending) \in Conns /\ Tail(pending) \in Seq(Conns)
  BY HeadTailProperties, EmptySeq DEF TypeOK, NetTypes
<1>4. QED
  BY <1>1, <1>2, <1>3

(***************************************************************************)
(* Changing what one end has on one connection.                            *)
(***************************************************************************)
LEMMA AtTypes ==
  ASSUME NEW S, NEW f \in [Conns -> [Ends -> S]], NEW c \in Conns, NEW e \in Ends, NEW x \in S
  PROVE  /\ [f EXCEPT ![c][e] = x] \in [Conns -> [Ends -> S]]
         /\ [f EXCEPT ![c][e] = x][c][e] = x
         /\ \A d \in Conns, z \in Ends :
               d # c \/ z # e => [f EXCEPT ![c][e] = x][d][z] = f[d][z]
OBVIOUS

-----------------------------------------------------------------------------
(***************************************************************************)
(* Type correctness of what the actions share.                             *)
(***************************************************************************)
LEMMA ReturnTypes ==
  ASSUME TypeOK, NEW e \in Ends, Return(e),
         UNCHANGED <<alive, run>>, state_' \in [Ends -> {"IDLE", "CONNECTED", "READING", "WRITING"}]
  PROVE  EndTypes'
<1>1. NoCall \in [op : BlockingOps \cup {"none"}, msg : AllMsgs \cup {NoMsg}] /\ NoCall.op \notin PushOps
  BY OpsAre DEF NoCall
<1>2. pc' \in [Ends -> {"idle", "connect", "select", "read", "write"}] /\ buf' \in [Ends -> Seq(Byte)]
  BY DEF TypeOK, EndTypes, Return
<1>3. /\ call' \in [Ends -> [op : BlockingOps \cup {"none"}, msg : AllMsgs \cup {NoMsg}]]
      /\ \A x \in Ends : call'[x].op \in PushOps => call'[x].msg \in AllMsgs
  BY <1>1 DEF TypeOK, EndTypes, Return
<1>4. QED
  BY <1>2, <1>3 DEF TypeOK, EndTypes

\* Entering recvwait or sendwait keeps the types of the ends.
LEMMA EnterTypes ==
  ASSUME TypeOK, NEW e \in Ends, Enter(e, call[e]), UNCHANGED <<alive, run, buf>>
  PROVE  EndTypes' /\ threw' \in [Ends -> BOOLEAN]
<1>2. NoCall \in [op : BlockingOps \cup {"none"}, msg : AllMsgs \cup {NoMsg}] /\ NoCall.op \notin PushOps
  BY OpsAre DEF NoCall
<1>4. /\ pc' \in [Ends -> {"idle", "connect", "select", "read", "write"}]
      /\ state_' \in [Ends -> {"IDLE", "CONNECTED", "READING", "WRITING"}]
  BY DEF TypeOK, EndTypes, Enter
<1>5. threw' \in [Ends -> BOOLEAN]
  BY Zenon DEF TypeOK, HistTypes, Enter
<1>6. call' = call \/ call' = [call EXCEPT ![e] = NoCall]
  BY DEF Enter, TypeOK, EndTypes
<1>7. /\ call' \in [Ends -> [op : BlockingOps \cup {"none"}, msg : AllMsgs \cup {NoMsg}]]
      /\ \A x \in Ends : call'[x].op \in PushOps => call'[x].msg \in AllMsgs
  <2>1. /\ call \in [Ends -> [op : BlockingOps \cup {"none"}, msg : AllMsgs \cup {NoMsg}]]
        /\ \A x \in Ends : call[x].op \in PushOps => call[x].msg \in AllMsgs
    BY DEF TypeOK, EndTypes
  <2>2. CASE call' = call
    BY <2>1, <2>2, Zenon
  <2>3. CASE call' = [call EXCEPT ![e] = NoCall]
    BY ONLY <1>2, <2>1, <2>3, e \in Ends
  <2>4. QED
    BY <1>6, <2>2, <2>3
<1>8. QED
  BY <1>4, <1>5, <1>7 DEF TypeOK, EndTypes

\* Closing a connection leaves each side open, ended or reset.
LEMMA ClosedTypes ==
  ASSUME TypeOK, NEW e \in Ends, NEW c \in Conns \cup {0}
  PROVE  ClosedBy(e, c) \in [Conns -> [Ends -> {"open", "fin", "rst"}]]
<1> HIDE DEF Conns
<1>1. CASE c = 0
  BY <1>1 DEF ClosedBy, TypeOK, NetTypes
<1>2. CASE c # 0
  BY <1>2 DEF ClosedBy, TypeOK, NetTypes
<1>3. QED
  BY <1>1, <1>2

\* So does closing a listening socket.
LEMMA ListenerTypes ==
  ASSUME NEW sh \in [Conns -> [Ends -> {"open", "fin", "rst"}]], ListenerClosed(sh)
  PROVE  /\ listening' \in BOOLEAN /\ pending' \in Seq(Conns)
         /\ shut' \in [Conns -> [Ends -> {"open", "fin", "rst"}]]
<1>1. listening' \in BOOLEAN /\ pending' \in Seq(Conns)
  <2>1. pending' = <<>> /\ listening' = FALSE
    BY DEF ListenerClosed
  <2>2. QED
    BY <2>1, EmptySeq
<1>2. \A c \in Conns : sh[c] \in [Ends -> {"open", "fin", "rst"}]
                       /\ [sh[c] EXCEPT !["serv"] = "rst"] \in [Ends -> {"open", "fin", "rst"}]
  BY EndsAre
<1>3. shut' \in [Conns -> [Ends -> {"open", "fin", "rst"}]]
  BY <1>2 DEF ListenerClosed
<1>4. QED
  BY <1>1, <1>3

(***************************************************************************)
(* Type correctness of each action.                                        *)
(***************************************************************************)
LEMMA CallTypes == ASSUME TypeOK, NEW e \in Ends, Call(e) PROVE TypeOK'
<1> USE EndsAre
<1>0. PICK k \in Calls(e), n \in Errnos :
        /\ \/ /\ state_[e] = "IDLE"
              /\ pc' = [pc EXCEPT ![e] = "connect"]
              /\ call' = [call EXCEPT ![e] = k]
              /\ UNCHANGED <<state_, threw>>
           \/ /\ state_[e] = "CONNECTED"
              /\ Enter(e, k)
  BY DEF Call
<1>1. k \in [op : BlockingOps \cup {"none"}, msg : AllMsgs \cup {NoMsg}] /\ (k.op \in PushOps => k.msg \in AllMsgs)
  BY SockAssumption DEF Calls, AllMsgs, Ends
<1>2. NoCall \in [op : BlockingOps \cup {"none"}, msg : AllMsgs \cup {NoMsg}] /\ NoCall.op \notin PushOps
  BY OpsAre DEF NoCall
<1>3. /\ UNCHANGED <<alive, run, buf>> /\ NetTypes' /\ UNCHANGED <<accepted, delivered, accepts>>
  BY DEF Call, TypeOK, NetTypes, netVars, descVars
<1>4. /\ pc' \in [Ends -> {"idle", "connect", "select", "read", "write"}]
      /\ state_' \in [Ends -> {"IDLE", "CONNECTED", "READING", "WRITING"}]
  BY <1>0 DEF TypeOK, EndTypes, Enter
<1>5. threw' \in [Ends -> BOOLEAN]
  BY <1>0, Zenon DEF TypeOK, HistTypes, Enter
<1>6. call' = [call EXCEPT ![e] = k] \/ call' = [call EXCEPT ![e] = NoCall]
  BY <1>0 DEF Enter
<1>7. /\ call' \in [Ends -> [op : BlockingOps \cup {"none"}, msg : AllMsgs \cup {NoMsg}]]
      /\ \A x \in Ends : call'[x].op \in PushOps => call'[x].msg \in AllMsgs
  BY <1>1, <1>2, <1>6 DEF TypeOK, EndTypes
<1>8. QED
  BY <1>3, <1>4, <1>5, <1>7 DEF TypeOK, EndTypes, HistTypes

\* The types are kept by a call that fails,
LEMMA FailTypes == ASSUME TypeOK, NEW e \in Ends, Fail(e) PROVE TypeOK'
<1>1. state_' \in [Ends -> {"IDLE", "CONNECTED", "READING", "WRITING"}]
  BY DEF Fail, TypeOK, EndTypes
<1>2. EndTypes'
  BY <1>1, ReturnTypes DEF Fail
<1>3. /\ listening' \in BOOLEAN /\ pending' \in Seq(Conns) /\ sockOpen' \in BOOLEAN
      /\ shut' \in [Conns -> [Ends -> {"open", "fin", "rst"}]]
  <2>1. CASE e = "serv"
    BY <2>1, ListenerTypes DEF Fail, TypeOK, NetTypes
  <2>2. CASE e = "cli"
    <3>1. ClosedBy("cli", conn["cli"]) \in [Conns -> [Ends -> {"open", "fin", "rst"}]]
      BY ClosedTypes, ConnTypes, EndsAre
    <3>2. QED
      BY <2>2, <3>1 DEF Fail, TypeOK, NetTypes
  <2>3. QED
    BY <2>1, <2>2, EndsAre
<1>4. QED
  BY <1>2, <1>3 DEF Fail, TypeOK, NetTypes, HistTypes, histVars

\* by a client that connects and a server that accepts it,
LEMMA MeetTypes == ASSUME TypeOK, Accept \/ Connect PROVE TypeOK'
<1>1. PICK e \in Ends : Enter(e, call[e]) /\ UNCHANGED <<alive, run, buf>>
  BY EndsAre DEF Accept, Connect
<1>2. conn' \in [Ends -> Conns \cup {0}] /\ pending' \in Seq(Conns)
  <2>1. CASE Accept
    BY <2>1, ConnTypes, EndsAre DEF Accept, TypeOK, NetTypes
  <2>2. CASE Connect
    <3>1. Append(pending, run["cli"]) \in Seq(Conns)
      BY ConnTypes, AppendProperties DEF TypeOK, NetTypes
    <3>2. QED
      BY <2>2, <3>1, ConnTypes, EndsAre DEF Connect, TypeOK, NetTypes
  <2>3. QED
    BY <2>1, <2>2
<1>3. accepts' \in Nat
  BY DEF Accept, Connect, TypeOK, HistTypes
<1>4. EndTypes' /\ threw' \in [Ends -> BOOLEAN]
  BY <1>1, EnterTypes
<1>5. QED
  BY <1>2, <1>3, <1>4 DEF Accept, Connect, TypeOK, NetTypes, HistTypes

\* by a connect that is refused,
LEMMA ConnectFailsTypes == ASSUME TypeOK, ConnectFails PROVE TypeOK'
<1>1. state_' \in [Ends -> {"IDLE", "CONNECTED", "READING", "WRITING"}]
  BY DEF ConnectFails, TypeOK, EndTypes
<1>2. EndTypes'
  BY <1>1, ReturnTypes, EndsAre DEF ConnectFails
<1>3. QED
  BY <1>2 DEF ConnectFails, TypeOK, NetTypes, HistTypes, netVars, histVars

\* by a select that returns,
LEMMA SelectTypes == ASSUME TypeOK, NEW e \in Ends, SelectReady(e) PROVE TypeOK'
<1>1. CASE Return(e) /\ state_' = [state_ EXCEPT ![e] = "CONNECTED"]
  <2>1. EndTypes'
    BY <1>1, ReturnTypes DEF SelectReady, TypeOK, EndTypes
  <2>2. QED
    BY <2>1 DEF SelectReady, TypeOK, NetTypes, HistTypes, netVars, descVars, histVars
<1>2. CASE /\ call[e].op \in PopOps \cup PushOps
           /\ pc' = [pc EXCEPT ![e] = IF IsDeq(e) THEN "read" ELSE "write"]
           /\ buf' = [buf EXCEPT ![e] = IF IsDeq(e) THEN <<>> ELSE Bytes(call[e].msg)]
           /\ UNCHANGED <<state_, call, errno>>
  <2>1. ~IsDeq(e) => call[e].msg \in AllMsgs
    BY <1>2, OpsAre DEF IsDeq, TypeOK, EndTypes
  <2>2. buf' \in [Ends -> Seq(Byte)]
    BY <1>2, <2>1, BytesAre DEF TypeOK, EndTypes
  <2>3. EndTypes'
    BY <1>2, <2>2 DEF SelectReady, TypeOK, EndTypes
  <2>4. QED
    BY <2>3 DEF SelectReady, TypeOK, NetTypes, HistTypes, netVars, descVars, histVars
<1>3. QED
  BY <1>1, <1>2 DEF SelectReady

\* by a timeout,
LEMMA TimeOutTypes == ASSUME TypeOK, NEW e \in Ends, TimeOut(e) PROVE TypeOK'
<1>1. EndTypes'
  BY ReturnTypes DEF TimeOut, TypeOK, EndTypes
<1>2. QED
  BY <1>1 DEF TimeOut, TypeOK, NetTypes, HistTypes, netVars, descVars, histVars

\* by the destructor,
LEMMA DestroyTypes == ASSUME TypeOK, NEW e \in Ends, Destroy(e) PROVE TypeOK'
<1>1. EndTypes'
  BY DEF Destroy, TypeOK, EndTypes
<1>2. /\ listening' \in BOOLEAN /\ pending' \in Seq(Conns) /\ sockOpen' \in BOOLEAN
      /\ shut' \in [Conns -> [Ends -> {"open", "fin", "rst"}]]
  <2>0. shut \in [Conns -> [Ends -> {"open", "fin", "rst"}]]
        /\ ClosedBy(e, conn[e]) \in [Conns -> [Ends -> {"open", "fin", "rst"}]]
    BY ConnTypes, ClosedTypes DEF TypeOK, NetTypes
  <2>1. CASE e = "serv" /\ state_[e] # "IDLE"
    BY <2>0, <2>1, ListenerTypes DEF Destroy, TypeOK, NetTypes
  <2>2. CASE e = "cli" \/ state_[e] = "IDLE"
    BY <2>0, <2>2 DEF Destroy, TypeOK, NetTypes
  <2>3. QED
    BY <2>1, <2>2, EndsAre
<1>3. QED
  BY <1>1, <1>2 DEF Destroy, TypeOK, NetTypes, HistTypes, histVars

\* by the end of a process
LEMMA ExitTypes == ASSUME TypeOK, NEW e \in Ends, Exit(e) PROVE TypeOK'
<1>1. EndTypes'
  <2>1. NoCall \in [op : BlockingOps \cup {"none"}, msg : AllMsgs \cup {NoMsg}] /\ NoCall.op \notin PushOps
    BY OpsAre DEF NoCall
  <2>2. pc' \in [Ends -> {"idle", "connect", "select", "read", "write"}] /\ buf' \in [Ends -> Seq(Byte)]
    BY DEF TypeOK, EndTypes, Return, Exit
  <2>3. /\ call' \in [Ends -> [op : BlockingOps \cup {"none"}, msg : AllMsgs \cup {NoMsg}]]
        /\ \A x \in Ends : call'[x].op \in PushOps => call'[x].msg \in AllMsgs
    BY <2>1 DEF TypeOK, EndTypes, Return, Exit
  <2>4. QED
    BY <2>2, <2>3 DEF TypeOK, EndTypes, Exit
<1>2. /\ listening' \in BOOLEAN /\ pending' \in Seq(Conns) /\ sockOpen' \in BOOLEAN
      /\ shut' \in [Conns -> [Ends -> {"open", "fin", "rst"}]]
  <2>0. ClosedBy(e, conn[e]) \in [Conns -> [Ends -> {"open", "fin", "rst"}]]
    BY ConnTypes, ClosedTypes DEF TypeOK, NetTypes
  <2>1. CASE e = "serv"
    BY <2>0, <2>1, ListenerTypes DEF Exit, TypeOK, NetTypes
  <2>2. CASE e = "cli"
    BY <2>0, <2>2 DEF Exit, TypeOK, NetTypes
  <2>3. QED
    BY <2>1, <2>2, EndsAre
<1>3. QED
  BY <1>1, <1>2 DEF Exit, TypeOK, NetTypes, HistTypes, histVars

\* and by a new one.
LEMMA RestartTypes == ASSUME TypeOK, NEW e \in Ends, Restart(e) PROVE TypeOK'
<1>1. EndTypes'
  <2>1. run' \in [Ends -> Nat] /\ \A x \in Ends : run'[x] \in 1 .. MaxRuns[x]
    BY SockAssumption DEF Restart, TypeOK, EndTypes
  <2>2. QED
    BY <2>1 DEF Restart, TypeOK, EndTypes
<1>2. QED
  BY <1>1 DEF Restart, TypeOK, NetTypes, HistTypes, netVars

(***************************************************************************)
(* A byte is written and read on a connection that was made, and there is  *)
(* one to read.                                                            *)
(***************************************************************************)
LEMMA WriteTypes == ASSUME TypeOK, Control, NEW e \in Ends, WriteByte(e) PROVE TypeOK'
<1> DEFINE c == conn[e]
<1>1. c \in Conns
  BY EndsAre, ConnTypes DEF WriteByte, Control, Within, InCall, Usable
<1>2. buf[e] \in Seq(Byte) /\ call[e].msg \in AllMsgs
  BY DEF WriteByte, Control, Within, TypeOK, EndTypes
<1>3. Head(buf[e]) \in Byte /\ Tail(buf[e]) \in Seq(Byte)
  <2>1. Len(buf[e]) > 0
    BY SMTT(60) DEF WriteByte
  <2>2. buf[e] # <<>>
    BY ONLY <2>1
  <2>3. QED
    BY ONLY <1>2, <2>2, HeadTailProperties
<1>4. out[c][e] \in Seq(Byte) /\ Append(out[c][e], Head(buf[e])) \in Seq(Byte)
  BY <1>1, <1>3, AppendProperties DEF TypeOK, NetTypes
<1>5. out' \in [Conns -> [Ends -> Seq(Byte)]]
  BY <1>1, <1>4 DEF WriteByte, TypeOK, NetTypes
<1>6. shut' \in [Conns -> [Ends -> {"open", "fin", "rst"}]]
  BY <1>1, EndsAre DEF WriteByte, TypeOK, NetTypes
<1>7. accepted[c][e] \in Seq(AllMsgs) /\ Append(accepted[c][e], call[e].msg) \in Seq(AllMsgs)
  BY <1>1, <1>2, AppendProperties DEF TypeOK, HistTypes
<1>8. accepted' \in [Conns -> [Ends -> Seq(AllMsgs)]]
  <2>1. PICK s \in Seq(AllMsgs) : s = Append(accepted[c][e], call[e].msg)
    BY <1>7
  <2>2. accepted' = accepted \/ accepted' = [accepted EXCEPT ![c][e] = s]
    BY <2>1, Zenon DEF WriteByte
  <2>3. QED
    <3>1. accepted \in [Conns -> [Ends -> Seq(AllMsgs)]]
      BY DEF TypeOK, HistTypes
    <3>2. [accepted EXCEPT ![c][e] = s] \in [Conns -> [Ends -> Seq(AllMsgs)]]
      BY ONLY <1>1, <3>1, e \in Ends, s \in Seq(AllMsgs), AtTypes
    <3>3. QED
      BY <2>2, <3>1, <3>2, Zenon
<1>9. EndTypes'
  <2>1. CASE Return(e)
    <3>1. state_' = state_ \/ state_' = [state_ EXCEPT ![e] = "CONNECTED"]
      BY DEF WriteByte
    <3>2. state_' \in [Ends -> {"IDLE", "CONNECTED", "READING", "WRITING"}]
      BY <3>1 DEF TypeOK, EndTypes
    <3>3. QED
      BY <2>1, <3>2, ReturnTypes DEF WriteByte
  <2>2. CASE buf' = [buf EXCEPT ![e] = Tail(@)] /\ UNCHANGED <<state_, pc, call, errno, accepted>>
    BY <1>3, <2>2 DEF WriteByte, TypeOK, EndTypes
  <2>3. QED
    BY <2>1, <2>2 DEF WriteByte
<1>10. QED
  BY <1>5, <1>6, <1>8, <1>9 DEF WriteByte, TypeOK, NetTypes, HistTypes, descVars

\* What an end has not read yet is a byte that the other has written.
LEMMA NextIsByte ==
  ASSUME TypeOK, NEW c \in Conns, NEW e \in Ends, Unread(c, e) > 0
  PROVE  /\ got[c][e] \in Nat /\ got[c][e] + 1 \in 1 .. Len(out[c][Peer(e)])
         /\ out[c][Peer(e)][got[c][e] + 1] \in Byte
<1>1. out[c][Peer(e)] \in Seq(Byte) /\ got[c][e] \in Nat
  BY EndsAre DEF TypeOK, NetTypes
<1>2. Len(out[c][Peer(e)]) \in Nat
  BY <1>1
<1>3. got[c][e] + 1 \in 1 .. Len(out[c][Peer(e)])
  BY <1>1, <1>2 DEF Unread
<1>4. QED
  BY <1>1, <1>3, ElementOfSeq

\* Reading a byte keeps the types: the byte is one of a message.
LEMMA ReadTypes == ASSUME TypeOK, Control, NEW e \in Ends, ReadByte(e) PROVE TypeOK'
<1> DEFINE c == conn[e]
           byte == out[c][Peer(e)][got[c][e] + 1]
<1>1. c \in Conns
  BY EndsAre, ConnTypes DEF ReadByte, Control, Within, InCall, Usable
<1>2. byte \in Byte /\ got[c][e] \in Nat
  BY <1>1, NextIsByte DEF ReadByte
<1>3. byte[1] \in AllMsgs
  BY <1>2 DEF Byte
<1>4. got' \in [Conns -> [Ends -> Nat]]
  <2>1. got' = [got EXCEPT ![c][e] = @ + 1]
    BY DEF ReadByte
  <2>2. QED
    BY <1>1, <1>2, <2>1 DEF TypeOK, NetTypes
<1>5. EndTypes'
  <2>1. CASE Return(e)
    <3>1. state_' = state_ \/ state_' = [state_ EXCEPT ![e] = "CONNECTED"]
      BY DEF ReadByte
    <3>2. state_' \in [Ends -> {"IDLE", "CONNECTED", "READING", "WRITING"}]
      BY <3>1 DEF TypeOK, EndTypes
    <3>3. QED
      BY <2>1, <3>2, ReturnTypes DEF ReadByte
  <2>2. CASE buf' = [buf EXCEPT ![e] = Append(@, byte)] /\ UNCHANGED <<state_, pc, call, errno, delivered, threw>>
    <3>1. buf[e] \in Seq(Byte) /\ Append(buf[e], byte) \in Seq(Byte)
      BY <1>2, AppendProperties DEF TypeOK, EndTypes
    <3>2. QED
      BY <2>2, <3>1 DEF ReadByte, TypeOK, EndTypes
  <2>3. QED
    BY <2>1, <2>2, Zenon DEF ReadByte
<1>6. delivered' \in [Conns -> [Ends -> Seq(AllMsgs \cup {NoMsg})]]
  <2>1. PICK m \in AllMsgs \cup {NoMsg} :
          delivered' = delivered \/ delivered' = [delivered EXCEPT ![c][e] = Append(@, m)]
    <3>1. \/ delivered' = delivered
          \/ delivered' = [delivered EXCEPT ![c][e] =
                 Append(@, IF Append(buf[e], byte) = Bytes(byte[1]) THEN byte[1] ELSE NoMsg)]
      BY Zenon DEF ReadByte
    <3>2. QED
      BY <1>3, <3>1, Zenon
  <2>2. PICK s \in Seq(AllMsgs \cup {NoMsg}) : s = Append(delivered[c][e], m)
    <3>1. delivered[c][e] \in Seq(AllMsgs \cup {NoMsg})
      BY <1>1 DEF TypeOK, HistTypes
    <3>2. Append(delivered[c][e], m) \in Seq(AllMsgs \cup {NoMsg})
      BY <3>1, AppendProperties
    <3>3. QED
      BY <3>2
  <2>3. delivered' = delivered \/ delivered' = [delivered EXCEPT ![c][e] = s]
    BY <2>1, <2>2, Zenon
  <2>4. QED
    <3>1. delivered \in [Conns -> [Ends -> Seq(AllMsgs \cup {NoMsg})]]
      BY DEF TypeOK, HistTypes
    <3>2. [delivered EXCEPT ![c][e] = s] \in [Conns -> [Ends -> Seq(AllMsgs \cup {NoMsg})]]
      BY ONLY <1>1, <3>1, e \in Ends, s \in Seq(AllMsgs \cup {NoMsg}), AtTypes
    <3>3. QED
      BY <2>3, <3>1, <3>2, Zenon
<1>7. threw' \in [Ends -> BOOLEAN]
  BY Zenon DEF ReadByte, TypeOK, HistTypes
<1>8. QED
  BY <1>4, <1>5, <1>6, <1>7 DEF ReadByte, TypeOK, NetTypes, HistTypes, descVars

\* Every step keeps the types.
LEMMA TypeStep == TypeOK /\ Control /\ [Next]_vars => TypeOK'
<1> SUFFICES ASSUME TypeOK, Control, [Next]_vars PROVE TypeOK'
  OBVIOUS
<1>1. CASE UNCHANGED vars
  BY <1>1 DEF vars, endVars, descVars, netVars, histVars, TypeOK, EndTypes, NetTypes, HistTypes
<1>2. QED
  BY <1>1, NextCases, CallTypes, MeetTypes, ConnectFailsTypes, SelectTypes, FailTypes, ReadTypes, WriteTypes,
     TimeOutTypes, DestroyTypes, ExitTypes, RestartTypes, Zenon DEF Fails

-----------------------------------------------------------------------------
\* The types and the control invariant hold at first.
LEMMA ControlInit == Init => TypeOK /\ Control
<1> SUFFICES ASSUME Init PROVE TypeOK /\ Control
  OBVIOUS
<1>1. EndTypes
  <2>1. NoCall \in [op : BlockingOps \cup {"none"}, msg : AllMsgs \cup {NoMsg}] /\ NoCall.op \notin PushOps
    BY OpsAre DEF NoCall
  <2>2. call \in [Ends -> [op : BlockingOps \cup {"none"}, msg : AllMsgs \cup {NoMsg}]]
        /\ \A e \in Ends : call[e].op \in PushOps => call[e].msg \in AllMsgs
    BY <2>1 DEF Init, perEnd
  <2>3. buf \in [Ends -> Seq(Byte)]
    BY EmptySeq, Zenon DEF Init, perEnd
  <2>4. QED
    BY <2>2, <2>3, SockAssumption DEF Init, perEnd, EndTypes
<1>2. NetTypes
  <2>1. \A S : [c \in Conns |-> [e \in Ends |-> <<>>]] \in [Conns -> [Ends -> Seq(S)]] /\ <<>> \in Seq(S)
    BY EmptySeq, Zenon
  <2>2. out \in [Conns -> [Ends -> Seq(Byte)]] /\ pending \in Seq(Conns)
    BY <2>1, Zenon DEF Init, perEnd
  <2>3. got \in [Conns -> [Ends -> Nat]] /\ shut \in [Conns -> [Ends -> {"open", "fin", "rst"}]]
    BY DEF Init, perEnd
  <2>4. QED
    BY <2>2, <2>3 DEF Init, perEnd, NetTypes
<1>3. HistTypes
  <2>1. \A S : [c \in Conns |-> [e \in Ends |-> <<>>]] \in [Conns -> [Ends -> Seq(S)]]
    BY EmptySeq, Zenon
  <2>2. accepted \in [Conns -> [Ends -> Seq(AllMsgs)]] /\ delivered \in [Conns -> [Ends -> Seq(AllMsgs \cup {NoMsg})]]
    BY <2>1, Zenon DEF Init, perEnd
  <2>3. QED
    BY <2>2 DEF Init, perEnd, HistTypes
<1>4. Control
  BY EndsAre, ConnTypes DEF Init, perEnd, Control, Within, InCall, Usable, IsDeq
<1>5. QED
  BY <1>1, <1>2, <1>3, <1>4 DEF TypeOK

(***************************************************************************)
(* Entering select, and leaving a call, as seen from both ends.            *)
(***************************************************************************)
LEMMA EnterEffect ==
  ASSUME TypeOK, NEW e \in Ends, NEW k, Enter(e, k)
  PROVE  /\ state_'[e] # "IDLE"
         /\ pc'[e] \in {"idle", "select"}
         /\ pc'[e] = "idle" => threw'[e]
         /\ pc'[e] = "select" /\ IsDeq(e)' => state_'[e] = "READING"
         /\ \A x \in Ends : x # e => state_'[x] = state_[x] /\ pc'[x] = pc[x] /\ call'[x] = call[x] /\ threw'[x] = threw[x]
<1>1. PICK t \in BOOLEAN : /\ pc' = [pc EXCEPT ![e] = IF t THEN "idle" ELSE "select"]
                           /\ threw' = [threw EXCEPT ![e] = @ \/ t]
  BY DEF Enter
<1>2. \A x \in Ends : threw'[x] = (threw[x] \/ (x = e /\ t))
  BY <1>1, Zenon DEF TypeOK, HistTypes
<1>3. /\ state_'[e] # "IDLE"
      /\ \A x \in Ends : x # e => state_'[x] = state_[x] /\ call'[x] = call[x]
  BY DEF Enter, TypeOK, EndTypes
<1>4. /\ pc'[e] = IF t THEN "idle" ELSE "select"
      /\ \A x \in Ends : x # e => pc'[x] = pc[x]
  BY <1>1 DEF TypeOK, EndTypes
<1>5. \A x \in Ends : x # e => threw'[x] = threw[x]
  BY <1>2, Zenon DEF TypeOK, HistTypes
<1>6. pc'[e] = "idle" => threw'[e]
  BY <1>2, <1>4
<1>7. pc'[e] = "select" /\ IsDeq(e)' => state_'[e] = "READING"
  <2>1. k.op \in DeqOps => state_'[e] = "READING"
    BY OpsAre DEF Enter, TypeOK, EndTypes
  <2>2. call'[e] = k \/ pc'[e] = "idle"
    BY DEF Enter, TypeOK, EndTypes
  <2>3. QED
    BY <2>1, <2>2 DEF IsDeq
<1>8. QED
  BY <1>3, <1>4, <1>5, <1>6, <1>7

\* A call that returns leaves its end idle and the other end alone.
LEMMA ReturnEffect ==
  ASSUME TypeOK, NEW e \in Ends, Return(e)
  PROVE  /\ pc'[e] = "idle" /\ buf'[e] = <<>>
         /\ \A x \in Ends : x # e => pc'[x] = pc[x] /\ buf'[x] = buf[x] /\ call'[x] = call[x]
BY DEF Return, TypeOK, EndTypes

(***************************************************************************)
(* Each action keeps the protocol.                                         *)
(***************************************************************************)
LEMMA CallControl == ASSUME TypeOK, Control, NEW e \in Ends, Call(e) PROVE Control'
<1> USE EndsAre
<1>0. PICK k \in Calls(e), n \in Errnos :
        /\ \/ /\ state_[e] = "IDLE"
              /\ pc' = [pc EXCEPT ![e] = "connect"]
              /\ call' = [call EXCEPT ![e] = k]
              /\ UNCHANGED <<state_, threw>>
           \/ /\ state_[e] = "CONNECTED"
              /\ Enter(e, k)
  BY DEF Call
<1>1. /\ alive[e] = "up" /\ pc[e] = "idle" /\ UNCHANGED <<alive, run, buf, sockOpen, conn, listening, accepts>>
  BY DEF Call, descVars
<1>2. CASE state_[e] = "IDLE"
  BY <1>0, <1>1, <1>2 DEF Control, Within, InCall, Usable, IsDeq, TypeOK, EndTypes, HistTypes
<1>3. CASE state_[e] = "CONNECTED"
  <2>1. Enter(e, k)
    BY <1>0, <1>3
  <2>2. QED
    BY <1>1, <1>3, <2>1, EnterEffect DEF Control, Within, InCall, Usable, IsDeq
<1>4. QED
  BY <1>0, <1>2, <1>3

\* Control relates state_, the place of a call and the descriptors. It is kept by connecting and accepting,
LEMMA MeetControl == ASSUME TypeOK, Control, Accept \/ Connect PROVE Control'
<1>1. CASE Accept
  <2>1. Enter("serv", call["serv"]) /\ pc["serv"] = "connect" /\ UNCHANGED <<alive, run, buf, sockOpen, listening>>
    BY <1>1 DEF Accept
  <2>2. conn'["serv"] \in Conns /\ conn'["cli"] = conn["cli"] /\ 0 \notin Conns
    BY <1>1, ConnTypes, EndsAre DEF Accept, TypeOK, NetTypes
  <2>3. accepts' = accepts + 1 /\ accepts = 0
    BY <1>1, EndsAre DEF Accept, Control, Within, TypeOK, HistTypes
  <2>4. QED
    BY <2>1, <2>2, <2>3, EndsAre, EnterEffect DEF Control, Within, InCall, Usable, IsDeq
<1>2. CASE Connect
  <2>1. Enter("cli", call["cli"]) /\ pc["cli"] = "connect" /\ UNCHANGED <<alive, run, buf, sockOpen, listening, accepts>>
    BY <1>2 DEF Connect
  <2>2. conn'["cli"] = run["cli"] /\ conn'["serv"] = conn["serv"] /\ run["cli"] # 0
    BY <1>2, ConnTypes, EndsAre DEF Connect, TypeOK, NetTypes
  <2>4. QED
    BY <2>1, <2>2, EndsAre, EnterEffect DEF Control, Within, InCall, Usable, IsDeq
<1>3. QED
  BY <1>1, <1>2

\* by a connect that is refused,
LEMMA ConnectFailsControl == ASSUME TypeOK, Control, ConnectFails PROVE Control'
<1>1. /\ Return("cli") /\ state_'["cli"] = "CONNECTED" /\ state_'["serv"] = state_["serv"]
      /\ sockOpen' = FALSE /\ UNCHANGED <<alive, run, listening, conn, threw, accepts>> /\ pc["cli"] = "connect"
  BY EndsAre DEF ConnectFails, TypeOK, EndTypes, histVars
<1>2. QED
  BY <1>1, EndsAre, ReturnEffect DEF Control, Within, InCall, Usable, IsDeq

\* by a select that returns,
LEMMA SelectControl == ASSUME TypeOK, Control, NEW e \in Ends, SelectReady(e) PROVE Control'
<1>1. pc[e] = "select" /\ Usable(e) /\ UNCHANGED <<alive, run, sockOpen, listening, conn, threw, accepts>>
  BY DEF SelectReady, descVars, histVars
<1>2. CASE Return(e) /\ state_' = [state_ EXCEPT ![e] = "CONNECTED"]
  BY <1>1, <1>2, EndsAre, ReturnEffect DEF Control, Within, InCall, Usable, IsDeq, TypeOK, EndTypes
<1>3. CASE /\ call[e].op \in PopOps \cup PushOps
           /\ pc' = [pc EXCEPT ![e] = IF IsDeq(e) THEN "read" ELSE "write"]
           /\ buf' = [buf EXCEPT ![e] = IF IsDeq(e) THEN <<>> ELSE Bytes(call[e].msg)]
           /\ UNCHANGED <<state_, call, errno>>
  <2>1. /\ (pc'[e] = "read" /\ IsDeq(e)) \/ (pc'[e] = "write" /\ call[e].op \in PushOps /\ ~IsDeq(e))
        /\ \A x \in Ends : x # e => pc'[x] = pc[x] /\ buf'[x] = buf[x]
    BY <1>3, OpsAre DEF IsDeq, TypeOK, EndTypes
  <2>2. QED
    BY <1>1, <1>3, <2>1, EndsAre DEF Control, Within, InCall, Usable, IsDeq
<1>4. QED
  BY <1>2, <1>3 DEF SelectReady

\* by a failing system call,
LEMMA FailsControl == ASSUME TypeOK, Control, NEW e \in Ends, Fails(e) PROVE Control'
<1>1. /\ pc[e] # "idle" /\ UNCHANGED <<alive, run, conn, threw, accepts>> /\ Return(e)
      /\ state_'[e] = "IDLE" /\ \A x \in Ends : x # e => state_'[x] = state_[x]
      /\ e = "cli" => ~sockOpen' /\ listening' = listening
      /\ e = "serv" => ~listening' /\ sockOpen' = sockOpen
  BY EndsAre DEF Fails, Fail, histVars, ListenerClosed, TypeOK, EndTypes
<1>2. QED
  BY <1>1, EndsAre, ReturnEffect DEF Control, Within, InCall, Usable, IsDeq

\* by a byte written,
LEMMA WriteControl == ASSUME TypeOK, Control, NEW e \in Ends, WriteByte(e) PROVE Control'
<1>1. pc[e] = "write" /\ UNCHANGED <<alive, run, conn, threw, accepts, sockOpen, listening>>
  BY DEF WriteByte, descVars
<1>2. CASE Return(e) /\ state_' = [state_ EXCEPT ![e] = "CONNECTED"]
  BY <1>1, <1>2, EndsAre, ReturnEffect DEF Control, Within, InCall, Usable, IsDeq, TypeOK, EndTypes
<1>3. CASE buf' = [buf EXCEPT ![e] = Tail(@)] /\ UNCHANGED <<state_, pc, call, errno, accepted>>
  <2>1. \A x \in Ends : x # e => buf'[x] = buf[x]
    BY <1>3 DEF TypeOK, EndTypes
  <2>2. QED
    BY <1>1, <1>3, <2>1, EndsAre DEF Control, Within, InCall, Usable, IsDeq
<1>4. QED
  BY <1>2, <1>3, Zenon DEF WriteByte

\* by a byte read,
LEMMA ReadControl == ASSUME TypeOK, Control, NEW e \in Ends, ReadByte(e) PROVE Control'
<1> DEFINE byte == out[conn[e]][Peer(e)][got[conn[e]][e] + 1]
<1>1. pc[e] = "read" /\ UNCHANGED <<alive, run, conn, accepts, sockOpen, listening>>
  BY DEF ReadByte, descVars
<1>2. CASE Return(e)
  <2>1. PICK t \in BOOLEAN : /\ threw' = [threw EXCEPT ![e] = @ \/ t]
                             /\ IF t THEN state_' = state_ ELSE state_' = [state_ EXCEPT ![e] = "CONNECTED"]
    <3>1. \/ UNCHANGED <<state_, pc, call, errno, delivered, threw>>
          \/ /\ threw' = [threw EXCEPT ![e] = @ \/ (Append(buf[e], byte) = Bytes(byte[1]) /\ byte[1] \in Unreadable)]
             /\ IF Append(buf[e], byte) = Bytes(byte[1]) /\ byte[1] \in Unreadable
                THEN state_' = state_ ELSE state_' = [state_ EXCEPT ![e] = "CONNECTED"]
      BY Zenon DEF ReadByte
    <3>2. pc'[e] = "idle" /\ pc[e] = "read"
      BY <1>1, <1>2, ReturnEffect
    <3>3. pc' # pc
      BY <3>2
    <3>4. QED
      BY <3>1, <3>3, Zenon
  <2>2. \A x \in Ends : threw'[x] = (threw[x] \/ (x = e /\ t))
    BY <2>1, Zenon DEF TypeOK, HistTypes
  <2>3. /\ \A x \in Ends : x # e => state_'[x] = state_[x] /\ threw'[x] = threw[x]
        /\ threw'[e] \/ state_'[e] = "CONNECTED"
        /\ state_'[e] # "IDLE"
    <3>1. \A x \in Ends : x # e => threw'[x] = threw[x]
      BY <2>2, Zenon DEF TypeOK, HistTypes
    <3>2. state_[e] # "IDLE"
      BY <1>1 DEF Control, Within, InCall
    <3>3. QED
      BY <2>1, <2>2, <3>1, <3>2 DEF TypeOK, EndTypes
  <2>4. QED
    BY <1>1, <1>2, <2>3, EndsAre, ReturnEffect DEF Control, Within, InCall, Usable, IsDeq
<1>3. CASE buf' = [buf EXCEPT ![e] = Append(@, byte)] /\ UNCHANGED <<state_, pc, call, errno, delivered, threw>>
  <2>1. \A x \in Ends : x # e => buf'[x] = buf[x]
    BY <1>3 DEF TypeOK, EndTypes
  <2>2. QED
    BY <1>1, <1>3, <2>1, EndsAre DEF Control, Within, InCall, Usable, IsDeq
<1>4. QED
  BY <1>2, <1>3, Zenon DEF ReadByte

\* by a timeout,
LEMMA TimeOutControl == ASSUME TypeOK, Control, NEW e \in Ends, TimeOut(e) PROVE Control'
<1>1. /\ Waits(e) /\ UNCHANGED <<alive, run, conn, threw, accepts, sockOpen, listening>> /\ Return(e)
      /\ state_'[e] = IF state_[e] = "IDLE" THEN "IDLE" ELSE "CONNECTED"
      /\ \A x \in Ends : x # e => state_'[x] = state_[x]
  BY DEF TimeOut, descVars, histVars, TypeOK, EndTypes
<1>2. pc[e] # "idle"
  BY <1>1 DEF Waits
<1>3. QED
  BY <1>1, <1>2, EndsAre, ReturnEffect DEF Control, Within, InCall, Usable, IsDeq

\* by the destructor,
LEMMA DestroyControl == ASSUME TypeOK, Control, NEW e \in Ends, Destroy(e) PROVE Control'
<1>1. /\ pc[e] = "idle" /\ UNCHANGED <<state_, pc, call, buf, conn, run, threw, accepts>>
      /\ alive'[e] = "destroyed" /\ \A x \in Ends : x # e => alive'[x] = alive[x]
  BY DEF Destroy, histVars, TypeOK, EndTypes
<1>2. (listening' => listening) /\ (sockOpen' => sockOpen) /\ (e = "serv" => sockOpen' = sockOpen)
  BY DEF Destroy, ListenerClosed
<1>3. QED
  BY <1>1, <1>2, EndsAre DEF Control, Within, InCall, Usable, IsDeq

\* by the end of a process
LEMMA ExitControl == ASSUME TypeOK, Control, NEW e \in Ends, Exit(e) PROVE Control'
<1>1. /\ UNCHANGED <<conn, run, threw, accepts>> /\ Return(e)
      /\ alive'[e] = "dead" /\ \A x \in Ends : x # e => alive'[x] = alive[x]
      /\ state_'[e] = "IDLE" /\ \A x \in Ends : x # e => state_'[x] = state_[x]
      /\ e = "cli" => ~sockOpen' /\ listening' = listening
      /\ e = "serv" => ~listening' /\ sockOpen' = sockOpen
  BY EndsAre DEF Exit, ListenerClosed, histVars, TypeOK, EndTypes
<1>2. QED
  BY <1>1, EndsAre, ReturnEffect DEF Control, Within, InCall, Usable, IsDeq

\* and by a new one.
LEMMA RestartControl == ASSUME TypeOK, Control, NEW e \in Ends, Restart(e) PROVE Control'
<1>1. /\ alive[e] = "dead" /\ UNCHANGED <<state_, pc, call, buf>>
      /\ alive'[e] = "up" /\ \A x \in Ends : x # e => alive'[x] = alive[x]
      /\ conn'[e] = 0 /\ \A x \in Ends : x # e => conn'[x] = conn[x]
      /\ \A x \in Ends : x # e => run'[x] = run[x]
      /\ e = "cli" => sockOpen' /\ listening' = listening /\ accepts' = accepts
      /\ e = "serv" => accepts' = 0 /\ sockOpen' = sockOpen
  BY EndsAre DEF Restart, TypeOK, EndTypes, NetTypes
<1>2. threw' = [threw EXCEPT ![e] = FALSE]
  BY DEF Restart
<1>3. \A x \in Ends : x # e => threw'[x] = threw[x]
  BY <1>2, Zenon DEF TypeOK, HistTypes
<1>4. QED
  BY <1>1, <1>3, EndsAre DEF Control, Within, InCall, Usable, IsDeq

\* Every step keeps the types and the control invariant.
LEMMA ControlStep == TypeOK /\ Control /\ [Next]_vars => TypeOK' /\ Control'
<1> SUFFICES ASSUME TypeOK, Control, [Next]_vars PROVE Control'
  BY TypeStep
<1>1. CASE UNCHANGED vars
  BY <1>1 DEF vars, endVars, descVars, netVars, histVars, Control, Within, InCall, Usable, IsDeq
<1>2. QED
  BY <1>1, NextCases, CallControl, MeetControl, ConnectFailsControl, SelectControl, FailsControl, ReadControl,
     WriteControl, TimeOutControl, DestroyControl, ExitControl, RestartControl, Zenon

(***************************************************************************)
(* The variables are typed, and both ends follow the protocol.             *)
(***************************************************************************)
THEOREM Controlled == Spec => [](TypeOK /\ Control)
BY ControlInit, ControlStep, PTL DEF Spec

(***************************************************************************)
(* deqAux and enqAux are never entered in READING or WRITING, where they   *)
(* would reach their dummy return, unless a serialiser or a deserialiser   *)
(* threw before.                                                           *)
(***************************************************************************)
THEOREM OnlyThrowsGetStuck == Spec => []StuckOnlyAfterThrow
<1>1. TypeOK /\ Control => StuckOnlyAfterThrow
  BY DEF Control, Within, StuckOnlyAfterThrow
<1>2. QED
  BY <1>1, Controlled, PTL

(***************************************************************************)
(* A server process never accepts a second client: every way back to IDLE  *)
(* closes the socket it listens on.                                        *)
(***************************************************************************)
THEOREM OneClient == Spec => []OneClientPerServer
<1>1. TypeOK /\ Control => OneClientPerServer
  BY DEF Control, OneClientPerServer
<1>2. QED
  BY <1>1, Controlled, PTL

-----------------------------------------------------------------------------
(***************************************************************************)
(* The bytes o on a connection, for the messages a that were accepted: a   *)
(* body and a separator for each, and perhaps a body whose separator was   *)
(* not written. d is the beginning of a.                                   *)
(***************************************************************************)
Stream(o, a) ==
  /\ Len(o) = 2 * Len(a) \/ Len(o) = 2 * Len(a) + 1
  /\ \A k \in 1 .. Len(a) : o[2 * k - 1] = <<a[k], "body">> /\ o[2 * k] = <<a[k], "sep">>
  /\ Len(o) = 2 * Len(a) + 1 => o[Len(o)][2] = "body"
Whole(o, a)   == Len(o) = 2 * Len(a)
Torn(o, a, m) == Len(o) = 2 * Len(a) + 1 /\ o[Len(o)] = <<m, "body">>

Begins(d, a) == Len(d) <= Len(a) /\ \A i \in 1 .. Len(d) : d[i] = a[i]

(***************************************************************************)
(* Writing a body and then its separator.                                  *)
(***************************************************************************)
LEMMA BodyWritten ==
  ASSUME NEW o \in Seq(Byte), NEW a \in Seq(AllMsgs), Stream(o, a), Whole(o, a), NEW m \in AllMsgs,
         NEW p \in Seq(Byte), p = Append(o, <<m, "body">>)
  PROVE  Stream(p, a) /\ Torn(p, a, m)
<1>1. <<m, "body">> \in Byte
  BY DEF Byte
<1>2. /\ Len(p) = Len(o) + 1 /\ \A i \in 1 .. Len(o) : p[i] = o[i]
      /\ p[Len(o) + 1] = <<m, "body">> /\ Len(o) \in Nat /\ Len(a) \in Nat
  BY <1>1, AppendProperties
<1>3. ASSUME NEW k \in 1 .. Len(a) PROVE p[2 * k - 1] = o[2 * k - 1] /\ p[2 * k] = o[2 * k]
  <2>1. 2 * k - 1 \in 1 .. Len(o) /\ 2 * k \in 1 .. Len(o)
    BY <1>2 DEF Whole
  <2>2. QED
    BY <1>2, <2>1
<1>4. Torn(p, a, m)
  BY ONLY <1>2, Whole(o, a) DEF Torn, Whole
<1>5. QED
  BY <1>2, <1>3, <1>4 DEF Stream, Torn

\* The separator completes the message begun on a stream.
LEMMA SepWritten ==
  ASSUME NEW o \in Seq(Byte), NEW a \in Seq(AllMsgs), NEW m \in AllMsgs, Stream(o, a), Torn(o, a, m),
         NEW p \in Seq(Byte), p = Append(o, <<m, "sep">>),
         NEW b \in Seq(AllMsgs), b = Append(a, m)
  PROVE  Stream(p, b) /\ Whole(p, b)
<1>1. <<m, "sep">> \in Byte
  BY DEF Byte
<1>2. /\ Len(p) = Len(o) + 1 /\ \A i \in 1 .. Len(o) : p[i] = o[i]
      /\ p[Len(o) + 1] = <<m, "sep">> /\ Len(o) \in Nat /\ Len(a) \in Nat
  BY <1>1, AppendProperties
<1>3. Len(b) = Len(a) + 1 /\ b[Len(a) + 1] = m /\ \A i \in 1 .. Len(a) : b[i] = a[i]
  BY AppendProperties
<1>4. ASSUME NEW k \in 1 .. Len(b)
      PROVE  p[2 * k - 1] = <<b[k], "body">> /\ p[2 * k] = <<b[k], "sep">>
  <2>1. CASE k = Len(b)
    <3>1. 2 * k - 1 = Len(o) /\ 2 * k = Len(o) + 1 /\ Len(o) \in 1 .. Len(o)
      BY <1>2, <1>3, <2>1 DEF Torn
    <3>2. QED
      BY <1>2, <1>3, <2>1, <3>1 DEF Torn
  <2>2. CASE k \in 1 .. Len(a)
    <3>1. 2 * k - 1 \in 1 .. Len(o) /\ 2 * k \in 1 .. Len(o)
      BY <1>2, <2>2 DEF Torn
    <3>2. QED
      BY <1>2, <1>3, <2>2, <3>1 DEF Stream
  <2>3. QED
    <3>1. k = Len(b) \/ k \in 1 .. Len(a)
      BY ONLY <1>2, <1>3, k \in 1 .. Len(b)
    <3>2. QED
      BY ONLY <2>1, <2>2, <3>1
<1>5. Whole(p, b)
  BY <1>2, <1>3 DEF Torn, Whole
<1>6. Len(b) \in Nat /\ Len(p) = 2 * Len(b) /\ Len(p) # 2 * Len(b) + 1
  BY <1>5 DEF Whole
<1>7. QED
  BY ONLY <1>4, <1>5, <1>6 DEF Stream

(***************************************************************************)
(* What comes after n whole messages: a body, and then the separator of    *)
(* the same message.                                                       *)
(***************************************************************************)
LEMMA NextBody ==
  ASSUME NEW o \in Seq(Byte), NEW a \in Seq(AllMsgs), Stream(o, a), NEW n \in Nat, 2 * n < Len(o)
  PROVE  o[2 * n + 1][2] = "body"
<1>1. Len(o) \in Nat /\ Len(a) \in Nat
  OBVIOUS
<1>2. CASE n + 1 \in 1 .. Len(a)
  <2>1. o[2 * (n + 1) - 1] = <<a[n + 1], "body">> /\ 2 * (n + 1) - 1 = 2 * n + 1
    BY <1>2 DEF Stream
  <2>2. QED
    BY <2>1
<1>3. CASE Len(o) = 2 * n + 1
  BY <1>1, <1>3 DEF Stream
<1>4. QED
  BY <1>1, <1>2, <1>3 DEF Stream

\* On a stream, after n messages and a body, the next byte is the separator of message n + 1.
LEMMA NextSep ==
  ASSUME NEW o \in Seq(Byte), NEW a \in Seq(AllMsgs), Stream(o, a), NEW n \in Nat, 2 * n + 1 < Len(o)
  PROVE  /\ n + 1 \in 1 .. Len(a) /\ a[n + 1] \in AllMsgs
         /\ o[2 * n + 1] = <<a[n + 1], "body">> /\ o[2 * n + 2] = <<a[n + 1], "sep">>
<1>1. Len(o) \in Nat /\ Len(a) \in Nat
  OBVIOUS
<1>2. n + 1 \in 1 .. Len(a)
  BY <1>1 DEF Stream
<1>3. 2 * (n + 1) - 1 = 2 * n + 1 /\ 2 * (n + 1) = 2 * n + 2
  OBVIOUS
<1>4. o[2 * (n + 1) - 1] = <<a[n + 1], "body">> /\ o[2 * (n + 1)] = <<a[n + 1], "sep">>
  BY <1>2 DEF Stream
<1>5. a[n + 1] \in AllMsgs
  BY <1>2, ElementOfSeq
<1>6. QED
  BY <1>2, <1>3, <1>4, <1>5

(***************************************************************************)
(* The messages read remain a beginning of those accepted.                 *)
(***************************************************************************)
LEMMA BeginsMore ==
  ASSUME NEW d \in Seq(AllMsgs \cup {NoMsg}), NEW a \in Seq(AllMsgs), Begins(d, a)
  PROVE  /\ Len(d) + 1 \in 1 .. Len(a) => Begins(Append(d, a[Len(d) + 1]), a)
         /\ \A m \in AllMsgs : Begins(d, Append(a, m))
<1>0. Len(d) \in Nat /\ Len(a) \in Nat
  OBVIOUS
<1>1. ASSUME Len(d) + 1 \in 1 .. Len(a) PROVE Begins(Append(d, a[Len(d) + 1]), a)
  <2>1. a[Len(d) + 1] \in AllMsgs \cup {NoMsg}
    BY <1>1, ElementOfSeq
  <2>2. PICK x \in AllMsgs \cup {NoMsg} : x = a[Len(d) + 1]
    BY <2>1
  <2>3. PICK e \in Seq(AllMsgs \cup {NoMsg}) : e = Append(d, x)
    BY AppendProperties
  <2>4. Len(e) = Len(d) + 1 /\ e[Len(d) + 1] = x /\ \A i \in 1 .. Len(d) : e[i] = d[i]
    BY <2>3, AppendProperties
  <2>5. Begins(e, a)
    BY ONLY <1>0, <1>1, <2>2, <2>4, Begins(d, a) DEF Begins
  <2>6. QED
    BY <2>2, <2>3, <2>5, Zenon
<1>2. ASSUME NEW m \in AllMsgs PROVE Begins(d, Append(a, m))
  <2>1. PICK b \in Seq(AllMsgs) : b = Append(a, m)
    BY AppendProperties
  <2>2. Len(b) = Len(a) + 1 /\ \A i \in 1 .. Len(a) : b[i] = a[i]
    BY <2>1, AppendProperties
  <2>3. Begins(d, b)
    BY ONLY <1>0, <2>2, Begins(d, a) DEF Begins
  <2>4. QED
    BY <2>1, <2>3, Zenon
<1>3. QED
  BY <1>1, <1>2

\* What begins with the accepted messages is a prefix of them.
LEMMA BeginsIsPrefix ==
  ASSUME NEW d \in Seq(AllMsgs \cup {NoMsg}), NEW a \in Seq(AllMsgs), Begins(d, a)
  PROVE  IsPrefix(d, a)
<1>1. Len(d) \in Nat /\ Len(a) \in Nat /\ Len(d) <= Len(a)
  BY DEF Begins
<1>2. SubSeq(d, 1, Len(d)) = [i \in 1 .. Len(d) |-> d[i]] /\ SubSeq(a, 1, Len(d)) = [i \in 1 .. Len(d) |-> a[i]]
  BY <1>1
<1>3. QED
  BY <1>1, <1>2 DEF IsPrefix, Begins

-----------------------------------------------------------------------------
(***************************************************************************)
(* Whether client process c has connected, and a connection end e has not  *)
(* used.                                                                   *)
(***************************************************************************)
Made(c) == c < run["cli"] \/ c = conn["cli"]

Blank(c, e) == /\ Len(out[c][e]) = 0 /\ got[c][e] = 0
               /\ Len(accepted[c][e]) = 0 /\ Len(delivered[c][e]) = 0

(***************************************************************************)
(* The server has used none of the connections that wait to be accepted,   *)
(* nobody those that are not made yet, and none waits twice or after it    *)
(* was accepted.                                                           *)
(***************************************************************************)
Links ==
  /\ IsInjective(pending)
  /\ \A c \in Range(pending) : c # conn["serv"] /\ Blank(c, "serv") /\ Made(c)
  /\ \A c \in Conns : ~Made(c) => c # conn["serv"] /\ Blank(c, "serv") /\ Blank(c, "cli")

(***************************************************************************)
(* An end is at the place in its stream its call says: between messages,   *)
(* or between a body and its separator. Only an end that can still use its *)
(* connection has to be: a failed one has left its stream where it was for *)
(* good.                                                                   *)
(***************************************************************************)
WriterAt(e, c) ==
  IF pc[e] = "write"
  THEN \/ buf[e] = Bytes(call[e].msg) /\ Whole(out[c][e], accepted[c][e])
       \/ buf[e] = <<<<call[e].msg, "sep">>>> /\ Torn(out[c][e], accepted[c][e], call[e].msg)
  ELSE Whole(out[c][e], accepted[c][e])

ReaderAt(e, c) ==
  IF pc[e] = "read"
  THEN \/ buf[e] = <<>> /\ got[c][e] = 2 * Len(delivered[c][e])
       \/ /\ got[c][e] = 2 * Len(delivered[c][e]) + 1
          /\ got[c][e] <= Len(out[c][Peer(e)])
          /\ buf[e] = <<out[c][Peer(e)][got[c][e]]>>
  ELSE got[c][e] = 2 * Len(delivered[c][e])

Using(e) == /\ state_[e] # "IDLE" /\ Usable(e)
            /\ pc[e] = "idle" => state_[e] = "CONNECTED"

Wire ==
  /\ \A c \in Conns, e \in Ends : Stream(out[c][e], accepted[c][e]) /\ Begins(delivered[c][e], accepted[c][Peer(e)])
  /\ \A e \in Ends : Using(e) => WriterAt(e, conn[e]) /\ ReaderAt(e, conn[e])

(***************************************************************************)
(* What a byte that is written, and one that is read, changes.             *)
(***************************************************************************)
LEMMA StreamTypes ==
  ASSUME TypeOK, NEW c \in Conns, NEW e \in Ends
  PROVE  /\ out[c][e] \in Seq(Byte) /\ got[c][e] \in Nat
         /\ accepted[c][e] \in Seq(AllMsgs) /\ delivered[c][e] \in Seq(AllMsgs \cup {NoMsg})
BY DEF TypeOK, NetTypes, HistTypes

WriteGoesOn(e) == /\ buf'[e] = Tail(buf[e]) /\ pc'[e] = pc[e] /\ call'[e] = call[e]
                  /\ accepted'[conn[e]][e] = accepted[conn[e]][e]
WriteEnds(e) == /\ pc'[e] = "idle"
                /\ accepted'[conn[e]][e] = Append(accepted[conn[e]][e], call[e].msg)

ReadGoesOn(e, byte) == /\ buf'[e] = Append(buf[e], byte) /\ pc'[e] = pc[e]
                       /\ delivered'[conn[e]][e] = delivered[conn[e]][e]
ReadThrows(e) == /\ pc'[e] = "idle" /\ state_'[e] # "CONNECTED"
                 /\ delivered'[conn[e]][e] = delivered[conn[e]][e]
ReadEnds(e, byte) ==
  /\ pc'[e] = "idle"
  /\ delivered'[conn[e]][e] = Append(delivered[conn[e]][e], IF Append(buf[e], byte) = Bytes(byte[1]) THEN byte[1] ELSE NoMsg)

\* What writing a byte changes, and what it leaves alone.
LEMMA WriteEffect ==
  ASSUME TypeOK, Control, NEW e \in Ends, WriteByte(e)
  PROVE  /\ conn[e] \in Conns /\ pc[e] = "write" /\ call[e].msg \in AllMsgs
         /\ out'[conn[e]][e] = Append(out[conn[e]][e], Head(buf[e]))
         /\ \A d \in Conns, x \in Ends : d # conn[e] \/ x # e => out'[d][x] = out[d][x] /\ accepted'[d][x] = accepted[d][x]
         /\ UNCHANGED <<run, conn, sockOpen, pending, got, delivered>>
         /\ \A x \in Ends : x # e => state_'[x] = state_[x] /\ pc'[x] = pc[x] /\ call'[x] = call[x] /\ buf'[x] = buf[x]
         /\ (Len(buf[e]) > 1 /\ WriteGoesOn(e)) \/ (Len(buf[e]) = 1 /\ WriteEnds(e))
<1> DEFINE c == conn[e]
<1>1. c \in Conns /\ pc[e] = "write" /\ call[e].msg \in AllMsgs
  BY EndsAre, ConnTypes DEF WriteByte, Control, Within, InCall, Usable, TypeOK, EndTypes
<1>2. UNCHANGED <<run, conn, sockOpen, pending, got, delivered>>
  BY DEF WriteByte, descVars
<1>3. out' = [out EXCEPT ![c][e] = Append(@, Head(buf[e]))]
  BY DEF WriteByte
<1>4. /\ out'[c][e] = Append(out[c][e], Head(buf[e]))
      /\ \A d \in Conns, x \in Ends : d # c \/ x # e => out'[d][x] = out[d][x]
  BY ONLY <1>1, <1>3, e \in Ends, out \in [Conns -> [Ends -> Seq(Byte)]], TypeOK DEF TypeOK, NetTypes
<1>5. CASE Len(buf[e]) > 1 /\ buf' = [buf EXCEPT ![e] = Tail(@)] /\ UNCHANGED <<state_, pc, call, errno, accepted>>
  <2>1. buf'[e] = Tail(buf[e]) /\ \A x \in Ends : x # e => buf'[x] = buf[x]
    BY <1>5 DEF TypeOK, EndTypes
  <2>2. QED
    BY <1>1, <1>2, <1>4, <1>5, <2>1 DEF WriteGoesOn
<1>6. CASE /\ Len(buf[e]) = 1 /\ Return(e) /\ state_' = [state_ EXCEPT ![e] = "CONNECTED"]
           /\ accepted' = [accepted EXCEPT ![c][e] = Append(@, call[e].msg)]
  <2>1. /\ accepted'[c][e] = Append(accepted[c][e], call[e].msg)
        /\ \A d \in Conns, x \in Ends : d # c \/ x # e => accepted'[d][x] = accepted[d][x]
    BY <1>1, <1>6 DEF TypeOK, HistTypes
  <2>2. \A x \in Ends : x # e => state_'[x] = state_[x]
    BY <1>6 DEF TypeOK, EndTypes
  <2>3. /\ pc'[e] = "idle"
        /\ \A x \in Ends : x # e => pc'[x] = pc[x] /\ buf'[x] = buf[x] /\ call'[x] = call[x]
    BY <1>6, ReturnEffect
  <2>4. WriteEnds(e)
    BY <2>1, <2>3 DEF WriteEnds
  <2>5. QED
    BY <1>1, <1>2, <1>4, <1>6, <2>1, <2>2, <2>3, <2>4
<1>7. QED
  BY <1>5, <1>6, Zenon DEF WriteByte

\* What reading a byte changes, and what it leaves alone.
LEMMA ReadEffect ==
  ASSUME TypeOK, Control, NEW e \in Ends, ReadByte(e),
         NEW byte, byte = out[conn[e]][Peer(e)][got[conn[e]][e] + 1]
  PROVE  /\ conn[e] \in Conns /\ pc[e] = "read" /\ byte \in Byte /\ got[conn[e]][e] + 1 \in 1 .. Len(out[conn[e]][Peer(e)])
         /\ got'[conn[e]][e] = got[conn[e]][e] + 1
         /\ \A d \in Conns, x \in Ends : d # conn[e] \/ x # e => got'[d][x] = got[d][x] /\ delivered'[d][x] = delivered[d][x]
         /\ UNCHANGED <<run, conn, sockOpen, pending, out, accepted>>
         /\ \A x \in Ends : x # e => state_'[x] = state_[x] /\ pc'[x] = pc[x] /\ call'[x] = call[x] /\ buf'[x] = buf[x]
         /\ IF byte[2] # "sep" THEN ReadGoesOn(e, byte) ELSE ReadThrows(e) \/ ReadEnds(e, byte)
<1> DEFINE c == conn[e]
           whole == Append(buf[e], byte) = Bytes(byte[1])
<1>1. c \in Conns /\ pc[e] = "read" /\ state_[e] # "IDLE"
  BY EndsAre, ConnTypes DEF ReadByte, Control, Within, InCall, Usable
<1>11. state_[e] = "READING"
  BY <1>1 DEF Control, Within, InCall
<1>2. UNCHANGED <<run, conn, sockOpen, pending, out, accepted>>
  BY DEF ReadByte, descVars
<1>3. byte \in Byte /\ got[conn[e]][e] + 1 \in 1 .. Len(out[conn[e]][Peer(e)])
  BY <1>1, NextIsByte DEF ReadByte
<1>4. got' = [got EXCEPT ![c][e] = @ + 1]
  BY DEF ReadByte
<1>5. /\ got'[c][e] = got[c][e] + 1
      /\ \A d \in Conns, x \in Ends : d # c \/ x # e => got'[d][x] = got[d][x]
  BY <1>1, <1>4 DEF TypeOK, NetTypes
<1>6. CASE /\ byte[2] # "sep" /\ buf' = [buf EXCEPT ![e] = Append(@, byte)]
           /\ UNCHANGED <<state_, pc, call, errno, delivered, threw>>
  <2>1. buf'[e] = Append(buf[e], byte) /\ \A x \in Ends : x # e => buf'[x] = buf[x]
    BY <1>6 DEF TypeOK, EndTypes
  <2>2. QED
    BY <1>1, <1>2, <1>3, <1>5, <1>6, <2>1 DEF ReadGoesOn
<1>7. CASE /\ byte[2] = "sep" /\ Return(e)
           /\ IF whole /\ byte[1] \in Unreadable THEN UNCHANGED <<state_, delivered>>
              ELSE /\ state_' = [state_ EXCEPT ![e] = "CONNECTED"]
                   /\ delivered' = [delivered EXCEPT ![c][e] = Append(@, IF whole THEN byte[1] ELSE NoMsg)]
  <2>1. /\ pc'[e] = "idle" /\ \A x \in Ends : x # e => pc'[x] = pc[x] /\ call'[x] = call[x] /\ buf'[x] = buf[x]
    BY <1>7, ReturnEffect
  <2>2. \A x \in Ends : x # e => state_'[x] = state_[x]
    BY <1>7 DEF TypeOK, EndTypes
  <2>3. CASE UNCHANGED <<state_, delivered>>
    BY <1>1, <1>11, <1>2, <1>3, <1>5, <1>7, <2>1, <2>2, <2>3 DEF ReadThrows
  <2>4. CASE delivered' = [delivered EXCEPT ![c][e] = Append(@, IF whole THEN byte[1] ELSE NoMsg)]
    <3>1. PICK m : m = IF whole THEN byte[1] ELSE NoMsg
      OBVIOUS
    <3>2. delivered' = [delivered EXCEPT ![c][e] = Append(@, m)]
      BY <2>4, <3>1, Zenon
    <3>3. /\ delivered'[c][e] = Append(delivered[c][e], m)
          /\ \A d \in Conns, x \in Ends : d # c \/ x # e => delivered'[d][x] = delivered[d][x]
      BY <1>1, <3>2 DEF TypeOK, HistTypes
    <3>4. QED
      BY <1>1, <1>2, <1>3, <1>5, <1>7, <2>1, <2>2, <3>1, <3>3, Zenon DEF ReadEnds
  <2>5. QED
    BY <1>7, <2>3, <2>4, Zenon
<1>8. QED
  BY <1>6, <1>7, Zenon DEF ReadByte

-----------------------------------------------------------------------------
(***************************************************************************)
(* Bytes are moved on the connections the ends have.                       *)
(***************************************************************************)
LEMMA LinksKept ==
  ASSUME TypeOK, Links, pending' = pending \/ pending' = <<>>, UNCHANGED <<run, conn>>,
         \A d \in Conns, x \in Ends : d # conn[x] =>
            /\ out'[d][x] = out[d][x] /\ got'[d][x] = got[d][x]
            /\ accepted'[d][x] = accepted[d][x] /\ delivered'[d][x] = delivered[d][x]
  PROVE  Links'
<1>1. \A c \in Conns : Made(c)' = Made(c)
  BY DEF Made
<1>2. Range(pending) \subseteq Conns
  BY DEF TypeOK, NetTypes, Range
<1>3. Range(<<>>) = {} /\ IsInjective(<<>>)
  BY DEF Range, IsInjective
<1>4. IsInjective(pending') /\ Range(pending') \subseteq Range(pending)
  BY <1>3 DEF Links
<1>5. \A c \in Conns, x \in Ends : c # conn[x] /\ Blank(c, x) => Blank(c, x)'
  BY DEF Blank
<1>6. \A c \in Conns : c # conn["serv"] /\ Blank(c, "serv") => Blank(c, "serv")'
  BY <1>5, EndsAre
<1>7. \A c \in Conns : ~Made(c) /\ Blank(c, "cli") => Blank(c, "cli")'
  BY <1>5, EndsAre DEF Made
<1>8. QED
  BY <1>1, <1>2, <1>4, <1>6, <1>7 DEF Links

streams == <<out, got, accepted, delivered>>

(***************************************************************************)
(* Accepting and making a connection, and starting a process.              *)
(***************************************************************************)
LEMMA AcceptLinks == ASSUME TypeOK, Links, Accept PROVE Links'
<1>1. /\ pending \in Seq(Conns) /\ pending # <<>> /\ pending' = Tail(pending)
      /\ conn'["serv"] = Head(pending) /\ conn'["cli"] = conn["cli"] /\ UNCHANGED <<run, streams>>
  BY EndsAre DEF Accept, streams, TypeOK, NetTypes
<1>2. /\ Head(pending) \in Range(pending) /\ Range(Tail(pending)) = Range(pending) \ {Head(pending)}
      /\ IsInjective(Tail(pending))
  BY <1>1, TailRest DEF Links
<1>3. \A c : Made(c)' = Made(c)
  BY <1>1 DEF Made
<1>4. \A c, x : Blank(c, x)' = Blank(c, x)
  BY <1>1 DEF Blank, streams
<1>5. QED
  BY <1>1, <1>2, <1>3, <1>4 DEF Links

\* A connect keeps the connections of the two ends related.
LEMMA ConnectLinks == ASSUME TypeOK, Control, Links, Connect PROVE Links'
<1>1. /\ pending \in Seq(Conns) /\ pending' = Append(pending, run["cli"]) /\ run["cli"] \in Conns
      /\ conn'["cli"] = run["cli"] /\ conn'["serv"] = conn["serv"] /\ UNCHANGED <<run, streams>>
  BY EndsAre, ConnTypes DEF Connect, streams, TypeOK, NetTypes
<1>2. conn["cli"] = 0
  BY EndsAre DEF Connect, Control, Within
<1>3. ~Made(run["cli"]) /\ run["cli"] \notin Range(pending)
  BY <1>1, <1>2, EndsAre, ConnTypes DEF Made, Links, TypeOK, EndTypes
<1>4. Range(pending') = Range(pending) \cup {run["cli"]} /\ IsInjective(pending')
  BY <1>1, <1>3, AppendNew DEF Links
<1>5. \A c \in Conns : Made(c)' <=> Made(c) \/ c = run["cli"]
  BY <1>1, <1>2, ConnTypes DEF Made
<1>6. \A c, x : Blank(c, x)' = Blank(c, x)
  BY <1>1 DEF Blank, streams
<1>7. Range(pending) \subseteq Conns
  BY <1>1 DEF Range
<1>8. QED
  BY <1>1, <1>3, <1>4, <1>5, <1>6, <1>7 DEF Links

\* So does a new process, whose connection number is new.
LEMMA RestartLinks == ASSUME TypeOK, Control, Links, NEW e \in Ends, Restart(e) PROVE Links'
<1>1. /\ UNCHANGED <<pending, streams>> /\ conn'[e] = 0 /\ \A x \in Ends : x # e => conn'[x] = conn[x]
      /\ IF e = "cli" THEN run'["cli"] = run["cli"] + 1 ELSE run'["cli"] = run["cli"]
  BY EndsAre DEF Restart, streams, netVars, TypeOK, NetTypes, EndTypes
<1>2. 0 \notin Conns /\ \A c \in Conns : c \in Nat
  BY ConnTypes DEF Conns
<1>3. run["cli"] \in Nat
  BY EndsAre DEF TypeOK, EndTypes
<1>4. \A c \in Conns : Made(c) => Made(c)'
  BY <1>1, <1>2, <1>3, EndsAre DEF Made, Control
<1>5. \A c, x : Blank(c, x)' = Blank(c, x)
  BY <1>1 DEF Blank, streams
<1>6. Range(pending) \subseteq Conns
  BY DEF Range, TypeOK, NetTypes
<1>7. \A c \in Conns : c # conn["serv"] => c # conn'["serv"]
  BY <1>1, <1>2, EndsAre
<1>8. QED
  BY <1>1, <1>4, <1>5, <1>6, <1>7 DEF Links

\* So does every step.
LEMMA LinksStep == ASSUME TypeOK, Control, Links, [Next]_vars PROVE Links'
<1>1. ASSUME UNCHANGED <<run, conn, streams>>, pending' = pending \/ pending' = <<>> PROVE Links'
  BY <1>1, LinksKept DEF streams
<1>2. ASSUME NEW e \in Ends, Call(e) \/ SelectReady(e) \/ Fails(e) \/ TimeOut(e) \/ Destroy(e) \/ Exit(e) PROVE Links'
  <2>1. UNCHANGED <<run, conn, streams>>
    BY <1>2 DEF Call, SelectReady, Fails, Fail, TimeOut, Destroy, Exit, descVars, netVars, histVars, streams
  <2>2. pending' = pending \/ pending' = <<>>
    BY <1>2 DEF Call, SelectReady, Fails, Fail, TimeOut, Destroy, Exit, descVars, netVars, ListenerClosed
  <2>3. QED
    BY <1>1, <2>1, <2>2
<1>3. CASE ConnectFails
  BY <1>1, <1>3 DEF ConnectFails, netVars, histVars, streams
<1>4. CASE UNCHANGED vars
  BY <1>1, <1>4 DEF vars, endVars, descVars, netVars, histVars, streams
<1>5. ASSUME NEW e \in Ends, ReadByte(e) PROVE Links'
  <2>1. PICK byte : byte = out[conn[e]][Peer(e)][got[conn[e]][e] + 1]
    OBVIOUS
  <2>2. /\ \A d \in Conns, x \in Ends : d # conn[e] \/ x # e => got'[d][x] = got[d][x] /\ delivered'[d][x] = delivered[d][x]
        /\ UNCHANGED <<run, conn, pending, out, accepted>>
    BY <1>5, <2>1, ReadEffect
  <2>3. QED
    BY <2>2, LinksKept
<1>6. ASSUME NEW e \in Ends, WriteByte(e) PROVE Links'
  <2>1. /\ \A d \in Conns, x \in Ends : d # conn[e] \/ x # e => out'[d][x] = out[d][x] /\ accepted'[d][x] = accepted[d][x]
        /\ UNCHANGED <<run, conn, pending, got, delivered>>
    BY <1>6, WriteEffect
  <2>2. QED
    BY <2>1, LinksKept
<1>7. QED
  BY <1>2, <1>3, <1>4, <1>5, <1>6, NextCases, AcceptLinks, ConnectLinks, RestartLinks, Zenon

-----------------------------------------------------------------------------
(***************************************************************************)
(* An end whose connection and call do not change is where it was.         *)
(***************************************************************************)
Placed(e) == Using(e) => WriterAt(e, conn[e]) /\ ReaderAt(e, conn[e])

\* An end that uses its connection has one.
LEMMA UsingConnected ==
  ASSUME TypeOK, Control, NEW e \in Ends, Using(e)
  PROVE  conn[e] \in Conns
BY EndsAre, ConnTypes DEF Using, Usable, Control

\* An end is placed on its stream as long as neither changes.
LEMMA PlacedKept ==
  ASSUME NEW e \in Ends, Placed(e), UNCHANGED <<streams, conn[e], pc[e], call[e], buf[e], state_[e]>>, Using(e)' => Using(e)
  PROVE  Placed(e)'
<1>1. WriterAt(e, conn[e])' = WriterAt(e, conn[e])
  BY DEF WriterAt, streams
<1>2. ReaderAt(e, conn[e])' = ReaderAt(e, conn[e])
  BY DEF ReaderAt, streams
<1>3. QED
  BY <1>1, <1>2 DEF Placed

\* An end that is not in the middle of a message is placed by its counts alone.
LEMMA BetweenBytes ==
  ASSUME Wire, NEW e \in Ends, Using(e), UNCHANGED <<streams, conn[e]>>,
         pc[e] \notin {"read", "write"}, pc'[e] \notin {"read", "write"}
  PROVE  Placed(e)'
BY DEF Wire, Placed, WriterAt, ReaderAt, streams

\* The wire invariant needs only the places of the ends while the streams stay.
LEMMA WireKept ==
  ASSUME Wire, UNCHANGED streams, \A e \in Ends : Placed(e)'
  PROVE  Wire'
BY DEF Wire, Placed, streams

(***************************************************************************)
(* The actions that move no byte.                                          *)
(***************************************************************************)
LEMMA CallWire == ASSUME TypeOK, Control, Wire, NEW e \in Ends, Call(e) PROVE Wire'
<1>1. /\ UNCHANGED <<streams, conn, buf, sockOpen>> /\ pc[e] = "idle"
  BY DEF Call, netVars, descVars, streams
<1>2. /\ pc'[e] \in {"idle", "connect", "select"} /\ (state_[e] = "IDLE" => state_'[e] = "IDLE")
      /\ state_[e] \in {"IDLE", "CONNECTED"}
      /\ \A x \in Ends : x # e => state_'[x] = state_[x] /\ pc'[x] = pc[x] /\ call'[x] = call[x]
  <2>1. PICK k, n :
          \/ /\ state_[e] = "IDLE"
             /\ pc' = [pc EXCEPT ![e] = "connect"]
             /\ call' = [call EXCEPT ![e] = k]
             /\ UNCHANGED <<state_, threw>>
          \/ /\ state_[e] = "CONNECTED"
             /\ Enter(e, k)
    BY DEF Call
  <2>2. CASE state_[e] = "IDLE"
    BY <2>1, <2>2 DEF TypeOK, EndTypes
  <2>3. CASE state_[e] = "CONNECTED"
    BY <2>1, <2>3, EnterEffect
  <2>4. QED
    BY <2>1, <2>2, <2>3
<1>3. \A x \in Ends : x # e => Placed(x)'
  BY <1>1, <1>2, PlacedKept, EndsAre DEF Wire, Placed, Using, Usable
<1>4. Placed(e)'
  <2>1. CASE state_[e] = "IDLE"
    BY <1>2, <2>1 DEF Placed, Using
  <2>2. CASE state_[e] = "CONNECTED"
    <3>1. CASE Using(e)
      BY <1>1, <1>2, <3>1, BetweenBytes
    <3>2. CASE ~Using(e)
      BY <1>1, <1>2, <2>2, <3>2 DEF Placed, Using, Usable
    <3>3. QED
      BY <3>1, <3>2
  <2>3. QED
    BY <1>2, <2>1, <2>2
<1>5. QED
  BY <1>1, <1>3, <1>4, WireKept

\* It is kept by connecting and accepting,
LEMMA MeetWire == ASSUME TypeOK, Control, Links, Wire, Accept \/ Connect PROVE Wire'
<1>1. PICK e \in Ends :
        /\ Enter(e, call[e]) /\ UNCHANGED <<streams, buf, sockOpen>>
        /\ conn'[e] \in Conns /\ Blank(conn'[e], e)
        /\ \A x \in Ends : x # e => conn'[x] = conn[x]
  <2>1. CASE Accept
    <3>1. Head(pending) \in Range(pending)
      BY <2>1, TailRest DEF Accept, Links, TypeOK, NetTypes
    <3>2. QED
      BY <2>1, <3>1, EndsAre, ConnTypes DEF Accept, Links, streams, TypeOK, NetTypes
  <2>2. CASE Connect
    <3>1. conn["cli"] = 0 /\ run["cli"] \in Conns /\ run["cli"] \in Nat
      BY <2>2, EndsAre, ConnTypes DEF Connect, Control, Within, TypeOK, EndTypes
    <3>2. ~Made(run["cli"])
      BY <3>1, ConnTypes DEF Made
    <3>3. QED
      BY <2>2, <3>1, <3>2, EndsAre DEF Connect, Links, streams, TypeOK, NetTypes
  <2>3. QED
    BY <2>1, <2>2
<1>2. /\ pc'[e] \in {"idle", "select"}
      /\ \A x \in Ends : x # e => state_'[x] = state_[x] /\ pc'[x] = pc[x] /\ call'[x] = call[x]
  BY <1>1, EnterEffect
<1>3. \A x \in Ends : x # e => Placed(x)'
  BY <1>1, <1>2, PlacedKept, EndsAre DEF Wire, Placed, Using, Usable
<1>4. Placed(e)'
  <2>1. PICK c \in Conns : c = conn'[e]
    BY <1>1
  <2>2. Whole(out'[c][e], accepted'[c][e]) /\ got'[c][e] = 2 * Len(delivered'[c][e])
    BY <1>1, <2>1 DEF Blank, Whole, streams
  <2>3. QED
    BY <1>2, <2>1, <2>2 DEF Placed, WriterAt, ReaderAt
<1>5. QED
  BY <1>1, <1>3, <1>4, WireKept

\* by a connect that is refused,
LEMMA ConnectFailsWire == ASSUME TypeOK, Control, Wire, ConnectFails PROVE Wire'
<1>1. /\ UNCHANGED <<streams, conn>> /\ ~sockOpen' /\ Return("cli") /\ state_'["serv"] = state_["serv"]
  BY EndsAre DEF ConnectFails, netVars, histVars, streams, TypeOK, EndTypes
<1>2. Placed("serv")'
  BY <1>1, ReturnEffect, PlacedKept, EndsAre DEF Wire, Placed, Using, Usable
<1>3. Placed("cli")'
  BY <1>1 DEF Placed, Using, Usable
<1>4. QED
  BY <1>1, <1>2, <1>3, WireKept, EndsAre

\* by a select that returns,
LEMMA SelectWire == ASSUME TypeOK, Control, Wire, NEW e \in Ends, SelectReady(e) PROVE Wire'
<1>1. UNCHANGED <<streams, conn, sockOpen>> /\ pc[e] = "select" /\ Usable(e) /\ state_[e] # "IDLE"
  BY DEF SelectReady, descVars, netVars, histVars, streams, Control, Within, InCall
<1>2. Using(e) /\ Placed(e)
  BY <1>1 DEF Using, Placed, Wire
<1>3. CASE Return(e) /\ state_' = [state_ EXCEPT ![e] = "CONNECTED"]
  <2>1. \A x \in Ends : x # e => state_'[x] = state_[x]
    BY <1>3 DEF TypeOK, EndTypes
  <2>2. \A x \in Ends : x # e => Placed(x)'
    BY <1>1, <1>3, <2>1, ReturnEffect, PlacedKept, EndsAre DEF Wire, Placed, Using, Usable
  <2>3. Placed(e)'
    BY <1>1, <1>2, <1>3, ReturnEffect, BetweenBytes
  <2>4. QED
    BY <1>1, <2>2, <2>3, WireKept
<1>4. CASE /\ call[e].op \in PopOps \cup PushOps
           /\ pc' = [pc EXCEPT ![e] = IF IsDeq(e) THEN "read" ELSE "write"]
           /\ buf' = [buf EXCEPT ![e] = IF IsDeq(e) THEN <<>> ELSE Bytes(call[e].msg)]
           /\ UNCHANGED <<state_, call, errno>>
  <2>1. /\ \A x \in Ends : x # e => pc'[x] = pc[x] /\ buf'[x] = buf[x]
        /\ \/ pc'[e] = "read" /\ buf'[e] = <<>>
           \/ pc'[e] = "write" /\ buf'[e] = Bytes(call'[e].msg)
    BY <1>4 DEF TypeOK, EndTypes
  <2>2. \A x \in Ends : x # e => Placed(x)'
    BY <1>1, <1>4, <2>1, PlacedKept, EndsAre DEF Wire, Placed, Using, Usable
  <2>3. Placed(e)'
    BY <1>1, <1>2, <2>1 DEF Placed, WriterAt, ReaderAt, streams
  <2>4. QED
    BY <1>1, <2>2, <2>3, WireKept
<1>5. QED
  BY <1>3, <1>4 DEF SelectReady

\* by an end that fails, exits, restarts or is destroyed, which uses its connection no longer,
LEMMA IdleWire ==
  ASSUME TypeOK, Control, Wire, NEW e \in Ends, Fails(e) \/ Exit(e) \/ Restart(e) \/ Destroy(e)
  PROVE  Wire'
<1>1. UNCHANGED streams /\ \A x \in Ends : x # e => conn'[x] = conn[x] /\ state_'[x] = state_[x]
  BY DEF Fails, Fail, Exit, Restart, Destroy, netVars, histVars, streams, TypeOK, EndTypes, NetTypes
<1>2. \A x \in Ends : x # e => pc'[x] = pc[x] /\ buf'[x] = buf[x] /\ call'[x] = call[x]
  BY ReturnEffect DEF Fails, Fail, Exit, Restart, Destroy
<1>3. e # "cli" => sockOpen' = sockOpen
  BY EndsAre DEF Fails, Fail, Exit, Restart, Destroy, TypeOK, NetTypes
<1>4. \A x \in Ends : x # e => Placed(x)'
  BY <1>1, <1>2, <1>3, PlacedKept, EndsAre DEF Wire, Placed, Using, Usable
<1>5. Placed(e)'
  <2>1. CASE Destroy(e)
    <3>1. UNCHANGED <<conn, state_, pc, buf, call>> /\ (sockOpen' => sockOpen)
      BY <2>1 DEF Destroy
    <3>2. QED
      BY <1>1, <3>1, PlacedKept DEF Wire, Placed, Using, Usable
  <2>2. CASE Fails(e) \/ Exit(e) \/ Restart(e)
    <3>1. state_'[e] = "IDLE"
      BY <2>2 DEF Fails, Fail, Exit, Restart, TypeOK, EndTypes, Control, Within
    <3>2. QED
      BY <3>1 DEF Placed, Using
  <2>3. QED
    BY <2>1, <2>2
<1>6. QED
  BY <1>1, <1>4, <1>5, WireKept

\* by a timeout
LEMMA TimeOutWire == ASSUME TypeOK, Control, Wire, NEW e \in Ends, TimeOut(e) PROVE Wire'
<1>1. /\ Waits(e) /\ MayTimeOut(e) /\ UNCHANGED <<conn, sockOpen, streams>> /\ Return(e)
      /\ state_'[e] = IF state_[e] = "IDLE" THEN "IDLE" ELSE "CONNECTED"
      /\ \A x \in Ends : x # e => state_'[x] = state_[x]
  BY DEF TimeOut, descVars, netVars, histVars, streams, TypeOK, EndTypes
<1>2. \A x \in Ends : x # e => Placed(x)'
  BY <1>1, ReturnEffect, PlacedKept, EndsAre DEF Wire, Placed, Using, Usable
<1>3. Placed(e)'
  <2>1. CASE state_[e] = "IDLE"
    BY <1>1, <2>1 DEF Placed, Using
  <2>2. CASE state_[e] # "IDLE"
    <3>1. pc[e] = "select" /\ Usable(e)
      BY <1>1, <2>2 DEF Waits, MayTimeOut, Control, Within
    <3>2. Using(e)
      BY <2>2, <3>1 DEF Using
    <3>3. QED
      BY <1>1, <3>1, <3>2, ReturnEffect, BetweenBytes
  <2>3. QED
    BY <2>1, <2>2
<1>4. QED
  BY <1>1, <1>2, <1>3, WireKept

\* and by no step at all.
LEMMA UnchangedWire == ASSUME Wire, UNCHANGED vars PROVE Wire'
BY DEF vars, endVars, descVars, netVars, histVars, Wire, Using, Usable, WriterAt, ReaderAt

(***************************************************************************)
(* Writing a byte: the writer goes on in its stream, and the reader's      *)
(* place in it is the same.                                                *)
(***************************************************************************)
LEMMA BytesParts ==
  ASSUME NEW m
  PROVE  /\ Len(Bytes(m)) = 2 /\ Head(Bytes(m)) = <<m, "body">> /\ Tail(Bytes(m)) = <<<<m, "sep">>>>
         /\ Len(<<<<m, "sep">>>>) = 1 /\ Head(<<<<m, "sep">>>>) = <<m, "sep">>
         /\ Append(<<<<m, "body">>>>, <<m, "sep">>) = Bytes(m)
         /\ \A x : Append(<<>>, x) = <<x>>
<1>1. Len(Bytes(m)) = 2 /\ Head(Bytes(m)) = <<m, "body">> /\ Len(<<<<m, "sep">>>>) = 1 /\ Head(<<<<m, "sep">>>>) = <<m, "sep">>
  BY DEF Bytes
<1>2. Tail(Bytes(m)) = <<<<m, "sep">>>>
  BY DEF Bytes
<1>3. ASSUME NEW x, NEW y PROVE Append(<<x>>, y) = <<x, y>>
  <2>1. PICK p \in Seq({x, y}) : p = Append(<<x>>, y)
    BY Single, AppendProperties
  <2>2. Len(p) = 2 /\ p[1] = x /\ p[2] = y
    <3>1. <<x>> \in Seq({x, y}) /\ Len(<<x>>) = 1 /\ <<x>>[1] = x
      OBVIOUS
    <3>2. Len(p) = Len(<<x>>) + 1 /\ p[Len(<<x>>) + 1] = y /\ p[1] = <<x>>[1]
      BY <2>1, <3>1, AppendProperties
    <3>3. QED
      BY <3>1, <3>2
  <2>3. PICK q \in Seq({x, y}) : q = <<x, y>> /\ Len(q) = 2 /\ q[1] = x /\ q[2] = y
    <3>1. <<x, y>> \in Seq({x, y}) /\ Len(<<x, y>>) = 2 /\ <<x, y>>[1] = x /\ <<x, y>>[2] = y
      OBVIOUS
    <3>2. QED
      BY <3>1, Zenon
  <2>4. \A i \in 1 .. Len(p) : p[i] = q[i]
    BY <2>2, <2>3
  <2>5. p = q
    BY ONLY <2>2, <2>3, <2>4, p \in Seq({x, y}), q \in Seq({x, y}), SeqEqual
  <2>6. QED
    BY <2>1, <2>3, <2>5, Zenon
<1>4. ASSUME NEW x PROVE Append(<<>>, x) = <<x>>
  OBVIOUS
<1>5. Append(<<<<m, "body">>>>, <<m, "sep">>) = Bytes(m)
  BY <1>3, Zenon DEF Bytes
<1>6. QED
  BY <1>1, <1>2, <1>4, <1>5, Zenon

\* A byte written continues the stream of its writer.
LEMMA WriterWire ==
  ASSUME TypeOK, Control, Wire, NEW e \in Ends, WriteByte(e), NEW c \in Conns, c = conn[e]
  PROVE  /\ Stream(out'[c][e], accepted'[c][e]) /\ Placed(e)'
         /\ accepted'[c][e] = accepted[c][e] \/ \E m \in AllMsgs : accepted'[c][e] = Append(accepted[c][e], m)
         /\ \E x \in Byte : out'[c][e] = Append(out[c][e], x)
<1> DEFINE m == call[e].msg
<1>1. m \in AllMsgs /\ <<m, "body">> \in Byte /\ <<m, "sep">> \in Byte
  BY WriteEffect DEF Byte
<1>2. pc[e] = "write" /\ Using(e)
  BY WriteEffect DEF Using, Control, Within, InCall
<1>3. WriterAt(e, c) /\ ReaderAt(e, c) /\ Stream(out[c][e], accepted[c][e])
  BY <1>2 DEF Wire
<1>4. conn'[e] = c /\ got' = got /\ delivered' = delivered /\ pc'[e] # "read"
  BY <1>2, WriteEffect DEF WriteGoesOn, WriteEnds
<1>5. ReaderAt(e, c)'
  BY <1>2, <1>3, <1>4 DEF ReaderAt
<1>6. out[c][e] \in Seq(Byte) /\ accepted[c][e] \in Seq(AllMsgs)
  BY StreamTypes
<1>7. CASE buf[e] = Bytes(m) /\ Whole(out[c][e], accepted[c][e])
  <2>1. /\ Head(buf[e]) = <<m, "body">> /\ Tail(buf[e]) = <<<<m, "sep">>>> /\ Len(buf[e]) = 2
    BY <1>7, BytesParts, Zenon
  <2>2. /\ out'[c][e] = Append(out[c][e], <<m, "body">>) /\ accepted'[c][e] = accepted[c][e]
        /\ buf'[e] = <<<<m, "sep">>>> /\ call'[e] = call[e] /\ pc'[e] = "write"
    <3>1. out'[conn[e]][e] = Append(out[conn[e]][e], Head(buf[e])) /\ WriteGoesOn(e)
      BY <2>1, WriteEffect
    <3>2. QED
      BY <1>2, <2>1, <3>1, Zenon DEF WriteGoesOn
  <2>3. PICK p \in Seq(Byte) : p = Append(out[c][e], <<m, "body">>)
    BY <1>1, <1>6, AppendProperties
  <2>4. Stream(p, accepted[c][e]) /\ Torn(p, accepted[c][e], m)
    BY <1>1, <1>3, <1>6, <1>7, <2>3, BodyWritten
  <2>5. out'[c][e] = p
    BY <2>2, <2>3, Zenon
  <2>6. Stream(out'[c][e], accepted'[c][e]) /\ Torn(out'[c][e], accepted'[c][e], m)
    BY <2>2, <2>4, <2>5, Zenon
  <2>7. WriterAt(e, c)'
    BY <2>2, <2>6, Zenon DEF WriterAt
  <2>8. QED
    BY <1>1, <1>4, <1>5, <2>2, <2>6, <2>7, Zenon DEF Placed
<1>8. CASE buf[e] = <<<<m, "sep">>>> /\ Torn(out[c][e], accepted[c][e], m)
  <2>1. Head(buf[e]) = <<m, "sep">> /\ Len(buf[e]) = 1
    BY <1>8, BytesParts, Zenon
  <2>2. /\ out'[c][e] = Append(out[c][e], <<m, "sep">>) /\ accepted'[c][e] = Append(accepted[c][e], m)
        /\ pc'[e] = "idle"
    <3>1. out'[conn[e]][e] = Append(out[conn[e]][e], Head(buf[e])) /\ WriteEnds(e)
      <4>1. out'[conn[e]][e] = Append(out[conn[e]][e], Head(buf[e]))
        BY WriteEffect
      <4>2. (Len(buf[e]) > 1 /\ WriteGoesOn(e)) \/ (Len(buf[e]) = 1 /\ WriteEnds(e))
        BY WriteEffect
      <4>3. QED
        BY ONLY <2>1, <4>1, <4>2
    <3>2. QED
      BY <2>1, <3>1, Zenon DEF WriteEnds
  <2>3. PICK p \in Seq(Byte) : p = Append(out[c][e], <<m, "sep">>)
    BY <1>1, <1>6, AppendProperties
  <2>4. PICK b \in Seq(AllMsgs) : b = Append(accepted[c][e], m)
    BY <1>1, <1>6, AppendProperties
  <2>5. Stream(p, b) /\ Whole(p, b)
    BY <1>1, <1>3, <1>6, <1>8, <2>3, <2>4, SepWritten
  <2>6. out'[c][e] = p /\ accepted'[c][e] = b
    BY <2>2, <2>3, <2>4, Zenon
  <2>7. Stream(out'[c][e], accepted'[c][e]) /\ Whole(out'[c][e], accepted'[c][e])
    BY <2>5, <2>6, Zenon
  <2>8. WriterAt(e, c)'
    BY <2>2, <2>7 DEF WriterAt
  <2>9. QED
    BY <1>1, <1>4, <1>5, <2>2, <2>7, <2>8, Zenon DEF Placed
<1>9. QED
  BY <1>2, <1>3, <1>7, <1>8 DEF WriterAt

\* Appending a byte changes none of those before it.
LEMMA AppendKeeps ==
  ASSUME NEW o \in Seq(Byte), NEW p, NEW x \in Byte, p = Append(o, x)
  PROVE  \A g \in Nat : 0 < g /\ g <= Len(o) => g <= Len(p) /\ p[g] = o[g]
BY AppendProperties

\* Writing a byte keeps the wire invariant: the other end reads what it would have read.
LEMMA WriteWire == ASSUME TypeOK, Control, Wire, NEW e \in Ends, WriteByte(e) PROVE Wire'
<1>1. PICK c \in Conns : c = conn[e]
  BY WriteEffect
<1>2. /\ Stream(out'[c][e], accepted'[c][e]) /\ Placed(e)'
      /\ accepted'[c][e] = accepted[c][e] \/ \E m \in AllMsgs : accepted'[c][e] = Append(accepted[c][e], m)
      /\ \E x \in Byte : out'[c][e] = Append(out[c][e], x)
  BY <1>1, WriterWire
<1>3. /\ \A d \in Conns, x \in Ends : d # c \/ x # e => out'[d][x] = out[d][x] /\ accepted'[d][x] = accepted[d][x]
      /\ UNCHANGED <<conn, sockOpen, got, delivered>>
      /\ \A x \in Ends : x # e => state_'[x] = state_[x] /\ pc'[x] = pc[x] /\ call'[x] = call[x] /\ buf'[x] = buf[x]
  BY <1>1, WriteEffect
<1>4. ASSUME NEW d \in Conns, NEW x \in Ends
      PROVE  Stream(out'[d][x], accepted'[d][x]) /\ Begins(delivered'[d][x], accepted'[d][Peer(x)])
  <2>0. Stream(out[d][x], accepted[d][x]) /\ Begins(delivered[d][x], accepted[d][Peer(x)])
    BY DEF Wire
  <2>1. Stream(out'[d][x], accepted'[d][x])
    <3>1. CASE d = c /\ x = e
      BY <1>2, <3>1
    <3>2. CASE d # c \/ x # e
      BY <1>3, <2>0, <3>2
    <3>3. QED
      BY <3>1, <3>2
  <2>2. Begins(delivered[d][x], accepted'[d][Peer(x)])
    <3>1. CASE d = c /\ Peer(x) = e
      <4>1. delivered[d][x] \in Seq(AllMsgs \cup {NoMsg}) /\ accepted[d][Peer(x)] \in Seq(AllMsgs)
        BY StreamTypes, EndsAre
      <4>2. \A m \in AllMsgs : Begins(delivered[d][x], Append(accepted[d][Peer(x)], m))
        BY <2>0, <4>1, BeginsMore
      <4>3. QED
        BY <1>2, <2>0, <3>1, <4>2, Zenon
    <3>2. CASE d # c \/ Peer(x) # e
      BY <1>3, <2>0, <3>2, EndsAre
    <3>3. QED
      BY <3>1, <3>2
  <2>3. QED
    BY <1>3, <2>1, <2>2
<1>5. ASSUME NEW x \in Ends, x # e PROVE Placed(x)'
  <2>1. SUFFICES ASSUME Using(x)' PROVE WriterAt(x, conn[x])' /\ ReaderAt(x, conn[x])'
    BY DEF Placed
  <2>2. Using(x)
    BY <1>3, <1>5, <2>1 DEF Using, Usable
  <2>3. PICK d \in Conns : d = conn[x]
    BY <2>2, UsingConnected
  <2>4. WriterAt(x, d) /\ ReaderAt(x, d) /\ conn'[x] = d
    BY <1>3, <2>2, <2>3 DEF Wire
  <2>5. WriterAt(x, d)'
    BY <1>3, <1>5, <2>4 DEF WriterAt
  <2>6. ReaderAt(x, d)'
    <3>1. out[d][Peer(x)] \in Seq(Byte) /\ got[d][x] \in Nat /\ Len(delivered[d][x]) \in Nat /\ Peer(x) \in Ends
      BY StreamTypes, EndsAre
    <3>2. \A g \in Nat : 0 < g /\ g <= Len(out[d][Peer(x)])
             => g <= Len(out'[d][Peer(x)]) /\ out'[d][Peer(x)][g] = out[d][Peer(x)][g]
      <4>1. CASE d = c /\ Peer(x) = e
        BY <1>2, <3>1, <4>1, AppendKeeps
      <4>2. CASE d # c \/ Peer(x) # e
        BY <1>3, <3>1, <4>2
      <4>3. QED
        BY <4>1, <4>2
    <3>3. got[d][x] = 2 * Len(delivered[d][x]) + 1 => got[d][x] > 0
      BY <3>1
    <3>4. pc'[x] = pc[x] /\ buf'[x] = buf[x] /\ got'[d][x] = got[d][x] /\ delivered'[d][x] = delivered[d][x]
      BY <1>3, <1>5
    <3>5. QED
      BY <2>4, <3>1, <3>2, <3>3, <3>4, Zenon DEF ReaderAt
  <2>7. QED
    BY <2>4, <2>5, <2>6
<1>6. QED
  BY <1>2, <1>4, <1>5 DEF Wire, Placed

(***************************************************************************)
(* Reading a byte: a separator ends the message that was begun.            *)
(***************************************************************************)
LEMMA ReaderWire ==
  ASSUME TypeOK, Control, Wire, NEW e \in Ends, ReadByte(e), NEW c \in Conns, c = conn[e]
  PROVE  Begins(delivered'[c][e], accepted[c][Peer(e)]) /\ Placed(e)'
<1>1. PICK o \in Seq(Byte), a \in Seq(AllMsgs), d \in Seq(AllMsgs \cup {NoMsg}), g \in Nat :
         o = out[c][Peer(e)] /\ a = accepted[c][Peer(e)] /\ d = delivered[c][e] /\ g = got[c][e]
  BY StreamTypes, EndsAre
<1>2. PICK byte : byte = out[conn[e]][Peer(e)][got[conn[e]][e] + 1]
  OBVIOUS
<1>3. byte = o[g + 1] /\ byte \in Byte /\ g + 1 \in 1 .. Len(o) /\ pc[e] = "read"
  BY <1>1, <1>2, ReadEffect
<1>4. /\ got'[c][e] = g + 1 /\ UNCHANGED <<conn, out, accepted>>
      /\ \/ /\ byte[2] # "sep" /\ buf'[e] = Append(buf[e], byte) /\ pc'[e] = "read" /\ delivered'[c][e] = d
         \/ /\ byte[2] = "sep" /\ pc'[e] = "idle" /\ state_'[e] # "CONNECTED" /\ delivered'[c][e] = d
         \/ /\ byte[2] = "sep" /\ pc'[e] = "idle"
            /\ delivered'[c][e] = Append(d, IF Append(buf[e], byte) = Bytes(byte[1]) THEN byte[1] ELSE NoMsg)
  <2>1. /\ got'[conn[e]][e] = got[conn[e]][e] + 1 /\ UNCHANGED <<conn, out, accepted>> /\ pc[e] = "read"
        /\ IF byte[2] # "sep" THEN ReadGoesOn(e, byte) ELSE ReadThrows(e) \/ ReadEnds(e, byte)
    BY <1>2, ReadEffect
  <2>2. QED
    BY <1>1, <2>1, Zenon DEF ReadGoesOn, ReadThrows, ReadEnds
<1>5. Using(e)
  BY <1>3 DEF Using, Control, Within, InCall
<1>6. WriterAt(e, c) /\ ReaderAt(e, c) /\ Stream(o, a) /\ Begins(d, a)
  BY <1>1, <1>5, EndsAre DEF Wire
<1>7. WriterAt(e, c)'
  <2>1. pc'[e] # "write" /\ pc[e] # "write" /\ out' = out /\ accepted' = accepted
    BY <1>3, <1>4
  <2>2. QED
    BY <1>6, <2>1, Zenon DEF WriterAt
<1>8. Len(d) \in Nat /\ Len(o) \in Nat
  OBVIOUS
<1>9. CASE buf[e] = <<>> /\ g = 2 * Len(d)
  <2>1. byte[2] = "body"
    BY <1>3, <1>6, <1>8, <1>9, NextBody
  <2>2. pc'[e] = "read" /\ delivered'[c][e] = d /\ buf'[e] = Append(buf[e], byte)
    BY <1>4, <2>1
  <2>3. buf'[e] = <<byte>>
    BY <1>9, <2>2, BytesParts, Zenon
  <2>4. g + 1 = 2 * Len(d) + 1 /\ g + 1 <= Len(o)
    BY <1>3, <1>8, <1>9
  <2>5. out'[c][Peer(e)] = o
    BY <1>1, <1>4
  <2>6. ReaderAt(e, c)'
    BY <1>3, <1>4, <2>2, <2>3, <2>4, <2>5, Zenon DEF ReaderAt
  <2>7. QED
    BY <1>1, <1>4, <1>6, <1>7, <2>2, <2>6, Zenon DEF Placed
<1>10. CASE g = 2 * Len(d) + 1 /\ buf[e] = <<o[g]>>
  <2>1. 2 * Len(d) + 1 < Len(o) /\ g = 2 * Len(d) + 1 /\ g + 1 = 2 * Len(d) + 2
    BY <1>3, <1>8, <1>10
  <2>2. PICK m \in AllMsgs : m = a[Len(d) + 1]
    BY <1>6, <1>8, <2>1, NextSep
  <2>3. Len(d) + 1 \in 1 .. Len(a) /\ o[g] = <<m, "body">> /\ byte = <<m, "sep">>
    BY <1>3, <1>6, <1>8, <2>1, <2>2, NextSep
  <2>4. byte[2] = "sep" /\ byte[1] = m
    BY <2>3
  <2>5. Append(buf[e], byte) = Bytes(byte[1])
    <3>1. buf[e] = <<<<m, "body">>>>
      BY <1>10, <2>3, Zenon
    <3>2. QED
      BY <2>3, <2>4, <3>1, BytesParts, Zenon
  <2>6. CASE pc'[e] = "idle" /\ state_'[e] # "CONNECTED" /\ delivered'[c][e] = d
    BY <1>1, <1>6, <2>6 DEF Placed, Using
  <2>7. CASE pc'[e] = "idle" /\ delivered'[c][e] = Append(d, IF Append(buf[e], byte) = Bytes(byte[1]) THEN byte[1] ELSE NoMsg)
    <3>1. delivered'[c][e] = Append(d, a[Len(d) + 1])
      BY <2>2, <2>4, <2>5, <2>7, Zenon
    <3>2. Begins(delivered'[c][e], accepted[c][Peer(e)])
      BY <1>1, <1>6, <2>3, <3>1, BeginsMore, Zenon
    <3>3. Len(delivered'[c][e]) = Len(d) + 1
      <4>1. PICK k \in AllMsgs \cup {NoMsg} : k = a[Len(d) + 1]
        BY <2>2
      <4>2. Len(Append(d, k)) = Len(d) + 1
        BY AppendProperties
      <4>3. QED
        BY <3>1, <4>1, <4>2, Zenon
    <3>4. g + 1 = 2 * (Len(d) + 1)
      BY <1>8, <2>1
    <3>5. ReaderAt(e, c)'
      <4>1. pc'[e] # "read" /\ got'[c][e] = 2 * Len(delivered'[c][e])
        BY <1>4, <2>7, <3>3, <3>4
      <4>2. QED
        BY <4>1, Zenon DEF ReaderAt
    <3>6. QED
      BY <1>1, <1>4, <1>7, <3>2, <3>5, Zenon DEF Placed
  <2>8. QED
    BY <1>4, <2>4, <2>6, <2>7, Zenon
<1>11. QED
  BY <1>1, <1>3, <1>6, <1>9, <1>10 DEF ReaderAt

\* So does reading one.
LEMMA ReadWire == ASSUME TypeOK, Control, Wire, NEW e \in Ends, ReadByte(e) PROVE Wire'
<1>0. PICK byte : byte = out[conn[e]][Peer(e)][got[conn[e]][e] + 1]
  OBVIOUS
<1>1. PICK c \in Conns : c = conn[e]
  BY <1>0, ReadEffect
<1>2. Begins(delivered'[c][e], accepted[c][Peer(e)]) /\ Placed(e)'
  BY <1>1, ReaderWire
<1>3. /\ \A d \in Conns, x \in Ends : d # c \/ x # e => got'[d][x] = got[d][x] /\ delivered'[d][x] = delivered[d][x]
      /\ UNCHANGED <<conn, sockOpen, out, accepted>>
      /\ \A x \in Ends : x # e => state_'[x] = state_[x] /\ pc'[x] = pc[x] /\ call'[x] = call[x] /\ buf'[x] = buf[x]
  BY <1>0, <1>1, ReadEffect
<1>4. ASSUME NEW d \in Conns, NEW x \in Ends
      PROVE  Stream(out'[d][x], accepted'[d][x]) /\ Begins(delivered'[d][x], accepted'[d][Peer(x)])
  <2>1. CASE d = c /\ x = e
    BY <1>2, <1>3, <2>1 DEF Wire
  <2>2. CASE d # c \/ x # e
    BY <1>3, <2>2 DEF Wire
  <2>3. QED
    BY <2>1, <2>2
<1>5. ASSUME NEW x \in Ends, x # e PROVE Placed(x)'
  <2>1. SUFFICES ASSUME Using(x)' PROVE WriterAt(x, conn[x])' /\ ReaderAt(x, conn[x])'
    BY DEF Placed
  <2>2. Using(x)
    BY <1>3, <1>5, <2>1 DEF Using, Usable
  <2>3. PICK d \in Conns : d = conn[x]
    BY <2>2, UsingConnected
  <2>4. WriterAt(x, d) /\ ReaderAt(x, d) /\ conn'[x] = d
    BY <1>3, <2>2, <2>3 DEF Wire
  <2>5. /\ pc'[x] = pc[x] /\ buf'[x] = buf[x] /\ call'[x] = call[x]
        /\ got'[d][x] = got[d][x] /\ delivered'[d][x] = delivered[d][x] /\ out' = out /\ accepted' = accepted
    BY <1>3, <1>5
  <2>6. WriterAt(x, d)' /\ ReaderAt(x, d)'
    BY <2>4, <2>5, Zenon DEF WriterAt, ReaderAt
  <2>7. QED
    BY <2>4, <2>6
<1>6. QED
  BY <1>2, <1>4, <1>5 DEF Wire, Placed

\* So does every step.
LEMMA WireStep == TypeOK /\ Control /\ Links /\ Wire /\ [Next]_vars => Wire'
<1> SUFFICES ASSUME TypeOK, Control, Links, Wire, [Next]_vars PROVE Wire'
  OBVIOUS
<1>1. QED
  BY NextCases, CallWire, MeetWire, ConnectFailsWire, SelectWire, IdleWire, TimeOutWire, UnchangedWire, ReadWire, WriteWire, Zenon

\* The links and the streams are empty at first.
LEMMA WireInit == Init => Links /\ Wire
<1> SUFFICES ASSUME Init PROVE Links /\ Wire
  OBVIOUS
<1>1. \A c \in Conns, e \in Ends : /\ out[c][e] = <<>> /\ got[c][e] = 0 /\ accepted[c][e] = <<>> /\ delivered[c][e] = <<>>
  BY DEF Init, perEnd
<1>2. \A c \in Conns, e \in Ends : Blank(c, e)
  BY <1>1 DEF Blank
<1>3. Links
  <2>1. Range(<<>>) = {} /\ IsInjective(<<>>)
    BY DEF Range, IsInjective
  <2>2. pending = <<>> /\ conn["serv"] = 0 /\ 0 \notin Conns
    BY EndsAre DEF Init, perEnd, Conns
  <2>3. QED
    BY <1>2, <2>1, <2>2, EndsAre DEF Links
<1>4. Stream(<<>>, <<>>) /\ Begins(<<>>, <<>>)
  BY DEF Stream, Begins
<1>5. Wire
  <2>1. \A e \in Ends : ~Using(e)
    BY DEF Init, perEnd, Using
  <2>2. QED
    BY <1>1, <1>4, <2>1, EndsAre DEF Wire
<1>6. QED
  BY <1>3, <1>5

(***************************************************************************)
(* On every connection an end receives whole messages, from the first on   *)
(* and in order, that the other end's enq has accepted, however calls time *)
(* out, are interrupted or fail and processes end and start.               *)
(***************************************************************************)
THEOREM ConnectionsWhole == Spec => []WholeMessagesInOrder
<1>1. TypeOK /\ Wire => WholeMessagesInOrder
  BY StreamTypes, EndsAre, BeginsIsPrefix DEF Wire, WholeMessagesInOrder
<1>2. TypeOK /\ Control /\ Links /\ [Next]_vars => Links'
  BY LinksStep
<1>3. QED
  BY <1>1, <1>2, WireInit, WireStep, Controlled, PTL DEF Spec

-----------------------------------------------------------------------------
(***************************************************************************)
(* Each direction of each connection as a channel of messages: end e       *)
(* accepts what its own program enqueues, the other end delivers.          *)
(***************************************************************************)
Channel(c, e) == INSTANCE MessageChannel WITH
                   Msgs <- Msgs[e], accepted <- accepted[c][e], delivered <- delivered[c][Peer(e)]

\* A call enqueues a message of its own end.
OwnMessages == \A e \in Ends : call[e].op \in PushOps => call[e].msg \in Msgs[e]

\* A step changes the call of an end to a new one, or to none.
LEMMA OwnStep ==
  ASSUME TypeOK, OwnMessages, [Next]_vars
  PROVE  OwnMessages'
<1>0. call \in [Ends -> [op : BlockingOps \cup {"none"}, msg : AllMsgs \cup {NoMsg}]]
  BY DEF TypeOK, EndTypes
<1>1. NoCall.op \notin PushOps
  BY OpsAre DEF NoCall
<1>2. ASSUME NEW e \in Ends, NEW k, call' = [call EXCEPT ![e] = k], k.op \in PushOps => k.msg \in Msgs[e]
      PROVE  OwnMessages'
  BY <1>0, <1>2 DEF OwnMessages
<1>3. CASE UNCHANGED call
  BY <1>3 DEF OwnMessages
<1>4. ASSUME NEW e \in Ends, NEW k, Enter(e, k), k.op \in PushOps => k.msg \in Msgs[e]
      PROVE  OwnMessages'
  <2>1. call' = [call EXCEPT ![e] = k] \/ call' = [call EXCEPT ![e] = NoCall]
    BY <1>4 DEF Enter
  <2>2. QED
    BY <1>1, <1>2, <1>4, <2>1
<1>5. ASSUME NEW e \in Ends, Return(e) PROVE OwnMessages'
  BY <1>1, <1>2, <1>5 DEF Return
<1>6. ASSUME NEW e \in Ends, Call(e) PROVE OwnMessages'
  <2>1. PICK k \in Calls(e) : call' = [call EXCEPT ![e] = k] \/ Enter(e, k)
    BY <1>6 DEF Call
  <2>2. k.op \in PushOps => k.msg \in Msgs[e]
    BY <2>1 DEF Calls
  <2>3. QED
    BY <1>2, <1>4, <2>1, <2>2
<1>7. CASE Accept \/ Connect
  <2>1. \E e \in Ends : Enter(e, call[e])
    BY <1>7, EndsAre DEF Accept, Connect
  <2>2. QED
    BY <1>4, <2>1 DEF OwnMessages
<1>8. CASE ConnectFails
  BY <1>5, <1>8, EndsAre DEF ConnectFails
<1>9. ASSUME NEW e \in Ends, \/ SelectReady(e) \/ Fails(e) \/ ReadByte(e) \/ WriteByte(e) \/ TimeOut(e)
                             \/ Destroy(e) \/ Exit(e) \/ Restart(e)
      PROVE  OwnMessages'
  <2>1. UNCHANGED call \/ Return(e)
    BY <1>9, Zenon DEF SelectReady, Fails, Fail, ReadByte, WriteByte, TimeOut, Destroy, Exit, Restart
  <2>2. QED
    BY <1>3, <1>5, <2>1
<1>10. QED
  BY <1>3, <1>6, <1>7, <1>8, <1>9, NextCases DEF vars, endVars

\* Only a separator that is read delivers a message, and only one that is
\* written accepts one.
LEMMA HistoriesMove ==
  ASSUME TypeOK, Control, OwnMessages, [Next]_vars, NEW c \in Conns, NEW e \in Ends
  PROVE  \/ accepted'[c][e] = accepted[c][e] /\ delivered'[c][Peer(e)] = delivered[c][Peer(e)]
         \/ /\ delivered'[c][Peer(e)] = delivered[c][Peer(e)]
            /\ \E m \in Msgs[e] : accepted'[c][e] = Append(accepted[c][e], m)
         \/ /\ accepted'[c][e] = accepted[c][e]
            /\ \E m \in AllMsgs \cup {NoMsg} : delivered'[c][Peer(e)] = Append(delivered[c][Peer(e)], m)
<1>0. Peer(e) \in Ends /\ Peer(e) # e
  BY EndsAre
<1>1. CASE UNCHANGED <<accepted, delivered>>
  BY <1>1
<1>2. ASSUME NEW w \in Ends, WriteByte(w)
      PROVE  /\ delivered' = delivered
             /\ \/ accepted'[c][e] = accepted[c][e]
                \/ \E m \in Msgs[e] : accepted'[c][e] = Append(accepted[c][e], m)
  <2>1. CASE c = conn[w] /\ e = w
    <3>1. call[e].msg \in Msgs[e]
      BY <1>2, <2>1 DEF OwnMessages, Control, Within, WriteByte
    <3>2. QED
      BY <1>2, <2>1, <3>1, WriteEffect DEF WriteGoesOn, WriteEnds
  <2>2. CASE ~(c = conn[w] /\ e = w)
    BY <1>2, <2>2, WriteEffect
  <2>3. QED
    BY <2>1, <2>2
<1>3. ASSUME NEW r \in Ends, ReadByte(r)
      PROVE  /\ accepted' = accepted
             /\ \/ delivered'[c][Peer(e)] = delivered[c][Peer(e)]
                \/ \E m \in AllMsgs \cup {NoMsg} :
                      delivered'[c][Peer(e)] = Append(delivered[c][Peer(e)], m)
  <2>1. PICK byte : byte = out[conn[r]][Peer(r)][got[conn[r]][r] + 1]
    OBVIOUS
  <2>2. CASE c = conn[r] /\ Peer(e) = r
    <3>1. byte \in Byte
      BY <1>3, <2>1, ReadEffect
    <3>2. byte[1] \in AllMsgs \cup {NoMsg} /\ NoMsg \in AllMsgs \cup {NoMsg}
      BY <3>1 DEF Byte
    <3>3. PICK m \in AllMsgs \cup {NoMsg} : m = IF Append(buf[r], byte) = Bytes(byte[1]) THEN byte[1] ELSE NoMsg
      BY <3>2
    <3>4. /\ accepted' = accepted
          /\ ReadGoesOn(r, byte) \/ ReadThrows(r) \/ ReadEnds(r, byte)
      BY <1>3, <2>1, ReadEffect
    <3>5. QED
      BY <2>2, <3>3, <3>4, Zenon DEF ReadGoesOn, ReadThrows, ReadEnds
  <2>3. CASE ~(c = conn[r] /\ Peer(e) = r)
    BY <1>0, <1>3, <2>1, <2>3, ReadEffect
  <2>4. QED
    BY <2>2, <2>3
<1>4. CASE UNCHANGED vars \/ Accept \/ Connect \/ ConnectFails
  BY <1>1, <1>4, Zenon DEF vars, histVars, Accept, Connect, ConnectFails
<1>5. ASSUME NEW x \in Ends, \/ Call(x) \/ SelectReady(x) \/ Fails(x) \/ TimeOut(x)
                             \/ Destroy(x) \/ Exit(x) \/ Restart(x)
      PROVE  UNCHANGED <<accepted, delivered>>
  BY <1>5, Zenon DEF histVars, Call, SelectReady, Fails, Fail, TimeOut, Destroy, Exit, Restart
<1>6. QED
  BY <1>1, <1>2, <1>3, <1>4, <1>5, NextCases

\* Every step is a step of the channel, or none.
LEMMA ChannelStep ==
  ASSUME TypeOK, TypeOK', Control, OwnMessages, WholeMessagesInOrder', [Next]_vars,
         NEW c \in Conns, NEW e \in Ends
  PROVE  [Channel(c, e)!Next]_(Channel(c, e)!vars)
<1>1. CASE accepted'[c][e] = accepted[c][e] /\ delivered'[c][Peer(e)] = delivered[c][Peer(e)]
  BY <1>1 DEF Channel!vars
<1>2. ASSUME delivered'[c][Peer(e)] = delivered[c][Peer(e)],
             NEW m \in Msgs[e], accepted'[c][e] = Append(accepted[c][e], m)
      PROVE  Channel(c, e)!Accept
  BY <1>2 DEF Channel!Accept
<1>3. ASSUME accepted'[c][e] = accepted[c][e],
             NEW m \in AllMsgs \cup {NoMsg}, delivered'[c][Peer(e)] = Append(delivered[c][Peer(e)], m)
      PROVE  Channel(c, e)!Deliver
  <2>1. Peer(e) \in Ends /\ Peer(Peer(e)) = e
    BY EndsAre DEF Peer, Ends
  <2>2. delivered[c][Peer(e)] \in Seq(AllMsgs \cup {NoMsg}) /\ accepted[c][e] \in Seq(AllMsgs)
    BY <2>1, StreamTypes
  <2>3. IsPrefix(delivered'[c][Peer(e)], accepted'[c][e])
    BY <2>1 DEF WholeMessagesInOrder
  <2>4. /\ Len(delivered[c][Peer(e)]) < Len(accepted[c][e])
        /\ delivered'[c][Peer(e)] = Append(delivered[c][Peer(e)], accepted[c][e][Len(delivered[c][Peer(e)]) + 1])
    <3>1. PICK d \in Seq(AllMsgs \cup {NoMsg}), a \in Seq(AllMsgs) :
             d = delivered[c][Peer(e)] /\ a = accepted[c][e]
      BY <2>2
    <3>2. PICK n : n = Append(d, m)
      OBVIOUS
    <3>3. Len(n) <= Len(a) /\ SubSeq(n, 1, Len(n)) = SubSeq(a, 1, Len(n))
      BY <1>3, <2>3, <3>1, <3>2, Zenon DEF IsPrefix
    <3>4. Len(d) < Len(a) /\ n = Append(d, a[Len(d) + 1])
      BY <3>2, <3>3, NextOfPrefix
    <3>5. QED
      BY <1>3, <3>1, <3>2, <3>4, Zenon
  <2>5. QED
    BY <1>3, <2>4 DEF Channel!Deliver
<1>4. QED
  BY <1>1, <1>2, <1>3, HistoriesMove DEF Channel!Next

(***************************************************************************)
(* Each direction of each connection is a channel of messages: sends and   *)
(* receives that time out, fail, are interrupted or throw, processes that  *)
(* end and start, and the other direction, are no steps of it.             *)
(***************************************************************************)
THEOREM ChannelImplemented ==
  ASSUME NEW c \in Conns, NEW e \in Ends
  PROVE  Spec => Channel(c, e)!Spec
<1>1. Init => Channel(c, e)!Init
  BY EndsAre DEF Init, perEnd, Channel!Init
<1>2. Init => OwnMessages
  BY OpsAre DEF Init, perEnd, NoCall, OwnMessages
<1>3. TypeOK /\ OwnMessages /\ [Next]_vars => OwnMessages'
  BY OwnStep
<1>4. /\ TypeOK /\ TypeOK' /\ Control /\ OwnMessages /\ WholeMessagesInOrder'
      /\ [Next]_vars
      => [Channel(c, e)!Next]_(Channel(c, e)!vars)
  BY ChannelStep
<1>5. QED
  BY <1>1, <1>2, <1>3, <1>4, Controlled, ConnectionsWhole, PTL DEF Spec, Channel!Spec
=============================================================================
