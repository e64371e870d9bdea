---------------------------- MODULE FdStreamProofs ----------------------------
(***************************************************************************)
(* Theorems about FdStream, for every number of messages, every size of    *)
(* the pipe, blocking and non-blocking descriptors, and every assignment   *)
(* of operations to the ends.                                              *)
(***************************************************************************)
EXTENDS FdStream, SeqLemmas

(***************************************************************************)
(* The steps of the two ends.                                              *)
(***************************************************************************)
LEMMA NextCases ==
  ASSUME Next
  PROVE  \/ \E e \in Ends : \/ Call(e) \/ Refused(e) \/ Select(e) \/ TimeOut(e)
                            \/ WouldBlock(e) \/ Disable(e) \/ Interrupted(e) \/ Close(e)
                            \/ \E b \in BOOLEAN : DisableCalled(e, b)
         \/ ReadByte \/ EndOfFile \/ WriteByte \/ BrokenPipe
BY DEF Next, Step

(***************************************************************************)
(* How a call ends, and how it goes back to select.                        *)
(***************************************************************************)
LEMMA ReturnEnds ==
  ASSUME TypeOK, NEW e \in Ends, NEW c \in Codes \cup {"error"}, Return(e, c),
         UNCHANGED <<nonblock, enabled, ctl>>,
         torn' \in BOOLEAN, pipe' \in Stream, Len(pipe') <= BufSize, accepted' \in Seq(Msgs),
         taken' \in Seq([msg : Msgs \cup {NoMsg}, reported : BOOLEAN, given : Codes \cup {"error"}])
  PROVE  TypeOK'
<1>1. NoCall \in [op : BlockingOps \cup {"none"}, msg : Msgs \cup {NoMsg}, given : Codes \cup {"error"}]
      /\ NoCall.op = "none"
  BY DEF NoCall, NoMsg, Codes
<1>2. <<>> \in Stream
  BY DEF Stream
<1>3. /\ pc' = [pc EXCEPT ![e] = "idle"] /\ call' = [call EXCEPT ![e] = NoCall]
      /\ buf' = [buf EXCEPT ![e] = <<>>]
      /\ ec' \in Codes \cup {"error"} /\ errno' \in {"other", "wouldblock"}
  BY DEF Return, TypeOK
<1>4. "none" \notin PushOps
  BY DEF PushOps
<1>5. QED
  BY <1>1, <1>2, <1>3, <1>4 DEF TypeOK, InCall, Ends

\* The next system call of a call keeps the types.
LEMMA AgainTypes ==
  ASSUME TypeOK, NEW e \in Ends, Again(e), pc[e] \in {"read", "write", "later"}
  PROVE  TypeOK'
BY DEF TypeOK, Again, InCall, Ends

\* So does a new call.
LEMMA CallTypes ==
  ASSUME TypeOK, NEW e \in Ends, Call(e)
  PROVE  TypeOK'
<1>1. PICK k \in Calls(e), n \in Errnos, c \in {ec, "success"} :
        /\ call' = [call EXCEPT ![e] = [op |-> k.op, msg |-> k.msg,
                                        given |-> IF k.op \in PopOps THEN c ELSE "success"]]
        /\ buf' = [buf EXCEPT ![e] = IF k.op \in PushOps THEN Bytes(k.msg) ELSE <<>>]
        /\ IF k.op \in PopOps THEN ec' = c /\ errno' = n ELSE UNCHANGED <<ec, errno>>
  BY DEF Call
<1>2. /\ k.op \in Ops[e] /\ k.msg \in Msgs \cup {NoMsg} /\ k.op \in BlockingOps
      /\ k.op \in PushOps => k.msg = Len(accepted) + 1
  BY FdAssumption DEF Calls, Ends, BlockingOps
<1>3. k.op \in PushOps => k.msg \in Msgs
  BY <1>2, LenProperties DEF TypeOK, NoMsg
<1>4. Bytes(k.msg) # <<>> /\ (k.msg \in Msgs => Bytes(k.msg) \in Stream) /\ <<>> \in Stream
  BY DEF Bytes, Stream
<1>5. ec' \in Codes \cup {"error"} /\ errno' \in {"other", "wouldblock"}
  BY <1>1, FdAssumption DEF TypeOK, Codes
<1>6. call' \in [Ends -> [op : BlockingOps \cup {"none"}, msg : Msgs \cup {NoMsg},
                          given : Codes \cup {"error"}]]
  BY <1>1, <1>2 DEF TypeOK, Codes
<1>7. buf' \in [Ends -> Stream]
  BY <1>1, <1>3, <1>4 DEF TypeOK
<1>8. UNCHANGED <<nonblock, enabled, ctl, pipe, accepted, taken, torn>>
      /\ pc' = [pc EXCEPT ![e] = "first"]
  BY DEF Call
<1>9. \A f \in Ends : /\ call'[f].op \in (IF InCall(f)' THEN Ops[f] ELSE {"none"})
                      /\ ~InCall(f)' => buf'[f] = <<>>
                      /\ pc'[f] \in {"later", "read", "write"} => call'[f].op \in PushOps \cup PopOps
  BY <1>1, <1>2, <1>8 DEF TypeOK, InCall
<1>10. /\ pc'["enq"] # "read" /\ pc'["deq"] # "write"
       /\ call'["enq"].op \in PushOps => call'["enq"].msg \in Msgs /\ buf'["enq"] # <<>>
  BY <1>1, <1>2, <1>3, <1>4, <1>8 DEF TypeOK, Ends
<1>11. QED
  BY <1>5, <1>6, <1>7, <1>8, <1>9, <1>10 DEF TypeOK

\* So does a byte read.
LEMMA ReadTypes == ASSUME TypeOK, ReadByte PROVE TypeOK'
<1> DEFINE got == Append(buf["deq"], Head(pipe))
           m   == IF got = Bytes(got[1][1]) THEN got[1][1] ELSE NoMsg
           rec == [msg |-> m, reported |-> ec = "success", given |-> call["deq"].given]
<1>1. /\ "deq" \in Ends /\ buf["deq"] \in Stream /\ pipe \in Stream /\ pipe # <<>>
      /\ Len(pipe) <= BufSize
  BY DEF ReadByte, HasData, TypeOK, Ends
<1>2. /\ Head(pipe) \in Msgs \X {"body", "sep"} /\ Tail(pipe) \in Stream
      /\ Len(Tail(pipe)) = Len(pipe) - 1 /\ Len(pipe) \in Nat
  BY <1>1, HeadTailProperties, LenProperties DEF Stream
<1>3. got \in Stream /\ got[1] \in Msgs \X {"body", "sep"}
  BY <1>1, <1>2, AppendProperties, LenProperties, ElementOfSeq DEF Stream
<1>4. pipe' \in Stream /\ Len(pipe') <= BufSize
  BY <1>1, <1>2, FdAssumption DEF ReadByte
<1>5. CASE Head(pipe)[2] # "sep"
  <2>1. /\ buf' = [buf EXCEPT !["deq"] = got]
        /\ UNCHANGED <<nonblock, enabled, pc, call, ec, errno, ctl, accepted, taken, torn>>
    BY <1>5 DEF ReadByte
  <2>2. QED
    BY <1>1, <1>3, <1>4, <2>1 DEF TypeOK, InCall, ReadByte, Ends
<1>6. CASE Head(pipe)[2] = "sep"
  <2>1. /\ taken' = Append(taken, rec) /\ Return("deq", ec)
        /\ UNCHANGED <<nonblock, enabled, ctl, accepted, torn>>
    BY <1>6 DEF ReadByte
  <2>2. m \in Msgs \cup {NoMsg}
    BY <1>3
  <2>3. (ec = "success") \in BOOLEAN /\ call["deq"].given \in Codes \cup {"error"}
    BY <1>1 DEF TypeOK
  <2>4. rec \in [msg : Msgs \cup {NoMsg}, reported : BOOLEAN, given : Codes \cup {"error"}]
    BY <2>2, <2>3
  <2>5. taken' \in Seq([msg : Msgs \cup {NoMsg}, reported : BOOLEAN, given : Codes \cup {"error"}])
    BY <2>1, <2>4, AppendProperties DEF TypeOK
  <2>6. torn' \in BOOLEAN /\ accepted' \in Seq(Msgs) /\ ec \in Codes \cup {"error"}
    BY <2>1 DEF TypeOK
  <2>7. QED
    BY <1>1, <1>4, <2>1, <2>5, <2>6, ReturnEnds
<1>7. QED
  BY <1>5, <1>6

\* So does a byte written, which is one more in the pipe.
LEMMA WriteTypes == ASSUME TypeOK, WriteByte PROVE TypeOK' /\ Len(pipe') = Len(pipe) + 1
<1>1. /\ "enq" \in Ends /\ pc["enq"] = "write" /\ call["enq"].op \in PushOps \cup PopOps
      /\ call["enq"].op \in Ops["enq"] /\ Ops["enq"] \subseteq EnqOps
  BY FdAssumption DEF WriteByte, TypeOK, InCall, Ends
<1>2. call["enq"].op \in PushOps
  BY <1>1 DEF EnqOps, PushOps, PopOps, WaitEnqOps
<1>3. /\ buf["enq"] \in Stream /\ buf["enq"] # <<>> /\ call["enq"].msg \in Msgs
      /\ pipe \in Stream /\ Len(pipe) < BufSize
  BY <1>1, <1>2 DEF TypeOK, WriteByte, HasRoom
<1>4. /\ Head(buf["enq"]) \in Msgs \X {"body", "sep"} /\ Tail(buf["enq"]) \in Stream
      /\ Len(Tail(buf["enq"])) = Len(buf["enq"]) - 1 /\ Len(pipe) \in Nat /\ Len(buf["enq"]) \in Nat
  BY <1>3, HeadTailProperties, LenProperties DEF Stream
<1>5. pipe' \in Stream /\ Len(pipe') = Len(pipe) + 1 /\ Len(pipe') <= BufSize
  BY <1>3, <1>4, AppendProperties, FdAssumption DEF WriteByte, Stream
<1>6. CASE Len(buf["enq"]) > 1
  <2>0. \A n \in Nat : n > 1 => n # 1 /\ n - 1 # 0
    OBVIOUS
  <2>1. /\ buf' = [buf EXCEPT !["enq"] = Tail(@)]
        /\ UNCHANGED <<nonblock, enabled, pc, call, ec, errno, ctl, accepted, taken, torn>>
    <3>1. Len(buf["enq"]) # 1
      BY <1>4, <1>6, <2>0, Zenon
    <3>2. QED
      BY <3>1, Zenon DEF WriteByte
  <2>2. Tail(buf["enq"]) # <<>>
    <3>1. Len(Tail(buf["enq"])) # 0
      BY <1>4, <1>6, <2>0, Zenon
    <3>2. Len(<<>>) = 0
      OBVIOUS
    <3>3. QED
      BY <3>1, <3>2
  <2>3. QED
    BY <1>1, <1>3, <1>4, <1>5, <2>1, <2>2 DEF TypeOK, InCall, Ends
<1>7. CASE Len(buf["enq"]) = 1
  <2>1. /\ accepted' = Append(accepted, call["enq"].msg) /\ Return("enq", "success")
        /\ UNCHANGED <<nonblock, enabled, ctl, taken, torn>>
    BY <1>7 DEF WriteByte
  <2>2. accepted' \in Seq(Msgs)
    BY <1>3, <2>1, AppendProperties DEF TypeOK
  <2>3. QED
    BY <1>1, <1>5, <2>1, <2>2, ReturnEnds DEF TypeOK, Codes
<1>8. QED
  BY <1>4, <1>6, <1>7, <1>5 DEF WriteByte

(***************************************************************************)
(* Every step keeps the types.                                             *)
(***************************************************************************)
LEMMA TypeStep == TypeOK /\ [Next]_vars => TypeOK'
<1> SUFFICES ASSUME TypeOK, [Next]_vars PROVE TypeOK'
  OBVIOUS
<1>0. torn \in BOOLEAN /\ pipe \in Stream /\ Len(pipe) <= BufSize /\ accepted \in Seq(Msgs)
      /\ taken \in Seq([msg : Msgs \cup {NoMsg}, reported : BOOLEAN, given : Codes \cup {"error"}])
  BY DEF TypeOK
<1>1. CASE UNCHANGED vars
  BY <1>1 DEF vars, TypeOK, InCall
<1>2. ASSUME NEW e \in Ends, Select(e) PROVE TypeOK'
  <2>1. CASE Return(e, "success")
    BY <1>0, <1>2, <2>1, ReturnEnds DEF Select, Codes
  <2>2. CASE ~Return(e, "success")
    BY <1>2, <2>2 DEF Select, TypeOK, InCall, Ends
  <2>3. QED
    BY <2>1, <2>2
<1>3. ASSUME NEW e \in Ends, TimeOut(e) PROVE TypeOK'
  BY <1>0, <1>3, ReturnEnds DEF TimeOut, Codes
<1>4. ASSUME NEW e \in Ends, WouldBlock(e) PROVE TypeOK'
  BY <1>4, AgainTypes DEF WouldBlock
<1>5. CASE EndOfFile
  <2>1. "deq" \in Ends
    BY DEF Ends
  <2>2. CASE errno = "wouldblock"
    BY <1>5, <2>1, <2>2, AgainTypes DEF EndOfFile
  <2>3. CASE errno # "wouldblock"
    BY <1>0, <1>5, <2>1, <2>3, ReturnEnds DEF EndOfFile
  <2>4. QED
    BY <2>2, <2>3
<1>6. CASE BrokenPipe
  BY <1>0, <1>6, ReturnEnds DEF BrokenPipe, Ends
<1>7. ASSUME NEW e \in Ends, Interrupted(e) PROVE TypeOK'
  <2>1. torn' \in BOOLEAN
    BY <1>7 DEF Interrupted, MidMessage, TypeOK
  <2>2. QED
    BY <1>0, <1>7, <2>1, ReturnEnds DEF Interrupted
<1>8. ASSUME NEW e \in Ends, Refused(e) \/ Disable(e) \/ (\E b \in BOOLEAN : DisableCalled(e, b))
      PROVE TypeOK'
  BY <1>8, ZenonT(60) DEF Refused, Disable, DisableCalled, TypeOK, InCall, Codes
<1>9. ASSUME NEW e \in Ends, Close(e) PROVE TypeOK'
  <2>1. NoCall \in [op : BlockingOps \cup {"none"}, msg : Msgs \cup {NoMsg}, given : Codes \cup {"error"}]
        /\ NoCall.op = "none" /\ "none" \notin PushOps /\ <<>> \in Stream
    BY DEF NoCall, NoMsg, Codes, PushOps, Stream
  <2>2. QED
    BY <1>9, <2>1 DEF Close, TypeOK, InCall, Ends
<1>10. QED
  BY <1>1, <1>2, <1>3, <1>4, <1>5, <1>6, <1>7, <1>8, <1>9, CallTypes, ReadTypes, WriteTypes, NextCases

(***************************************************************************)
(* Types, and that only a call in progress has bytes in hand.              *)
(***************************************************************************)
THEOREM TypeCorrect == Spec => []TypeOK
<1>1. Init => TypeOK
  <2>1. NoCall \in [op : BlockingOps \cup {"none"}, msg : Msgs \cup {NoMsg}, given : Codes \cup {"error"}]
        /\ NoCall.op = "none" /\ "none" \notin PushOps /\ <<>> \in Stream
    BY DEF NoCall, NoMsg, Codes, PushOps, Stream
  <2>2. \A S : <<>> \in Seq(S) /\ Len(<<>>) = 0
    OBVIOUS
  <2>3. Init => /\ pipe \in Stream /\ accepted \in Seq(Msgs) /\ Len(pipe) <= BufSize
                /\ taken \in Seq([msg : Msgs \cup {NoMsg}, reported : BOOLEAN, given : Codes \cup {"error"}])
    BY <2>1, <2>2, FdAssumption DEF Init
  <2>4. Init => /\ nonblock \in Modes /\ enabled \in [Ends -> BOOLEAN] /\ torn \in BOOLEAN
    BY DEF Init
  <2>5. QED
    BY <2>1, <2>3, <2>4 DEF Init, TypeOK, InCall, Codes, Ends
<1>2. QED
  BY <1>1, TypeStep, PTL DEF Spec

(***************************************************************************)
(* A call holds the mutex until it returns, so while it is in progress its *)
(* side stays enabled.                                                     *)
(***************************************************************************)
CallsAreEnabled == \A e \in Ends : InCall(e) => enabled[e]

\* Every step keeps an end that is in a call enabled.
LEMMA EnabledStep == TypeOK /\ CallsAreEnabled /\ [Next]_vars => CallsAreEnabled'
<1> SUFFICES ASSUME TypeOK, CallsAreEnabled, [Next]_vars PROVE CallsAreEnabled'
  OBVIOUS
<1>0. pc \in [Ends -> {"idle", "first", "later", "read", "write", "closed"}]
      /\ enabled \in [Ends -> BOOLEAN]
  BY DEF TypeOK
<1>1. CASE UNCHANGED vars
  BY <1>1 DEF vars, CallsAreEnabled, InCall
<1>2. ASSUME NEW e \in Ends, Call(e) \/ Select(e) \/ TimeOut(e) \/ WouldBlock(e) \/ Interrupted(e)
                             \/ Close(e) \/ Refused(e) \/ (\E b \in BOOLEAN : DisableCalled(e, b))
      PROVE CallsAreEnabled'
  BY <1>0, <1>2 DEF Call, Select, TimeOut, WouldBlock, Again, Interrupted, Close, Refused,
                    DisableCalled, Return, CallsAreEnabled, InCall
<1>3. ASSUME NEW e \in Ends, Disable(e) PROVE CallsAreEnabled'
  BY <1>0, <1>3 DEF Disable, CallsAreEnabled, InCall
<1>4. CASE ReadByte \/ EndOfFile \/ WriteByte \/ BrokenPipe
  BY <1>0, <1>4 DEF ReadByte, EndOfFile, WriteByte, BrokenPipe, Again, Return,
                    CallsAreEnabled, InCall, Ends
<1>5. QED
  BY <1>1, <1>2, <1>3, <1>4, NextCases

(***************************************************************************)
(* disable_enq and disable_deq wait for the call in progress, and when     *)
(* they have returned their end moves no byte any more.                    *)
(***************************************************************************)
THEOREM DisabledEndIsSilent == Spec => NothingAfterDisable
<1>1. Init => CallsAreEnabled
  BY DEF Init, CallsAreEnabled, InCall
<1>2. ASSUME TypeOK, CallsAreEnabled, [Next]_vars
      PROVE  [/\ Len(pipe') > Len(pipe) => enabled["enq"] /\ enabled'["enq"]
              /\ Len(pipe') < Len(pipe) => enabled["deq"] /\ enabled'["deq"]]_vars
  <2>0. Len(pipe) \in Nat
    BY LenProperties DEF TypeOK, Stream
  <2>1. CASE UNCHANGED pipe
    BY <2>0, <2>1
  <2>2. CASE ReadByte
    <3>1. Len(pipe') = Len(pipe) - 1 /\ enabled' = enabled /\ InCall("deq")
      BY <2>2, HeadTailProperties DEF ReadByte, HasData, InCall, TypeOK, Stream
    <3>2. enabled["deq"] /\ enabled'["deq"]
      BY <1>2, <3>1 DEF CallsAreEnabled, Ends
    <3>3. ~(Len(pipe') > Len(pipe))
      BY <2>0, <3>1
    <3>4. QED
      BY <3>2, <3>3
  <2>3. CASE WriteByte
    <3>1. enabled' = enabled /\ InCall("enq") /\ Len(pipe') = Len(pipe) + 1
      BY <2>3, WriteTypes DEF WriteByte, InCall
    <3>2. enabled["enq"] /\ enabled'["enq"]
      BY <1>2, <3>1 DEF CallsAreEnabled, Ends
    <3>3. ~(Len(pipe') < Len(pipe))
      BY <2>0, <3>1
    <3>4. QED
      BY <3>2, <3>3
  <2>4. QED
    <3>1. CASE UNCHANGED vars
      BY <2>1, <3>1 DEF vars
    <3>2. CASE Next /\ ~ReadByte /\ ~WriteByte
      BY <2>1, <3>2, NextCases DEF Call, Refused, Select, TimeOut, WouldBlock, Again,
         Disable, DisableCalled, Interrupted, Close, EndOfFile, BrokenPipe
    <3>3. QED
      BY <1>2, <2>2, <2>3, <3>1, <3>2
<1>3. QED
  BY <1>1, <1>2, TypeCorrect, EnabledStep, PTL DEF Spec, NothingAfterDisable

-----------------------------------------------------------------------------
(***************************************************************************)
(* A stream of messages: each body is followed by the separator of the     *)
(* same message, and a separator by the next body. It is complete when it  *)
(* does not end in the middle of a message.                                *)
(***************************************************************************)
Byte == Msgs \X {"body", "sep"}

Paired(s) ==
  /\ Len(s) > 0 => s[1][2] = "body"
  /\ \A i \in 1 .. Len(s) : i < Len(s) =>
        IF s[i][2] = "body" THEN s[i + 1] = <<s[i][1], "sep">> ELSE s[i + 1][2] = "body"

Complete(s) == Len(s) > 0 => s[Len(s)][2] = "sep"

\* A byte is a body or a separator of some message.
LEMMA ByteKinds == \A x \in Byte : /\ x[1] \in Msgs /\ x[2] \in {"body", "sep"}
                                   /\ x = <<x[1], x[2]>>
BY DEF Byte

\* The two bytes of a message, one by one.
LEMMA BytesAre ==
  ASSUME NEW m \in Msgs
  PROVE  /\ Bytes(m) \in Seq(Byte) /\ Len(Bytes(m)) = 2
         /\ Bytes(m)[1] = <<m, "body">> /\ Bytes(m)[2] = <<m, "sep">>
         /\ Head(Bytes(m)) = <<m, "body">> /\ Tail(Bytes(m)) = <<<<m, "sep">>>>
         /\ <<<<m, "sep">>>> \in Seq(Byte) /\ Len(<<<<m, "sep">>>>) = 1
         /\ Head(<<<<m, "sep">>>>) = <<m, "sep">> /\ Tail(<<<<m, "sep">>>>) = <<>>
BY DEF Bytes, Byte

(***************************************************************************)
(* The beginning of a stream, and the rest of it after a complete message. *)
(***************************************************************************)
LEMMA PairedPrefix ==
  ASSUME NEW s \in Seq(Byte), NEW c \in Seq(Byte), Paired(s \o c)
  PROVE  Paired(s)
<1>1. PICK t \in Seq(Byte) : t = s \o c
  BY ConcatProperties
<1>2. Len(t) = Len(s) + Len(c) /\ Len(s) \in Nat /\ Len(c) \in Nat
      /\ \A i \in 1 .. Len(s) : t[i] = s[i]
  BY <1>1, ConcatProperties, LenProperties
<1>3. Paired(t)
  BY <1>1
<1>4. QED
  BY <1>2, <1>3 DEF Paired

\* What follows whole messages in a paired stream is paired.
LEMMA PairedRest ==
  ASSUME NEW s \in Seq(Byte), NEW c \in Seq(Byte), Paired(s \o c), Len(s) > 0, Complete(s)
  PROVE  Paired(c) /\ (Complete(s \o c) => Complete(c))
<1>1. PICK t \in Seq(Byte) : t = s \o c
  BY ConcatProperties
<1>2. Len(t) = Len(s) + Len(c) /\ Len(s) \in Nat /\ Len(c) \in Nat
      /\ \A i \in 1 .. Len(s) : t[i] = s[i]
  BY <1>1, ConcatProperties, LenProperties
<1>3. \A i \in 1 .. Len(c) : t[Len(s) + i] = c[i]
  <2>1. \A i \in 1 .. Len(c) : Len(s) + i \in 1 .. Len(s) + Len(c) /\ ~(Len(s) + i <= Len(s))
                               /\ Len(s) + i - Len(s) = i
    BY <1>2
  <2>2. QED
    BY <1>1, <2>1, ConcatProperties
<1>4. Paired(t)
  BY <1>1
<1>5. Len(c) > 0 => c[1][2] = "body"
  <2>1. ASSUME Len(c) > 0 PROVE c[1][2] = "body"
    <3>1. Len(s) \in 1 .. Len(t) /\ Len(s) < Len(t) /\ 1 \in 1 .. Len(c)
      BY <1>2, <2>1
    <3>2. t[Len(s)][2] = "sep"
      BY <1>2 DEF Complete
    <3>3. t[Len(s) + 1][2] = "body"
      BY <1>4, <3>1, <3>2 DEF Paired
    <3>4. QED
      BY <1>3, <3>1, <3>3
  <2>2. QED
    BY <2>1
<1>6. ASSUME NEW i \in 1 .. Len(c), i < Len(c)
      PROVE  IF c[i][2] = "body" THEN c[i + 1] = <<c[i][1], "sep">> ELSE c[i + 1][2] = "body"
  <2>1. /\ Len(s) + i \in 1 .. Len(t) /\ Len(s) + i < Len(t) /\ i + 1 \in 1 .. Len(c)
        /\ Len(s) + (i + 1) = (Len(s) + i) + 1
    BY <1>2, <1>6
  <2>2. t[Len(s) + i] = c[i] /\ t[(Len(s) + i) + 1] = c[i + 1]
    BY <1>3, <2>1
  <2>3. QED
    BY <1>4, <2>1, <2>2 DEF Paired
<1>7. Complete(t) => Complete(c)
  <2>1. ASSUME Complete(t), Len(c) > 0 PROVE c[Len(c)][2] = "sep"
    <3>1. Len(c) \in 1 .. Len(c)
      BY <1>2, <2>1
    <3>2. t[Len(s) + Len(c)] = c[Len(c)]
      BY <1>3, <3>1
    <3>3. QED
      BY <1>2, <2>1, <3>2 DEF Complete
  <2>2. QED
    BY <2>1 DEF Complete
<1>8. QED
  BY <1>1, <1>5, <1>6, <1>7 DEF Paired

(***************************************************************************)
(* A message can be added to a complete stream, and only to such.          *)
(***************************************************************************)
LEMMA PairedBytes ==
  ASSUME NEW s \in Seq(Byte), NEW m \in Msgs
  PROVE  /\ Paired(s \o Bytes(m)) => Complete(s)
         /\ Paired(s) /\ Complete(s) => Paired(s \o Bytes(m)) /\ Complete(s \o Bytes(m))
<1>0. PICK c \in Seq(Byte) : c = Bytes(m)
  BY BytesAre
<1>1. PICK t \in Seq(Byte) : t = s \o c
  BY ConcatProperties
<1>2. /\ Len(c) = 2 /\ c[1] = <<m, "body">> /\ c[2] = <<m, "sep">>
      /\ Len(t) = Len(s) + 2 /\ Len(s) \in Nat
      /\ \A i \in 1 .. Len(s) : t[i] = s[i]
      /\ t[Len(s) + 1] = <<m, "body">> /\ t[Len(s) + 2] = <<m, "sep">>
  <2>1. Len(c) = 2 /\ c[1] = <<m, "body">> /\ c[2] = <<m, "sep">> /\ Len(s) \in Nat
    BY <1>0, BytesAre, LenProperties
  <2>2. /\ Len(t) = Len(s) + Len(c)
        /\ \A i \in 1 .. Len(s) + Len(c) : t[i] = IF i <= Len(s) THEN s[i] ELSE c[i - Len(s)]
    BY <1>1, ConcatProperties
  <2>3. /\ Len(s) + 1 \in 1 .. Len(s) + Len(c) /\ ~(Len(s) + 1 <= Len(s)) /\ Len(s) + 1 - Len(s) = 1
        /\ Len(s) + 2 \in 1 .. Len(s) + Len(c) /\ ~(Len(s) + 2 <= Len(s)) /\ Len(s) + 2 - Len(s) = 2
        /\ \A i \in 1 .. Len(s) : i \in 1 .. Len(s) + Len(c) /\ i <= Len(s)
    BY <2>1
  <2>4. t[Len(s) + 1] = c[1] /\ t[Len(s) + 2] = c[2] /\ \A i \in 1 .. Len(s) : t[i] = s[i]
    BY <2>2, <2>3
  <2>5. QED
    BY <2>1, <2>2, <2>4
<1>3. ASSUME Paired(t) PROVE Complete(s)
  <2>1. ASSUME Len(s) > 0 PROVE s[Len(s)][2] = "sep"
    <3>1. Len(s) \in 1 .. Len(t) /\ Len(s) < Len(t) /\ Len(s) \in 1 .. Len(s)
      BY <1>2, <2>1
    <3>2. s[Len(s)] \in Byte
      BY <3>1, ElementOfSeq
    <3>3. t[Len(s)] = s[Len(s)] /\ t[Len(s) + 1][2] # "sep"
      BY <1>2, <3>1
    <3>4. s[Len(s)][2] # "body"
      BY <1>2, <1>3, <3>1, <3>3 DEF Paired
    <3>5. QED
      BY <3>2, <3>4, ByteKinds
  <2>2. QED
    BY <2>1 DEF Complete
<1>4. ASSUME Paired(s), Complete(s) PROVE Paired(t) /\ Complete(t)
  <2>1. t[1][2] = "body"
    BY <1>2, <1>4 DEF Paired
  <2>2. ASSUME NEW i \in 1 .. Len(t), i < Len(t)
        PROVE  IF t[i][2] = "body" THEN t[i + 1] = <<t[i][1], "sep">> ELSE t[i + 1][2] = "body"
    <3>1. CASE i < Len(s)
      <4>1. i \in 1 .. Len(s) /\ i + 1 \in 1 .. Len(s)
        BY <1>2, <3>1
      <4>2. QED
        BY <1>2, <1>4, <3>1, <4>1 DEF Paired
    <3>2. CASE i = Len(s)
      BY <1>2, <1>4, <3>2 DEF Complete
    <3>3. CASE i = Len(s) + 1
      BY <1>2, <3>3
    <3>4. QED
      BY <1>2, <2>2, <3>1, <3>2, <3>3
  <2>3. QED
    BY <1>2, <2>1, <2>2 DEF Paired, Complete
<1>5. QED
  BY <1>0, <1>1, <1>3, <1>4

(***************************************************************************)
(* What the reader has of a message. The next byte it reads is the         *)
(* separator that makes it whole, or a body when it has nothing.           *)
(***************************************************************************)
Begun(b) == b = <<>> \/ \E m \in Msgs : b = <<<<m, "body">>>>

\* Read in order, a byte is the separator that ends the message begun, or the body that begins one.
LEMMA NextByte ==
  ASSUME NEW b \in Seq(Byte), NEW h \in Byte, NEW c \in Seq(Byte), Begun(b), Paired(Append(b, h) \o c)
  PROVE  IF h[2] = "sep" THEN /\ Append(b, h) = Bytes(h[1]) /\ Append(b, h)[1][1] = h[1]
                              /\ Complete(Append(b, h)) /\ Len(Append(b, h)) > 0
         ELSE b = <<>> /\ Append(b, h) = <<<<h[1], "body">>>>
<1>1. PICK t \in Seq(Byte) : t = Append(b, h)
  BY AppendProperties
<1>2. Paired(t)
  BY <1>1, PairedPrefix
<1>3. Len(t) = Len(b) + 1 /\ t[Len(b) + 1] = h /\ Len(b) \in Nat /\ \A i \in 1 .. Len(b) : t[i] = b[i]
  BY <1>1, AppendProperties, LenProperties
<1>4. CASE b = <<>>
  <2>1. Len(t) = 1 /\ t[1] = h
    BY <1>3, <1>4
  <2>2. h[2] = "body" /\ h = <<h[1], "body">>
    BY <1>2, <2>1, ByteKinds DEF Paired
  <2>3. Append(b, h) = <<<<h[1], "body">>>>
    BY <1>4, <2>2
  <2>4. QED
    BY <1>4, <2>2, <2>3
<1>5. ASSUME NEW m \in Msgs, b = <<<<m, "body">>>>
      PROVE  /\ h[2] = "sep" /\ Append(b, h) = Bytes(h[1]) /\ Append(b, h)[1][1] = h[1]
             /\ Complete(Append(b, h)) /\ Len(Append(b, h)) > 0
  <2>1. Len(b) = 1 /\ b[1] = <<m, "body">>
    BY <1>5
  <2>2. Len(t) = 2 /\ t[1] = <<m, "body">> /\ t[2] = h
    BY <1>3, <2>1
  <2>3. h = <<m, "sep">>
    BY <1>2, <2>2 DEF Paired
  <2>4. Append(b, h) = Bytes(m)
    <3>1. PICK c2 \in Seq(Byte) : c2 = Bytes(m)
      BY BytesAre
    <3>2. Len(c2) = 2 /\ c2[1] = <<m, "body">> /\ c2[2] = <<m, "sep">>
      BY <3>1, BytesAre
    <3>3. \A i \in 1 .. 2 : i = 1 \/ i = 2
      OBVIOUS
    <3>4. \A i \in 1 .. 2 : t[i] = c2[i]
      BY <2>2, <2>3, <3>2, <3>3
    <3>5. t = c2
      BY <2>2, <3>2, <3>4, SeqEqual
    <3>6. QED
      BY <1>1, <3>1, <3>5
  <2>5. Complete(t) /\ Len(t) > 0
    BY <2>2, <2>3 DEF Complete
  <2>6. QED
    BY <1>1, <2>2, <2>3, <2>4, <2>5
<1>6. QED
  BY <1>4, <1>5 DEF Begun

(***************************************************************************)
(* The messages accepted are those taken and then those whose separator is *)
(* in the pipe.                                                            *)
(***************************************************************************)
Read == [msg : Msgs \cup {NoMsg}, reported : BOOLEAN, given : Codes \cup {"error"}]

Accounts(a, t, s) == /\ Len(a) = Len(t) + Len(s)
                     /\ \A i \in 1 .. Len(t) : a[i] = t[i].msg
                     /\ \A i \in 1 .. Len(s) : a[Len(t) + i] = s[i][1]

(***************************************************************************)
(* Writing a separator accepts a message, reading one takes it.            *)
(***************************************************************************)
LEMMA AccountsWrite ==
  ASSUME NEW a \in Seq(Msgs), NEW t \in Seq(Read), NEW s \in Seq(Byte), NEW x \in Byte,
         Accounts(a, t, s)
  PROVE  Accounts(Append(a, x[1]), t, Append(s, x))
<1>1. PICK b \in Seq(Msgs) : b = Append(a, x[1])
  BY AppendProperties, ByteKinds
<1>2. PICK u \in Seq(Byte) : u = Append(s, x)
  BY AppendProperties
<1>3. Len(a) \in Nat /\ Len(t) \in Nat /\ Len(s) \in Nat
  BY LenProperties
<1>4. Len(b) = Len(a) + 1 /\ b[Len(a) + 1] = x[1] /\ \A i \in 1 .. Len(a) : b[i] = a[i]
  BY <1>1, AppendProperties, ByteKinds
<1>5. Len(u) = Len(s) + 1 /\ u[Len(s) + 1] = x /\ \A i \in 1 .. Len(s) : u[i] = s[i]
  BY <1>2, AppendProperties
<1>6. Len(b) = Len(t) + Len(u)
  BY <1>3, <1>4, <1>5 DEF Accounts
<1>7. ASSUME NEW i \in 1 .. Len(t) PROVE b[i] = t[i].msg
  <2>1. i \in 1 .. Len(a)
    BY <1>3 DEF Accounts
  <2>2. QED
    BY <1>4, <2>1 DEF Accounts
<1>8. ASSUME NEW i \in 1 .. Len(u) PROVE b[Len(t) + i] = u[i][1]
  <2>1. CASE i = Len(s) + 1
    <3>1. Len(t) + i = Len(a) + 1
      BY <1>3, <2>1 DEF Accounts
    <3>2. QED
      BY <1>4, <1>5, <2>1, <3>1
  <2>2. CASE i # Len(s) + 1
    <3>1. i \in 1 .. Len(s) /\ Len(t) + i \in 1 .. Len(a)
      BY <1>3, <1>5, <2>2 DEF Accounts
    <3>2. a[Len(t) + i] = s[i][1]
      BY <3>1 DEF Accounts
    <3>3. QED
      BY <1>4, <1>5, <3>1, <3>2
  <2>3. QED
    BY <2>1, <2>2
<1>9. Accounts(b, t, u)
  BY <1>6, <1>7, <1>8 DEF Accounts
<1>10. QED
  BY <1>1, <1>2, <1>9, Zenon

\* Reading one message more accounts for the next separator.
LEMMA AccountsRead ==
  ASSUME NEW a \in Seq(Msgs), NEW t \in Seq(Read), NEW s \in Seq(Byte), NEW q \in Seq(Byte), NEW r \in Read,
         Accounts(a, t, s), Len(s) = Len(q) + 1, \A i \in 1 .. Len(q) : s[i + 1] = q[i], r.msg = s[1][1]
  PROVE  Accounts(a, Append(t, r), q)
<1>1. PICK u \in Seq(Read) : u = Append(t, r)
  BY AppendProperties
<1>2. Len(t) \in Nat /\ Len(q) \in Nat
  BY LenProperties
<1>3. Len(u) = Len(t) + 1 /\ u[Len(t) + 1] = r /\ \A i \in 1 .. Len(t) : u[i] = t[i]
  BY <1>1, AppendProperties
<1>4. Len(a) = Len(u) + Len(q)
  BY <1>2, <1>3 DEF Accounts
<1>5. ASSUME NEW i \in 1 .. Len(u) PROVE a[i] = u[i].msg
  <2>1. CASE i = Len(t) + 1
    <3>1. 1 \in 1 .. Len(s) /\ a[Len(t) + 1] = s[1][1]
      BY <1>2 DEF Accounts
    <3>2. QED
      BY <1>3, <2>1, <3>1
  <2>2. CASE i # Len(t) + 1
    <3>1. i \in 1 .. Len(t)
      BY <1>2, <1>3, <2>2
    <3>2. QED
      BY <1>3, <3>1 DEF Accounts
  <2>3. QED
    BY <2>1, <2>2
<1>6. ASSUME NEW i \in 1 .. Len(q) PROVE a[Len(u) + i] = q[i][1]
  <2>0. s[i + 1] = q[i] /\ i \in Nat
    OBVIOUS
  <2>1. i + 1 \in 1 .. Len(s) /\ Len(t) + (i + 1) = Len(u) + i
    BY <1>2, <1>3
  <2>2. a[Len(t) + (i + 1)] = s[i + 1][1]
    BY <2>1 DEF Accounts
  <2>3. QED
    BY <2>0, <2>1, <2>2
<1>7. Accounts(a, u, q)
  BY <1>4, <1>5, <1>6 DEF Accounts
<1>8. QED
  BY <1>1, <1>7, Zenon

(***************************************************************************)
(* The accounts are what WholeMessagesInOrder states of accepted and       *)
(* taken.                                                                  *)
(***************************************************************************)
LEMMA AccountsState ==
  ASSUME NEW a \in Seq(Msgs), NEW t \in Seq(Read), NEW s \in Seq(Byte), Accounts(a, t, s)
  PROVE  a = [i \in DOMAIN t |-> t[i].msg] \o [i \in DOMAIN s |-> s[i][1]]
<1> DEFINE M == Msgs \cup {NoMsg}
           u == [i \in 1 .. Len(t) |-> t[i].msg]
           v == [i \in 1 .. Len(s) |-> s[i][1]]
<1>1. Len(a) \in Nat /\ Len(t) \in Nat /\ Len(s) \in Nat /\ DOMAIN t = 1 .. Len(t) /\ DOMAIN s = 1 .. Len(s)
  BY LenProperties
<1>2. u \in Seq(M) /\ Len(u) = Len(t) /\ \A i \in 1 .. Len(t) : u[i] = t[i].msg
  <2>1. \A i \in 1 .. Len(t) : t[i] \in Read
    BY ElementOfSeq
  <2>2. \A i \in 1 .. Len(t) : t[i].msg \in M
    BY <2>1 DEF Read
  <2>3. QED
    BY <1>1, <2>2
<1>3. v \in Seq(M) /\ Len(v) = Len(s) /\ \A i \in 1 .. Len(s) : v[i] = s[i][1]
  <2>1. \A i \in 1 .. Len(s) : s[i] \in Byte
    BY ElementOfSeq
  <2>2. \A i \in 1 .. Len(s) : s[i][1] \in M
    BY <2>1, ByteKinds
  <2>3. QED
    BY <1>1, <2>2
<1>4. u = [i \in DOMAIN t |-> t[i].msg] /\ v = [i \in DOMAIN s |-> s[i][1]]
  BY <1>1
<1> HIDE DEF u, v, M
<1>5. PICK w \in Seq(M) : w = u \o v
  BY <1>2, <1>3, ConcatProperties
<1>6. /\ Len(w) = Len(u) + Len(v)
      /\ \A i \in 1 .. Len(u) + Len(v) : w[i] = IF i <= Len(u) THEN u[i] ELSE v[i - Len(u)]
  <2>1. u \in Seq(M) /\ v \in Seq(M)
    BY <1>2, <1>3
  <2>2. PICK p \in Seq(M), q \in Seq(M) : p = u /\ q = v
    BY <2>1
  <2>3. w = p \o q
    BY <1>5, <2>2, Zenon
  <2>4. /\ Len(w) = Len(p) + Len(q)
        /\ \A i \in 1 .. Len(p) + Len(q) : w[i] = IF i <= Len(p) THEN p[i] ELSE q[i - Len(p)]
    BY <2>3, ConcatProperties
  <2>5. QED
    BY <2>2, <2>4
<1>7. Len(w) = Len(a)
  BY <1>2, <1>3, <1>6 DEF Accounts
<1>8. ASSUME NEW i \in 1 .. Len(w) PROVE w[i] = a[i]
  <2>1. CASE i <= Len(t)
    <3>1. w[i] = u[i] /\ i \in 1 .. Len(t)
      BY <1>1, <1>2, <1>6, <2>1
    <3>2. QED
      BY <1>2, <3>1 DEF Accounts
  <2>2. CASE ~(i <= Len(t))
    <3>1. w[i] = v[i - Len(u)] /\ i - Len(u) \in 1 .. Len(s) /\ Len(t) + (i - Len(u)) = i
      BY <1>1, <1>2, <1>3, <1>6, <2>2
    <3>2. v[i - Len(u)] = s[i - Len(u)][1]
      BY <1>3, <3>1
    <3>3. a[Len(t) + (i - Len(u))] = s[i - Len(u)][1]
      BY <3>1 DEF Accounts
    <3>4. QED
      BY <3>1, <3>2, <3>3
  <2>3. QED
    BY <2>1, <2>2
<1>9. a \in Seq(M)
  BY SeqMonotonic DEF M
<1>10. w = a
  BY <1>7, <1>8, <1>9, SeqEqual
<1>11. QED
  BY <1>4, <1>5, <1>10, Zenon

-----------------------------------------------------------------------------
(***************************************************************************)
(* What the types say of the two ends.                                     *)
(***************************************************************************)
StreamFacts ==
  /\ "enq" \in Ends /\ "deq" \in Ends /\ DOMAIN buf = Ends /\ DOMAIN pc = Ends /\ DOMAIN call = Ends
  /\ buf["enq"] \in Seq(Byte) /\ buf["deq"] \in Seq(Byte) /\ pipe \in Seq(Byte)
  /\ accepted \in Seq(Msgs) /\ taken \in Seq(Read)
  /\ pc["enq"] \in {"idle", "first", "later", "write", "closed"}
  /\ pc["deq"] \in {"idle", "first", "later", "read", "closed"}
  /\ call["enq"].op \in EnqOps \cup {"none"} /\ call["deq"].op \in DeqOps \cup {"none"}
  /\ call["enq"].op \in PushOps => InCall("enq") /\ call["enq"].msg \in Msgs
  /\ \A e \in Ends : ~InCall(e) => buf[e] = <<>> /\ call[e].op = "none"
  /\ pc["deq"] \in {"later", "read"} => call["deq"].op \in PopOps
  /\ pc["enq"] \in {"later", "write"} => call["enq"].op \in PushOps

\* The parts of the stream are sequences of bytes.
LEMMA StreamTypes == TypeOK => StreamFacts
<1> SUFFICES ASSUME TypeOK PROVE StreamFacts
  OBVIOUS
<1>1. /\ "enq" \in Ends /\ "deq" \in Ends /\ Ends = {"enq", "deq"}
      /\ PushOps \cap DeqOps = {} /\ PopOps \cap EnqOps = {} /\ "none" \notin PushOps \cup PopOps
  BY DEF Ends, PushOps, PopOps, EnqOps, DeqOps, WaitEnqOps, WaitDeqOps
<1>2. /\ call["enq"].op \in EnqOps \cup {"none"} /\ call["deq"].op \in DeqOps \cup {"none"}
  BY <1>1, FdAssumption DEF TypeOK
<1>3. call["enq"].op \in PushOps => InCall("enq")
  BY <1>1 DEF TypeOK
<1>4. QED
  BY <1>1, <1>2, <1>3 DEF StreamFacts, TypeOK, Stream, Byte, Read, InCall

(***************************************************************************)
(* What an end has in hand: sendwait a message, or the separator that is   *)
(* left of one; recvwait nothing before the first select is over.          *)
(***************************************************************************)
Parts ==
  /\ buf["enq"] \in {<<>>, Bytes(call["enq"].msg), <<<<call["enq"].msg, "sep">>>>}
  /\ pc["enq"] = "first" => buf["enq"] \in {<<>>, Bytes(call["enq"].msg)}
  /\ buf["enq"] # <<>> => call["enq"].op \in PushOps
  /\ pc["deq"] = "first" => buf["deq"] = <<>>

(***************************************************************************)
(* The caller's error code is untouched while recvwait reads.              *)
(***************************************************************************)
Reports ==
  /\ call["deq"].op \in PopOps /\ call["deq"].given = "success" => ec = "success"
  /\ \A i \in 1 .. Len(taken) : taken[i].given = "success" => taken[i].reported

(***************************************************************************)
(* Every step keeps what the ends have in hand.                            *)
(***************************************************************************)
LEMMA PartsStep == ASSUME TypeOK, Parts, [Next]_vars PROVE Parts'
<1>0. StreamFacts
  BY StreamTypes
<1>1. CASE UNCHANGED <<pc, call, buf>>
  BY <1>1 DEF Parts
<1>2. ASSUME NEW e \in Ends, NEW c, Return(e, c) PROVE Parts'
  BY <1>0, <1>2 DEF StreamFacts, Return, Parts, Ends, NoCall
<1>3. ASSUME NEW e \in Ends, Call(e) PROVE Parts'
  <2>1. PICK k \in Calls(e), n \in Errnos, c \in {ec, "success"} :
        /\ call' = [call EXCEPT ![e] = [op |-> k.op, msg |-> k.msg,
                                        given |-> IF k.op \in PopOps THEN c ELSE "success"]]
        /\ buf' = [buf EXCEPT ![e] = IF k.op \in PushOps THEN Bytes(k.msg) ELSE <<>>]
    BY <1>3 DEF Call
  <2>2. k.op \in Ops[e] /\ pc' = [pc EXCEPT ![e] = "first"]
    BY <1>3 DEF Call, Calls
  <2>3. e = "deq" => k.op \notin PushOps
    BY <2>2, FdAssumption DEF PushOps, DeqOps, PopOps, WaitDeqOps
  <2>4. QED
    BY <1>0, <2>1, <2>2, <2>3 DEF StreamFacts, Parts, Ends
<1>4. ASSUME NEW e \in Ends, Again(e) PROVE Parts'
  BY <1>0, <1>4 DEF StreamFacts, Again, Parts, Ends
<1>5. ASSUME NEW e \in Ends, Close(e) PROVE Parts'
  BY <1>0, <1>5 DEF StreamFacts, Close, Parts, Ends, NoCall
<1>6. CASE ReadByte
  <2>1. CASE Return("deq", ec)
    BY <1>0, <1>2, <2>1 DEF StreamFacts
  <2>2. CASE UNCHANGED <<pc, call>> /\ \E b : buf' = [buf EXCEPT !["deq"] = b]
    BY <1>0, <1>6, <2>2 DEF StreamFacts, ReadByte, Parts, Ends
  <2>3. QED
    BY <1>6, <2>1, <2>2 DEF ReadByte
<1>7. CASE WriteByte
  <2>1. CASE Return("enq", "success")
    BY <1>0, <1>2, <2>1 DEF StreamFacts
  <2>2. CASE UNCHANGED <<pc, call>> /\ buf' = [buf EXCEPT !["enq"] = Tail(@)]
    <3>1. pc["enq"] = "write" /\ call["enq"].msg \in Msgs /\ call["enq"].op \in PushOps
      BY <1>0, <1>7 DEF StreamFacts, WriteByte
    <3>2. buf["enq"] # <<>>
      BY <3>1 DEF TypeOK
    <3>3. Tail(buf["enq"]) \in {<<>>, <<<<call["enq"].msg, "sep">>>>}
      BY <3>1, <3>2, BytesAre DEF Parts
    <3>4. QED
      BY <1>0, <2>2, <3>1, <3>3 DEF StreamFacts, Parts
  <2>3. QED
    BY <1>7, <2>1, <2>2 DEF WriteByte
<1>8. ASSUME NEW e \in Ends, Select(e), ~Return(e, "success") PROVE Parts'
  BY <1>0, <1>8 DEF StreamFacts, Select, Parts, Ends
<1>9. QED
  <2>1. CASE UNCHANGED vars
    BY <1>1, <2>1 DEF vars
  <2>2. CASE Next
    BY <1>0, <1>1, <1>2, <1>3, <1>4, <1>5, <1>6, <1>7, <1>8, <2>2, NextCases
       DEF StreamFacts, Refused, TimeOut, WouldBlock, Disable, DisableCalled, Interrupted, EndOfFile, BrokenPipe
  <2>3. QED
    BY <2>1, <2>2

(***************************************************************************)
(* Every step keeps the error code of a call in progress, and each message *)
(* that is read with a fresh one is reported.                              *)
(***************************************************************************)
LEMMA ReportsStep == ASSUME TypeOK, Reports, [Next]_vars PROVE Reports'
<1>0. StreamFacts
  BY StreamTypes
<1>1. CASE UNCHANGED <<call, ec, taken>>
  BY <1>1 DEF Reports
<1>2. ASSUME NEW e \in Ends, NEW c, Return(e, c), UNCHANGED taken PROVE Reports'
  BY <1>0, <1>2 DEF StreamFacts, Return, Reports, Ends, NoCall, PopOps
<1>3. ASSUME NEW e \in Ends, Call(e) PROVE Reports'
  <2>1. PICK k \in Calls(e), n \in Errnos, c \in {ec, "success"} :
        /\ call' = [call EXCEPT ![e] = [op |-> k.op, msg |-> k.msg,
                                        given |-> IF k.op \in PopOps THEN c ELSE "success"]]
        /\ IF k.op \in PopOps THEN ec' = c /\ errno' = n ELSE UNCHANGED <<ec, errno>>
    BY <1>3 DEF Call
  <2>2. k.op \in Ops[e] /\ taken' = taken
    BY <1>3 DEF Call, Calls
  <2>3. e = "enq" => k.op \notin PopOps
    BY <2>2, FdAssumption DEF PopOps, EnqOps, PushOps, WaitEnqOps
  <2>4. QED
    BY <1>0, <2>1, <2>2, <2>3 DEF StreamFacts, Reports, Ends
<1>5. ASSUME NEW e \in Ends, Close(e) PROVE Reports'
  BY <1>0, <1>5 DEF StreamFacts, Close, Reports, Ends, NoCall, PopOps
<1>6. ASSUME NEW e \in Ends, Refused(e) PROVE Reports'
  BY <1>0, <1>6 DEF StreamFacts, Refused, Reports, Ends, InCall, PopOps
<1>7. CASE ReadByte /\ taken' # taken
  <2>1. PICK r : /\ taken' = Append(taken, r) /\ r.reported = (ec = "success") /\ r.given = call["deq"].given
    BY <1>7 DEF ReadByte
  <2>2. taken' \in Seq(Read) /\ Len(taken') = Len(taken) + 1 /\ taken'[Len(taken) + 1] = r
        /\ Len(taken) \in Nat /\ \A i \in 1 .. Len(taken) : taken'[i] = taken[i]
    <3>1. TypeOK'
      BY <1>7, ReadTypes
    <3>2. taken' \in Seq(Read)
      BY <3>1 DEF TypeOK, Read
    <3>3. QED
      BY <1>0, <2>1, <3>2 DEF StreamFacts
  <2>3. Return("deq", ec) /\ call["deq"].op \in PopOps
    BY <1>0, <1>7 DEF StreamFacts, ReadByte
  <2>4. r.given = "success" => r.reported
    BY <2>1, <2>3 DEF Reports
  <2>5. \A i \in 1 .. Len(taken') : taken'[i].given = "success" => taken'[i].reported
    BY <2>2, <2>4 DEF Reports
  <2>6. call'["deq"].op \notin PopOps
    BY <1>0, <2>3 DEF StreamFacts, Return, NoCall, PopOps
  <2>7. QED
    BY <2>5, <2>6 DEF Reports
<1>8. QED
  <2>1. CASE UNCHANGED vars
    BY <1>1, <2>1 DEF vars
  <2>2. CASE Next
    BY <1>0, <1>1, <1>2, <1>3, <1>5, <1>6, <1>7, <2>2, NextCases
       DEF StreamFacts, Select, ReadByte, WriteByte, Again,
           TimeOut, WouldBlock, Disable, DisableCalled, Interrupted, EndOfFile, BrokenPipe
  <2>3. QED
    BY <2>1, <2>2

-----------------------------------------------------------------------------
(***************************************************************************)
(* The strengthening of WholeMessagesInOrder. What the reader has in hand, *)
(* the pipe and what the writer has in hand make one stream, which is      *)
(* complete unless the writer's end was closed; once the reader's end is   *)
(* closed nothing moves any more. A signal in the middle of a message      *)
(* breaks this.                                                            *)
(***************************************************************************)
Between == buf["deq"] \o pipe
Flow == Between \o buf["enq"]
Separators == Msgs \X {"sep"}
Separated == Selected(pipe, Separators)

Framed ==
  ~torn => /\ Accounts(accepted, taken, Separated)
           /\ ~Closed("deq") => /\ Begun(buf["deq"]) /\ Paired(Flow)
                                /\ ~Closed("enq") => Complete(Flow)

\* So are the bytes between the two calls, and those that were separated from it.
LEMMA FlowTypes ==
  ASSUME TypeOK
  PROVE  Between \in Seq(Byte) /\ Flow \in Seq(Byte) /\ Separated \in Seq(Byte)
<1>1. /\ buf["enq"] \in Seq(Byte) /\ buf["deq"] \in Seq(Byte) /\ pipe \in Seq(Byte)
  BY StreamTypes DEF StreamFacts
<1>2. Between \in Seq(Byte)
  BY <1>1, ConcatProperties DEF Between
<1>3. Flow \in Seq(Byte)
  BY <1>1, <1>2, ConcatProperties DEF Flow
<1>4. Separated \in Seq(Byte \cap Separators)
  BY <1>1, SelectedType DEF Separated
<1>5. Separated \in Seq(Byte)
  BY <1>4, SeqMonotonic
<1>6. QED
  BY <1>2, <1>3, <1>5

(***************************************************************************)
(* A step that moves no byte keeps the stream, and so does a writer that   *)
(* drops what it has in hand when that is a message of which nothing was   *)
(* written, or when its end is closed.                                     *)
(***************************************************************************)
LEMMA FlowKept ==
  ASSUME Framed, torn' = FALSE => torn = FALSE, UNCHANGED <<pipe, accepted, taken, buf>>,
         Closed("deq") => Closed("deq")', Closed("enq") => Closed("enq")', torn' \in BOOLEAN
  PROVE  Framed'
<1>1. Flow' = Flow /\ Separated' = Separated
  BY DEF Flow, Between, Separated
<1>2. QED
  BY <1>1 DEF Framed

\* A write call that gives up keeps the stream framed: it has written nothing, or it closed the pipe.
LEMMA EnqDrops ==
  ASSUME TypeOK, Parts, Framed, UNCHANGED <<pipe, accepted, taken, torn>>,
         buf' = [buf EXCEPT !["enq"] = <<>>], pc'["deq"] = pc["deq"],
         Closed("enq") => Closed("enq")',
         buf["enq"] \in {<<>>, Bytes(call["enq"].msg)} \/ Closed("enq")'
  PROVE  Framed'
<1>0. StreamFacts /\ Between \in Seq(Byte)
  BY StreamTypes, FlowTypes
<1>1. Between' = Between /\ Separated' = Separated /\ buf'["enq"] = <<>> /\ buf'["deq"] = buf["deq"]
  BY <1>0 DEF Between, Separated, StreamFacts
<1>2. Flow' = Between
  <2>1. Flow' = Between \o <<>>
    BY <1>1 DEF Flow
  <2>2. QED
    BY <1>0, <2>1, ConcatEmptySeq
<1>3. CASE torn \/ Closed("deq")
  BY <1>1, <1>3 DEF Framed, Closed
<1>4. ASSUME ~torn, ~Closed("deq") PROVE Framed'
  <2>1. Paired(Between \o buf["enq"]) /\ Begun(buf["deq"]) /\ (~Closed("enq") => Complete(Between \o buf["enq"]))
    BY <1>4 DEF Framed, Flow
  <2>2. Paired(Between)
    BY <1>0, <2>1, PairedPrefix DEF StreamFacts
  <2>3. CASE Closed("enq")'
    BY <1>1, <1>2, <1>4, <2>1, <2>2, <2>3 DEF Framed, Closed
  <2>4. CASE ~Closed("enq")' /\ buf["enq"] = <<>>
    <3>1. Between \o buf["enq"] = Between
      BY <1>0, <2>4, ConcatEmptySeq
    <3>2. Complete(Between)
      BY <2>1, <2>4, <3>1
    <3>3. QED
      BY <1>1, <1>2, <1>4, <2>1, <2>2, <3>2 DEF Framed, Closed
  <2>5. CASE ~Closed("enq")' /\ buf["enq"] # <<>>
    <3>1. buf["enq"] = Bytes(call["enq"].msg) /\ call["enq"].msg \in Msgs
      BY <1>0, <2>5 DEF Parts, StreamFacts
    <3>2. Complete(Between)
      BY <1>0, <2>1, <3>1, PairedBytes
    <3>3. QED
      BY <1>1, <1>2, <1>4, <2>1, <2>2, <3>2 DEF Framed, Closed
  <2>6. QED
    BY <2>3, <2>4, <2>5
<1>5. QED
  BY <1>3, <1>4 DEF TypeOK

(***************************************************************************)
(* A call of enq adds a message to the stream.                             *)
(***************************************************************************)
LEMMA CallFramed ==
  ASSUME TypeOK, Framed, NEW e \in Ends, Call(e)
  PROVE  Framed'
<1>0. StreamFacts /\ Between \in Seq(Byte)
  BY StreamTypes, FlowTypes
<1>1. PICK k \in Calls(e) : buf' = [buf EXCEPT ![e] = IF k.op \in PushOps THEN Bytes(k.msg) ELSE <<>>]
  BY DEF Call
<1>2. /\ pc[e] = "idle" /\ pc' = [pc EXCEPT ![e] = "first"] /\ buf[e] = <<>>
      /\ UNCHANGED <<pipe, accepted, taken, torn>>
      /\ k.op \in Ops[e] /\ (k.op \in PushOps => k.msg \in Msgs)
  BY <1>0, LenProperties DEF Call, Calls, StreamFacts, InCall, Msgs, NoMsg, PushOps
<1>3. CASE e = "enq" /\ k.op \in PushOps
  <2>1. buf'["enq"] = Bytes(k.msg) /\ buf'["deq"] = buf["deq"] /\ buf["enq"] = <<>>
        /\ ~Closed("enq") /\ pc'["deq"] = pc["deq"] /\ pc'["enq"] = "first"
    BY <1>0, <1>1, <1>2, <1>3 DEF StreamFacts, Closed
  <2>2. Flow' = Between \o Bytes(k.msg) /\ Separated' = Separated /\ Flow = Between
    <3>1. Flow' = Between \o Bytes(k.msg) /\ Flow = Between \o <<>>
      BY <1>2, <2>1 DEF Flow, Between
    <3>2. QED
      BY <1>0, <1>2, <3>1, ConcatEmptySeq DEF Separated
  <2>3. Paired(Between) /\ Complete(Between) => Paired(Flow') /\ Complete(Flow')
    BY <1>0, <1>2, <1>3, <2>2, PairedBytes
  <2>4. QED
    BY <1>2, <2>1, <2>2, <2>3 DEF Framed, Closed
<1>4. CASE ~(e = "enq" /\ k.op \in PushOps)
  <2>1. e = "deq" => k.op \notin PushOps
    BY <1>2, FdAssumption DEF PushOps, DeqOps, PopOps, WaitDeqOps
  <2>2. buf' = buf
    <3>1. buf' = [buf EXCEPT ![e] = <<>>]
      BY <1>1, <1>4, <2>1 DEF Ends
    <3>2. QED
      BY <1>0, <1>2, <3>1 DEF TypeOK
  <2>3. QED
    BY <1>0, <1>2, <2>2, FlowKept DEF Closed, StreamFacts, TypeOK
<1>5. QED
  BY <1>3, <1>4

(***************************************************************************)
(* Reading a byte, and writing one, move it along the stream.              *)
(***************************************************************************)
LEMMA ReadFramed ==
  ASSUME TypeOK, Framed, ReadByte
  PROVE  Framed'
<1> DEFINE h == Head(pipe)  p == Tail(pipe)  b == buf["deq"]  x == buf["enq"]
           got == Append(b, h)
<1>0. StreamFacts /\ Separated \in Seq(Byte)
  BY StreamTypes, FlowTypes
<1>1. /\ h \in Byte /\ p \in Seq(Byte) /\ b \in Seq(Byte) /\ x \in Seq(Byte) /\ got \in Seq(Byte)
      /\ pipe # <<>> /\ pipe' = p /\ ~Closed("deq")
  BY <1>0, HeadTailProperties, AppendProperties DEF StreamFacts, ReadByte, HasData, Closed
<1>2. Flow = (got \o p) \o x
  <2>1. got \o p = b \o pipe
    BY <1>0, <1>1, MoveHead DEF StreamFacts
  <2>2. QED
    BY <2>1, Zenon DEF Flow, Between
<1>3. Flow = got \o (p \o x)
  <2>1. PICK g \in Seq(Byte), q \in Seq(Byte), y \in Seq(Byte) : g = got /\ q = p /\ y = x
    BY <1>1
  <2>2. (g \o q) \o y = g \o (q \o y)
    BY ConcatAssociative
  <2>3. QED
    BY <1>2, <2>1, <2>2, Zenon
<1>4. /\ h \notin Separators => Separated' = Separated
      /\ h \in Separators => /\ Separated # <<>> /\ Head(Separated) = h
                              /\ Tail(Separated) = Separated' /\ Separated' \in Seq(Byte)
  BY <1>0, <1>1, SelectedHead DEF StreamFacts, Separated
<1>5. CASE torn
  BY <1>5 DEF ReadByte, Framed
<1>6. ASSUME ~torn PROVE Framed'
  <2>0. torn' = torn
    BY DEF ReadByte
  <2>1. Begun(b) /\ Paired(got \o (p \o x)) /\ (~Closed("enq") => Complete(got \o (p \o x)))
        /\ Accounts(accepted, taken, Separated)
    BY <1>1, <1>3, <1>6 DEF Framed
  <2>2. p \o x \in Seq(Byte)
    BY <1>1, ConcatProperties
  <2>3. IF h[2] = "sep" THEN got = Bytes(h[1]) /\ got[1][1] = h[1] /\ Complete(got) /\ Len(got) > 0
        ELSE b = <<>> /\ got = <<<<h[1], "body">>>>
    BY <1>1, <2>1, <2>2, NextByte
  <2> HIDE DEF got
  <2>4. CASE h[2] # "sep"
    <3>1. /\ buf' = [buf EXCEPT !["deq"] = got] /\ UNCHANGED <<pc, accepted, taken>>
      BY <2>4 DEF ReadByte, got
    <3>2. buf'["deq"] = got /\ buf'["enq"] = x
      BY <1>0, <3>1 DEF StreamFacts
    <3>3. Flow' = Flow
      BY <1>1, <1>2, <3>2, Zenon DEF Flow, Between
    <3>4. Separated' = Separated
      <4>1. h \notin Separators
        BY <1>1, <2>4, ByteKinds DEF Separators
      <4>2. QED
        BY <1>4, <4>1
    <3>5. Begun(got)
      BY <1>1, <2>3, <2>4, ByteKinds DEF Begun
    <3>6. QED
      BY <1>3, <2>0, <2>1, <3>1, <3>2, <3>3, <3>4, <3>5 DEF Framed, Closed
  <2>5. CASE h[2] = "sep"
    <3>1. PICK r : /\ taken' = Append(taken, r) /\ Return("deq", ec) /\ r.msg = h[1]
      BY <2>3, <2>5 DEF ReadByte, got
    <3>2. buf'["deq"] = <<>> /\ buf'["enq"] = x /\ accepted' = accepted /\ pc'["enq"] = pc["enq"]
      BY <1>0, <3>1 DEF StreamFacts, Return, ReadByte
    <3>3. Flow' = p \o x
      <4>1. Flow' = (<<>> \o p) \o x
        BY <1>1, <3>2, Zenon DEF Flow, Between
      <4>2. <<>> \o p = p
        BY <1>1, ConcatEmptySeq
      <4>3. QED
        BY <4>1, <4>2, Zenon
    <3>4. Paired(Flow') /\ (~Closed("enq") => Complete(Flow'))
      <4>1. got \in Seq(Byte)
        BY <1>1 DEF got
      <4>2. QED
        BY <2>1, <2>2, <2>3, <2>5, <3>3, <4>1, PairedRest
    <3>5. Accounts(accepted, Append(taken, r), Separated')
      <4>1. h \in Separators
        BY <1>1, <2>5, ByteKinds DEF Separators
      <4>2. PICK z \in Seq(Byte), q \in Seq(Byte) :
               z = Separated /\ q = Separated' /\ z # <<>> /\ Head(z) = h /\ Tail(z) = q
        BY <1>0, <1>4, <4>1
      <4>3. Len(z) = Len(q) + 1 /\ z[1] = h /\ \A i \in 1 .. Len(q) : z[i + 1] = q[i]
        BY <4>2, HeadTailProperties, LenProperties
      <4>8. r \in Read
        <5>1. taken' \in Seq(Read) /\ taken \in Seq(Read) /\ Len(taken) \in Nat
          BY <1>0, ReadTypes DEF StreamFacts, TypeOK, Read
        <5>2. Len(Append(taken, r)) = Len(taken) + 1 /\ Append(taken, r)[Len(taken) + 1] = r
          BY <5>1
        <5>3. PICK t \in Seq(Read) : t = taken'
          BY <5>1
        <5>4. Len(t) = Len(taken) + 1 /\ t[Len(taken) + 1] = r
          BY <3>1, <5>2, <5>3
        <5>5. QED
          BY <5>1, <5>3, <5>4, ElementOfSeq
      <4>9. accepted \in Seq(Msgs) /\ taken \in Seq(Read)
        BY <1>0 DEF StreamFacts
      <4>10. Accounts(accepted, Append(taken, r), q)
        BY <2>1, <3>1, <4>2, <4>3, <4>8, <4>9, AccountsRead
      <4>11. QED
        BY <4>2, <4>10
    <3>6. Begun(buf'["deq"])
      BY <3>2 DEF Begun
    <3>7. QED
      BY <2>0, <3>1, <3>2, <3>4, <3>5, <3>6 DEF Framed, Closed
  <2>6. QED
    BY <2>4, <2>5
<1>7. QED
  BY <1>5, <1>6 DEF TypeOK

\* Writing a byte keeps the stream framed.
LEMMA WriteFramed ==
  ASSUME TypeOK, Parts, Framed, WriteByte
  PROVE  Framed'
<1> DEFINE x == buf["enq"]  h == Head(x)  p == Append(pipe, h)  m == call["enq"].msg
<1>0. StreamFacts /\ Between \in Seq(Byte) /\ Separated \in Seq(Byte)
  BY StreamTypes, FlowTypes
<1>1. /\ m \in Msgs /\ x # <<>> /\ x \in {Bytes(m), <<<<m, "sep">>>>}
      /\ ~Closed("deq") /\ ~Closed("enq") /\ torn' = torn /\ taken' = taken
  <2>1. pc["enq"] = "write" /\ call["enq"].op \in PushOps
    BY <1>0 DEF WriteByte, StreamFacts
  <2>2. x # <<>>
    BY <2>1 DEF TypeOK
  <2>3. QED
    BY <1>0, <2>1, <2>2 DEF WriteByte, StreamFacts, Closed, Parts
<1>2. h \in Byte /\ Tail(x) \in Seq(Byte) /\ x \in Seq(Byte) /\ pipe' = p /\ pipe \in Seq(Byte)
      /\ buf["deq"] \in Seq(Byte)
  BY <1>0, <1>1, HeadTailProperties DEF StreamFacts, WriteByte
<1>3. Between \o x = (buf["deq"] \o p) \o Tail(x)
  <2>1. Append(Between, h) \o Tail(x) = Between \o x
    BY <1>0, <1>1, <1>2, MoveHead
  <2>2. Append(Between, h) = buf["deq"] \o p
    <3>1. PICK d \in Seq(Byte), s \in Seq(Byte), y \in Byte : d = buf["deq"] /\ s = pipe /\ y = h
      BY <1>2
    <3>2. AppendOf(ConcatOf(d, s), y) = ConcatOf(d, AppendOf(s, y))
      BY PushJoined
    <3>3. QED
      BY <3>1, <3>2, Zenon DEF Between, AppendOf, ConcatOf
  <2>3. QED
    BY <2>1, <2>2, Zenon
<1>4. Separated' = IF h \in Separators THEN Append(Separated, h) ELSE Separated
  BY <1>2, SelectedAppend, ZenonT(60) DEF Separated
<1>5. ASSUME buf' = [buf EXCEPT !["enq"] = Tail(x)]
      PROVE  Flow' = Flow /\ buf'["deq"] = buf["deq"]
  <2>1. buf'["enq"] = Tail(x) /\ buf'["deq"] = buf["deq"]
    BY <1>0, <1>5 DEF StreamFacts
  <2>2. Flow' = (buf["deq"] \o p) \o Tail(x)
    BY <1>2, <2>1, Zenon DEF Flow, Between
  <2>3. QED
    BY <1>3, <2>1, <2>2, Zenon DEF Flow
<1>6. CASE x = Bytes(m)
  <2>1. Len(x) = 2 /\ h = <<m, "body">>
    BY <1>1, <1>6, BytesAre
  <2>2. buf' = [buf EXCEPT !["enq"] = Tail(x)] /\ UNCHANGED <<pc, accepted>>
    BY <2>1 DEF WriteByte
  <2>3. h \notin Separators
    BY <2>1 DEF Separators
  <2>4. QED
    BY <1>1, <1>4, <1>5, <2>2, <2>3 DEF Framed, Closed
<1>7. CASE x = <<<<m, "sep">>>>
  <2>1. Len(x) = 1 /\ h = <<m, "sep">> /\ Tail(x) = <<>>
    BY <1>1, <1>7, BytesAre
  <2>2. accepted' = Append(accepted, m) /\ Return("enq", "success")
    BY <2>1 DEF WriteByte
  <2>3. buf' = [buf EXCEPT !["enq"] = Tail(x)] /\ pc'["deq"] = pc["deq"] /\ pc'["enq"] = "idle"
    BY <1>0, <2>1, <2>2 DEF Return, StreamFacts
  <2>4. h \in Separators /\ h[1] = m
    <3>1. \A n \in Msgs : <<n, "sep">> \in Separators /\ <<n, "sep">>[1] = n
      BY DEF Separators
    <3>2. QED
      BY <1>1, <2>1, <3>1, Zenon
  <2>5. Accounts(accepted, taken, Separated) => Accounts(accepted', taken', Separated')
    <3>1. accepted \in Seq(Msgs) /\ taken \in Seq(Read)
      BY <1>0 DEF StreamFacts
    <3>2. PICK s \in Seq(Byte) : s = Separated
      BY <1>0
    <3>3. Accounts(accepted, taken, s) => Accounts(Append(accepted, h[1]), taken, Append(s, h))
      BY <1>2, <3>1, AccountsWrite
    <3>4. QED
      BY <1>1, <1>4, <2>2, <2>4, <3>2, <3>3, Zenon
  <2>6. QED
    BY <1>1, <1>5, <2>3, <2>5 DEF Framed, Closed
<1>8. QED
  BY <1>1, <1>6, <1>7

(***************************************************************************)
(* A call that ends without having moved a byte.                           *)
(***************************************************************************)
LEMMA ReturnFramed ==
  ASSUME TypeOK, Parts, Framed, NEW e \in Ends, NEW c, Return(e, c), UNCHANGED <<pipe, accepted, taken, torn>>,
         InCall(e), IF e = "enq" THEN buf[e] \in {<<>>, Bytes(call[e].msg)} ELSE buf[e] = <<>>
  PROVE  Framed'
<1>0. StreamFacts /\ ~Closed(e) /\ torn \in BOOLEAN
  BY StreamTypes DEF InCall, Closed, TypeOK
<1>1. CASE e = "enq"
  BY <1>0, <1>1, EnqDrops DEF Return, StreamFacts, Closed
<1>2. CASE e = "deq"
  <2>1. buf' = buf
    BY <1>0, <1>2 DEF Return, TypeOK
  <2>2. QED
    BY <1>0, <1>2, <2>1, FlowKept DEF Return, StreamFacts, Closed
<1>3. QED
  BY <1>1, <1>2 DEF Ends

(***************************************************************************)
(* Every step keeps the stream.                                            *)
(***************************************************************************)
LEMMA FramedStep == ASSUME TypeOK, Parts, Framed, [Next]_vars PROVE Framed'
<1>0. StreamFacts /\ torn \in BOOLEAN
  BY StreamTypes DEF TypeOK
<1>1. CASE UNCHANGED <<pc, buf, pipe, accepted, taken, torn>>
  BY <1>0, <1>1, FlowKept DEF Closed
<1>2. ASSUME NEW e \in Ends, Select(e) PROVE Framed'
  <2>1. CASE Return(e, "success") /\ call[e].op \in WaitEnqOps \cup WaitDeqOps
    <3>1. call[e].op \notin PushOps \cup PopOps
      BY <2>1 DEF WaitEnqOps, WaitDeqOps, PushOps, PopOps
    <3>2. pc[e] = "first" /\ UNCHANGED <<pipe, accepted, taken, torn>>
      BY <1>2, <3>1 DEF Select, TypeOK
    <3>3. buf[e] = <<>>
      BY <3>1, <3>2 DEF Parts, Ends
    <3>4. QED
      BY <2>1, <3>2, <3>3, ReturnFramed DEF InCall
  <2>2. CASE pc' = [pc EXCEPT ![e] = IF e = "deq" THEN "read" ELSE "write"] /\ buf' = buf
    BY <1>0, <1>2, <2>2, FlowKept DEF Select, StreamFacts, Closed, Ends
  <2>3. QED
    BY <1>2, <2>1, <2>2 DEF Select
<1>3. ASSUME NEW e \in Ends, TimeOut(e) PROVE Framed'
  BY <1>3, ReturnFramed DEF TimeOut, InCall, Parts, Ends
<1>4. ASSUME NEW e \in Ends, Again(e), pc[e] \in {"read", "write"} PROVE Framed'
  BY <1>0, <1>4, FlowKept DEF Again, StreamFacts, Closed, Ends
<1>5. CASE EndOfFile
  <2>1. CASE Again("deq")
    BY <1>0, <1>4, <1>5, <2>1 DEF EndOfFile, StreamFacts
  <2>2. CASE Return("deq", "error") /\ UNCHANGED <<pipe, accepted, taken, torn>>
    <3>1. buf["enq"] = <<>> /\ pipe = <<>> /\ Closed("enq")
      BY <1>0, <1>5 DEF EndOfFile, HasData, StreamFacts, InCall, Closed
    <3>2. buf'["enq"] = <<>> /\ buf'["deq"] = <<>> /\ pipe' = <<>> /\ Closed("enq")'
      BY <1>0, <2>2, <3>1 DEF Return, StreamFacts, Closed
    <3>3. Len(Flow') = 0
      <4>1. Flow' = (<<>> \o <<>>) \o <<>>
        BY <3>2 DEF Flow, Between
      <4>2. QED
        BY <4>1
    <3>4. Paired(Flow')
      BY <3>3 DEF Paired
    <3>5. Begun(buf'["deq"]) /\ Separated' = Separated
      BY <2>2, <3>2 DEF Begun, Separated
    <3>6. QED
      BY <2>2, <3>2, <3>4, <3>5 DEF Framed
  <2>3. QED
    BY <1>5, <2>1, <2>2 DEF EndOfFile
<1>6. CASE BrokenPipe
  <2>1. Closed("deq") /\ Closed("deq")' /\ UNCHANGED <<pipe, accepted, taken, torn>>
    BY <1>0, <1>6 DEF BrokenPipe, Return, Closed, StreamFacts
  <2>2. QED
    BY <2>1 DEF Framed, Separated
<1>7. ASSUME NEW e \in Ends, Interrupted(e) PROVE Framed'
  <2>1. CASE torn'
    BY <2>1 DEF Framed
  <2>2. CASE ~torn'
    <3>1. ~MidMessage(e) /\ UNCHANGED <<pipe, accepted, taken, torn>> /\ Return(e, "error") /\ InCall(e)
      BY <1>0, <1>7, <2>2 DEF Interrupted, InCall
    <3>2. QED
      BY <3>1, ReturnFramed DEF MidMessage, Ends
  <2>3. QED
    BY <2>1, <2>2
<1>8. ASSUME NEW e \in Ends, Close(e) PROVE Framed'
  <2>1. pc'[e] = "closed" /\ UNCHANGED <<pipe, accepted, taken, torn>> /\ \A f \in Ends \ {e} : pc'[f] = pc[f]
    BY <1>0, <1>8 DEF Close, TypeOK
  <2>2. CASE e = "deq"
    BY <2>1, <2>2 DEF Framed, Separated, Closed
  <2>3. CASE e = "enq"
    BY <1>0, <1>8, <2>1, <2>3, EnqDrops DEF Close, Closed, Ends
  <2>4. QED
    BY <2>2, <2>3 DEF Ends
<1>9. QED
  <2>1. CASE UNCHANGED vars
    BY <1>1, <2>1 DEF vars
  <2>2. CASE Next
    BY <1>1, <1>2, <1>3, <1>4, <1>5, <1>6, <1>7, <1>8, <2>2, NextCases, CallFramed, ReadFramed, WriteFramed
       DEF Refused, WouldBlock, Disable, DisableCalled
  <2>3. QED
    BY <2>1, <2>2

\* The stream invariant holds at first.
LEMMA FramedInit == Init => Parts /\ Reports /\ Framed
<1> SUFFICES ASSUME Init PROVE Parts /\ Reports /\ Framed
  OBVIOUS
<1>1. /\ buf["enq"] = <<>> /\ buf["deq"] = <<>> /\ pipe = <<>> /\ accepted = <<>> /\ taken = <<>> /\ ec = "success"
  BY DEF Init, Ends
<1>2. Flow = (<<>> \o <<>>) \o <<>>
  BY <1>1 DEF Flow, Between
<1>3. Len(Flow) = 0
  BY <1>2
<1>4. Separated = <<>>
  BY <1>1, SelectedEmpty DEF Separated
<1>5. Accounts(accepted, taken, Separated)
  BY <1>1, <1>4 DEF Accounts
<1>6. Framed
  BY <1>1, <1>3, <1>5 DEF Framed, Begun, Paired, Complete
<1>7. Parts /\ Reports
  BY <1>1 DEF Init, Parts, Reports, Ends
<1>8. QED
  BY <1>6, <1>7

\* The stream invariant says that messages are whole and in order.
LEMMA FramedMeans == TypeOK /\ Framed /\ Reports => WholeMessagesInOrder
<1> SUFFICES ASSUME TypeOK, Framed, Reports, ~torn PROVE WholeMessagesInOrder
  BY DEF WholeMessagesInOrder
<1>1. accepted \in Seq(Msgs) /\ taken \in Seq(Read)
  BY StreamTypes DEF StreamFacts
<1>2. PICK s \in Seq(Byte) : s = Separated
  BY FlowTypes
<1>3. Accounts(accepted, taken, s)
  BY <1>2 DEF Framed
<1>4. accepted = [i \in DOMAIN taken |-> taken[i].msg] \o [i \in DOMAIN s |-> s[i][1]]
  BY <1>1, <1>3, AccountsState
<1>5. \A i \in DOMAIN taken : taken[i].given = "success" => taken[i].reported
  BY <1>1 DEF Reports
<1>6. QED
  BY <1>2, <1>4, <1>5, Zenon DEF WholeMessagesInOrder, Separated, Separators

(***************************************************************************)
(* Unless a signal tore one, messages are read whole, in the order enq     *)
(* accepted them, each once, and none that was accepted disappears,        *)
(* whatever end is closed and however often an end had to wait in the      *)
(* middle of a message; deq reports each it has read to a caller that      *)
(* passed a fresh error code.                                              *)
(***************************************************************************)
THEOREM MessagesWholeInOrder == Spec => []WholeMessagesInOrder
<1>1. TypeOK /\ (Parts /\ Reports /\ Framed) /\ [Next]_vars => (Parts /\ Reports /\ Framed)'
  BY PartsStep, ReportsStep, FramedStep
<1>2. QED
  BY FramedInit, <1>1, FramedMeans, TypeCorrect, PTL DEF Spec

-----------------------------------------------------------------------------
(***************************************************************************)
(* The two ends and the pipe as a channel of messages: what deq has read,  *)
(* reported or not, is what the channel has delivered.                     *)
(***************************************************************************)
Delivered == [i \in DOMAIN taken |-> taken[i].msg]

Channel == INSTANCE MessageChannel WITH delivered <- Delivered

\* A message read is one more delivered.
LEMMA DeliveredMore ==
  ASSUME NEW t \in Seq(Read), NEW r \in Read
  PROVE  [i \in DOMAIN Append(t, r) |-> Append(t, r)[i].msg]
           = Append([i \in DOMAIN t |-> t[i].msg], r.msg)
OBVIOUS

\* Only a separator that is read delivers, and only one that is written accepts.
LEMMA HistoriesMove ==
  ASSUME TypeOK, [Next]_vars
  PROVE  \/ UNCHANGED <<accepted, taken>>
         \/ /\ UNCHANGED taken
            /\ \E m \in Msgs : accepted' = Append(accepted, m)
         \/ /\ UNCHANGED accepted
            /\ \E r \in Read : taken' = Append(taken, r)
<1>0. StreamFacts
  BY StreamTypes
<1>1. CASE ReadByte
  <2>1. UNCHANGED accepted
    BY <1>1 DEF ReadByte, Return
  <2>2. UNCHANGED taken \/ \E r : taken' = Append(taken, r)
    BY <1>1 DEF ReadByte
  <2>3. ASSUME NEW r, taken' = Append(taken, r) PROVE r \in Read
    <3>1. TypeOK'
      BY <1>1, ReadTypes
    <3>2. taken' \in Seq(Read)
      BY <3>1 DEF TypeOK, Read
    <3>3. QED
      BY <1>0, <2>3, <3>2 DEF StreamFacts
  <2>4. QED
    BY <2>1, <2>2, <2>3
<1>2. CASE WriteByte
  <2>1. UNCHANGED taken /\ call["enq"].msg \in Msgs
    BY <1>0, <1>2 DEF WriteByte, StreamFacts
  <2>2. UNCHANGED accepted \/ accepted' = Append(accepted, call["enq"].msg)
    BY <1>2 DEF WriteByte
  <2>3. QED
    BY <2>1, <2>2
<1>3. CASE UNCHANGED vars
  BY <1>3 DEF vars
<1>4. CASE \/ EndOfFile \/ BrokenPipe
           \/ \E e \in Ends : \/ Call(e) \/ Refused(e) \/ Select(e) \/ TimeOut(e)
                              \/ WouldBlock(e) \/ Disable(e) \/ Interrupted(e) \/ Close(e)
                              \/ \E b \in BOOLEAN : DisableCalled(e, b)
  BY <1>4 DEF EndOfFile, BrokenPipe, Call, Refused, Select, TimeOut, WouldBlock, Again, Disable, Interrupted,
     Close, DisableCalled
<1>5. QED
  BY <1>1, <1>2, <1>3, <1>4, NextCases

\* Every step is a step of the channel, or none, as long as no message is torn.
LEMMA ChannelStep ==
  ASSUME TypeOK, TypeOK', Framed', ~torn', [Next]_vars
  PROVE  [Channel!Next]_(Channel!vars)
<1>0. accepted \in Seq(Msgs) /\ taken \in Seq(Read)
  BY StreamTypes DEF StreamFacts
<1>1. CASE UNCHANGED <<accepted, taken>>
  BY <1>1 DEF Channel!vars, Delivered
<1>2. ASSUME UNCHANGED taken, NEW m \in Msgs, accepted' = Append(accepted, m)
      PROVE  Channel!Accept
  BY <1>2 DEF Channel!Accept, Delivered
<1>3. ASSUME UNCHANGED accepted, NEW r \in Read, taken' = Append(taken, r)
      PROVE  Channel!Deliver
  <2>1. /\ taken' \in Seq(Read) /\ Len(taken') = Len(taken) + 1 /\ taken'[Len(taken) + 1] = r
        /\ Len(taken) \in Nat /\ Len(accepted) \in Nat
    BY <1>0, <1>3, AppendProperties, LenProperties
  <2>2. PICK s \in Seq(Byte) : s = Separated'
    <3>1. pipe' \in Seq(Byte)
      BY DEF TypeOK, Stream, Byte
    <3>2. Separated' \in Seq(Byte \cap Separators)
      BY <3>1, SelectedType DEF Separated, Separators
    <3>3. QED
      BY <3>2, SeqMonotonic
  <2>3. Accounts(accepted, taken', s)
    BY <1>3, <2>2 DEF Framed
  <2>4. Len(taken) < Len(accepted) /\ accepted[Len(taken) + 1] = r.msg
    <3>1. Len(s) \in Nat
      BY LenProperties
    <3>2. QED
      BY <2>1, <2>3, <3>1 DEF Accounts
  <2>5. Len(Delivered) = Len(taken)
    BY <1>0 DEF Delivered
  <2>6. Delivered' = Append(Delivered, r.msg)
    BY <1>0, <1>3, DeliveredMore DEF Delivered
  <2>7. QED
    BY <1>3, <2>4, <2>5, <2>6 DEF Channel!Deliver
<1>4. QED
  BY <1>1, <1>2, <1>3, HistoriesMove DEF Channel!Next

(***************************************************************************)
(* fdenq_queue, the pipe and fddeq_queue are one channel of messages, as   *)
(* long as no signal interrupts a call in the middle of a message: every   *)
(* step of theirs, on a byte, a descriptor or a flag, is one of the        *)
(* channel or none.                                                        *)
(***************************************************************************)
THEOREM ChannelImplemented == Spec /\ []~torn => Channel!Spec
<1>1. Init => Channel!Init
  BY DEF Init, Channel!Init, Delivered
<1>2. TypeOK /\ (Parts /\ Reports /\ Framed) /\ [Next]_vars => (Parts /\ Reports /\ Framed)'
  BY PartsStep, ReportsStep, FramedStep
<1>3. TypeOK /\ TypeOK' /\ Framed' /\ ~torn' /\ [Next]_vars => [Channel!Next]_(Channel!vars)
  BY ChannelStep
<1>4. QED
  BY <1>1, <1>2, <1>3, FramedInit, TypeCorrect, PTL DEF Spec, Channel!Spec
================================================================================
