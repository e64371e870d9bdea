----------------------------- MODULE BoundedFifo -----------------------------
(***************************************************************************)
(* What simple_queue promises its callers, with no mutex, condition        *)
(* variable or container in sight: a channel whose history is the sequence *)
(* of items accepted from enq callers and the sequence of items delivered  *)
(* to deq callers.  A call is pending from its invocation until it takes   *)
(* effect, in one atomic step, with one of the three error codes.          *)
(* SimpleQueue is shown to implement this specification.                   *)
(***************************************************************************)
EXTENDS Integers, Sequences, QueueOps

CONSTANTS Threads,    \* the callers
          Items,      \* the values that can be queued
          NoItem,     \* the default constructed value, T{}
          MaxSizes,   \* the capacities set_maxsize may be called with
          Calls       \* Calls[t]: the operations caller t uses

VARIABLES sent,       \* items accepted so far, in order
          received,   \* items delivered so far, in order
          limit,      \* capacity
          enqOpen,    \* enq side enabled
          deqOpen,    \* deq side enabled
          pending,    \* callers that have a call in progress
          call,       \* call[t]: operation and item of the last call of t
          ec          \* ec[t]: the error code the last call of t ended with

vars == <<sent, received, limit, enqOpen, deqOpen, pending, call, ec>>

Init == /\ sent = <<>>
        /\ received = <<>>
        /\ limit \in MaxSizes
        /\ enqOpen = TRUE
        /\ deqOpen = TRUE
        /\ pending = {}
        /\ call = [t \in Threads |-> [op |-> "none", item |-> NoItem]]
        /\ ec = [t \in Threads |-> "success"]

-----------------------------------------------------------------------------
Stored == Len(sent) - Len(received)

Open(t) == IF call[t].op \in EnqOps THEN enqOpen ELSE deqOpen

\* The condition under which a call need not wait.
Possible(t) == \/ ~Open(t)
               \/ call[t].op \in EnqOps /\ Stored < limit
               \/ call[t].op \in DeqOps /\ Stored > 0

\* The call of t takes effect and returns code c.
Return(t, c) == /\ pending' = pending \ {t}
                /\ ec' = [ec EXCEPT ![t] = c]
                /\ UNCHANGED <<limit, enqOpen, deqOpen>>

Invoke(t, op, x) ==
  /\ t \notin pending
  /\ op \in Calls[t] \cap BlockingOps
  /\ x \in IF op \in PushOps THEN Items ELSE {NoItem}
  /\ pending' = pending \cup {t}
  /\ call' = [call EXCEPT ![t] = [op |-> op, item |-> x]]
  /\ ec' = [ec EXCEPT ![t] = "success"]
  /\ UNCHANGED <<sent, received, limit, enqOpen, deqOpen>>

Accept(t) ==
  /\ t \in pending /\ call[t].op \in PushOps
  /\ enqOpen /\ Stored < limit
  /\ sent' = Append(sent, call[t].item)
  /\ Return(t, "success")
  /\ UNCHANGED <<received, call>>

\* The item delivered is the oldest one accepted and not yet delivered.
Deliver(t) ==
  /\ t \in pending /\ call[t].op \in PopOps
  /\ deqOpen /\ Stored > 0
  /\ received' = Append(received, sent[Len(received) + 1])
  /\ call' = [call EXCEPT ![t].item = sent[Len(received) + 1]]
  /\ Return(t, "success")
  /\ UNCHANGED sent

Grant(t) ==
  /\ t \in pending /\ call[t].op \in WaitEnqOps \cup WaitDeqOps
  /\ Open(t) /\ Possible(t)
  /\ Return(t, "success")
  /\ UNCHANGED <<sent, received, call>>

Refuse(t) ==
  /\ t \in pending /\ ~Open(t)
  /\ Return(t, "operation_aborted")
  /\ UNCHANGED <<sent, received, call>>

\* A call only times out at a moment when it would have had to wait.
TimeOut(t) ==
  /\ t \in pending /\ call[t].op \in TimedOps
  /\ ~Possible(t)
  /\ Return(t, "timed_out")
  /\ UNCHANGED <<sent, received, call>>

Finish(t) == Accept(t) \/ Deliver(t) \/ Grant(t) \/ Refuse(t) \/ TimeOut(t)

Control(t) ==
  /\ t \notin pending
  /\ \/ "disable_enq" \in Calls[t] /\ enqOpen' \in BOOLEAN /\ UNCHANGED <<deqOpen, limit>>
     \/ "disable_deq" \in Calls[t] /\ deqOpen' \in BOOLEAN /\ UNCHANGED <<enqOpen, limit>>
     \/ "set_maxsize" \in Calls[t] /\ limit' \in MaxSizes /\ UNCHANGED <<enqOpen, deqOpen>>
  /\ UNCHANGED <<sent, received, pending, call, ec>>

Next == \E t \in Threads :
           \/ \E op \in BlockingOps, x \in Items \cup {NoItem} : Invoke(t, op, x)
           \/ Finish(t)
           \/ Control(t)

Safety == Init /\ [][Next]_vars

\* A call that need not wait, and any timed call, returns.
Spec == Safety /\ \A t \in Threads : WF_vars(Finish(t))
=============================================================================
