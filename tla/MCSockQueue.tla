------------------------------ MODULE MCSockQueue ------------------------------
(* A server that receives two messages and sends some of its own, which fail  *)
(* in its serialiser or in the client's; the client may be replaced.          *)
EXTENDS SockQueue, TLC

CONSTANTS a, b, x, y

Traffic == ("cli" :> {a, b}) @@ ("serv" :> {x, y})
Uses    == ("cli" :> {"enq", "deq", "timed_wait_deq"}) @@ ("serv" :> {"deq", "timed_deq", "wait_enq", "timed_enq"})
Runs    == ("cli" :> 2) @@ ("serv" :> 1)
================================================================================
