----------------------------- MODULE MCSockdeqServ -----------------------------
(* Two clients, one of which sends two messages, a consumer with a timeout   *)
(* and a thread that disables taking.                                        *)
EXTENDS SockdeqServ, TLC

CONSTANTS c1, c2, t1, t2, a, b, x

Traffic == (c1 :> <<a, b>>) @@ (c2 :> <<x>>)
Uses    == (t1 :> {"timed_deq"}) @@ (t2 :> {"disable_deq"})
================================================================================
