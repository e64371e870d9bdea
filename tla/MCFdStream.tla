------------------------------ MODULE MCFdStream ------------------------------
(* Two messages through a pipe shorter than one of them.                     *)
EXTENDS FdStream

Uses == [enq |-> {"enq", "timed_wait_enq"}, deq |-> {"timed_deq", "wait_deq"}]
================================================================================
