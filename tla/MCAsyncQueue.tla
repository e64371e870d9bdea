----------------------------- MODULE MCAsyncQueue -----------------------------
(***************************************************************************)
(* Instances of AsyncQueue for TLC: which operations are used.             *)
(***************************************************************************)
EXTENDS AsyncQueue

\* An item goes in, and comes out unless the deadline passes first.
Traffic == {"enq", "timed_deq"}

\* Every kind of operation that can block for ever, and a timed one.
Blocking == {"enq", "timed_wait_enq", "deq"}

\* main takes an item itself.
TakesItem == {"deq"}
===============================================================================
