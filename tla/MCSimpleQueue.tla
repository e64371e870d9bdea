---------------------------- MODULE MCSimpleQueue ----------------------------
(***************************************************************************)
(* The instance of SimpleQueue for TLC: who calls what.                    *)
(***************************************************************************)
EXTENDS SimpleQueue, TLC

CONSTANTS t1, t2, t3

\* Two producers, two consumers and all eight operations.  A blocked call of t1
\* or t2 can be released by an item or by room another thread makes, by a
\* capacity t3 sets, and by the other of the two disabling its side.
MixedCalls == (t1 :> {"enq", "disable_deq"}) @@
              (t2 :> {"deq", "disable_enq"}) @@
              (t3 :> (BlockingOps \ {"enq", "deq"}) \cup {"set_maxsize", "size"})
==============================================================================
