---------------------------- MODULE MCPolldirQueue ----------------------------
(* Instances of PolldirQueue for TLC: who uses which object, and how. *)
EXTENDS PolldirQueue, TLC

CONSTANTS q1, q2, t1, t2, t3

\* A producer and a consumer share one object, a second object has a consumer.
TwoObjects == (t1 :> q1) @@ (t2 :> q1) @@ (t3 :> q2)

MixedCalls == (t1 :> {"enq", "timed_wait_enq", "disable_enq"}) @@
              (t2 :> {"timed_deq", "size"}) @@
              (t3 :> {"deq", "wait_deq", "disable_deq"})

\* Items are interchangeable.
ItemSymmetry == Permutations(Items)
==============================================================================
