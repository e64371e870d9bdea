---------------------------- MODULE MessageChannel ----------------------------
(***************************************************************************)
(* What recvwait and sendwait promise of one direction of a queue over     *)
(* descriptors, whoever calls them: an end accepts messages, and the other *)
(* end gets the accepted messages, one at a time, whole, in the order they *)
(* were accepted and each once.  Bytes, separators, selects, connections,  *)
(* error codes and calls that fail are below this specification; a message *)
(* that was accepted may never be delivered, because the other end may     *)
(* never ask for it or may be gone.                                        *)
(***************************************************************************)
EXTENDS Naturals, Sequences

CONSTANT Msgs

VARIABLES accepted,   \* messages the sending end took over
          delivered   \* messages the receiving end returned

vars == <<accepted, delivered>>

Init == accepted = <<>> /\ delivered = <<>>

Accept == \E m \in Msgs : /\ accepted' = Append(accepted, m)
                          /\ UNCHANGED delivered

\* The oldest message that was accepted and not delivered.
Deliver == /\ Len(delivered) < Len(accepted)
           /\ delivered' = Append(delivered, accepted[Len(delivered) + 1])
           /\ UNCHANGED accepted

Next == Accept \/ Deliver

Spec == Init /\ [][Next]_vars
===============================================================================
