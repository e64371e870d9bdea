-------------------------------- MODULE MCTPool --------------------------------
(* Two tasks that submit others and wait for them, one of which fails, and a  *)
(* plain one.                                                                 *)
EXTENDS TPool, TLC

CONSTANTS p1, p2, a, b, c, d

Nested == (p1 :> <<a, b>>) @@ (p2 :> <<c>>) @@ [t \in {a, b, c, d} |-> <<>>]
================================================================================
