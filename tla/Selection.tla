------------------------------ MODULE Selection ------------------------------
(***************************************************************************)
(* Selected(s, T): the items of sequence s that are in the set T, in the   *)
(* order they have in s.  The histories the properties compare are such    *)
(* selections: the handlers of one IO object out of all those posted, the  *)
(* messages of one connection out of all those stored.                     *)
(*                                                                         *)
(* SelectSeq of the standard module Sequences says the same; it is built   *)
(* from an operator the proof system cannot expand, and this one, built    *)
(* from a recursive function, can be reasoned about (see SeqLemmas).       *)
(***************************************************************************)
EXTENDS Integers, Sequences

Selected(s, T) ==
  LET upto[i \in 0 .. Len(s)] == IF i = 0 THEN <<>>
                                 ELSE IF s[i] \in T THEN Append(upto[i - 1], s[i])
                                 ELSE upto[i - 1]
  IN  upto[Len(s)]
=============================================================================
