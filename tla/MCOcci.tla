-------------------------------- MODULE MCOcci --------------------------------
(* Rows of three columns through every tuple function.                       *)
EXTENDS Occi

Pair(in, out) == [source |-> in, sink |-> out]

\* Each kind of source and each kind of sink, but not with one another.
EachKind == {Pair("auth", "env"), Pair("env", "conn"), Pair("conn", "pool"), Pair("pool", "auth")}

\* As the tests do.
FromAuth == {Pair("auth", "auth")}
================================================================================
