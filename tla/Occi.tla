--------------------------------- MODULE Occi ---------------------------------
(***************************************************************************)
(* occi_source, occi_sink and their iterators (occi_input.h, occi_output.h)*)
(* in the program they are made for: construct a source and a sink, loop   *)
(* over the rows of the source, write a row made from each to the sink,    *)
(* flush, and let everything go out of scope.  What is made from a row is  *)
(* one of the tuple functions of TypeUtils.                                *)
(*                                                                         *)
(* Copies of an output iterator hold a pointer to the one begin() returned,*)
(* which does the work, so a write through a copy is a write through it.   *)
(* Oracle is external: a call into it succeeds or throws, and an exception *)
(* unwinds the program's scope.                                            *)
(***************************************************************************)
EXTENDS TypeUtils

CONSTANTS MaxRows, NCols,   \* bound on the rows of the query, and its columns
          Kinds,            \* what the source and the sink are constructed from
          BatchSizes

ASSUME OcciAssumption == /\ MaxRows \in Nat /\ NCols \in Nat \ {0} /\ BatchSizes \subseteq Nat
                         /\ Kinds \subseteq [{"source", "sink"} -> {"auth", "env", "conn", "pool"}]

Objects == {"source", "sink"}
Row(n)  == [c \in 1 .. NCols |-> 10 * n + c]

\* The tuple functions applied to the rows, with an index and a count.
Shapes == [fn : {"reverse", "back", "add1", "sum", "product"}, i : {0}, n : {0}]
     \cup [fn : {"popn_front", "popn_back", "firstn", "lastn", "rotate_left"},
           i : {0}, n : 0 .. NCols]
     \cup {s \in [fn : {"slice", "reverse_slice"}, i : 0 .. NCols, n : 0 .. NCols] :
             s.i + s.n <= NCols}

VARIABLES
  nrows, shape, kind, commit_, batchsize_,   \* chosen once
  pc,         \* what the program does next
  alive,      \* the objects and iterators constructed and not destroyed
  env_, conn_,   \* per object: Oracle's environment and connection
  fetched, currentRow_, end_,   \* the input iterator, and rows it has fetched
  pending, nwaiting_,   \* rows bound in the statement of the output iterator
  inserted,   \* rows executed, in order
  committed,  \* those of them the sink has committed
  written, flushed,   \* history: rows written; flush() has returned
  threw       \* the exception that ended the loop or a constructor, or "no"

setup == <<nrows, shape, kind, commit_, batchsize_>>
input == <<fetched, currentRow_, end_>>
table == <<pending, nwaiting_, inserted, committed>>
programVars == <<setup, pc, alive, env_, conn_, input, table, written, flushed, threw>>

ProgramInit ==
  /\ nrows \in 0 .. MaxRows /\ shape \in Shapes
  /\ kind \in Kinds
  /\ commit_ \in {"Commit", "Rollback", "Nop"} /\ batchsize_ \in BatchSizes
  /\ pc = "source" /\ alive = {}
  /\ env_ = [o \in Objects |-> "none"] /\ conn_ = [o \in Objects |-> "none"]
  /\ fetched = 0 /\ currentRow_ = Row(0) /\ end_ = FALSE
  /\ pending = <<>> /\ nwaiting_ = 0 /\ inserted = <<>> /\ committed = <<>>
  /\ written = <<>> /\ flushed = FALSE /\ threw = "no"

-----------------------------------------------------------------------------
\* The tuple made from a row, with the metafunctions of the code.
Transform(row) ==
  LET il == make_indlist_from_tuple(row)
  IN  CASE shape.fn = "reverse"       -> reverse_tuple(row)
        [] shape.fn = "back"          -> transform_tuple(back(il), row)
        [] shape.fn = "add1"          -> transform_tuple(pop_back(add1(il)), row)
        [] shape.fn = "sum"           -> <<adder(row)>>
        [] shape.fn = "product"       -> <<tuple_inner_product(<<row, reverse_tuple(row)>>)>>
        [] shape.fn = "popn_front"    -> popn_front_tuple(shape.n, row)
        [] shape.fn = "popn_back"     -> popn_back_tuple(shape.n, row)
        [] shape.fn = "firstn"        -> transform_tuple(firstn(shape.n, il), row)
        [] shape.fn = "lastn"         -> transform_tuple(lastn(shape.n, il), row)
        [] shape.fn = "rotate_left"   -> transform_tuple(rotate_left(shape.n, il), row)
        [] shape.fn = "slice"         -> transform_tuple(slice(shape.i, shape.n, il), row)
        [] shape.fn = "reverse_slice" -> transform_tuple(reverse_slice(shape.i, shape.n, il), row)

\* Columns are set one by one: a fetcher sets those of the row it is given, a
\* binder those of the statement.
SetColumns(to, from) ==
  apply_ind_tuple_ntimes_with_indlist(make_indlist_from_tuple(to),
     LAMBDA tu, i : [tu EXCEPT ![i + 1] = from[i + 1]], to)

Bound(row) == SetColumns([c \in DOMAIN row |-> 0], row)

\* What a call into Oracle does when it throws.
Throw(what) == pc' = "unwind" /\ threw' = what

-----------------------------------------------------------------------------
\* A constructor acquires what its arguments do not give it.  A batch size of 0
\* throws before that; createConnection may throw, and then nothing destroys
\* the environment that was created for it.
Construct(o) ==
  LET made == kind[o] = "auth"
  IN  /\ pc = o
      /\ \/ /\ o = "sink" /\ batchsize_ = 0
            /\ Throw("batchsize")
            /\ UNCHANGED <<alive, env_, conn_>>
         \/ /\ o = "sink" => batchsize_ # 0
            /\ env_' = [env_ EXCEPT ![o] = IF made THEN "created" ELSE "none"]
            /\ conn_' = [conn_ EXCEPT ![o] = IF kind[o] = "conn" THEN "users" ELSE "open"]
            /\ alive' = alive \cup {o}
            /\ pc' = (IF o = "source" THEN "sink" ELSE "output")
            /\ UNCHANGED threw
         \/ /\ o = "sink" => batchsize_ # 0
            /\ kind[o] # "conn"
            /\ env_' = [env_ EXCEPT ![o] = IF made THEN "created" ELSE "none"]
            /\ Throw("connect")
            /\ UNCHANGED <<alive, conn_>>
      /\ UNCHANGED <<setup, input, table, written, flushed>>

\* sink.begin(): a statement that takes batchsize_ rows.  Oracle may throw, and
\* in batches the sizer does if the program gave no size for a string.
OpenOutput ==
  /\ pc = "output"
  /\ \/ alive' = alive \cup {"output"} /\ pc' = "input" /\ UNCHANGED threw
     \/ Throw("open") /\ UNCHANGED alive
  /\ UNCHANGED <<setup, env_, conn_, input, table, written, flushed>>

\* nextrow(): the next row of the result set, or its end.
NextRow == IF fetched < nrows
           THEN /\ fetched' = fetched + 1
                /\ currentRow_' = SetColumns(currentRow_, Row(fetched + 1))
                /\ UNCHANGED end_
           ELSE end_' = TRUE /\ UNCHANGED <<fetched, currentRow_>>

\* source.begin() runs the query and fetches a row, operator++ fetches another;
\* Oracle may throw at both.
Fetch ==
  /\ pc \in {"input", "step"}
  /\ \/ /\ NextRow
        /\ pc' = "loop"
        /\ alive' = alive \cup {"input"}
        /\ UNCHANGED threw
     \/ /\ Throw("fetch")
        /\ UNCHANGED <<input, alive>>
  /\ UNCHANGED <<setup, env_, conn_, table, written, flushed>>

\* Whether the iterator equals end().  end() is default constructed, with an
\* end_ of false, and has neither the connection nor the query.
Equal == LET other_end_ == FALSE
         IN  IF end_ \/ other_end_ THEN end_ /\ other_end_ ELSE FALSE

\* The range-for compares, and dereferences; the program may also leave it
\* early.
Dereference ==
  /\ pc = "loop" /\ ~Equal
  /\ \/ end_ /\ Throw("dereference end")
     \/ ~end_ /\ pc' = "row" /\ UNCHANGED threw
  /\ UNCHANGED <<setup, alive, env_, conn_, input, table, written, flushed>>

LeaveLoop ==
  /\ pc = "loop"
  /\ alive' = alive \ {"input"}
  /\ pc' = "after"
  /\ UNCHANGED <<setup, env_, conn_, input, table, written, flushed, threw>>

-----------------------------------------------------------------------------
\* executeUpdate() of the rows bound.  If it throws, those before the row it
\* stopped at are in the table, and nwaiting_ is not reset.
Execute(batch, next) ==
  \/ /\ inserted' = inserted \o batch
     /\ pending' = <<>> /\ nwaiting_' = 0
     /\ pc' = next
     /\ UNCHANGED threw
  \/ /\ \E k \in 0 .. Len(batch) - 1 : inserted' = inserted \o SubSeq(batch, 1, k)
     /\ pending' = batch /\ nwaiting_' = Len(batch)
     /\ Throw("update")

Write_NoIteration ==             \* mutant: off by one in the test before addIteration
  LET row   == Transform(currentRow_)
      n     == nwaiting_ + 1
      batch == IF n > 2 THEN Append(pending, Bound(row)) ELSE <<Bound(row)>>
  IN  /\ pc = "row"
      /\ written' = Append(written, row)
      /\ \/ n = batchsize_ /\ Execute(batch, "step")
         \/ /\ n # batchsize_
            /\ pending' = batch /\ nwaiting_' = n
            /\ pc' = "step"
            /\ UNCHANGED <<inserted, threw>>
         \/ /\ Throw("bind")
            /\ nwaiting_' = n
            /\ UNCHANGED <<pending, inserted>>
      /\ UNCHANGED <<setup, alive, env_, conn_, input, committed, flushed>>

\* *it = row, through the iterator or a copy: the first row of a batch is bound
\* in place, the others in an iteration added for them, and a full batch is
\* executed.  When Oracle throws at the bind the row has been counted.
Write ==
  LET row   == Transform(currentRow_)
      n     == nwaiting_ + 1
      batch == IF n > 1 THEN Append(pending, Bound(row)) ELSE <<Bound(row)>>
  IN  /\ pc = "row"
      /\ written' = Append(written, row)
      /\ \/ n = batchsize_ /\ Execute(batch, "step")
         \/ /\ n # batchsize_
            /\ pending' = batch /\ nwaiting_' = n
            /\ pc' = "step"
            /\ UNCHANGED <<inserted, threw>>
         \/ /\ Throw("bind")
            /\ nwaiting_' = n
            /\ UNCHANGED <<pending, inserted>>
      /\ UNCHANGED <<setup, alive, env_, conn_, input, committed, flushed>>

Flush_FullOnly ==                \* mutant: flush() executes full batches only
  /\ pc = "after"
  /\ \/ nwaiting_ = batchsize_ /\ Execute(pending, "unwind")
     \/ nwaiting_ # batchsize_ /\ pc' = "unwind" /\ UNCHANGED <<pending, nwaiting_, inserted, threw>>
  /\ flushed' = (threw' = "no")
  /\ UNCHANGED <<setup, alive, env_, conn_, input, committed, written>>

\* it.flush() after the loop.
Flush ==
  /\ pc = "after"
  /\ \/ nwaiting_ > 0 /\ Execute(pending, "unwind")
     \/ nwaiting_ = 0 /\ pc' = "unwind" /\ UNCHANGED <<pending, nwaiting_, inserted, threw>>
  /\ flushed' = (threw' = "no")
  /\ UNCHANGED <<setup, alive, env_, conn_, input, committed, written>>

NoFlush ==
  /\ pc = "after" /\ pc' = "unwind"
  /\ UNCHANGED <<setup, alive, env_, conn_, input, table, written, flushed, threw>>

-----------------------------------------------------------------------------
\* The iterators are destroyed first.  Rows still bound go with the statement.
DestroyIterator ==
  /\ pc = "unwind" /\ alive \cap {"input", "output"} # {}
  /\ alive' = alive \ {IF "input" \in alive THEN "input" ELSE "output"}
  /\ pending' = IF "input" \in alive THEN pending ELSE <<>>
  /\ nwaiting_' = IF "input" \in alive THEN nwaiting_ ELSE 0
  /\ UNCHANGED <<setup, pc, env_, conn_, input, inserted, committed, written, flushed, threw>>

Release_ClosesOnly(o) ==         \* mutant: pooled connections are not given back
  /\ conn_' = [conn_ EXCEPT ![o] = IF kind[o] \in {"auth", "env"} THEN "terminated" ELSE @]
  /\ env_' = [env_ EXCEPT ![o] = IF kind[o] = "auth" THEN "terminated" ELSE @]

\* closeConn_, releaseConn_ and terminateEnv_, as the constructors set them.
Release(o) ==
  /\ conn_' = [conn_ EXCEPT ![o] = CASE kind[o] \in {"auth", "env"} -> "terminated"
                                     [] kind[o] = "pool"            -> "released"
                                     [] kind[o] = "conn"            -> @]
  /\ env_' = [env_ EXCEPT ![o] = IF kind[o] = "auth" THEN "terminated" ELSE @]

\* ~occi_sink commits or rolls back first, also when an exception brought it
\* here.  If Oracle throws at that, the exception leaves a destructor.
DestroySink ==
  /\ pc = "unwind" /\ alive \cap {"input", "output"} = {} /\ "sink" \in alive
  /\ \/ /\ committed' = IF commit_ = "Commit" THEN inserted ELSE committed
        /\ Release("sink")
        /\ alive' = alive \ {"sink"}
        /\ UNCHANGED pc
     \/ /\ commit_ # "Nop"
        /\ pc' = "terminated"
        /\ UNCHANGED <<committed, alive, env_, conn_>>
  /\ UNCHANGED <<setup, input, pending, nwaiting_, inserted, written, flushed, threw>>

DestroySource ==
  /\ pc = "unwind" /\ alive = {"source"}
  /\ Release("source")
  /\ alive' = {}
  /\ UNCHANGED <<setup, pc, input, table, written, flushed, threw>>

ProgramNext ==
  \/ \E o \in Objects : Construct(o)
  \/ OpenOutput \/ Fetch \/ Dereference \/ LeaveLoop \/ Write
  \/ Flush \/ NoFlush \/ DestroyIterator \/ DestroySink \/ DestroySource

ProgramSpec == ProgramInit /\ [][ProgramNext]_programVars

-----------------------------------------------------------------------------
Sum(s) == LET upto[k \in 0 .. Len(s)] == IF k = 0 THEN 0 ELSE upto[k - 1] + s[k]
          IN  upto[Len(s)]

\* What the tuple functions promise, by position.
Promised(row) ==
  LET n == shape.n  i == shape.i  last == Len(row)
  IN  CASE shape.fn = "reverse"    -> Reverse(row)
        [] shape.fn = "back"       -> <<row[last]>>
        [] shape.fn = "add1"       -> SubSeq(row, 2, last)
        [] shape.fn = "sum"        -> <<Sum(row)>>
        [] shape.fn = "product"    ->
             <<Sum([c \in DOMAIN row |-> row[c] * row[last + 1 - c]])>>
        [] shape.fn \in {"popn_front", "lastn"} ->
             IF shape.fn = "lastn" THEN SubSeq(row, last - n + 1, last) ELSE SubSeq(row, n + 1, last)
        [] shape.fn \in {"popn_back", "firstn"} ->
             SubSeq(row, 1, IF shape.fn = "firstn" THEN n ELSE last - n)
        [] shape.fn = "rotate_left" -> SubSeq(row, n + 1, last) \o SubSeq(row, 1, n)
        [] shape.fn = "slice"       -> SubSeq(row, i + 1, i + n)
        [] shape.fn = "reverse_slice" ->
             SubSeq(row, 1, i) \o Reverse(SubSeq(row, i + 1, i + n)) \o SubSeq(row, i + n + 1, last)

\* Each row of the query is fetched once and in order, and what is written for
\* it is what the tuple functions promise.
RowsTransformed == written = [k \in DOMAIN written |-> Promised(Row(k))]

\* While no exception has come, the rows written are those executed followed
\* by those bound, fewer than a batch, and the iterator knows how many.
RowsInOrder ==
  "output" \in alive /\ threw = "no" =>
     /\ written = inserted \o pending
     /\ Len(pending) = nwaiting_ /\ nwaiting_ < batchsize_

\* The rows executed are a prefix of those written, and the rows committed a
\* prefix of those executed, also after an exception in the middle of a batch.
\* What a sink has committed when it is gone is all that was written after a
\* flush, at most a batch less without, nothing if it was not to commit.
CommittedPrefix ==
  /\ IsPrefix(inserted, written) /\ IsPrefix(committed, inserted)
  /\ alive = {} /\ pc = "unwind" =>
        /\ commit_ # "Commit" => committed = <<>>
        /\ commit_ = "Commit" /\ flushed => committed = written
        /\ commit_ = "Commit" /\ threw = "no" => Len(written) - Len(committed) < batchsize_

\* When all is destroyed, the connections the objects opened are terminated or
\* back in their pool, the user's are not touched, and environments are
\* terminated, but for that of an object whose own connection could not be
\* opened.
ResourcesReleased ==
  alive = {} /\ pc = "unwind" =>
     /\ \A o \in Objects : conn_[o] \in {"none", "users", IF kind[o] = "pool" THEN "released"
                                                                        ELSE "terminated"}
     /\ \A o \in Objects : env_[o] = "created" => threw = "connect" /\ conn_[o] = "none"

\* A range-for over a source ends after its last row ("for(auto r:rows)").
RangeForEnds == threw # "dereference end"
================================================================================
