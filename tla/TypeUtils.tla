------------------------------ MODULE TypeUtils ------------------------------
(***************************************************************************)
(* The compile-time index lists of type_utils.h and the tuple functions    *)
(* they drive.  An indlist<i...> is a sequence of naturals, a tuple a      *)
(* sequence of values; the indices of an indlist count from 0.  Each       *)
(* metafunction is composed of the same others as in the code; where it    *)
(* calls itself, a recursive function has its value for each step of that  *)
(* recursion.                                                              *)
(***************************************************************************)
EXTENDS Integers, Sequences, SequencesExt

push_front(a, il) == <<a>> \o il
push_back(a, il)  == Append(il, a)
pop_front(il)     == Tail(il)
front(il)         == <<Head(il)>>

\* The indices first .. last, both included: from(n) are the last n + 1 of them.
make_indlist_from_range(first, last) ==
  LET from[n \in 0 .. last - first] ==
        IF n = 0 THEN <<last>> ELSE push_front(last - n, from[n - 1])
  IN  from[last - first]

make_indlist_from_tuple(tu) ==
  IF tu = <<>> THEN <<>> ELSE make_indlist_from_range(0, Len(tu) - 1)

make_uniform_indlist(n, v) ==
  LET u[k \in 0 .. n] == IF k = 0 THEN <<>> ELSE push_back(v, u[k - 1]) IN u[n]

\* of(k) is the reverse of the last k indices.
reverse(il) ==
  LET of[k \in 0 .. Len(il)] ==
        IF k = 0 THEN <<>> ELSE push_back(il[Len(il) + 1 - k], of[k - 1])
  IN  of[Len(il)]

pop_back(il) == reverse(pop_front(reverse(il)))
back(il)     == front(reverse(il))

popn_front(n, il) ==
  LET rest[k \in 0 .. n] == IF k = 0 THEN il ELSE pop_front(rest[k - 1]) IN rest[n]
popn_back(n, il) ==
  LET rest[k \in 0 .. n] == IF k = 0 THEN il ELSE pop_back(rest[k - 1]) IN rest[n]

firstn(n, il) == popn_back(Len(il) - n, il)
lastn(n, il)  == reverse(firstn(n, reverse(il)))

\* The indices of il2 move to the end of il1 one by one.
append(il1, il2) ==
  LET moved[k \in 0 .. Len(il2)] == IF k = 0 THEN il1 ELSE push_back(il2[k], moved[k - 1])
  IN  moved[Len(il2)]

slice(ind, n, il) ==
  LET il1 == popn_front(ind, il) IN popn_back(Len(il1) - n, il1)

\* n elements from ind on in reverse, the rest as they are.
reverse_slice(ind, n, il) ==
  LET left  == slice(0, ind, il)
      mid   == reverse(slice(ind, n, il))
      right == slice(ind + n, Len(il) - (ind + n), il)
  IN  append(append(left, mid), right)

rotate_left_NoReverse(n, il) ==  \* mutant: the parts are not reversed together
  append(reverse(slice(0, n, il)), reverse(slice(n, Len(il) - n, il)))

\* Both parts are reversed, and then the whole.
rotate_left(n, il) ==
  LET r1 == slice(0, n, reverse_slice(0, n, il))
      r2 == slice(n, Len(il) - n, reverse_slice(n, Len(il) - n, il))
  IN  reverse(append(r1, r2))

\* of(k) are the last k indices, each with 1 added.
add1(il) ==
  LET of[k \in 0 .. Len(il)] ==
        IF k = 0 THEN <<>> ELSE push_front(il[Len(il) + 1 - k] + 1, of[k - 1])
  IN  of[Len(il)]

-----------------------------------------------------------------------------
(* Tuples.                                                                 *)

\* The elements of tu that il names, in that order.
transform_tuple(il, tu) == [k \in DOMAIN il |-> tu[il[k] + 1]]

reverse_tuple(tu)       == transform_tuple(reverse(make_indlist_from_tuple(tu)), tu)
popn_front_tuple(n, tu)== transform_tuple(popn_front(n, make_indlist_from_tuple(tu)), tu)
popn_back_tuple(n, tu)  == transform_tuple(popn_back(n, make_indlist_from_tuple(tu)), tu)

\* A function object that is called with one index after the other and keeps
\* its state s: the statement it binds to, the row it fetches into.
apply_ind_tuple_ntimes_with_indlist(il, F(_, _), s) ==
  LET after[k \in 0 .. Len(il)] == IF k = 0 THEN s ELSE F(after[k - 1], il[k])
  IN  after[Len(il)]

\* foldl1: the first two elements are replaced by F of them until one is left;
\* after k elements that is first[k].
foldl_tuple(F(_, _), tu) ==
  LET first[k \in 1 .. Len(tu)] == IF k = 1 THEN tu[1] ELSE F(first[k - 1], tu[k])
  IN  first[Len(tu)]

\* Element il[k] of the k-th tuple.
apply_elem_tuples(il, tus) == [k \in DOMAIN tus |-> tus[k][il[k] + 1]]

adder(tu)      == foldl_tuple(LAMBDA x, y : x + y, tu)
multiplier(tu) == foldl_tuple(LAMBDA x, y : x * y, tu)

\* The sum over the columns of the products within a column.
tuple_inner_product(tus) ==
  LET il == make_indlist_from_tuple(tus[1])
  IN  adder([k \in DOMAIN il |->
               multiplier(apply_elem_tuples(make_uniform_indlist(Len(tus), il[k]), tus))])
================================================================================
