------------------------------ MODULE SeqLemmas ------------------------------
(***************************************************************************)
(* Facts about sequences that several proofs need: appending to them and   *)
(* taking from them, inserting into them, and what Selected takes out of   *)
(* them.  Facts about sequences of any length are shown by induction, over *)
(* the set of numbers, or of sequences, for which they hold.               *)
(***************************************************************************)
EXTENDS Integers, Sequences, Functions, Selection, SequenceTheorems, WellFoundedInduction, TLAPS

(***************************************************************************)
(* Moving the oldest item of q from the container to the delivered ones    *)
(* leaves the whole history as it was.                                     *)
(***************************************************************************)
LEMMA MoveHead ==
  ASSUME NEW S, NEW r \in Seq(S), NEW q \in Seq(S), q # <<>>
  PROVE  Append(r, Head(q)) \o Tail(q) = r \o q
<1>1. /\ Head(q) \in S /\ Tail(q) \in Seq(S) /\ Len(Tail(q)) = Len(q) - 1
      /\ \A i \in 1 .. Len(Tail(q)) : Tail(q)[i] = q[i + 1]
      /\ Head(q) = q[1] /\ Len(q) >= 1
  BY HeadTailProperties, EmptySeq
<1>2. /\ Append(r, Head(q)) \in Seq(S) /\ Len(Append(r, Head(q))) = Len(r) + 1
      /\ \A i \in 1 .. Len(r) : Append(r, Head(q))[i] = r[i]
      /\ Append(r, Head(q))[Len(r) + 1] = Head(q)
  BY <1>1, AppendProperties
<1> DEFINE left == Append(r, Head(q)) \o Tail(q)
           right == r \o q
<1>3. /\ left \in Seq(S) /\ right \in Seq(S)
      /\ Len(left) = Len(r) + Len(q) /\ Len(right) = Len(r) + Len(q)
  BY <1>1, <1>2, ConcatProperties
<1>4. ASSUME NEW i \in 1 .. Len(r) + Len(q) PROVE left[i] = right[i]
  <2>1. right[i] = IF i <= Len(r) THEN r[i] ELSE q[i - Len(r)]
    BY ConcatProperties
  <2>2. left[i] = IF i <= Len(r) + 1 THEN Append(r, Head(q))[i] ELSE Tail(q)[i - (Len(r) + 1)]
    BY <1>1, <1>2, ConcatProperties
  <2>3. i > Len(r) + 1 => Tail(q)[i - (Len(r) + 1)] = q[i - Len(r)]
    BY <1>1
  <2>4. QED
    BY <1>1, <1>2, <2>1, <2>2, <2>3
<1>5. QED
  BY <1>3, <1>4, SeqEqual

(***************************************************************************)
(* Accepting an item at the back of q extends the history by that item.    *)
(***************************************************************************)
LEMMA AppendToConcat ==
  ASSUME NEW S, NEW r \in Seq(S), NEW q \in Seq(S), NEW x \in S
  PROVE  Append(r \o q, x) = r \o Append(q, x)
<1>1. <<x>> \in Seq(S) /\ r \o q \in Seq(S)
  BY ConcatProperties
<1>2. Append(r \o q, x) = (r \o q) \o <<x>>
  BY <1>1, AppendIsConcat
<1>3. Append(q, x) = q \o <<x>>
  BY AppendIsConcat
<1>4. QED
  BY <1>1, <1>2, <1>3, ConcatAssociative

(***************************************************************************)
(* An item that is not in the container is in it once after an Append.     *)
(***************************************************************************)
LEMMA AppendNew ==
  ASSUME NEW S, NEW q \in Seq(S), NEW x \in S
  PROVE  /\ Range(Append(q, x)) = Range(q) \cup {x}
         /\ IsInjective(q) /\ x \notin Range(q) => IsInjective(Append(q, x))
<1>1. /\ DOMAIN q = 1 .. Len(q) /\ Len(q) \in Nat
      /\ DOMAIN Append(q, x) = 1 .. Len(q) + 1
      /\ \A i \in 1 .. Len(q) : Append(q, x)[i] = q[i]
      /\ Append(q, x)[Len(q) + 1] = x
  BY AppendProperties, LenProperties
<1>2. \A i \in 1 .. Len(q) + 1 : i \in 1 .. Len(q) \/ i = Len(q) + 1
  BY <1>1
<1>3. Range(Append(q, x)) = Range(q) \cup {x}
  BY <1>1, <1>2 DEF Range
<1>4. IsInjective(q) /\ x \notin Range(q) => IsInjective(Append(q, x))
  BY <1>1, <1>2 DEF Range, IsInjective
<1>5. QED
  BY <1>3, <1>4

(***************************************************************************)
(* The head of a container without duplicates is not in its tail.          *)
(***************************************************************************)
LEMMA TailRest ==
  ASSUME NEW S, NEW q \in Seq(S), q # <<>>, IsInjective(q)
  PROVE  /\ Head(q) \in Range(q)
         /\ Range(Tail(q)) = Range(q) \ {Head(q)}
         /\ IsInjective(Tail(q))
<1>1. /\ DOMAIN q = 1 .. Len(q) /\ Len(q) \in Nat /\ Len(q) >= 1
      /\ Head(q) = q[1] /\ Tail(q) \in Seq(S) /\ Len(Tail(q)) = Len(q) - 1
      /\ DOMAIN Tail(q) = 1 .. Len(q) - 1
      /\ \A i \in 1 .. Len(q) - 1 : Tail(q)[i] = q[i + 1]
  BY HeadTailProperties, LenProperties, EmptySeq
<1>2. \A i \in 2 .. Len(q) : q[i] # q[1] /\ i - 1 \in 1 .. Len(q) - 1 /\ Tail(q)[i - 1] = q[i]
  BY <1>1 DEF IsInjective
<1>3. Head(q) \in Range(q)
  BY <1>1 DEF Range
<1>4. Range(Tail(q)) = Range(q) \ {Head(q)}
  <2>1. ASSUME NEW y \in Range(Tail(q)) PROVE y \in Range(q) \ {Head(q)}
    <3>1. PICK i \in 1 .. Len(q) - 1 : y = Tail(q)[i]
      BY <1>1 DEF Range
    <3>2. i + 1 \in 2 .. Len(q) /\ y = q[i + 1]
      BY <1>1, <3>1
    <3>3. QED
      BY <1>1, <1>2, <3>2 DEF Range
  <2>2. ASSUME NEW y \in Range(q) \ {Head(q)} PROVE y \in Range(Tail(q))
    <3>1. PICK i \in 1 .. Len(q) : y = q[i]
      BY <1>1 DEF Range
    <3>2. i \in 2 .. Len(q)
      BY <1>1, <3>1, <2>2
    <3>3. QED
      BY <1>1, <1>2, <3>1, <3>2 DEF Range
  <2>3. QED
    BY <2>1, <2>2
<1>5. IsInjective(Tail(q))
  <2>1. ASSUME NEW i \in 1 .. Len(q) - 1, NEW j \in 1 .. Len(q) - 1, Tail(q)[i] = Tail(q)[j]
        PROVE  i = j
    <3>1. i + 1 \in 1 .. Len(q) /\ j + 1 \in 1 .. Len(q) /\ q[i + 1] = q[j + 1]
      BY <1>1, <2>1
    <3>2. i + 1 = j + 1
      BY <1>1, <3>1 DEF IsInjective
    <3>3. QED
      BY <3>2
  <2>2. QED
    BY <1>1, <2>1 DEF IsInjective
<1>6. QED
  BY <1>3, <1>4, <1>5

(***************************************************************************)
(* Induction, stated with sets: a set of naturals that holds 0 and is      *)
(* closed under successor holds them all, and a set that holds the empty   *)
(* sequence and is closed under Append holds every finite sequence.        *)
(***************************************************************************)
LEMMA NatWF == \A T \in SUBSET Nat : T # {} => \E x \in T : \A y \in T : ~(y < x)
<1> DEFINE R == OpToRel(<, Nat)
<1>1. IsWellFoundedOn(R, Nat)
  BY NatLessThanWellFounded
<1>2. ASSUME NEW x \in Nat, NEW y \in Nat, y < x PROVE <<y, x>> \in R
  BY <1>2 DEF OpToRel
<1> HIDE DEF R
<1>3. ASSUME NEW T \in SUBSET Nat, T # {} PROVE \E x \in T : \A y \in T : ~(y < x)
  <2>1. PICK x \in T : \A y \in T : ~(<<y, x>> \in R)
    BY <1>1, <1>3, WFMin
  <2>2. QED
    BY <2>1, <1>2
<1>4. QED
  BY <1>3

\* A set with 0 that is closed under successors contains the naturals.
LEMMA SetInduction ==
  ASSUME NEW T, 0 \in T, \A n \in Nat : n \in T => n + 1 \in T
  PROVE  Nat \subseteq T
<1>1. SUFFICES ASSUME Nat \ T # {} PROVE FALSE
  OBVIOUS
<1>2. PICK x \in Nat \ T : \A y \in Nat \ T : ~(y < x)
  BY <1>1, NatWF
<1>3. x # 0 /\ x - 1 \in Nat /\ x - 1 < x
  BY <1>2
<1>4. x - 1 \in T
  BY <1>2, <1>3
<1>5. x - 1 + 1 = x
  BY <1>2
<1>6. QED
  BY <1>2, <1>3, <1>4, <1>5

\* A set with the empty sequence that is closed under appending contains the sequences.
LEMMA SequenceInduction ==
  ASSUME NEW S, NEW I, <<>> \in I, \A s \in Seq(S), x \in S : s \in I => Append(s, x) \in I
  PROVE  Seq(S) \subseteq I
<1> DEFINE N == {n \in Nat : \A s \in Seq(S) : Len(s) = n => s \in I}
<1>1. 0 \in N
  BY EmptySeq
<1>2. ASSUME NEW n \in Nat, n \in N PROVE n + 1 \in N
  <2>1. SUFFICES ASSUME NEW s \in Seq(S), Len(s) = n + 1 PROVE s \in I
    OBVIOUS
  <2>2. s # <<>>
    BY <2>1, EmptySeq
  <2>3. PICK r \in Seq(S), x \in S : s = Append(r, x)
    BY <2>2, SequenceEmptyOrAppend
  <2>4. Len(r) = n
    BY <2>1, <2>3, AppendProperties, LenProperties
  <2>5. r \in I
    BY <1>2, <2>4
  <2>6. QED
    BY <2>3, <2>5
<1>3. Nat \subseteq N
  <2> HIDE DEF N
  <2> QED BY <1>1, <1>2, SetInduction
<1>4. QED
  BY <1>3, LenProperties

(***************************************************************************)
(* AppendToConcat once more, with the two operators under names that are   *)
(* not expanded unless they are cited.                                     *)
(***************************************************************************)
AppendOf(q, x) == Append(q, x)
ConcatOf(r, q) == r \o q

\* Appending to the second part of a concatenation appends to the whole.
LEMMA PushJoined ==
  ASSUME NEW S, NEW r \in Seq(S), NEW q \in Seq(S), NEW x \in S
  PROVE  AppendOf(ConcatOf(r, q), x) = ConcatOf(r, AppendOf(q, x))
<1>1. Append(r \o q, x) = r \o Append(q, x)
  OBVIOUS
<1>2. QED
  BY <1>1, Zenon DEF AppendOf, ConcatOf

(***************************************************************************)
(* f[i] is the selection of the first i items: the equation that defines   *)
(* the function in Selected, and what it says item by item.                *)
(***************************************************************************)
Upto(f, s, T) ==
  f = [i \in 0 .. Len(s) |->
         IF i = 0 THEN <<>>
         ELSE IF s[i] \in T THEN Append(f[i - 1], s[i]) ELSE f[i - 1]]

Partial(f, n, s, T) ==
  /\ f[0] = <<>>
  /\ \A i \in 1 .. n : f[i] = IF s[i] \in T THEN Append(f[i - 1], s[i]) ELSE f[i - 1]

(***************************************************************************)
(* The equation has a solution, so Selected is one of its solutions.       *)
(***************************************************************************)
LEMMA PartialExists ==
  ASSUME NEW S, NEW s \in Seq(S), NEW T
  PROVE  \E f : Upto(f, s, T)
<1> DEFINE I == {n \in Nat : \E f : Partial(f, n, s, T)}
<1>1. 0 \in I
  <2>1. Partial([i \in {0} |-> <<>>], 0, s, T)
    BY DEF Partial
  <2>2. QED
    BY <2>1
<1>2. ASSUME NEW n \in Nat, n \in I PROVE n + 1 \in I
  <2>1. PICK f : Partial(f, n, s, T)
    BY <1>2
  <2> DEFINE v == IF s[n + 1] \in T THEN Append(f[n], s[n + 1]) ELSE f[n]
             g == [i \in 0 .. n + 1 |-> IF i = n + 1 THEN v ELSE f[i]]
  <2>2. \A i \in 0 .. n : g[i] = f[i]
    OBVIOUS
  <2>3. g[n + 1] = v
    OBVIOUS
  <2> HIDE DEF g
  <2>4. ASSUME NEW i \in 1 .. n + 1
        PROVE g[i] = IF s[i] \in T THEN Append(g[i - 1], s[i]) ELSE g[i - 1]
    <3>1. CASE i = n + 1
      BY <2>2, <2>3, <3>1
    <3>2. CASE i # n + 1
      BY <2>1, <2>2, <3>2 DEF Partial
    <3>3. QED
      BY <3>1, <3>2
  <2>5. g[0] = <<>>
    BY <2>1, <2>2 DEF Partial
  <2>6. Partial(g, n + 1, s, T)
    BY <2>4, <2>5 DEF Partial
  <2>7. QED
    BY <2>6
<1>3. Nat \subseteq I
  <2> HIDE DEF I
  <2> QED
  BY <1>1, <1>2, SetInduction
<1>4. PICK f : Partial(f, Len(s), s, T)
  BY <1>3, LenProperties
<1> DEFINE h == [i \in 0 .. Len(s) |-> f[i]]
<1>5. Upto(h, s, T)
  <2>1. ASSUME NEW i \in 0 .. Len(s)
        PROVE h[i] = IF i = 0 THEN <<>>
                     ELSE IF s[i] \in T THEN Append(h[i - 1], s[i]) ELSE h[i - 1]
    BY <1>4, LenProperties DEF Partial
  <2>2. QED
    BY <2>1 DEF Upto
<1>6. QED
  BY <1>5

\* What the function that selects from the first i elements is at 0 and at each i.
LEMMA UptoStep ==
  ASSUME NEW S, NEW s \in Seq(S), NEW T, NEW f, Upto(f, s, T)
  PROVE  /\ f[0] = <<>>
         /\ \A i \in 1 .. Len(s) : f[i] = IF s[i] \in T THEN Append(f[i - 1], s[i]) ELSE f[i - 1]
<1> DEFINE F == [i \in 0 .. Len(s) |->
                   IF i = 0 THEN <<>>
                   ELSE IF s[i] \in T THEN Append(f[i - 1], s[i]) ELSE f[i - 1]]
<1>1. f = F
  BY DEF Upto
<1>2. F[0] = <<>>
  BY LenProperties
<1>3. \A i \in 1 .. Len(s) : F[i] = IF s[i] \in T THEN Append(f[i - 1], s[i]) ELSE f[i - 1]
  BY LenProperties
<1> HIDE DEF F
<1>4. QED
  BY <1>1, <1>2, <1>3

\* Nothing is selected from no elements.
LEMMA UptoFirst ==
  ASSUME NEW S, NEW s \in Seq(S), NEW T, NEW f, Upto(f, s, T)
  PROVE  f[0] = <<>>
BY UptoStep

\* The next element is appended to what is selected, or passed over.
LEMMA UptoNext ==
  ASSUME NEW S, NEW s \in Seq(S), NEW T, NEW f, Upto(f, s, T), NEW i \in 1 .. Len(s)
  PROVE  f[i] = IF s[i] \in T THEN Append(f[i - 1], s[i]) ELSE f[i - 1]
BY UptoStep

\* The selection from a sequence is that function at its length.
LEMMA SelectedUpto ==
  ASSUME NEW S, NEW s \in Seq(S), NEW T
  PROVE  \E f : Upto(f, s, T) /\ Selected(s, T) = f[Len(s)]
<1>1. Selected(s, T) = (CHOOSE f : Upto(f, s, T))[Len(s)]
  BY DEF Selected, Upto
<1>2. QED
  BY <1>1, PartialExists

(***************************************************************************)
(* The selection from a beginning of t does not depend on the rest of t.   *)
(***************************************************************************)
Extends(t, s) == Len(s) <= Len(t) /\ \A i \in 1 .. Len(s) : t[i] = s[i]

\* The selection from the first elements does not depend on what follows them.
LEMMA UptoAgree ==
  ASSUME NEW S, NEW s \in Seq(S), NEW t \in Seq(S), NEW T, Extends(t, s),
         NEW f, NEW g, Upto(f, s, T), Upto(g, t, T)
  PROVE  f[Len(s)] = g[Len(s)]
<1> DEFINE I == {n \in Nat : n \in 0 .. Len(s) => f[n] = g[n]}
<1>0. Len(s) \in Nat /\ Len(t) \in Nat /\ Len(s) <= Len(t)
      /\ \A i \in 1 .. Len(s) : t[i] = s[i]
  BY LenProperties DEF Extends
<1>1. 0 \in I
  BY UptoStep
<1>2. ASSUME NEW n \in Nat, n \in I PROVE n + 1 \in I
  <2>1. SUFFICES ASSUME n + 1 \in 0 .. Len(s) PROVE f[n + 1] = g[n + 1]
    OBVIOUS
  <2>2. n \in 0 .. Len(s) /\ n + 1 \in 0 .. Len(t) /\ n + 1 # 0 /\ n + 1 - 1 = n /\ n + 1 \in 1 .. Len(s)
    BY <2>1, <1>0
  <2>3. f[n] = g[n]
    BY <2>2, <1>2
  <2>4. f[n + 1] = IF s[n + 1] \in T THEN Append(f[n], s[n + 1]) ELSE f[n]
    BY <2>2, UptoStep
  <2>5. g[n + 1] = IF t[n + 1] \in T THEN Append(g[n], t[n + 1]) ELSE g[n]
    <3>1. n + 1 \in 1 .. Len(t)
      BY <2>2, <1>0
    <3>2. QED
      BY <2>2, <3>1, UptoStep
  <2>6. QED
    BY <1>0, <2>2, <2>3, <2>4, <2>5
<1>3. Nat \subseteq I
  <2> HIDE DEF I
  <2> QED BY <1>1, <1>2, SetInduction
<1>4. QED
  BY <1>0, <1>3

(***************************************************************************)
(* Selected of the empty sequence, and after an Append ...                 *)
(***************************************************************************)
LEMMA SelectedNone ==
  ASSUME NEW S, NEW s \in Seq(S), Len(s) = 0, NEW T
  PROVE  Selected(s, T) = <<>>
<1>1. PICK f : Upto(f, s, T) /\ Selected(s, T) = f[Len(s)]
  BY SelectedUpto
<1>2. f[0] = <<>>
  BY <1>1, UptoFirst
<1>3. QED
  BY <1>1, <1>2

\* Nothing is selected from the empty sequence.
LEMMA SelectedEmpty == \A T : Selected(<<>>, T) = <<>>
<1>1. <<>> \in Seq({}) /\ Len(<<>>) = 0
  OBVIOUS
<1>2. QED
  BY <1>1, SelectedNone, Zenon

\* What one more element changes in a selection.
LEMMA SelectedMore ==
  ASSUME NEW S, NEW s \in Seq(S), NEW t \in Seq(S), NEW T, Len(t) = Len(s) + 1,
         \A i \in 1 .. Len(s) : t[i] = s[i]
  PROVE  Selected(t, T) = IF t[Len(t)] \in T THEN Append(Selected(s, T), t[Len(t)]) ELSE Selected(s, T)
<1>0. Len(s) \in Nat /\ Len(s) <= Len(t) /\ Len(t) \in 1 .. Len(t) /\ Len(s) \in 0 .. Len(s)
      /\ Len(t) - 1 = Len(s)
  BY LenProperties
<1>1. PICK f : Upto(f, s, T) /\ Selected(s, T) = f[Len(s)]
  BY SelectedUpto
<1>2. PICK g : Upto(g, t, T) /\ Selected(t, T) = g[Len(t)]
  BY SelectedUpto
<1>3. g[Len(s)] = f[Len(s)]
  <2>1. Extends(t, s)
    BY <1>0 DEF Extends
  <2>2. QED
    BY <1>1, <1>2, <2>1, UptoAgree
<1>4. g[Len(t)] = IF t[Len(t)] \in T THEN Append(g[Len(s)], t[Len(t)]) ELSE g[Len(s)]
  BY <1>0, <1>2, UptoStep
<1>5. QED
  BY <1>1, <1>2, <1>3, <1>4

\* The same, for an element that is appended.
LEMMA SelectedAppend ==
  ASSUME NEW S, NEW s \in Seq(S), NEW x \in S, NEW T
  PROVE  Selected(Append(s, x), T) = IF x \in T THEN Append(Selected(s, T), x) ELSE Selected(s, T)
<1>1. /\ Append(s, x) \in Seq(S) /\ Len(Append(s, x)) = Len(s) + 1
      /\ Append(s, x)[Len(s) + 1] = x /\ \A i \in 1 .. Len(s) : Append(s, x)[i] = s[i]
  BY AppendProperties
<1>2. PICK t : t = Append(s, x)
  OBVIOUS
<1>3. Selected(t, T) = IF t[Len(t)] \in T THEN Append(Selected(s, T), t[Len(t)]) ELSE Selected(s, T)
  <2>1. t \in Seq(S) /\ Len(t) = Len(s) + 1 /\ \A i \in 1 .. Len(s) : t[i] = s[i]
    BY <1>1, <1>2
  <2>2. QED
    BY <2>1, SelectedMore
<1>4. QED
  BY <1>1, <1>2, <1>3

(***************************************************************************)
(* ... so by induction it yields items of T, and distributes over the      *)
(* concatenation of sequences.                                             *)
(***************************************************************************)
LEMMA SelectedType ==
  ASSUME NEW S, NEW s \in Seq(S), NEW T
  PROVE  Selected(s, T) \in Seq(S \cap T)
<1> DEFINE I == {r \in Seq(S) : Selected(r, T) \in Seq(S \cap T)}
<1>1. <<>> \in I
  <2>1. <<>> \in Seq(S) /\ <<>> \in Seq(S \cap T)
    OBVIOUS
  <2>2. QED
    BY <2>1, SelectedEmpty
<1>2. ASSUME NEW r \in Seq(S), NEW x \in S, r \in I PROVE Append(r, x) \in I
  <2>1. Append(r, x) \in Seq(S)
    BY AppendProperties
  <2>2. Selected(Append(r, x), T) = IF x \in T THEN Append(Selected(r, T), x) ELSE Selected(r, T)
    BY SelectedAppend
  <2>3. Selected(r, T) \in Seq(S \cap T)
    BY <1>2
  <2>4. x \in T => Append(Selected(r, T), x) \in Seq(S \cap T)
    BY <2>3, AppendProperties
  <2>5. Selected(Append(r, x), T) \in Seq(S \cap T)
    BY <2>2, <2>3, <2>4
  <2>6. QED
    BY <2>1, <2>5
<1>3. Seq(S) \subseteq I
  <2> HIDE DEF I
  <2> QED
    BY <1>1, <1>2, SequenceInduction
<1>4. QED
  BY <1>3

\* The selection from a concatenation is the concatenation of the selections.
LEMMA SelectedConcat ==
  ASSUME NEW S, NEW s \in Seq(S), NEW t \in Seq(S), NEW T
  PROVE  Selected(s \o t, T) = Selected(s, T) \o Selected(t, T)
<1> DEFINE I == {r \in Seq(S) : Selected(s \o r, T) = Selected(s, T) \o Selected(r, T)}
<1>1. <<>> \in I
  <2>1. <<>> \in Seq(S) /\ s \o <<>> = s
    BY ConcatEmptySeq
  <2>2. Selected(s, T) \o <<>> = Selected(s, T)
    <3>1. Selected(s, T) \in Seq(S \cap T)
      BY SelectedType
    <3>2. QED
      BY <3>1, ConcatEmptySeq
  <2>3. QED
    BY <2>1, <2>2, SelectedEmpty
<1>2. ASSUME NEW r \in Seq(S), NEW x \in S, r \in I PROVE Append(r, x) \in I
  <2>1. Append(r, x) \in Seq(S) /\ s \o r \in Seq(S)
    BY AppendProperties, ConcatProperties
  <2>2. s \o Append(r, x) = Append(s \o r, x)
    BY AppendToConcat
  <2>3. Selected(s \o Append(r, x), T) = IF x \in T THEN Append(Selected(s \o r, T), x) ELSE Selected(s \o r, T)
    BY <2>1, <2>2, SelectedAppend
  <2>4. Selected(Append(r, x), T) = IF x \in T THEN Append(Selected(r, T), x) ELSE Selected(r, T)
    BY SelectedAppend
  <2>5. x \in T => Append(Selected(s, T) \o Selected(r, T), x) = Selected(s, T) \o Append(Selected(r, T), x)
    <3>1. PICK V : V = S \cap T
      OBVIOUS
    <3>2. PICK a \in Seq(V) : a = Selected(s, T)
      BY <3>1, SelectedType
    <3>3. PICK b \in Seq(V) : b = Selected(r, T)
      BY <3>1, SelectedType
    <3>4. ASSUME x \in V PROVE Append(a \o b, x) = a \o Append(b, x)
      <4>1. AppendOf(ConcatOf(a, b), x) = ConcatOf(a, AppendOf(b, x))
        BY <3>4, PushJoined
      <4>2. QED
        BY <4>1, Zenon DEF AppendOf, ConcatOf
    <3>5. QED
      BY <3>1, <3>2, <3>3, <3>4
  <2>6. Selected(s \o r, T) = Selected(s, T) \o Selected(r, T)
    BY <1>2
  <2>7. Selected(s \o Append(r, x), T) = Selected(s, T) \o Selected(Append(r, x), T)
    BY <2>3, <2>4, <2>5, <2>6
  <2>8. QED
    BY <2>1, <2>7
<1>3. Seq(S) \subseteq I
  <2> HIDE DEF I
  <2> QED
    BY <1>1, <1>2, SequenceInduction
<1>4. QED
  BY <1>3

(***************************************************************************)
(* The items of the selection are those of the sequence that are in T.     *)
(***************************************************************************)
LEMMA SelectedRange ==
  ASSUME NEW S, NEW s \in Seq(S), NEW T
  PROVE  Range(Selected(s, T)) = Range(s) \cap T
<1> DEFINE I == {r \in Seq(S) : Range(Selected(r, T)) = Range(r) \cap T}
<1>1. <<>> \in I
  <2>1. Range(<<>>) = {}
    BY DEF Range
  <2>2. Range(Selected(<<>>, T)) = {}
    BY <2>1, SelectedEmpty, Zenon
  <2>3. QED
    BY <2>1, <2>2, EmptySeq
<1>2. ASSUME NEW r \in Seq(S), NEW x \in S, r \in I PROVE Append(r, x) \in I
  <2>1. PICK t \in Seq(S) : t = Append(r, x)
    BY AppendProperties
  <2>2. Range(t) = Range(r) \cup {x}
    <3>1. Range(Append(r, x)) = Range(r) \cup {x}
      BY AppendNew
    <3>2. QED
      BY <2>1, <3>1, Zenon
  <2>3. PICK z \in Seq(S) : z = Selected(r, T) /\ Range(z) = Range(r) \cap T
    <3>1. Selected(r, T) \in Seq(S \cap T)
      BY SelectedType
    <3>2. QED
      BY <3>1, <1>2
  <2>4. Selected(t, T) = IF x \in T THEN Append(z, x) ELSE z
    <3>1. Selected(Append(r, x), T) = IF x \in T THEN Append(Selected(r, T), x) ELSE Selected(r, T)
      BY SelectedAppend
    <3>2. QED
      BY <2>1, <2>3, <3>1
  <2>5. Range(Append(z, x)) = Range(z) \cup {x}
    BY AppendNew
  <2>6. Range(Selected(t, T)) = IF x \in T THEN Range(z) \cup {x} ELSE Range(z)
    BY <2>4, <2>5
  <2>7. Range(Selected(t, T)) = Range(t) \cap T
    BY <2>2, <2>3, <2>6
  <2>8. t \in I
    BY <2>7
  <2>9. QED
    BY <2>1, <2>8, Zenon
<1>3. Seq(S) \subseteq I
  <2> HIDE DEF I
  <2> QED
    BY <1>1, <1>2, SequenceInduction
<1>4. QED
  BY <1>3

(***************************************************************************)
(* An item outside T, wherever it is inserted, does not change the         *)
(* selection.                                                              *)
(***************************************************************************)
LEMMA SelectedInsert ==
  ASSUME NEW S, NEW r \in Seq(S), NEW q \in Seq(S), NEW x \in S, NEW T, x \notin T
  PROVE  Selected(Append(r, x) \o q, T) = Selected(r \o q, T)
<1>1. PICK t \in Seq(S) : t = Append(r, x)
  BY AppendProperties
<1>2. Selected(t, T) = Selected(r, T)
  BY <1>1, SelectedAppend
<1>3. Selected(t \o q, T) = Selected(t, T) \o Selected(q, T)
  BY SelectedConcat
<1>4. Selected(r \o q, T) = Selected(r, T) \o Selected(q, T)
  BY SelectedConcat
<1>5. Selected(t \o q, T) = Selected(r \o q, T)
  BY ONLY <1>2, <1>3, <1>4
<1>6. QED
  BY <1>1, <1>5

-----------------------------------------------------------------------------
(***************************************************************************)
(* t is p with x inserted somewhere.                                       *)
(***************************************************************************)
Inserted(p, t, x) ==
  \E m \in 1 .. Len(p) + 1 :
     /\ Len(t) = Len(p) + 1 /\ t[m] = x
     /\ \A n \in 1 .. Len(p) + 1 : n < m => t[n] = p[n]
     /\ \A n \in 1 .. Len(p) + 1 : n > m => t[n] = p[n - 1]

(***************************************************************************)
(* Appending to a sequence, or to the first of two that are joined,        *)
(* inserts; what is inserted is new, the rest was there.                   *)
(***************************************************************************)
LEMMA AppendInserts ==
  ASSUME NEW S, NEW p \in Seq(S), NEW x \in S
  PROVE  Inserted(p, Append(p, x), x)
<1>1. PICK t \in Seq(S) : t = Append(p, x)
  BY AppendProperties
<1>2. /\ Len(t) = Len(p) + 1 /\ t[Len(p) + 1] = x /\ \A n \in 1 .. Len(p) : t[n] = p[n]
      /\ Len(p) \in Nat
  BY <1>1, AppendProperties, LenProperties
<1>3. Inserted(p, t, x)
  BY <1>2 DEF Inserted
<1>4. QED
  BY <1>1, <1>3, Zenon

\* An element appended to the first part of a concatenation is inserted in the whole.
LEMMA MiddleInserts ==
  ASSUME NEW S, NEW r \in Seq(S), NEW q \in Seq(S), NEW x \in S
  PROVE  Inserted(r \o q, Append(r, x) \o q, x)
<1>1. PICK u \in Seq(S) : u = Append(r, x)
  BY AppendProperties
<1>2. /\ Len(u) = Len(r) + 1 /\ u[Len(r) + 1] = x /\ \A n \in 1 .. Len(r) : u[n] = r[n]
      /\ Len(r) \in Nat /\ Len(q) \in Nat
  BY <1>1, AppendProperties, LenProperties
<1>3. PICK p \in Seq(S) : p = r \o q
  BY ConcatProperties
<1>4. /\ Len(p) = Len(r) + Len(q)
      /\ \A n \in 1 .. Len(r) + Len(q) : p[n] = IF n <= Len(r) THEN r[n] ELSE q[n - Len(r)]
  BY <1>3, ConcatProperties
<1>5. PICK t \in Seq(S) : t = u \o q
  BY ConcatProperties
<1>6. /\ Len(t) = Len(u) + Len(q)
      /\ \A n \in 1 .. Len(u) + Len(q) : t[n] = IF n <= Len(u) THEN u[n] ELSE q[n - Len(u)]
  BY <1>5, ConcatProperties
<1> DEFINE m == Len(r) + 1
<1>7. m \in 1 .. Len(p) + 1 /\ Len(t) = Len(p) + 1 /\ t[m] = x
  BY <1>2, <1>4, <1>6
<1>8. ASSUME NEW n \in 1 .. Len(p) + 1, n < m PROVE t[n] = p[n]
  <2>1. n \in 1 .. Len(r)
    BY <1>2, <1>8
  <2>2. t[n] = u[n] /\ p[n] = r[n]
    BY <1>2, <1>4, <1>6, <2>1
  <2>3. QED
    BY <1>2, <2>1, <2>2
<1>9. ASSUME NEW n \in 1 .. Len(p) + 1, n > m PROVE t[n] = p[n - 1]
  <2>1. t[n] = q[n - Len(u)]
    BY <1>2, <1>4, <1>6, <1>9
  <2>2. n - 1 \in 1 .. Len(r) + Len(q) /\ ~(n - 1 <= Len(r))
    BY <1>2, <1>4, <1>9
  <2>5. p[n - 1] = q[n - 1 - Len(r)]
    BY <1>4, <2>2
  <2>3. n - Len(u) = n - 1 - Len(r)
    BY <1>2, <1>4
  <2>4. QED
    BY <2>1, <2>5, <2>3
<1>10. Inserted(p, t, x)
  BY <1>7, <1>8, <1>9 DEF Inserted
<1>11. QED
  BY <1>1, <1>3, <1>5, <1>10, Zenon

\* What is in a sequence after an insertion is the element or was there before.
LEMMA InsertedRange ==
  ASSUME NEW S, NEW p \in Seq(S), NEW t \in Seq(S), NEW x \in S, Inserted(p, t, x),
         NEW n \in 1 .. Len(t)
  PROVE  t[n] = x \/ \E k \in 1 .. Len(p) : t[n] = p[k]
<1>1. PICK m \in 1 .. Len(p) + 1 :
         /\ Len(t) = Len(p) + 1 /\ t[m] = x
         /\ \A i \in 1 .. Len(p) + 1 : i < m => t[i] = p[i]
         /\ \A i \in 1 .. Len(p) + 1 : i > m => t[i] = p[i - 1]
  BY DEF Inserted
<1>2. Len(p) \in Nat
  BY LenProperties
<1>3. CASE n < m
  BY <1>1, <1>2, <1>3
<1>4. CASE n > m
  <2>1. n - 1 \in 1 .. Len(p) /\ t[n] = p[n - 1]
    BY <1>1, <1>2, <1>4
  <2>2. QED
    BY <2>1
<1>5. QED
  BY <1>1, <1>2, <1>3, <1>4

-----------------------------------------------------------------------------
(***************************************************************************)
(* A sequence of one item, and a sequence by its head and tail.            *)
(***************************************************************************)
LEMMA Single ==
  ASSUME NEW S, NEW x \in S
  PROVE  /\ <<x>> \in Seq(S) /\ Len(<<x>>) = 1 /\ <<x>>[1] = x
         /\ <<>> \in Seq(S) /\ Append(<<>>, x) = <<x>>
OBVIOUS

\* A sequence is its head followed by its tail.
LEMMA HeadFirst ==
  ASSUME NEW S, NEW s \in Seq(S), s # <<>>
  PROVE  s = <<Head(s)>> \o Tail(s)
<1>1. PICK n \in Seq(S) : n = <<>> /\ Append(n, Head(s)) = <<Head(s)>>
  BY HeadTailProperties, Single, Zenon
<1>2. Append(n, Head(s)) \o Tail(s) = n \o s
  BY MoveHead
<1>3. n \o s = s
  BY <1>1, ConcatEmptySeq
<1>4. QED
  BY <1>1, <1>2, <1>3, Zenon

\* The head and the tail of one element followed by a sequence.
LEMMA JoinedHead ==
  ASSUME NEW S, NEW x \in S, NEW q \in Seq(S), NEW t \in Seq(S), t = <<x>> \o q
  PROVE  t # <<>> /\ Head(t) = x /\ Tail(t) = q
<1>1. PICK s \in Seq(S) : s = <<x>> /\ Len(s) = 1 /\ s[1] = x
  BY Single, Zenon
<1>2. t = s \o q
  BY <1>1, Zenon
<1>3. /\ Len(t) = Len(s) + Len(q) /\ Len(q) \in Nat
      /\ \A i \in 1 .. Len(s) + Len(q) : t[i] = IF i <= Len(s) THEN s[i] ELSE q[i - Len(s)]
  BY <1>2, ConcatProperties, LenProperties
<1>4. Len(t) = Len(q) + 1 /\ t[1] = x
  BY <1>1, <1>3
<1>5. t # <<>> /\ Head(t) = x
  BY <1>3, <1>4, EmptySeq, HeadTailProperties
<1>6. /\ Tail(t) \in Seq(S) /\ Len(Tail(t)) = Len(t) - 1
      /\ \A i \in 1 .. Len(t) - 1 : Tail(t)[i] = t[i + 1]
  BY <1>5, HeadTailProperties
<1>7. ASSUME NEW i \in 1 .. Len(q) PROVE Tail(t)[i] = q[i]
  <2>1. i \in 1 .. Len(t) - 1 /\ i + 1 \in 1 .. Len(s) + Len(q) /\ ~(i + 1 <= Len(s)) /\ i + 1 - Len(s) = i
    BY <1>1, <1>3, <1>4
  <2>2. QED
    BY <1>3, <1>6, <2>1
<1>8. Tail(t) = q
  <2>1. Len(Tail(t)) = Len(q)
    BY ONLY <1>3, <1>4, <1>6
  <2>2. PICK u : u = Tail(t)
    OBVIOUS
  <2>3. u \in Seq(S) /\ Len(u) = Len(q) /\ \A i \in 1 .. Len(q) : u[i] = q[i]
    BY <1>6, <1>7, <2>1, <2>2, Zenon
  <2>4. u = q
    BY ONLY <2>3, q \in Seq(S), SeqEqual
  <2>5. QED
    BY <2>2, <2>4
<1>9. QED
  BY <1>5, <1>8

(***************************************************************************)
(* Taking the oldest item away takes it out of the selection, if it is     *)
(* there, and leaves the rest of the selection alone.                      *)
(***************************************************************************)
LEMMA SelectedHead ==
  ASSUME NEW S, NEW s \in Seq(S), s # <<>>, NEW T
  PROVE  /\ Selected(Tail(s), T) \in Seq(S) /\ Selected(s, T) \in Seq(S)
         /\ Head(s) \notin T => Selected(Tail(s), T) = Selected(s, T)
         /\ Head(s) \in T => /\ Selected(s, T) # <<>> /\ Head(Selected(s, T)) = Head(s)
                             /\ Tail(Selected(s, T)) = Selected(Tail(s), T)
<1>1. Head(s) \in S /\ Tail(s) \in Seq(S)
  BY HeadTailProperties
<1>2. PICK n \in Seq(S) : n = <<>> /\ Append(n, Head(s)) = <<Head(s)>>
  BY <1>1, Single, Zenon
<1>3. PICK h \in Seq(S) : h = Append(n, Head(s))
  BY <1>1, AppendProperties
<1>4. s = h \o Tail(s)
  BY <1>2, <1>3, HeadFirst, Zenon
<1>5. Selected(s, T) = Selected(h, T) \o Selected(Tail(s), T)
  <2>1. PICK p \in Seq(S) : p = Tail(s)
    BY <1>1
  <2>2. Selected(h \o p, T) = Selected(h, T) \o Selected(p, T)
    BY ONLY h \in Seq(S), p \in Seq(S), SelectedConcat, SMTT(60)
  <2>3. QED
    BY <1>4, <2>1, <2>2, Zenon
<1>6. Selected(h, T) = IF Head(s) \in T THEN <<Head(s)>> ELSE <<>>
  <2>1. Selected(n, T) = <<>>
    BY <1>2, SelectedEmpty
  <2>2. Selected(Append(n, Head(s)), T) = IF Head(s) \in T THEN Append(Selected(n, T), Head(s)) ELSE Selected(n, T)
    BY <1>1, SelectedAppend
  <2>3. QED
    BY <1>2, <1>3, <2>1, <2>2, Zenon
<1>7. \A r \in Seq(S) : Selected(r, T) \in Seq(S)
  <2>1. SUFFICES ASSUME NEW r \in Seq(S) PROVE Selected(r, T) \in Seq(S)
    OBVIOUS
  <2>2. Selected(r, T) \in Seq(S \cap T)
    BY SelectedType
  <2>3. QED
    BY <2>2, SeqMonotonic
<1>8. PICK q \in Seq(S) : q = Selected(Tail(s), T)
  BY <1>1, <1>7
<1>9. CASE Head(s) \notin T
  <2>1. Selected(s, T) = <<>> \o q
    BY <1>5, <1>6, <1>8, <1>9, Zenon
  <2>2. <<>> \o q = q
    BY ConcatEmptySeq
  <2>3. QED
    BY <1>1, <1>7, <1>8, <1>9, <2>1, <2>2, Zenon
<1>10. CASE Head(s) \in T
  <2>1. PICK t \in Seq(S) : t = Selected(s, T)
    BY <1>7
  <2>2. t = <<Head(s)>> \o q
    BY <1>5, <1>6, <1>8, <1>10, <2>1, Zenon
  <2>3. t # <<>> /\ Head(t) = Head(s) /\ Tail(t) = q
    BY <1>1, <2>2, JoinedHead
  <2>4. QED
    BY <1>1, <1>7, <1>8, <1>10, <2>1, <2>3, Zenon
<1>11. QED
  BY <1>9, <1>10
\* When a sequence with one more item begins another, that item is the next of
\* the other.
LEMMA NextOfPrefix ==
  ASSUME NEW S, NEW d \in Seq(S), NEW x \in S, NEW T, NEW a \in Seq(T), NEW e, e = Append(d, x),
         Len(e) <= Len(a), SubSeq(e, 1, Len(e)) = SubSeq(a, 1, Len(e))
  PROVE  Len(d) < Len(a) /\ e = Append(d, a[Len(d) + 1])
<1>1. /\ e \in Seq(S) /\ Len(e) = Len(d) + 1 /\ e[Len(d) + 1] = x
      /\ Len(d) \in Nat /\ Len(a) \in Nat
  BY AppendProperties, LenProperties
<1>2. SubSeq(e, 1, Len(e))[Len(d) + 1] = e[Len(d) + 1]
  BY <1>1
<1>3. SubSeq(a, 1, Len(e))[Len(d) + 1] = a[Len(d) + 1]
  BY <1>1
<1>4. QED
  BY <1>1, <1>2, <1>3

\* One more item of the beginning of a sequence.
LEMMA SubSeqMore ==
  ASSUME NEW S, NEW a \in Seq(S), NEW n \in Nat, n < Len(a)
  PROVE  SubSeq(a, 1, n + 1) = Append(SubSeq(a, 1, n), a[n + 1])
<1>1. Len(a) \in Nat /\ \A i \in 1 .. Len(a) : a[i] \in S
  BY ElementOfSeq, LenProperties
<1>2. PICK b : b = SubSeq(a, 1, n)
  OBVIOUS
<1>3. b \in Seq(S) /\ Len(b) = n /\ \A i \in 1 .. n : b[i] = a[i]
  BY <1>1, <1>2
<1>4. PICK e : e = SubSeq(a, 1, n + 1)
  OBVIOUS
<1>5. e \in Seq(S) /\ Len(e) = n + 1 /\ \A i \in 1 .. n + 1 : e[i] = a[i]
  BY <1>1, <1>4
<1>6. PICK f : f = Append(b, a[n + 1])
  OBVIOUS
<1>7. a[n + 1] \in S
  BY <1>1
<1>8. /\ f \in Seq(S) /\ Len(f) = n + 1
      /\ f[n + 1] = a[n + 1] /\ \A i \in 1 .. n : f[i] = b[i]
  BY <1>3, <1>6, <1>7, AppendProperties
<1>9. \A i \in 1 .. n + 1 : e[i] = f[i]
  BY <1>3, <1>5, <1>8
<1>10. e = f
  BY <1>5, <1>8, <1>9, SeqEqual
<1>11. QED
  BY <1>2, <1>4, <1>6, <1>10
==============================================================================
