----------------------------- MODULE ListProofs -----------------------------
(***************************************************************************)
(* What filter and the joining of texts return, for any list.  Both are    *)
(* defined by recursion on the prefixes of a list; the induction this asks *)
(* for is stated over sets of numbers, from the well-foundedness of <.     *)
(***************************************************************************)
EXTENDS Filter, SequencesExt, TLAPS, WellFoundedInduction

-----------------------------------------------------------------------------
(* Induction *)

LEMMA LessThanIsWellFounded ==
  IsWellFoundedOn({p \in Nat \X Nat : p[1] < p[2]}, Nat)
  BY NatLessThanWellFounded, Zenon DEF OpToRel

LEMMA LeastElement ==
  ASSUME NEW T \in SUBSET Nat, T # {}
  PROVE  \E n \in T : \A m \in T : n <= m
<1>. DEFINE R == {p \in Nat \X Nat : p[1] < p[2]}
<1>1. PICK n \in T : \A m \in T : <<m, n>> \notin R
  <2>1. IsWellFoundedOn(R, Nat)
    BY LessThanIsWellFounded
  <2>. HIDE DEF R
  <2>2. QED
    BY <2>1, WFMin
<1>2. ASSUME NEW m \in T
      PROVE  n <= m
  <2>1. <<m, n>> \in Nat \X Nat /\ <<m, n>>[1] = m /\ <<m, n>>[2] = n
    OBVIOUS
  <2>2. ~(m < n)
    BY <1>1, <2>1
  <2>3. QED
    BY <2>2
<1>3. QED
  BY <1>2

\* A set of numbers with 0 and the successor of each of its members.
LEMMA Induction ==
  ASSUME NEW H \in SUBSET Nat, 0 \in H,
         \A n \in Nat : n \in H => n + 1 \in H
  PROVE  H = Nat
<1>. SUFFICES ASSUME H # Nat
              PROVE  FALSE
  OBVIOUS
<1>1. PICK n \in Nat \ H : \A m \in Nat \ H : n <= m
  BY LeastElement
<1>2. n # 0 /\ n - 1 \in H
  BY <1>1
<1>3. QED
  BY <1>1, <1>2

LEMMA ToSetIs ==
  ASSUME NEW S, NEW list \in Seq(S)
  PROVE  /\ ToSet(list) = {list[i] : i \in 1 .. Len(list)}
         /\ ToSet(list) \subseteq S
  BY DEF ToSet

LEMMA ToSetAppend ==
  ASSUME NEW S, NEW list \in Seq(S), NEW e \in S
  PROVE  ToSet(Append(list, e)) = ToSet(list) \cup {e}
<1>1. /\ Append(list, e) \in Seq(S)
      /\ Len(Append(list, e)) = Len(list) + 1 /\ Len(list) \in Nat
      /\ \A i \in 1 .. Len(list) : Append(list, e)[i] = list[i]
      /\ Append(list, e)[Len(list) + 1] = e
  OBVIOUS
<1>. DEFINE longer == Append(list, e)
<1>2. ToSet(longer) = {longer[i] : i \in 1 .. Len(list) + 1}
  BY <1>1, ToSetIs
<1>. HIDE DEF longer
<1>3. {longer[i] : i \in 1 .. Len(list) + 1}
        = {longer[i] : i \in 1 .. Len(list)} \cup {longer[Len(list) + 1]}
  BY <1>1
<1>4. {longer[i] : i \in 1 .. Len(list)} = {list[i] : i \in 1 .. Len(list)}
  BY <1>1 DEF longer
<1>5. QED
  BY <1>1, <1>2, <1>3, <1>4, ToSetIs DEF longer

LEMMA ToSetConcat ==
  ASSUME NEW S, NEW A \in Seq(S), NEW B \in Seq(S)
  PROVE  /\ A \o B \in Seq(S)
         /\ ToSet(A \o B) = ToSet(A) \cup ToSet(B)
<1>. DEFINE C == A \o B
<1>1. /\ C \in Seq(S) /\ Len(A) \in Nat /\ Len(B) \in Nat
      /\ Len(C) = Len(A) + Len(B)
      /\ \A i \in 1 .. Len(A) : C[i] = A[i]
      /\ \A i \in 1 .. Len(B) : C[Len(A) + i] = B[i]
  OBVIOUS
<1>. HIDE DEF C
<1>2. /\ ToSet(A) = {A[i] : i \in 1 .. Len(A)}
      /\ ToSet(B) = {B[i] : i \in 1 .. Len(B)}
      /\ ToSet(C) = {C[i] : i \in 1 .. Len(C)}
  BY <1>1, ToSetIs
<1>3. ASSUME NEW i \in 1 .. Len(C)
      PROVE  C[i] \in ToSet(A) \cup ToSet(B)
  <2>1. CASE i <= Len(A)
    BY <1>1, <1>2, <2>1
  <2>2. CASE i > Len(A)
    <3>1. i - Len(A) \in 1 .. Len(B) /\ Len(A) + (i - Len(A)) = i
      BY <1>1, <2>2
    <3>2. C[i] = B[i - Len(A)]
      BY <1>1, <3>1
    <3>3. QED
      BY <1>2, <3>1, <3>2
  <2>3. QED
    BY <1>1, <2>1, <2>2
<1>4. \A i \in 1 .. Len(A) : i \in 1 .. Len(C) /\ C[i] = A[i]
  BY <1>1
<1>5. \A i \in 1 .. Len(B) : Len(A) + i \in 1 .. Len(C) /\ C[Len(A) + i] = B[i]
  BY <1>1
<1>6. ToSet(C) = ToSet(A) \cup ToSet(B)
  BY <1>2, <1>3, <1>4, <1>5
<1>7. QED
  BY <1>1, <1>6 DEF C

-----------------------------------------------------------------------------
(* filter *)

\* One step of the recursion.
Kept(list, kept, sofar, i) ==
  IF list[i] \in kept THEN Append(sofar, list[i]) ELSE sofar

\* f is what the recursion says of the prefixes up to n.
Filters(f, list, kept, n) ==
  f = [i \in 0 .. n |->
         IF i = 0 THEN <<>>
         ELSE IF list[i] \in kept THEN Append(f[i - 1], list[i])
         ELSE f[i - 1]]

LEMMA FilterExists ==
  ASSUME NEW list, NEW kept
  PROVE  \A n \in Nat : \E f : Filters(f, list, kept, n)
<1>. DEFINE H == {n \in Nat : \E f : Filters(f, list, kept, n)}
<1>1. 0 \in H
  <2>1. Filters([i \in 0 .. 0 |-> <<>>], list, kept, 0)
    BY DEF Filters
  <2>2. QED
    BY <2>1
<1>2. ASSUME NEW n \in Nat, n \in H
      PROVE  n + 1 \in H
  <2>1. PICK f : Filters(f, list, kept, n)
    BY <1>2
  <2>. DEFINE g == [i \in 0 .. n + 1 |->
                      IF i = n + 1 THEN Kept(list, kept, f[n], n + 1)
                                   ELSE f[i]]
  <2>2. \A i \in 0 .. n + 1 :
          g[i] = IF i = 0 THEN <<>> ELSE Kept(list, kept, g[i - 1], i)
    <3>1. TAKE i \in 0 .. n + 1
    <3>2. CASE i = n + 1
      <4>1. i # 0 /\ i - 1 = n /\ n \in 0 .. n + 1 /\ n # n + 1
        BY <3>2
      <4>2. g[i - 1] = f[n] /\ g[i] = Kept(list, kept, f[n], n + 1)
        BY <3>2, <4>1
      <4>3. QED
        BY <3>2, <4>1, <4>2
    <3>3. CASE i # n + 1
      <4>1. i \in 0 .. n /\ g[i] = f[i] /\ (i # 0 => g[i - 1] = f[i - 1])
        BY <3>3
      <4>2. QED
        BY <2>1, <4>1 DEF Filters, Kept
    <3>4. QED
      BY <3>2, <3>3
  <2>3. Filters(g, list, kept, n + 1)
    BY <2>2 DEF Filters, Kept
  <2>4. QED
    BY <2>3
<1>3. H = Nat
  <2>. HIDE DEF H
  <2>1. H \in SUBSET Nat
    BY DEF H
  <2>2. QED
    BY <1>1, <1>2, <2>1, Induction
<1>4. QED
  BY <1>3

\* The recursion has a solution, and filter is its last value.
LEMMA FilterIs ==
  ASSUME NEW S, NEW list \in Seq(S), NEW kept
  PROVE  \E f : /\ f[0] = <<>>
                /\ \A i \in 0 .. Len(list) - 1 :
                     f[i + 1] = Kept(list, kept, f[i], i + 1)
                /\ filter(list, kept) = f[Len(list)]
<1>. DEFINE f == CHOOSE g : Filters(g, list, kept, Len(list))
<1>1. Filters(f, list, kept, Len(list))
  BY FilterExists
<1>2. filter(list, kept) = f[Len(list)]
  BY DEF filter, Filters
<1>. HIDE DEF f
<1>3. f[0] = <<>>
  BY <1>1 DEF Filters
<1>4. ASSUME NEW i \in 0 .. Len(list) - 1
      PROVE  f[i + 1] = Kept(list, kept, f[i], i + 1)
  <2>1. i + 1 \in 0 .. Len(list) /\ i + 1 # 0 /\ (i + 1) - 1 = i
    OBVIOUS
  <2>2. QED
    BY <1>1, <2>1 DEF Filters, Kept
<1>5. QED
  BY <1>2, <1>3, <1>4

\* What is filtered out of a list is what is kept of its elements.
LEMMA FilterSelects ==
  ASSUME NEW S, NEW list \in Seq(S), NEW kept
  PROVE  /\ filter(list, kept) \in Seq(S)
         /\ ToSet(filter(list, kept)) = ToSet(list) \cap kept
<1>1. PICK f : /\ f[0] = <<>>
               /\ \A i \in 0 .. Len(list) - 1 :
                    f[i + 1] = Kept(list, kept, f[i], i + 1)
               /\ filter(list, kept) = f[Len(list)]
  BY FilterIs
<1>. DEFINE first(n) == {list[i] : i \in 1 .. n} \cap kept
            H == {n \in Nat : n <= Len(list) =>
                    f[n] \in Seq(S) /\ ToSet(f[n]) = first(n)}
<1>2. 0 \in H
  <2>1. f[0] = <<>> /\ <<>> \in Seq(S) /\ ToSet(<<>>) = {}
    BY <1>1 DEF ToSet
  <2>2. first(0) = {}
    OBVIOUS
  <2>3. QED
    BY <2>1, <2>2
<1>3. ASSUME NEW n \in Nat, n \in H
      PROVE  n + 1 \in H
  <2>. SUFFICES ASSUME n + 1 <= Len(list)
                PROVE  f[n + 1] \in Seq(S) /\ ToSet(f[n + 1]) = first(n + 1)
    OBVIOUS
  <2>1. n \in 0 .. Len(list) - 1 /\ list[n + 1] \in S /\ n <= Len(list)
    OBVIOUS
  <2>2. f[n] \in Seq(S) /\ ToSet(f[n]) = first(n)
    BY <1>3, <2>1
  <2>3. f[n + 1] = Kept(list, kept, f[n], n + 1)
    BY <1>1, <2>1
  <2>4. first(n + 1) = first(n) \cup ({list[n + 1]} \cap kept)
    <3>1. 1 .. n + 1 = 1 .. n \cup {n + 1}
      OBVIOUS
    <3>2. QED
      BY <3>1
  <2>5. ToSet(Append(f[n], list[n + 1])) = ToSet(f[n]) \cup {list[n + 1]}
    BY <2>1, <2>2, ToSetAppend
  <2>. HIDE DEF first
  <2>6. CASE list[n + 1] \in kept
    <3>1. f[n + 1] = Append(f[n], list[n + 1])
      BY <2>3, <2>6 DEF Kept
    <3>2. {list[n + 1]} \cap kept = {list[n + 1]}
      BY <2>6
    <3>3. f[n + 1] \in Seq(S)
      BY <2>1, <2>2, <3>1
    <3>4. ToSet(f[n + 1]) = first(n + 1)
      BY <2>2, <2>4, <2>5, <3>1, <3>2
    <3>5. QED
      BY <3>3, <3>4
  <2>7. CASE list[n + 1] \notin kept
    BY <2>2, <2>3, <2>4, <2>7 DEF Kept
  <2>8. QED
    BY <2>6, <2>7
<1>4. H = Nat
  <2>. HIDE DEF H
  <2>1. H \in SUBSET Nat
    BY DEF H
  <2>2. QED
    BY <1>2, <1>3, <2>1, Induction
<1>5. Len(list) \in H /\ Len(list) \in Nat
  BY <1>4
<1>6. QED
  BY <1>1, <1>5, ToSetIs

-----------------------------------------------------------------------------
(* Joining: FlattenSeq *)

\* f is what the recursion says of the first n lists.
Joins(f, lists, n) ==
  f = [i \in 1 .. n |-> IF i = 1 THEN lists[i] ELSE f[i - 1] \o lists[i]]

LEMMA JoinExists ==
  ASSUME NEW lists
  PROVE  \A n \in Nat : \E f : Joins(f, lists, n)
<1>. DEFINE H == {n \in Nat : \E f : Joins(f, lists, n)}
<1>1. 0 \in H
  <2>1. Joins([i \in 1 .. 0 |-> <<>>], lists, 0)
    BY DEF Joins
  <2>2. QED
    BY <2>1
<1>2. ASSUME NEW n \in Nat, n \in H
      PROVE  n + 1 \in H
  <2>1. PICK f : Joins(f, lists, n)
    BY <1>2
  <2>. DEFINE g == [i \in 1 .. n + 1 |->
                      IF i = n + 1
                      THEN IF i = 1 THEN lists[i] ELSE f[n] \o lists[i]
                      ELSE f[i]]
  <2>2. \A i \in 1 .. n + 1 :
          g[i] = IF i = 1 THEN lists[i] ELSE g[i - 1] \o lists[i]
    <3>1. TAKE i \in 1 .. n + 1
    <3>2. CASE i = n + 1
      <4>1. CASE n = 0
        BY <3>2, <4>1
      <4>2. CASE n # 0
        <5>1. i # 1 /\ i - 1 = n /\ n \in 1 .. n + 1 /\ n # n + 1
          BY <3>2, <4>2
        <5>2. g[i - 1] = f[n] /\ g[i] = f[n] \o lists[i]
          BY <3>2, <5>1
        <5>3. QED
          BY <5>1, <5>2
      <4>3. QED
        BY <4>1, <4>2
    <3>3. CASE i # n + 1
      <4>1. i \in 1 .. n /\ g[i] = f[i] /\ (i # 1 => g[i - 1] = f[i - 1])
        BY <3>3
      <4>2. QED
        BY <2>1, <4>1 DEF Joins
    <3>4. QED
      BY <3>2, <3>3
  <2>3. Joins(g, lists, n + 1)
    BY <2>2 DEF Joins
  <2>4. QED
    BY <2>3
<1>3. H = Nat
  <2>. HIDE DEF H
  <2>1. H \in SUBSET Nat
    BY DEF H
  <2>2. QED
    BY <1>1, <1>2, <2>1, Induction
<1>4. QED
  BY <1>3

LEMMA JoinIs ==
  ASSUME NEW S, NEW lists \in Seq(Seq(S)), lists # <<>>
  PROVE  \E f : /\ f[1] = lists[1]
                /\ \A i \in 1 .. Len(lists) - 1 :
                     f[i + 1] = f[i] \o lists[i + 1]
                /\ FlattenSeq(lists) = f[Len(lists)]
<1>. DEFINE f == CHOOSE g : Joins(g, lists, Len(lists))
<1>1. Joins(f, lists, Len(lists))
  <2>1. Len(lists) \in Nat
    OBVIOUS
  <2>2. \E g : Joins(g, lists, Len(lists))
    BY <2>1, JoinExists
  <2>3. QED
    BY <2>2
<1>2. FlattenSeq(lists) = f[Len(lists)]
  BY DEF FlattenSeq, Joins
<1>. HIDE DEF f
<1>3. f[1] = lists[1]
  BY <1>1 DEF Joins
<1>4. ASSUME NEW i \in 1 .. Len(lists) - 1
      PROVE  f[i + 1] = f[i] \o lists[i + 1]
  <2>1. i + 1 \in 1 .. Len(lists) /\ i + 1 # 1 /\ (i + 1) - 1 = i
    OBVIOUS
  <2>2. QED
    BY <1>1, <2>1 DEF Joins
<1>5. QED
  BY <1>2, <1>3, <1>4

\* The join of lists is a list of what they hold.
LEMMA JoinType ==
  ASSUME NEW S, NEW lists \in Seq(Seq(S))
  PROVE  FlattenSeq(lists) \in Seq(S)
<1>1. CASE lists = <<>>
  BY <1>1 DEF FlattenSeq
<1>2. CASE lists # <<>>
  <2>1. PICK f : /\ f[1] = lists[1]
                 /\ \A i \in 1 .. Len(lists) - 1 :
                      f[i + 1] = f[i] \o lists[i + 1]
                 /\ FlattenSeq(lists) = f[Len(lists)]
    BY <1>2, JoinIs
  <2>. DEFINE H == {n \in Nat : n \in 1 .. Len(lists) => f[n] \in Seq(S)}
  <2>2. 0 \in H
    OBVIOUS
  <2>3. ASSUME NEW n \in Nat, n \in H
        PROVE  n + 1 \in H
    <3>. SUFFICES ASSUME n + 1 \in 1 .. Len(lists)
                  PROVE  f[n + 1] \in Seq(S)
      OBVIOUS
    <3>1. lists[n + 1] \in Seq(S)
      OBVIOUS
    <3>2. CASE n = 0
      BY <2>1, <3>1, <3>2
    <3>3. CASE n # 0
      <4>1. n \in 1 .. Len(lists) - 1 /\ f[n] \in Seq(S)
        BY <2>3, <3>3
      <4>2. f[n + 1] = f[n] \o lists[n + 1]
        BY <2>1, <4>1
      <4>3. QED
        BY <3>1, <4>1, <4>2
    <3>4. QED
      BY <3>2, <3>3
  <2>4. H = Nat
    <3>. HIDE DEF H
    <3>1. H \in SUBSET Nat
      BY DEF H
    <3>2. QED
      BY <2>2, <2>3, <3>1, Induction
  <2>5. Len(lists) \in H /\ Len(lists) \in 1 .. Len(lists)
    BY <1>2, <2>4
  <2>6. QED
    BY <2>1, <2>5
<1>3. QED
  BY <1>1, <1>2

\* The join of lists of one element is the list of these elements.
LEMMA JoinSingles ==
  ASSUME NEW S, NEW lists \in Seq(Seq(S)),
         \A i \in 1 .. Len(lists) : Len(lists[i]) = 1
  PROVE  FlattenSeq(lists) = [i \in 1 .. Len(lists) |-> lists[i][1]]
<1>1. CASE lists = <<>>
  <2>1. FlattenSeq(lists) = <<>>
    BY <1>1 DEF FlattenSeq
  <2>2. Len(lists) = 0
    BY <1>1
  <2>3. [i \in 1 .. 0 |-> lists[i][1]] = <<>>
    OBVIOUS
  <2>4. QED
    BY <2>1, <2>2, <2>3
<1>2. CASE lists # <<>>
  <2>1. PICK f : /\ f[1] = lists[1]
                 /\ \A i \in 1 .. Len(lists) - 1 :
                      f[i + 1] = f[i] \o lists[i + 1]
                 /\ FlattenSeq(lists) = f[Len(lists)]
    BY <1>2, JoinIs
  <2>. DEFINE heads(n) == [i \in 1 .. n |-> lists[i][1]]
              H == {n \in Nat : n \in 1 .. Len(lists) => f[n] = heads(n)}
  <2>2. 0 \in H
    OBVIOUS
  <2>3. ASSUME NEW n \in Nat, n \in H
        PROVE  n + 1 \in H
    <3>. SUFFICES ASSUME n + 1 \in 1 .. Len(lists)
                  PROVE  f[n + 1] = heads(n + 1)
      OBVIOUS
    <3>1. lists[n + 1] \in Seq(S) /\ Len(lists[n + 1]) = 1
      OBVIOUS
    <3>2. lists[n + 1] = <<lists[n + 1][1]>> /\ lists[n + 1][1] \in S
      BY <3>1
    <3>3. CASE n = 0
      BY <2>1, <3>2, <3>3
    <3>4. CASE n # 0
      <4>1. n \in 1 .. Len(lists) - 1 /\ f[n] = heads(n)
        BY <2>3, <3>4
      <4>2. f[n + 1] = heads(n) \o <<lists[n + 1][1]>>
        BY <2>1, <3>2, <4>1
      <4>3. \A i \in 1 .. n : lists[i] \in Seq(S) /\ Len(lists[i]) = 1
        OBVIOUS
      <4>4. heads(n) \in Seq(S) /\ Len(heads(n)) = n
        BY <4>3
      <4>5. QED
        BY <3>2, <4>2, <4>4
    <3>5. QED
      BY <3>3, <3>4
  <2>4. H = Nat
    <3>. HIDE DEF H
    <3>1. H \in SUBSET Nat
      BY DEF H
    <3>2. QED
      BY <2>2, <2>3, <3>1, Induction
  <2>5. Len(lists) \in Nat /\ Len(lists) \in 1 .. Len(lists)
    BY <1>2
  <2>6. QED
    BY <2>1, <2>4, <2>5
<1>3. QED
  BY <1>1, <1>2
=============================================================================
