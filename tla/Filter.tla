------------------------------- MODULE Filter -------------------------------
(***************************************************************************)
(* The elements of a list that are in a set, in their order: SelectSeq,    *)
(* written as a function of the list's prefixes, which can be reasoned     *)
(* about (SelectSeq is built into the provers without its definition).     *)
(***************************************************************************)
EXTENDS Naturals, Sequences

filter(list, kept) ==
  LET upto[i \in 0 .. Len(list)] ==
        IF i = 0 THEN <<>>
        ELSE IF list[i] \in kept THEN Append(upto[i - 1], list[i])
        ELSE upto[i - 1]
  IN  upto[Len(list)]
=============================================================================
