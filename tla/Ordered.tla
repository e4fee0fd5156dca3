-------------------------------- MODULE Ordered --------------------------------
(***************************************************************************)
(* Finite sets of integers in their order, and the places of a sequence:   *)
(* what sorted(), a filtering comprehension and slices of lists are made   *)
(* of.  The definitions say what a place holds instead of calling an       *)
(* operator that only the model checker can evaluate.                      *)
(***************************************************************************)
EXTENDS Integers, FiniteSets

\* sorted(S): the k-th element has k - 1 smaller ones
InOrder(S) ==
    [k \in 1 .. Cardinality(S) |->
       CHOOSE i \in S : Cardinality({j \in S : j < i}) = k - 1]

\* [s[i] for i in sorted(I)]: what stands at the places I of a list
Picked(s, I) ==
    LET places == InOrder(I)
    IN  [k \in DOMAIN places |-> s[places[k]]]

=============================================================================
