------------------------------- MODULE Order -------------------------------
(***************************************************************************)
(* The order in which a loop over an array comes to the entries it is      *)
(* looking for.                                                            *)
(***************************************************************************)
EXTENDS Naturals, FiniteSets

(* The first of them, and the k-th.                                        *)
Lowest(S) == CHOOSE i \in S : \A j \in S : i <= j
Nth(S, k) == CHOOSE i \in S : Cardinality({j \in S : j <= i}) = k

(* What such a loop finds at the indices S.                                *)
Selected(array, S) == [k \in 1..Cardinality(S) |-> array[Nth(S, k)]]
=============================================================================
