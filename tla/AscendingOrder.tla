--------------------------- MODULE AscendingOrder ---------------------------
(* Finite sets of numbers as lists. *)
EXTENDS Naturals, FiniteSets

\* Number k of the list has k - 1 smaller ones in the set.
Ascending(S) ==
    [k \in 1..Cardinality(S) |->
        CHOOSE i \in S : Cardinality({j \in S : j < i}) = k - 1]

=============================================================================
