------------------------------ MODULE Ordering ------------------------------
(***************************************************************************)
(* Indices in the order a comparison puts them in, and the search in them: *)
(* what Array.sort, Array.filter and the binary searches of the code do to *)
(* positions.                                                              *)
(***************************************************************************)
EXTENDS Naturals, FiniteSets

(* The members of I in the order `before', a set of pairs. *)
InOrder(I, before) ==
    [r \in 1 .. Cardinality(I) |->
        CHOOSE i \in I : Cardinality({j \in I : <<j, i>> \in before}) = r - 1]

(* What sort() makes of s by the numbers `keys', ascending; it is stable. *)
SortedBy(s, keys) ==
    LET I == DOMAIN s
        order == InOrder(I, {p \in I \X I :
                                \/ keys[p[1]] < keys[p[2]]
                                \/ keys[p[1]] = keys[p[2]] /\ p[1] < p[2]})
    IN [r \in I |-> s[order[r]]]

(* What filter() leaves of s: its elements at the indices I, in their order. *)
Nth(I, r) == CHOOSE i \in I : Cardinality({j \in I : j < i}) = r - 1

Picked(s, I) == [r \in 1 .. Cardinality(I) |-> s[Nth(I, r)]]

(* The binary search from lo to hi for the first index not in `before'. *)
BinarySearch(before, lo, hi) ==
    LET search[w \in (lo .. hi) \X (lo .. hi)] ==
            LET mid == (w[1] + w[2]) \div 2
            IN IF w[1] >= w[2] THEN w[1]
               ELSE IF mid \in before THEN search[<<mid + 1, w[2]>>] ELSE search[<<w[1], mid>>]
    IN search[<<lo, hi>>]

=============================================================================
