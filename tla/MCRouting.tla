------------------------------ MODULE MCRouting ------------------------------
(* Routing with interchangeable nodes, gateways and values. *)
EXTENDS Routing

Symmetry == Permutations(Nodes) \cup Permutations(Gateways)
=============================================================================
