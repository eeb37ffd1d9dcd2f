------------------------------ MODULE MCTagCard ------------------------------
(* The instances of TagCard that TLC checks. *)
EXTENDS TagCard, TLC

Symmetry == Permutations(Node) \cup Permutations(General) \cup Permutations(EnEx)
=============================================================================
