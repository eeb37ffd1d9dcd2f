--------------------------- MODULE MCTagCardAudit ---------------------------
(* The instances of TagCardAudit that TLC checks. *)
EXTENDS TagCardAudit, TLC

Symmetry == Permutations(Node) \cup Permutations(General)
=============================================================================
