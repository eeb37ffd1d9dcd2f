------------------------------ MODULE MCPacketPool ------------------------------
(* Bounds scaled down together: a pool for two records of frames of 13 bytes *)
(* or one of them and one of the greatest length, 19 bytes, which is not     *)
(* read; frames of 9 bytes pretend to a payload of 20, which fits the pool   *)
(* only when it is empty.  The records are of 18, 24 and 36 bytes in a ring  *)
(* of 48: they begin at every sixth byte, and are split there by its end.    *)
EXTENDS PacketPool, TLC

Symmetry == Permutations(Ids)
=================================================================================
