------------------------------ MODULE MCRtcAlarms ------------------------------
(* Two events, a counter of five values, three periods, room for two items.     *)
(* What follows two mishaps of different kinds is not explored.              *)
EXTENDS RtcAlarms, TLC

FewMishaps == Cardinality(upset) <= 1

Symmetry == Permutations(Event)
================================================================================
