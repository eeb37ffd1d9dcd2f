------------------------------- MODULE MCRadio -------------------------------
(* The three kinds of senders: with CSMA and three attempts, without and      *)
(* three attempts, without and one attempt.                                   *)
EXTENDS Radio

MCJob == {send_cave_pkt, send_syn_ack, send_ex_pkt}
===============================================================================
