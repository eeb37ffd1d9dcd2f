---------------------------- MODULE ImageTransfer ----------------------------
(***************************************************************************)
(* What the update of the card's program promises its user: a file that    *)
(* has been announced, was accepted and has been received piece by piece,  *)
(* and no other, becomes the one that is booted.  A refused announcement   *)
(* announces nothing.  <<>> stands for no file.                            *)
(***************************************************************************)
EXTENDS Integers, Sequences

CONSTANTS Data, Images

VARIABLES
  file,    \* announced and accepted
  got,     \* pieces received of it, in order
  bootable \* image the next start copies

tvars == <<file, got, bootable>>

Init == file = <<>> /\ got = <<>> /\ bootable = <<>>

Announce == \* the announcement is accepted
  /\ file' \in Images /\ got' = <<>>
  /\ UNCHANGED bootable

Take ==
  /\ Len(got) < Len(file)
  /\ \E d \in Data : got' = Append(got, d)
  /\ UNCHANGED <<file, bootable>>

Install ==
  /\ file # <<>> /\ got = file
  /\ bootable' = file
  /\ UNCHANGED <<file, got>>

Abandon ==
  /\ file' = <<>> /\ got' = <<>>
  /\ UNCHANGED bootable

Boot ==
  /\ bootable' = <<>>
  /\ UNCHANGED <<file, got>>

Next == Announce \/ Take \/ Install \/ Abandon \/ Boot

Spec == Init /\ [][Next]_tvars
=============================================================================
