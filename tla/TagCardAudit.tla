---------------------------- MODULE TagCardAudit ----------------------------
(***************************************************************************)
(* TagCard with two observers: what the radio and the wake-up receiver   *)
(* really delivered, counted from the frames and the interrupts and not    *)
(* from the counters of main.c.  The comments of main.c say what those     *)
(* counters and flags mean; here the two can be compared.                  *)
(***************************************************************************)
EXTENDS TagCard

VARIABLES
  genuine, \* an id whose check sum was right is waiting for section 1
  silent   \* RTC periods begun since a packet of the node was last accepted

observers == <<genuine, silent>>
avars == <<vars, observers>>

AInit == Init /\ genuine = FALSE /\ silent = 0

\* Bound of silent: beyond it the properties tell no counts apart.
SilentMax == cfg_xcnt + cfg_ocnt + 2

\* The loop starts a listening period of a cave session.
BeginsPeriod == pc = "alarm" /\ time_waking /\ c_state \in CaveState

\* The frame at hand is a packet of the node the card listens to.
FromNode ==
  /\ pc = "packet" /\ pool # <<>>
  /\ LET p == Head(pool) IN
     /\ p.strong /\ p.kind = "cave"
     /\ \/ c_state = "pending" /\ PconSignal < cfg_icnt
        \/ c_state = "in_cave" /\ p.src = lastRID

Observe ==
  /\ genuine' = CASE pc = "woken" /\ wake -> wake'
                  [] pc = "excite" /\ wake -> FALSE
                  [] OTHER -> genuine
  /\ silent' = CASE BeginsPeriod -> IF silent < SilentMax THEN silent + 1 ELSE silent
                 [] FromNode \/ c_state \notin CaveState -> 0
                 [] OTHER -> silent

AStep == MainStep /\ Observe
AInterrupt == Interrupt /\ UNCHANGED observers

ANext == AStep \/ AInterrupt

ASpec == AInit /\ [][ANext]_avars

-----------------------------------------------------------------------------
GivesUp(state) == pc = "timeout" /\ c_state = state /\ c_state' = "synchronizing"

\* A card leaves its cave session for want of packets only after more silent periods
\* in a row than the limit: no alarm counts twice, no count survives a reception.
Patience ==
  [][/\ GivesUp("pending") => silent > cfg_xcnt
     /\ GivesUp("in_cave") => silent > cfg_ocnt]_avars

-----------------------------------------------------------------------------
(* What the comments of main.c say, and the code does not do.              *)

\* main.c:118: section 1 handles a true wake-up, by the right exciter.  A match that
\* comes while the card is awake sets wake without reading an id.
TrueWakeUp == [][pc = "excite" /\ wake /\ ~wake' => genuine]_avars

=============================================================================
