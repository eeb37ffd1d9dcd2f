------------------------------- MODULE FrameFifo -------------------------------
(***************************************************************************)
(* What the packet pool promises: frames are parsed whole, each once, in   *)
(* the order in which the handler accepted them, until the radio is        *)
(* initialised again.  A frame may be refused when it arrives: that leaves *)
(* everything as it is.  That each accepted frame was on the air is not    *)
(* promised.                                                               *)
(***************************************************************************)
EXTENDS Sequences

CONSTANTS Frame, None

VARIABLES
  queue, \* accepted, not yet parsed
  out    \* last parsed

fvars == <<queue, out>>

Init == queue = <<>> /\ out = None

Receive ==
  /\ \E f \in Frame : queue' = Append(queue, f)
  /\ UNCHANGED out

Parse ==
  /\ queue # <<>>
  /\ out' = Head(queue) /\ queue' = Tail(queue)

Restart == queue' = <<>> /\ UNCHANGED out

Next == Receive \/ Parse \/ Restart

Spec == Init /\ [][Next]_fvars
===============================================================================
