---------------------------- MODULE MCRadioSettings ----------------------------
(* Transceivers of the three kinds, of a wrong revision, of another maker (both *)
(* halves of the number wrong, one half wrong) and of an unknown kind; channels *)
(* at, below and above the limits and beyond a byte; bands around every limit.  *)
EXTENDS RadioSettings

Chip(part, version, id0, id1) ==
  [part |-> part, version |-> version, id0 |-> id0, id1 |-> id1]

MCChips ==
  {Chip(2, 1, 31, 0), Chip(2, 2, 31, 0), Chip(3, 2, 31, 0), Chip(3, 1, 31, 0),
   Chip(3, 2, 31, 1), Chip(3, 2, 30, 1), Chip(7, 1, 31, 0), Chip(7, 2, 31, 0),
   Chip(5, 1, 31, 0)}

MCBands ==
  {7689, 7690, 7691, 7810, 7945, 7946, 8569, 8571, 8629, 8630, 8683, 8825, 8826,
   9031, 9060, 9240, 9285, 9286, 9350, 9351}

\* From the data sheet of the AT86RF231.
MCResetValue ==
  [r \in Registers |->
     CASE r = "TRX_CTRL_0" -> 25 [] r = "TRX_CTRL_1" -> 32 [] r = "PHY_TX_PWR" -> 192
       [] r = "PHY_CC_CCA" -> 43 [] r = "XAH_CTRL" -> 56 [] r = "CSMA_SEED_0" -> 234
       [] r = "CSMA_SEED_1" -> 66 [] r = "CSMA_BE" -> 83 [] r = "ANT_DIV" -> 3
       [] r \in {"SHORT_ADDR_0", "SHORT_ADDR_1", "PAN_ID_0", "PAN_ID_1"} -> 255
       [] OTHER -> 0]
===============================================================================
