----------------------------- MODULE MCTimeoutMux -----------------------------
(* Three events, and times within and beyond the width of the counter.       *)
EXTENDS TimeoutMux
===============================================================================
