----------------------------- MODULE MCCodeUpdate -----------------------------
(* The instances of CodeUpdate that TLC checks. *)
EXTENDS CodeUpdate, TLC

CONSTANTS a, b

\* A file of one piece, one that ends where the boot page begins, one that is too long
\* and Fits, and one that does not fit: announced with an old version it is taken, over
\* the boot information and the parameters.
MCImages == {<<a>>, <<b, a, b>>, <<a, b, a, a>>, [i \in 1..6 |-> a]}

MCOldImages == {<<b, a, b>>, [i \in 1..6 |-> a]}

\* A short file, which is refused when its version is old.
MCShortImages == {<<a, b>>}

\* A file that Fits, and is longer than the pages before the boot page.
MCLongImages == {<<a, b, a, b, b, a>>}
=============================================================================
