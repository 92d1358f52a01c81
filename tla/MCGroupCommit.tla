--------------------------- MODULE MCGroupCommit ---------------------------
(* Three threads, one of them the garbage collector: enough for a leader   *)
(* that completes its batch, a second that commits and a third that pushes *)
(* or waits.  The threads issue requests for ever; no bound is needed.     *)
EXTENDS GroupCommit

CONSTANTS w1, w2, gc

MCWriters == {w1, w2, gc}
MCGcWriters == {gc}
=============================================================================
