----------------------------- MODULE MCLogFiles -----------------------------
(***************************************************************************)
(* LogFiles for TLC.  The keys are interchangeable.                        *)
(***************************************************************************)
EXTENDS LogFiles

Symmetry == Permutations(Keys)
=============================================================================
