---------------------------- MODULE MCWritePath ----------------------------
(***************************************************************************)
(* WritePath for TLC.  Keys are interchangeable.                           *)
(***************************************************************************)
EXTENDS WritePath, TLC

Symmetry == Permutations(Keys)
=============================================================================
