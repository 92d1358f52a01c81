------------------------------ MODULE MCVLogGC ------------------------------
(***************************************************************************)
(* VLogGC for TLC: keys are interchangeable, and so are the threads of the *)
(* pool.                                                                   *)
(***************************************************************************)
EXTENDS VLogGC, TLC

Symmetry == Permutations(Keys) \cup Permutations(Collectors)
=============================================================================
