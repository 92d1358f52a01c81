----------------------------- MODULE MCMemtable -----------------------------
(***************************************************************************)
(* Memtable for TLC.  The second key is long enough for a block of its     *)
(* own.                                                                    *)
(***************************************************************************)
EXTENDS Memtable

MCKeyBytes == [k \in Keys |-> IF k = 2 THEN 9 ELSE k]
=============================================================================
