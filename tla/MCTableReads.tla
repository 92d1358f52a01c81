---------------------------- MODULE MCTableReads ----------------------------
(***************************************************************************)
(* TableReads for TLC.  The first table holds one, five or all of six      *)
(* keys, which share prefixes of every length; the second is there so that *)
(* evictions happen.                                                       *)
(***************************************************************************)
EXTENDS TableReads, TLC

MCKeys == {<<>>, <<1>>, <<1, 1>>, <<1, 1, 2>>, <<1, 2>>, <<2>>}

MChash64 == [k \in MCKeys |-> (FoldLeft(LAMBDA h, c : (h * 5 + c) % 16, 3, k))]

MCTableKeys == (1 :> {s \in SUBSET MCKeys : Cardinality(s) \in {1, 5, 6}}) @@ (2 :> {{<<1, 1>>, <<2>>}})

Symmetry == Permutations(Threads)
=============================================================================
