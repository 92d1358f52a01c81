------------------------------- MODULE KVMap -------------------------------
(***************************************************************************)
(* What the engine promises its clients: a map in which a put takes effect *)
(* at one instant and nothing else changes a value.                        *)
(***************************************************************************)
EXTENDS Integers

CONSTANTS Keys

VARIABLE store   \* the newest put each key holds, 0 for none

MapInit == store = [k \in Keys |-> 0]

(* Puts are numbered in commit order, so a key's value only grows.         *)
MapPut(k) ==
    /\ store'[k] > store[k]
    /\ store' = [store EXCEPT ![k] = store'[k]]

MapNext == \E k \in Keys : MapPut(k)

MapSpec == MapInit /\ [][MapNext]_store
=============================================================================
