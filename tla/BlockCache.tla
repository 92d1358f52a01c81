----------------------------- MODULE BlockCache -----------------------------
(***************************************************************************)
(* One LRUShard of the block cache: get and put, each under its mutex.     *)
(* list_ is in order of use, newest first; map_ has the blocks; the size   *)
(* is counted in bytes.                                                    *)
(***************************************************************************)
EXTENDS Integers, Sequences, SequencesExt

EmptyCache == [list |-> <<>>, map |-> <<>>, size |-> 0]

Cached(c, key) == key \in DOMAIN c.map

MoveToFront(list, key) == <<key>> \o SelectSeq(list, LAMBDA x : x # key)

(* get of a cached block moves it to the front.                            *)
Touch(c, key) == [c EXCEPT !.list = MoveToFront(@, key)]

(* Evict from the back while the cache is over its capacity.               *)
Evict(c, capacity) ==
    LET drop[s \in 0..Len(c.list)] ==
            IF s = 0 THEN c
            ELSE LET d == drop[s - 1]
                     key == Last(d.list)
                 IN  IF d.size <= capacity \/ d.list = <<>> THEN d
                     ELSE [list |-> Front(d.list),
                           map |-> [x \in DOMAIN d.map \ {key} |-> d.map[x]],
                           size |-> d.size - d.map[key].length]
    IN  drop[Len(c.list)]

(* Mutated PutBlock: a block that is there already is counted again.       *)
PutBlockCountsAgain(c, key, block, capacity) ==
    Evict([list |-> MoveToFront(c.list, key),
           map |-> [x \in DOMAIN c.map \cup {key} |-> IF x = key THEN block ELSE c.map[x]],
           size |-> c.size + block.length], capacity)

(* put: replace a block in place, uncounted, or insert it and evict.       *)
PutBlock(c, key, block, capacity) ==
    IF Cached(c, key)
    THEN [c EXCEPT !.map[key] = block, !.list = MoveToFront(@, key)]
    ELSE Evict([list |-> <<key>> \o c.list,
                map |-> [x \in DOMAIN c.map \cup {key} |-> IF x = key THEN block ELSE c.map[x]],
                size |-> c.size + block.length], capacity)
=============================================================================
