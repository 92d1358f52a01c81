---------------------------- MODULE BloomFilter ----------------------------
(***************************************************************************)
(* BloomFilter: built with an SSTable, stored in it as bytes, and loaded   *)
(* from their number.  hash64 is any function of the key; the words it     *)
(* returns have WordBits bits, and arithmetic on them wraps.               *)
(***************************************************************************)
EXTENDS Integers, FiniteSets

CONSTANTS
    hash64,       \* key |-> word
    WordBits,     \* 64 in the code
    RotateBits,   \* h2 is the word turned right by these (33)
    BitsPerKey,   \* for the false positive rate asked for (9.59, rounded up)
    NumHashes     \* k_ (7)

ASSUME BloomAssumption ==
    /\ {WordBits, BitsPerKey, NumHashes} \subseteq Nat \ {0} /\ RotateBits \in 0..WordBits

Word == 2 ^ WordBits

Rotated(base) == (base \div 2 ^ RotateBits) + (base % 2 ^ RotateBits) * 2 ^ (WordBits - RotateBits)

(* The bits of a key in a filter of m bits: (h1 + i * h2) % m.             *)
Bits(key, k, m) == {((hash64[key] + i * Rotated(hash64[key])) % Word) % m : i \in 0..(k - 1)}

Bytes(m) == (m + 7) \div 8

(* Mutated build: the bits are set before m_ is rounded up.                *)
build_unrounded(keys) ==
    LET m == Cardinality(keys) * BitsPerKey
    IN  [k |-> NumHashes, bytes |-> Bytes(m), held |-> TRUE,
         bits |-> UNION {Bits(key, NumHashes, m) : key \in keys}]

(* build: m_ is rounded up to whole bytes before any bit is set.           *)
build(keys) ==
    LET n == Cardinality(keys)
        bytes == Bytes(n * BitsPerKey)
    IN  IF n = 0 THEN [k |-> 0, bytes |-> 0, bits |-> {}, held |-> FALSE]
        ELSE [k |-> NumHashes, bytes |-> bytes, held |-> TRUE,
              bits |-> UNION {Bits(key, NumHashes, bytes * 8) : key \in keys}]

(* load reads the bytes, or maps them when they are many; without them, if *)
(* that fails, the filter is empty.                                        *)
load_filter(filter, read) == [filter EXCEPT !.held = @ /\ read]

(* load_raw sets only mmap_ptr_, which may_contain uses only when          *)
(* mmap_view_ is set.                                                      *)
load_raw(filter) == [filter EXCEPT !.held = FALSE]

(* may_contain, with m_ as load computes it from the size of the filter.   *)
(* Without bytes it answers yes.                                           *)
may_contain(filter, key) ==
    ~filter.held \/ filter.bytes = 0 \/ filter.k = 0 \/ Bits(key, filter.k, filter.bytes * 8) \subseteq filter.bits
=============================================================================
