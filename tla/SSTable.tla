------------------------------ MODULE SSTable ------------------------------
(***************************************************************************)
(* The SSTable format: SSTableWriter::write from entries to a file,        *)
(* SSTableReader::load from a file to a reader, and what get and the       *)
(* iterator make of a block.                                               *)
(*                                                                         *)
(* A key is a sequence of bytes.  A block keeps the parts of its entries   *)
(* as the writer packed them; positions in a block are numbers of entries, *)
(* positions in the file are bytes.                                        *)
(***************************************************************************)
EXTENDS BloomFilter, Sequences, SequencesExt, FiniteSetsExt

CONSTANTS
    Keys,
    restart_interval,  \* entries between two full keys (16)
    HeaderBytes,       \* shared, unshared, val_len (12)
    PointerBytes,      \* a VLogPointer on disk (16)
    OffsetBytes        \* a restart, and their number (4)

ASSUME SSTableAssumption ==
    /\ {restart_interval, HeaderBytes, PointerBytes, OffsetBytes} \subseteq Nat \ {0}
    /\ DOMAIN hash64 = Keys

(* Order of keys: bytes from the left, a prefix first.                     *)
Less(a, b) ==
    \E i \in DOMAIN b : /\ i <= Len(a) + 1
                        /\ SubSeq(a, 1, i - 1) = SubSeq(b, 1, i - 1)
                        /\ i = Len(a) + 1 \/ a[i] < b[i]

Rank(keys, key) == Cardinality({k \in keys : Less(k, key)}) + 1

(* The entries of a memtable or a merge, in order of their keys.           *)
Entries(keys) ==
    [i \in 1..Cardinality(keys) |-> [key |-> CHOOSE k \in keys : Rank(keys, k) = i, pointer |-> i]]

-----------------------------------------------------------------------------
(* SSTableWriter::write.                                                   *)
SharedPrefix(a, b) ==
    Max({n \in 0..Min({Len(a), Len(b)}) : SubSeq(a, 1, n) = SubSeq(b, 1, n)})

Size(key, shared) == HeaderBytes + Len(key) - shared + PointerBytes

NewWriter == [index |-> <<>>, blocks |-> <<>>, offset |-> 0, buf |-> <<>>, bytes |-> 0,
              restarts |-> <<>>, last_key |-> <<>>, counter |-> 0]

(* The block in block_buf is ended by its restarts and gets its index      *)
(* entry; the next one starts empty.                                       *)
flush_block_buf(w) ==
    LET length == w.bytes + Len(w.restarts) * OffsetBytes + OffsetBytes
    IN  [NewWriter EXCEPT
            !.index = Append(w.index, [max_key |-> w.last_key, offset |-> w.offset, length |-> length]),
            !.blocks = Append(w.blocks, [offset |-> w.offset, length |-> length,
                                         entries |-> w.buf, restarts |-> w.restarts]),
            !.offset = w.offset + length]

(* One entry: the prefix it shares with the one before is left out, except *)
(* every restart_interval entries and at the start of a block; an entry    *)
(* that shares nothing is a restart.                                       *)
write_entry(w, e, limit) ==
    LET shared == IF w.counter % restart_interval # 0 /\ w.buf # <<>>
                  THEN SharedPrefix(w.last_key, e.key) ELSE 0
        trailer == (Len(w.restarts) + (IF shared = 0 THEN 1 ELSE 0)) * OffsetBytes + OffsetBytes
        full == w.buf # <<>> /\ w.bytes + Size(e.key, shared) + trailer > limit
        v == IF full THEN flush_block_buf(w) ELSE w
        s == IF full THEN 0 ELSE shared
    IN  [v EXCEPT !.restarts = IF s = 0 THEN Append(@, Len(v.buf) + 1) ELSE @,
                  !.buf = Append(@, [shared |-> s, unshared |-> SubSeq(e.key, s + 1, Len(e.key)),
                                     pointer |-> e.pointer]),
                  !.bytes = @ + Size(e.key, s),
                  !.last_key = e.key,
                  !.counter = @ + 1]

write(keys, limit) ==
    LET w == FoldLeft(LAMBDA v, e : write_entry(v, e, limit), NewWriter, Entries(keys))
        end == IF w.buf = <<>> THEN w ELSE flush_block_buf(w)
    IN  [blocks |-> end.blocks, index |-> end.index, bloom |-> build(keys)]

(* SSTableReader::load: the index, the filter, and the first and last key. *)
(* On Windows the file is mapped and the filter taken by load_raw, on      *)
(* POSIX it is read; whether that worked is not asked.                     *)
load(file, mapped, read) ==
    [index |-> file.index, bloom |-> IF mapped THEN load_raw(file.bloom) ELSE load_filter(file.bloom, read),
     min_key |-> IF file.index = <<>> THEN <<>> ELSE file.blocks[1].entries[1].unshared,
     max_key |-> IF file.index = <<>> THEN <<>> ELSE Last(file.index).max_key]

(* The bytes of an index entry, from the file or its mapping.              *)
ReadBlock(file, e) ==
    CHOOSE b \in Range(file.blocks) : b.offset = e.offset /\ b.length = e.length
-----------------------------------------------------------------------------
(* Keys of a block from its i-th entry on, as current_key is rebuilt: cut  *)
(* or padded to what is shared, then the rest appended.                    *)
Decoded(b, i) ==
    LET key[j \in (i - 1)..Len(b.entries)] ==
            IF j < i THEN <<>>
            ELSE [n \in 1..b.entries[j].shared |-> IF n <= Len(key[j - 1]) THEN key[j - 1][n] ELSE 0]
                 \o b.entries[j].unshared
    IN  key

NotFound == 0

(* The entry a scan from the i-th one stops at: the first not below key.   *)
LinearScan(b, i, key) ==
    LET keys == Decoded(b, i)
        reached == {j \in i..Len(b.entries) : ~Less(keys[j], key)}
    IN  IF reached # {} /\ keys[Min(reached)] = key THEN b.entries[Min(reached)].pointer ELSE NotFound

(* The binary search of get over the restarts, from 0: it ends at the one  *)
(* with this key, or remembers the last smaller one.                       *)
BinarySearch(b, key) ==
    LET n == Len(b.restarts)
        at(mid) == b.entries[b.restarts[mid + 1]]
        search[l \in 0..n, r \in -1..(n - 1), t \in 0..(n - 1)] ==
            LET mid == l + (r - l) \div 2
            IN  IF l > r THEN [target |-> t, found |-> FALSE]
                ELSE IF Less(at(mid).unshared, key) THEN search[mid + 1, r, mid]
                ELSE IF Less(key, at(mid).unshared) THEN search[l, mid - 1, t]
                ELSE [target |-> mid, found |-> TRUE]
    IN  search[0, n - 1, 0]

SearchBlock(b, key) ==
    LET s == BinarySearch(b, key)
        start == b.restarts[s.target + 1]
    IN  IF s.found THEN b.entries[start].pointer ELSE LinearScan(b, start, key)

(* get before it reads: the filter, which its callers ask first, the range *)
(* of keys, and the first block that ends at or after the key; 0 for none. *)
BlockOf(reader, key) ==
    LET after == {i \in DOMAIN reader.index : ~Less(reader.index[i].max_key, key)}
    IN  IF \/ ~may_contain(reader.bloom, key)
           \/ Less(key, reader.min_key) \/ Less(reader.max_key, key)
           \/ after = {}
        THEN 0 ELSE Min(after)

(* Mutated SeekBlock: a block that ends at the target is passed over.      *)
SeekBlockBehind(index, target) ==
    LET n == Len(index)
        search[l \in 0..n, r \in 0..(n - 1), b \in 0..(n - 1)] ==
            LET mid == l + (r - l) \div 2
            IN  IF l > r THEN b
                ELSE IF ~Less(target, index[mid + 1].max_key) THEN search[mid + 1, r, b]
                ELSE IF mid = 0 THEN mid
                ELSE search[l, mid - 1, mid]
    IN  search[0, n - 1, n - 1] + 1

(* SSTableIterator::seek: the same block by a search that ends at the last *)
(* one when every block ends before the target.                            *)
SeekBlock(index, target) ==
    LET n == Len(index)
        search[l \in 0..n, r \in 0..(n - 1), b \in 0..(n - 1)] ==
            LET mid == l + (r - l) \div 2
            IN  IF l > r THEN b
                ELSE IF Less(index[mid + 1].max_key, target) THEN search[mid + 1, r, b]
                ELSE IF mid = 0 THEN mid
                ELSE search[l, mid - 1, mid]
    IN  search[0, n - 1, n - 1] + 1

(* The entries of a block, as the iterator parses one after the other.     *)
parse_entries(b) ==
    LET keys == Decoded(b, 1)
    IN  [j \in DOMAIN b.entries |-> [key |-> keys[j], pointer |-> b.entries[j].pointer]]

(* What the iterator returns from one block: all of it, or the entries     *)
(* from the first that is not below the target.                            *)
FromBlock(b, target, started) ==
    LET all == parse_entries(b)
        reached == {j \in DOMAIN all : started \/ ~Less(all[j].key, target)}
    IN  IF reached = {} THEN <<>> ELSE SubSeq(all, Min(reached), Len(all))
=============================================================================
