------------------------------- MODULE Arena -------------------------------
(***************************************************************************)
(* Arena: the bump allocator of one memtable.  Only SkipList's put and its *)
(* constructor call allocate, one at a time, so an allocation is a         *)
(* function of the arena; the atomics that let several threads allocate    *)
(* are not exercised by the program.                                       *)
(***************************************************************************)
EXTENDS Integers, Sequences

CONSTANTS
    K_BLOCK_SIZE,   \* bytes of a standard block (4 MB)
    Align           \* every allocation is a multiple of this (8)

ASSUME ArenaAssumption == {K_BLOCK_SIZE, Align} \subseteq Nat \ {0}

(* blocks_ in order, with the bytes claimed so far; current_block_ is an   *)
(* index, 0 for none.                                                      *)
NewArena == [blocks |-> <<>>, current |-> 0]

Aligned(bytes) == ((bytes + Align - 1) \div Align) * Align

(* What allocate returns: the arena afterwards, and where the memory is.   *)
Claimed(arena, block, at, n) == [arena |-> arena, block |-> block, at |-> at, size |-> n]

(* offset.fetch_add, whether or not the bytes fit.                         *)
Bump(a, n) == IF a.current = 0 THEN a ELSE [a EXCEPT !.blocks[a.current].offset = @ + n]

Fits(a, n) == a.current # 0 /\ a.blocks[a.current].offset + n <= K_BLOCK_SIZE

FromCurrent(a, n) == Claimed(Bump(a, n), a.current, a.blocks[a.current].offset, n)

(* A block of its own, claimed whole; current_block_ stays.                *)
allocate_new_block(a, n) ==
    LET blocks == Append(a.blocks, [size |-> n, offset |-> n])
    IN  Claimed([a EXCEPT !.blocks = blocks], Len(blocks), 0, n)

(* Mutated new_standard_block: the bytes handed out are not claimed.       *)
new_standard_block_unclaimed(a, n) ==
    LET blocks == Append(a.blocks, [size |-> K_BLOCK_SIZE, offset |-> 0])
    IN  Claimed([blocks |-> blocks, current |-> Len(blocks)], Len(blocks), 0, n)

(* A standard block, which becomes current_block_.                         *)
new_standard_block(a, n) ==
    LET blocks == Append(a.blocks, [size |-> K_BLOCK_SIZE, offset |-> n])
    IN  Claimed([blocks |-> blocks, current |-> Len(blocks)], Len(blocks), 0, n)

allocate_fallback(a, n) ==
    IF Fits(a, n) THEN FromCurrent(a, n)
    ELSE IF n > K_BLOCK_SIZE \div 4 THEN allocate_new_block(Bump(a, n), n)
    ELSE new_standard_block(Bump(a, n), n)

allocate(a, bytes) ==
    LET n == Aligned(bytes)
    IN  IF Fits(a, n) THEN FromCurrent(a, n) ELSE allocate_fallback(Bump(a, n), n)
=============================================================================
