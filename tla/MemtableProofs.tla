--------------------------- MODULE MemtableProofs ---------------------------
(***************************************************************************)
(* Proofs about the memtable, for any block size, alignment and node sizes *)
(* and any number of keys, levels and readers.                             *)
(*                                                                         *)
(* The arena: nodes never share memory.  The list: its levels are ordered  *)
(* and nest at every moment of a put, gets and iterators that take no lock *)
(* return what they must, and the whole is a map.                          *)
(***************************************************************************)
EXTENDS Memtable, WellFoundedInduction, TLAPS

Block == [size : Nat, offset : Nat]
Region == [block : Nat, at : Nat, size : Nat]

(* What allocate relies on: current_block_ is one of the standard blocks.  *)
ArenaOK(a) ==
    /\ a \in [blocks : Seq(Block), current : Nat]
    /\ a.current <= Len(a.blocks)
    /\ a.current # 0 => a.blocks[a.current].size = K_BLOCK_SIZE

(* Memory that lies inside its block and has been claimed.                 *)
Within(r, a) ==
    /\ r.block \in 1..Len(a.blocks)
    /\ r.at + r.size <= a.blocks[r.block].size
    /\ r.at + r.size <= a.blocks[r.block].offset

(* b is the arena a after some more bytes have been claimed.               *)
Grows(a, b) ==
    /\ Len(a.blocks) <= Len(b.blocks)
    /\ \A i \in 1..Len(a.blocks) : /\ b.blocks[i].size = a.blocks[i].size
                                   /\ a.blocks[i].offset <= b.blocks[i].offset

(* The memory r was free in a.                                             *)
Fresh(r, a) == r.block \in 1..Len(a.blocks) => a.blocks[r.block].offset <= r.at

(* What an allocation of n bytes from arena a returns.                     *)
Sound(c, a, n) ==
    /\ ArenaOK(c.arena) /\ Grows(a, c.arena)
    /\ RegionOf(c) \in Region /\ c.size = n
    /\ Within(RegionOf(c), c.arena) /\ Fresh(RegionOf(c), a)

-----------------------------------------------------------------------------
(* Rounding up to the alignment (Arena::allocate) gives enough bytes.      *)
LEMMA AlignedEnough ==
    ASSUME NEW bytes \in Nat
    PROVE  Aligned(bytes) \in Nat /\ bytes <= Aligned(bytes)
<1> DEFINE q == (bytes + Align - 1) \div Align
<1>1. Align \in Nat /\ Align > 0
  BY ArenaAssumption
<1>2. bytes + Align - 1 \in Nat
  BY <1>1
<1>3. q \in Nat /\ bytes + Align - 1 < q * Align + Align
  BY <1>1, <1>2, SMT
<1>4. q * Align \in Nat
  BY <1>1, <1>3, SMT
<1> QED
  BY <1>1, <1>3, <1>4 DEF Aligned

(* Blocks keep their types when one is changed or added.                   *)
LEMMA BlocksTyped ==
    ASSUME NEW a, ArenaOK(a)
    PROVE  /\ a.blocks \in Seq(Block) /\ Len(a.blocks) \in Nat /\ a.current \in Nat
           /\ \A i \in 1..Len(a.blocks) : a.blocks[i].size \in Nat /\ a.blocks[i].offset \in Nat
<1>1. a.blocks \in Seq(Block) /\ Len(a.blocks) \in Nat /\ a.current \in Nat
  BY DEF ArenaOK
<1>2. \A i \in 1..Len(a.blocks) : a.blocks[i] \in Block
  BY <1>1
<1> QED
  BY <1>1, <1>2, Zenon DEF Block

(* The fetch_add of a request that did not fit (arena.cpp) changes nothing *)
(* but the offset of the current block, upwards.                           *)
LEMMA BumpGrows ==
    ASSUME NEW a, ArenaOK(a), NEW n \in Nat
    PROVE  ArenaOK(Bump(a, n)) /\ Grows(a, Bump(a, n)) /\ Bump(a, n).current = a.current
<1>1. CASE a.current = 0
  BY <1>1, BlocksTyped DEF Bump, Grows
<1>2. CASE a.current # 0
  <2> DEFINE b == Bump(a, n)
             blk == [a.blocks[a.current] EXCEPT !.offset = @ + n]
  <2>1. a \in [blocks : Seq(Block), current : Nat] /\ a.current \in 1..Len(a.blocks)
    BY <1>2 DEF ArenaOK
  <2>2. a.blocks[a.current] \in Block
    BY <2>1
  <2>3. blk \in Block /\ blk.size = a.blocks[a.current].size /\ blk.offset = a.blocks[a.current].offset + n
    BY <2>2 DEF Block
  <2>4. b = [a EXCEPT !.blocks = [a.blocks EXCEPT ![a.current] = blk]]
    BY <1>2, Zenon DEF Bump
  <2>5. b.current = a.current /\ b.blocks = [a.blocks EXCEPT ![a.current] = blk]
    BY <2>1, <2>4, Zenon
  <2>6. b.blocks \in Seq(Block) /\ Len(b.blocks) = Len(a.blocks)
    BY <2>1, <2>3, <2>5
  <2>7. \A i \in 1..Len(a.blocks) : b.blocks[i] = IF i = a.current THEN blk ELSE a.blocks[i]
    BY <2>1, <2>5
  <2>8. b \in [blocks : Seq(Block), current : Nat]
    BY <2>1, <2>4, <2>5, <2>6, Zenon
  <2>9. ArenaOK(b)
    BY <2>1, <2>3, <2>5, <2>6, <2>7, <2>8, Zenon DEF ArenaOK
  <2>10. Grows(a, b)
    <3>1. SUFFICES ASSUME NEW i \in 1..Len(a.blocks)
                   PROVE  b.blocks[i].size = a.blocks[i].size /\ a.blocks[i].offset <= b.blocks[i].offset
      BY <2>1, <2>6 DEF Grows
    <3>2. a.blocks[i].offset \in Nat
      BY BlocksTyped, Zenon
    <3>3. CASE i = a.current
      <4>1. b.blocks[i] = blk
        BY <2>7, <3>3, Zenon
      <4>2. b.blocks[i].size = a.blocks[i].size /\ b.blocks[i].offset = a.blocks[i].offset + n
        BY <2>3, <3>3, <4>1, Zenon
      <4> QED
        BY <3>2, <4>2
    <3>4. CASE i # a.current
      BY <2>7, <3>2, <3>4
    <3> QED
      BY <3>3, <3>4, Zenon
  <2> QED
    BY <2>5, <2>9, <2>10, Zenon
<1> QED
  BY <1>1, <1>2, Zenon

(* What two steps of the arena leave alone, both together leave alone.     *)
LEMMA GrowsTransitive ==
    ASSUME NEW a, NEW b, NEW c, ArenaOK(a), ArenaOK(b), ArenaOK(c), Grows(a, b), Grows(b, c)
    PROVE  Grows(a, c)
<1>1. Len(a.blocks) \in Nat /\ Len(b.blocks) \in Nat /\ Len(c.blocks) \in Nat
  BY BlocksTyped, Zenon
<1>2. Len(a.blocks) <= Len(c.blocks)
  BY <1>1 DEF Grows
<1>3. ASSUME NEW i \in 1..Len(a.blocks)
      PROVE  c.blocks[i].size = a.blocks[i].size /\ a.blocks[i].offset <= c.blocks[i].offset
  <2>1. i \in 1..Len(b.blocks) /\ i \in 1..Len(c.blocks)
    BY <1>1, <1>2 DEF Grows
  <2>2. /\ a.blocks[i].offset \in Nat /\ b.blocks[i].offset \in Nat /\ c.blocks[i].offset \in Nat
    BY <2>1, BlocksTyped, Zenon
  <2> QED
    BY <2>1, <2>2, SMTT(20) DEF Grows
<1> QED
  BY <1>2, <1>3, Zenon DEF Grows

(* A request that fits gets the bytes that fetch_add moved over.           *)
LEMMA FromCurrentSound ==
    ASSUME NEW a, ArenaOK(a), NEW n \in Nat, Fits(a, n)
    PROVE  Sound(FromCurrent(a, n), a, n)
<1> DEFINE c == FromCurrent(a, n)
<1>1. a.current \in 1..Len(a.blocks)
  BY BlocksTyped DEF Fits, ArenaOK
<1>2. a.blocks[a.current].offset \in Nat /\ a.blocks[a.current].size = K_BLOCK_SIZE
  BY <1>1, BlocksTyped DEF ArenaOK
<1>3. /\ c.arena = Bump(a, n) /\ c.block = a.current /\ c.size = n
      /\ c.at = a.blocks[a.current].offset
  BY Zenon DEF FromCurrent, Claimed
<1>4. ArenaOK(c.arena) /\ Grows(a, c.arena)
  BY <1>3, BumpGrows, Zenon
<1>5. c.arena.blocks[a.current].offset = a.blocks[a.current].offset + n
  <2>1. a \in [blocks : Seq(Block), current : Nat] /\ a.blocks[a.current] \in Block
    BY <1>1 DEF ArenaOK
  <2> QED
    BY <1>1, <1>3, <2>1 DEF Bump, Block
<1>6. c.arena.blocks[a.current].size = K_BLOCK_SIZE /\ a.current \in 1..Len(c.arena.blocks)
  BY <1>1, <1>2, <1>4, BlocksTyped, SMTT(20) DEF Grows
<1>7. RegionOf(c) = [block |-> a.current, at |-> a.blocks[a.current].offset, size |-> n]
  BY <1>3, Zenon DEF RegionOf
<1>8. RegionOf(c) \in Region
  BY <1>1, <1>2, <1>7 DEF Region
<1>9. Within(RegionOf(c), c.arena)
  BY <1>2, <1>5, <1>6, <1>7 DEF Within, Fits
<1>10. Fresh(RegionOf(c), a)
  BY <1>1, <1>2, <1>7 DEF Fresh
<1> QED
  BY <1>3, <1>4, <1>8, <1>9, <1>10, Zenon DEF Sound

(* A new block holds nothing but the request it is made for, whether it    *)
(* becomes the current one or not.                                         *)
LEMMA AppendSound ==
    ASSUME NEW a, ArenaOK(a), NEW n \in Nat, NEW size \in Nat, n <= size,
           NEW current \in {a.current, Len(a.blocks) + 1},
           current = a.current \/ size = K_BLOCK_SIZE,
           NEW blocks, blocks = Append(a.blocks, [size |-> size, offset |-> n])
    PROVE  Sound(Claimed([blocks |-> blocks, current |-> current], Len(blocks), 0, n), a, n)
<1> DEFINE b == [blocks |-> blocks, current |-> current]
           c == Claimed(b, Len(blocks), 0, n)
           blk == [size |-> size, offset |-> n]
           len == Len(a.blocks)
<1>1. a.blocks \in Seq(Block) /\ len \in Nat /\ a.current \in 0..len /\ blk \in Block
  BY BlocksTyped DEF ArenaOK, Block
<1>2. blocks \in Seq(Block) /\ Len(blocks) = len + 1 /\ blocks[len + 1] = blk
  BY <1>1
<1>3. \A i \in 1..len : blocks[i] = a.blocks[i]
  BY <1>1
<1>4. b \in [blocks : Seq(Block), current : Nat] /\ b.blocks = blocks /\ b.current = current
  BY <1>1, <1>2
<1>5. ArenaOK(b)
  <2>1. b.current <= Len(b.blocks)
    BY <1>1, <1>2, <1>4
  <2>2. CASE current = a.current
    BY <1>1, <1>3, <1>4, <2>1, <2>2 DEF ArenaOK
  <2>3. CASE current # a.current
    BY <1>1, <1>2, <1>4, <2>1, <2>3 DEF ArenaOK
  <2> QED
    BY <2>2, <2>3, Zenon
<1>6. Grows(a, b)
  <2>1. \A i \in 1..len : a.blocks[i].offset \in Nat
    BY BlocksTyped, Zenon
  <2> QED
    BY <1>1, <1>2, <1>3, <1>4, <2>1 DEF Grows
<1>7. RegionOf(c) = [block |-> len + 1, at |-> 0, size |-> n] /\ c.arena = b /\ c.size = n
  BY <1>2, Zenon DEF Claimed, RegionOf
<1>8. RegionOf(c) \in Region
  BY <1>1, <1>7 DEF Region
<1>9. Within(RegionOf(c), c.arena)
  BY <1>1, <1>2, <1>4, <1>7, SMTT(20) DEF Within
<1>10. Fresh(RegionOf(c), a)
  BY <1>1, <1>7 DEF Fresh
<1> QED
  BY <1>5, <1>6, <1>7, <1>8, <1>9, <1>10, Zenon DEF Sound

(* Memory that is free after a failed fetch_add was free before it.        *)
LEMMA BumpedSound ==
    ASSUME NEW a, ArenaOK(a), NEW m \in Nat, NEW n, NEW c, Sound(c, Bump(a, m), n)
    PROVE  Sound(c, a, n)
<1> DEFINE b == Bump(a, m)
<1>0. ArenaOK(b) /\ Grows(a, b)
  BY BumpGrows, Zenon
<1>1. ArenaOK(c.arena) /\ Grows(a, c.arena)
  BY <1>0, GrowsTransitive, Zenon DEF Sound
<1>2. Fresh(RegionOf(c), a)
  <2>1. SUFFICES ASSUME RegionOf(c).block \in 1..Len(a.blocks)
                 PROVE  a.blocks[RegionOf(c).block].offset <= RegionOf(c).at
    BY Zenon DEF Fresh
  <2> DEFINE i == RegionOf(c).block
  <2>2. Len(a.blocks) \in Nat /\ Len(b.blocks) \in Nat
    BY <1>0, BlocksTyped, Zenon
  <2>3. i \in 1..Len(b.blocks)
    BY <1>0, <2>1, <2>2 DEF Grows
  <2>4. a.blocks[i].offset \in Nat /\ b.blocks[i].offset \in Nat /\ RegionOf(c).at \in Nat
    BY <1>0, <2>1, <2>3, BlocksTyped, Zenon DEF Sound, Region
  <2>5. a.blocks[i].offset <= b.blocks[i].offset
    BY <1>0, <2>1, Zenon DEF Grows
  <2>6. b.blocks[i].offset <= RegionOf(c).at
    BY <2>3, Zenon DEF Sound, Fresh
  <2> QED
    BY <2>4, <2>5, <2>6
<1> QED
  BY <1>1, <1>2, Zenon DEF Sound

(* The slow path gets fresh memory, too.                                   *)
LEMMA FallbackSound ==
    ASSUME NEW a, ArenaOK(a), NEW n \in Nat
    PROVE  Sound(allocate_fallback(a, n), a, n)
<1> DEFINE b == Bump(a, n)
<1>1. ArenaOK(b) /\ Grows(a, b) /\ b.current = a.current
  BY BumpGrows, Zenon
<1>2. ASSUME NEW c, Sound(c, b, n)
      PROVE  Sound(c, a, n)
  BY <1>2, BumpedSound, Zenon
<1>3. CASE Fits(a, n)
  BY <1>3, FromCurrentSound, Zenon DEF allocate_fallback
<1>4. CASE ~Fits(a, n) /\ n > K_BLOCK_SIZE \div 4
  <2> DEFINE blocks == Append(b.blocks, [size |-> n, offset |-> n])
  <2>1. b \in [blocks : Seq(Block), current : Nat]
    BY <1>1, Zenon DEF ArenaOK
  <2>2. [b EXCEPT !.blocks = blocks] = [blocks |-> blocks, current |-> b.current]
    BY <2>1, SMTT(20)
  <2>3. allocate_fallback(a, n) = Claimed([blocks |-> blocks, current |-> b.current], Len(blocks), 0, n)
    BY <1>4, <2>2, Zenon DEF allocate_fallback, allocate_new_block
  <2> HIDE DEF b
  <2>4. Sound(Claimed([blocks |-> blocks, current |-> b.current], Len(blocks), 0, n), b, n)
    BY <1>1, AppendSound
  <2> QED
    BY <1>2, <2>3, <2>4, Zenon
<1>5. CASE ~Fits(a, n) /\ ~(n > K_BLOCK_SIZE \div 4)
  <2> DEFINE blocks == Append(b.blocks, [size |-> K_BLOCK_SIZE, offset |-> n])
             len == Len(b.blocks)
  <2>1. K_BLOCK_SIZE \in Nat /\ n <= K_BLOCK_SIZE
    BY <1>5, ArenaAssumption, SMT
  <2>2. b.blocks \in Seq(Block) /\ Len(blocks) = len + 1
    BY <1>1, <2>1, BlocksTyped DEF Block
  <2>3. allocate_fallback(a, n) = Claimed([blocks |-> blocks, current |-> len + 1], Len(blocks), 0, n)
    BY <1>5, <2>2, Zenon DEF allocate_fallback, new_standard_block
  <2> HIDE DEF b
  <2>4. Sound(Claimed([blocks |-> blocks, current |-> len + 1], Len(blocks), 0, n), b, n)
    BY <1>1, <2>1, AppendSound, Zenon
  <2> QED
    BY <1>2, <2>3, <2>4, Zenon
<1> QED
  BY <1>3, <1>4, <1>5, Zenon

(* Arena::allocate hands out memory inside a block that nobody has.        *)
LEMMA AllocateSound ==
    ASSUME NEW a, ArenaOK(a), NEW bytes \in Nat
    PROVE  Sound(allocate(a, bytes), a, Aligned(bytes))
<1> DEFINE n == Aligned(bytes)
<1>1. n \in Nat
  BY AlignedEnough, Zenon
<1> HIDE DEF n
<1>2. CASE Fits(a, n)
  BY <1>1, <1>2, FromCurrentSound, Zenon DEF allocate, n
<1>3. CASE ~Fits(a, n)
  <2>1. Sound(allocate_fallback(Bump(a, n), n), Bump(a, n), n)
    BY <1>1, BumpGrows, FallbackSound, Zenon
  <2>2. Sound(allocate_fallback(Bump(a, n), n), a, n)
    BY <1>1, <2>1, BumpedSound, Zenon
  <2> QED
    BY <1>3, <2>2, Zenon DEF allocate, n
<1> QED
  BY <1>2, <1>3, Zenon DEF n

-----------------------------------------------------------------------------
Allocated == {n \in Nodes : height[n] > 0}

(* The inductive invariant: what is allocated lies in claimed memory.      *)
MInv ==
    /\ ArenaOK(arena)
    /\ height \in [Nodes -> Nat] /\ region \in [Nodes -> Region]
    /\ \A n \in Allocated : /\ Within(region[n], arena)
                            /\ node_size(n, height[n]) <= region[n].size
    /\ \A n, m \in Allocated : m # n => ~Overlap(region[n], region[m])

(* A node of some height has a size.                                       *)
LEMMA NodeSize ==
    ASSUME NEW k \in Keys \cup {head}, NEW h \in Nat \ {0}
    PROVE  node_size(k, h) \in Nat
<1>1. NodeBytes \in Nat /\ PointerBytes \in Nat /\ KeyBytes \in [Keys -> Nat]
  BY MemtableAssumption, Zenon
<1>2. (h - 1) * PointerBytes \in Nat
  BY <1>1, SMT
<1>3. k # head => KeyBytes[k] \in Nat
  BY <1>1, Zenon DEF head
<1> QED
  BY <1>1, <1>2, <1>3 DEF node_size

(* A freshly allocated node shares nothing with claimed memory.            *)
LEMMA FreshDisjoint ==
    ASSUME NEW a, ArenaOK(a), NEW r \in Region, Within(r, a), NEW s \in Region, Fresh(s, a)
    PROVE  ~Overlap(r, s) /\ ~Overlap(s, r)
<1>1. SUFFICES ASSUME r.block = s.block
               PROVE  r.at + r.size <= s.at
  BY DEF Overlap, Region
<1>2. r.block \in 1..Len(a.blocks) /\ a.blocks[r.block].offset \in Nat
  BY BlocksTyped, Zenon DEF Within
<1>3. r.at + r.size <= a.blocks[r.block].offset /\ a.blocks[r.block].offset <= s.at
  BY <1>1, <1>2, Zenon DEF Within, Fresh
<1> QED
  BY <1>2, <1>3 DEF Region

(* Claimed memory stays claimed.                                           *)
LEMMA WithinGrows ==
    ASSUME NEW a, NEW b, ArenaOK(a), ArenaOK(b), Grows(a, b), NEW r \in Region, Within(r, a)
    PROVE  Within(r, b)
<1>1. Len(a.blocks) \in Nat /\ Len(b.blocks) \in Nat /\ r.block \in 1..Len(a.blocks)
  BY BlocksTyped, Zenon DEF Within
<1>2. r.block \in 1..Len(b.blocks)
  BY <1>1 DEF Grows
<1>3. a.blocks[r.block].offset \in Nat /\ b.blocks[r.block].offset \in Nat
  BY <1>1, <1>2, BlocksTyped, Zenon
<1>4. r.at + r.size \in Nat
  BY DEF Region
<1> QED
  BY <1>1, <1>2, <1>3, <1>4, SMTT(20) DEF Within, Grows

(* An empty skip list: the head is the only node (SkipList constructor).   *)
LEMMA InitMInv == Init => MInv
<1> SUFFICES ASSUME Init
             PROVE  MInv
  OBVIOUS
<1> DEFINE size == node_size(head, K_MAX_HEIGHT)
           c == allocate(NewArena, size)
<1>1. K_MAX_HEIGHT \in Nat \ {0} /\ N \in Nat
  BY MemtableAssumption, Zenon
<1>2. size \in Nat
  BY <1>1, NodeSize, Zenon
<1>3. ArenaOK(NewArena)
  BY DEF NewArena, ArenaOK
<1> HIDE DEF size
<1>4. Sound(c, NewArena, Aligned(size)) /\ size <= Aligned(size)
  BY <1>2, <1>3, AllocateSound, AlignedEnough, Zenon
<1>5. arena = c.arena /\ region = [n \in Nodes |-> IF n = head THEN RegionOf(c) ELSE NoRegion]
  BY Zenon DEF Init, allocate_node, size
<1> HIDE DEF c
<1>6. height = [n \in Nodes |-> IF n = head THEN K_MAX_HEIGHT ELSE 0]
  BY Zenon DEF Init
<1>7. head \in Nodes
  BY <1>1 DEF head, Nodes, nullptr
<1>8. NoRegion \in Region /\ RegionOf(c) \in Region
  BY <1>4, Zenon DEF NoRegion, Region, Sound
<1>9. height \in [Nodes -> Nat] /\ region \in [Nodes -> Region]
  BY <1>1, <1>5, <1>6, <1>8, Zenon
<1>10. Allocated = {head}
  BY <1>1, <1>6, <1>7 DEF Allocated
<1>11. Within(region[head], arena)
  BY <1>4, <1>5, <1>7, Zenon DEF Sound
<1>12. node_size(head, height[head]) <= region[head].size
  BY <1>4, <1>5, <1>6, <1>7, Zenon DEF Sound, RegionOf, size
<1> QED
  BY <1>4, <1>5, <1>9, <1>10, <1>11, <1>12, Zenon DEF MInv, Sound

(* put of a new key (SkipList::put) is the only step that allocates.       *)
LEMMA PutNewMInv ==
    ASSUME MInv, NEW k \in Keys, PutNew(k)
    PROVE  MInv'
<1>1. PICK h \in random_height : /\ arena' = allocate_node(arena, k, h).arena
                                 /\ region' = [region EXCEPT ![k] = RegionOf(allocate_node(arena, k, h))]
                                 /\ height' = [height EXCEPT ![k] = h]
  BY Zenon DEF PutNew
<1> DEFINE size == node_size(k, h)
           c == allocate(arena, size)
<1>2. h \in Nat \ {0} /\ k \in Nodes
  BY MemtableAssumption DEF random_height, Keys, Nodes, nullptr
<1>3. size \in Nat
  BY <1>2, NodeSize, Zenon
<1>4. arena' = c.arena /\ region' = [region EXCEPT ![k] = RegionOf(c)]
  BY <1>1, Zenon DEF allocate_node
<1> HIDE DEF size, c
<1>5. Sound(c, arena, Aligned(size)) /\ size <= Aligned(size)
  BY <1>3, AllocateSound, AlignedEnough, Zenon DEF MInv, c
<1>6. ArenaOK(arena') /\ Grows(arena, arena')
  BY <1>4, <1>5, Zenon DEF Sound
<1>7. RegionOf(c) \in Region /\ Within(RegionOf(c), arena') /\ Fresh(RegionOf(c), arena)
  BY <1>4, <1>5, Zenon DEF Sound
<1>8. height' \in [Nodes -> Nat] /\ region' \in [Nodes -> Region]
  BY <1>1, <1>2, <1>4, <1>7, Zenon DEF MInv
<1>9. region'[k] = RegionOf(c) /\ height'[k] = h
  BY <1>1, <1>2, <1>4, Zenon DEF MInv
<1>10. \A n \in Nodes \ {k} : region'[n] = region[n] /\ height'[n] = height[n]
  BY <1>1, <1>4, Zenon DEF MInv
<1>11. \A n \in Allocated' \ {k} : n \in Allocated /\ Within(region[n], arena) /\ region[n] \in Region
  BY <1>10, Zenon DEF Allocated, MInv
<1>12. ASSUME NEW n \in Allocated'
       PROVE  Within(region'[n], arena') /\ node_size(n, height'[n]) <= region'[n].size
  <2>1. CASE n = k
    BY <1>5, <1>7, <1>9, <2>1 DEF Sound, RegionOf, size
  <2>2. CASE n # k
    <3>1. n \in Allocated /\ region'[n] = region[n] /\ height'[n] = height[n]
      BY <1>10, <1>11, <2>2, Zenon DEF Allocated
    <3>2. Within(region[n], arena')
      BY <1>6, <1>11, <2>2, WithinGrows, Zenon DEF MInv
    <3> QED
      BY <3>1, <3>2, Zenon DEF MInv
  <2> QED
    BY <2>1, <2>2, Zenon
<1>13. ASSUME NEW n \in Allocated', NEW m \in Allocated', m # n
       PROVE  ~Overlap(region'[n], region'[m])
  <2>1. CASE n # k /\ m # k
    <3>1. n \in Allocated /\ m \in Allocated /\ region'[n] = region[n] /\ region'[m] = region[m]
      BY <1>10, <1>11, <2>1, Zenon DEF Allocated
    <3> QED
      BY <1>13, <3>1, Zenon DEF MInv
  <2>2. CASE n = k
    BY <1>7, <1>9, <1>10, <1>11, <1>13, <2>2, FreshDisjoint, Zenon DEF MInv, Allocated
  <2>3. CASE m = k
    BY <1>7, <1>9, <1>10, <1>11, <1>13, <2>3, FreshDisjoint, Zenon DEF MInv, Allocated
  <2> QED
    BY <2>1, <2>2, <2>3, Zenon
<1> QED
  BY <1>6, <1>8, <1>12, <1>13, Zenon DEF MInv

(* Every step keeps the invariant; gets and scans allocate nothing.        *)
LEMMA StepMInv == MInv /\ [Next]_vars => MInv'
<1> SUFFICES ASSUME MInv, [Next]_vars
             PROVE  MInv'
  OBVIOUS
<1>1. ASSUME NEW k \in Keys, PutNew(k)
      PROVE  MInv'
  BY <1>1, PutNewMInv, Zenon
<1>2. ASSUME UNCHANGED <<height, arena, region>>
      PROVE  MInv'
  BY <1>2, Zenon DEF MInv, Allocated
<1>3. ASSUME NEW k \in Keys, PutFound(k)
      PROVE  MInv'
  BY <1>2, <1>3, Zenon DEF PutFound
<1>4. CASE LinkNext
  BY <1>2, <1>4, Zenon DEF LinkNext
<1>5. CASE LinkPublish
  BY <1>2, <1>5, Zenon DEF LinkPublish
<1>6. ASSUME NEW r \in Readers, Seek(r) \/ SeekToFirst(r) \/ Search(r)
                                \/ GetValue(r) \/ IteratorNext(r) \/ ReadReturn(r)
      PROVE  MInv'
  <2>1. UNCHANGED list
    BY <1>6, Zenon DEF Seek, SeekToFirst, Search, GetValue, IteratorNext, ReadReturn, Become
  <2> QED
    BY <1>2, <2>1, Zenon DEF list
<1>7. CASE UNCHANGED vars
  BY <1>2, <1>7, Zenon DEF vars, list
<1> QED
  BY <1>1, <1>3, <1>4, <1>5, <1>6, <1>7, Zenon DEF Next

(* No two nodes of a memtable share memory, and each lies inside its       *)
(* block: Arena::allocate never hands out a byte twice, whatever the sizes *)
(* of blocks, nodes and keys.                                              *)
THEOREM NodesNeverOverlap == Spec => []NodesDisjoint
<1>1. MInv => NodesDisjoint
  <2> SUFFICES ASSUME MInv, NEW n \in Nodes, height[n] > 0
               PROVE  /\ region[n].at + region[n].size <= arena.blocks[region[n].block].size
                      /\ node_size(n, height[n]) <= region[n].size
                      /\ \A m \in Nodes : height[m] > 0 /\ m # n => ~Overlap(region[n], region[m])
    BY Zenon DEF NodesDisjoint
  <2> QED
    BY Zenon DEF MInv, Allocated, Within
<1> QED
  BY <1>1, InitMInv, StepMInv, PTL DEF Spec

-----------------------------------------------------------------------------
(* The nodes linked on a level: those of that height, but for the node a   *)
(* put is linking on the levels it has not reached.                        *)
Linking(n, l) == put.pc # "idle" /\ put.key = n /\ l >= put.level
Chain(l) == {head} \cup {n \in Keys : height[n] > l /\ ~Linking(n, l)}

(* m leads on to the first node of the chain after n.                      *)
Follows(n, l, m) ==
    /\ m \in Chain(l) \cup {nullptr} /\ n < m
    /\ \A x \in Chain(l) : n < x => m <= x

ListTypes ==
    /\ next \in [Nodes -> [Levels -> Nodes]]
    /\ height \in [Nodes -> 0..K_MAX_HEIGHT] /\ max_height \in 1..K_MAX_HEIGHT
    /\ height[nullptr] = 0 /\ height[head] = K_MAX_HEIGHT
    /\ value \in [Nodes -> Nat] /\ puts \in Nat /\ acked \in [Keys -> Nat]
    /\ \A n \in Keys : height[n] <= max_height
    /\ \A n \in Keys : height[n] > 0 => value[n] \in 1..puts

(* Each chain is sorted and complete, and what is not linked leads nowhere.*)
Chains ==
    \A l \in Levels : \A n \in Nodes :
        IF n \in Chain(l) THEN Follows(n, l, next[n][l])
        ELSE \/ next[n][l] = nullptr
             \/ Linking(n, l) /\ l = put.level /\ put.pc = "publish" /\ Follows(n, l, next[n][l])

(* The put in progress knows its place on the levels to come.              *)
PutPlace ==
    \/ put = NoPut
    \/ /\ put \in [pc : {"next", "publish"}, key : Keys, prev : [Levels -> Nodes], level : Levels]
       /\ put.level < height[put.key]
       /\ \A l \in Levels : l >= put.level =>
             put.prev[l] \in Chain(l) /\ put.prev[l] < put.key /\ put.key < next[put.prev[l]][l]
       /\ put.pc = "publish" => Follows(put.key, put.level, next[put.key][put.level])

(* What returned is what is stored.                                        *)
AckedStored == \A k \in Keys : put.key # k => acked[k] = Stored[k]

ListInv == ListTypes /\ Chains /\ PutPlace /\ AckedStored

(* A search is on the level it says, before its key; an iterator is on the *)
(* lowest level and has left nothing behind.                               *)
Read == [pc : {"idle", "search", "value", "at", "returned"}, scan : BOOLEAN, key : 0..N,
         x : Nodes, level : Levels, node : Nodes, result : Nat, seen : SUBSET Nat, visited : SUBSET Nat]

GetInv(s) ==
    ~s.scan =>
        /\ s.pc \in {"search", "value", "returned"}
        /\ s.key \in Keys /\ Stored[s.key] \in s.seen
        /\ s.pc = "value" => s.node = s.key /\ s.node \in Chain(0)
        /\ s.pc = "returned" => s.result \in s.seen
        /\ s.pc # "returned" => s.result = 0

ScanInv(s) ==
    s.scan =>
        /\ s.pc \in {"search", "at", "returned"}
        /\ s.seen \subseteq Chain(0) /\ \A j \in s.seen : j \in Keys /\ s.key <= j
        /\ \A k \in s.visited : k < s.node /\ k >= s.key
        /\ s.pc = "search" => s.visited = {}
        /\ s.pc # "search" => /\ s.node \in Chain(0) \cup {nullptr} /\ s.node # head /\ s.key <= s.node
                              /\ \A j \in s.seen : j \in s.visited \/ s.node <= j
        /\ s.pc = "returned" => s.node = nullptr

SearchInv(s) == s.pc = "search" => s.key \in Keys /\ s.x \in Chain(s.level) /\ s.x < s.key

ReadInv(s) == SearchInv(s) /\ GetInv(s) /\ ScanInv(s)

ReadsInv == read \in [Readers -> Read] /\ \A r \in Readers : read[r] = NoRead \/ ReadInv(read[r])

-----------------------------------------------------------------------------
(* The numbers the nodes and the levels are named by.                      *)
LEMMA Numbers ==
    /\ N \in Nat \ {0} /\ K_MAX_HEIGHT \in Nat \ {0}
    /\ Keys = 1..N /\ Nodes = 0..(N + 1) /\ nullptr = N + 1 /\ head = 0 /\ Levels = 0..(K_MAX_HEIGHT - 1)
    /\ head \in Nodes /\ nullptr \in Nodes /\ Keys \subseteq Nodes /\ Nodes \subseteq Nat /\ Levels \subseteq Nat
  BY MemtableAssumption DEF Keys, Nodes, nullptr, head, Levels

(* A chain has only nodes, and head leads it.                              *)
LEMMA ChainNodes ==
    ASSUME NEW l
    PROVE  head \in Chain(l) /\ Chain(l) \subseteq Nodes \ {nullptr} /\ Chain(l) \subseteq Nat /\ nullptr \notin Chain(l)
  BY Numbers DEF Chain

(* So are the pointers.                                                    *)
LEMMA NextNat ==
    ASSUME ListTypes
    PROVE  \A n \in Nodes, l \in Levels : next[n][l] \in Nodes /\ next[n][l] \in Nat /\ n \in Nat /\ l \in Nat
<1>1. Nodes \subseteq Nat /\ Levels \subseteq Nat
  BY Numbers, Zenon
<1>2. \A n \in Nodes, l \in Levels : next[n][l] \in Nodes
  BY DEF ListTypes
<1> QED
  BY <1>1, <1>2, Zenon

(* Heights are numbers.                                                    *)
LEMMA HeightNat ==
    ASSUME ListTypes
    PROVE  /\ max_height \in Nat /\ Keys \subseteq Nodes
           /\ \A n \in Nodes : height[n] \in Nat /\ height[n] <= K_MAX_HEIGHT
<1>1. K_MAX_HEIGHT \in Nat /\ Keys \subseteq Nodes
  BY Numbers, Zenon
<1> QED
  BY <1>1 DEF ListTypes

(* A set of naturals below a bound has a greatest element.                 *)
LEMMA Greatest ==
    ASSUME NEW b \in Nat, NEW S, S \subseteq 0..b, S # {}
    PROVE  \E x \in S : \A y \in S : y <= x
<1> DEFINE T == {b - y : y \in S}
<1>1. T \subseteq Nat /\ T # {}
  <2>1. \A y \in S : y \in Nat /\ y <= b /\ b - y \in Nat
    OBVIOUS
  <2> QED
    BY <2>1, Zenon
<1>2. IsWellFoundedOn(OpToRel(<,Nat), Nat)
  BY NatLessThanWellFounded, Zenon
<1>3. PICK z \in T : \A y \in T : ~ (<<y, z>> \in OpToRel(<,Nat))
  BY <1>1, <1>2, WFMin, Zenon
<1>4. \A y \in T : ~(y < z)
  BY <1>1, <1>3, Zenon DEF OpToRel
<1>5. PICK x \in S : z = b - x
  BY <1>3, Zenon
<1>6. ASSUME NEW y \in S
      PROVE  y <= x
  <2>1. ~(b - y < b - x)
    BY <1>4, <1>5, Zenon
  <2>2. x \in Nat /\ y \in Nat
    OBVIOUS
  <2> QED
    BY <2>1, <2>2
<1> QED
  BY <1>6, Zenon

(* The last node before k on a level of the chain.                         *)
LEMMA LastExists ==
    ASSUME NEW l, NEW k \in Keys
    PROVE  \E m \in Chain(l) : m < k /\ \A x \in Chain(l) : x < k => x <= m
<1> DEFINE S == {x \in Chain(l) : x < k}
<1>1. S \subseteq 0..k /\ S # {} /\ k \in Nat
  BY ChainNodes, Numbers
<1>2. PICK m \in S : \A y \in S : y <= m
  BY <1>1, Greatest, Zenon
<1> QED
  BY <1>2, Zenon

(* The recursion of find_greater_or_equal on one level and from level to   *)
(* level.                                                                  *)
Loop(k, l, f) ==
    [n \in Nodes |-> IF key_is_after_node(k, next[n][l]) THEN f[next[n][l]] ELSE n]
Descent(k, f) ==
    [l \in Levels |-> IF l >= max_height THEN head
                      ELSE LastOn(k, l)[IF l = K_MAX_HEIGHT - 1 THEN head ELSE f[l + 1]]]

(* find_greater_or_equal finds, on every level, the last node before k.    *)
LEMMA PrevIs ==
    ASSUME ListTypes, Chains, put = NoPut, NEW k \in Keys
    PROVE  /\ Prev(k) \in [Levels -> Nodes]
           /\ \A l \in Levels : Prev(k)[l] \in Chain(l) /\ Prev(k)[l] < k /\ k <= next[Prev(k)[l]][l]
<1> DEFINE M(l) == CHOOSE m \in Chain(l) : m < k /\ \A x \in Chain(l) : x < k => x <= m
           prev == CHOOSE f : f = Descent(k, f)
<1>1. \A l : M(l) \in Chain(l) /\ M(l) < k /\ \A x \in Chain(l) : x < k => x <= M(l)
  BY LastExists, Zenon
<1> HIDE DEF M
<1>2. /\ k \in Nat /\ k \in Nodes /\ k < nullptr /\ nullptr \in Nat /\ Nodes \subseteq Nat /\ Levels \subseteq Nat
      /\ \A l : Chain(l) \subseteq Nat /\ Chain(l) \subseteq Nodes /\ nullptr \notin Chain(l)
      /\ next \in [Nodes -> [Levels -> Nodes]]
  <2>1. k \in Nat /\ k \in Nodes /\ k < nullptr /\ nullptr \in Nat /\ Nodes \subseteq Nat /\ Levels \subseteq Nat
    BY Numbers
  <2>2. next \in [Nodes -> [Levels -> Nodes]]
    BY Zenon DEF ListTypes
  <2> QED
    BY <2>1, <2>2, ChainNodes, Zenon
<1>3. \A n, l : ~Linking(n, l)
  BY Zenon DEF NoPut, Linking
<1>4. ASSUME NEW l \in Levels, NEW n \in Chain(l), n < k
      PROVE  IF key_is_after_node(k, next[n][l]) THEN next[n][l] \in Chain(l) /\ n < next[n][l] /\ next[n][l] < k
             ELSE n = M(l) /\ k <= next[n][l]
  <2>1. Follows(n, l, next[n][l])
    BY <1>2, <1>4, Zenon DEF Chains
  <2>2. next[n][l] \in Nodes /\ next[n][l] \in Nat /\ n \in Nat /\ M(l) \in Nat
    BY <1>1, <1>2, <1>4, Zenon
  <2>3. CASE key_is_after_node(k, next[n][l])
    BY <2>1, <2>3, Zenon DEF Follows, key_is_after_node
  <2>4. CASE ~key_is_after_node(k, next[n][l])
    <3>1. k <= next[n][l]
      BY <1>2, <2>2, <2>4 DEF key_is_after_node
    <3>2. M(l) \in Chain(l) /\ M(l) < k /\ n <= M(l)
      BY <1>1, <1>4, Zenon
    <3>3. ~(n < M(l))
      BY <1>2, <2>1, <2>2, <3>1, <3>2 DEF Follows
    <3> QED
      BY <2>2, <2>4, <3>1, <3>2, <3>3
  <2> QED
    BY <2>3, <2>4, Zenon
<1>5. ASSUME NEW l \in Levels, NEW n \in Nodes, ~(n \in Chain(l) /\ n < k)
      PROVE  ~key_is_after_node(k, next[n][l])
  <2>1. next[n][l] \in Nat /\ n \in Nat
    BY <1>2, Zenon
  <2>2. CASE n \in Chain(l)
    <3>1. n < next[n][l] /\ k <= n
      BY <1>2, <1>5, <2>1, <2>2 DEF Chains, Follows
    <3> QED
      BY <1>2, <2>1, <3>1 DEF key_is_after_node
  <2>3. CASE n \notin Chain(l)
    BY <1>3, <2>3, Zenon DEF Chains, key_is_after_node
  <2> QED
    BY <2>2, <2>3, Zenon
<1>6. ASSUME NEW l \in Levels
      PROVE  LastOn(k, l) = Loop(k, l, LastOn(k, l))
  <2> DEFINE g == [n \in Nodes |-> IF n \in Chain(l) /\ n < k THEN M(l) ELSE n]
  <2>1. ASSUME NEW n \in Nodes
        PROVE  g[n] = IF key_is_after_node(k, next[n][l]) THEN g[next[n][l]] ELSE n
    <3>1. next[n][l] \in Nodes
      BY <1>2, Zenon
    <3>2. CASE n \in Chain(l) /\ n < k
      BY <1>4, <3>1, <3>2, Zenon
    <3>3. CASE ~(n \in Chain(l) /\ n < k)
      BY <1>5, <3>3, Zenon
    <3> QED
      BY <3>2, <3>3, Zenon
  <2>2. g = [n \in Nodes |-> IF key_is_after_node(k, next[n][l]) THEN g[next[n][l]] ELSE n]
    BY <2>1, Zenon
  <2> HIDE DEF g
  <2>3. g = Loop(k, l, g)
    BY <2>2, Zenon DEF Loop
  <2>4. LastOn(k, l) = CHOOSE f : f = Loop(k, l, f)
    BY Zenon DEF LastOn, Loop
  <2> QED
    BY <2>3, <2>4, Zenon
<1>7. ASSUME NEW n \in Nodes, NEW l \in Levels
      PROVE  LastOn(k, l)[n] = IF key_is_after_node(k, next[n][l]) THEN LastOn(k, l)[next[n][l]] ELSE n
  BY <1>6, Zenon DEF Loop
<1>8. ASSUME NEW l \in Levels, NEW n \in Chain(l), n < k
      PROVE  LastOn(k, l)[n] = M(l)
  <2> DEFINE Bad == {x \in Chain(l) : x < k /\ LastOn(k, l)[x] # M(l)}
  <2>1. SUFFICES ASSUME Bad # {}
                 PROVE  FALSE
    BY <1>8, Zenon
  <2>2. Bad \subseteq 0..k
    BY <1>2
  <2>3. PICK x \in Bad : \A y \in Bad : y <= x
    BY <1>2, <2>1, <2>2, Greatest, Zenon
  <2>4. x \in Nodes /\ x \in Nat /\ x \in Chain(l) /\ x < k
    BY <1>2, <2>3, Zenon
  <2>5. LastOn(k, l)[x] = IF key_is_after_node(k, next[x][l]) THEN LastOn(k, l)[next[x][l]] ELSE x
    BY <1>7, <2>4, Zenon
  <2>6. CASE key_is_after_node(k, next[x][l])
    <3>1. next[x][l] \in Chain(l) /\ x < next[x][l] /\ next[x][l] < k /\ next[x][l] \in Nat
      BY <1>2, <1>4, <2>4, <2>6, Zenon
    <3>2. next[x][l] \notin Bad
      BY <2>3, <2>4, <3>1
    <3> QED
      BY <2>3, <2>5, <2>6, <3>1, <3>2, Zenon
  <2>7. CASE ~key_is_after_node(k, next[x][l])
    BY <1>4, <2>3, <2>4, <2>5, <2>7, Zenon
  <2> QED
    BY <2>6, <2>7, Zenon
<1>9. \A l \in Levels : l >= max_height => M(l) = head
  <2>1. ASSUME NEW l \in Levels, l >= max_height
        PROVE  Chain(l) = {head}
    <3>1. \A n \in Keys : ~(height[n] > l)
      BY <1>2, <2>1, HeightNat DEF ListTypes
    <3> QED
      BY <3>1, Zenon DEF Chain
  <2> QED
    BY <1>1, <2>1
<1>10. ASSUME NEW l \in Levels
       PROVE  LastOn(k, l)[IF l = K_MAX_HEIGHT - 1 THEN head ELSE M(l + 1)] = M(l)
  <2>1. head \in Chain(l) /\ head < k
    BY ChainNodes, Numbers
  <2>2. ASSUME l # K_MAX_HEIGHT - 1
        PROVE  M(l + 1) \in Chain(l) /\ M(l + 1) < k
    <3>1. l \in Nat /\ M(l + 1) \in Chain(l + 1) /\ M(l + 1) < k
      BY <1>1, <1>2, Zenon
    <3>2. \A n \in Keys : height[n] > l + 1 => height[n] > l
      BY <3>1, HeightNat
    <3> QED
      BY <1>3, <3>1, <3>2, Zenon DEF Chain
  <2> QED
    BY <1>8, <2>1, <2>2, Zenon
<1>11. prev = Descent(k, prev)
  <2> DEFINE g == [l \in Levels |-> M(l)]
  <2>1. ASSUME NEW l \in Levels
        PROVE  g[l] = IF l >= max_height THEN head
                      ELSE LastOn(k, l)[IF l = K_MAX_HEIGHT - 1 THEN head ELSE g[l + 1]]
    <3>1. l # K_MAX_HEIGHT - 1 => l + 1 \in Levels
      BY Numbers
    <3> QED
      BY <1>9, <1>10, <3>1, Zenon
  <2>2. g = [l \in Levels |-> IF l >= max_height THEN head
                             ELSE LastOn(k, l)[IF l = K_MAX_HEIGHT - 1 THEN head ELSE g[l + 1]]]
    BY <2>1, Zenon
  <2> HIDE DEF g
  <2>3. g = Descent(k, g)
    BY <2>2, Zenon DEF Descent
  <2> QED
    BY <2>3, Zenon
<1> HIDE DEF prev
<1>12. ASSUME NEW l \in Levels
       PROVE  prev[l] = M(l)
  <2> DEFINE Bad == {x \in Levels : prev[x] # M(x)}
  <2>1. SUFFICES ASSUME Bad # {}
                 PROVE  FALSE
    OBVIOUS
  <2>2. K_MAX_HEIGHT \in Nat /\ Bad \subseteq 0..K_MAX_HEIGHT
    BY Numbers
  <2>3. PICK x \in Bad : \A y \in Bad : y <= x
    BY <2>1, <2>2, Greatest, Zenon
  <2>4. prev[x] = IF x >= max_height THEN head
                  ELSE LastOn(k, x)[IF x = K_MAX_HEIGHT - 1 THEN head ELSE prev[x + 1]]
    BY <1>11, <2>3, Zenon DEF Descent
  <2>5. x # K_MAX_HEIGHT - 1 => prev[x + 1] = M(x + 1)
    <3>1. x \in Nat /\ x + 1 > x
      BY <1>2, <2>3
    <3>2. x # K_MAX_HEIGHT - 1 => x + 1 \in Levels /\ x + 1 \notin Bad
      BY <2>3, <3>1, Numbers
    <3> QED
      BY <3>2, Zenon
  <2>6. prev[x] = M(x)
    BY <1>9, <1>10, <2>3, <2>4, <2>5, Zenon
  <2> QED
    BY <2>3, <2>6, Zenon
<1>13. Prev(k) = [l \in Levels |-> M(l)]
  <2>1. Prev(k) = [l \in Levels |-> prev[l]]
    BY Zenon DEF Prev, Descent, prev
  <2> QED
    BY <1>12, <2>1, Zenon
<1>14. ASSUME NEW l \in Levels
       PROVE  k <= next[M(l)][l]
  <2>1. M(l) \in Chain(l) /\ M(l) < k /\ M(l) \in Nat
    BY <1>1, <1>2, Zenon
  <2>2. CASE key_is_after_node(k, next[M(l)][l])
    <3>1. next[M(l)][l] \in Chain(l) /\ M(l) < next[M(l)][l] /\ next[M(l)][l] < k /\ next[M(l)][l] \in Nat
      BY <1>2, <1>4, <2>1, <2>2, Zenon
    <3>2. next[M(l)][l] <= M(l)
      BY <1>1, <3>1, Zenon
    <3> QED
      BY <2>1, <3>1, <3>2
  <2>3. CASE ~key_is_after_node(k, next[M(l)][l])
    BY <1>4, <2>1, <2>3, Zenon
  <2> QED
    BY <2>2, <2>3, Zenon
<1> QED
  BY <1>1, <1>2, <1>13, <1>14, Zenon

(* A key is on a level's chain exactly when something leads to it.         *)
LEMMA OnChain ==
    ASSUME ListTypes, Chains, NEW l \in Levels, NEW k \in Keys
    PROVE  (\E m \in Nodes : height[m] > l /\ next[m][l] = k) <=> k \in Chain(l)
<1>1. k \in Nat /\ k # nullptr /\ k \in Nodes
  BY Numbers
<1>2. ASSUME NEW m \in Nodes, height[m] > l, next[m][l] = k
      PROVE  k \in Chain(l)
  <2>1. CASE m \in Chain(l)
    BY <1>1, <1>2, <2>1, Zenon DEF Chains, Follows
  <2>2. CASE m \notin Chain(l)
    BY <1>1, <1>2, <2>2, Zenon DEF Chains, Follows
  <2> QED
    BY <2>1, <2>2, Zenon
<1>3. ASSUME k \in Chain(l)
      PROVE  \E m \in Nodes : height[m] > l /\ next[m][l] = k
  <2>1. PICK m \in Chain(l) : m < k /\ \A x \in Chain(l) : x < k => x <= m
    BY LastExists, Zenon
  <2>2. m \in Nodes /\ m \in Nat /\ next[m][l] \in Nat
    BY ChainNodes, NextNat, Zenon
  <2>3. Follows(m, l, next[m][l])
    BY <2>2, Zenon DEF Chains
  <2>4. next[m][l] <= k
    BY <1>3, <2>1, <2>3, Zenon DEF Follows
  <2>5. ~(next[m][l] < k)
    <3>1. SUFFICES ASSUME next[m][l] < k
                   PROVE  FALSE
      OBVIOUS
    <3>2. next[m][l] \in Chain(l) /\ m < next[m][l]
      BY <1>1, <2>3, <3>1, Numbers DEF Follows
    <3> QED
      BY <2>1, <2>2, <3>1, <3>2
  <2>6. height[m] > l
    <3>1. CASE m = head
      BY <3>1, Numbers DEF ListTypes
    <3>2. CASE m # head
      BY <2>1, <3>2, Zenon DEF Chain
    <3> QED
      BY <3>1, <3>2, Zenon
  <2>7. next[m][l] = k
    BY <1>1, <2>2, <2>4, <2>5
  <2> QED
    BY <2>2, <2>6, <2>7, Zenon
<1> QED
  BY <1>2, <1>3, Zenon

(* What the readers can reach is the lowest chain.                         *)
LEMMA StoredIs == ListTypes /\ Chains => Stored = [k \in Keys |-> IF k \in Chain(0) THEN value[k] ELSE 0]
<1> SUFFICES ASSUME ListTypes, Chains
             PROVE  Stored = [k \in Keys |-> IF k \in Chain(0) THEN value[k] ELSE 0]
  OBVIOUS
<1>1. 0 \in Levels
  BY Numbers
<1>2. \A k \in Keys : Linked(k) <=> k \in Chain(0)
  BY <1>1, OnChain, Zenon DEF Linked
<1> QED
  BY <1>2, Zenon DEF Stored

LEMMA StoredIsNext == (ListTypes /\ Chains)' => Stored' = [k \in Keys |-> IF k \in Chain(0)' THEN value'[k] ELSE 0]
<1>1. (ListTypes /\ Chains)' => (Stored = [k \in Keys |-> IF k \in Chain(0) THEN value[k] ELSE 0])'
  BY StoredIs, PTL
<1> QED
  BY <1>1, Zenon

-----------------------------------------------------------------------------
(* An empty list.                                                          *)
LEMMA InitListInv == Init => ListInv
<1> SUFFICES ASSUME Init
             PROVE  ListInv
  OBVIOUS
<1>1. /\ next = [n \in Nodes |-> [l \in Levels |-> nullptr]]
      /\ height = [n \in Nodes |-> IF n = head THEN K_MAX_HEIGHT ELSE 0]
      /\ value = [n \in Nodes |-> 0] /\ max_height = 1
      /\ put = NoPut /\ puts = 0 /\ acked = [k \in Keys |-> 0]
  BY Zenon DEF Init
<1>2. \A n \in Keys : height[n] = 0 /\ n # head /\ n \in Nodes
  BY <1>1, Numbers
<1>3. \A l \in Levels : Chain(l) = {head}
  BY <1>2, Numbers DEF Chain
<1>4. ListTypes
  <2>1. next \in [Nodes -> [Levels -> Nodes]]
    BY <1>1, Numbers, Zenon
  <2>2. height \in [Nodes -> 0..K_MAX_HEIGHT] /\ 1 \in 1..K_MAX_HEIGHT
    BY <1>1, MemtableAssumption
  <2>3. height[nullptr] = 0 /\ height[head] = K_MAX_HEIGHT
    BY <1>1, Numbers
  <2> QED
    BY <1>1, <1>2, <2>1, <2>2, <2>3 DEF ListTypes
<1>5. Chains
  <2>1. \A n \in Nodes, l \in Levels : next[n][l] = nullptr
    BY <1>1, Zenon
  <2>2. \A l \in Levels : Follows(head, l, nullptr)
    BY <1>3, Numbers DEF Follows
  <2> QED
    BY <1>3, <2>1, <2>2, Zenon DEF Chains
<1>6. AckedStored
  <2>1. \A k \in Keys : value[k] = 0 /\ acked[k] = 0
    BY <1>1, <1>2, Zenon
  <2> QED
    BY <1>4, <1>5, <2>1, StoredIs, Zenon DEF AckedStored
<1> QED
  BY <1>1, <1>4, <1>5, <1>6, Zenon DEF ListInv, PutPlace

(* Replacing a pointer (put of a key the list holds) moves no node.        *)
LEMMA PutFoundList ==
    ASSUME ListInv, NEW k \in Keys, PutFound(k)
    PROVE  /\ ListInv' /\ \A l : Chain(l)' = Chain(l)
           /\ k \in Chain(0) /\ Stored' = [Stored EXCEPT ![k] = puts'] /\ Stored[k] < puts'
<1>1. /\ put.pc = "idle" /\ next[Prev(k)[0]][0] = k /\ puts' = puts + 1
      /\ value' = [value EXCEPT ![k] = puts'] /\ acked' = [acked EXCEPT ![k] = puts']
      /\ UNCHANGED <<next, height, max_height, put>>
  BY Zenon DEF PutFound
<1>2. put = NoPut
  BY <1>1, Zenon DEF ListInv, PutPlace
<1>3. 0 \in Levels /\ k \in Nodes /\ k # nullptr
  BY Numbers
<1>4. k \in Chain(0)
  <2>1. Prev(k)[0] \in Chain(0)
    BY <1>2, <1>3, PrevIs, Zenon DEF ListInv
  <2>2. Follows(Prev(k)[0], 0, k)
    BY <1>1, <1>3, <2>1, ChainNodes, Zenon DEF ListInv, Chains
  <2> QED
    BY <1>3, <2>2, Zenon DEF Follows
<1>5. \A l : Chain(l)' = Chain(l)
  BY <1>1, Zenon DEF Chain, Linking
<1>6. value \in [Nodes -> Nat] /\ puts \in Nat /\ puts' \in Nat /\ acked \in [Keys -> Nat]
  BY <1>1 DEF ListInv, ListTypes
<1>7. value'[k] = puts' /\ \A n \in Nodes \ {k} : value'[n] = value[n]
  BY <1>1, <1>3, <1>6, Zenon
<1>8. ListTypes'
  <2>1. value' \in [Nodes -> Nat] /\ acked' \in [Keys -> Nat]
    BY <1>1, <1>6, Zenon
  <2>2. ASSUME NEW n \in Keys, height[n] > 0
        PROVE  value'[n] \in 1..puts'
    <3>1. n \in Nodes
      BY Numbers, Zenon
    <3>2. CASE n = k
      BY <1>1, <1>6, <1>7, <3>2
    <3>3. CASE n # k
      <4>1. value[n] \in 1..puts /\ value'[n] = value[n]
        BY <1>7, <2>2, <3>1, <3>3, Zenon DEF ListInv, ListTypes
      <4> QED
        BY <1>1, <1>6, <4>1
    <3> QED
      BY <3>2, <3>3, Zenon
  <2> QED
    BY <1>1, <1>6, <2>1, <2>2, Zenon DEF ListInv, ListTypes
<1>9. Chains'
  BY <1>1, <1>5, Zenon DEF ListInv, Chains, Follows, Linking
<1>10. PutPlace'
  BY <1>1, <1>2, Zenon DEF PutPlace
<1>11. Stored' = [Stored EXCEPT ![k] = puts']
  <2>1. Stored = [j \in Keys |-> IF j \in Chain(0) THEN value[j] ELSE 0]
    BY StoredIs, Zenon DEF ListInv
  <2>2. Stored' = [j \in Keys |-> IF j \in Chain(0) THEN value'[j] ELSE 0]
    BY <1>5, <1>8, <1>9, StoredIsNext, Zenon
  <2>3. \A j \in Keys : Stored'[j] = IF j = k THEN puts' ELSE Stored[j]
    BY <1>4, <1>7, <2>1, <2>2, Numbers, Zenon
  <2> QED
    BY <2>1, <2>2, <2>3, Zenon
<1>12. Stored[k] < puts'
  <2>1. Stored[k] = value[k]
    BY <1>4, StoredIs, Zenon DEF ListInv
  <2>2. height[k] > 0
    BY <1>4, Numbers DEF Chain
  <2>3. value[k] \in 1..puts
    BY <2>2, Zenon DEF ListInv, ListTypes
  <2> QED
    BY <1>1, <1>6, <2>1, <2>3
<1>13. AckedStored'
  <2>1. ASSUME NEW j \in Keys
        PROVE  acked'[j] = Stored'[j]
    <3>1. acked[j] = Stored[j]
      BY <1>2, Numbers DEF ListInv, AckedStored, NoPut
    <3>2. Stored \in [Keys -> Nat]
      BY <1>6, StoredIs, Numbers, Zenon DEF ListInv
    <3> QED
      BY <1>1, <1>6, <1>11, <3>1, <3>2, Zenon
  <2> QED
    BY <2>1, Zenon DEF AckedStored
<1> QED
  BY <1>4, <1>5, <1>8, <1>9, <1>10, <1>11, <1>12, <1>13, Zenon DEF ListInv

(* A put of a new key allocates its node and finds its place; no reader    *)
(* can reach it.                                                           *)
LEMMA PutNewList ==
    ASSUME ListInv, NEW k \in Keys, PutNew(k)
    PROVE  ListInv' /\ Stored' = Stored /\ \A l \in Levels : Chain(l)' = Chain(l)
<1>1. /\ put.pc = "idle" /\ next[Prev(k)[0]][0] # k /\ puts' = puts + 1
      /\ value' = [value EXCEPT ![k] = puts']
      /\ put' = [pc |-> "next", key |-> k, prev |-> Prev(k), level |-> 0]
      /\ UNCHANGED <<next, acked>>
  BY Zenon DEF PutNew
<1>2. PICK h \in random_height : /\ max_height' = IF h > max_height THEN h ELSE max_height
                                 /\ height' = [height EXCEPT ![k] = h]
  BY Zenon DEF PutNew
<1>3. put = NoPut
  BY <1>1, Zenon DEF ListInv, PutPlace
<1>4. 0 \in Levels /\ k \in Nodes /\ k # nullptr /\ k # head /\ K_MAX_HEIGHT \in Nat /\ h \in 1..K_MAX_HEIGHT
  BY Numbers DEF random_height
<1>5. /\ Prev(k) \in [Levels -> Nodes]
      /\ \A l \in Levels : Prev(k)[l] \in Chain(l) /\ Prev(k)[l] < k /\ k <= next[Prev(k)[l]][l]
  BY <1>3, PrevIs, Zenon DEF ListInv
<1>6. k \notin Chain(0)
  <2>1. Follows(Prev(k)[0], 0, next[Prev(k)[0]][0])
    BY <1>4, <1>5, ChainNodes, Zenon DEF ListInv, Chains
  <2>2. k \in Chain(0) => next[Prev(k)[0]][0] <= k
    BY <1>4, <1>5, <2>1, Zenon DEF Follows
  <2>3. next[Prev(k)[0]][0] \in Nat /\ k \in Nat
    BY <1>4, <1>5, NextNat, Numbers, Zenon DEF ListInv
  <2> QED
    BY <1>1, <1>4, <1>5, <2>2, <2>3
<1>7. height[k] = 0
  <2>1. ~(height[k] > 0)
    BY <1>3, <1>6, Zenon DEF Chain, Linking, NoPut
  <2> QED
    BY <1>4, <2>1, HeightNat DEF ListInv
<1>8. height'[k] = h /\ \A n \in Nodes \ {k} : height'[n] = height[n]
  BY <1>2, <1>4, Zenon DEF ListInv, ListTypes
<1>9. \A l \in Levels : Chain(l)' = Chain(l) /\ k \notin Chain(l)
  <2>1. \A l \in Levels : \A n : Linking(n, l)' <=> n = k
    BY <1>1, Numbers DEF Linking
  <2>2. \A l \in Levels : ~(height[k] > l)
    BY <1>7, Numbers
  <2>3. \A n, l : ~Linking(n, l)
    BY <1>3, Zenon DEF NoPut, Linking
  <2>4. Keys \subseteq Nodes
    BY Numbers, Zenon
  <2> QED
    BY <1>4, <1>8, <2>1, <2>2, <2>3, <2>4 DEF Chain
<1>10. value \in [Nodes -> Nat] /\ puts \in Nat /\ puts' \in Nat
  BY <1>1 DEF ListInv, ListTypes
<1>11. value'[k] = puts' /\ \A n \in Nodes \ {k} : value'[n] = value[n]
  BY <1>1, <1>4, <1>10, Zenon
<1>12. ListTypes'
  <2>1. value' \in [Nodes -> Nat]
    BY <1>1, <1>10, Zenon
  <2>2. height' \in [Nodes -> 0..K_MAX_HEIGHT] /\ max_height' \in 1..K_MAX_HEIGHT
    BY <1>2, <1>4 DEF ListInv, ListTypes
  <2>3. height'[nullptr] = 0 /\ height'[head] = K_MAX_HEIGHT
    <3>1. nullptr \in Nodes \ {k} /\ head \in Nodes \ {k}
      BY <1>4, Numbers, Zenon
    <3> QED
      BY <1>8, <3>1, Zenon DEF ListInv, ListTypes
  <2>4. ASSUME NEW n \in Keys
        PROVE  height'[n] <= max_height' /\ (height'[n] > 0 => value'[n] \in 1..puts')
    <3>1. n \in Nodes
      BY Numbers, Zenon
    <3>2. CASE n = k
      BY <1>1, <1>2, <1>4, <1>8, <1>10, <1>11, <3>2, HeightNat DEF ListInv
    <3>3. CASE n # k
      <4>1. height'[n] = height[n] /\ value'[n] = value[n] /\ height[n] \in Nat /\ max_height \in Nat
        BY <1>8, <1>11, <3>1, <3>3, HeightNat, Zenon DEF ListInv
      <4>2. height[n] <= max_height /\ (height[n] > 0 => value[n] \in 1..puts)
        BY Zenon DEF ListInv, ListTypes
      <4> QED
        BY <1>1, <1>2, <1>4, <1>10, <4>1, <4>2
    <3> QED
      BY <3>2, <3>3, Zenon
  <2> QED
    BY <1>1, <1>10, <2>1, <2>2, <2>3, <2>4, Zenon DEF ListInv, ListTypes
<1>13. Chains'
  <2>1. ASSUME NEW l \in Levels, NEW n \in Nodes
        PROVE  IF n \in Chain(l) THEN Follows(n, l, next[n][l]) ELSE next[n][l] = nullptr
    BY <1>3, Zenon DEF ListInv, Chains, NoPut, Linking
  <2>2. \A l \in Levels : \A n, m : Follows(n, l, m)' <=> Follows(n, l, m)
    BY <1>9, Zenon DEF Follows
  <2> QED
    BY <1>1, <1>9, <2>1, <2>2, Zenon DEF Chains
<1>14. PutPlace'
  <2>1. put' \in [pc : {"next", "publish"}, key : Keys, prev : [Levels -> Nodes], level : Levels]
    BY <1>1, <1>4, <1>5, Zenon
  <2>2. put'.pc = "next" /\ put'.key = k /\ put'.prev = Prev(k) /\ put'.level = 0
    BY <1>1, Zenon
  <2>3. ASSUME NEW l \in Levels
        PROVE  k < next[Prev(k)[l]][l]
    <3>1. Follows(Prev(k)[l], l, next[Prev(k)[l]][l])
      BY <1>5, ChainNodes, Zenon DEF ListInv, Chains
    <3>2. next[Prev(k)[l]][l] # k
      BY <1>4, <1>9, <3>1, Zenon DEF Follows
    <3>3. next[Prev(k)[l]][l] \in Nat /\ k \in Nat
      BY <1>5, NextNat, Numbers, Zenon DEF ListInv
    <3> QED
      BY <1>5, <3>2, <3>3
  <2>4. 0 < height'[k]
    BY <1>4, <1>8
  <2> HIDE DEF PutPlace
  <2>5. \A l \in Levels : put'.prev[l] \in Chain(l)' /\ put'.prev[l] < put'.key /\ put'.key < next'[put'.prev[l]][l]
    BY <1>1, <1>5, <1>9, <2>2, <2>3, Zenon
  <2> QED
    BY <2>1, <2>2, <2>4, <2>5, Zenon DEF PutPlace
<1>15. Stored' = Stored
  <2>1. Stored = [j \in Keys |-> IF j \in Chain(0) THEN value[j] ELSE 0]
    BY StoredIs, Zenon DEF ListInv
  <2>2. Stored' = [j \in Keys |-> IF j \in Chain(0) THEN value'[j] ELSE 0]
    BY <1>4, <1>9, <1>12, <1>13, StoredIsNext, Zenon
  <2>3. \A j \in Keys : j \in Chain(0) => value'[j] = value[j]
    BY <1>4, <1>9, <1>11, Numbers, Zenon
  <2> QED
    BY <2>1, <2>2, <2>3, Zenon
<1>16. AckedStored'
  BY <1>1, <1>3, <1>15, Numbers DEF ListInv, AckedStored, NoPut
<1> QED
  BY <1>9, <1>12, <1>13, <1>14, <1>15, <1>16, Zenon DEF ListInv

(* The put in progress, taken apart.                                       *)
LEMMA PutParts ==
    ASSUME ListInv, put.pc # "idle"
    PROVE  /\ put \in [pc : {"next", "publish"}, key : Keys, prev : [Levels -> Nodes], level : Levels]
           /\ put.key \in Keys /\ put.key \in Nodes /\ put.key \in Nat /\ put.key # head /\ put.key # nullptr
           /\ put.level \in Levels /\ put.level \in Nat /\ put.level < height[put.key]
           /\ put.key \notin Chain(put.level)
           /\ \A l \in Levels : l >= put.level =>
                 /\ put.prev[l] \in Chain(l) /\ put.prev[l] \in Nodes /\ put.prev[l] \in Nat
                 /\ put.prev[l] < put.key /\ put.key < next[put.prev[l]][l]
                 /\ Follows(put.prev[l], l, next[put.prev[l]][l])
           /\ put.pc = "publish" => Follows(put.key, put.level, next[put.key][put.level])
<1>1. /\ put \in [pc : {"next", "publish"}, key : Keys, prev : [Levels -> Nodes], level : Levels]
      /\ put.level < height[put.key]
      /\ \A l \in Levels : l >= put.level =>
            put.prev[l] \in Chain(l) /\ put.prev[l] < put.key /\ put.key < next[put.prev[l]][l]
      /\ put.pc = "publish" => Follows(put.key, put.level, next[put.key][put.level])
  BY SMTT(20) DEF ListInv, PutPlace, NoPut
<1>2. put.key \in Keys /\ put.level \in Levels
  BY <1>1, Zenon
<1>3. put.key \in Nodes /\ put.key \in Nat /\ put.key # head /\ put.key # nullptr /\ put.level \in Nat
  BY <1>2, Numbers
<1>4. put.key \notin Chain(put.level)
  BY <1>2, <1>3 DEF Chain, Linking
<1>5. \A l \in Levels : l >= put.level =>
         /\ put.prev[l] \in Nodes /\ put.prev[l] \in Nat /\ Follows(put.prev[l], l, next[put.prev[l]][l])
  BY <1>1, ChainNodes, Zenon DEF ListInv, Chains
<1> QED
  BY <1>1, <1>2, <1>3, <1>4, <1>5, Zenon

(* The new node's own pointer: nothing leads to it yet.                    *)
LEMMA LinkNextList ==
    ASSUME ListInv, LinkNext
    PROVE  ListInv' /\ Stored' = Stored /\ \A l : Chain(l)' = Chain(l)
<1> DEFINE p == put.key
           L == put.level
           q == next[put.prev[L]][L]
<1>1. /\ put.pc = "next" /\ next' = [next EXCEPT ![p][L] = q]
      /\ put' = [put EXCEPT !.pc = "publish"]
      /\ UNCHANGED <<height, value, max_height, puts, acked>>
  BY Zenon DEF LinkNext
<1>2. /\ put \in [pc : {"next", "publish"}, key : Keys, prev : [Levels -> Nodes], level : Levels]
      /\ p \in Keys /\ p \in Nodes /\ p \in Nat /\ L \in Levels /\ L \in Nat /\ L < height[p] /\ p \notin Chain(L)
      /\ \A l \in Levels : l >= L =>
            /\ put.prev[l] \in Chain(l) /\ put.prev[l] \in Nodes /\ put.prev[l] \in Nat
            /\ put.prev[l] < p /\ p < next[put.prev[l]][l]
            /\ Follows(put.prev[l], l, next[put.prev[l]][l])
  BY <1>1, PutParts, Zenon
<1>3. /\ put' \in [pc : {"next", "publish"}, key : Keys, prev : [Levels -> Nodes], level : Levels]
      /\ put'.pc = "publish" /\ put'.key = p /\ put'.prev = put.prev /\ put'.level = L
  BY <1>1, <1>2, Zenon
<1>4. next \in [Nodes -> [Levels -> Nodes]]
  BY Zenon DEF ListInv, ListTypes
<1>5. /\ next' \in [Nodes -> [Levels -> Nodes]] /\ next'[p][L] = q
      /\ \A n \in Nodes, l \in Levels : n # p \/ l # L => next'[n][l] = next[n][l]
  BY <1>1, <1>2, <1>4
<1>6. \A l : Chain(l)' = Chain(l)
  <2>1. \A n, l : Linking(n, l)' <=> Linking(n, l)
    BY <1>1, <1>3, Zenon DEF Linking
  <2> QED
    BY <1>1, <2>1, Zenon DEF Chain
<1>7. \A n, l, m : Follows(n, l, m)' <=> Follows(n, l, m)
  BY <1>6, Zenon DEF Follows
<1>8. ListTypes'
  BY <1>1, <1>5, Zenon DEF ListInv, ListTypes
<1>9. Follows(p, L, q)
  <2>1. L >= L
    BY <1>2
  <2>2. Follows(put.prev[L], L, q) /\ put.prev[L] < p /\ p < q /\ put.prev[L] \in Nat
    BY <1>2, <2>1, Zenon
  <2>3. \A x \in Chain(L) : p < x => put.prev[L] < x
    BY <1>2, <2>2, ChainNodes
  <2> HIDE DEF p, q, L
  <2> QED
    BY <2>2, <2>3, Zenon DEF Follows
<1>10. Chains'
  <2>1. ASSUME NEW l \in Levels, NEW n \in Nodes
        PROVE  IF n \in Chain(l) THEN Follows(n, l, next'[n][l])
               ELSE \/ next'[n][l] = nullptr
                    \/ Linking(n, l) /\ l = L /\ Follows(n, l, next'[n][l])
    <3>1. CASE n \in Chain(l)
      <4>1. n # p \/ l # L
        BY <1>2, <3>1, Zenon
      <4>2. next'[n][l] = next[n][l]
        BY <1>5, <4>1, Zenon
      <4> QED
        BY <3>1, <4>2, Zenon DEF ListInv, Chains
    <3>2. CASE n \notin Chain(l) /\ n = p /\ l = L
      <4>1. Linking(p, L)
        BY <1>1, <1>2 DEF Linking
      <4> QED
        BY <1>5, <1>9, <3>2, <4>1, Zenon
    <3>3. CASE n \notin Chain(l) /\ (n # p \/ l # L)
      <4>1. next'[n][l] = next[n][l]
        BY <1>5, <3>3, Zenon
      <4> QED
        BY <1>1, <3>3, <4>1, Zenon DEF ListInv, Chains
    <3> QED
      BY <3>1, <3>2, <3>3, Zenon
  <2>2. \A n, l : Linking(n, l)' <=> Linking(n, l)
    BY <1>1, <1>3, Zenon DEF Linking
  <2> QED
    BY <1>3, <1>6, <1>7, <2>1, <2>2, Zenon DEF Chains
<1>11. PutPlace'
  <2>1. ASSUME NEW l \in Levels, l >= L
        PROVE  next'[put.prev[l]][l] = next[put.prev[l]][l]
    <3>1. put.prev[l] \in Nodes /\ put.prev[l] < p /\ put.prev[l] \in Nat
      BY <1>2, <2>1, Zenon
    <3>2. put.prev[l] # p
      BY <1>2, <3>1
    <3> QED
      BY <1>5, <3>1, <3>2, Zenon
  <2>2. \A l \in Levels : l >= put'.level =>
           put'.prev[l] \in Chain(l)' /\ put'.prev[l] < put'.key /\ put'.key < next'[put'.prev[l]][l]
    BY <1>2, <1>3, <1>6, <2>1, Zenon
  <2>3. Follows(put.key, put.level, next[put.key][put.level])'
    BY <1>3, <1>5, <1>7, <1>9, Zenon
  <2>4. put'.level < height'[put'.key]
    BY <1>1, <1>2, <1>3, Zenon
  <2> QED
    BY <1>3, <2>2, <2>3, <2>4, Zenon DEF PutPlace
<1>12. Stored' = Stored
  <2>1. Stored = [j \in Keys |-> IF j \in Chain(0) THEN value[j] ELSE 0]
    BY StoredIs, Zenon DEF ListInv
  <2>2. Stored' = [j \in Keys |-> IF j \in Chain(0) THEN value[j] ELSE 0]
    BY <1>1, <1>6, <1>8, <1>10, StoredIsNext, Zenon
  <2> QED
    BY <2>1, <2>2, Zenon
<1>13. AckedStored'
  BY <1>1, <1>3, <1>12, Zenon DEF ListInv, AckedStored
<1> QED
  BY <1>6, <1>8, <1>10, <1>11, <1>12, <1>13, Zenon DEF ListInv

(* The pointer that leads to the node: it is on the level from then on,    *)
(* and with the lowest one its key is stored.                              *)
LEMMA LinkPublishList ==
    ASSUME ListInv, LinkPublish
    PROVE  /\ ListInv' /\ \A l \in Levels : Chain(l) \subseteq Chain(l)'
           /\ put.key \in Keys
           /\ IF put.level = 0
              THEN /\ Stored' = [Stored EXCEPT ![put.key] = value[put.key]]
                   /\ Stored[put.key] = 0 /\ value[put.key] \in 1..puts
              ELSE Stored' = Stored
<1>0. PICK p, L, b : p = put.key /\ L = put.level /\ b = put.prev[L]
  OBVIOUS
<1> USE <1>0
<1>1. /\ put.pc = "publish" /\ next' = [next EXCEPT ![b][L] = p]
      /\ UNCHANGED <<height, value, max_height, puts>>
      /\ IF L + 1 < height[p] THEN put' = [put EXCEPT !.pc = "next", !.level = L + 1] /\ UNCHANGED acked
         ELSE put' = NoPut /\ acked' = [acked EXCEPT ![p] = value[p]]
  BY Zenon DEF LinkPublish, Linkage
<1>2. /\ put \in [pc : {"next", "publish"}, key : Keys, prev : [Levels -> Nodes], level : Levels]
      /\ p \in Keys /\ p \in Nodes /\ p \in Nat /\ L \in Levels /\ L \in Nat /\ L < height[p] /\ p \notin Chain(L)
      /\ \A l \in Levels : l >= L =>
            /\ put.prev[l] \in Chain(l) /\ put.prev[l] \in Nodes /\ put.prev[l] \in Nat
            /\ put.prev[l] < p /\ p < next[put.prev[l]][l]
            /\ Follows(put.prev[l], l, next[put.prev[l]][l])
      /\ Follows(p, L, next[p][L])
  BY <1>1, PutParts, Zenon
<1>3. b \in Chain(L) /\ b \in Nodes /\ b \in Nat /\ b < p /\ p < next[b][L] /\ Follows(b, L, next[b][L])
  <2>1. L >= L
    BY <1>2
  <2> QED
    BY <1>2, <2>1, Zenon
<1>4. next \in [Nodes -> [Levels -> Nodes]] /\ height[p] \in Nat
  BY <1>2, HeightNat, Zenon DEF ListInv, ListTypes
<1>5. /\ next' \in [Nodes -> [Levels -> Nodes]] /\ next'[b][L] = p
      /\ \A n \in Nodes, l \in Levels : n # b \/ l # L => next'[n][l] = next[n][l]
  BY <1>1, <1>2, <1>3, <1>4, Zenon
<1>6. \/ /\ L + 1 < height[p] /\ L + 1 \in Levels /\ acked' = acked
         /\ put' \in [pc : {"next", "publish"}, key : Keys, prev : [Levels -> Nodes], level : Levels]
         /\ put'.pc = "next" /\ put'.key = p /\ put'.prev = put.prev /\ put'.level = L + 1
      \/ /\ L + 1 = height[p] /\ put' = NoPut /\ acked' = [acked EXCEPT ![p] = value[p]]
  <2>1. CASE L + 1 < height[p]
    <3>1. L + 1 \in Levels
      <4>1. height[p] <= K_MAX_HEIGHT /\ K_MAX_HEIGHT \in Nat
        BY <1>2, HeightNat, MemtableAssumption, Zenon DEF ListInv
      <4> QED
        BY <1>2, <1>4, <2>1, <4>1 DEF Levels
    <3> QED
      BY <1>1, <1>2, <2>1, <3>1, Zenon
  <2>2. CASE ~(L + 1 < height[p])
    <3>1. L \in Nat /\ height[p] \in Nat /\ L < height[p]
      BY <1>2, <1>4, Zenon
    <3>2. L + 1 = height[p]
      BY <2>2, <3>1
    <3> QED
      BY <1>1, <2>2, <3>2, Zenon
  <2> QED
    BY <2>1, <2>2, Zenon
<1>7. \A l \in Levels : \A n \in Keys :
         /\ n # p => ~Linking(n, l) /\ ~Linking(n, l)'
         /\ Linking(p, l) <=> l >= L
         /\ height[p] > l => (Linking(p, l)' <=> l > L)
  <2>1. \A l \in Levels : l \in Nat
    BY Numbers, Zenon
  <2>2. p # 0
    BY <1>2, Numbers
  <2> QED
    <3>1. L \in Nat /\ height[p] \in Nat
      BY <1>2, <1>4, Zenon
    <3>2. \A l \in Levels : \A n \in Keys : (n # p => ~Linking(n, l)) /\ (Linking(p, l) <=> l >= L)
      BY <1>1, Zenon DEF Linking
    <3>3. CASE put' = NoPut /\ L + 1 = height[p]
      BY <2>1, <3>1, <3>2, <3>3 DEF Linking, NoPut
    <3>4. CASE put'.pc = "next" /\ put'.key = p /\ put'.level = L + 1
      BY <2>1, <3>1, <3>2, <3>4 DEF Linking
    <3> QED
      BY <1>6, <3>3, <3>4, Zenon
<1>8. \A l \in Levels : Chain(l)' = IF l = L THEN Chain(l) \cup {p} ELSE Chain(l)
  <2>1. ASSUME NEW l \in Levels, NEW n \in Keys
        PROVE  height'[n] > l /\ ~Linking(n, l)' <=> (height[n] > l /\ ~Linking(n, l)) \/ (l = L /\ n = p)
    <3>1. l \in Nat
      BY Numbers, Zenon
    <3>2. CASE n = p
      <4>1. L \in Nat /\ height[p] \in Nat /\ L < height[p] /\ height' = height
        BY <1>1, <1>2, <1>4, Zenon
      <4> QED
        BY <1>7, <3>1, <3>2, <4>1
    <3>3. CASE n # p
      BY <1>1, <1>7, <3>3, Zenon
    <3> QED
      BY <3>2, <3>3, Zenon
  <2> QED
    BY <1>2, <2>1 DEF Chain
<1>9. ListTypes'
  <2>1. acked' \in [Keys -> Nat]
    BY <1>2, <1>6, Zenon DEF ListInv, ListTypes
  <2> QED
    BY <1>1, <1>5, <2>1, Zenon DEF ListInv, ListTypes
<1>10. Chains'
  <2>1. ASSUME NEW l \in Levels, l # L, NEW n \in Nodes
        PROVE  IF n \in Chain(l)' THEN Follows(n, l, next[n][l])' ELSE next'[n][l] = nullptr
    <3>1. next'[n][l] = next[n][l] /\ Chain(l)' = Chain(l)
      BY <1>5, <1>8, <2>1, Zenon
    <3>2. IF n \in Chain(l) THEN Follows(n, l, next[n][l]) ELSE next[n][l] = nullptr
      BY <2>1, Zenon DEF ListInv, Chains
    <3> QED
      BY <3>1, <3>2, Zenon DEF Follows
  <2>2. ASSUME NEW n \in Nodes
        PROVE  IF n \in Chain(L)' THEN Follows(n, L, next[n][L])' ELSE next'[n][L] = nullptr
    <3>1. Chain(L)' = Chain(L) \cup {p} /\ Chain(L) \subseteq Nat /\ n \in Nat /\ next[n][L] \in Nat /\ next[b][L] \in Nat
      BY <1>2, <1>3, <1>8, ChainNodes, NextNat, Zenon DEF ListInv
    <3>2. CASE n = p
      <4>1. next'[n][L] = next[p][L]
        BY <1>2, <1>3, <1>5, <3>2, Zenon
      <4>2. \A x \in Chain(L)' : p < x => x \in Chain(L)
        BY <1>2, <3>1
      <4>3. Follows(p, L, next[p][L])
        BY <1>2, Zenon
      <4> QED
        BY <3>1, <3>2, <4>1, <4>2, <4>3, Zenon DEF Follows
    <3>3. CASE n = b
      <4>1. next'[n][L] = p /\ n \in Chain(L)' /\ n < p /\ p \in Chain(L)'
        BY <1>3, <1>5, <3>1, <3>3, Zenon
      <4>2. ASSUME NEW x \in Chain(L)', n < x
            PROVE  p <= x
        <5>1. CASE x = p
          BY <1>2, <5>1
        <5>2. CASE x # p
          <6>1. x \in Chain(L) /\ x \in Nat
            BY <3>1, <5>2, Zenon
          <6>2. next[b][L] <= x
            BY <1>3, <3>3, <4>2, <6>1, Zenon DEF Follows
          <6> QED
            BY <1>2, <1>3, <3>1, <6>1, <6>2
        <5> QED
          BY <5>1, <5>2, Zenon
      <4> QED
        BY <4>1, <4>2, Zenon DEF Follows
    <3>4. CASE n # p /\ n # b /\ n \in Chain(L)
      <4>1. next'[n][L] = next[n][L] /\ n \in Chain(L)'
        BY <1>2, <1>5, <3>1, <3>4, Zenon
      <4>2. Follows(n, L, next[n][L])
        BY <1>2, <3>4, Zenon DEF ListInv, Chains
      <4>3. ASSUME n < p
            PROVE  next[n][L] <= p
        <5>1. CASE n < b
          <6>1. next[n][L] <= b
            BY <1>3, <4>2, <5>1, Zenon DEF Follows
          <6> QED
            BY <1>2, <1>3, <3>1, <6>1
        <5>2. CASE b < n
          <6>1. next[b][L] <= n
            BY <1>3, <3>4, <5>2, Zenon DEF Follows
          <6> QED
            BY <1>2, <1>3, <3>1, <4>3, <6>1, SMTT(20)
        <5> QED
          BY <1>3, <3>1, <3>4, <5>1, <5>2, SMTT(20)
      <4> QED
        BY <3>1, <4>1, <4>2, <4>3, Zenon DEF Follows
    <3>5. CASE n # p /\ n \notin Chain(L)
      <4>1. next'[n][L] = next[n][L] /\ n \notin Chain(L)'
        BY <1>2, <1>3, <1>5, <3>1, <3>5, Zenon
      <4>2. ~Linking(n, L)
        BY <3>5, Zenon DEF Linking
      <4> QED
        BY <1>2, <3>5, <4>1, <4>2, Zenon DEF ListInv, Chains
    <3> QED
      BY <3>2, <3>3, <3>4, <3>5, Zenon
  <2> QED
    BY <2>1, <2>2, Zenon DEF Chains
<1>11. PutPlace'
  <2>1. CASE put' = NoPut
    BY <2>1, Zenon DEF PutPlace
  <2>2. CASE put' # NoPut
    <3>1. ASSUME NEW l \in Levels, l >= L + 1
          PROVE  /\ put.prev[l] \in Chain(l)' /\ put.prev[l] < p /\ p < next'[put.prev[l]][l]
      <4>1. l \in Nat /\ l >= L /\ l # L
        BY <1>2, <3>1, Numbers
      <4> QED
        BY <1>2, <1>5, <1>8, <4>1, Zenon
    <3> QED
      BY <1>1, <1>6, <2>2, <3>1, Zenon DEF PutPlace
  <2> QED
    BY <2>1, <2>2, Zenon
<1>12. /\ Stored = [j \in Keys |-> IF j \in Chain(0) THEN value[j] ELSE 0]
       /\ Stored' = [j \in Keys |-> IF j \in Chain(0)' THEN value[j] ELSE 0]
  BY <1>1, <1>9, <1>10, StoredIs, StoredIsNext, Zenon DEF ListInv
<1>13. 0 \in Levels /\ \A l \in Levels : Chain(l) \subseteq Chain(l)'
  BY <1>8, Numbers
<1>14. value[p] \in 1..puts
  <2>1. height[p] > 0
    BY <1>2, <1>4
  <2> QED
    BY <1>2, <2>1, Zenon DEF ListInv, ListTypes
<1>15. IF L = 0 THEN Stored' = [Stored EXCEPT ![p] = value[p]] /\ Stored[p] = 0 ELSE Stored' = Stored
  <2>1. CASE L = 0
    <3>1. Chain(0)' = Chain(0) \cup {p} /\ p \notin Chain(0)
      BY <1>2, <1>8, <2>1, Zenon
    <3> QED
      BY <1>2, <1>12, <2>1, <3>1, Zenon
  <2>2. CASE L # 0
    BY <1>8, <1>12, <1>13, <2>2, Zenon
  <2> QED
    BY <2>1, <2>2, Zenon
<1>16. AckedStored'
  <2>1. ASSUME NEW k \in Keys, k # p
        PROVE  acked'[k] = Stored'[k]
    <3>1. acked[k] = Stored[k] /\ acked \in [Keys -> Nat]
      BY <2>1, Zenon DEF ListInv, AckedStored, ListTypes
    <3>2. Stored'[k] = Stored[k]
      BY <1>12, <1>15, <2>1, Zenon
    <3>3. acked'[k] = acked[k]
      BY <1>6, <2>1, <3>1, Zenon
    <3> QED
      BY <3>1, <3>2, <3>3, Zenon
  <2>2. ASSUME put' = NoPut
        PROVE  acked'[p] = Stored'[p]
    <3>1. p \in Chain(0)'
      <4>1. height[p] > 0
        BY <1>2, <1>4
      <4>2. ~Linking(p, 0)'
        BY <2>2, Zenon DEF Linking, NoPut
      <4> QED
        BY <1>1, <1>2, <4>1, <4>2, Zenon DEF Chain
    <3>2. put'.key # p
      BY <1>2, <2>2, Numbers DEF NoPut
    <3>3. acked' = [acked EXCEPT ![p] = value[p]] /\ acked \in [Keys -> Nat]
      BY <1>6, <3>2, Zenon DEF ListInv, ListTypes
    <3> QED
      BY <1>2, <1>12, <3>1, <3>3, Zenon
  <2> QED
    BY <1>6, <2>1, <2>2, Zenon DEF AckedStored
<1> QED
  BY <1>2, <1>9, <1>10, <1>11, <1>13, <1>14, <1>15, <1>16, Zenon DEF ListInv

(* No step of a reader touches the list.                                   *)
LEMMA BecomeList ==
    ASSUME ListInv, NEW r, NEW s, Become(r, s)
    PROVE  ListInv' /\ Stored' = Stored /\ \A l : Chain(l)' = Chain(l)
<1>1. UNCHANGED <<next, height, value, max_height, put, puts, acked>>
  BY Zenon DEF Become, list
<1>2. \A l : Chain(l)' = Chain(l)
  BY <1>1, Zenon DEF Chain, Linking
<1>3. Stored' = Stored
  BY <1>1, Zenon DEF Stored, Linked
<1>4. ListTypes'
  BY <1>1, Zenon DEF ListInv, ListTypes
<1>5. Chains' /\ PutPlace'
  BY <1>1, <1>2, SMTT(20) DEF ListInv, Chains, PutPlace, Follows, Linking
<1>6. AckedStored'
  BY <1>1, <1>3, Zenon DEF ListInv, AckedStored
<1> QED
  BY <1>2, <1>3, <1>4, <1>5, <1>6, Zenon DEF ListInv

(* A reader that is where it says leaves the others where they are.        *)
LEMMA BecomeReads ==
    ASSUME ListInv, ReadsInv, NEW r \in Readers, NEW s \in Read, Become(r, s), s = NoRead \/ ReadInv(s)
    PROVE  ListInv' /\ ReadsInv' /\ Stored' = Stored
<1>1. ListInv' /\ Stored' = Stored /\ \A l : Chain(l)' = Chain(l)
  BY BecomeList, Zenon
<1>2. read' = [read EXCEPT ![r] = s]
  BY Zenon DEF Become
<1>3. read' \in [Readers -> Read] /\ read'[r] = s /\ \A q \in Readers : q # r => read'[q] = read[q]
  BY <1>2, Zenon DEF ReadsInv
<1>4. ASSUME NEW q \in Readers
      PROVE  (read[q] = NoRead \/ ReadInv(read[q]))'
  <2>1. PICK t : t = read'[q]
    OBVIOUS
  <2>2. t = NoRead \/ ReadInv(t)
    BY <1>3, <2>1, Zenon DEF ReadsInv
  <2>3. ReadInv(t) => ReadInv(t)'
    BY <1>1, Zenon DEF ReadInv, SearchInv, GetInv, ScanInv
  <2>4. ReadInv(t)' => ReadInv(read[q])'
    BY <2>1, Zenon DEF ReadInv, SearchInv, GetInv, ScanInv
  <2> QED
    BY <2>1, <2>2, <2>3, <2>4, Zenon
<1> QED
  BY <1>1, <1>3, <1>4, Zenon DEF ReadsInv

(* What the list stores, as numbers.                                       *)
LEMMA StoredNat ==
    ASSUME ListInv
    PROVE  /\ Stored \in [Keys -> Nat]
           /\ \A k \in Keys : Stored[k] = IF k \in Chain(0) THEN value[k] ELSE 0
           /\ \A k \in Keys : Owed(k) = Stored[k]
<1>1. Stored = [k \in Keys |-> IF k \in Chain(0) THEN value[k] ELSE 0]
  BY StoredIs, Zenon DEF ListInv
<1>2. value \in [Nodes -> Nat] /\ Keys \subseteq Nodes
  BY Numbers, Zenon DEF ListInv, ListTypes
<1>3. \A k \in Keys : Owed(k) = Stored[k]
  BY Zenon DEF ListInv, AckedStored, Owed
<1> QED
  BY <1>1, <1>2, <1>3, Zenon

(* A reader at rest.                                                       *)
LEMMA NoReadIs ==
    /\ NoRead \in Read /\ NoRead.pc = "idle" /\ NoRead.scan = FALSE /\ NoRead.key = 0 /\ NoRead.x = head
    /\ NoRead.level = 0 /\ NoRead.node = nullptr /\ NoRead.result = 0 /\ NoRead.visited = {}
<1>1. 0 \in 0..N /\ head \in Nodes /\ nullptr \in Nodes /\ 0 \in Levels
  BY Numbers
<1> QED
  BY <1>1, Zenon DEF NoRead, Read

(* Seek starts before its key, owed what is stored.                        *)
LEMMA SeekReads ==
    ASSUME ListInv, ReadsInv, NEW r \in Readers, Seek(r)
    PROVE  ListInv' /\ ReadsInv' /\ Stored' = Stored
<1>1. PICK k \in Keys, scan \in BOOLEAN, level \in 0..(max_height - 1) :
        Become(r, [NoRead EXCEPT !.pc = "search", !.scan = scan, !.key = k, !.level = level,
                      !.seen = IF scan THEN {j \in Keys : j >= k /\ Owed(j) # 0} ELSE {Owed(k)}])
  BY ZenonT(30)   DEF Seek
<1> DEFINE owed == IF scan THEN {j \in Keys : j >= k /\ Owed(j) # 0} ELSE {Owed(k)}
           start == [NoRead EXCEPT !.pc = "search", !.scan = scan, !.key = k, !.level = level, !.seen = owed]
<1>2. PICK seen, s : seen = owed /\ s = start
  BY Zenon
<1>3. Become(r, s)
  BY <1>1, <1>2, Zenon
<1>4. s = [NoRead EXCEPT !.pc = "search", !.scan = scan, !.key = k, !.level = level, !.seen = seen]
  BY <1>2, Zenon
<1>5. k \in 0..N /\ head \in Nodes /\ nullptr \in Nodes /\ Keys \subseteq Nat /\ k \in Nat /\ head < k
  BY Numbers
<1>6. level \in Levels
  <2>1. max_height \in 1..K_MAX_HEIGHT /\ K_MAX_HEIGHT \in Nat
    BY MemtableAssumption, Zenon DEF ListInv, ListTypes
  <2> QED
    BY <2>1 DEF Levels
<1>7. seen = IF scan THEN {j \in Keys : j >= k /\ Stored[j] # 0} ELSE {Stored[k]}
  <2>1. \A j \in Keys : Owed(j) = Stored[j]
    BY StoredNat, Zenon
  <2>2. {j \in Keys : j >= k /\ Owed(j) # 0} = {j \in Keys : j >= k /\ Stored[j] # 0}
    BY <2>1, Zenon
  <2> QED
    BY <1>2, <2>1, <2>2, Zenon
<1> HIDE DEF owed, start
<1>8. seen \subseteq Nat
  BY <1>5, <1>7, StoredNat, Zenon
<1>9. /\ s \in Read /\ s.pc = "search" /\ s.scan = scan /\ s.key = k /\ s.x = head /\ s.level = level
      /\ s.node = nullptr /\ s.result = 0 /\ s.seen = seen /\ s.visited = {}
  BY <1>4, <1>5, <1>6, <1>8, NoReadIs, Zenon DEF Read
<1>10. SearchInv(s)
  BY <1>5, <1>9, ChainNodes, Zenon DEF SearchInv
<1>11. GetInv(s)
  BY <1>5, <1>7, <1>9, Zenon DEF GetInv
<1>12. ScanInv(s)
  <2>1. ASSUME scan
        PROVE  \A j \in seen : j \in Keys /\ k <= j /\ j \in Chain(0)
    BY <1>5, <1>7, <2>1, StoredNat, Zenon
  <2> QED
    BY <1>9, <2>1, Zenon DEF ScanInv
<1> QED
  BY <1>3, <1>9, <1>10, <1>11, <1>12, BecomeReads, Zenon DEF ReadInv

(* SeekToFirst starts at the first node of the lowest level.               *)
LEMMA SeekToFirstReads ==
    ASSUME ListInv, ReadsInv, NEW r \in Readers, SeekToFirst(r)
    PROVE  ListInv' /\ ReadsInv' /\ Stored' = Stored
<1> DEFINE owed == {j \in Keys : Owed(j) # 0}
           start == [NoRead EXCEPT !.pc = "at", !.scan = TRUE, !.node = next[head][0], !.seen = owed]
<1>1. PICK seen, n, s : seen = owed /\ n = next[head][0] /\ s = start
  BY Zenon
<1>2. Become(r, s)
  BY <1>1, Zenon DEF SeekToFirst
<1>3. s = [NoRead EXCEPT !.pc = "at", !.scan = TRUE, !.node = n, !.seen = seen]
  BY <1>1, Zenon
<1> HIDE DEF start
<1>4. 0 \in 0..N /\ 0 \in Levels /\ head \in Nodes /\ head = 0 /\ Keys \subseteq Nat \ {0} /\ nullptr # head
  BY Numbers
<1>5. Follows(head, 0, n) /\ n \in Nodes /\ n \in Nat
  BY <1>1, <1>4, ChainNodes, NextNat, Zenon DEF ListInv, Chains
<1>6. /\ s \in Read /\ s.pc = "at" /\ s.scan = TRUE /\ s.key = 0
      /\ s.node = n /\ s.result = 0 /\ s.seen = seen /\ s.visited = {}
  <2>1. seen \subseteq Nat
    BY <1>1, <1>4, Zenon
  <2>2. PICK yes \in BOOLEAN : yes = TRUE
    BY Zenon
  <2>3. s = [NoRead EXCEPT !.pc = "at", !.scan = yes, !.node = n, !.seen = seen]
    BY <1>3, <2>2, Zenon
  <2>4. n \in Nodes /\ NoRead \in Read /\ NoRead.key = 0 /\ NoRead.result = 0 /\ NoRead.visited = {}
    BY <1>5, NoReadIs, Zenon
  <2>5. s \in Read
    BY <2>1, <2>3, <2>4, Zenon DEF Read
  <2>6. s.pc = "at" /\ s.scan = yes /\ s.node = n /\ s.seen = seen
    BY <2>3, <2>4, Zenon DEF Read
  <2>7. s.key = 0 /\ s.result = 0 /\ s.visited = {}
    BY <2>3, <2>4, Zenon DEF Read
  <2> QED
    BY <2>2, <2>5, <2>6, <2>7, Zenon
<1>7. \A j \in seen : j \in Keys /\ j \in Chain(0) /\ 0 <= j /\ n <= j
  <2>1. ASSUME NEW j \in seen
        PROVE  j \in Keys /\ j \in Chain(0) /\ 0 <= j /\ head < j
    <3>1. j \in Keys /\ Owed(j) # 0
      BY <1>1, Zenon
    <3>2. j \in Chain(0)
      BY <3>1, StoredNat, Zenon
    <3> QED
      BY <1>4, <3>1, <3>2
  <2> QED
    BY <1>5, <2>1, Zenon DEF Follows
<1>8. n \in Chain(0) \cup {nullptr} /\ n # head /\ 0 <= n
  BY <1>4, <1>5 DEF Follows
<1>9. ReadInv(s)
  BY <1>6, <1>7, <1>8, Zenon DEF ReadInv, SearchInv, GetInv, ScanInv
<1> QED
  BY <1>2, <1>6, <1>9, BecomeReads, ZenonT(30)

(* One load of the search: on along the level, down, or done.              *)
LEMMA SearchReads ==
    ASSUME ListInv, ReadsInv, NEW r \in Readers, Search(r)
    PROVE  ListInv' /\ ReadsInv' /\ Stored' = Stored
<1>1. PICK s, n : s = read[r] /\ n = next[s.x][s.level]
  OBVIOUS
<1>2. /\ s.pc = "search"
      /\ Become(r, IF key_is_after_node(s.key, n) THEN [s EXCEPT !.x = n]
                   ELSE IF s.level > 0 THEN [s EXCEPT !.level = @ - 1]
                   ELSE [s EXCEPT !.node = n,
                            !.pc = IF s.scan THEN "at" ELSE IF n = s.key THEN "value" ELSE "returned"])
  BY <1>1, Zenon DEF Search
<1>3. s \in Read /\ SearchInv(s) /\ GetInv(s) /\ ScanInv(s)
  BY <1>1, <1>2 DEF ReadsInv, ReadInv, NoRead
<1>4. /\ s.key \in Keys /\ s.key \in Nat /\ s.key < nullptr /\ s.key # head /\ nullptr \in Nat
      /\ s.level \in Levels /\ s.level \in Nat
      /\ s.x \in Chain(s.level) /\ s.x \in Nodes /\ s.x \in Nat /\ s.x < s.key
  <2>1. s.key \in Keys /\ s.level \in Levels /\ s.x \in Chain(s.level) /\ s.x < s.key
    BY <1>2, <1>3, Zenon DEF Read, SearchInv
  <2> QED
    BY <2>1, Numbers, ChainNodes
<1>5. n \in Nodes /\ n \in Nat /\ Follows(s.x, s.level, n)
  BY <1>1, <1>4, NextNat, Zenon DEF ListInv, Chains
<1>6. CASE key_is_after_node(s.key, n)
  <2>1. PICK t : t = [s EXCEPT !.x = n]
    BY Zenon
  <2>2. n \in Chain(s.level) /\ n < s.key
    BY <1>5, <1>6, Zenon DEF key_is_after_node, Follows
  <2>3. t \in Read /\ t.x = n
    BY <1>3, <1>5, <2>1, Zenon DEF Read
  <2>4. /\ t.pc = s.pc /\ t.scan = s.scan /\ t.key = s.key /\ t.level = s.level /\ t.node = s.node
        /\ t.result = s.result /\ t.seen = s.seen /\ t.visited = s.visited
    BY <1>3, <2>1, Zenon DEF Read
  <2>5. ReadInv(t)
    BY <1>3, <2>2, <2>3, <2>4, Zenon DEF ReadInv, SearchInv, GetInv, ScanInv
  <2>6. Become(r, t)
    BY <1>2, <1>6, <2>1, Zenon
  <2> QED
    BY <2>3, <2>5, <2>6, BecomeReads, Zenon
<1>7. CASE ~key_is_after_node(s.key, n) /\ s.level > 0
  <2>1. PICK t : t = [s EXCEPT !.level = @ - 1]
    BY Zenon
  <2>2. s.level - 1 \in Levels
    BY <1>4, <1>7, MemtableAssumption DEF Levels
  <2>3. s.x \in Chain(s.level - 1)
    <3>1. CASE s.x = head
      BY <3>1, Zenon DEF Chain
    <3>2. CASE s.x # head
      <4>1. s.x \in Keys /\ height[s.x] > s.level /\ ~Linking(s.x, s.level)
        BY <1>4, <3>2, Zenon DEF Chain
      <4>2. height[s.x] \in Nat
        BY <1>4, HeightNat, Zenon DEF ListInv
      <4>3. height[s.x] > s.level - 1
        BY <1>4, <4>1, <4>2
      <4>4. ~Linking(s.x, s.level - 1)
        <5>1. CASE put.pc = "idle"
          BY <5>1, Zenon DEF Linking
        <5>2. CASE put.pc # "idle"
          <6>1. put.level \in Nat
            BY <5>2, PutParts, Zenon
          <6> QED
            BY <1>4, <4>1, <6>1 DEF Linking
        <5> QED
          BY <5>1, <5>2, Zenon
      <4> QED
        BY <4>1, <4>3, <4>4, Zenon DEF Chain
    <3> QED
      BY <3>1, <3>2, Zenon
  <2>4. t \in Read /\ t.level = s.level - 1
    BY <1>3, <2>1, <2>2, Zenon DEF Read
  <2>5. /\ t.pc = s.pc /\ t.scan = s.scan /\ t.key = s.key /\ t.x = s.x /\ t.node = s.node
        /\ t.result = s.result /\ t.seen = s.seen /\ t.visited = s.visited
    BY <1>3, <2>1, Zenon DEF Read
  <2>6. ReadInv(t)
    BY <1>3, <1>4, <2>3, <2>4, <2>5, Zenon DEF ReadInv, SearchInv, GetInv, ScanInv
  <2>7. Become(r, t)
    BY <1>2, <1>7, <2>1, Zenon
  <2> QED
    BY <2>4, <2>6, <2>7, BecomeReads, Zenon
<1>8. CASE ~key_is_after_node(s.key, n) /\ ~(s.level > 0)
  <2>1. PICK t : t = [s EXCEPT !.node = n,
                         !.pc = IF s.scan THEN "at" ELSE IF n = s.key THEN "value" ELSE "returned"]
    OBVIOUS
  <2>2. s.level = 0
    BY <1>4, <1>8
  <2>3. s.key <= n
    BY <1>4, <1>5, <1>8 DEF key_is_after_node
  <2>4. n \in Chain(0) \cup {nullptr} /\ n # head
    <3>1. s.x < n /\ n \in Chain(0) \cup {nullptr}
      BY <1>5, <2>2, Zenon DEF Follows
    <3> QED
      BY <1>4, <3>1 DEF head
  <2>5. \A j \in Chain(0) : s.key <= j => n <= j
    <3>1. \A j \in Chain(0) : s.key <= j => s.x < j
      BY <1>4, ChainNodes
    <3> QED
      BY <1>5, <2>2, <3>1, Zenon DEF Follows
  <2>6. t \in Read /\ t.node = n /\ t.pc = IF s.scan THEN "at" ELSE IF n = s.key THEN "value" ELSE "returned"
    BY <1>3, <1>5, <2>1, Zenon DEF Read
  <2>7. /\ t.scan = s.scan /\ t.key = s.key /\ t.x = s.x /\ t.level = s.level
        /\ t.result = s.result /\ t.seen = s.seen /\ t.visited = s.visited
    BY <1>3, <2>1, Zenon DEF Read
  <2>8. SearchInv(t)
    BY <2>6, Zenon DEF SearchInv
  <2>9. GetInv(t)
    <3>1. SUFFICES ASSUME ~s.scan
                   PROVE  GetInv(t)
      BY <2>7, Zenon DEF GetInv
    <3>2. Stored[s.key] \in s.seen /\ s.result = 0
      BY <1>2, <1>3, <3>1, Zenon DEF GetInv
    <3>3. CASE n = s.key
      <4>1. n \in Chain(0)
        BY <1>4, <2>4, <3>3
      <4> QED
        BY <1>4, <2>6, <2>7, <3>1, <3>2, <3>3, <4>1, Zenon DEF GetInv
    <3>4. CASE n # s.key
      <4>1. s.key \notin Chain(0)
        BY <1>4, <1>5, <2>3, <2>5, <3>4
      <4>2. Stored[s.key] = 0
        BY <1>4, <4>1, StoredNat, Zenon
      <4> QED
        BY <1>4, <2>6, <2>7, <3>1, <3>2, <3>4, <4>2, Zenon DEF GetInv
    <3> QED
      BY <3>3, <3>4, Zenon
  <2>10. ScanInv(t)
    <3>1. SUFFICES ASSUME s.scan
                   PROVE  ScanInv(t)
      BY <2>7, Zenon DEF ScanInv
    <3>2. s.visited = {} /\ s.seen \subseteq Chain(0) /\ \A j \in s.seen : j \in Keys /\ s.key <= j
      BY <1>2, <1>3, <3>1, Zenon DEF ScanInv
    <3> QED
      BY <2>3, <2>4, <2>5, <2>6, <2>7, <3>1, <3>2, Zenon DEF ScanInv
  <2>11. Become(r, t)
    BY <1>2, <1>8, <2>1, Zenon
  <2> QED
    BY <2>6, <2>8, <2>9, <2>10, <2>11, BecomeReads, Zenon DEF ReadInv
<1> QED
  BY <1>6, <1>7, <1>8, Zenon

(* get returns what is stored under its key at that moment.                *)
LEMMA GetValueReads ==
    ASSUME ListInv, ReadsInv, NEW r \in Readers, GetValue(r)
    PROVE  ListInv' /\ ReadsInv' /\ Stored' = Stored
<1>1. PICK s, v : s = read[r] /\ v = value[s.node]
  OBVIOUS
<1>2. s.pc = "value" /\ Become(r, [s EXCEPT !.pc = "returned", !.result = v])
  BY <1>1, Zenon DEF GetValue
<1>3. s \in Read /\ SearchInv(s) /\ GetInv(s) /\ ScanInv(s)
  BY <1>1, <1>2 DEF ReadsInv, ReadInv, NoRead
<1>4. ~s.scan
  BY <1>2, <1>3, Zenon DEF ScanInv
<1>5. s.key \in Keys /\ Stored[s.key] \in s.seen /\ s.node = s.key /\ s.node \in Chain(0)
  BY <1>2, <1>3, <1>4, Zenon DEF GetInv
<1>6. v = Stored[s.key] /\ v \in Nat
  BY <1>1, <1>5, StoredNat, Zenon
<1>7. PICK t : t = [s EXCEPT !.pc = "returned", !.result = v]
  OBVIOUS
<1>8. t \in Read /\ t.pc = "returned" /\ t.result = v
  BY <1>3, <1>6, <1>7, Zenon DEF Read
<1>9. t.scan = s.scan /\ t.key = s.key /\ t.seen = s.seen
  BY <1>3, <1>7, Zenon DEF Read
<1>10. ReadInv(t)
  BY <1>4, <1>5, <1>6, <1>8, <1>9, Zenon DEF ReadInv, SearchInv, GetInv, ScanInv
<1> QED
  BY <1>2, <1>7, <1>8, <1>10, BecomeReads, Zenon

(* The iterator takes the entry it is on and goes on to the next node.     *)
LEMMA IteratorNextReads ==
    ASSUME ListInv, ReadsInv, NEW r \in Readers, IteratorNext(r)
    PROVE  ListInv' /\ ReadsInv' /\ Stored' = Stored
<1>1. PICK s, n : s = read[r] /\ n = next[s.node][0]
  OBVIOUS
<1>2. /\ s.pc = "at"
      /\ Become(r, IF s.node = nullptr THEN [s EXCEPT !.pc = "returned"]
                   ELSE [s EXCEPT !.visited = @ \cup {s.node}, !.node = n])
  BY <1>1, Zenon DEF IteratorNext
<1>3. s \in Read /\ SearchInv(s) /\ GetInv(s) /\ ScanInv(s)
  BY <1>1, <1>2 DEF ReadsInv, ReadInv, NoRead
<1>4. s.scan
  BY <1>2, <1>3, Zenon DEF GetInv, Read
<1>5. /\ s.seen \subseteq Chain(0) /\ \A j \in s.seen : j \in Keys /\ s.key <= j
      /\ \A k \in s.visited : k < s.node /\ k >= s.key
      /\ s.node \in Chain(0) \cup {nullptr} /\ s.node # head /\ s.key <= s.node
      /\ \A j \in s.seen : j \in s.visited \/ s.node <= j
  BY <1>2, <1>3, <1>4, Zenon DEF ScanInv
<1>6. CASE s.node = nullptr
  <2>1. PICK t : t = [s EXCEPT !.pc = "returned"]
    BY Zenon
  <2>2. t \in Read /\ t.pc = "returned"
    BY <1>3, <2>1, Zenon DEF Read
  <2>3. t.scan = s.scan /\ t.key = s.key /\ t.seen = s.seen /\ t.node = s.node /\ t.visited = s.visited
    BY <1>3, <2>1, Zenon DEF Read
  <2>4. ReadInv(t)
    BY <1>4, <1>5, <1>6, <2>2, <2>3, Zenon DEF ReadInv, SearchInv, GetInv, ScanInv
  <2> QED
    BY <1>2, <1>6, <2>1, <2>2, <2>4, BecomeReads, Zenon
<1>7. CASE s.node # nullptr
  <2>1. PICK t : t = [s EXCEPT !.visited = @ \cup {s.node}, !.node = n]
    OBVIOUS
  <2>2. /\ s.node \in Chain(0) /\ s.node \in Nodes /\ s.node \in Nat /\ 0 \in Levels
        /\ s.key \in Nat /\ s.visited \subseteq Nat /\ s.seen \subseteq Nat
    BY <1>3, <1>5, <1>7, ChainNodes, Numbers DEF Read
  <2>3. n \in Nodes /\ n \in Nat /\ Follows(s.node, 0, n)
    BY <1>1, <2>2, NextNat, Zenon DEF ListInv, Chains
  <2>4. t \in Read /\ t.node = n /\ t.visited = s.visited \cup {s.node}
    BY <1>3, <2>1, <2>2, <2>3, Zenon DEF Read
  <2>5. t.scan = s.scan /\ t.key = s.key /\ t.seen = s.seen /\ t.pc = s.pc
    BY <1>3, <2>1, Zenon DEF Read
  <2>6. s.node < n /\ n \in Chain(0) \cup {nullptr} /\ n # head /\ s.key <= n
    <3>1. s.node < n /\ n \in Chain(0) \cup {nullptr}
      BY <2>3, Zenon DEF Follows
    <3> QED
      BY <1>5, <2>2, <2>3, <3>1 DEF head
  <2>7. \A k \in t.visited : k < n /\ k >= s.key
    BY <1>5, <2>2, <2>3, <2>4, <2>6
  <2>8. ASSUME NEW j \in s.seen
        PROVE  j \in t.visited \/ n <= j
    <3>1. CASE j \in s.visited \/ j = s.node
      BY <2>4, <3>1, Zenon
    <3>2. CASE j \notin s.visited /\ j # s.node
      <4>1. j \in Chain(0) /\ s.node <= j /\ j \in Nat
        BY <1>5, <2>2, <3>2, Zenon
      <4> QED
        BY <2>2, <2>3, <3>2, <4>1 DEF Follows
    <3> QED
      BY <3>1, <3>2, Zenon
  <2>9. ReadInv(t)
    BY <1>2, <1>4, <1>5, <2>4, <2>5, <2>6, <2>7, <2>8, Zenon DEF ReadInv, SearchInv, GetInv, ScanInv
  <2> QED
    BY <1>2, <1>7, <2>1, <2>4, <2>9, BecomeReads, Zenon
<1> QED
  BY <1>6, <1>7, Zenon

(* A put that stores v under k lets the gets on k in progress return it;   *)
(* no reader's place is lost.                                              *)
LEMMA PutReads ==
    ASSUME ListInv, ReadsInv, NEW k \in Keys, NEW v \in Nat, Witness(k, v),
           Stored' = [Stored EXCEPT ![k] = v], \A l \in Levels : Chain(l) \subseteq Chain(l)'
    PROVE  ReadsInv'
<1>1. ASSUME NEW r \in Readers
      PROVE  /\ read'[r] \in Read
             /\ (read[r] = NoRead \/ ReadInv(read[r]))'
  <2>1. PICK s, t : s = read[r] /\ t = read'[r]
    OBVIOUS
  <2>2. s \in Read /\ (s = NoRead \/ ReadInv(s))
    BY <2>1, Zenon DEF ReadsInv
  <2>3. t = IF s.pc # "idle" /\ ~s.scan /\ s.key = k THEN [s EXCEPT !.seen = @ \cup {v}] ELSE s
    BY <2>1, Zenon DEF Witness
  <2>4. /\ t \in Read /\ t.pc = s.pc /\ t.scan = s.scan /\ t.key = s.key /\ t.x = s.x /\ t.level = s.level
        /\ t.node = s.node /\ t.result = s.result /\ t.visited = s.visited
        /\ t.seen = IF s.pc # "idle" /\ ~s.scan /\ s.key = k THEN s.seen \cup {v} ELSE s.seen
    BY <2>2, <2>3, Zenon DEF Read
  <2>5. CASE s = NoRead
    BY <2>1, <2>3, <2>4, <2>5, NoReadIs, Zenon
  <2>6. CASE ReadInv(s)
    <3>1. s.level \in Levels /\ 0 \in Levels
      BY <2>2, Numbers DEF Read
    <3>2. SearchInv(t)'
      BY <2>4, <2>6, <3>1, Zenon DEF ReadInv, SearchInv
    <3>3. GetInv(t)'
      <4>1. SUFFICES ASSUME ~s.scan
                     PROVE  GetInv(t)'
        BY <2>4, Zenon DEF GetInv
      <4>2. /\ s.pc \in {"search", "value", "returned"} /\ s.key \in Keys /\ Stored[s.key] \in s.seen
            /\ s.pc = "value" => s.node = s.key /\ s.node \in Chain(0)'
            /\ s.pc = "returned" => s.result \in s.seen
            /\ s.pc # "returned" => s.result = 0
        BY <2>6, <3>1, <4>1, Zenon DEF ReadInv, GetInv
      <4>3. Stored'[s.key] \in t.seen
        <5>1. Stored \in [Keys -> Nat]
          BY StoredNat, Zenon
        <5>2. CASE s.key = k
          BY <2>4, <4>1, <4>2, <5>1, <5>2, Zenon
        <5>3. CASE s.key # k
          BY <2>4, <4>2, <5>1, <5>3, Zenon
        <5> QED
          BY <5>2, <5>3, Zenon
      <4>4. s.seen \subseteq t.seen
        BY <2>4, Zenon
      <4> QED
        BY <2>4, <4>2, <4>3, <4>4, Zenon DEF GetInv
    <3>4. ScanInv(t)'
      <4>1. SUFFICES ASSUME s.scan
                     PROVE  ScanInv(t)'
        BY <2>4, Zenon DEF ScanInv
      <4>2. t.seen = s.seen
        BY <2>4, <4>1, Zenon
      <4> QED
        BY <2>4, <2>6, <3>1, <4>1, <4>2, Zenon DEF ReadInv, ScanInv
    <3>5. ReadInv(t)'
      BY <3>2, <3>3, <3>4, Zenon DEF ReadInv
    <3>6. ReadInv(read[r])'
      BY <2>1, <3>5, Zenon DEF ReadInv, SearchInv, GetInv, ScanInv
    <3> QED
      BY <2>1, <2>4, <3>6, Zenon
  <2> QED
    BY <2>2, <2>5, <2>6, Zenon
<1>2. \E f : read' = [r \in Readers |-> f[r]]
  BY Zenon DEF Witness
<1>3. read' \in [Readers -> Read]
  BY <1>1, <1>2, Zenon
<1> QED
  BY <1>1, <1>3, Zenon DEF ReadsInv

(* A put that stores nothing yet.                                          *)
LEMMA QuietReads ==
    ASSUME ListInv, ReadsInv, UNCHANGED read, Stored' = Stored, \A l \in Levels : Chain(l) \subseteq Chain(l)'
    PROVE  ReadsInv'
<1>1. ASSUME NEW r \in Readers
      PROVE  (read[r] = NoRead \/ ReadInv(read[r]))'
  <2>1. PICK s : s = read[r]
    OBVIOUS
  <2>2. s \in Read /\ (s = NoRead \/ ReadInv(s))
    BY <2>1, Zenon DEF ReadsInv
  <2>3. s.level \in Levels /\ 0 \in Levels
    BY <2>2, Numbers DEF Read
  <2>4. ReadInv(s) => ReadInv(s)'
    BY <2>3, Zenon DEF ReadInv, SearchInv, GetInv, ScanInv
  <2>5. ReadInv(s)' => ReadInv(read[r])'
    BY <2>1, Zenon DEF ReadInv, SearchInv, GetInv, ScanInv
  <2> QED
    BY <2>1, <2>2, <2>4, <2>5, Zenon
<1> QED
  BY <1>1, Zenon DEF ReadsInv

(* What the readers can reach before and after a step.                     *)
StoreStep ==
    \/ Stored' = Stored
    \/ \E k \in Keys, v \in Nat : v > Stored[k] /\ Stored' = [Stored EXCEPT ![k] = v]

(* Every step keeps the list and its readers in order, and stores at most  *)
(* one newer value.                                                        *)
LEMMA StepReads ==
    ASSUME ListInv, ReadsInv, [Next]_vars
    PROVE  ListInv' /\ ReadsInv' /\ StoreStep
<1>1. ASSUME NEW k \in Keys, PutFound(k)
      PROVE  ListInv' /\ ReadsInv' /\ StoreStep
  <2>1. /\ ListInv' /\ \A l : Chain(l)' = Chain(l)
        /\ Stored' = [Stored EXCEPT ![k] = puts'] /\ Stored[k] < puts'
    BY <1>1, PutFoundList, Zenon
  <2>2. PICK v \in Nat : v = puts'
    BY <2>1, Zenon DEF ListInv, ListTypes
  <2>3. Witness(k, v)
    BY <1>1, <2>2, Zenon DEF PutFound
  <2>4. Stored' = [Stored EXCEPT ![k] = v] /\ Stored[k] < v /\ Stored[k] \in Nat
    BY <2>1, <2>2, StoredNat, Zenon
  <2>5. ReadsInv'
    BY <2>1, <2>3, <2>4, PutReads, Zenon
  <2>6. v > Stored[k]
    BY <2>4, Zenon
  <2> QED
    BY <2>1, <2>4, <2>5, <2>6, Zenon DEF StoreStep
<1>2. ASSUME NEW k \in Keys, PutNew(k)
      PROVE  ListInv' /\ ReadsInv' /\ StoreStep
  <2>1. ListInv' /\ Stored' = Stored /\ \A l \in Levels : Chain(l)' = Chain(l)
    BY <1>2, PutNewList, Zenon
  <2>2. UNCHANGED read
    BY <1>2, Zenon DEF PutNew
  <2> QED
    BY <2>1, <2>2, QuietReads, Zenon DEF StoreStep
<1>3. CASE LinkNext
  <2>1. ListInv' /\ Stored' = Stored /\ \A l : Chain(l)' = Chain(l)
    BY <1>3, LinkNextList, Zenon
  <2>2. UNCHANGED read
    BY <1>3, Zenon DEF LinkNext
  <2> QED
    BY <2>1, <2>2, QuietReads, Zenon DEF StoreStep
<1>4. CASE LinkPublish
  <2>1. /\ ListInv' /\ put.key \in Keys /\ \A l \in Levels : Chain(l) \subseteq Chain(l)'
        /\ IF put.level = 0
           THEN /\ Stored' = [Stored EXCEPT ![put.key] = value[put.key]]
                /\ Stored[put.key] = 0 /\ value[put.key] \in 1..puts
           ELSE Stored' = Stored
    BY <1>4, LinkPublishList, Zenon
  <2>2. CASE put.level = 0
    <3>1. PICK k, v : k = put.key /\ v = value[put.key]
      OBVIOUS
    <3>2. Witness(k, v)
      BY <1>4, <2>2, <3>1, Zenon DEF LinkPublish
    <3>3. k \in Keys /\ v \in Nat /\ Stored' = [Stored EXCEPT ![k] = v] /\ v > Stored[k]
      BY <2>1, <2>2, <3>1 DEF ListInv, ListTypes
    <3>4. ReadsInv'
      BY <2>1, <3>2, <3>3, PutReads, Zenon
    <3> QED
      BY <2>1, <3>3, <3>4, Zenon DEF StoreStep
  <2>3. CASE put.level # 0
    <3>1. UNCHANGED read
      BY <1>4, <2>3, Zenon DEF LinkPublish
    <3> QED
      BY <2>1, <2>3, <3>1, QuietReads, Zenon DEF StoreStep
  <2> QED
    BY <2>2, <2>3, Zenon
<1>5. ASSUME NEW r \in Readers,
             \/ Seek(r) \/ SeekToFirst(r) \/ Search(r)
             \/ GetValue(r) \/ IteratorNext(r) \/ ReadReturn(r)
      PROVE  ListInv' /\ ReadsInv' /\ Stored' = Stored
  <2>1. CASE ReadReturn(r)
    BY <2>1, NoReadIs, BecomeReads, Zenon DEF ReadReturn
  <2> QED
    BY <1>5, <2>1, SeekReads, SeekToFirstReads, SearchReads, GetValueReads, IteratorNextReads, Zenon
<1>6. CASE UNCHANGED vars
  <2>1. UNCHANGED <<next, height, value, max_height, put, puts, acked, read>>
    BY <1>6, Zenon DEF vars, list
  <2>2. Stored' = Stored
    BY <2>1, Zenon DEF Stored, Linked
  <2>3. \A l : Chain(l)' = Chain(l)
    BY <2>1, ZenonT(30) DEF Chain, Linking
  <2>4. ListInv'
    BY <2>1, <2>2, <2>3 DEF ListInv, ListTypes, Chains, PutPlace, AckedStored, Follows, Linking
  <2>5. ReadsInv'
    BY <2>1, <2>2, <2>3, QuietReads, Zenon
  <2> QED
    BY <2>2, <2>4, <2>5, Zenon DEF StoreStep
<1> QED
  BY <1>1, <1>2, <1>3, <1>4, <1>5, <1>6, Zenon DEF Next, StoreStep

(* The list and its readers are always in order.                           *)
LEMMA ListAndReads == Spec => [](ListInv /\ ReadsInv)
<1>1. Init => ListInv /\ ReadsInv
  <2>1. SUFFICES ASSUME Init
                 PROVE  ReadsInv
    BY InitListInv, Zenon
  <2>2. read = [r \in Readers |-> NoRead]
    BY <2>1, Zenon DEF Init
  <2> QED
    BY <2>2, NoReadIs, Zenon DEF ReadsInv
<1>2. ListInv /\ ReadsInv /\ [Next]_vars => (ListInv /\ ReadsInv)'
  BY StepReads, Zenon
<1> QED
  BY <1>1, <1>2, PTL DEF Spec

(* At every moment of a put, each level of the list is in key order and    *)
(* nested in the one below, for every number of keys, levels and readers.  *)
THEOREM LevelsAlwaysNest == Spec => []LevelsNest
<1>1. ListInv => LevelsNest
  <2>1. SUFFICES ASSUME ListInv, NEW l \in Levels, NEW n \in Nodes, OnLevel(n, l)
                 PROVE  height[n] > l /\ n < next[n][l] /\ (l > 0 => OnLevel(n, l - 1))
    BY Zenon DEF LevelsNest
  <2>2. l \in Nat /\ n \in Nat /\ height[n] \in Nat /\ (n = head \/ n \in Keys \/ n = nullptr)
    BY <2>1, Numbers, HeightNat DEF ListInv
  <2>3. n \in Chain(l)
    BY <2>1, <2>2, OnChain, ChainNodes, Zenon DEF OnLevel, ListInv
  <2>4. height[n] > l
    <3>1. CASE n = head
      BY <2>1, <2>2, <3>1, Numbers DEF ListInv, ListTypes
    <3>2. CASE n # head
      BY <2>3, <3>2, Zenon DEF Chain
    <3> QED
      BY <3>1, <3>2, Zenon
  <2>5. n < next[n][l]
    BY <2>1, <2>3, Zenon DEF ListInv, Chains, Follows
  <2>6. ASSUME l > 0
        PROVE  OnLevel(n, l - 1)
    <3>1. l - 1 \in Levels
      BY <2>2, <2>6, MemtableAssumption DEF Levels
    <3>2. CASE n = head
      BY <3>2, Zenon DEF OnLevel
    <3>3. CASE n # head
      <4>1. n \in Keys /\ ~Linking(n, l) /\ n # nullptr
        BY <2>3, <3>3, ChainNodes, Zenon DEF Chain
      <4>2. height[n] > l - 1
        BY <2>2, <2>4
      <4>3. ~Linking(n, l - 1)
        <5>1. CASE put.pc = "idle"
          BY <5>1, Zenon DEF Linking
        <5>2. CASE put.pc # "idle"
          <6>1. put.level \in Nat
            BY <2>1, <5>2, PutParts, Zenon
          <6> QED
            BY <2>2, <4>1, <6>1 DEF Linking
        <5> QED
          BY <5>1, <5>2, Zenon
      <4>4. n \in Chain(l - 1)
        BY <4>1, <4>2, <4>3, Zenon DEF Chain
      <4> QED
        BY <2>1, <3>1, <4>1, <4>4, OnChain, Zenon DEF OnLevel, ListInv
    <3> QED
      BY <3>2, <3>3, Zenon
  <2> QED
    BY <2>4, <2>5, <2>6, Zenon
<1> QED
  BY <1>1, ListAndReads, PTL

(* A get that takes no lock returns a value its key had between its call   *)
(* and its return, whatever is linked around it.                           *)
THEOREM GetsLinearize == Spec => []GetIsLinearizable
<1>1. ReadsInv => GetIsLinearizable
  BY NoReadIs, Zenon DEF ReadsInv, ReadInv, GetInv, GetIsLinearizable
<1> QED
  BY <1>1, ListAndReads, PTL

(* An iterator that takes no lock returns, in order, every key that was in *)
(* the list when it began.                                                 *)
THEOREM ScansComplete == Spec => []ScanIsComplete
<1>1. ReadsInv => ScanIsComplete
  <2>1. SUFFICES ASSUME ReadsInv, NEW r \in Readers, read[r].scan
                 PROVE  /\ \A k \in read[r].visited : k < read[r].node /\ k >= read[r].key
                        /\ read[r].pc = "returned" => read[r].seen \subseteq read[r].visited
    BY Zenon DEF ScanIsComplete
  <2>2. ScanInv(read[r]) /\ read[r] \in Read
    BY <2>1, NoReadIs, Zenon DEF ReadsInv, ReadInv
  <2>3. \A j \in Keys : ~(nullptr <= j)
    BY Numbers
  <2> QED
    BY <2>1, <2>2, <2>3, Zenon DEF ScanInv
<1> QED
  BY <1>1, ListAndReads, PTL

(* The skip list implements the map: each put takes effect at the one      *)
(* instant its value is replaced or its lowest level is published.         *)
THEOREM ListIsMap == Spec => ActsAsMap
<1>1. Init => Map!MapInit
  <2>1. SUFFICES ASSUME Init
                 PROVE  Stored = [k \in Keys |-> 0]
    BY Zenon DEF Map!MapInit
  <2>2. value = [n \in Nodes |-> 0] /\ Keys \subseteq Nodes
    BY <2>1, Numbers, Zenon DEF Init
  <2> QED
    BY <2>2, Zenon DEF Stored
<1>2. ListInv /\ ReadsInv /\ [Next]_vars => [Map!MapNext]_Stored
  <2>1. SUFFICES ASSUME ListInv, ReadsInv, [Next]_vars
                 PROVE  [Map!MapNext]_Stored
    OBVIOUS
  <2>2. CASE Stored' = Stored
    BY <2>2, Zenon
  <2>3. ASSUME NEW k \in Keys, NEW v \in Nat, v > Stored[k], Stored' = [Stored EXCEPT ![k] = v]
        PROVE  Map!MapPut(k)
    <3>1. Stored \in [Keys -> Nat]
      BY <2>1, StoredNat, Zenon
    <3>2. Stored'[k] = v
      BY <2>3, <3>1, Zenon
    <3> QED
      BY <2>3, <3>2, Zenon DEF Map!MapPut
  <2>4. StoreStep
    BY <2>1, StepReads, Zenon
  <2> QED
    BY <2>2, <2>3, <2>4, Zenon DEF StoreStep, Map!MapNext
<1> QED
  BY <1>1, <1>2, ListAndReads, PTL DEF Spec, ActsAsMap, Map!MapSpec
=============================================================================
