-------------------------- MODULE WritePathProofs --------------------------
(***************************************************************************)
(* Proofs about the write path, for any keys, ring, readers and bounds:    *)
(* what get, scan and their clients may rely on while memtables rotate and *)
(* are flushed.                                                            *)
(***************************************************************************)
EXTENDS WritePath, WellFoundedInduction, TLAPS

(* How many memtables have been flushed: the frozen ones that are neither  *)
(* queued nor about to be.                                                 *)
Pending == IF rot \in {"rotate_wal", "enqueue"} THEN 1 ELSE 0
Flushed == active - 1 - Pending - Len(flush_queue)

(* The slot of the a-th freeze.                                            *)
Slot(a) == a % Slots


WTypes ==
    /\ puts \in Nat /\ acked \in [Keys -> Nat]
    /\ rot \in {"none", "maybe_flush", "rotate_wal", "enqueue", "ready"}
    /\ com \in {"idle", "wal", "load", "memtable"}
    /\ batch \in Seq(Keys \X Nat) /\ inserted \in 0..Len(batch)
    /\ mem \in Seq([Keys -> Nat]) /\ active >= 1
    /\ immutables \in [0..(Slots - 1) -> Nat] /\ imm_idx \in Nat
    /\ flush_queue \in Seq(Nat \X Nat)
    /\ flush \in {"idle", "publish", "reset"} /\ table \in [Keys -> Nat]
    /\ l0 \in Seq([Keys -> Nat])

(* The ring holds the memtables that are frozen and not flushed, each in   *)
(* the slot of its number, and the queue lists them in order.              *)
RingInv ==
    /\ active = imm_idx + 1
    /\ Flushed \in Nat /\ imm_idx - Flushed <= Slots
    /\ \A i \in 1..Len(flush_queue) : flush_queue[i] = <<Flushed + i, Slot(Flushed + i - 1)>>
    /\ flush # "idle" => Len(flush_queue) > 0
    /\ \A s \in 0..(Slots - 1) : immutables[s] # 0 =>
          immutables[s] \in (Flushed + 1)..imm_idx /\ Slot(immutables[s] - 1) = s
    /\ \A m \in (Flushed + 1)..imm_idx : immutables[Slot(m - 1)] = m

(* The batch holds the newest numbers, and a leader inserts into the       *)
(* active memtable or into the one that was just frozen under it.          *)
CommitInv ==
    /\ com = "idle" => batch = <<>>
    /\ com # "memtable" => inserted = 0
    /\ Len(batch) <= puts
    /\ \A i \in 1..Len(batch) : batch[i][2] = puts - Len(batch) + i
    /\ com = "memtable" => \/ com_mem = active
                           \/ com_mem = active - 1 /\ com_mem > 0 /\ mem[active] = Empty
    /\ \A m \in 1..active : \A k \in Keys : mem[m][k] <= puts - Len(batch) + inserted

(* Newer containers hold newer values.                                     *)
AgeInv ==
    /\ \A m, n \in 1..active : \A k \in Keys : m < n /\ mem[n][k] # 0 => mem[m][k] < mem[n][k]
    /\ \A j \in 1..Len(l0) : \A k \in Keys : \E m \in 1..active :
          m <= Flushed + (IF flush = "reset" THEN 1 ELSE 0) /\ l0[j][k] <= mem[m][k]
    /\ \A i, j \in 1..Len(l0) : \A k \in Keys : i < j /\ l0[i][k] # 0 => l0[j][k] <= l0[i][k]
    /\ flush = "publish" => \A k \in Keys :
          /\ table[k] <= mem[Flushed + 1][k]
          /\ table[k] # 0 => \A m \in 1..Flushed : mem[m][k] <= table[k]

MInv == WTypes /\ RingInv /\ CommitInv /\ AgeInv

-----------------------------------------------------------------------------
(* The slots of the ring: freezes less than a round apart use different    *)
(* ones.                                                                   *)
LEMMA SlotsAre == Slots \in Nat /\ Slots > 0
  BY WritePathAssumption

LEMMA SlotRange ==
    ASSUME NEW a \in Int
    PROVE  Slot(a) \in 0..(Slots - 1) /\ \E q \in Int : a = Slots * q + Slot(a)
<1>1. a = Slots * (a \div Slots) + (a % Slots) /\ a \div Slots \in Int
  BY SlotsAre
<1>2. Slot(a) \in 0..(Slots - 1)
  BY SlotsAre DEF Slot
<1> QED
  BY <1>1, <1>2, Zenon DEF Slot

LEMMA NoMultiple ==
    ASSUME NEW n \in Nat, NEW q \in Int, n > 0, n * q < n, n * q > -n
    PROVE  q = 0
<1>1. CASE q >= 1
  <2>1. n * q >= n
    BY <1>1
  <2> QED BY <2>1
<1>2. CASE q <= -1
  <2>1. n * q <= -n
    BY <1>2
  <2> QED BY <2>1
<1> QED
  BY <1>1, <1>2

LEMMA SlotsDiffer ==
    ASSUME NEW a \in Int, NEW b \in Int, Slot(a) = Slot(b), a - b < Slots, b - a < Slots
    PROVE  a = b
<1>1. PICK q \in Int : a = Slots * q + Slot(a)
  BY SlotRange, Zenon
<1>2. PICK r \in Int : b = Slots * r + Slot(b)
  BY SlotRange, Zenon
<1>3. Slot(a) \in Int
  BY SlotRange
<1>4. a - b = Slots * (q - r)
  BY SlotsAre, <1>1, <1>2, <1>3
<1>5. q - r = 0
  BY SlotsAre, <1>4, NoMultiple
<1> QED
  BY SlotsAre, <1>4, <1>5

LEMMA SlotAgain ==
    ASSUME NEW a \in Int
    PROVE  Slot(a - Slots) = Slot(a)
<1>1. PICK q \in Int : a = Slots * q + Slot(a)
  BY SlotRange, Zenon
<1>2. a - Slots \in Int
  BY SlotsAre
<1>3. PICK r \in Int : a - Slots = Slots * r + Slot(a - Slots)
  BY <1>2, SlotRange, Zenon
<1>4. Slot(a) \in 0..(Slots - 1) /\ Slot(a - Slots) \in 0..(Slots - 1)
  BY <1>2, SlotRange, Zenon
<1>5. PICK u, v : u = Slot(a) /\ v = Slot(a - Slots)
  OBVIOUS
<1>6. u - v = Slots * (r + 1 - q)
  BY SlotsAre, <1>1, <1>3, <1>4, <1>5
<1>7. r + 1 - q = 0
  BY SlotsAre, <1>4, <1>5, <1>6, NoMultiple
<1> QED
  BY SlotsAre, <1>4, <1>5, <1>6, <1>7

(* The smallest and the largest of some numbers.                           *)
LEMMA MinIs ==
    ASSUME NEW S \in SUBSET Nat, S # {}
    PROVE  Min(S) \in S /\ \A y \in S : Min(S) <= y
<1>1. PICK x \in S : \A y \in S : ~(<<y, x>> \in OpToRel(<, Nat))
  BY WFMin, NatLessThanWellFounded, Zenon
<1>2. \A y \in S : ~(y < x)
  BY <1>1, Zenon DEF OpToRel
<1>3. \A y \in S : x <= y
  BY <1>2
<1> QED
  BY <1>3, Zenon DEF Min

LEMMA MaxIs ==
    ASSUME NEW S \in SUBSET Nat, S # {}, NEW b \in Nat, \A y \in S : y <= b
    PROVE  Max(S) \in S /\ \A y \in S : y <= Max(S)
<1> DEFINE T == {x \in 0..b : b - x \in S}
<1>1. T \subseteq Nat /\ T # {}
  <2>1. PICK y \in S : TRUE
    BY Zenon
  <2>2. PICK x : x = b - y
    OBVIOUS
  <2>3. x \in 0..b /\ b - x = y
    BY <2>2
  <2>4. x \in T
    BY <2>3, Zenon
  <2> QED
    BY <2>4
<1>2. PICK x \in T : \A y \in T : ~(<<y, x>> \in OpToRel(<, Nat))
  BY <1>1, WFMin, NatLessThanWellFounded, Zenon
<1>3. \A y \in T : x <= y
  <2>1. x \in Nat /\ \A y \in T : y \in Nat /\ ~(y < x)
    BY <1>1, <1>2, Zenon DEF OpToRel
  <2> QED
    BY <2>1
<1>4. \A y \in S : b - y \in T
  <2>1. \A y \in S : b - y \in 0..b /\ b - (b - y) = y
    OBVIOUS
  <2> QED
    BY <2>1, Zenon
<1>5. b - x \in S /\ \A y \in S : y <= b - x
  BY <1>3, <1>4
<1> QED
  BY <1>5, Zenon DEF Max

(* What a concatenation holds.                                             *)
LEMMA ConcatIs ==
    ASSUME NEW S, NEW s \in Seq(S), NEW t \in Seq(S)
    PROVE  /\ s \o t \in Seq(S) /\ Len(s \o t) = Len(s) + Len(t)
           /\ \A i \in 1..(Len(s) + Len(t)) : (s \o t)[i] = IF i <= Len(s) THEN s[i] ELSE t[i - Len(s)]
<1>1. s \o t \in Seq(S)
  OBVIOUS
<1>2. Len(s \o t) = Len(s) + Len(t)
  OBVIOUS
<1>3. \A i \in 1..(Len(s) + Len(t)) : (s \o t)[i] = IF i <= Len(s) THEN s[i] ELSE t[i - Len(s)]
  OBVIOUS
<1> QED
  BY <1>1, <1>2, <1>3, Zenon

(* A sequence of numbers up to n.                                          *)
LEMMA NarrowSeq ==
    ASSUME NEW n \in Nat, NEW g \in Seq(Nat), \A i \in 1..Len(g) : g[i] \in 0..n
    PROVE  g \in Seq(0..n)
<1>1. PICK m \in Nat : m = Len(g)
  OBVIOUS
<1>2. g \in [1..m -> 0..n]
  BY <1>1
<1> QED
  BY <1>2

-----------------------------------------------------------------------------
(* The first table with the key decides.                                   *)
LEMMA FirstHitIs ==
    ASSUME NEW s \in Seq([Keys -> Nat]), NEW k \in Keys
    PROVE  /\ FirstHit(s, k) \in Nat
           /\ FirstHit(s, k) = 0 <=> \A i \in 1..Len(s) : s[i][k] = 0
           /\ FirstHit(s, k) # 0 =>
                 \E i \in 1..Len(s) : s[i][k] = FirstHit(s, k) /\ \A j \in 1..Len(s) : j < i => s[j][k] = 0
<1> DEFINE hits == {i \in DOMAIN s : s[i][k] # 0}
<1>1. DOMAIN s = 1..Len(s) /\ Len(s) \in Nat /\ \A i \in 1..Len(s) : s[i][k] \in Nat
  OBVIOUS
<1>2. FirstHit(s, k) = IF hits = {} THEN 0 ELSE s[Min(hits)][k]
  BY Zenon DEF FirstHit
<1>3. CASE hits = {}
  <2>1. FirstHit(s, k) = 0
    BY <1>2, <1>3, Zenon
  <2>2. \A i \in 1..Len(s) : s[i][k] = 0
    BY <1>1, <1>3, Zenon
  <2> QED
    BY <2>1, <2>2
<1>4. CASE hits # {}
  <2>1. hits \in SUBSET Nat
    BY <1>1
  <2>2. Min(hits) \in hits /\ \A y \in hits : Min(hits) <= y
    BY <1>4, <2>1, MinIs, Zenon
  <2>3. PICK m : m = Min(hits)
    BY Zenon
  <2>4. m \in 1..Len(s) /\ s[m][k] # 0 /\ \A j \in 1..Len(s) : j < m => s[j][k] = 0
    <3>1. m \in hits /\ \A y \in hits : m <= y
      BY <2>2, <2>3, Zenon
    <3>2. \A j \in hits : ~(j < m)
      BY <1>1, <3>1
    <3> QED
      BY <1>1, <3>1, <3>2, Zenon
  <2>5. FirstHit(s, k) = s[m][k]
    BY <1>2, <1>4, <2>3, Zenon
  <2> QED
    BY <1>1, <2>4, <2>5, Zenon
<1> QED
  BY <1>3, <1>4, Zenon

-----------------------------------------------------------------------------
USE DEF active

LEMMA TypeFacts ==
    ASSUME WTypes
    PROVE  /\ Len(mem) \in Nat /\ Len(mem) >= 1 /\ DOMAIN mem = 1..Len(mem)
           /\ \A m \in 1..Len(mem) : mem[m] \in [Keys -> Nat]
           /\ \A m \in 1..Len(mem) : \A k \in Keys : mem[m][k] \in Nat
           /\ Len(l0) \in Nat /\ DOMAIN l0 = 1..Len(l0)
           /\ \A j \in 1..Len(l0) : \A k \in Keys : l0[j][k] \in Nat
           /\ Len(batch) \in Nat /\ inserted \in Nat /\ inserted <= Len(batch)
           /\ \A i \in 1..Len(batch) : batch[i] \in Keys \X Nat
           /\ Len(flush_queue) \in Nat /\ \A k \in Keys : table[k] \in Nat
           /\ Pending \in {0, 1} /\ Empty \in [Keys -> Nat] /\ \A k \in Keys : Empty[k] = 0
<1>1. /\ Len(mem) \in Nat /\ Len(mem) >= 1 /\ DOMAIN mem = 1..Len(mem)
      /\ \A m \in 1..Len(mem) : mem[m] \in [Keys -> Nat]
  BY DEF WTypes
<1>2. /\ Len(l0) \in Nat /\ DOMAIN l0 = 1..Len(l0)
      /\ \A j \in 1..Len(l0) : l0[j] \in [Keys -> Nat]
  BY DEF WTypes
<1>3. /\ Len(batch) \in Nat /\ inserted \in Nat /\ inserted <= Len(batch)
      /\ \A i \in 1..Len(batch) : batch[i] \in Keys \X Nat
  BY DEF WTypes
<1>4. Len(flush_queue) \in Nat /\ \A k \in Keys : table[k] \in Nat
  BY DEF WTypes
<1>5. Pending \in {0, 1}
  BY Zenon DEF Pending
<1>6. Empty \in [Keys -> Nat] /\ \A k \in Keys : Empty[k] = 0
  BY Zenon DEF Empty
<1> QED
  BY <1>1, <1>2, <1>3, <1>4, <1>5, <1>6, Zenon

(* Where the queue stands.                                                 *)
LEMMA RingFacts ==
    ASSUME WTypes, RingInv
    PROVE  /\ Len(mem) = imm_idx + 1 /\ Flushed \in Nat /\ imm_idx \in Nat /\ Slots \in Nat
           /\ Flushed <= imm_idx /\ imm_idx - Flushed <= Slots
           /\ Flushed + Pending + Len(flush_queue) = imm_idx
           /\ flush # "idle" => Flushed + 1 \in 1..imm_idx
<1>1. Len(mem) \in Nat /\ Len(flush_queue) \in Nat /\ Pending \in {0, 1}
  BY TypeFacts, Zenon
<1>2. Len(mem) = imm_idx + 1 /\ Flushed \in Nat /\ imm_idx - Flushed <= Slots
  BY Zenon DEF RingInv
<1>3. imm_idx \in Nat
  BY Zenon DEF WTypes
<1>4. Flushed = Len(mem) - 1 - Pending - Len(flush_queue)
  BY Zenon DEF Flushed
<1>5. flush # "idle" => Len(flush_queue) > 0
  BY Zenon DEF RingInv
<1>6. PICK L, P, a : L = Len(flush_queue) /\ P = Pending /\ a = Len(mem)
  BY Zenon
<1> QED
  BY <1>1, <1>2, <1>3, <1>4, <1>5, <1>6, SlotsAre

(* A step that leaves the ring and the queue alone.                        *)
LEMMA QuietRing ==
    ASSUME RingInv, Len(mem') = Len(mem), UNCHANGED <<immutables, imm_idx, flush_queue>>,
           Pending' = Pending, flush' # "idle" => Len(flush_queue) > 0
    PROVE  RingInv' /\ Flushed' = Flushed
<1>1. Flushed' = Flushed
  BY Zenon DEF Flushed
<1> QED
  BY <1>1, Zenon DEF RingInv

(* A step that leaves the memtables and level 0 alone.                     *)
LEMMA QuietAge ==
    ASSUME AgeInv, UNCHANGED <<mem, l0, table, flush>>, Flushed' = Flushed
    PROVE  AgeInv'
  BY Zenon DEF AgeInv

(* A step that changes neither memtables nor tables nor the batch.         *)
LEMMA QuietM ==
    ASSUME MInv, UNCHANGED <<puts, acked, com, batch, com_mem, inserted, ring, flusher, l0>>,
           rot' \in {"none", "maybe_flush", "rotate_wal", "enqueue", "ready"}, Pending' = Pending
    PROVE  MInv' /\ Flushed' = Flushed
<1>1. RingInv' /\ Flushed' = Flushed
  BY QuietRing, Zenon DEF MInv, ring, flusher, RingInv
<1>2. AgeInv'
  BY <1>1, QuietAge, Zenon DEF MInv, ring, flusher
<1>3. WTypes' /\ CommitInv'
  BY Zenon DEF MInv, WTypes, CommitInv, ring, flusher
<1> QED
  BY <1>1, <1>2, <1>3, Zenon DEF MInv

-----------------------------------------------------------------------------
(* What Freeze does.                                                       *)
LEMMA FreezeEffect ==
    ASSUME MInv, Freeze
    PROVE  /\ Flushed' = Flushed /\ Len(mem') = Len(mem) + 1 /\ mem' \in Seq([Keys -> Nat])
           /\ mem'[Len(mem) + 1] = Empty /\ \A m \in 1..Len(mem) : mem'[m] = mem[m]
<1>1. Len(mem) \in Nat /\ mem \in Seq([Keys -> Nat]) /\ Empty \in [Keys -> Nat]
  BY TypeFacts, Zenon DEF MInv, WTypes
<1>2. mem' = Append(mem, Empty) /\ rot = "maybe_flush" /\ rot' = "rotate_wal" /\ flush_queue' = flush_queue
  BY Zenon DEF Freeze, flusher
<1>3. /\ Len(mem') = Len(mem) + 1 /\ mem' \in Seq([Keys -> Nat])
      /\ mem'[Len(mem) + 1] = Empty /\ \A m \in 1..Len(mem) : mem'[m] = mem[m]
  BY <1>1, <1>2
<1>4. Pending = 0 /\ Pending' = 1
  BY <1>2, Zenon DEF Pending
<1>5. PICK L \in Nat : L = Len(flush_queue)
  BY TypeFacts, Zenon DEF MInv
<1>6. Flushed' = Flushed
  BY <1>1, <1>2, <1>3, <1>4, <1>5 DEF Flushed
<1> QED
  BY <1>3, <1>6, Zenon

LEMMA FreezeM ==
    ASSUME MInv, Freeze
    PROVE  MInv'
<1>1. PICK a, n, F : a = Len(mem) /\ n = imm_idx /\ F = Flushed
  BY Zenon
<1>2. a \in Nat /\ n \in Nat /\ F \in Nat /\ a = n + 1 /\ n - F <= Slots /\ F <= n
  BY <1>1, RingFacts DEF MInv
<1>3. /\ rot' = "rotate_wal" /\ imm_idx' = n + 1 /\ mem[a] # Empty /\ immutables[Slot(n)] = 0
      /\ immutables' = [immutables EXCEPT ![Slot(n)] = a]
      /\ UNCHANGED <<puts, acked, com, batch, com_mem, inserted, flush_queue, flush, table, l0>>
  BY <1>1, Zenon DEF Freeze, Slot, flusher
<1>4. /\ Flushed' = F /\ Len(mem') = a + 1 /\ mem' \in Seq([Keys -> Nat])
      /\ mem'[a + 1] = Empty /\ \A m \in 1..a : mem'[m] = mem[m]
  BY <1>1, FreezeEffect, Zenon
<1>5. immutables \in [0..(Slots - 1) -> Nat] /\ Slot(n) \in 0..(Slots - 1)
  <2>1. n \in Int
    BY <1>2
  <2>2. immutables \in [0..(Slots - 1) -> Nat]
    BY Zenon DEF MInv, WTypes
  <2> QED
    BY <2>1, <2>2, SlotRange, Zenon
<1>6. WTypes'
  <2>1. immutables' \in [0..(Slots - 1) -> Nat]
    BY <1>2, <1>3, <1>5, Zenon
  <2>2. imm_idx' \in Nat /\ Len(mem') >= 1
    BY <1>2, <1>3, <1>4
  <2> QED
    BY <1>3, <1>4, <2>1, <2>2, Zenon DEF MInv, WTypes
<1>7. RingInv'
  <2>1. /\ \A s \in 0..(Slots - 1) : immutables[s] # 0 => immutables[s] \in (F + 1)..n /\ Slot(immutables[s] - 1) = s
        /\ \A m \in (F + 1)..n : immutables[Slot(m - 1)] = m
    BY <1>1, Zenon DEF MInv, RingInv
  <2>2. n + 1 - F <= Slots
    <3>1. SUFFICES ASSUME n - F = Slots PROVE FALSE
      BY <1>2, SlotsAre
    <3>2. F + 1 \in (F + 1)..n /\ F = n - Slots /\ (F + 1) - 1 = F
      BY <1>2, <3>1, SlotsAre
    <3>3. immutables[Slot(F)] = F + 1
      BY <2>1, <3>2, Zenon
    <3>4. Slot(F) = Slot(n)
      BY <1>2, <3>2, SlotAgain
    <3> QED
      BY <1>2, <1>3, <3>3, <3>4
  <2>3. \A s \in 0..(Slots - 1) : immutables'[s] # 0 =>
           immutables'[s] \in (F + 1)..(n + 1) /\ Slot(immutables'[s] - 1) = s
    <3>1. SUFFICES ASSUME NEW s \in 0..(Slots - 1), immutables'[s] # 0
                   PROVE  immutables'[s] \in (F + 1)..(n + 1) /\ Slot(immutables'[s] - 1) = s
      OBVIOUS
    <3>2. CASE s = Slot(n)
      <4>1. immutables'[s] = a /\ a \in (F + 1)..(n + 1) /\ a - 1 = n
        BY <1>2, <1>3, <1>5, <3>2
      <4> QED
        BY <3>2, <4>1, Zenon
    <3>3. CASE s # Slot(n)
      <4>1. immutables'[s] = immutables[s]
        BY <1>3, <1>5, <3>3, Zenon
      <4>2. immutables[s] \in (F + 1)..n /\ Slot(immutables[s] - 1) = s
        BY <2>1, <3>1, <4>1, Zenon
      <4> QED
        BY <1>2, <4>1, <4>2
    <3> QED
      BY <3>2, <3>3, Zenon
  <2>4. \A m \in (F + 1)..(n + 1) : immutables'[Slot(m - 1)] = m
    <3>1. SUFFICES ASSUME NEW m \in (F + 1)..(n + 1) PROVE immutables'[Slot(m - 1)] = m
      OBVIOUS
    <3>2. CASE m = n + 1
      BY <1>2, <1>3, <1>5, <3>2
    <3>3. CASE m # n + 1
      <4>1. m \in (F + 1)..n /\ m # 0 /\ m - 1 \in Int
        BY <1>2, <3>3
      <4>2. immutables[Slot(m - 1)] = m /\ Slot(m - 1) \in 0..(Slots - 1)
        BY <2>1, <4>1, SlotRange, Zenon
      <4>3. Slot(m - 1) # Slot(n)
        BY <1>3, <4>1, <4>2, Zenon
      <4> QED
        BY <1>3, <1>5, <4>2, <4>3, Zenon
    <3> QED
      BY <3>2, <3>3, Zenon
  <2>5. /\ \A i \in 1..Len(flush_queue) : flush_queue[i] = <<F + i, Slot(F + i - 1)>>
        /\ flush # "idle" => Len(flush_queue) > 0
    BY <1>1, Zenon DEF MInv, RingInv
  <2>6. Len(mem') = imm_idx' + 1 /\ Flushed' \in Nat /\ imm_idx' - Flushed' <= Slots
    BY <1>2, <1>3, <1>4, <2>2
  <2>7. /\ \A i \in 1..Len(flush_queue') : flush_queue'[i] = <<Flushed' + i, Slot(Flushed' + i - 1)>>
        /\ flush' # "idle" => Len(flush_queue') > 0
    BY <1>3, <1>4, <2>5, Zenon
  <2>8. /\ \A s \in 0..(Slots - 1) : immutables'[s] # 0 =>
             immutables'[s] \in (Flushed' + 1)..imm_idx' /\ Slot(immutables'[s] - 1) = s
        /\ \A m \in (Flushed' + 1)..imm_idx' : immutables'[Slot(m - 1)] = m
    BY <1>3, <1>4, <2>3, <2>4, Zenon
  <2> QED
    BY <2>6, <2>7, <2>8, Zenon DEF RingInv
<1>8. CommitInv'
  <2>1. /\ com = "idle" => batch = <<>>
        /\ com # "memtable" => inserted = 0
        /\ Len(batch) <= puts
        /\ \A i \in 1..Len(batch) : batch[i][2] = puts - Len(batch) + i
    BY Zenon DEF MInv, CommitInv
  <2>2. com = "memtable" => com_mem = a
    BY <1>1, <1>3, Zenon DEF MInv, CommitInv
  <2>3. puts - Len(batch) + inserted >= 0
    BY <2>1, TypeFacts DEF MInv, WTypes
  <2>4. \A m \in 1..(a + 1) : \A k \in Keys : mem'[m][k] <= puts - Len(batch) + inserted
    <3>1. \A m \in 1..a : \A k \in Keys : mem[m][k] <= puts - Len(batch) + inserted
      BY <1>1, Zenon DEF MInv, CommitInv
    <3>2. \A k \in Keys : Empty[k] = 0
      BY Zenon DEF Empty
    <3>3. \A m \in 1..(a + 1) : m = a + 1 \/ m \in 1..a
      BY <1>2
    <3> QED
      BY <1>4, <2>3, <3>1, <3>2, <3>3, Zenon
  <2>5. com = "memtable" => com_mem = Len(mem') - 1 /\ com_mem > 0 /\ mem'[Len(mem')] = Empty
    BY <1>2, <1>4, <2>2
  <2> QED
    BY <1>3, <1>4, <2>1, <2>4, <2>5, Zenon DEF CommitInv
<1>9. AgeInv'
  <2>1. \A k \in Keys : Empty[k] = 0
    BY Zenon DEF Empty
  <2>2. \A m \in 1..(a + 1) : m = a + 1 \/ m \in 1..a
    BY <1>2
  <2>3. \A m \in 1..a : m \in 1..(a + 1)
    BY <1>2
  <2>4. \A m, i \in 1..(a + 1) : \A k \in Keys : m < i /\ mem'[i][k] # 0 => mem'[m][k] < mem'[i][k]
    <3>1. \A m, i \in 1..a : \A k \in Keys : m < i /\ mem[i][k] # 0 => mem[m][k] < mem[i][k]
      BY <1>1, Zenon DEF MInv, AgeInv
    <3>2. \A m, i \in 1..(a + 1) : \A k \in Keys : m < i /\ mem'[i][k] # 0 => m \in 1..a /\ i \in 1..a
      BY <1>2, <1>4, <2>1, <2>2
    <3> QED
      BY <1>4, <3>1, <3>2, Zenon
  <2>5. \A j \in 1..Len(l0) : \A k \in Keys : \E m \in 1..(a + 1) :
          m <= F + (IF flush = "reset" THEN 1 ELSE 0) /\ l0[j][k] <= mem'[m][k]
    <3>1. \A j \in 1..Len(l0) : \A k \in Keys : \E m \in 1..a :
            m <= F + (IF flush = "reset" THEN 1 ELSE 0) /\ l0[j][k] <= mem[m][k]
      BY <1>1, Zenon DEF MInv, AgeInv
    <3> QED
      BY <1>4, <2>3, <3>1, Zenon
  <2>6. flush = "publish" => \A k \in Keys :
          /\ table[k] <= mem'[F + 1][k]
          /\ table[k] # 0 => \A m \in 1..F : mem'[m][k] <= table[k]
    <3>1. (F + 1 \in 1..a /\ 1..F \subseteq 1..a) \/ flush # "publish"
      <4>1. flush = "publish" => Len(flush_queue) > 0
        BY Zenon DEF MInv, RingInv
      <4>2. Len(flush_queue) \in Nat /\ Pending \in {0, 1}
        BY TypeFacts, Zenon DEF MInv
      <4> QED
        BY <1>1, <1>2, <4>1, <4>2 DEF Flushed
    <3>2. flush = "publish" => \A k \in Keys :
            /\ table[k] <= mem[F + 1][k]
            /\ table[k] # 0 => \A m \in 1..F : mem[m][k] <= table[k]
      BY <1>1, Zenon DEF MInv, AgeInv
    <3> QED
      BY <1>4, <3>1, <3>2, Zenon
  <2>7. \A i, j \in 1..Len(l0) : \A k \in Keys : i < j /\ l0[i][k] # 0 => l0[j][k] <= l0[i][k]
    BY Zenon DEF MInv, AgeInv
  <2> QED
    BY <1>3, <1>4, <2>4, <2>5, <2>6, <2>7 DEF AgeInv
<1> QED
  BY <1>6, <1>7, <1>8, <1>9, Zenon DEF MInv

(* The queue grows by the memtable just frozen.                            *)
LEMMA EnqueueM ==
    ASSUME MInv, EnqueueFlush
    PROVE  MInv' /\ Flushed' = Flushed
<1>1. PICK n, F, L, q : n = imm_idx /\ F = Flushed /\ L = Len(flush_queue) /\ q = flush_queue
  BY Zenon
<1>2. /\ n \in Nat /\ F \in Nat /\ L \in Nat /\ F + Pending + L = n /\ Len(mem) = n + 1 /\ Slots \in Nat
      /\ q \in Seq(Nat \X Nat)
  BY <1>1, RingFacts, TypeFacts, Zenon DEF MInv, WTypes
<1>3. /\ rot = "enqueue" /\ rot' = "ready" /\ flush_queue' = Append(q, <<Len(mem) - 1, Slot(n - 1)>>)
      /\ UNCHANGED <<puts, acked, com, batch, com_mem, inserted, mem, immutables, imm_idx, flush, table, l0>>
  BY <1>1, Zenon DEF EnqueueFlush, Slot, ring
<1>4. Pending = 1 /\ Pending' = 0
  BY <1>3, Zenon DEF Pending
<1>5. F + L + 1 = n /\ Len(mem) - 1 = n /\ n - 1 = F + L
  BY <1>2, <1>4
<1>6. Slot(n - 1) \in Nat
  <2>1. n - 1 \in Int
    BY <1>2
  <2> QED
    BY <2>1, SlotRange, SlotsAre
<1>7. PICK e : e = <<Len(mem) - 1, Slot(n - 1)>>
  BY Zenon
<1>8. e \in Nat \X Nat /\ e = <<F + L + 1, Slot(F + L)>>
  BY <1>2, <1>5, <1>6, <1>7, Zenon
<1>9. flush_queue' = Append(q, e)
  BY <1>3, <1>7, Zenon
<1>10. /\ flush_queue' \in Seq(Nat \X Nat) /\ Len(flush_queue') = L + 1
       /\ flush_queue'[L + 1] = e /\ \A i \in 1..L : flush_queue'[i] = q[i]
  BY <1>1, <1>2, <1>8, <1>9
<1>11. Flushed' = F
  <2>1. Flushed' = Len(mem) - 1 - 0 - (L + 1)
    BY <1>3, <1>4, <1>10, Zenon DEF Flushed
  <2> QED
    BY <1>2, <1>5, <2>1
<1>12. RingInv'
  <2>1. \A i \in 1..L : q[i] = <<F + i, Slot(F + i - 1)>>
    BY <1>1, Zenon DEF MInv, RingInv
  <2>2. \A i \in 1..(L + 1) : flush_queue'[i] = <<F + i, Slot(F + i - 1)>>
    <3>1. \A i \in 1..(L + 1) : i = L + 1 \/ i \in 1..L
      BY <1>2
    <3>2. flush_queue'[L + 1] = <<F + (L + 1), Slot(F + (L + 1) - 1)>>
      <4>1. F + (L + 1) = F + L + 1 /\ F + (L + 1) - 1 = F + L
        BY <1>2
      <4> QED
        BY <1>8, <1>10, <4>1, Zenon
    <3> QED
      BY <1>10, <2>1, <3>1, <3>2, Zenon
  <2>3. /\ Len(mem') = imm_idx' + 1 /\ Flushed' \in Nat /\ imm_idx' - Flushed' <= Slots
        /\ Len(flush_queue') > 0
    BY <1>1, <1>2, <1>3, <1>10, <1>11, RingFacts DEF MInv
  <2>4. /\ \A s \in 0..(Slots - 1) : immutables'[s] # 0 =>
             immutables'[s] \in (Flushed' + 1)..imm_idx' /\ Slot(immutables'[s] - 1) = s
        /\ \A m \in (Flushed' + 1)..imm_idx' : immutables'[Slot(m - 1)] = m
    BY <1>1, <1>3, <1>11, Zenon DEF MInv, RingInv
  <2>5. \A i \in 1..Len(flush_queue') : flush_queue'[i] = <<Flushed' + i, Slot(Flushed' + i - 1)>>
    BY <1>10, <1>11, <2>2, Zenon
  <2> QED
    BY <2>3, <2>4, <2>5, Zenon DEF RingInv
<1>13. AgeInv'
  BY <1>1, <1>3, <1>11, QuietAge, Zenon DEF MInv
<1>14. WTypes' /\ CommitInv'
  BY <1>3, <1>10, Zenon DEF MInv, WTypes, CommitInv
<1> QED
  BY <1>1, <1>11, <1>12, <1>13, <1>14, Zenon DEF MInv

(* The slot is emptied and the task is done.                               *)
LEMMA ResetM ==
    ASSUME MInv, FlushReset
    PROVE  MInv' /\ Flushed' = Flushed + 1
<1>1. PICK n, F, L, q : n = imm_idx /\ F = Flushed /\ L = Len(flush_queue) /\ q = flush_queue
  BY Zenon
<1>2. /\ flush = "reset" /\ flush' = "idle" /\ table' = Empty /\ flush_queue' = Tail(q)
      /\ immutables' = [immutables EXCEPT ![Head(q)[2]] = 0]
      /\ UNCHANGED <<puts, acked, rot, com, batch, com_mem, inserted, mem, imm_idx, l0>>
  BY <1>1, Zenon DEF FlushReset, leader
<1>3. /\ n \in Nat /\ F \in Nat /\ L \in Nat /\ F + Pending + L = n /\ Len(mem) = n + 1 /\ Slots \in Nat
      /\ n - F <= Slots /\ q \in Seq(Nat \X Nat) /\ L > 0 /\ Pending \in {0, 1} /\ F + 1 \in 1..n
  <2>1. L > 0
    BY <1>1, <1>2, Zenon DEF MInv, RingInv
  <2> QED
    BY <1>1, <1>2, <2>1, RingFacts, TypeFacts, Zenon DEF MInv, WTypes
<1>4. \A i \in 1..L : q[i] = <<F + i, Slot(F + i - 1)>>
  BY <1>1, Zenon DEF MInv, RingInv
<1>5. Head(q)[2] = Slot(F)
  <2>1. Head(q) = q[1] /\ 1 \in 1..L /\ F + 1 - 1 = F
    BY <1>1, <1>3
  <2>2. q[1] = <<F + 1, Slot(F + 1 - 1)>>
    BY <1>4, <2>1, Zenon
  <2> QED
    BY <2>1, <2>2
<1>6. /\ flush_queue' \in Seq(Nat \X Nat) /\ Len(flush_queue') = L - 1
      /\ \A i \in 1..(L - 1) : flush_queue'[i] = q[i + 1]
  BY <1>1, <1>2, <1>3
<1>7. Pending' = Pending
  BY <1>2, Zenon DEF Pending
<1>8. Flushed' = F + 1
  <2>1. Flushed' = Len(mem) - 1 - Pending - (L - 1) /\ F = Len(mem) - 1 - Pending - L
    BY <1>1, <1>2, <1>6, <1>7, Zenon DEF Flushed
  <2> QED
    BY <1>3, <2>1
<1>9. immutables \in [0..(Slots - 1) -> Nat] /\ Slot(F) \in 0..(Slots - 1)
  <2>1. F \in Int
    BY <1>3
  <2>2. immutables \in [0..(Slots - 1) -> Nat]
    BY Zenon DEF MInv, WTypes
  <2> QED
    BY <2>1, <2>2, SlotRange, Zenon
<1>10. /\ immutables' \in [0..(Slots - 1) -> Nat] /\ immutables'[Slot(F)] = 0
       /\ \A s \in 0..(Slots - 1) : s # Slot(F) => immutables'[s] = immutables[s]
  BY <1>2, <1>5, <1>9, Zenon
<1>11. RingInv'
  <2>1. /\ \A s \in 0..(Slots - 1) : immutables[s] # 0 => immutables[s] \in (F + 1)..n /\ Slot(immutables[s] - 1) = s
        /\ \A m \in (F + 1)..n : immutables[Slot(m - 1)] = m
    BY <1>1, Zenon DEF MInv, RingInv
  <2>2. \A s \in 0..(Slots - 1) : immutables'[s] # 0 =>
           immutables'[s] \in (F + 1 + 1)..n /\ Slot(immutables'[s] - 1) = s
    <3>1. SUFFICES ASSUME NEW s \in 0..(Slots - 1), immutables'[s] # 0
                   PROVE  immutables'[s] \in (F + 1 + 1)..n /\ Slot(immutables'[s] - 1) = s
      OBVIOUS
    <3>2. s # Slot(F) /\ immutables'[s] = immutables[s]
      BY <1>10, <3>1, Zenon
    <3>3. PICK m \in (F + 1)..n : m = immutables[s] /\ Slot(m - 1) = s
      BY <2>1, <3>1, <3>2, Zenon
    <3>4. m # F + 1
      <4>1. m = F + 1 => m - 1 = F
        BY <1>3
      <4> QED
        BY <3>2, <3>3, <4>1, Zenon
    <3>5. m \in (F + 1 + 1)..n
      BY <1>3, <3>3, <3>4
    <3> QED
      BY <3>2, <3>3, <3>5, Zenon
  <2>3. \A m \in (F + 1 + 1)..n : immutables'[Slot(m - 1)] = m
    <3>1. SUFFICES ASSUME NEW m \in (F + 1 + 1)..n PROVE immutables'[Slot(m - 1)] = m
      OBVIOUS
    <3>2. m \in (F + 1)..n /\ m - 1 \in Int /\ F \in Int /\ (m - 1) - F < Slots /\ F - (m - 1) < Slots /\ m - 1 # F
      BY <1>3, SlotsAre
    <3>3. Slot(m - 1) # Slot(F) /\ Slot(m - 1) \in 0..(Slots - 1)
      BY <3>2, SlotsDiffer, SlotRange, Zenon
    <3> QED
      BY <1>10, <2>1, <3>2, <3>3, Zenon
  <2>4. \A i \in 1..(L - 1) : flush_queue'[i] = <<F + 1 + i, Slot(F + 1 + i - 1)>>
    <3>1. SUFFICES ASSUME NEW i \in 1..(L - 1) PROVE flush_queue'[i] = <<F + 1 + i, Slot(F + 1 + i - 1)>>
      OBVIOUS
    <3>2. i + 1 \in 1..L /\ F + (i + 1) = F + 1 + i /\ F + (i + 1) - 1 = F + 1 + i - 1
      BY <1>3
    <3>3. q[i + 1] = <<F + (i + 1), Slot(F + (i + 1) - 1)>>
      BY <1>4, <3>2, Zenon
    <3> QED
      BY <1>6, <3>2, <3>3, Zenon
  <2>5. Len(mem') = imm_idx' + 1 /\ Flushed' \in Nat /\ imm_idx' - Flushed' <= Slots
    BY <1>1, <1>2, <1>3, <1>8
  <2>6. /\ \A i \in 1..Len(flush_queue') : flush_queue'[i] = <<Flushed' + i, Slot(Flushed' + i - 1)>>
        /\ ~(flush' # "idle")
    BY <1>2, <1>6, <1>8, <2>4, Zenon
  <2>7. /\ \A s \in 0..(Slots - 1) : immutables'[s] # 0 =>
             immutables'[s] \in (Flushed' + 1)..imm_idx' /\ Slot(immutables'[s] - 1) = s
        /\ \A m \in (Flushed' + 1)..imm_idx' : immutables'[Slot(m - 1)] = m
    BY <1>1, <1>2, <1>8, <2>2, <2>3, Zenon
  <2> QED
    BY <2>5, <2>6, <2>7, Zenon DEF RingInv
<1>12. AgeInv'
  <2>1. \A j \in 1..Len(l0) : \A k \in Keys : \E m \in 1..Len(mem) : m <= F + 1 /\ l0[j][k] <= mem[m][k]
    BY <1>1, <1>2, Zenon DEF MInv, AgeInv
  <2>2. F + 1 + 0 = F + 1
    BY <1>3
  <2> QED
    BY <1>2, <1>8, <2>1, <2>2, Zenon DEF MInv, AgeInv
<1>13. WTypes'
  <2>1. table' \in [Keys -> Nat]
    BY <1>2, Zenon DEF Empty
  <2> QED
    BY <1>2, <1>6, <1>10, <2>1, Zenon DEF MInv, WTypes
<1>14. CommitInv'
  BY <1>2, Zenon DEF MInv, CommitInv
<1> QED
  BY <1>1, <1>8, <1>11, <1>12, <1>13, <1>14, Zenon DEF MInv

(* The flush task copies its memtable.                                     *)
LEMMA FlushReadM ==
    ASSUME MInv, FlushRead
    PROVE  MInv' /\ Flushed' = Flushed /\ table' = mem[Flushed + 1] /\ Flushed + 1 \in 1..Len(mem)
<1>1. PICK F, L, q : F = Flushed /\ L = Len(flush_queue) /\ q = flush_queue
  BY Zenon
<1>2. /\ q # <<>> /\ table' = mem[Head(q)[1]] /\ flush' = "publish" /\ flush = "idle"
      /\ UNCHANGED <<puts, acked, rot, com, batch, com_mem, inserted, mem, immutables, imm_idx, flush_queue, l0>>
  BY <1>1, Zenon DEF FlushRead, leader, ring
<1>3. /\ F \in Nat /\ L \in Nat /\ F + Pending + L = imm_idx /\ Len(mem) = imm_idx + 1
      /\ q \in Seq(Nat \X Nat) /\ Pending \in {0, 1} /\ imm_idx \in Nat
  BY <1>1, RingFacts, TypeFacts, Zenon DEF MInv, WTypes
<1>4. L > 0 /\ Head(q) = q[1] /\ 1 \in 1..L
  BY <1>1, <1>2, <1>3
<1>5. F + 1 \in 1..Len(mem) /\ 1..F \subseteq 1..Len(mem) /\ Head(q)[1] = F + 1
  <2>1. q[1] = <<F + 1, Slot(F + 1 - 1)>>
    BY <1>1, <1>4, Zenon DEF MInv, RingInv
  <2>2. F + 1 \in 1..Len(mem) /\ 1..F \subseteq 1..Len(mem)
    BY <1>3, <1>4
  <2> QED
    BY <1>4, <2>1, <2>2
<1>6. table' = mem[F + 1] /\ mem[F + 1] \in [Keys -> Nat]
  BY <1>2, <1>5, TypeFacts, Zenon DEF MInv
<1>7. RingInv' /\ Flushed' = F
  <2>1. Pending' = Pending
    BY <1>2, Zenon DEF Pending
  <2> QED
    BY <1>1, <1>2, <1>4, <2>1, QuietRing, Zenon DEF MInv
<1>8. AgeInv'
  <2>1. \A m, i \in 1..Len(mem) : \A k \in Keys : m < i /\ mem[i][k] # 0 => mem[m][k] < mem[i][k]
    BY Zenon DEF MInv, AgeInv
  <2>2. \A m \in 1..Len(mem) : \A k \in Keys : mem[m][k] \in Nat
    BY TypeFacts, Zenon DEF MInv
  <2>3. \A k \in Keys : /\ table'[k] <= mem[F + 1][k]
                        /\ table'[k] # 0 => \A m \in 1..F : mem[m][k] <= table'[k]
    <3>1. \A m \in 1..F : m < F + 1
      BY <1>3
    <3> QED
      BY <1>5, <1>6, <2>1, <2>2, <3>1
  <2>4. \A j \in 1..Len(l0) : \A k \in Keys : \E m \in 1..Len(mem) : m <= F + 0 /\ l0[j][k] <= mem[m][k]
    BY <1>1, <1>2, Zenon DEF MInv, AgeInv
  <2> QED
    BY <1>2, <1>7, <2>3, <2>4, Zenon DEF MInv, AgeInv
<1>9. WTypes' /\ CommitInv'
  BY <1>2, <1>6, Zenon DEF MInv, WTypes, CommitInv
<1> QED
  BY <1>1, <1>5, <1>6, <1>7, <1>8, <1>9, Zenon DEF MInv

(* The table is published in front of the older ones.                      *)
LEMMA PublishM ==
    ASSUME MInv, FlushPublish
    PROVE  /\ MInv' /\ Flushed' = Flushed
           /\ Len(l0') = Len(l0) + 1 /\ l0'[1] = table /\ \A j \in 1..Len(l0) : l0'[j + 1] = l0[j]
<1>1. PICK F, N, l : F = Flushed /\ N = Len(l0) /\ l = l0
  BY Zenon
<1>2. /\ l0' = <<table>> \o l /\ flush = "publish" /\ flush' = "reset"
      /\ UNCHANGED <<puts, acked, rot, com, batch, com_mem, inserted, mem, immutables, imm_idx, flush_queue, table>>
  BY <1>1, Zenon DEF FlushPublish, leader, ring
<1>3. /\ F \in Nat /\ N \in Nat /\ Len(mem) \in Nat /\ F + 1 \in 1..Len(mem) /\ table \in [Keys -> Nat]
      /\ l \in Seq([Keys -> Nat])
  <2>1. F + 1 \in 1..imm_idx /\ F \in Nat /\ Len(mem) = imm_idx + 1 /\ imm_idx \in Nat
    BY <1>1, <1>2, RingFacts, Zenon DEF MInv
  <2>2. N \in Nat /\ table \in [Keys -> Nat] /\ l \in Seq([Keys -> Nat])
    BY <1>1, TypeFacts, Zenon DEF MInv, WTypes
  <2> QED
    BY <2>1, <2>2
<1>4. /\ l0' \in Seq([Keys -> Nat]) /\ Len(l0') = N + 1 /\ l0'[1] = table
      /\ \A j \in 1..N : l0'[j + 1] = l[j]
  BY <1>1, <1>2, <1>3
<1>5. RingInv' /\ Flushed' = F
  <2>1. Pending' = Pending
    BY <1>2, Zenon DEF Pending
  <2>2. Len(flush_queue) > 0
    BY <1>2, Zenon DEF MInv, RingInv
  <2> QED
    BY <1>1, <1>2, <2>1, <2>2, QuietRing, Zenon DEF MInv
<1>6. \A j \in 1..(N + 1) : j # 1 => j - 1 \in 1..N /\ l0'[j] = l[j - 1]
  <2>1. SUFFICES ASSUME NEW j \in 1..(N + 1), j # 1 PROVE j - 1 \in 1..N /\ l0'[j] = l[j - 1]
    OBVIOUS
  <2>2. j - 1 \in 1..N /\ (j - 1) + 1 = j
    BY <1>3, <2>1
  <2> QED
    BY <1>4, <2>2, Zenon
<1>7. \A j \in 1..N : \A k \in Keys : \E m \in 1..Len(mem) : m <= F /\ l[j][k] <= mem[m][k]
  <2>1. \A j \in 1..N : \A k \in Keys : \E m \in 1..Len(mem) : m <= F + 0 /\ l[j][k] <= mem[m][k]
    BY <1>1, <1>2, Zenon DEF MInv, AgeInv
  <2>2. F + 0 = F
    BY <1>3
  <2> QED
    BY <2>1, <2>2, Zenon
<1>8. \A k \in Keys : /\ table[k] <= mem[F + 1][k]
                      /\ table[k] # 0 => \A m \in 1..F : mem[m][k] <= table[k]
  BY <1>1, <1>2, Zenon DEF MInv, AgeInv
<1>9. AgeInv'
  <2>1. \A j \in 1..(N + 1) : \A k \in Keys : \E m \in 1..Len(mem) : m <= F + 1 /\ l0'[j][k] <= mem[m][k]
    <3>1. SUFFICES ASSUME NEW j \in 1..(N + 1), NEW k \in Keys
                   PROVE  \E m \in 1..Len(mem) : m <= F + 1 /\ l0'[j][k] <= mem[m][k]
      OBVIOUS
    <3>2. CASE j = 1
      <4>1. F + 1 <= F + 1 /\ l0'[j][k] <= mem[F + 1][k]
        BY <1>3, <1>4, <1>8, <3>2
      <4> QED
        BY <1>3, <4>1, Zenon
    <3>3. CASE j # 1
      <4>1. j - 1 \in 1..N /\ l0'[j] = l[j - 1]
        BY <1>6, <3>3, Zenon
      <4>2. PICK m \in 1..Len(mem) : m <= F /\ l[j - 1][k] <= mem[m][k]
        BY <1>7, <4>1, Zenon
      <4>3. m <= F + 1
        BY <1>3, <4>2
      <4> QED
        BY <4>1, <4>2, <4>3, Zenon
    <3> QED
      BY <3>2, <3>3, Zenon
  <2>2. \A i, j \in 1..(N + 1) : \A k \in Keys : i < j /\ l0'[i][k] # 0 => l0'[j][k] <= l0'[i][k]
    <3>1. SUFFICES ASSUME NEW i \in 1..(N + 1), NEW j \in 1..(N + 1), NEW k \in Keys, i < j, l0'[i][k] # 0
                   PROVE  l0'[j][k] <= l0'[i][k]
      OBVIOUS
    <3>2. j # 1
      BY <1>3, <3>1
    <3>3. j - 1 \in 1..N /\ l0'[j] = l[j - 1]
      BY <1>6, <3>2, Zenon
    <3>4. CASE i = 1
      <4>1. PICK m \in 1..Len(mem) : m <= F /\ l[j - 1][k] <= mem[m][k]
        BY <1>7, <3>3, Zenon
      <4>2. m \in 1..F
        BY <1>3, <4>1
      <4>3. mem[m][k] <= table[k]
        BY <1>4, <1>8, <3>1, <3>4, <4>2, Zenon
      <4>4. l[j - 1][k] \in Nat /\ mem[m][k] \in Nat /\ table[k] \in Nat
        BY <1>1, <3>3, TypeFacts, Zenon DEF MInv
      <4> QED
        BY <1>4, <3>3, <3>4, <4>1, <4>3, <4>4, SMTT(20)
    <3>5. CASE i # 1
      <4>1. i - 1 \in 1..N /\ l0'[i] = l[i - 1] /\ i - 1 < j - 1
        BY <1>3, <1>6, <3>1, <3>5
      <4>2. \A x, y \in 1..N : x < y /\ l[x][k] # 0 => l[y][k] <= l[x][k]
        BY <1>1, Zenon DEF MInv, AgeInv
      <4> QED
        BY <3>1, <3>3, <4>1, <4>2, Zenon
    <3> QED
      BY <3>4, <3>5, Zenon
  <2>3. \A m, n \in 1..Len(mem) : \A k \in Keys : m < n /\ mem[n][k] # 0 => mem[m][k] < mem[n][k]
    BY Zenon DEF MInv, AgeInv
  <2> QED
    BY <1>2, <1>4, <1>5, <2>1, <2>2, <2>3, Zenon DEF AgeInv
<1>10. WTypes' /\ CommitInv'
  BY <1>2, <1>4, Zenon DEF MInv, WTypes, CommitInv
<1> QED
  BY <1>1, <1>4, <1>5, <1>9, <1>10, Zenon DEF MInv

(* The table is not published: the memtable will leave the ring all the    *)
(* same.                                                                   *)
LEMMA FlushFailsM ==
    ASSUME MInv, FlushFails
    PROVE  MInv'
<1>1. PICK F : F = Flushed
  OBVIOUS
<1>2. /\ flush = "publish" /\ flush' = "reset"
      /\ UNCHANGED <<puts, acked, rot, com, batch, com_mem, inserted, mem, immutables, imm_idx, flush_queue, table, l0>>
  BY Zenon DEF FlushFails, leader, ring
<1>3. RingInv' /\ Flushed' = F
  <2>1. Pending' = Pending
    BY <1>2, Zenon DEF Pending
  <2>2. Len(flush_queue) > 0
    BY <1>2, Zenon DEF MInv, RingInv
  <2> QED
    BY <1>1, <1>2, <2>1, <2>2, QuietRing, Zenon DEF MInv
<1>4. AgeInv'
  <2>1. F \in Nat /\ Len(mem) \in Nat
    BY <1>1, RingFacts, TypeFacts, Zenon DEF MInv
  <2>2. \A m \in 1..Len(mem) : m <= F + 0 => m <= F + 1
    BY <2>1
  <2>3. \A j \in 1..Len(l0) : \A k \in Keys : \E m \in 1..Len(mem) : m <= F + 0 /\ l0[j][k] <= mem[m][k]
    BY <1>1, <1>2, Zenon DEF MInv, AgeInv
  <2>4. \A j \in 1..Len(l0) : \A k \in Keys : \E m \in 1..Len(mem) : m <= F + 1 /\ l0[j][k] <= mem[m][k]
    BY <2>2, <2>3, Zenon
  <2>5. /\ \A m, n \in 1..Len(mem) : \A k \in Keys : m < n /\ mem[n][k] # 0 => mem[m][k] < mem[n][k]
        /\ \A i, j \in 1..Len(l0) : \A k \in Keys : i < j /\ l0[i][k] # 0 => l0[j][k] <= l0[i][k]
    BY Zenon DEF MInv, AgeInv
  <2> QED
    BY <1>2, <1>3, <2>4, <2>5, Zenon DEF AgeInv
<1>5. WTypes' /\ CommitInv'
  BY <1>2, Zenon DEF MInv, WTypes, CommitInv
<1> QED
  BY <1>1, <1>3, <1>4, <1>5, Zenon DEF MInv

-----------------------------------------------------------------------------
(* The commit.                                                             *)
LEMMA DrainM ==
    ASSUME MInv, Drain
    PROVE  MInv' /\ Flushed' = Flushed /\ puts' \in Nat /\ puts' - Len(batch') = puts /\ Len(batch) = 0 /\ inserted = 0
<1>1. /\ rot = "ready" /\ com = "idle" /\ rot' = "none" /\ com' = "wal"
      /\ UNCHANGED <<acked, com_mem, inserted, mem, immutables, imm_idx, flush_queue, flush, table, l0>>
  BY Zenon DEF Drain, ring, flusher
<1>2. PICK n \in 1..MaxBatch : \E keys \in [1..n -> Keys] :
         batch' = [i \in 1..n |-> <<keys[i], puts + i>>] /\ puts' = puts + n
  BY Zenon DEF Drain
<1>3. PICK keys \in [1..n -> Keys] : batch' = [i \in 1..n |-> <<keys[i], puts + i>>]
  BY <1>2, Zenon
<1>4. n \in Nat /\ puts \in Nat /\ inserted = 0 /\ Len(batch) = 0
  <2>1. n \in Nat
    BY WritePathAssumption
  <2>2. batch = <<>> /\ inserted = 0
    BY <1>1, Zenon DEF MInv, CommitInv
  <2> QED
    BY <2>1, <2>2, Zenon DEF MInv, WTypes
<1>5. /\ batch' \in Seq(Keys \X Nat) /\ Len(batch') = n
      /\ \A i \in 1..n : batch'[i] = <<keys[i], puts + i>>
  <2>1. \A i \in 1..n : <<keys[i], puts + i>> \in Keys \X Nat
    BY <1>4
  <2> QED
    BY <1>3, <1>4, <2>1
<1>6. WTypes'
  <2>1. puts' \in Nat /\ inserted' \in 0..Len(batch')
    BY <1>1, <1>2, <1>4, <1>5
  <2> QED
    BY <1>1, <1>5, <2>1, Zenon DEF MInv, WTypes
<1>7. CommitInv'
  <2>1. Len(batch') <= puts' /\ \A i \in 1..Len(batch') : batch'[i][2] = puts' - Len(batch') + i
    BY <1>2, <1>4, <1>5
  <2>2. puts' - Len(batch') + inserted' = puts - Len(batch) + inserted
    BY <1>1, <1>2, <1>4, <1>5
  <2>3. \A m \in 1..Len(mem') : \A k \in Keys : mem'[m][k] <= puts' - Len(batch') + inserted'
    BY <1>1, <2>2, Zenon DEF MInv, CommitInv
  <2> QED
    BY <1>1, <1>4, <2>1, <2>3, Zenon DEF CommitInv
<1>8. RingInv' /\ Flushed' = Flushed
  <2>1. Pending' = Pending
    BY <1>1, Zenon DEF Pending
  <2> QED
    BY <1>1, <2>1, QuietRing, Zenon DEF MInv, RingInv
<1>9. AgeInv'
  BY <1>1, <1>8, QuietAge, Zenon DEF MInv
<1>10. puts' \in Nat /\ puts' - Len(batch') = puts
  BY <1>2, <1>4, <1>5
<1> QED
  BY <1>4, <1>6, <1>7, <1>8, <1>9, <1>10, Zenon DEF MInv

(* The WAL is written, the active memtable is looked up.                   *)
LEMMA StageM ==
    ASSUME MInv, WalStage \/ LoadActive
    PROVE  MInv' /\ Flushed' = Flushed
<1>1. /\ UNCHANGED <<puts, acked, rot, batch, mem, immutables, imm_idx, flush_queue, flush, table, l0>>
      /\ com # "idle" /\ inserted' = 0 /\ com # "memtable" /\ inserted = 0
      /\ \/ com' = "load"
         \/ com' = "memtable" /\ com_mem' = Len(mem)
  <2>1. com # "memtable" => inserted = 0
    BY Zenon DEF MInv, CommitInv
  <2> QED
    BY <2>1, Zenon DEF WalStage, LoadActive, ring, flusher
<1>2. RingInv' /\ Flushed' = Flushed
  <2>1. Pending' = Pending
    BY <1>1, Zenon DEF Pending
  <2> QED
    BY <1>1, <2>1, QuietRing, Zenon DEF MInv, RingInv
<1>3. AgeInv'
  BY <1>1, <1>2, QuietAge, Zenon DEF MInv
<1>4. CommitInv'
  BY <1>1, Zenon DEF MInv, CommitInv
<1>5. WTypes'
  BY <1>1, Zenon DEF MInv, WTypes
<1> QED
  BY <1>2, <1>3, <1>4, <1>5, Zenon DEF MInv

(* One insertion: one key of one memtable gets a value above all others.   *)
LEMMA PutEffect ==
    ASSUME MInv, MemtablePut
    PROVE  \E c \in 1..Len(mem), key \in Keys, v \in Nat :
              /\ c = com_mem /\ inserted + 1 \in 1..Len(batch) /\ batch[inserted + 1] = <<key, v>>
              /\ v = puts - Len(batch) + inserted + 1 /\ v > 0
              /\ mem' \in Seq([Keys -> Nat]) /\ Len(mem') = Len(mem)
              /\ \A m \in 1..Len(mem) : \A k \in Keys :
                    mem'[m][k] = IF m = c /\ k = key THEN v ELSE mem[m][k]
              /\ \A m \in 1..Len(mem) : m # c => mem'[m] = mem[m]
              /\ \A m \in 1..Len(mem) : \A k \in Keys : mem[m][k] < v
<1>1. PICK c, key, v : c = com_mem /\ key = batch[inserted + 1][1] /\ v = batch[inserted + 1][2]
  OBVIOUS
<1>2. /\ com = "memtable" /\ inserted < Len(batch) /\ inserted' = inserted + 1
      /\ mem' = [mem EXCEPT ![c][key] = v]
  BY <1>1, Zenon DEF MemtablePut
<1>3. /\ Len(mem) \in Nat /\ Len(mem) >= 1 /\ inserted \in Nat /\ Len(batch) \in Nat /\ puts \in Nat
      /\ mem \in Seq([Keys -> Nat])
  BY TypeFacts, Zenon DEF MInv, WTypes
<1>4. inserted + 1 \in 1..Len(batch)
  BY <1>2, <1>3
<1>5. batch[inserted + 1] \in Keys \X Nat
  BY <1>4, TypeFacts, Zenon DEF MInv
<1>6. key \in Keys /\ v \in Nat /\ batch[inserted + 1] = <<key, v>>
  BY <1>1, <1>5
<1>7. v = puts - Len(batch) + inserted + 1 /\ v > 0
  <2>1. v = puts - Len(batch) + (inserted + 1) /\ Len(batch) <= puts
    BY <1>1, <1>4, Zenon DEF MInv, CommitInv
  <2> QED
    BY <1>3, <2>1
<1>8. c \in 1..Len(mem)
  <2>1. com = "memtable" => \/ com_mem = Len(mem)
                            \/ com_mem = Len(mem) - 1 /\ com_mem > 0 /\ mem[Len(mem)] = Empty
    BY Zenon DEF MInv, CommitInv
  <2> QED
    BY <1>1, <1>2, <1>3, <2>1
<1>9. /\ mem' \in Seq([Keys -> Nat]) /\ Len(mem') = Len(mem)
      /\ \A m \in 1..Len(mem) : \A k \in Keys : mem'[m][k] = IF m = c /\ k = key THEN v ELSE mem[m][k]
      /\ \A m \in 1..Len(mem) : m # c => mem'[m] = mem[m]
  <2>1. mem' = [mem EXCEPT ![c] = [mem[c] EXCEPT ![key] = v]]
    BY <1>2, Zenon
  <2>2. PICK t : t = [mem[c] EXCEPT ![key] = v]
    BY Zenon
  <2>3. /\ t \in [Keys -> Nat] /\ \A k \in Keys : t[k] = IF k = key THEN v ELSE mem[c][k]
    <3>1. mem[c] \in [Keys -> Nat]
      BY <1>8, TypeFacts, Zenon DEF MInv
    <3> QED
      BY <1>6, <2>2, <3>1, Zenon
  <2>4. /\ mem' \in Seq([Keys -> Nat]) /\ Len(mem') = Len(mem) /\ mem'[c] = t
        /\ \A m \in 1..Len(mem) : m # c => mem'[m] = mem[m]
    BY <1>3, <1>8, <2>1, <2>2, <2>3, SMTT(20)
  <2> QED
    BY <2>3, <2>4, Zenon
<1>10. \A m \in 1..Len(mem) : \A k \in Keys : mem[m][k] < v
  <2>1. \A m \in 1..Len(mem) : \A k \in Keys : mem[m][k] <= puts - Len(batch) + inserted /\ mem[m][k] \in Nat
    BY TypeFacts, Zenon DEF MInv, CommitInv
  <2> QED
    BY <1>3, <1>7, <2>1
<1> QED
  BY <1>1, <1>4, <1>6, <1>7, <1>8, <1>9, <1>10, Zenon

LEMMA PutM ==
    ASSUME MInv, MemtablePut
    PROVE  MInv' /\ Flushed' = Flushed
<1>1. PICK c \in 1..Len(mem), key \in Keys, v \in Nat :
        /\ c = com_mem /\ inserted + 1 \in 1..Len(batch) /\ batch[inserted + 1] = <<key, v>>
        /\ v = puts - Len(batch) + inserted + 1 /\ v > 0
        /\ mem' \in Seq([Keys -> Nat]) /\ Len(mem') = Len(mem)
        /\ \A m \in 1..Len(mem) : \A k \in Keys :
              mem'[m][k] = IF m = c /\ k = key THEN v ELSE mem[m][k]
        /\ \A m \in 1..Len(mem) : m # c => mem'[m] = mem[m]
        /\ \A m \in 1..Len(mem) : \A k \in Keys : mem[m][k] < v
  BY PutEffect, Zenon
<1>2. /\ com = "memtable" /\ inserted' = inserted + 1
      /\ UNCHANGED <<puts, acked, rot, com, batch, com_mem, immutables, imm_idx, flush_queue, flush, table, l0>>
  BY Zenon DEF MemtablePut, flusher
<1>3. PICK F, N : F = Flushed /\ N = Len(mem)
  OBVIOUS
<1>4. /\ N \in Nat /\ F \in Nat /\ c \in 1..N
      /\ c = N \/ (c = N - 1 /\ mem[N] = Empty)
      /\ puts \in Nat /\ Len(batch) \in Nat /\ inserted \in Nat
  <2>1. com = "memtable" => \/ com_mem = Len(mem)
                            \/ com_mem = Len(mem) - 1 /\ com_mem > 0 /\ mem[Len(mem)] = Empty
    BY Zenon DEF MInv, CommitInv
  <2>2. N \in Nat /\ F \in Nat /\ puts \in Nat /\ Len(batch) \in Nat /\ inserted \in Nat
    BY <1>3, RingFacts, TypeFacts, Zenon DEF MInv, WTypes
  <2> QED
    BY <1>1, <1>2, <1>3, <2>1, <2>2, Zenon
<1>5. \A m \in 1..N : \A k \in Keys :
         mem[m][k] \in Nat /\ mem'[m][k] \in Nat /\ mem[m][k] <= mem'[m][k] /\ mem'[m][k] <= v
  <2>1. SUFFICES ASSUME NEW m \in 1..N, NEW k \in Keys
                 PROVE  mem[m][k] \in Nat /\ mem'[m][k] \in Nat /\ mem[m][k] <= mem'[m][k] /\ mem'[m][k] <= v
    OBVIOUS
  <2>2. mem[m][k] \in Nat /\ mem[m][k] < v
    BY <1>1, <1>3, TypeFacts, Zenon DEF MInv
  <2>3. mem'[m][k] = v \/ mem'[m][k] = mem[m][k]
    BY <1>1, <1>3, Zenon
  <2> QED
    BY <2>2, <2>3
<1>6. RingInv' /\ Flushed' = F
  <2>1. Pending' = Pending
    BY <1>2, Zenon DEF Pending
  <2> QED
    BY <1>1, <1>2, <1>3, <2>1, QuietRing, Zenon DEF MInv, RingInv
<1>7. WTypes'
  <2>1. inserted' \in 0..Len(batch')
    BY <1>1, <1>2, <1>4
  <2>2. Len(mem') >= 1
    BY <1>1, <1>3, <1>4
  <2> QED
    BY <1>1, <1>2, <2>1, <2>2, Zenon DEF MInv, WTypes
<1>8. CommitInv'
  <2>1. mem[N] = Empty /\ c # N => mem'[N] = Empty
    BY <1>1, <1>3, <1>4, SMTT(20)
  <2>2. com_mem' = N \/ (com_mem' = N - 1 /\ com_mem' > 0 /\ mem'[N] = Empty)
    BY <1>1, <1>2, <1>4, <2>1
  <2>3. \A m \in 1..N : \A k \in Keys : mem'[m][k] <= puts' - Len(batch') + inserted'
    <3>1. puts' - Len(batch') + inserted' = v
      BY <1>1, <1>2, <1>4
    <3> QED
      BY <1>5, <3>1, Zenon
  <2>4. /\ Len(batch) <= puts
        /\ \A i \in 1..Len(batch) : batch[i][2] = puts - Len(batch) + i
    BY Zenon DEF MInv, CommitInv
  <2> QED
    BY <1>1, <1>2, <1>3, <2>2, <2>3, <2>4, Zenon DEF CommitInv
<1>9. AgeInv'
  <2>1. \A m, n \in 1..N : \A k \in Keys : m < n /\ mem'[n][k] # 0 => mem'[m][k] < mem'[n][k]
    <3>1. SUFFICES ASSUME NEW m \in 1..N, NEW n \in 1..N, NEW k \in Keys, m < n, mem'[n][k] # 0
                   PROVE  mem'[m][k] < mem'[n][k]
      OBVIOUS
    <3>2. mem[n][k] # 0 => mem[m][k] < mem[n][k]
      BY <1>3, <3>1, Zenon DEF MInv, AgeInv
    <3>3. CASE n = c /\ k = key
      <4>1. m # c
        BY <1>4, <3>1, <3>3
      <4>2. mem'[n][k] = v /\ mem'[m][k] = mem[m][k] /\ mem[m][k] < v
        BY <1>1, <1>3, <3>3, <4>1, Zenon
      <4> QED
        BY <4>2, Zenon
    <3>4. CASE m = c /\ k = key
      <4>1. n # c /\ n = N /\ c # N
        BY <1>4, <3>1, <3>4
      <4>2. mem'[n][k] = mem[n][k]
        BY <1>1, <1>3, <4>1, Zenon
      <4>3. mem[n][k] = 0
        BY <1>4, <4>1, Zenon DEF Empty
      <4> QED
        BY <3>1, <4>2, <4>3, Zenon
    <3>5. CASE ~(n = c /\ k = key) /\ ~(m = c /\ k = key)
      <4>1. mem'[n][k] = mem[n][k] /\ mem'[m][k] = mem[m][k]
        BY <1>1, <1>3, <3>5, Zenon
      <4> QED
        BY <3>1, <3>2, <4>1, Zenon
    <3> QED
      BY <3>3, <3>4, <3>5, Zenon
  <2>2. \A j \in 1..Len(l0) : \A k \in Keys : \E m \in 1..N :
           m <= F + (IF flush = "reset" THEN 1 ELSE 0) /\ l0[j][k] <= mem'[m][k]
    <3>1. SUFFICES ASSUME NEW j \in 1..Len(l0), NEW k \in Keys
                   PROVE  \E m \in 1..N : m <= F + (IF flush = "reset" THEN 1 ELSE 0) /\ l0[j][k] <= mem'[m][k]
      OBVIOUS
    <3>2. PICK m \in 1..N : m <= F + (IF flush = "reset" THEN 1 ELSE 0) /\ l0[j][k] <= mem[m][k]
      BY <1>3, Zenon DEF MInv, AgeInv
    <3>3. l0[j][k] \in Nat /\ mem[m][k] \in Nat /\ mem'[m][k] \in Nat /\ mem[m][k] <= mem'[m][k]
      BY <1>5, TypeFacts, Zenon DEF MInv
    <3>4. l0[j][k] <= mem'[m][k]
      BY <3>2, <3>3, SMTT(20)
    <3> QED
      BY <3>2, <3>4, Zenon
  <2>3. flush = "publish" => \A k \in Keys :
          /\ table[k] <= mem'[F + 1][k]
          /\ table[k] # 0 => \A m \in 1..F : mem'[m][k] <= table[k]
    <3>1. SUFFICES ASSUME flush = "publish", NEW k \in Keys
                   PROVE  /\ table[k] <= mem'[F + 1][k]
                          /\ table[k] # 0 => \A m \in 1..F : mem'[m][k] <= table[k]
      OBVIOUS
    <3>2. /\ table[k] <= mem[F + 1][k]
          /\ table[k] # 0 => \A m \in 1..F : mem[m][k] <= table[k]
      BY <1>3, <3>1, Zenon DEF MInv, AgeInv
    <3>3. F + 1 \in 1..(N - 1)
      <4>1. F + 1 \in 1..imm_idx /\ N = imm_idx + 1 /\ imm_idx \in Nat
        BY <1>3, <3>1, RingFacts, Zenon DEF MInv
      <4> QED
        BY <4>1
    <3>4. F + 1 \in 1..N /\ \A m \in 1..F : m \in 1..N /\ m # c
      BY <1>4, <3>3
    <3>5. table[k] \in Nat /\ mem[F + 1][k] \in Nat /\ mem'[F + 1][k] \in Nat /\ mem[F + 1][k] <= mem'[F + 1][k]
      BY <1>5, <3>4, TypeFacts, Zenon DEF MInv
    <3>6. table[k] <= mem'[F + 1][k]
      BY <3>2, <3>5
    <3>7. \A m \in 1..F : mem'[m] = mem[m]
      BY <1>1, <1>3, <3>4, Zenon
    <3> QED
      BY <3>2, <3>6, <3>7, Zenon
  <2>4. \A i, j \in 1..Len(l0) : \A k \in Keys : i < j /\ l0[i][k] # 0 => l0[j][k] <= l0[i][k]
    BY Zenon DEF MInv, AgeInv
  <2> QED
    BY <1>1, <1>2, <1>3, <1>6, <2>1, <2>2, <2>3, <2>4, Zenon DEF AgeInv
<1> QED
  BY <1>3, <1>6, <1>7, <1>8, <1>9, Zenon DEF MInv

(* The batch is acknowledged.                                              *)
LEMMA CompleteEffect ==
    ASSUME MInv, Complete, NEW k \in Keys
    PROVE  /\ acked'[k] \in Nat /\ acked[k] <= acked'[k]
           /\ acked'[k] = acked[k] \/ \E i \in 1..Len(batch) : batch[i] = <<k, acked'[k]>>
<1>1. PICK S : S = {b[2] : b \in {c \in Range(batch) : c[1] = k}}
  BY Zenon
<1>2. acked'[k] = Max({acked[k]} \cup S)
  BY <1>1, Zenon DEF Complete
<1>3. acked[k] \in Nat /\ puts \in Nat /\ Len(batch) \in Nat /\ Len(batch) <= puts
  BY TypeFacts, Zenon DEF MInv, WTypes, CommitInv
<1>4. \A x \in S : \E i \in 1..Len(batch) : batch[i] = <<k, x>> /\ x \in Nat /\ x <= puts
  <2>1. \A i \in 1..Len(batch) : batch[i] \in Keys \X Nat /\ batch[i][2] = puts - Len(batch) + i
    BY TypeFacts, Zenon DEF MInv, CommitInv
  <2>2. \A i \in 1..Len(batch) : puts - Len(batch) + i <= puts
    BY <1>3
  <2>3. \A x \in S : \E i \in 1..Len(batch) : batch[i][1] = k /\ batch[i][2] = x
    <3>1. DOMAIN batch = 1..Len(batch)
      BY DEF MInv, WTypes
    <3> QED
      BY <1>1, <3>1, Zenon DEF Range
  <2> QED
    BY <2>1, <2>2, <2>3
<1>5. PICK T : T = {acked[k]} \cup S
  BY Zenon
<1>6. T \in SUBSET Nat /\ T # {} /\ puts + acked[k] \in Nat /\ acked[k] \in T
  BY <1>3, <1>4, <1>5
<1>7. \A y \in T : y <= puts + acked[k]
  <2>1. \A y \in S : y \in Nat /\ y <= puts
    BY <1>4, Zenon
  <2>2. \A y \in T : y = acked[k] \/ y \in S
    BY <1>5, Zenon
  <2> QED
    BY <1>3, <2>1, <2>2
<1>8. Max(T) \in T /\ \A y \in T : y <= Max(T)
  BY <1>6, <1>7, MaxIs, Zenon
<1> QED
  BY <1>2, <1>4, <1>5, <1>6, <1>8, Zenon

LEMMA CompleteM ==
    ASSUME MInv, Complete
    PROVE  MInv' /\ Flushed' = Flushed
<1>1. /\ com = "memtable" /\ inserted = Len(batch)
      /\ com' = "idle" /\ batch' = <<>> /\ com_mem' = 0 /\ inserted' = 0
      /\ UNCHANGED <<puts, rot, mem, immutables, imm_idx, flush_queue, flush, table, l0>>
  BY Zenon DEF Complete, ring, flusher
<1>2. acked' \in [Keys -> Nat]
  <2>1. \A k \in Keys : acked'[k] \in Nat
    BY CompleteEffect, Zenon
  <2>2. PICK f : acked' = [k \in Keys |-> f[k]]
    <3>1. acked' = [k \in Keys |-> acked'[k]]
      BY Zenon DEF Complete
    <3> QED
      BY <3>1, Zenon
  <2> QED
    BY <2>1, <2>2, Zenon
<1>3. WTypes'
  <2>1. batch' \in Seq(Keys \X Nat) /\ Len(batch') = 0 /\ inserted' \in 0..Len(batch')
    BY <1>1
  <2> QED
    BY <1>1, <1>2, <2>1, Zenon DEF MInv, WTypes
<1>4. CommitInv'
  <2>1. puts \in Nat /\ Len(batch) \in Nat /\ Len(batch') = 0
    BY <1>1, TypeFacts, Zenon DEF MInv, WTypes
  <2>2. puts' - Len(batch') + inserted' = puts - Len(batch) + inserted /\ Len(batch') <= puts'
    BY <1>1, <2>1
  <2>3. \A m \in 1..Len(mem) : \A k \in Keys : mem[m][k] <= puts - Len(batch) + inserted
    BY Zenon DEF MInv, CommitInv
  <2>4. \A i \in 1..Len(batch') : FALSE
    BY <2>1
  <2> QED
    BY <1>1, <2>2, <2>3, <2>4, Zenon DEF CommitInv
<1>5. RingInv' /\ Flushed' = Flushed
  <2>1. Pending' = Pending
    BY <1>1, Zenon DEF Pending
  <2> QED
    BY <1>1, <2>1, QuietRing, Zenon DEF MInv, RingInv
<1>6. AgeInv'
  BY <1>1, <1>5, QuietAge, Zenon DEF MInv
<1> QED
  BY <1>3, <1>4, <1>5, <1>6, Zenon DEF MInv

-----------------------------------------------------------------------------
(* The reads and the WAL touch nothing of this.                            *)
LEMMA ReadQuiet ==
    ASSUME NEW r, Read(r)
    PROVE  UNCHANGED <<puts, acked, leader, ring, flusher, l0, walfiles, history>>
<1>1. CASE ReadBegin(r)
  BY <1>1, Zenon DEF ReadBegin
<1>2. CASE ReadMemtables(r)
  BY <1>2, Zenon DEF ReadMemtables
<1>3. CASE ReadTables(r)
  BY <1>3, Zenon DEF ReadTables
<1>4. CASE ScanMemtables(r)
  BY <1>4, Zenon DEF ScanMemtables
<1>5. CASE ScanTables(r)
  BY <1>5, Zenon DEF ScanTables
<1>6. CASE ReadReturn(r)
  BY <1>6, Zenon DEF ReadReturn
<1> QED
  BY <1>1, <1>2, <1>3, <1>4, <1>5, <1>6, Zenon DEF Read

(* The steps that leave the memtables, the queue and level 0 alone.        *)
Aside == Lead \/ BelowThreshold \/ RotateWal \/ RemoveWal \/ (\E r \in Readers : Read(r)) \/ UNCHANGED vars

LEMMA AsideEffect ==
    ASSUME MInv, Aside
    PROVE  /\ UNCHANGED <<puts, acked, com, batch, com_mem, inserted, ring, flusher, l0>>
           /\ rot' \in {"none", "maybe_flush", "rotate_wal", "enqueue", "ready"} /\ Pending' = Pending
           /\ rot' # rot => Lead \/ BelowThreshold \/ RotateWal
<1>1. CASE Lead
  BY <1>1, Zenon DEF Lead, Pending
<1>2. CASE BelowThreshold
  BY <1>2, Zenon DEF BelowThreshold, Pending
<1>3. CASE RotateWal
  BY <1>3, Zenon DEF RotateWal, Pending
<1>4. CASE RemoveWal \/ (\E r \in Readers : Read(r)) \/ UNCHANGED vars
  <2>1. UNCHANGED <<puts, acked, leader, ring, flusher, l0>>
    <3>1. CASE RemoveWal
      BY <3>1, Zenon DEF RemoveWal
    <3>2. CASE \E r \in Readers : Read(r)
      BY <3>2, ReadQuiet, Zenon
    <3>3. CASE UNCHANGED vars
      BY <3>3, Zenon DEF vars
    <3> QED
      BY <1>4, <3>1, <3>2, <3>3, Zenon
  <2>2. UNCHANGED <<puts, acked, rot, com, batch, com_mem, inserted, ring, flusher, l0>>
    BY <2>1, Zenon DEF leader
  <2>3. rot \in {"none", "maybe_flush", "rotate_wal", "enqueue", "ready"}
    BY Zenon DEF MInv, WTypes
  <2> QED
    BY <2>2, <2>3, Zenon DEF Pending
<1> QED
  BY <1>1, <1>2, <1>3, <1>4, Zenon DEF Aside

LEMMA Steps ==
    ASSUME [Next]_vars
    PROVE  \/ Aside \/ Freeze \/ EnqueueFlush
           \/ Drain \/ WalStage \/ LoadActive \/ MemtablePut \/ Complete
           \/ FlushRead \/ FlushPublish \/ FlushFails \/ FlushReset
  BY Zenon DEF Next, Rotate, Commit, Flush, Aside

(* Every step keeps the invariant.                                         *)
LEMMA StepM ==
    ASSUME MInv, [Next]_vars
    PROVE  MInv'
<1>1. CASE Aside
  BY <1>1, AsideEffect, QuietM, Zenon
<1>2. CASE Freeze
  BY <1>2, FreezeM, Zenon
<1>3. CASE EnqueueFlush
  BY <1>3, EnqueueM, Zenon
<1>4. CASE Drain
  BY <1>4, DrainM, Zenon
<1>5. CASE WalStage \/ LoadActive
  BY <1>5, StageM, Zenon
<1>6. CASE MemtablePut
  BY <1>6, PutM, Zenon
<1>7. CASE Complete
  BY <1>7, CompleteM, Zenon
<1>8. CASE FlushRead
  BY <1>8, FlushReadM, Zenon
<1>9. CASE FlushPublish
  BY <1>9, PublishM, Zenon
<1>10. CASE FlushFails
  BY <1>10, FlushFailsM, Zenon
<1>11. CASE FlushReset
  BY <1>11, ResetM, Zenon
<1> QED
  BY <1>1, <1>2, <1>3, <1>4, <1>5, <1>6, <1>7, <1>8, <1>9, <1>10, <1>11, Steps, Zenon

LEMMA InitM ==
    ASSUME Init
    PROVE  MInv /\ Flushed = 0 /\ Len(mem) = 1 /\ Len(l0) = 0
<1>1. /\ puts = 0 /\ acked = Empty /\ rot = "none" /\ com = "idle" /\ batch = <<>> /\ com_mem = 0 /\ inserted = 0
      /\ mem = <<Empty>> /\ immutables = [s \in 0..(Slots - 1) |-> 0] /\ imm_idx = 0
      /\ flush_queue = <<>> /\ flush = "idle" /\ table = Empty /\ l0 = <<>>
  BY Zenon DEF Init
<1>2. Empty \in [Keys -> Nat] /\ \A k \in Keys : Empty[k] = 0
  BY Zenon DEF Empty
<1>3. /\ Len(mem) = 1 /\ mem[1] = Empty /\ mem \in Seq([Keys -> Nat])
      /\ Len(l0) = 0 /\ Len(batch) = 0 /\ Len(flush_queue) = 0
      /\ l0 \in Seq([Keys -> Nat]) /\ batch \in Seq(Keys \X Nat) /\ flush_queue \in Seq(Nat \X Nat)
  BY <1>1, <1>2
<1>4. Pending = 0
  BY <1>1, Zenon DEF Pending
<1>5. Flushed = 0
  BY <1>3, <1>4 DEF Flushed
<1>6. WTypes
  <2>1. immutables \in [0..(Slots - 1) -> Nat] /\ imm_idx \in Nat /\ puts \in Nat /\ inserted \in 0..Len(batch)
    BY <1>1, <1>3
  <2> QED
    BY <1>1, <1>2, <1>3, <2>1 DEF WTypes
<1>7. RingInv
  <2>1. /\ Len(mem) = imm_idx + 1 /\ imm_idx - Flushed <= Slots /\ Flushed \in Nat
        /\ \A i \in 1..Len(flush_queue) : FALSE
        /\ \A m \in (Flushed + 1)..imm_idx : FALSE
        /\ \A s \in 0..(Slots - 1) : immutables[s] = 0
    BY <1>1, <1>3, <1>5, SlotsAre
  <2> QED
    BY <1>1, <2>1, Zenon DEF RingInv
<1>8. CommitInv
  <2>1. \A m \in 1..Len(mem) : \A k \in Keys : mem[m][k] <= puts - Len(batch) + inserted
    BY <1>1, <1>2, <1>3
  <2>2. Len(batch) <= puts /\ \A i \in 1..Len(batch) : FALSE
    BY <1>1, <1>3
  <2> QED
    BY <1>1, <2>1, <2>2, Zenon DEF CommitInv
<1>9. AgeInv
  <2>1. (\A m, n \in 1..Len(mem) : ~(m < n)) /\ \A j \in 1..Len(l0) : FALSE
    BY <1>3
  <2> QED
    BY <1>1, <2>1, Zenon DEF AgeInv
<1> QED
  BY <1>3, <1>5, <1>6, <1>7, <1>8, <1>9, Zenon DEF MInv

-----------------------------------------------------------------------------
(* Where get looks: the i-th place holds the i-th newest memtable, or      *)
(* nothing if that one has been flushed.                                   *)
LEMMA GetOrderIs ==
    ASSUME MInv
    PROVE  /\ GetOrder \in Seq(Nat)
           /\ \A i \in 1..Len(GetOrder) : GetOrder[i] # 0 =>
                 GetOrder[i] = Len(mem) - i + 1 /\ GetOrder[i] \in (Flushed + 1)..Len(mem)
           /\ \A m \in (Flushed + 1)..Len(mem) :
                 Len(mem) - m + 1 \in 1..Len(GetOrder) /\ GetOrder[Len(mem) - m + 1] = m
<1>1. PICK N, I, F : N = Len(mem) /\ I = imm_idx /\ F = Flushed
  BY Zenon
<1>2. N \in Nat /\ I \in Nat /\ F \in Nat /\ Slots \in Nat /\ Slots > 0 /\ N = I + 1 /\ F <= I /\ I - F <= Slots
  BY <1>1, RingFacts, TypeFacts, SlotsAre, Zenon DEF MInv
<1>3. PICK n : n = IF I < Slots THEN I ELSE Slots
  OBVIOUS
<1>4. n \in Nat /\ n <= I /\ n <= Slots /\ (n = I \/ n = Slots)
  BY <1>2, <1>3
<1>5. PICK s : s = [i \in 1..n |-> immutables[Slot(I - i)]]
  BY Zenon
<1>6. \A i \in 1..n : I - i \in Int /\ Slot(I - i) \in 0..(Slots - 1) /\ immutables[Slot(I - i)] \in Nat
  <2>1. SUFFICES ASSUME NEW i \in 1..n
                 PROVE  I - i \in Int /\ Slot(I - i) \in 0..(Slots - 1) /\ immutables[Slot(I - i)] \in Nat
    OBVIOUS
  <2>2. I - i \in Int
    BY <1>2, <1>4
  <2>3. Slot(I - i) \in 0..(Slots - 1)
    BY <2>2, SlotRange, Zenon
  <2> QED
    BY <2>2, <2>3, Zenon DEF MInv, WTypes
<1>7. s \in Seq(Nat) /\ Len(s) = n /\ \A i \in 1..n : s[i] = immutables[Slot(I - i)]
  BY <1>4, <1>5, <1>6
<1>8. GetOrder = <<N>> \o s
  BY <1>1, <1>3, <1>5, Zenon DEF GetOrder, Slot
<1>9. /\ GetOrder \in Seq(Nat) /\ Len(GetOrder) = n + 1 /\ GetOrder[1] = N
      /\ \A i \in 1..n : GetOrder[i + 1] = s[i]
  <2>1. PICK g : g = <<N>> \o s
    BY Zenon
  <2>2. /\ g \in Seq(Nat) /\ Len(g) = n + 1 /\ g[1] = N
        /\ \A i \in 1..n : g[i + 1] = s[i]
    BY <1>2, <1>4, <1>7, <2>1
  <2> QED
    BY <1>8, <2>1, <2>2, Zenon
<1>10. \A i \in 1..(n + 1) : i # 1 => i - 1 \in 1..n /\ GetOrder[i] = s[i - 1]
  <2>1. \A i \in 1..(n + 1) : i # 1 => i - 1 \in 1..n /\ (i - 1) + 1 = i
    BY <1>4
  <2> QED
    BY <1>9, <2>1, Zenon
<1>11. /\ \A x \in 0..(Slots - 1) : immutables[x] # 0 => immutables[x] \in (F + 1)..I /\ Slot(immutables[x] - 1) = x
       /\ \A m \in (F + 1)..I : immutables[Slot(m - 1)] = m
  BY <1>1, Zenon DEF MInv, RingInv
<1>12. \A i \in 1..(n + 1) : GetOrder[i] # 0 => GetOrder[i] = N - i + 1 /\ GetOrder[i] \in (F + 1)..N
  <2>1. SUFFICES ASSUME NEW i \in 1..(n + 1), GetOrder[i] # 0
                 PROVE  GetOrder[i] = N - i + 1 /\ GetOrder[i] \in (F + 1)..N
    OBVIOUS
  <2>2. CASE i = 1
    BY <1>2, <1>9, <2>2
  <2>3. CASE i # 1
    <3>1. PICK j \in 1..n : j = i - 1 /\ GetOrder[i] = s[j]
      BY <1>10, <2>3, Zenon
    <3>2. PICK x : x = immutables[Slot(I - j)]
      OBVIOUS
    <3>3. x # 0 /\ GetOrder[i] = x
      BY <1>7, <2>1, <3>1, <3>2, Zenon
    <3>4. x \in (F + 1)..I /\ Slot(x - 1) = Slot(I - j)
      BY <1>6, <1>11, <3>2, <3>3, Zenon
    <3>5. x - 1 \in Int /\ I - j \in Int /\ (x - 1) - (I - j) < Slots /\ (I - j) - (x - 1) < Slots
      BY <1>2, <1>4, <3>4
    <3>6. x - 1 = I - j
      BY <3>4, <3>5, SlotsDiffer, Zenon
    <3>7. x = N - i + 1 /\ x \in (F + 1)..N
      BY <1>2, <1>4, <3>1, <3>4, <3>6
    <3> QED
      BY <3>3, <3>7, Zenon
  <2> QED
    BY <2>2, <2>3, Zenon
<1>13. \A m \in (F + 1)..N : N - m + 1 \in 1..(n + 1) /\ GetOrder[N - m + 1] = m
  <2>1. SUFFICES ASSUME NEW m \in (F + 1)..N
                 PROVE  N - m + 1 \in 1..(n + 1) /\ GetOrder[N - m + 1] = m
    OBVIOUS
  <2>2. CASE m = N
    <3>1. N - m + 1 = 1 /\ 1 \in 1..(n + 1)
      BY <1>2, <1>4, <2>2
    <3> QED
      BY <1>9, <2>2, <3>1, Zenon
  <2>3. CASE m # N
    <3>1. PICK j : j = I - m + 1
      OBVIOUS
    <3>2. m \in (F + 1)..I /\ j \in 1..n /\ I - j = m - 1 /\ N - m + 1 = j + 1 /\ j + 1 \in 1..(n + 1)
      BY <1>2, <1>4, <2>3, <3>1
    <3>3. s[j] = m
      BY <1>7, <1>11, <3>2, Zenon
    <3> QED
      BY <1>9, <3>2, <3>3, Zenon
  <2> QED
    BY <2>2, <2>3, Zenon
<1> QED
  BY <1>1, <1>9, <1>12, <1>13, Zenon

(* The memtables that are not flushed, newest first, then level 0.         *)
LEMMA StackIs ==
    ASSUME MInv
    PROVE  \E G \in Nat :
              /\ Stack \in Seq([Keys -> Nat]) /\ Len(Stack) = G + Len(l0)
              /\ \A i \in 1..G : \A k \in Keys : Stack[i][k] # 0 =>
                    \E m \in (Flushed + 1)..Len(mem) : m = Len(mem) - i + 1 /\ Stack[i][k] = mem[m][k]
              /\ \A m \in (Flushed + 1)..Len(mem) : \E i \in 1..G : Stack[i] = mem[m]
              /\ \A j \in 1..Len(l0) : Stack[G + j] = l0[j]
<1>1. PICK g, G, N, F : g = GetOrder /\ G = Len(g) /\ N = Len(mem) /\ F = Flushed
  BY Zenon
<1>2. /\ g \in Seq(Nat) /\ N \in Nat /\ F \in Nat
      /\ \A i \in 1..G : g[i] # 0 => g[i] = N - i + 1 /\ g[i] \in (F + 1)..N
      /\ \A m \in (F + 1)..N : N - m + 1 \in 1..G /\ g[N - m + 1] = m
  BY <1>1, GetOrderIs, RingFacts, TypeFacts, Zenon DEF MInv
<1>3. G \in Nat /\ DOMAIN g = 1..G
  BY <1>1, <1>2
<1>4. PICK t : t = [i \in 1..G |-> Contents(g[i])]
  BY Zenon
<1>5. \A m \in (F + 1)..N : m \in 1..N /\ m # 0
  BY <1>2
<1>6. \A i \in 1..G : Contents(g[i]) \in [Keys -> Nat]
  <2>1. SUFFICES ASSUME NEW i \in 1..G PROVE Contents(g[i]) \in [Keys -> Nat]
    OBVIOUS
  <2>2. CASE g[i] = 0
    BY <2>2, TypeFacts, Zenon DEF MInv, Contents
  <2>3. CASE g[i] # 0
    <3>1. g[i] \in 1..N
      BY <1>2, <1>5, <2>3, Zenon
    <3> QED
      BY <1>1, <2>3, <3>1, TypeFacts, Zenon DEF MInv, Contents
  <2> QED
    BY <2>2, <2>3, Zenon
<1>7. t \in Seq([Keys -> Nat]) /\ Len(t) = G /\ \A i \in 1..G : t[i] = Contents(g[i])
  BY <1>3, <1>4, <1>6
<1>8. PICK l : l = l0 /\ l \in Seq([Keys -> Nat]) /\ Len(l) \in Nat
  BY DEF MInv, WTypes
<1>9. PICK u : u = t \o l
  BY Zenon
<1>10. /\ u \in Seq([Keys -> Nat]) /\ Len(u) = G + Len(l)
       /\ \A i \in 1..G : u[i] = t[i]
       /\ \A j \in 1..Len(l) : u[G + j] = l[j]
  <2>1. u \in Seq([Keys -> Nat]) /\ Len(u) = G + Len(l)
    BY <1>3, <1>7, <1>8, <1>9, ConcatIs, Zenon
  <2>2. \A i \in 1..(G + Len(l)) : u[i] = IF i <= G THEN t[i] ELSE l[i - G]
    BY <1>3, <1>7, <1>8, <1>9
  <2>3. \A i \in 1..G : i \in 1..(G + Len(l)) /\ i <= G
    BY <1>3, <1>8
  <2>4. \A j \in 1..Len(l) : G + j \in 1..(G + Len(l)) /\ ~(G + j <= G) /\ (G + j) - G = j
    BY <1>3, <1>8
  <2>5. \A i \in 1..G : u[i] = t[i]
    BY <2>2, <2>3, Zenon
  <2>6. \A j \in 1..Len(l) : u[G + j] = l[j]
    BY <2>2, <2>4, Zenon
  <2> QED
    BY <2>1, <2>5, <2>6, Zenon
<1>11. Stack = u
  BY <1>1, <1>3, <1>4, <1>8, <1>9, Zenon DEF Stack
<1>12. \A i \in 1..G : \A k \in Keys : u[i][k] # 0 => \E m \in (F + 1)..N : m = N - i + 1 /\ u[i][k] = mem[m][k]
  <2>1. SUFFICES ASSUME NEW i \in 1..G, NEW k \in Keys, u[i][k] # 0
                 PROVE  \E m \in (F + 1)..N : m = N - i + 1 /\ u[i][k] = mem[m][k]
    OBVIOUS
  <2>2. u[i] = Contents(g[i])
    BY <1>7, <1>10, Zenon
  <2>3. g[i] # 0
    BY <2>1, <2>2, Zenon DEF Contents, Empty
  <2>4. u[i][k] = mem[g[i]][k]
    BY <2>2, <2>3, Zenon DEF Contents
  <2> QED
    BY <1>2, <2>3, <2>4, Zenon
<1>13. \A m \in (F + 1)..N : \E i \in 1..G : u[i] = mem[m]
  <2>1. SUFFICES ASSUME NEW m \in (F + 1)..N PROVE \E i \in 1..G : u[i] = mem[m]
    OBVIOUS
  <2>2. PICK i \in 1..G : g[i] = m
    BY <1>2, Zenon
  <2>3. u[i] = mem[m]
    BY <1>5, <1>7, <1>10, <2>2, Zenon DEF Contents
  <2> QED
    BY <2>3, Zenon
<1> QED
  BY <1>1, <1>3, <1>8, <1>10, <1>11, <1>12, <1>13, ZenonT(30)

(* Every memtable in the ring is newer than every table.                   *)
LEMMA RingAboveTables ==
    ASSUME MInv, NEW m \in (Flushed + 1)..Len(mem), NEW j \in 1..Len(l0), NEW k \in Keys, mem[m][k] # 0
    PROVE  l0[j][k] <= mem[m][k]
<1>1. PICK F, N : F = Flushed /\ N = Len(mem)
  OBVIOUS
<1>2. F \in Nat /\ N \in Nat /\ m \in 1..N
  <2>1. F \in Nat /\ N \in Nat
    BY <1>1, RingFacts, TypeFacts, Zenon DEF MInv
  <2> QED
    BY <1>1, <2>1
<1>3. PICK x \in 1..N : x <= F + (IF flush = "reset" THEN 1 ELSE 0) /\ l0[j][k] <= mem[x][k]
  BY <1>1, Zenon DEF MInv, AgeInv
<1>4. x <= m
  BY <1>1, <1>2, <1>3
<1>5. x < m => mem[x][k] < mem[m][k]
  BY <1>1, <1>2, Zenon DEF MInv, AgeInv
<1>6. mem[x][k] \in Nat /\ mem[m][k] \in Nat /\ l0[j][k] \in Nat
  BY <1>1, <1>2, TypeFacts, Zenon DEF MInv
<1>7. CASE x < m
  BY <1>3, <1>5, <1>6, <1>7
<1>8. CASE x = m
  BY <1>3, <1>8, Zenon
<1> QED
  BY <1>2, <1>4, <1>7, <1>8

LEMMA OrderIsAge ==
    ASSUME MInv
    PROVE  RecencyOrder
<1>1. PICK G \in Nat :
         /\ Stack \in Seq([Keys -> Nat]) /\ Len(Stack) = G + Len(l0)
         /\ \A i \in 1..G : \A k \in Keys : Stack[i][k] # 0 =>
               \E m \in (Flushed + 1)..Len(mem) : m = Len(mem) - i + 1 /\ Stack[i][k] = mem[m][k]
         /\ \A j \in 1..Len(l0) : Stack[G + j] = l0[j]
  BY StackIs, Zenon
<1>2. PICK N, L, F, S : N = Len(mem) /\ L = Len(l0) /\ F = Flushed /\ S = Stack
  BY Zenon
<1>3. N \in Nat /\ L \in Nat /\ F \in Nat /\ DOMAIN S = 1..(G + L)
  BY <1>1, <1>2, RingFacts, TypeFacts DEF MInv
<1>4. SUFFICES ASSUME NEW i \in 1..(G + L), NEW j \in 1..(G + L), NEW k \in Keys, i < j, S[i][k] # 0
               PROVE  S[i][k] >= S[j][k]
  BY <1>2, <1>3, Zenon DEF RecencyOrder
<1>5. S[i][k] \in Nat /\ S[j][k] \in Nat
  BY <1>1, <1>2
<1>6. CASE S[j][k] = 0
  BY <1>5, <1>6
<1>7. CASE S[j][k] # 0 /\ j <= G
  <2>1. i \in 1..G /\ j \in 1..G
    BY <1>3, <1>4, <1>7
  <2>2. PICK m \in (F + 1)..N : m = N - i + 1 /\ S[i][k] = mem[m][k]
    BY <1>1, <1>2, <1>4, <2>1, Zenon
  <2>3. PICK x \in (F + 1)..N : x = N - j + 1 /\ S[j][k] = mem[x][k]
    BY <1>1, <1>2, <1>7, <2>1, Zenon
  <2>4. x < m /\ m \in 1..N /\ x \in 1..N
    BY <1>3, <1>4, <2>1, <2>2, <2>3
  <2>5. mem[x][k] < mem[m][k]
    BY <1>2, <1>4, <2>2, <2>4, Zenon DEF MInv, AgeInv
  <2> QED
    BY <1>5, <2>2, <2>3, <2>5
<1>8. CASE j > G /\ i <= G
  <2>1. i \in 1..G /\ j - G \in 1..L /\ G + (j - G) = j
    BY <1>3, <1>4, <1>8
  <2>2. PICK m \in (F + 1)..N : S[i][k] = mem[m][k]
    BY <1>1, <1>2, <1>4, <2>1, Zenon
  <2>3. S[j] = l0[j - G]
    BY <1>1, <1>2, <2>1, Zenon
  <2>4. l0[j - G][k] <= mem[m][k]
    BY <1>2, <1>4, <2>1, <2>2, RingAboveTables, Zenon
  <2> QED
    BY <1>5, <2>2, <2>3, <2>4, Zenon
<1>9. CASE i > G
  <2>1. i - G \in 1..L /\ G + (i - G) = i /\ j - G \in 1..L /\ G + (j - G) = j /\ i - G < j - G
    BY <1>3, <1>4, <1>9
  <2>2. S[j] = l0[j - G] /\ S[i] = l0[i - G]
    BY <1>1, <1>2, <2>1, Zenon
  <2>3. l0[j - G][k] <= l0[i - G][k]
    BY <1>2, <1>4, <2>1, <2>2, Zenon DEF MInv, AgeInv
  <2> QED
    BY <1>5, <2>2, <2>3, Zenon
<1> QED
  BY <1>3, <1>4, <1>6, <1>7, <1>8, <1>9

-----------------------------------------------------------------------------
(* The first hit is the newest value there is.                             *)
Values(k) == {mem[m][k] : m \in (Flushed + 1)..active} \cup {l0[j][k] : j \in 1..Len(l0)} \cup {0}

LEMMA VisibleIs ==
    ASSUME MInv, NEW k \in Keys
    PROVE  Visible(k) \in Nat /\ Visible(k) \in Values(k) /\ \A w \in Values(k) : w \in Nat /\ w <= Visible(k)
<1>1. PICK G \in Nat :
         /\ Stack \in Seq([Keys -> Nat]) /\ Len(Stack) = G + Len(l0)
         /\ \A i \in 1..G : Stack[i][k] # 0 => \E m \in (Flushed + 1)..Len(mem) : Stack[i][k] = mem[m][k]
         /\ \A m \in (Flushed + 1)..Len(mem) : \E i \in 1..G : Stack[i] = mem[m]
         /\ \A j \in 1..Len(l0) : Stack[G + j] = l0[j]
  BY StackIs, Zenon
<1>2. PICK L, S : L = Len(l0) /\ S = Stack
  BY Zenon
<1>3. L \in Nat /\ S \in Seq([Keys -> Nat]) /\ Len(S) = G + L
  BY <1>1, <1>2, TypeFacts, Zenon DEF MInv
<1>4. PICK v : v = FirstHit(S, k)
  OBVIOUS
<1>5. /\ v \in Nat
      /\ v = 0 <=> \A i \in 1..(G + L) : S[i][k] = 0
      /\ v # 0 => \E i \in 1..(G + L) : S[i][k] = v /\ \A j \in 1..(G + L) : j < i => S[j][k] = 0
  BY <1>3, <1>4, FirstHitIs, Zenon
<1>6. Visible(k) = v
  BY <1>2, <1>4, Zenon DEF Visible
<1>7. \A i \in 1..(G + L) : S[i][k] \in Nat /\ S[i][k] <= v
  <2>1. SUFFICES ASSUME NEW i \in 1..(G + L) PROVE S[i][k] \in Nat /\ S[i][k] <= v
    OBVIOUS
  <2>2. S[i][k] \in Nat
    BY <1>3
  <2>3. CASE v = 0
    BY <1>5, <2>3
  <2>4. CASE v # 0
    <3>1. PICK x \in 1..(G + L) : S[x][k] = v /\ \A j \in 1..(G + L) : j < x => S[j][k] = 0
      BY <1>5, <2>4, Zenon
    <3>2. CASE i < x
      <4>1. S[i][k] = 0
        BY <3>1, <3>2, Zenon
      <4> QED
        BY <1>5, <4>1
    <3>3. CASE i = x
      <4>1. S[i][k] = v
        BY <3>1, <3>3, Zenon
      <4> QED
        BY <1>5, <4>1
    <3>4. CASE x < i
      <4>1. DOMAIN S = 1..(G + L)
        BY <1>3
      <4>2. S[x][k] >= S[i][k]
        BY <1>2, <2>4, <3>1, <3>4, <4>1, OrderIsAge, Zenon DEF RecencyOrder
      <4> QED
        BY <1>5, <2>2, <3>1, <4>2, Zenon
    <3> QED
      BY <1>3, <2>2, <3>2, <3>3, <3>4
  <2> QED
    BY <2>2, <2>3, <2>4, Zenon
<1>8. \A i \in 1..(G + L) : i \in 1..G \/ \E j \in 1..L : i = G + j
  <2>1. SUFFICES ASSUME NEW i \in 1..(G + L), ~(i \in 1..G) PROVE \E j \in 1..L : i = G + j
    OBVIOUS
  <2>2. i - G \in 1..L /\ i = G + (i - G)
    BY <1>3, <2>1
  <2> QED
    BY <2>2, Zenon
<1>9. v \in Values(k)
  <2>1. CASE v = 0
    BY <2>1, Zenon DEF Values
  <2>2. CASE v # 0
    <3>1. PICK i \in 1..(G + L) : S[i][k] = v
      BY <1>5, <2>2, Zenon
    <3>2. CASE i \in 1..G
      <4>1. PICK m \in (Flushed + 1)..Len(mem) : v = mem[m][k]
        BY <1>1, <1>2, <2>2, <3>1, <3>2, Zenon
      <4> QED
        BY <4>1, Zenon DEF Values
    <3>3. CASE \E j \in 1..L : i = G + j
      <4>1. PICK j \in 1..L : v = l0[j][k]
        BY <1>1, <1>2, <3>1, <3>3
      <4> QED
        BY <1>2, <4>1, Zenon DEF Values
    <3> QED
      BY <1>8, <3>2, <3>3, Zenon
  <2> QED
    BY <2>1, <2>2, Zenon
<1>10. \A w \in Values(k) : w \in Nat /\ w <= v
  <2>1. ASSUME NEW m \in (Flushed + 1)..Len(mem) PROVE mem[m][k] \in Nat /\ mem[m][k] <= v
    <3>1. PICK i \in 1..G : S[i] = mem[m]
      BY <1>1, <1>2, Zenon
    <3>2. i \in 1..(G + L)
      BY <1>3
    <3> QED
      BY <1>7, <3>1, <3>2, Zenon
  <2>2. ASSUME NEW j \in 1..L PROVE l0[j][k] \in Nat /\ l0[j][k] <= v
    <3>1. G + j \in 1..(G + L) /\ S[G + j] = l0[j]
      BY <1>1, <1>2, <1>3
    <3> QED
      BY <1>7, <3>1, Zenon
  <2>3. 0 \in Nat /\ 0 <= v
    BY <1>5
  <2> QED
    BY <1>2, <2>1, <2>2, <2>3, Zenon DEF Values
<1> QED
  BY <1>5, <1>6, <1>9, <1>10, Zenon

LEMMA VisibleIsNext ==
    ASSUME NEW k \in Keys
    PROVE  (MInv => Visible(k) \in Nat /\ Visible(k) \in Values(k) /\ \A w \in Values(k) : w \in Nat /\ w <= Visible(k))'
<1>1. MInv => Visible(k) \in Nat /\ Visible(k) \in Values(k) /\ \A w \in Values(k) : w \in Nat /\ w <= Visible(k)
  BY VisibleIs, Zenon
<1> QED
  BY <1>1, PTL

(* What a get finds is determined by the values there are.                 *)
LEMMA SameVisible ==
    ASSUME MInv, MInv', NEW k \in Keys, Values(k)' = Values(k)
    PROVE  Visible(k)' = Visible(k)
<1>1. PICK v : v = Visible(k) /\ v \in Nat /\ v \in Values(k) /\ \A w \in Values(k) : w \in Nat /\ w <= v
  BY VisibleIs, Zenon
<1>2. Visible(k)' \in Nat /\ Visible(k)' \in Values(k)' /\ \A w \in Values(k)' : w \in Nat /\ w <= Visible(k)'
  BY VisibleIsNext, Zenon
<1>3. PICK u : u = Visible(k)'
  OBVIOUS
<1>4. u \in Values(k) /\ u \in Nat /\ \A w \in Values(k) : w <= u
  BY <1>2, <1>3, Zenon
<1>5. u <= v /\ v <= u
  BY <1>1, <1>4, Zenon
<1> QED
  BY <1>1, <1>3, <1>4, <1>5

-----------------------------------------------------------------------------
(* As long as the process runs, the order in which get searches is an      *)
(* order of age: no memtable or table it reaches first has an older put of *)
(* a key than one behind it, even if leaders overlap and flushes fail.     *)
THEOREM GetSearchesByAge == Spec => []RecencyOrder
<1>1. Init => MInv
  BY InitM, Zenon
<1>2. MInv /\ [Next]_vars => MInv'
  BY StepM, Zenon
<1>3. MInv => RecencyOrder
  BY OrderIsAge, Zenon
<1> QED
  BY <1>1, <1>2, <1>3, PTL DEF Spec

-----------------------------------------------------------------------------
(* From here on one thread writes and flushes succeed.                     *)
Careful == ~Overlap /\ ~FlushMayFail

(* No memtable changes once it is frozen, so a table is the memtable it    *)
(* replaces.                                                               *)
CopyInv ==
    /\ com # "idle" => rot = "none"
    /\ com = "memtable" => com_mem = active
    /\ flush = "publish" => table = mem[Flushed + 1]
    /\ flush = "reset" => Len(l0) > 0 /\ l0[1] = mem[Flushed + 1]

(* A step that leaves all values where they are.                           *)
LEMMA QuietCopy ==
    ASSUME CopyInv, UNCHANGED <<mem, l0, table, flush>>, Flushed' = Flushed,
           com' # "idle" => rot' = "none", com' = "memtable" => com_mem' = Len(mem)
    PROVE  CopyInv'
  BY Zenon DEF CopyInv

LEMMA CopyStep ==
    ASSUME Careful, MInv, CopyInv, [Next]_vars
    PROVE  CopyInv'
<1>1. PICK F, N : F = Flushed /\ N = Len(mem)
  BY Zenon
<1>2. F \in Nat /\ N \in Nat /\ (flush # "idle" => F + 1 \in 1..(N - 1))
  <2>1. /\ F \in Nat /\ N \in Nat /\ imm_idx \in Nat /\ N = imm_idx + 1
        /\ flush # "idle" => F + 1 \in 1..imm_idx
    BY <1>1, RingFacts, TypeFacts, Zenon DEF MInv
  <2> QED
    BY <2>1
<1>3. CASE Aside
  <2>1. UNCHANGED <<com, com_mem, mem, l0, table, flush>> /\ Flushed' = Flushed
    BY <1>3, AsideEffect, QuietM, Zenon DEF ring, flusher
  <2>2. com' # "idle" => rot' = "none"
    <3>1. CASE rot' = rot
      BY <2>1, <3>1, Zenon DEF CopyInv
    <3>2. CASE rot' # rot
      <4>1. Lead \/ BelowThreshold \/ RotateWal
        BY <1>3, <3>2, AsideEffect, Zenon
      <4>2. com = "idle"
        BY <4>1, Zenon DEF Lead, BelowThreshold, RotateWal, CopyInv, Careful
      <4> QED
        BY <2>1, <4>2, Zenon
    <3> QED
      BY <3>1, <3>2, Zenon
  <2> QED
    BY <2>1, <2>2, QuietCopy, Zenon DEF CopyInv
<1>4. CASE Freeze
  <2>1. /\ Flushed' = F /\ Len(mem') = N + 1 /\ \A m \in 1..N : mem'[m] = mem[m]
        /\ rot = "maybe_flush" /\ com' = com /\ UNCHANGED <<l0, table, flush>>
    BY <1>1, <1>4, FreezeEffect, Zenon DEF Freeze, flusher
  <2>2. com = "idle"
    BY <2>1, Zenon DEF CopyInv
  <2>3. flush # "idle" => mem'[F + 1] = mem[F + 1]
    BY <1>2, <2>1
  <2> QED
    BY <1>1, <2>1, <2>2, <2>3, Zenon DEF CopyInv
<1>5. CASE EnqueueFlush
  <2>1. Flushed' = Flushed
    BY <1>5, EnqueueM, Zenon
  <2>2. rot = "enqueue" /\ UNCHANGED <<com, com_mem, mem, l0, table, flush>>
    BY <1>5, Zenon DEF EnqueueFlush, ring
  <2>3. com = "idle"
    BY <2>2, Zenon DEF CopyInv
  <2> QED
    BY <2>1, <2>2, <2>3, QuietCopy, Zenon
<1>6. CASE Drain
  <2>1. Flushed' = Flushed
    BY <1>6, DrainM, Zenon
  <2>2. rot' = "none" /\ com' = "wal" /\ UNCHANGED <<mem, l0, table, flush>>
    BY <1>6, Zenon DEF Drain, ring, flusher
  <2> QED
    BY <2>1, <2>2, QuietCopy, Zenon
<1>7. CASE WalStage \/ LoadActive
  <2>1. Flushed' = Flushed
    BY <1>7, StageM, Zenon
  <2>2. /\ com # "idle" /\ rot' = rot /\ UNCHANGED <<mem, l0, table, flush>>
        /\ com' = "memtable" => com_mem' = Len(mem)
    BY <1>7, Zenon DEF WalStage, LoadActive, ring, flusher
  <2> QED
    BY <2>1, <2>2, QuietCopy, Zenon DEF CopyInv
<1>8. CASE MemtablePut
  <2>1. Flushed' = F
    BY <1>1, <1>8, PutM, Zenon
  <2>2. com = "memtable" /\ UNCHANGED <<rot, com, com_mem, l0, table, flush>>
    BY <1>8, Zenon DEF MemtablePut, flusher
  <2>3. /\ com_mem = N /\ Len(mem') = N /\ \A m \in 1..N : m # com_mem => mem'[m] = mem[m]
    BY <1>1, <1>8, <2>2, PutEffect, Zenon DEF CopyInv
  <2>4. flush # "idle" => mem'[F + 1] = mem[F + 1]
    <3>1. flush # "idle" => F + 1 \in 1..N /\ F + 1 # N
      BY <1>2
    <3> QED
      BY <2>3, <3>1, Zenon
  <2> QED
    BY <1>1, <2>1, <2>2, <2>3, <2>4, Zenon DEF CopyInv
<1>9. CASE Complete
  <2>1. Flushed' = Flushed
    BY <1>9, CompleteM, Zenon
  <2>2. com' = "idle" /\ UNCHANGED <<mem, l0, table, flush>>
    BY <1>9, Zenon DEF Complete, ring, flusher
  <2> QED
    BY <2>1, <2>2, QuietCopy, Zenon
<1>10. CASE FlushRead
  <2>1. Flushed' = F /\ table' = mem[F + 1]
    BY <1>1, <1>10, FlushReadM, Zenon
  <2>2. flush' = "publish" /\ UNCHANGED <<rot, com, com_mem, mem, l0>>
    BY <1>10, Zenon DEF FlushRead, leader, ring
  <2> QED
    BY <2>1, <2>2, Zenon DEF CopyInv
<1>11. CASE FlushPublish
  <2>1. Flushed' = F /\ Len(l0') = Len(l0) + 1 /\ l0'[1] = table
    BY <1>1, <1>11, PublishM, Zenon
  <2>2. flush = "publish" /\ flush' = "reset" /\ UNCHANGED <<rot, com, com_mem, mem>>
    BY <1>11, Zenon DEF FlushPublish, leader, ring
  <2>3. Len(l0') > 0
    BY <2>1, TypeFacts DEF MInv
  <2> QED
    BY <1>1, <2>1, <2>2, <2>3, Zenon DEF CopyInv
<1>12. CASE FlushReset
  <2>1. flush' = "idle" /\ UNCHANGED <<rot, com, com_mem, mem>>
    BY <1>12, Zenon DEF FlushReset, leader
  <2> QED
    BY <2>1, Zenon DEF CopyInv
<1>13. ~FlushFails
  BY Zenon DEF FlushFails, Careful
<1> QED
  BY <1>3, <1>4, <1>5, <1>6, <1>7, <1>8, <1>9, <1>10, <1>11, <1>12, <1>13, Steps, SMTT(20)

-----------------------------------------------------------------------------
(* What each step does to the values a get can find.                       *)
LEMMA FreezeValues ==
    ASSUME MInv, Freeze, NEW k \in Keys
    PROVE  Values(k)' = Values(k)
<1>1. PICK F, N : F = Flushed /\ N = Len(mem)
  BY Zenon
<1>2. /\ Flushed' = F /\ Len(mem') = N + 1 /\ mem'[N + 1] = Empty /\ \A m \in 1..N : mem'[m] = mem[m]
      /\ l0' = l0
  BY <1>1, FreezeEffect, Zenon DEF Freeze
<1>3. F \in Nat /\ N \in Nat /\ F < N
  <2>1. F \in Nat /\ N = imm_idx + 1 /\ F <= imm_idx /\ imm_idx \in Nat
    BY <1>1, RingFacts, Zenon DEF MInv
  <2> QED
    BY <2>1
<1>4. PICK A : A = {l0[j][k] : j \in 1..Len(l0)}
  BY Zenon
<1>5. Values(k) = {mem[m][k] : m \in (F + 1)..N} \cup A \cup {0}
  BY <1>1, <1>4, Zenon DEF Values
<1>6. Values(k)' = {mem'[m][k] : m \in (F + 1)..(N + 1)} \cup A \cup {0}
  BY <1>1, <1>2, <1>4 DEF Values
<1>7. \A m \in (F + 1)..(N + 1) : mem'[m][k] = 0 \/ (m \in (F + 1)..N /\ mem'[m][k] = mem[m][k])
  <2>1. \A m \in (F + 1)..(N + 1) : m # N + 1 => m \in (F + 1)..N
    BY <1>3
  <2>2. \A m \in (F + 1)..N : m \in 1..N
    BY <1>3
  <2>3. mem'[N + 1][k] = 0
    BY <1>2, Zenon DEF Empty
  <2> QED
    BY <1>2, <2>1, <2>2, <2>3, Zenon
<1>8. \A m \in (F + 1)..N : m \in (F + 1)..(N + 1) /\ mem'[m][k] = mem[m][k]
  <2>1. \A m \in (F + 1)..N : m \in (F + 1)..(N + 1) /\ m \in 1..N
    BY <1>3
  <2> QED
    BY <1>2, <2>1, Zenon
<1> QED
  BY <1>5, <1>6, <1>7, <1>8, Zenon

LEMMA PublishValues ==
    ASSUME MInv, CopyInv, FlushPublish, NEW k \in Keys
    PROVE  Values(k)' = Values(k)
<1>1. PICK F, N, L : F = Flushed /\ N = Len(mem) /\ L = Len(l0)
  BY Zenon
<1>2. /\ Flushed' = F /\ Len(l0') = L + 1 /\ l0'[1] = mem[F + 1] /\ \A j \in 1..L : l0'[j + 1] = l0[j]
      /\ mem' = mem
  <2>1. flush = "publish" /\ mem' = mem
    BY Zenon DEF FlushPublish, ring
  <2> QED
    BY <1>1, <2>1, PublishM, Zenon DEF CopyInv
<1>3. L \in Nat /\ F + 1 \in (F + 1)..N
  <2>1. flush # "idle"
    BY Zenon DEF FlushPublish
  <2>2. L \in Nat /\ F \in Nat /\ N = imm_idx + 1 /\ imm_idx \in Nat /\ F + 1 \in 1..imm_idx
    BY <1>1, <2>1, RingFacts, TypeFacts, Zenon DEF MInv
  <2> QED
    BY <2>2
<1>4. PICK A : A = {mem[m][k] : m \in (F + 1)..N}
  BY Zenon
<1>5. Values(k) = A \cup {l0[j][k] : j \in 1..L} \cup {0}
  BY <1>1, <1>4, Zenon DEF Values
<1>6. Values(k)' = A \cup {l0'[j][k] : j \in 1..(L + 1)} \cup {0}
  BY <1>1, <1>2, <1>4 DEF Values
<1>7. mem[F + 1][k] \in A
  BY <1>3, <1>4, Zenon
<1>8. \A j \in 1..(L + 1) : l0'[j][k] \in A \/ \E x \in 1..L : l0'[j][k] = l0[x][k]
  <2>1. \A j \in 1..(L + 1) : j = 1 \/ (j - 1 \in 1..L /\ (j - 1) + 1 = j)
    BY <1>3
  <2> QED
    BY <1>2, <1>7, <2>1, Zenon
<1>9. \A j \in 1..L : j + 1 \in 1..(L + 1) /\ l0[j][k] = l0'[j + 1][k]
  BY <1>2, <1>3
<1> QED
  BY <1>5, <1>6, <1>8, <1>9

LEMMA ResetValues ==
    ASSUME MInv, CopyInv, FlushReset, NEW k \in Keys
    PROVE  Values(k)' = Values(k)
<1>1. PICK F, N, L : F = Flushed /\ N = Len(mem) /\ L = Len(l0)
  BY Zenon
<1>2. Flushed' = F + 1 /\ mem' = mem /\ l0' = l0 /\ flush = "reset"
  BY <1>1, ResetM, Zenon DEF FlushReset
<1>3. L \in Nat /\ L > 0 /\ l0[1] = mem[F + 1]
  BY <1>1, <1>2, TypeFacts, Zenon DEF MInv, CopyInv
<1>4. F \in Nat /\ N \in Nat /\ F + 1 \in (F + 1)..N
  <2>1. F \in Nat /\ N = imm_idx + 1 /\ imm_idx \in Nat /\ F + 1 \in 1..imm_idx
    BY <1>1, <1>2, RingFacts, Zenon DEF MInv
  <2> QED
    BY <2>1
<1>5. PICK A : A = {l0[j][k] : j \in 1..L}
  BY Zenon
<1>6. Values(k) = {mem[m][k] : m \in (F + 1)..N} \cup A \cup {0}
  BY <1>1, <1>5, Zenon DEF Values
<1>7. Values(k)' = {mem[m][k] : m \in (F + 1 + 1)..N} \cup A \cup {0}
  BY <1>1, <1>2, <1>5, Zenon DEF Values
<1>8. mem[F + 1][k] \in A
  <2>1. 1 \in 1..L
    BY <1>3
  <2> QED
    BY <1>3, <1>5, <2>1, Zenon
<1>9. /\ \A m \in (F + 1)..N : m = F + 1 \/ m \in (F + 1 + 1)..N
      /\ \A m \in (F + 1 + 1)..N : m \in (F + 1)..N
  BY <1>4
<1> QED
  BY <1>6, <1>7, <1>8, <1>9, Zenon

(* An insertion gives one key a new value above the one a get would find.  *)
LEMMA PutVisible ==
    ASSUME MInv, MInv', CopyInv, MemtablePut
    PROVE  \E key \in Keys, v \in Nat :
              /\ Visible(key) < v /\ Visible(key)' = v
              /\ \A k \in Keys : k # key => Values(k)' = Values(k)
              /\ inserted + 1 \in 1..Len(batch) /\ batch[inserted + 1] = <<key, v>>
              /\ Len(mem') = Len(mem)
              /\ \A m \in 1..Len(mem) : \A k \in Keys :
                    mem'[m][k] = IF m = Len(mem) /\ k = key THEN v ELSE mem[m][k]
              /\ \A m \in 1..Len(mem) : \A k \in Keys : mem[m][k] < v
<1>1. PICK c \in 1..Len(mem), key \in Keys, v \in Nat :
        /\ c = com_mem /\ inserted + 1 \in 1..Len(batch) /\ batch[inserted + 1] = <<key, v>>
        /\ v > 0 /\ Len(mem') = Len(mem)
        /\ \A m \in 1..Len(mem) : \A k \in Keys :
              mem'[m][k] = IF m = c /\ k = key THEN v ELSE mem[m][k]
        /\ \A m \in 1..Len(mem) : \A k \in Keys : mem[m][k] < v
  BY PutEffect, Zenon
<1>2. com = "memtable" /\ l0' = l0 /\ Flushed' = Flushed
  BY PutM, Zenon DEF MemtablePut
<1>3. PICK F, N, L : F = Flushed /\ N = Len(mem) /\ L = Len(l0)
  BY Zenon
<1>4. c = N
  BY <1>1, <1>2, <1>3, Zenon DEF CopyInv
<1>5. F \in Nat /\ N \in Nat /\ L \in Nat /\ N \in (F + 1)..N /\ N \in 1..N
  <2>1. F \in Nat /\ N = imm_idx + 1 /\ F <= imm_idx /\ imm_idx \in Nat /\ L \in Nat
    BY <1>3, RingFacts, TypeFacts, Zenon DEF MInv
  <2> QED
    BY <2>1
<1>6. \A m \in (F + 1)..N : m \in 1..N
  BY <1>5
<1>7. \A k \in Keys : k # key => Values(k)' = Values(k)
  <2>1. SUFFICES ASSUME NEW k \in Keys, k # key PROVE Values(k)' = Values(k)
    OBVIOUS
  <2>2. \A m \in (F + 1)..N : mem'[m][k] = mem[m][k]
    BY <1>1, <1>3, <1>6, <2>1, Zenon
  <2>3. Values(k) = {mem[m][k] : m \in (F + 1)..N} \cup {l0[j][k] : j \in 1..L} \cup {0}
    BY <1>3, Zenon DEF Values
  <2>4. Values(k)' = {mem'[m][k] : m \in (F + 1)..N} \cup {l0[j][k] : j \in 1..L} \cup {0}
    BY <1>1, <1>2, <1>3, SMTT(20) DEF Values
  <2> QED
    BY <2>2, <2>3, <2>4, Zenon
<1>8. \A j \in 1..L : l0[j][key] \in Nat /\ l0[j][key] < v
  <2>1. SUFFICES ASSUME NEW j \in 1..L PROVE l0[j][key] \in Nat /\ l0[j][key] < v
    OBVIOUS
  <2>2. PICK m \in 1..N : l0[j][key] <= mem[m][key]
    BY <1>3, Zenon DEF MInv, AgeInv
  <2>3. mem[m][key] < v /\ mem[m][key] \in Nat /\ l0[j][key] \in Nat
    BY <1>1, <1>3, TypeFacts, Zenon DEF MInv
  <2> QED
    BY <2>2, <2>3
<1>9. \A m \in 1..N : mem[m][key] \in Nat /\ mem[m][key] < v
  BY <1>1, <1>3, TypeFacts, Zenon DEF MInv
<1>10. Visible(key) < v
  <2>1. \A w \in Values(key) : w < v
    <3>1. Values(key) = {mem[m][key] : m \in (F + 1)..N} \cup {l0[j][key] : j \in 1..L} \cup {0}
      BY <1>3, Zenon DEF Values
    <3>2. 0 < v
      BY <1>1, Zenon
    <3> QED
      BY <1>6, <1>8, <1>9, <3>1, <3>2, Zenon
  <2> QED
    BY <2>1, VisibleIs, Zenon
<1>11. Visible(key)' = v
  <2>1. Values(key)' = {mem'[m][key] : m \in (F + 1)..N} \cup {l0[j][key] : j \in 1..L} \cup {0}
    BY <1>1, <1>2, <1>3 DEF Values
  <2>2. mem'[N][key] = v
    BY <1>1, <1>3, <1>4, <1>5, Zenon
  <2>3. v \in Values(key)'
    BY <1>5, <2>1, <2>2, Zenon
  <2>4. \A m \in 1..N : mem'[m][key] \in Nat /\ mem'[m][key] <= v
    <3>1. \A m \in 1..N : mem'[m][key] = v \/ mem'[m][key] = mem[m][key]
      BY <1>1, <1>3, Zenon
    <3> QED
      BY <1>9, <3>1
  <2>5. \A w \in Values(key)' : w <= v
    <3>1. 0 <= v /\ \A j \in 1..L : l0[j][key] <= v
      BY <1>8
    <3> QED
      BY <1>6, <2>1, <2>4, <3>1, Zenon
  <2>6. PICK u : u = Visible(key)'
    OBVIOUS
  <2>7. u \in Nat /\ u \in Values(key)' /\ v <= u
    BY <2>3, <2>6, VisibleIsNext, Zenon
  <2>8. u <= v
    BY <2>5, <2>7, Zenon
  <2> QED
    BY <2>6, <2>7, <2>8
<1> QED
  BY <1>1, <1>3, <1>4, <1>7, <1>10, <1>11

(* Nothing else changes what a get would find.                             *)
LEMMA OthersVisible ==
    ASSUME Careful, MInv, CopyInv, [Next]_vars, ~MemtablePut, NEW k \in Keys
    PROVE  Visible(k)' = Visible(k)
<1>1. MInv'
  BY StepM, Zenon
<1>2. SUFFICES Values(k)' = Values(k)
  BY <1>1, SameVisible, Zenon
<1>3. CASE UNCHANGED <<mem, l0>> /\ Flushed' = Flushed
  BY <1>3, Zenon DEF Values
<1>4. CASE Aside
  <2>1. UNCHANGED <<mem, l0>> /\ Flushed' = Flushed
    BY <1>4, AsideEffect, QuietM, Zenon DEF ring
  <2> QED
    BY <1>3, <2>1, Zenon
<1>5. CASE EnqueueFlush
  <2>1. UNCHANGED <<mem, l0>> /\ Flushed' = Flushed
    BY <1>5, EnqueueM, Zenon DEF EnqueueFlush, ring
  <2> QED
    BY <1>3, <2>1, Zenon
<1>6. CASE Drain
  <2>1. UNCHANGED <<mem, l0>> /\ Flushed' = Flushed
    BY <1>6, DrainM, Zenon DEF Drain, ring
  <2> QED
    BY <1>3, <2>1, Zenon
<1>7. CASE WalStage \/ LoadActive
  <2>1. UNCHANGED <<mem, l0>> /\ Flushed' = Flushed
    BY <1>7, StageM, Zenon DEF WalStage, LoadActive, ring
  <2> QED
    BY <1>3, <2>1, Zenon
<1>8. CASE Complete
  <2>1. UNCHANGED <<mem, l0>> /\ Flushed' = Flushed
    BY <1>8, CompleteM, Zenon DEF Complete, ring
  <2> QED
    BY <1>3, <2>1, Zenon
<1>9. CASE FlushRead
  <2>1. UNCHANGED <<mem, l0>> /\ Flushed' = Flushed
    BY <1>9, FlushReadM, Zenon DEF FlushRead, ring
  <2> QED
    BY <1>3, <2>1, Zenon
<1>10. ~FlushFails
  BY Zenon DEF FlushFails, Careful
<1> QED
  BY <1>4, <1>5, <1>6, <1>7, <1>8, <1>9, <1>10, FreezeValues, PublishValues, ResetValues, Steps, Zenon

-----------------------------------------------------------------------------
(* What the leader has inserted is in the active memtable, and what was    *)
(* acknowledged a get would find.                                          *)
BatchInv == com = "memtable" => \A i \in 1..inserted : batch[i][2] <= mem[active][batch[i][1]]

LEMMA BatchStep ==
    ASSUME Careful, MInv, CopyInv, BatchInv, [Next]_vars
    PROVE  BatchInv'
<1>1. CASE UNCHANGED <<com, batch, inserted, mem>>
  BY <1>1, Zenon DEF BatchInv
<1>2. CASE Aside
  <2>1. UNCHANGED <<com, batch, inserted, mem>>
    BY <1>2, AsideEffect, Zenon DEF ring
  <2> QED
    BY <1>1, <2>1, Zenon
<1>3. CASE Freeze
  <2>1. rot = "maybe_flush" /\ com' = com
    BY <1>3, Zenon DEF Freeze
  <2> QED
    BY <2>1, Zenon DEF BatchInv, CopyInv
<1>4. CASE EnqueueFlush \/ FlushRead \/ FlushPublish \/ FlushFails \/ FlushReset
  <2>1. UNCHANGED <<com, batch, inserted, mem>>
    BY <1>4, Zenon DEF EnqueueFlush, FlushRead, FlushPublish, FlushFails, FlushReset, leader, ring
  <2> QED
    BY <1>1, <2>1, Zenon
<1>5. CASE Drain \/ WalStage \/ Complete
  BY <1>5, Zenon DEF Drain, WalStage, Complete, BatchInv
<1>6. CASE LoadActive
  <2>1. inserted' = 0
    BY <1>6, Zenon DEF LoadActive
  <2>2. \A i \in 1..inserted' : FALSE
    BY <2>1
  <2> QED
    BY <2>2, Zenon DEF BatchInv
<1>7. CASE MemtablePut
  <2>1. PICK key \in Keys, v \in Nat :
           /\ inserted + 1 \in 1..Len(batch) /\ batch[inserted + 1] = <<key, v>>
           /\ Len(mem') = Len(mem)
           /\ \A m \in 1..Len(mem) : \A k \in Keys :
                 mem'[m][k] = IF m = Len(mem) /\ k = key THEN v ELSE mem[m][k]
           /\ \A m \in 1..Len(mem) : \A k \in Keys : mem[m][k] < v
    BY <1>7, PutVisible, StepM, Zenon
  <2>2. com = "memtable" /\ batch' = batch /\ inserted' = inserted + 1
    BY <1>7, Zenon DEF MemtablePut
  <2>3. PICK N, n : N = Len(mem) /\ n = inserted
    BY Zenon
  <2>4. N \in Nat /\ N \in 1..N /\ n \in Nat /\ Len(batch) \in Nat /\ n <= Len(batch)
    BY <2>3, TypeFacts DEF MInv
  <2>5. \A i \in 1..(n + 1) : batch[i][2] <= mem'[N][batch[i][1]]
    <3>1. SUFFICES ASSUME NEW i \in 1..(n + 1) PROVE batch[i][2] <= mem'[N][batch[i][1]]
      OBVIOUS
    <3>2. CASE i = n + 1
      <4>1. mem'[N][key] = v /\ batch[i][1] = key /\ batch[i][2] = v
        BY <2>1, <2>3, <2>4, <3>2
      <4> QED
        BY <4>1
    <3>3. CASE i # n + 1
      <4>1. i \in 1..n /\ i \in 1..Len(batch)
        BY <2>4, <3>3
      <4>2. PICK k \in Keys, x \in Nat : batch[i] = <<k, x>>
        BY <4>1, TypeFacts, SMTT(20) DEF MInv
      <4>3. x <= mem[N][k]
        BY <2>2, <2>3, <4>1, <4>2 DEF BatchInv
      <4>4. mem[N][k] \in Nat /\ mem[N][k] < v /\ (mem'[N][k] = v \/ mem'[N][k] = mem[N][k])
        BY <2>1, <2>3, <2>4, TypeFacts, Zenon DEF MInv
      <4>5. x <= mem'[N][k]
        BY <4>3, <4>4
      <4> QED
        BY <4>2, <4>5
    <3> QED
      BY <3>2, <3>3, Zenon
  <2> QED
    BY <2>1, <2>2, <2>3, <2>5, Zenon DEF BatchInv
<1> QED
  BY <1>2, <1>3, <1>4, <1>5, <1>6, <1>7, Steps, Zenon

(* acked only changes when a batch completes.                              *)
LEMMA AckedQuiet ==
    ASSUME MInv, [Next]_vars, ~Complete
    PROVE  acked' = acked
<1>1. CASE Aside
  BY <1>1, AsideEffect, Zenon
<1>2. CASE Freeze \/ EnqueueFlush \/ FlushRead \/ FlushPublish \/ FlushFails \/ FlushReset
  BY <1>2, Zenon DEF Freeze, EnqueueFlush, FlushRead, FlushPublish, FlushFails, FlushReset
<1>3. CASE Drain \/ WalStage \/ LoadActive \/ MemtablePut
  BY <1>3, Zenon DEF Drain, WalStage, LoadActive, MemtablePut
<1> QED
  BY <1>1, <1>2, <1>3, Steps, Zenon

LEMMA AckedStep ==
    ASSUME Careful, MInv, CopyInv, BatchInv, AckedVisible, [Next]_vars
    PROVE  AckedVisible'
<1>1. MInv'
  BY StepM, Zenon
<1>2. \A k \in Keys : Visible(k) \in Nat /\ acked[k] \in Nat /\ acked[k] <= Visible(k)
  <2>1. \A k \in Keys : Visible(k) \in Nat /\ acked[k] \in Nat
    BY VisibleIs, Zenon DEF MInv, WTypes
  <2>2. \A k \in Keys : Visible(k) >= acked[k]
    BY Zenon DEF AckedVisible
  <2> QED
    BY <2>1, <2>2, Zenon
<1>3. SUFFICES ASSUME NEW k \in Keys PROVE Visible(k)' >= acked'[k]
  BY Zenon DEF AckedVisible
<1>4. CASE MemtablePut
  <2>1. PICK key \in Keys, v \in Nat :
           /\ Visible(key) < v /\ Visible(key)' = v
           /\ \A x \in Keys : x # key => Values(x)' = Values(x)
    BY <1>1, <1>4, PutVisible, Zenon
  <2>2. acked' = acked
    BY <1>4, Zenon DEF MemtablePut
  <2>3. CASE k = key
    BY <1>2, <2>1, <2>2, <2>3
  <2>4. CASE k # key
    <3>1. Visible(k)' = Visible(k)
      BY <1>1, <2>1, <2>4, SameVisible, Zenon
    <3> QED
      BY <1>2, <2>2, <3>1, Zenon
  <2> QED
    BY <2>3, <2>4, Zenon
<1>5. CASE ~MemtablePut /\ ~Complete
  <2>1. Visible(k)' = Visible(k) /\ acked' = acked
    BY <1>5, OthersVisible, AckedQuiet, Zenon
  <2> QED
    BY <1>2, <2>1, Zenon
<1>6. CASE ~MemtablePut /\ Complete
  <2>1. Visible(k)' = Visible(k)
    BY <1>6, OthersVisible, Zenon
  <2>2. CASE acked'[k] = acked[k]
    BY <1>2, <2>1, <2>2, Zenon
  <2>3. CASE \E i \in 1..Len(batch) : batch[i] = <<k, acked'[k]>>
    <3>1. PICK i \in 1..Len(batch) : batch[i] = <<k, acked'[k]>>
      BY <2>3, Zenon
    <3>2. com = "memtable" /\ inserted = Len(batch)
      BY <1>6, Zenon DEF Complete
    <3>3. acked'[k] <= mem[Len(mem)][k]
      BY <3>1, <3>2 DEF BatchInv
    <3>4. mem[Len(mem)][k] \in Values(k)
      <4>1. Len(mem) \in (Flushed + 1)..Len(mem)
        <5>1. Flushed \in Nat /\ Len(mem) = imm_idx + 1 /\ Flushed <= imm_idx /\ imm_idx \in Nat
          BY RingFacts, Zenon DEF MInv
        <5> QED
          BY <5>1
      <4> QED
        BY <4>1, Zenon DEF Values
    <3>5. mem[Len(mem)][k] \in Nat /\ mem[Len(mem)][k] <= Visible(k)
      BY <3>4, VisibleIs, Zenon
    <3>6. acked'[k] \in Nat
      BY <1>6, CompleteEffect, Zenon
    <3> QED
      BY <1>2, <2>1, <3>3, <3>5, <3>6
  <2> QED
    BY <1>6, <2>2, <2>3, CompleteEffect, Zenon
<1> QED
  BY <1>4, <1>5, <1>6, Zenon

(* The invariant about acknowledged puts.                                  *)
AckInv == MInv /\ CopyInv /\ BatchInv /\ AckedVisible

LEMMA AckInit ==
    ASSUME Init
    PROVE  AckInv
<1>1. MInv
  BY InitM, Zenon
<1>2. acked = Empty /\ com = "idle" /\ flush = "idle"
  BY Zenon DEF Init
<1>3. AckedVisible
  <2>1. \A k \in Keys : acked[k] = 0 /\ Visible(k) \in Nat
    BY <1>1, <1>2, VisibleIs, Zenon DEF Empty
  <2> QED
    BY <2>1 DEF AckedVisible
<1> QED
  BY <1>1, <1>2, <1>3, Zenon DEF AckInv, CopyInv, BatchInv

LEMMA AckNext ==
    ASSUME Careful, AckInv, [Next]_vars
    PROVE  AckInv'
<1>1. MInv'
  BY StepM, Zenon DEF AckInv
<1>2. CopyInv'
  BY CopyStep, Zenon DEF AckInv
<1>3. BatchInv'
  BY BatchStep, Zenon DEF AckInv
<1>4. AckedVisible'
  BY AckedStep, Zenon DEF AckInv
<1> QED
  BY <1>1, <1>2, <1>3, <1>4, Zenon DEF AckInv

(* With one writer and flushes that succeed, a put that returned is found  *)
(* by a get that starts now, whatever the rotation and the flush have got  *)
(* to and however large ring and batches are.                              *)
THEOREM AckedStaysVisible == Careful => (Spec => []AckedVisible)
<1> SUFFICES ASSUME Careful PROVE Spec => []AckedVisible
  OBVIOUS
<1>1. Init => AckInv
  BY AckInit, Zenon
<1>2. AckInv /\ [Next]_vars => AckInv'
  BY AckNext, Zenon
<1>3. AckInv => AckedVisible
  BY Zenon DEF AckInv
<1> QED
  BY <1>1, <1>2, <1>3, PTL DEF Spec

(* With one writer and flushes that succeed the engine is a map: only the  *)
(* insertion of a put changes what a get would find.                       *)
THEOREM EngineIsMap == Careful => (Spec => ActsAsMap)
<1> SUFFICES ASSUME Careful PROVE Spec => ActsAsMap
  OBVIOUS
<1>1. Init => AckInv
  BY AckInit, Zenon
<1>2. AckInv /\ [Next]_vars => AckInv'
  BY AckNext, Zenon
<1>3. Init => Map!MapInit
  <2>1. SUFFICES ASSUME Init PROVE [k \in Keys |-> Visible(k)] = [k \in Keys |-> 0]
    BY Zenon DEF Map!MapInit
  <2>2. MInv /\ Flushed = 0 /\ Len(mem) = 1 /\ Len(l0) = 0 /\ mem = <<Empty>>
    BY <2>1, InitM, Zenon DEF Init
  <2>3. ASSUME NEW k \in Keys PROVE Visible(k) = 0
    <3>1. \A w \in Values(k) : w = 0
      <4>1. \A m \in (0 + 1)..1 : m = 1
        OBVIOUS
      <4>2. \A j \in 1..0 : FALSE
        OBVIOUS
      <4>3. mem[1][k] = 0
        BY <2>2, Zenon DEF Empty
      <4> QED
        BY <2>2, <4>1, <4>2, <4>3, Zenon DEF Values
    <3> QED
      BY <2>2, <3>1, VisibleIs, Zenon
  <2> QED
    BY <2>3, Zenon
<1>4. AckInv /\ [Next]_vars => [Map!MapNext]_([k \in Keys |-> Visible(k)])
  <2>1. SUFFICES ASSUME AckInv, [Next]_vars
                 PROVE  Map!MapNext \/ [k \in Keys |-> Visible(k)]' = [k \in Keys |-> Visible(k)]
    OBVIOUS
  <2>2. MInv /\ CopyInv /\ MInv'
    BY <2>1, <1>2, Zenon DEF AckInv
  <2>3. CASE MemtablePut
    <3>1. PICK key \in Keys, v \in Nat :
             /\ Visible(key) < v /\ Visible(key)' = v
             /\ \A x \in Keys : x # key => Values(x)' = Values(x)
      BY <2>2, <2>3, PutVisible, Zenon
    <3>2. \A x \in Keys : x # key => Visible(x)' = Visible(x)
      BY <2>2, <3>1, SameVisible, Zenon
    <3>3. PICK f, g : f = [k \in Keys |-> Visible(k)] /\ g = [k \in Keys |-> Visible(k)']
      BY Zenon
    <3>4. g = [f EXCEPT ![key] = g[key]] /\ g[key] > f[key]
      <4>1. g[key] = v /\ f[key] = Visible(key) /\ Visible(key) \in Nat
        BY <2>2, <3>1, <3>3, VisibleIs, Zenon
      <4>2. g[key] > f[key]
        BY <3>1, <4>1, Zenon
      <4>3. \A x \in Keys : x # key => g[x] = f[x]
        BY <3>2, <3>3, Zenon
      <4>4. g = [f EXCEPT ![key] = g[key]]
        BY <3>3, <4>3, Zenon
      <4> QED
        BY <4>2, <4>4, Zenon
    <3>5. [k \in Keys |-> Visible(k)]' = g
      BY <3>3, Zenon
    <3>6. Map!MapPut(key)
      BY <3>3, <3>4, <3>5, Zenon DEF Map!MapPut
    <3> QED
      BY <3>6, Zenon DEF Map!MapNext
  <2>4. CASE ~MemtablePut
    <3>1. \A k \in Keys : Visible(k)' = Visible(k)
      BY <2>1, <2>2, <2>4, OthersVisible, Zenon
    <3> QED
      BY <3>1, Zenon
  <2> QED
    BY <2>3, <2>4, Zenon
<1> QED
  BY <1>1, <1>2, <1>3, <1>4, PTL DEF Spec, ActsAsMap, Map!MapSpec

=============================================================================
