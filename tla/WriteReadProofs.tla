-------------------------- MODULE WriteReadProofs --------------------------
(***************************************************************************)
(* Proofs about the reads of the write path, for any keys, ring, readers   *)
(* and bounds: what a get and a scan return while memtables rotate and are *)
(* flushed under them.                                                     *)
(***************************************************************************)
EXTENDS WritePathProofs

USE DEF active

(* A get with snapshot order and floor f finds what it must in a memtable  *)
(* of the snapshot, or it finds it in the tables and nothing older before. *)
GetSafe(order, k, f) ==
    /\ \A i, j \in 1..Len(order) : i < j /\ order[i] # 0 /\ order[j] # 0 => order[j] < order[i]
    /\ \/ \E i \in 1..Len(order) : order[i] # 0 /\ f <= mem[order[i]][k]
       \/ /\ \A i \in 1..Len(order) : order[i] # 0 /\ mem[order[i]][k] # 0 => f <= mem[order[i]][k]
          /\ f <= FirstHit(l0, k)

ScanSafe(order, k, f) ==
    f # 0 => \/ \E i \in 1..Len(order) : order[i] # 0 /\ mem[order[i]][k] # 0
             \/ FirstHit(l0, k) # 0

ReadInv(rd) ==
    /\ rd.pc # "idle" => rd.key \in Keys /\ rd.floor <= acked[rd.key]
    /\ rd.pc = "memtables" => rd.order \in Seq(0..active)
    /\ rd.pc = "memtables" /\ ~rd.scan => GetSafe(rd.order, rd.key, rd.floor)
    /\ rd.pc = "memtables" /\ rd.scan => ScanSafe(rd.order, rd.key, rd.floor)
    /\ rd.pc = "tables" /\ ~rd.scan => rd.floor <= FirstHit(l0, rd.key)
    /\ rd.pc = "tables" /\ rd.scan /\ rd.floor # 0 => rd.result # 0 \/ FirstHit(l0, rd.key) # 0
    /\ rd.pc = "returned" /\ ~rd.scan => rd.floor <= rd.result
    /\ rd.pc = "returned" /\ rd.scan /\ rd.floor # 0 => rd.result # 0

Reading == [pc : {"idle", "memtables", "tables", "returned"}, scan : BOOLEAN, key : Keys \cup {0},
            floor : Nat, order : Seq(Nat), result : Nat]

ReadsInv == read \in [Readers -> Reading] /\ \A r \in Readers : ReadInv(read[r])

(* The first hit in level 0 is the newest value there.                     *)
LEMMA TablesHit ==
    ASSUME MInv, NEW k \in Keys
    PROVE  /\ FirstHit(l0, k) \in Nat /\ \A j \in 1..Len(l0) : l0[j][k] \in Nat /\ l0[j][k] <= FirstHit(l0, k)
           /\ FirstHit(l0, k) # 0 => \E j \in 1..Len(l0) : FirstHit(l0, k) = l0[j][k]
<1>1. PICK l, v, L : l = l0 /\ v = FirstHit(l0, k) /\ L = Len(l0)
  BY Zenon
<1>2. l \in Seq([Keys -> Nat]) /\ L \in Nat /\ \A j \in 1..L : l[j][k] \in Nat
  BY <1>1, TypeFacts, Zenon DEF MInv, WTypes
<1>3. /\ v \in Nat
      /\ v = 0 <=> \A i \in 1..L : l[i][k] = 0
      /\ v # 0 => \E i \in 1..L : l[i][k] = v /\ \A j \in 1..L : j < i => l[j][k] = 0
  BY <1>1, <1>2, FirstHitIs, Zenon
<1>4. \A j \in 1..L : l[j][k] <= v
  <2>1. SUFFICES ASSUME NEW j \in 1..L PROVE l[j][k] <= v
    OBVIOUS
  <2>2. CASE v = 0
    BY <1>3, <2>2
  <2>3. CASE v # 0
    <3>1. PICK i \in 1..L : l[i][k] = v /\ \A x \in 1..L : x < i => l[x][k] = 0
      BY <1>3, <2>3, Zenon
    <3>2. CASE j < i
      <4>1. l[j][k] = 0
        BY <3>1, <3>2, Zenon
      <4> QED
        BY <1>3, <4>1
    <3>3. CASE j = i
      <4>1. l[j][k] = v
        BY <3>1, <3>3, Zenon
      <4> QED
        BY <1>3, <4>1
    <3>4. CASE i < j
      BY <1>1, <2>3, <3>1, <3>4, Zenon DEF MInv, AgeInv
    <3> QED
      BY <1>2, <3>2, <3>3, <3>4
  <2> QED
    BY <2>2, <2>3, Zenon
<1> QED
  BY <1>1, <1>2, <1>3, <1>4, Zenon

LEMMA TablesHitNext ==
    ASSUME NEW k \in Keys
    PROVE  (MInv => /\ FirstHit(l0, k) \in Nat
                    /\ \A j \in 1..Len(l0) : l0[j][k] \in Nat /\ l0[j][k] <= FirstHit(l0, k))'
<1>1. MInv => /\ FirstHit(l0, k) \in Nat
              /\ \A j \in 1..Len(l0) : l0[j][k] \in Nat /\ l0[j][k] <= FirstHit(l0, k)
  BY TablesHit, Zenon
<1> QED
  BY <1>1, PTL

(* What level 0 yields for a key never gets older.                         *)
LEMMA TablesGrow ==
    ASSUME MInv, [Next]_vars, NEW k \in Keys
    PROVE  /\ FirstHit(l0, k) \in Nat /\ FirstHit(l0, k)' \in Nat
           /\ FirstHit(l0, k) <= FirstHit(l0, k)'
<1>1. MInv'
  BY StepM, Zenon
<1>2. PICK u, v : u = FirstHit(l0, k) /\ v = FirstHit(l0, k)'
  OBVIOUS
<1>3. u \in Nat /\ v \in Nat
  BY <1>1, <1>2, TablesHit, TablesHitNext, Zenon
<1>4. CASE l0' = l0
  <2>1. FirstHit(l0, k)' = FirstHit(l0, k)
    BY <1>4, Zenon
  <2>2. v = u
    BY <1>2, <2>1, Zenon
  <2> QED
    BY <1>2, <1>3, <2>2
<1>5. CASE FlushPublish
  <2>1. Len(l0') = Len(l0) + 1 /\ \A j \in 1..Len(l0) : l0'[j + 1] = l0[j]
    BY <1>5, PublishM, Zenon
  <2>2. Len(l0) \in Nat
    BY TypeFacts, Zenon DEF MInv
  <2>3. \A j \in 1..Len(l0) : l0[j][k] <= v
    <3>1. \A j \in 1..Len(l0') : l0'[j][k] <= v
      BY <1>1, <1>2, TablesHitNext, Zenon
    <3>2. \A j \in 1..Len(l0) : j + 1 \in 1..Len(l0')
      BY <2>1, <2>2
    <3> QED
      BY <2>1, <3>1, <3>2, Zenon
  <2>4. u # 0 => \E j \in 1..Len(l0) : u = l0[j][k]
    BY <1>2, TablesHit, Zenon
  <2>5. u <= v
    BY <1>3, <2>3, <2>4
  <2> QED
    BY <1>2, <1>3, <2>5, Zenon
<1>6. l0' = l0 \/ FlushPublish
  <2>1. CASE Aside
    BY <2>1, AsideEffect, Zenon
  <2>2. CASE Freeze \/ EnqueueFlush \/ FlushRead \/ FlushFails \/ FlushReset
    BY <2>2, Zenon DEF Freeze, EnqueueFlush, FlushRead, FlushFails, FlushReset
  <2>3. CASE Drain \/ WalStage \/ LoadActive \/ MemtablePut \/ Complete
    BY <2>3, Zenon DEF Drain, WalStage, LoadActive, MemtablePut, Complete
  <2> QED
    BY <2>1, <2>2, <2>3, Steps, Zenon
<1> QED
  BY <1>4, <1>5, <1>6, Zenon

(* Memtables are appended, and a value that changes rises above what a get *)
(* would have found.                                                       *)
LEMMA MemtablesGrow ==
    ASSUME Careful, AckInv, [Next]_vars
    PROVE  /\ Len(mem) <= Len(mem')
           /\ \A m \in 1..Len(mem) : \A k \in Keys :
                 mem'[m][k] = mem[m][k] \/ (mem'[m][k] \in Nat /\ mem[m][k] < mem'[m][k] /\ Visible(k) < mem'[m][k])
<1>1. MInv /\ CopyInv /\ MInv' /\ Len(mem) \in Nat
  BY AckNext, TypeFacts, Zenon DEF AckInv, MInv
<1>2. CASE mem' = mem
  BY <1>1, <1>2
<1>3. CASE Freeze
  <2>1. Len(mem') = Len(mem) + 1 /\ \A m \in 1..Len(mem) : mem'[m] = mem[m]
    BY <1>1, <1>3, FreezeEffect, Zenon
  <2> QED
    BY <1>1, <2>1
<1>4. CASE MemtablePut
  <2>1. PICK key \in Keys, v \in Nat :
           /\ Visible(key) < v /\ Len(mem') = Len(mem)
           /\ \A m \in 1..Len(mem) : \A k \in Keys :
                 mem'[m][k] = IF m = Len(mem) /\ k = key THEN v ELSE mem[m][k]
           /\ \A m \in 1..Len(mem) : \A k \in Keys : mem[m][k] < v
    BY <1>1, <1>4, PutVisible, Zenon
  <2>2. ASSUME NEW m \in 1..Len(mem), NEW k \in Keys
        PROVE  mem'[m][k] = mem[m][k] \/ (mem'[m][k] \in Nat /\ mem[m][k] < mem'[m][k] /\ Visible(k) < mem'[m][k])
    <3>1. CASE m = Len(mem) /\ k = key
      <4>1. mem'[m][k] = v /\ mem[m][k] < v
        BY <2>1, <3>1, Zenon
      <4> QED
        BY <2>1, <3>1, <4>1, Zenon
    <3>2. CASE ~(m = Len(mem) /\ k = key)
      BY <2>1, <3>2, Zenon
    <3> QED
      BY <3>1, <3>2, Zenon
  <2>3. Len(mem) <= Len(mem')
    BY <1>1, <2>1
  <2> QED
    BY <2>2, <2>3, Zenon
<1>5. mem' = mem \/ Freeze \/ MemtablePut
  <2>1. CASE Aside
    BY <1>1, <2>1, AsideEffect, Zenon DEF ring
  <2>2. CASE EnqueueFlush \/ FlushRead \/ FlushPublish \/ FlushFails \/ FlushReset
    BY <2>2, Zenon DEF EnqueueFlush, FlushRead, FlushPublish, FlushFails, FlushReset, ring
  <2>3. CASE Drain \/ WalStage \/ LoadActive \/ Complete
    BY <2>3, Zenon DEF Drain, WalStage, LoadActive, Complete, ring
  <2> QED
    BY <2>1, <2>2, <2>3, Steps, Zenon
<1> QED
  BY <1>2, <1>3, <1>4, <1>5, Zenon

-----------------------------------------------------------------------------
(* No step of the others spoils a read in progress.                        *)
LEMMA GetLater ==
    ASSUME Careful, AckInv, [Next]_vars, NEW k \in Keys, NEW f \in Nat, f <= acked[k],
           NEW order \in Seq(0..Len(mem)), GetSafe(order, k, f)
    PROVE  GetSafe(order, k, f)'
<1>1. MInv /\ MInv' /\ Visible(k) \in Nat /\ acked[k] \in Nat /\ acked[k] <= Visible(k)
  <2>1. MInv /\ MInv' /\ Visible(k) >= acked[k]
    BY AckNext, Zenon DEF AckInv, AckedVisible
  <2>2. Visible(k) \in Nat /\ acked[k] \in Nat
    BY <2>1, VisibleIs, Zenon DEF MInv, WTypes
  <2> QED
    BY <2>1, <2>2, Zenon
<1>2. Len(mem) \in Nat /\ \A m \in 1..Len(mem) : mem[m][k] \in Nat
  BY <1>1, TypeFacts, Zenon DEF MInv
<1>3. \A m \in 1..Len(mem) :
         mem'[m][k] = mem[m][k] \/ (mem'[m][k] \in Nat /\ mem[m][k] < mem'[m][k] /\ Visible(k) < mem'[m][k])
  BY MemtablesGrow, Zenon
<1>4. PICK n : n = Len(order) /\ n \in Nat
  OBVIOUS
<1>5. \A i \in 1..n : order[i] # 0 => order[i] \in 1..Len(mem)
  <2>1. \A i \in 1..n : order[i] \in 0..Len(mem)
    BY <1>4
  <2> QED
    BY <1>2, <2>1
<1>6. \A i, j \in 1..n : i < j /\ order[i] # 0 /\ order[j] # 0 => order[j] < order[i]
  BY <1>4, Zenon DEF GetSafe
<1>7. CASE \E i \in 1..n : order[i] # 0 /\ f <= mem[order[i]][k]
  <2>1. PICK i \in 1..n : order[i] # 0 /\ f <= mem[order[i]][k]
    BY <1>7, Zenon
  <2>2. order[i] \in 1..Len(mem)
    BY <1>5, <2>1, Zenon
  <2>3. f <= mem'[order[i]][k]
    <3>1. PICK a, b : a = mem[order[i]][k] /\ b = mem'[order[i]][k]
      BY Zenon
    <3>2. a \in Nat /\ f <= a /\ (b = a \/ (b \in Nat /\ a < b))
      BY <1>2, <1>3, <2>1, <2>2, <3>1, Zenon
    <3>3. f <= b
      BY <3>2
    <3> QED
      BY <3>1, <3>3, Zenon
  <2> QED
    BY <1>4, <1>6, <2>1, <2>3, Zenon DEF GetSafe
<1>8. CASE /\ \A i \in 1..n : order[i] # 0 /\ mem[order[i]][k] # 0 => f <= mem[order[i]][k]
           /\ f <= FirstHit(l0, k)
  <2>1. f <= FirstHit(l0, k)'
    <3>1. PICK u, v : u = FirstHit(l0, k) /\ v = FirstHit(l0, k)'
      OBVIOUS
    <3>2. u \in Nat /\ v \in Nat /\ u <= v /\ f <= u
      BY <1>1, <1>8, <3>1, TablesGrow, Zenon
    <3>3. f <= v
      BY <3>2
    <3> QED
      BY <3>1, <3>3, Zenon
  <2>2. \A i \in 1..n : order[i] # 0 /\ mem'[order[i]][k] # 0 => f <= mem'[order[i]][k]
    <3>1. SUFFICES ASSUME NEW i \in 1..n, order[i] # 0, mem'[order[i]][k] # 0 PROVE f <= mem'[order[i]][k]
      OBVIOUS
    <3>2. order[i] \in 1..Len(mem)
      BY <1>5, <3>1, Zenon
    <3>3. CASE mem'[order[i]][k] = mem[order[i]][k]
      BY <1>8, <3>1, <3>3, Zenon
    <3>4. CASE mem'[order[i]][k] \in Nat /\ Visible(k) < mem'[order[i]][k]
      BY <1>1, <3>4, SMTT(20)
    <3> QED
      BY <1>3, <3>2, <3>3, <3>4, Zenon
  <2> QED
    BY <1>4, <1>6, <2>1, <2>2, Zenon DEF GetSafe
<1> QED
  BY <1>4, <1>7, <1>8, Zenon DEF GetSafe

LEMMA ScanLater ==
    ASSUME Careful, AckInv, [Next]_vars, NEW k \in Keys, NEW f \in Nat,
           NEW order \in Seq(0..Len(mem)), ScanSafe(order, k, f)
    PROVE  ScanSafe(order, k, f)'
<1>1. MInv
  BY Zenon DEF AckInv
<1>2. SUFFICES ASSUME f # 0
               PROVE  \/ \E i \in 1..Len(order) : order[i] # 0 /\ mem'[order[i]][k] # 0
                      \/ FirstHit(l0, k)' # 0
  BY Zenon DEF ScanSafe
<1>3. CASE \E i \in 1..Len(order) : order[i] # 0 /\ mem[order[i]][k] # 0
  <2>1. PICK i \in 1..Len(order) : order[i] # 0 /\ mem[order[i]][k] # 0
    BY <1>3, Zenon
  <2>2. Len(mem) \in Nat /\ order[i] \in 0..Len(mem)
    BY <1>1, TypeFacts, SMTT(20) DEF MInv
  <2>3. order[i] \in 1..Len(mem)
    BY <2>1, <2>2
  <2>4. mem[order[i]][k] \in Nat
    BY <1>1, <2>3, TypeFacts, Zenon DEF MInv
  <2>5. mem'[order[i]][k] = mem[order[i]][k] \/ (mem'[order[i]][k] \in Nat /\ mem[order[i]][k] < mem'[order[i]][k])
    BY <2>3, MemtablesGrow, Zenon
  <2>6. mem'[order[i]][k] # 0
    BY <2>1, <2>4, <2>5
  <2> QED
    BY <2>1, <2>6, Zenon
<1>4. CASE FirstHit(l0, k) # 0
  <2>1. PICK u, v : u = FirstHit(l0, k) /\ v = FirstHit(l0, k)'
    OBVIOUS
  <2>2. u \in Nat /\ v \in Nat /\ u <= v /\ u # 0
    BY <1>1, <1>4, <2>1, TablesGrow, Zenon
  <2>3. v # 0
    BY <2>2
  <2> QED
    BY <2>1, <2>3, Zenon
<1> QED
  BY <1>2, <1>3, <1>4, Zenon DEF ScanSafe

LEMMA ReadLater ==
    ASSUME Careful, AckInv, [Next]_vars, NEW rd \in Reading, ReadInv(rd)
    PROVE  ReadInv(rd)'
<1>1. MInv /\ MInv'
  BY AckNext, Zenon DEF AckInv
<1>2. CASE rd.pc = "idle"
  BY <1>2, Zenon DEF ReadInv
<1>3. CASE rd.pc # "idle"
  <2>1. PICK k \in Keys, f \in Nat : k = rd.key /\ f = rd.floor
    BY <1>3, Zenon DEF ReadInv, Reading
  <2>2. f <= acked[k] /\ f <= acked'[k]
    <3>1. f <= acked[k] /\ acked[k] \in Nat
      BY <1>1, <1>3, <2>1, Zenon DEF ReadInv, MInv, WTypes
    <3>2. CASE Complete
      <4>1. acked'[k] \in Nat /\ acked[k] <= acked'[k]
        BY <1>1, <3>2, CompleteEffect, Zenon
      <4> QED
        BY <3>1, <4>1
    <3>3. CASE ~Complete
      BY <1>1, <3>1, <3>3, AckedQuiet, Zenon
    <3> QED
      BY <3>2, <3>3, Zenon
  <2>3. CASE rd.pc = "memtables"
    <3>1. PICK order \in Seq(0..Len(mem)) : order = rd.order
      BY <2>3, Zenon DEF ReadInv
    <3>2. order \in Seq(0..Len(mem'))
      <4>1. 0..Len(mem) \subseteq 0..Len(mem')
        <5>1. Len(mem) <= Len(mem')
          BY MemtablesGrow, Zenon
        <5>2. mem \in Seq([Keys -> Nat]) /\ mem' \in Seq([Keys -> Nat])
          BY <1>1, Zenon DEF MInv, WTypes
        <5>3. Len(mem) \in Nat /\ Len(mem') \in Nat
          BY <5>2
        <5> QED
          BY <5>1, <5>3
      <4>2. order \in [1..Len(order) -> 0..Len(mem)] /\ Len(order) \in Nat
        OBVIOUS
      <4>3. order \in [1..Len(order) -> 0..Len(mem')]
        BY <4>1, <4>2, Zenon
      <4> QED
        BY <4>2, <4>3, SMTT(20)
    <3>3. CASE ~rd.scan
      <4>1. GetSafe(order, k, f)
        BY <2>1, <2>3, <3>1, <3>3, Zenon DEF ReadInv
      <4>2. GetSafe(order, k, f)'
        BY <2>2, <4>1, GetLater, ZenonT(30)
      <4> QED
        BY <2>1, <2>2, <2>3, <3>1, <3>2, <3>3, <4>2, SMTT(20) DEF ReadInv
    <3>4. CASE rd.scan
      <4>1. ScanSafe(order, k, f)
        BY <2>1, <2>3, <3>1, <3>4, Zenon DEF ReadInv
      <4>2. ScanSafe(order, k, f)'
        BY <4>1, ScanLater, Zenon
      <4> QED
        BY <2>1, <2>2, <2>3, <3>1, <3>2, <3>4, <4>2, SMTT(20) DEF ReadInv
    <3> QED
      BY <3>3, <3>4, Zenon
  <2>4. CASE rd.pc = "tables"
    <3>1. PICK u, v : u = FirstHit(l0, k) /\ v = FirstHit(l0, k)'
      OBVIOUS
    <3>2. u \in Nat /\ v \in Nat /\ u <= v
      BY <1>1, <3>1, TablesGrow, Zenon
    <3>3. /\ ~rd.scan => f <= u
          /\ rd.scan /\ f # 0 => rd.result # 0 \/ u # 0
      BY <2>1, <2>4, <3>1, Zenon DEF ReadInv
    <3>4. (~rd.scan => f <= v) /\ (u # 0 => v # 0)
      BY <3>2, <3>3
    <3> QED
      BY <2>1, <2>2, <2>4, <3>1, <3>3, <3>4, Zenon DEF ReadInv
  <2>5. CASE rd.pc = "returned"
    BY <2>1, <2>2, <2>5, Zenon DEF ReadInv
  <2> QED
    BY <1>3, <2>3, <2>4, <2>5, Zenon DEF Reading
<1> QED
  BY <1>2, <1>3, Zenon

-----------------------------------------------------------------------------
(* The snapshot a read takes is safe.                                      *)
LEMMA GetBegins ==
    ASSUME AckInv, NEW k \in Keys
    PROVE  GetOrder \in Seq(0..Len(mem)) /\ GetSafe(GetOrder, k, acked[k])
<1>1. PICK g, N, F, f : g = GetOrder /\ N = Len(mem) /\ F = Flushed /\ f = acked[k]
  BY Zenon
<1>2. MInv /\ N \in Nat /\ F \in Nat /\ f \in Nat
  <2>1. MInv
    BY Zenon DEF AckInv
  <2> QED
    BY <1>1, <2>1, RingFacts, TypeFacts, Zenon DEF MInv, WTypes
<1>3. /\ g \in Seq(Nat) /\ Len(g) \in Nat
      /\ \A i \in 1..Len(g) : g[i] # 0 => g[i] = N - i + 1 /\ g[i] \in (F + 1)..N
      /\ \A m \in (F + 1)..N : N - m + 1 \in 1..Len(g) /\ g[N - m + 1] = m
  <2>1. /\ g \in Seq(Nat)
        /\ \A i \in 1..Len(g) : g[i] # 0 => g[i] = N - i + 1 /\ g[i] \in (F + 1)..N
        /\ \A m \in (F + 1)..N : N - m + 1 \in 1..Len(g) /\ g[N - m + 1] = m
    BY <1>1, <1>2, GetOrderIs, Zenon
  <2> QED
    BY <2>1
<1>4. g \in Seq(0..N)
  <2>1. 0 \in 0..N /\ \A m \in (F + 1)..N : m \in 0..N
    BY <1>2
  <2>2. \A i \in 1..Len(g) : g[i] \in 0..N
    BY <1>3, <2>1, Zenon
  <2> QED
    BY <1>2, <1>3, <2>2, NarrowSeq, Zenon
<1>5. \A i, j \in 1..Len(g) : i < j /\ g[i] # 0 /\ g[j] # 0 => g[j] < g[i]
  <2>1. SUFFICES ASSUME NEW i \in 1..Len(g), NEW j \in 1..Len(g), i < j, g[i] # 0, g[j] # 0 PROVE g[j] < g[i]
    OBVIOUS
  <2>2. g[i] = N - i + 1 /\ g[j] = N - j + 1
    BY <1>3, <2>1, Zenon
  <2> QED
    BY <1>2, <1>3, <2>1, <2>2
<1>6. PICK v : v = Visible(k) /\ v \in Nat /\ v \in Values(k) /\ f <= v
  <2>1. Visible(k) \in Nat /\ Visible(k) \in Values(k)
    BY <1>2, VisibleIs, Zenon
  <2>2. Visible(k) >= f
    BY <1>1, Zenon DEF AckInv, AckedVisible
  <2> QED
    BY <1>2, <2>1, <2>2, Zenon
<1>7. PICK h : h = FirstHit(l0, k) /\ h \in Nat /\ \A j \in 1..Len(l0) : l0[j][k] \in Nat /\ l0[j][k] <= h
  BY <1>2, TablesHit, Zenon
<1>8. \/ \E i \in 1..Len(g) : g[i] # 0 /\ f <= mem[g[i]][k]
      \/ /\ \A i \in 1..Len(g) : g[i] # 0 /\ mem[g[i]][k] # 0 => f <= mem[g[i]][k]
         /\ f <= h
  <2>1. CASE \E m \in (F + 1)..N : v = mem[m][k]
    <3>1. PICK m \in (F + 1)..N : v = mem[m][k]
      BY <2>1, Zenon
    <3>2. PICK i \in 1..Len(g) : g[i] = m
      BY <1>3, Zenon
    <3>3. m # 0
      BY <1>2
    <3> QED
      BY <1>6, <3>1, <3>2, <3>3, Zenon
  <2>2. CASE \E j \in 1..Len(l0) : v = l0[j][k]
    <3>1. PICK j \in 1..Len(l0) : v = l0[j][k]
      BY <2>2, Zenon
    <3>2. f <= h
      BY <1>2, <1>6, <1>7, <3>1, SMTT(20)
    <3>3. ASSUME NEW i \in 1..Len(g), g[i] # 0, mem[g[i]][k] # 0 PROVE f <= mem[g[i]][k]
      <4>1. PICK m \in (F + 1)..N : m = g[i]
        BY <1>3, <3>3, Zenon
      <4>2. l0[j][k] <= mem[m][k]
        BY <1>1, <1>2, <3>3, <4>1, RingAboveTables, Zenon
      <4>3. m \in 1..N
        BY <1>2
      <4>4. mem[m][k] \in Nat
        BY <1>1, <1>2, <4>3, TypeFacts, Zenon DEF MInv
      <4>5. f <= mem[m][k]
        BY <1>2, <1>6, <3>1, <4>2, <4>4, SMTT(20)
      <4> QED
        BY <4>1, <4>5, Zenon
    <3> QED
      BY <3>2, <3>3, Zenon
  <2>3. CASE v = 0
    <3>1. f = 0 /\ f <= h
      BY <1>2, <1>6, <1>7, <2>3
    <3>2. \A i \in 1..Len(g) : g[i] # 0 => mem[g[i]][k] \in Nat
      <4>1. \A m \in (F + 1)..N : m \in 1..N
        BY <1>2
      <4>2. \A m \in 1..N : mem[m][k] \in Nat
        BY <1>1, <1>2, TypeFacts, Zenon DEF MInv
      <4> QED
        BY <1>3, <4>1, <4>2, Zenon
    <3> QED
      BY <3>1, <3>2
  <2> QED
    BY <1>1, <1>6, <2>1, <2>2, <2>3, Zenon DEF Values
<1>9. GetSafe(g, k, f)
  BY <1>5, <1>7, <1>8, Zenon DEF GetSafe
<1> QED
  BY <1>1, <1>4, <1>9, Zenon

LEMMA ScanBegins ==
    ASSUME AckInv, NEW k \in Keys
    PROVE  ScanOrder \in Seq(0..Len(mem)) /\ ScanSafe(ScanOrder, k, acked[k])
<1>1. PICK N, I, F : N = Len(mem) /\ I = imm_idx /\ F = Flushed
  BY Zenon
<1>2. MInv /\ N \in Nat /\ I \in Nat /\ F \in Nat /\ N = I + 1 /\ Slots \in Nat /\ Slots > 0
  <2>1. MInv
    BY Zenon DEF AckInv
  <2> QED
    BY <1>1, <2>1, RingFacts, TypeFacts, SlotsAre, Zenon DEF MInv, WTypes
<1>3. \A x \in 0..(Slots - 1) : immutables[x] \in 0..N
  <2>1. SUFFICES ASSUME NEW x \in 0..(Slots - 1) PROVE immutables[x] \in 0..N
    OBVIOUS
  <2>2. immutables[x] # 0 => immutables[x] \in (F + 1)..I
    BY <1>1, <1>2, Zenon DEF MInv, RingInv
  <2> QED
    BY <1>2, <2>2
<1>4. PICK s : s = [i \in 1..Slots |-> immutables[i - 1]]
  BY Zenon
<1>5. s \in Seq(0..N) /\ Len(s) = Slots /\ \A i \in 1..Slots : s[i] = immutables[i - 1]
  <2>1. \A i \in 1..Slots : i - 1 \in 0..(Slots - 1)
    BY <1>2
  <2>2. \A i \in 1..Slots : immutables[i - 1] \in 0..N
    BY <1>3, <2>1, Zenon
  <2> QED
    BY <1>2, <1>4, <2>2
<1>6. PICK o : o = <<N>> \o s
  BY Zenon
<1>7. ScanOrder = o
  BY <1>1, <1>4, <1>6, Zenon DEF ScanOrder
<1>8. /\ o \in Seq(0..N) /\ Len(o) = Slots + 1 /\ o[1] = N
      /\ \A i \in 1..Slots : o[i + 1] = s[i]
  <2>1. <<N>> \in Seq(0..N) /\ Len(<<N>>) = 1
    BY <1>2
  <2>2. o \in Seq(0..N) /\ Len(o) = Slots + 1
    BY <1>2, <1>5, <1>6, <2>1, ConcatIs
  <2>3. o[1] = N /\ \A i \in 1..Slots : o[i + 1] = s[i]
    BY <1>2, <1>5, <1>6
  <2> QED
    BY <2>2, <2>3, Zenon
<1>9. \A m \in (F + 1)..N : \E i \in 1..Len(o) : o[i] = m
  <2>1. SUFFICES ASSUME NEW m \in (F + 1)..N PROVE \E i \in 1..Len(o) : o[i] = m
    OBVIOUS
  <2>2. CASE m = N
    <3>1. 1 \in 1..Len(o)
      BY <1>2, <1>8
    <3> QED
      BY <1>8, <2>2, <3>1, Zenon
  <2>3. CASE m # N
    <3>1. m \in (F + 1)..I /\ m - 1 \in Int
      BY <1>2, <2>3
    <3>2. PICK x \in 0..(Slots - 1) : x = Slot(m - 1) /\ immutables[x] = m
      BY <1>1, <1>2, <3>1, SlotRange, Zenon DEF MInv, RingInv
    <3>3. x + 1 \in 1..Slots /\ (x + 1) - 1 = x /\ (x + 1) + 1 \in 1..(Slots + 1)
      BY <1>2
    <3>4. o[(x + 1) + 1] = m
      BY <1>5, <1>8, <3>2, <3>3, Zenon
    <3> QED
      BY <1>8, <3>3, <3>4, Zenon
  <2> QED
    BY <2>2, <2>3, Zenon
<1>10. ScanSafe(o, k, acked[k])
  <2>1. SUFFICES ASSUME acked[k] # 0
                 PROVE  \/ \E i \in 1..Len(o) : o[i] # 0 /\ mem[o[i]][k] # 0
                        \/ FirstHit(l0, k) # 0
    BY Zenon DEF ScanSafe
  <2>2. PICK v : v \in Nat /\ v \in Values(k) /\ v # 0
    <3>1. Visible(k) \in Nat /\ Visible(k) \in Values(k) /\ acked[k] \in Nat /\ Visible(k) >= acked[k]
      BY <1>2, VisibleIs, Zenon DEF AckInv, AckedVisible, MInv, WTypes
    <3>2. Visible(k) # 0
      BY <2>1, <3>1
    <3> QED
      BY <3>1, <3>2, Zenon
  <2>3. CASE \E m \in (F + 1)..N : v = mem[m][k]
    <3>1. PICK m \in (F + 1)..N : v = mem[m][k]
      BY <2>3, Zenon
    <3>2. m # 0
      BY <1>2
    <3> QED
      BY <1>9, <2>2, <3>1, <3>2, Zenon
  <2>4. CASE \E j \in 1..Len(l0) : v = l0[j][k]
    <3>1. PICK h : h = FirstHit(l0, k) /\ h \in Nat /\ \A j \in 1..Len(l0) : l0[j][k] \in Nat /\ l0[j][k] <= h
      BY <1>2, TablesHit, Zenon
    <3>2. h # 0
      BY <2>2, <2>4, <3>1
    <3> QED
      BY <3>1, <3>2, Zenon
  <2> QED
    BY <1>1, <2>2, <2>3, <2>4, Zenon DEF Values
<1> QED
  BY <1>1, <1>7, <1>8, <1>10, Zenon

(* What a read finds in the memtables of its snapshot.                     *)
LEMMA InMemoryIs ==
    ASSUME MInv, NEW order \in Seq(0..Len(mem)), NEW k \in Keys
    PROVE  /\ InMemory(order, k) \in Nat
           /\ InMemory(order, k) = 0 <=> \A i \in 1..Len(order) : order[i] # 0 => mem[order[i]][k] = 0
           /\ InMemory(order, k) # 0 => \E i \in 1..Len(order) :
                 /\ order[i] # 0 /\ mem[order[i]][k] = InMemory(order, k)
                 /\ \A j \in 1..Len(order) : j < i /\ order[j] # 0 => mem[order[j]][k] = 0
<1>1. PICK n : n = Len(order) /\ n \in Nat /\ DOMAIN order = 1..n
  OBVIOUS
<1>2. PICK t : t = [i \in 1..n |-> Contents(order[i])]
  BY Zenon
<1>3. PICK v : v = FirstHit(t, k)
  OBVIOUS
<1>4. InMemory(order, k) = v
  BY <1>1, <1>2, <1>3, Zenon DEF InMemory
<1>5. \A i \in 1..n : Contents(order[i]) \in [Keys -> Nat]
  <2>1. SUFFICES ASSUME NEW i \in 1..n PROVE Contents(order[i]) \in [Keys -> Nat]
    OBVIOUS
  <2>2. order[i] \in 0..Len(mem) /\ Len(mem) \in Nat
    BY <1>1, TypeFacts DEF MInv
  <2>3. order[i] = 0 \/ order[i] \in 1..Len(mem)
    BY <2>2
  <2>4. CASE order[i] = 0
    BY <2>4, TypeFacts, Zenon DEF MInv, Contents
  <2>5. CASE order[i] # 0
    BY <2>3, <2>5, TypeFacts, Zenon DEF MInv, Contents
  <2> QED
    BY <2>4, <2>5, Zenon
<1>6. t \in Seq([Keys -> Nat]) /\ Len(t) = n
  BY <1>1, <1>2, <1>5
<1>7. \A i \in 1..n : t[i][k] = IF order[i] = 0 THEN 0 ELSE mem[order[i]][k]
  BY <1>2, Zenon DEF Contents, Empty
<1>8. /\ v \in Nat
      /\ v = 0 <=> \A i \in 1..n : t[i][k] = 0
      /\ v # 0 => \E i \in 1..n : t[i][k] = v /\ \A j \in 1..n : j < i => t[j][k] = 0
  BY <1>3, <1>6, FirstHitIs, Zenon
<1>9. v = 0 <=> \A i \in 1..n : order[i] # 0 => mem[order[i]][k] = 0
  BY <1>7, <1>8, Zenon
<1>10. v # 0 => \E i \in 1..n : /\ order[i] # 0 /\ mem[order[i]][k] = v
                                /\ \A j \in 1..n : j < i /\ order[j] # 0 => mem[order[j]][k] = 0
  BY <1>7, <1>8, Zenon
<1> QED
  BY <1>1, <1>4, <1>8, <1>9, <1>10, Zenon

-----------------------------------------------------------------------------
(* The steps of a read.                                                    *)
LEMMA OneRead ==
    ASSUME ReadsInv, UNCHANGED <<acked, mem, l0>>, NEW r \in Readers, NEW rd \in Reading,
           read' = [read EXCEPT ![r] = rd], ReadInv(rd)
    PROVE  ReadsInv'
<1>1. read \in [Readers -> Reading]
  BY Zenon DEF ReadsInv
<1>2. read' \in [Readers -> Reading] /\ \A x \in Readers : read'[x] = IF x = r THEN rd ELSE read[x]
  BY <1>1, Zenon
<1>3. \A x \in Readers : ReadInv(read[x])
  BY Zenon DEF ReadsInv
<1>4. ASSUME NEW y, ReadInv(y) PROVE ReadInv(y)'
  BY <1>4, ZenonT(30) DEF ReadInv, GetSafe, ScanSafe
<1>5. ASSUME NEW x \in Readers PROVE ReadInv(read[x])'
  <2>1. PICK y : y = read'[x]
    OBVIOUS
  <2>2. ReadInv(y)
    BY <1>2, <1>3, <2>1, Zenon
  <2>3. ReadInv(y)'
    BY <1>4, <2>2, Zenon
  <2> QED
    BY <2>1, <2>3, ZenonT(30) DEF ReadInv, GetSafe, ScanSafe
<1> QED
  BY <1>2, <1>5, Zenon DEF ReadsInv

LEMMA BeginStep ==
    ASSUME AckInv, ReadsInv, NEW r \in Readers, ReadBegin(r)
    PROVE  ReadsInv'
<1>1. PICK k \in Keys, scan \in BOOLEAN :
         read' = [read EXCEPT ![r] =
                    [pc |-> "memtables", scan |-> scan, key |-> k, floor |-> acked[k], result |-> 0,
                     order |-> IF scan THEN ScanOrder ELSE GetOrder]]
  BY Zenon DEF ReadBegin
<1>2. PICK o, f : o = (IF scan THEN ScanOrder ELSE GetOrder) /\ f = acked[k]
  OBVIOUS
<1>3. PICK rd : rd = [pc |-> "memtables", scan |-> scan, key |-> k, floor |-> f, result |-> 0, order |-> o]
  BY Zenon
<1>4. read' = [read EXCEPT ![r] = rd]
  BY <1>1, <1>2, <1>3, Zenon
<1>5. /\ o \in Seq(0..Len(mem)) /\ f \in Nat /\ Len(mem) \in Nat
      /\ ~scan => GetSafe(o, k, f)
      /\ scan => ScanSafe(o, k, f)
  <2>1. MInv
    BY Zenon DEF AckInv
  <2>2. f \in Nat /\ Len(mem) \in Nat
    BY <1>2, <2>1, TypeFacts, Zenon DEF MInv, WTypes
  <2>3. CASE scan
    BY <1>2, <2>2, <2>3, ScanBegins, Zenon
  <2>4. CASE ~scan
    BY <1>2, <2>2, <2>4, GetBegins, Zenon
  <2> QED
    BY <2>3, <2>4, Zenon
<1>6. o \in Seq(Nat)
  <2>1. o \in [1..Len(o) -> 0..Len(mem)] /\ Len(o) \in Nat
    BY <1>5
  <2>2. o \in [1..Len(o) -> Nat]
    BY <1>5, <2>1
  <2> QED
    BY <2>1, <2>2
<1>7. rd \in Reading
  BY <1>3, <1>5, <1>6, Zenon DEF Reading
<1>8. ReadInv(rd)
  <2>1. f <= acked[k]
    BY <1>2, <1>5
  <2> QED
    BY <1>3, <1>5, <2>1, Zenon DEF ReadInv
<1>9. UNCHANGED <<acked, mem, l0>>
  BY Zenon DEF ReadBegin, ring
<1> QED
  BY <1>4, <1>7, <1>8, <1>9, OneRead, Zenon

(* get has looked in its memtables.                                        *)
LEMMA GetHit ==
    ASSUME MInv, NEW order \in Seq(0..Len(mem)), NEW k \in Keys, NEW f \in Nat, GetSafe(order, k, f)
    PROVE  /\ InMemory(order, k) = 0 => f <= FirstHit(l0, k)
           /\ InMemory(order, k) # 0 => f <= InMemory(order, k)
<1>1. PICK v, h, n : v = InMemory(order, k) /\ h = FirstHit(l0, k) /\ n = Len(order)
  OBVIOUS
<1>2. h \in Nat /\ v \in Nat /\ n \in Nat
  BY <1>1, TablesHit, InMemoryIs
<1>3. \A i \in 1..n : order[i] # 0 => order[i] \in 1..Len(mem) /\ mem[order[i]][k] \in Nat
  <2>1. \A i \in 1..n : order[i] \in 0..Len(mem)
    BY <1>1
  <2>2. Len(mem) \in Nat /\ \A m \in 1..Len(mem) : mem[m][k] \in Nat
    BY TypeFacts, Zenon DEF MInv
  <2>3. \A i \in 1..n : order[i] # 0 => order[i] \in 1..Len(mem)
    BY <2>1, <2>2
  <2> QED
    BY <2>2, <2>3, Zenon
<1>4. CASE v = 0
  <2>1. \A i \in 1..n : order[i] # 0 => mem[order[i]][k] = 0
    BY <1>1, <1>4, InMemoryIs, ZenonT(30)
  <2>2. CASE \E i \in 1..n : order[i] # 0 /\ f <= mem[order[i]][k]
    <3>1. f <= 0
      BY <2>1, <2>2, Zenon
    <3>2. f <= h
      BY <1>2, <3>1
    <3> QED
      BY <1>1, <1>4, <3>2, Zenon
  <2>3. CASE f <= h
    BY <1>1, <1>4, <2>3, Zenon
  <2> QED
    BY <1>1, <2>2, <2>3, Zenon DEF GetSafe
<1>5. CASE v # 0
  <2>1. PICK i \in 1..n : /\ order[i] # 0 /\ mem[order[i]][k] = v
                          /\ \A j \in 1..n : j < i /\ order[j] # 0 => mem[order[j]][k] = 0
    BY <1>1, <1>5, InMemoryIs, Zenon
  <2>2. CASE \E j \in 1..n : order[j] # 0 /\ f <= mem[order[j]][k]
    <3>1. PICK j \in 1..n : order[j] # 0 /\ f <= mem[order[j]][k]
      BY <2>2, Zenon
    <3>2. CASE j < i
      <4>1. mem[order[j]][k] = 0
        BY <2>1, <3>1, <3>2, Zenon
      <4> QED
        BY <1>1, <1>2, <1>5, <3>1, <4>1, SMTT(20)
    <3>3. CASE j = i
      BY <1>1, <1>5, <2>1, <3>1, <3>3, Zenon
    <3>4. CASE i < j
      <4>1. order[j] < order[i]
        BY <1>1, <2>1, <3>1, <3>4, Zenon DEF GetSafe
      <4>2. order[i] \in 1..Len(mem) /\ order[j] \in 1..Len(mem) /\ mem[order[j]][k] \in Nat
        BY <1>3, <2>1, <3>1, Zenon
      <4>3. mem[order[j]][k] < mem[order[i]][k]
        BY <1>5, <2>1, <4>1, <4>2, Zenon DEF MInv, AgeInv
      <4>4. f <= v
        BY <1>2, <2>1, <3>1, <4>2, <4>3, SMTT(20)
      <4> QED
        BY <1>1, <1>5, <4>4, Zenon
    <3> QED
      BY <1>2, <3>2, <3>3, <3>4
  <2>3. CASE \A j \in 1..n : order[j] # 0 /\ mem[order[j]][k] # 0 => f <= mem[order[j]][k]
    BY <1>1, <1>5, <2>1, <2>3, Zenon
  <2> QED
    BY <1>1, <2>2, <2>3, Zenon DEF GetSafe
<1> QED
  BY <1>4, <1>5, Zenon

(* The other steps of a read.                                              *)
LEMMA LookStep ==
    ASSUME AckInv, ReadsInv, NEW r \in Readers,
           ReadMemtables(r) \/ ReadTables(r) \/ ScanMemtables(r) \/ ScanTables(r) \/ ReadReturn(r)
    PROVE  ReadsInv'
<1>1. MInv /\ UNCHANGED <<acked, mem, l0>>
  BY Zenon DEF AckInv, ReadMemtables, ReadTables, ScanMemtables, ScanTables, ReadReturn, ring
<1>2. PICK rd \in Reading : rd = read[r] /\ ReadInv(rd)
  BY Zenon DEF ReadsInv
<1>3. read \in [Readers -> Reading]
  BY Zenon DEF ReadsInv
<1>4. PICK k, f, o, res, sc : k = rd.key /\ f = rd.floor /\ o = rd.order /\ res = rd.result /\ sc = rd.scan
  OBVIOUS
<1>5. f \in Nat /\ o \in Seq(Nat) /\ res \in Nat /\ sc \in BOOLEAN /\ k \in Keys \cup {0}
  BY <1>4, Zenon DEF Reading
<1>6. rd.pc # "idle" => k \in Keys /\ f <= acked[k]
  BY <1>2, <1>4, Zenon DEF ReadInv
<1>7. CASE ReadMemtables(r)
  <2>1. ~sc /\ rd.pc = "memtables" /\ k \in Keys /\ f <= acked[k]
    BY <1>2, <1>4, <1>6, <1>7, Zenon DEF ReadMemtables
  <2>2. o \in Seq(0..Len(mem)) /\ GetSafe(o, k, f)
    BY <1>2, <1>4, <2>1, Zenon DEF ReadInv
  <2>3. PICK v : v = InMemory(o, k)
    OBVIOUS
  <2>4. v \in Nat /\ (v = 0 => f <= FirstHit(l0, k)) /\ (v # 0 => f <= v)
    BY <1>1, <1>5, <2>1, <2>2, <2>3, InMemoryIs, GetHit, Zenon
  <2>5. PICK p, e : p = (IF v = 0 THEN "tables" ELSE "returned") /\ e = <<>>
    OBVIOUS
  <2>6. p \in {"idle", "memtables", "tables", "returned"} /\ e \in Seq(Nat)
    BY <2>5
  <2>7. PICK new : new = [rd EXCEPT !.pc = p, !.order = e, !.result = v]
    OBVIOUS
  <2>8. /\ new \in Reading
        /\ new.pc = p /\ new.scan = rd.scan /\ new.key = rd.key /\ new.floor = rd.floor /\ new.result = v
    BY <2>4, <2>6, <2>7, Zenon DEF Reading
  <2>9. read' = [read EXCEPT ![r].pc = p, ![r].order = e, ![r].result = v]
    BY <1>2, <1>4, <1>7, <2>3, <2>5, Zenon DEF ReadMemtables
  <2>10. read' = [read EXCEPT ![r] = new]
    BY <1>2, <1>3, <2>7, <2>9, Zenon
  <2>11. ReadInv(new)
    BY <1>4, <2>1, <2>4, <2>5, <2>8, Zenon DEF ReadInv
  <2> QED
    BY <1>1, <2>8, <2>10, <2>11, OneRead, Zenon
<1>8. CASE ReadTables(r)
  <2>1. ~sc /\ rd.pc = "tables" /\ k \in Keys /\ f <= acked[k]
    BY <1>2, <1>4, <1>6, <1>8, Zenon DEF ReadTables
  <2>2. PICK v : v = FirstHit(l0, k)
    OBVIOUS
  <2>3. v \in Nat /\ f <= v
    BY <1>1, <1>2, <1>4, <2>1, <2>2, TablesHit, Zenon DEF ReadInv
  <2>4. PICK new : new = [rd EXCEPT !.pc = "returned", !.result = v]
    OBVIOUS
  <2>5. /\ new \in Reading
        /\ new.pc = "returned" /\ new.scan = rd.scan /\ new.key = rd.key /\ new.floor = rd.floor /\ new.result = v
    BY <2>3, <2>4, Zenon DEF Reading
  <2>6. read' = [read EXCEPT ![r].pc = "returned", ![r].result = v]
    BY <1>2, <1>4, <1>8, <2>2, Zenon DEF ReadTables
  <2>7. read' = [read EXCEPT ![r] = new]
    BY <1>2, <1>3, <2>4, <2>6, Zenon
  <2>8. ReadInv(new)
    BY <1>4, <2>1, <2>3, <2>5, Zenon DEF ReadInv
  <2> QED
    BY <1>1, <2>5, <2>7, <2>8, OneRead, Zenon
<1>9. CASE ScanMemtables(r)
  <2>1. sc /\ rd.pc = "memtables" /\ k \in Keys /\ f <= acked[k]
    BY <1>2, <1>4, <1>6, <1>9, Zenon DEF ScanMemtables
  <2>2. o \in Seq(0..Len(mem)) /\ ScanSafe(o, k, f)
    BY <1>2, <1>4, <2>1, Zenon DEF ReadInv
  <2>3. PICK v : v = InMemory(o, k)
    OBVIOUS
  <2>4. v \in Nat /\ (f # 0 => v # 0 \/ FirstHit(l0, k) # 0)
    BY <1>1, <2>1, <2>2, <2>3, InMemoryIs, Zenon DEF ScanSafe
  <2>5. PICK e : e = <<>>
    OBVIOUS
  <2>6. e \in Seq(Nat)
    BY <2>5
  <2>7. PICK new : new = [rd EXCEPT !.pc = "tables", !.order = e, !.result = v]
    OBVIOUS
  <2>8. /\ new \in Reading
        /\ new.pc = "tables" /\ new.scan = rd.scan /\ new.key = rd.key /\ new.floor = rd.floor /\ new.result = v
    BY <2>4, <2>6, <2>7, Zenon DEF Reading
  <2>9. read' = [read EXCEPT ![r].pc = "tables", ![r].order = e, ![r].result = v]
    BY <1>2, <1>4, <1>9, <2>3, <2>5, Zenon DEF ScanMemtables
  <2>10. read' = [read EXCEPT ![r] = new]
    BY <1>2, <1>3, <2>7, <2>9, Zenon
  <2>11. ReadInv(new)
    BY <1>4, <2>1, <2>4, <2>8, Zenon DEF ReadInv
  <2> QED
    BY <1>1, <2>8, <2>10, <2>11, OneRead, Zenon
<1>10. CASE ScanTables(r)
  <2>1. sc /\ rd.pc = "tables" /\ k \in Keys /\ f <= acked[k]
    BY <1>2, <1>4, <1>6, <1>10, Zenon DEF ScanTables
  <2>2. PICK v : v = IF res = 0 THEN FirstHit(l0, k) ELSE res
    OBVIOUS
  <2>3. v \in Nat /\ (f # 0 => v # 0)
    BY <1>1, <1>2, <1>4, <1>5, <2>1, <2>2, TablesHit, Zenon DEF ReadInv
  <2>4. PICK new : new = [rd EXCEPT !.pc = "returned", !.result = v]
    OBVIOUS
  <2>5. /\ new \in Reading
        /\ new.pc = "returned" /\ new.scan = rd.scan /\ new.key = rd.key /\ new.floor = rd.floor /\ new.result = v
    BY <2>3, <2>4, Zenon DEF Reading
  <2>6. read' = [read EXCEPT ![r].pc = "returned", ![r].result = v]
    BY <1>2, <1>3, <1>4, <1>10, <2>2, Zenon DEF ScanTables
  <2>7. read' = [read EXCEPT ![r] = new]
    BY <1>2, <1>3, <2>4, <2>6, Zenon
  <2>8. ReadInv(new)
    BY <1>4, <2>1, <2>3, <2>5, Zenon DEF ReadInv
  <2> QED
    BY <1>1, <2>5, <2>7, <2>8, OneRead, Zenon
<1>11. CASE ReadReturn(r)
  <2>1. read' = [read EXCEPT ![r] = NoRead]
    BY <1>11, Zenon DEF ReadReturn
  <2>2. NoRead \in Reading /\ ReadInv(NoRead)
    BY DEF NoRead, Reading, ReadInv
  <2> QED
    BY <1>1, <2>1, <2>2, OneRead, Zenon
<1> QED
  BY <1>7, <1>8, <1>9, <1>10, <1>11, Zenon

(* The reads are safe in every step.                                       *)
LEMMA ReadsStep ==
    ASSUME Careful, AckInv, ReadsInv, [Next]_vars
    PROVE  ReadsInv'
<1>1. CASE \E r \in Readers : Read(r)
  BY <1>1, BeginStep, LookStep, Zenon DEF Read
<1>2. CASE read' = read
  <2>1. read \in [Readers -> Reading]
    BY Zenon DEF ReadsInv
  <2>2. ASSUME NEW r \in Readers PROVE ReadInv(read[r])'
    <3>1. PICK rd \in Reading : rd = read[r] /\ ReadInv(rd)
      BY <2>1, Zenon DEF ReadsInv
    <3>2. ReadInv(rd)'
      BY <3>1, ReadLater, Zenon
    <3>3. read'[r] = rd
      BY <1>2, <3>1, Zenon
    <3> QED
      BY <3>2, <3>3, Zenon DEF ReadInv, GetSafe, ScanSafe
  <2> QED
    BY <1>2, <2>1, <2>2, Zenon DEF ReadsInv
<1>3. (\E r \in Readers : Read(r)) \/ read' = read
  <2>1. CASE Lead \/ BelowThreshold \/ RotateWal \/ RemoveWal \/ UNCHANGED vars
    BY <2>1, Zenon DEF Lead, BelowThreshold, RotateWal, RemoveWal, vars
  <2>2. CASE Freeze \/ EnqueueFlush \/ FlushRead \/ FlushPublish \/ FlushFails \/ FlushReset
    BY <2>2, Zenon DEF Freeze, EnqueueFlush, FlushRead, FlushPublish, FlushFails, FlushReset
  <2>3. CASE Drain \/ WalStage \/ LoadActive \/ MemtablePut \/ Complete
    BY <2>3, Zenon DEF Drain, WalStage, LoadActive, MemtablePut, Complete
  <2> QED
    BY <2>1, <2>2, <2>3, Steps, Zenon DEF Aside
<1> QED
  BY <1>1, <1>2, <1>3, Zenon

LEMMA ReadsAlways ==
    ASSUME Careful
    PROVE  Spec => [](AckInv /\ ReadsInv)
<1>1. Init => AckInv /\ ReadsInv
  <2>1. NoRead \in Reading /\ ReadInv(NoRead)
    BY DEF NoRead, Reading, ReadInv
  <2>2. Init => ReadsInv
    BY <2>1, Zenon DEF Init, ReadsInv
  <2> QED
    BY <2>2, AckInit, Zenon
<1>2. AckInv /\ ReadsInv /\ [Next]_vars => (AckInv /\ ReadsInv)'
  BY AckNext, ReadsStep, Zenon
<1> QED
  BY <1>1, <1>2, PTL DEF Spec

(* With one writer and flushes that succeed, a get returns no value older  *)
(* than the newest acknowledged when it began, although it takes the ring  *)
(* and the version at different times.                                     *)
THEOREM GetsAreFresh == Careful => (Spec => []GetsSeeAcked)
<1> SUFFICES ASSUME Careful PROVE Spec => []GetsSeeAcked
  OBVIOUS
<1>1. AckInv /\ ReadsInv => GetsSeeAcked
  <2>1. SUFFICES ASSUME ReadsInv, NEW r \in Readers, read[r].pc = "returned", ~read[r].scan
                 PROVE  read[r].result >= read[r].floor
    BY Zenon DEF GetsSeeAcked
  <2>2. PICK rd \in Reading : rd = read[r] /\ ReadInv(rd)
    BY <2>1, Zenon DEF ReadsInv
  <2>3. rd.floor <= rd.result /\ rd.floor \in Nat /\ rd.result \in Nat
    BY <2>1, <2>2, Zenon DEF ReadInv, Reading
  <2>4. rd.result >= rd.floor
    BY <2>3, Zenon
  <2> QED
    BY <2>2, <2>4, Zenon
<1> QED
  BY <1>1, ReadsAlways, PTL

(* With one writer and flushes that succeed, a scan misses no key that was *)
(* acknowledged when it began: a memtable that leaves the ring meanwhile   *)
(* is in the version the scan takes afterwards.                            *)
THEOREM ScansFindAll == Careful => (Spec => []ScansMissNothing)
<1> SUFFICES ASSUME Careful PROVE Spec => []ScansMissNothing
  OBVIOUS
<1>1. AckInv /\ ReadsInv => ScansMissNothing
  <2>1. SUFFICES ASSUME ReadsInv, NEW r \in Readers, read[r].pc = "returned", read[r].scan, read[r].floor # 0
                 PROVE  read[r].result # 0
    BY Zenon DEF ScansMissNothing
  <2>2. ReadInv(read[r])
    BY <2>1, Zenon DEF ReadsInv
  <2> QED
    BY <2>1, <2>2, Zenon DEF ReadInv
<1> QED
  BY <1>1, ReadsAlways, PTL
=============================================================================
