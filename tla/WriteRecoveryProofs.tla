------------------------ MODULE WriteRecoveryProofs ------------------------
(***************************************************************************)
(* Proofs about the write path that may crash, for any keys, ring, readers *)
(* and bounds: until when get searches by age, and what the WAL would      *)
(* bring back if the process died now.                                     *)
(***************************************************************************)
EXTENDS WriteRecovery, WritePathProofs

USE DEF active

(* Only a crash counts as one.                                             *)
LEMMA NoCrash ==
    ASSUME [Next]_vars
    PROVE  crashes' = crashes
<1>1. CASE Aside
  <2>1. CASE Lead \/ BelowThreshold \/ RotateWal \/ RemoveWal
    BY <2>1 DEF Lead, BelowThreshold, RotateWal, RemoveWal, history
  <2>2. CASE \E r \in Readers : Read(r)
    BY <2>2, ReadQuiet DEF history
  <2>3. CASE UNCHANGED vars
    BY <2>3 DEF vars, history
  <2> QED
    BY <1>1, <2>1, <2>2, <2>3 DEF Aside
<1>2. CASE Freeze \/ EnqueueFlush
  BY <1>2 DEF Freeze, EnqueueFlush, history
<1>3. CASE Drain \/ WalStage \/ LoadActive \/ MemtablePut \/ Complete
  BY <1>3 DEF Drain, WalStage, LoadActive, MemtablePut, Complete, history
<1>4. CASE FlushRead \/ FlushPublish \/ FlushFails \/ FlushReset
  BY <1>4 DEF FlushRead, FlushPublish, FlushFails, FlushReset, history
<1> QED
  BY <1>1, <1>2, <1>3, <1>4, Steps

(* Until the process crashes, the order in which get searches is an order  *)
(* of age: no memtable or table it reaches first has an older put of a key *)
(* than one behind it, however many leaders overlap, whatever the sizes of *)
(* ring and batch, and whether or not flushes succeed.                     *)
THEOREM AgeOrderUntilCrash == RSpec => []RecencyUntilCrash
<1> DEFINE RInv == crashes \in Nat /\ (crashes = 0 => MInv)
<1>1. Init => RInv
  <2>1. Init => crashes = 0 /\ 0 \in Nat
    BY DEF Init
  <2> QED
    BY <2>1, InitM
<1>2. RInv /\ [RNext]_vars => RInv'
  <2>1. SUFFICES ASSUME RInv, [RNext]_vars PROVE RInv'
    OBVIOUS
  <2>2. CASE Crash
    <3>1. crashes' = crashes + 1 /\ crashes \in Nat
      BY <2>1, <2>2 DEF Crash
    <3>2. crashes' \in Nat /\ crashes' # 0
      BY <3>1
    <3> QED
      BY <3>2
  <2>3. CASE [Next]_vars
    <3>1. crashes' = crashes
      BY <2>3, NoCrash
    <3>2. MInv => MInv'
      BY <2>3, StepM
    <3> QED
      BY <2>1, <3>1, <3>2
  <2> QED
    BY <2>1, <2>2, <2>3 DEF RNext
<1>3. RInv => RecencyUntilCrash
  BY OrderIsAge DEF RecencyUntilCrash
<1> QED
  BY <1>1, <1>2, <1>3, PTL DEF RSpec

-----------------------------------------------------------------------------
(* The WAL files: the one in use is the newest and stays, the records are  *)
(* in the order of their numbers, and what the leader has drained and not  *)
(* appended is newer than all of them.                                     *)
LogTypes ==
    /\ puts \in Nat
    /\ com \in {"idle", "wal", "load", "memtable"}
    /\ batch \in Seq(Keys \X Nat) /\ inserted \in 0..Len(batch)
    /\ mem \in Seq([Keys -> Nat]) /\ active >= 1
    /\ com = "memtable" => com_mem \in 1..active
    /\ com # "memtable" => inserted = 0
    /\ DOMAIN wals \subseteq Nat /\ current_wal_id \in DOMAIN wals
    /\ \A i \in DOMAIN wals : i <= current_wal_id /\ wals[i] \in Seq(Keys \X Nat)
    /\ trash \subseteq DOMAIN wals \ {current_wal_id}

Ascending(files) ==
    \A i, j \in DOMAIN files : \A n \in 1..Len(files[i]), m \in 1..Len(files[j]) :
        i < j \/ (i = j /\ n <= m) => files[i][n][2] <= files[j][m][2]

LogOrder ==
    /\ Len(batch) <= puts
    /\ \A i \in 1..Len(batch) : batch[i][2] = puts - Len(batch) + i
    /\ Ascending(wals)
    /\ \A i \in DOMAIN wals : \A n \in 1..Len(wals[i]) :
          wals[i][n][2] <= puts - (IF com = "wal" THEN Len(batch) ELSE 0)

(* A file that stays has the key with this number or a newer one.          *)
Logged(k, v) ==
    v = 0 \/ \E i \in DOMAIN wals \ trash : \E n \in 1..Len(wals[i]) :
                wals[i][n][1] = k /\ v <= wals[i][n][2]

(* As long as no leader froze the memtable under another one, the WAL is   *)
(* switched only while the active memtable is empty and nobody commits.    *)
CoverInv ==
    ~overlapped =>
        /\ \A k \in Keys : Logged(k, mem[active][k])
        /\ rot = "rotate_wal" => com = "idle" /\ mem[active] = Empty
        /\ com \in {"load", "memtable"} => \A n \in 1..Len(batch) :
              \E m \in 1..Len(wals[current_wal_id]) : wals[current_wal_id][m] = batch[n]
        /\ com = "memtable" => com_mem = active

LogInv == LogTypes /\ LogOrder /\ CoverInv

(* A file that no other one exceeds is the newest.                         *)
LEMMA LastFile ==
    ASSUME NEW S \in SUBSET Nat, NEW w \in S, \A i \in S : i <= w
    PROVE  Max(S) = w
<1>1. w \in Nat /\ \A y \in S : w >= y
  OBVIOUS
<1>2. \A x \in S : (\A y \in S : x >= y) => x = w
  <2>1. SUFFICES ASSUME NEW x \in S, \A y \in S : x >= y PROVE x = w
    BY Zenon
  <2>2. x >= w /\ w >= x /\ x \in Nat
    BY <1>1, <2>1
  <2> QED
    BY <1>1, <2>2
<1> QED
  BY <1>1, <1>2, Zenon DEF Max

(* Replay finds the newest number of a key in files whose records are in   *)
(* order.                                                                  *)
LEMMA RecoverIs ==
    ASSUME NEW files, DOMAIN files \subseteq Nat, NEW b \in Nat,
           \A i \in DOMAIN files : i <= b /\ files[i] \in Seq(Keys \X Nat),
           Ascending(files), NEW k \in Keys
    PROVE  /\ Recovered(files)[k] \in Nat
           /\ \A i \in DOMAIN files : \A n \in 1..Len(files[i]) :
                 files[i][n][1] = k => files[i][n][2] <= Recovered(files)[k]
           /\ Recovered(files)[k] # 0 => \E i \in DOMAIN files : \E n \in 1..Len(files[i]) :
                 files[i][n][1] = k /\ files[i][n][2] = Recovered(files)[k]
<1>1. \A i \in DOMAIN files : Replayed(files[i]) = files[i]
  <2>1. SUFFICES ASSUME NEW i \in DOMAIN files PROVE Replayed(files[i]) = files[i]
    BY Zenon
  <2>2. \A n \in DOMAIN files[i] : files[i][n] \in Keys \X Nat
    <3>1. files[i] \in Seq(Keys \X Nat)
      BY Zenon
    <3> QED
      BY <3>1
  <2>3. {n \in DOMAIN files[i] : files[i][n] = Torn} = {}
    BY <2>2, WriteRecoveryAssumption, Zenon
  <2> QED
    BY <2>3, Zenon DEF Replayed
<1>2. \A i \in DOMAIN files : /\ DOMAIN files[i] = 1..Len(files[i]) /\ Len(files[i]) \in Nat
                              /\ \A n \in 1..Len(files[i]) : files[i][n] \in Keys \X Nat
  BY SMTT(20)
<1>3. PICK H : H = Holding(files, k)
  BY Zenon
<1>4. /\ H \subseteq DOMAIN files
      /\ \A i \in DOMAIN files : i \in H <=> \E n \in 1..Len(files[i]) : files[i][n][1] = k
  <2>1. \A i \in DOMAIN files : i \in H <=> \E n \in DOMAIN files[i] : files[i][n][1] = k
    BY <1>1, <1>3, Zenon DEF Holding, Range
  <2>2. H \subseteq DOMAIN files
    BY <1>3, Zenon DEF Holding
  <2> QED
    BY <1>2, <2>1, <2>2, Zenon
<1>5. CASE H = {}
  <2>1. Recovered(files)[k] = 0
    BY <1>3, <1>5, Zenon DEF Recovered
  <2>2. \A i \in DOMAIN files : \A n \in 1..Len(files[i]) : files[i][n][1] # k
    BY <1>4, <1>5, Zenon
  <2> QED
    BY <2>1, <2>2
<1>6. CASE H # {}
  <2>1. H \in SUBSET Nat /\ \A i \in H : i <= b
    BY <1>4, Zenon
  <2>2. PICK w : w = Max(H) /\ w \in H /\ \A i \in H : i <= w
    BY <1>6, <2>1, MaxIs, Zenon
  <2>3. PICK N : N = {n \in DOMAIN files[w] : files[w][n][1] = k}
    BY Zenon
  <2>4. w \in DOMAIN files /\ N \in SUBSET Nat /\ N # {} /\ \A n \in N : n <= Len(files[w])
    <3>1. w \in DOMAIN files /\ N \subseteq 1..Len(files[w]) /\ Len(files[w]) \in Nat
      BY <1>2, <1>4, <2>2, <2>3, Zenon
    <3>2. N # {}
      BY <1>2, <1>4, <2>2, <2>3, <3>1, Zenon
    <3> QED
      BY <3>1, <3>2
  <2>5. PICK m : m = Max(N) /\ m \in N /\ \A n \in N : n <= m
    <3>1. Len(files[w]) \in Nat
      BY <1>2, <2>4, Zenon
    <3>2. N \in SUBSET Nat /\ N # {} /\ \A n \in N : n <= Len(files[w])
      BY <2>4, Zenon
    <3>3. Max(N) \in N /\ \A n \in N : n <= Max(N)
      BY <3>1, <3>2, MaxIs, Zenon
    <3> QED
      BY <3>3, Zenon
  <2>6. Recovered(files)[k] = files[w][m][2]
    BY <1>1, <1>3, <1>6, <2>2, <2>3, <2>4, <2>5, ZenonT(30) DEF Recovered, LastIn
  <2>7. m \in 1..Len(files[w]) /\ files[w][m] \in Keys \X Nat /\ files[w][m][1] = k
    BY <1>2, <2>3, <2>4, <2>5, Zenon
  <2>8. ASSUME NEW i \in DOMAIN files, NEW n \in 1..Len(files[i]), files[i][n][1] = k
        PROVE  files[i][n][2] <= files[w][m][2]
    <3>1. i \in H /\ i <= w /\ i \in Nat /\ w \in Nat
      BY <1>4, <2>1, <2>2, <2>8, Zenon
    <3>2. i = w => n \in N /\ n <= m
      BY <1>2, <2>3, <2>4, <2>5, <2>8, Zenon
    <3>3. i < w \/ (i = w /\ n <= m)
      BY <3>1, <3>2
    <3> QED
      BY <2>4, <2>7, <2>8, <3>3, Zenon DEF Ascending
  <2> QED
    <3>1. files[w][m][2] \in Nat
      BY <2>7
    <3> QED
      BY <2>4, <2>6, <2>7, <2>8, <3>1, Zenon
<1> QED
  BY <1>5, <1>6, Zenon

(* The invariant covers the memtable.                                      *)
LEMMA LogCovers == LogInv => WalCoversActive
<1> SUFFICES ASSUME LogInv, ~overlapped, NEW k \in Keys
             PROVE  Recovered([i \in DOMAIN wals \ trash |-> wals[i]])[k] >= mem[active][k]
  BY Zenon DEF WalCoversActive, Covered
<1>1. PICK kept : kept = [i \in DOMAIN wals \ trash |-> wals[i]]
  BY Zenon
<1>2. DOMAIN kept = DOMAIN wals \ trash /\ \A i \in DOMAIN kept : kept[i] = wals[i]
  BY <1>1, Zenon
<1>3. PICK c : c = current_wal_id /\ c \in Nat
  BY Zenon DEF LogInv, LogTypes
<1>4. /\ DOMAIN kept \subseteq Nat /\ Ascending(kept)
      /\ \A i \in DOMAIN kept : i <= c /\ kept[i] \in Seq(Keys \X Nat)
  <2>1. DOMAIN kept \subseteq Nat /\ \A i \in DOMAIN kept : i <= c /\ kept[i] \in Seq(Keys \X Nat)
    BY <1>2, <1>3, Zenon DEF LogInv, LogTypes
  <2>2. Ascending(kept)
    <3>1. Ascending(wals)
      BY Zenon DEF LogInv, LogOrder
    <3> QED
      BY <1>2, <3>1, ZenonT(30) DEF Ascending
  <2> QED
    BY <2>1, <2>2, Zenon
<1>5. PICK r : r = Recovered(kept)[k]
  BY Zenon
<1>6. r \in Nat /\ \A i \in DOMAIN kept : \A n \in 1..Len(kept[i]) : kept[i][n][1] = k => kept[i][n][2] <= r
  BY <1>3, <1>4, <1>5, RecoverIs, ZenonT(30)
<1>7. PICK v : v = mem[active][k]
  BY Zenon
<1>8. v \in Nat /\ (v = 0 \/ \E i \in DOMAIN kept : \E n \in 1..Len(kept[i]) : kept[i][n][1] = k /\ v <= kept[i][n][2])
  <2>1. Logged(k, v)
    BY <1>7, Zenon DEF LogInv, CoverInv
  <2>2. v \in Nat
    BY <1>7 DEF LogInv, LogTypes
  <2> QED
    BY <1>2, <2>1, <2>2, Zenon DEF Logged
<1>9. v <= r
  <2>1. CASE v = 0
    BY <1>6, <2>1
  <2>2. CASE v # 0
    <3>1. PICK i \in DOMAIN kept : \E n \in 1..Len(kept[i]) : kept[i][n][1] = k /\ v <= kept[i][n][2]
      BY <1>8, <2>2, Zenon
    <3>2. PICK n \in 1..Len(kept[i]) : kept[i][n][1] = k /\ v <= kept[i][n][2]
      BY <3>1, Zenon
    <3>3. PICK x : x = kept[i][n][2] /\ x \in Nat
      <4>1. kept[i] \in Seq(Keys \X Nat)
        BY <1>4, Zenon
      <4> QED
        BY <4>1
    <3>4. v <= x /\ x <= r
      BY <1>6, <3>2, <3>3, Zenon
    <3> QED
      BY <1>6, <1>8, <3>3, <3>4
  <2> QED
    BY <2>1, <2>2
<1>10. r >= v
  BY <1>6, <1>8, <1>9
<1> QED
  BY <1>1, <1>5, <1>7, <1>10, Zenon

(* A sequence with one element replaced.                                   *)
LEMMA SeqUpdate ==
    ASSUME NEW S, NEW s \in Seq(S), NEW i \in 1..Len(s), NEW x \in S, NEW t, t = [s EXCEPT ![i] = x]
    PROVE  t \in Seq(S) /\ Len(t) = Len(s) /\ t[i] = x /\ \A m \in 1..Len(s) : m # i => t[m] = s[m]
OBVIOUS

(* What the types say of lengths.                                          *)
LEMMA LogFacts ==
    ASSUME LogInv
    PROVE  /\ mem \in Seq([Keys -> Nat]) /\ Len(mem) \in Nat /\ Len(mem) >= 1
           /\ batch \in Seq(Keys \X Nat) /\ Len(batch) \in Nat /\ Len(batch) <= puts /\ puts \in Nat
           /\ current_wal_id \in Nat /\ current_wal_id \in DOMAIN wals
           /\ \A i \in DOMAIN wals : /\ wals[i] \in Seq(Keys \X Nat) /\ Len(wals[i]) \in Nat
                                    /\ i \in Nat /\ i <= current_wal_id
           /\ \A i \in DOMAIN wals : \A n \in 1..Len(wals[i]) : wals[i][n] \in Keys \X Nat
<1>1. /\ mem \in Seq([Keys -> Nat]) /\ Len(mem) >= 1 /\ batch \in Seq(Keys \X Nat) /\ puts \in Nat
      /\ current_wal_id \in Nat /\ current_wal_id \in DOMAIN wals
      /\ \A i \in DOMAIN wals : wals[i] \in Seq(Keys \X Nat) /\ i \in Nat /\ i <= current_wal_id
  BY Zenon DEF LogInv, LogTypes
<1>2. Len(mem) \in Nat /\ Len(batch) \in Nat
  BY <1>1
<1>3. Len(batch) <= puts
  BY Zenon DEF LogInv, LogOrder
<1>4. \A i \in DOMAIN wals : Len(wals[i]) \in Nat /\ \A n \in 1..Len(wals[i]) : wals[i][n] \in Keys \X Nat
  BY <1>1
<1> QED
  BY <1>1, <1>2, <1>3, <1>4, Zenon

(* Steps that leave the log, the memtables and the batch alone.            *)
LEMMA LogQuiet ==
    ASSUME LogInv, UNCHANGED <<puts, com, batch, inserted, mem, com_mem, wals, trash, overlapped>>,
           rot' = "rotate_wal" => rot = "rotate_wal"
    PROVE  LogInv'
<1>1. current_wal_id' = current_wal_id
  BY Zenon DEF current_wal_id
<1>2. LogTypes'
  BY <1>1, ZenonT(30) DEF LogInv, LogTypes
<1>3. LogOrder'
  BY <1>1, SMTT(20) DEF LogInv, LogOrder, Ascending
<1>4. CoverInv'
  BY <1>1, ZenonT(30) DEF LogInv, CoverInv, Logged
<1> QED
  BY <1>2, <1>3, <1>4, Zenon DEF LogInv

LEMMA LogFreeze == LogInv /\ Freeze => LogInv'
<1> SUFFICES ASSUME LogInv, Freeze PROVE LogInv'
  BY Zenon
<1>1. /\ UNCHANGED <<puts, com, batch, inserted, com_mem, wals, trash>>
      /\ mem' = Append(mem, Empty) /\ overlapped' = (overlapped \/ com # "idle")
  BY Zenon DEF Freeze, walfiles
<1>2. current_wal_id' = current_wal_id
  BY <1>1, Zenon DEF current_wal_id
<1>3. PICK N : N = Len(mem) /\ N \in Nat /\ N >= 1
  BY LogFacts, Zenon
<1>4. Empty \in [Keys -> Nat] /\ \A k \in Keys : Empty[k] = 0
  BY DEF Empty
<1>5. mem' \in Seq([Keys -> Nat]) /\ Len(mem') = N + 1 /\ mem'[N + 1] = Empty
  <2>1. mem \in Seq([Keys -> Nat])
    BY Zenon DEF LogInv, LogTypes
  <2> QED
    BY <1>1, <1>3, <1>4, <2>1
<1>6. LogTypes'
  <2>1. com = "memtable" => com_mem \in 1..(N + 1)
    <3>1. com = "memtable" => com_mem \in 1..N
      BY <1>3, Zenon DEF LogInv, LogTypes
    <3> QED
      BY <1>3, <3>1
  <2>2. N + 1 >= 1
    BY <1>3
  <2> QED
    BY <1>1, <1>2, <1>5, <2>1, <2>2, ZenonT(30) DEF LogInv, LogTypes
<1>7. LogOrder'
  BY <1>1, SMTT(20) DEF LogInv, LogOrder, Ascending
<1>8. CoverInv'
  <2>1. CASE com # "idle"
    BY <1>1, <2>1, Zenon DEF CoverInv
  <2>2. CASE com = "idle"
    <3>1. \A k \in Keys : Logged(k, mem[active][k])'
      BY <1>4, <1>5, Zenon DEF Logged
    <3> QED
      BY <1>1, <1>5, <2>2, <3>1, Zenon DEF CoverInv
  <2> QED
    BY <2>1, <2>2, Zenon
<1> QED
  BY <1>6, <1>7, <1>8, Zenon DEF LogInv

LEMMA LogRotate == LogInv /\ RotateWal => LogInv'
<1> SUFFICES ASSUME LogInv, RotateWal PROVE LogInv'
  BY Zenon
<1>1. PICK c : c = current_wal_id /\ c \in Nat /\ c \in DOMAIN wals /\ \A i \in DOMAIN wals : i \in Nat /\ i <= c
  BY LogFacts, Zenon
<1>2. /\ UNCHANGED <<puts, com, batch, inserted, com_mem, mem, overlapped>>
      /\ rot = "rotate_wal" /\ rot' = "enqueue" /\ trash' = trash \cup {c}
      /\ wals' = [i \in DOMAIN wals \cup {c + 1} |-> IF i \in DOMAIN wals THEN wals[i] ELSE <<>>]
  BY <1>1, Zenon DEF RotateWal, ring, history
<1>3. /\ DOMAIN wals' = DOMAIN wals \cup {c + 1} /\ c + 1 \notin DOMAIN wals /\ c + 1 \in Nat
      /\ \A i \in DOMAIN wals' : i \in Nat /\ i <= c + 1
  <2>1. c + 1 \notin DOMAIN wals /\ c + 1 \in Nat /\ \A i \in DOMAIN wals \cup {c + 1} : i \in Nat /\ i <= c + 1
    BY <1>1
  <2>2. DOMAIN wals' = DOMAIN wals \cup {c + 1}
    BY <1>2, Zenon
  <2> QED
    BY <2>1, <2>2, Zenon
<1>4. wals'[c + 1] = <<>> /\ \A i \in DOMAIN wals : wals'[i] = wals[i]
  BY <1>2, <1>3, Zenon
<1>5. current_wal_id' = c + 1
  <2>1. DOMAIN wals' \in SUBSET Nat /\ c + 1 \in DOMAIN wals'
    BY <1>3, Zenon
  <2>2. Max(DOMAIN wals') = c + 1
    BY <1>3, <2>1, LastFile, Zenon
  <2> QED
    BY <2>2, Zenon DEF current_wal_id
<1>6. <<>> \in Seq(Keys \X Nat) /\ Len(<<>>) = 0
  OBVIOUS
<1>7. LogTypes'
  <2>1. \A i \in DOMAIN wals' : wals'[i] \in Seq(Keys \X Nat)
    BY <1>3, <1>4, <1>6, LogFacts, Zenon
  <2>2. trash' \subseteq DOMAIN wals' \ {c + 1}
    BY <1>1, <1>2, <1>3, Zenon DEF LogInv, LogTypes
  <2> QED
    BY <1>2, <1>3, <1>5, <2>1, <2>2, ZenonT(30) DEF LogInv, LogTypes
<1>8. \A i \in DOMAIN wals' : \A n \in 1..Len(wals'[i]) : i \in DOMAIN wals /\ wals'[i] = wals[i]
  <2>1. \A n \in 1..Len(wals'[c + 1]) : FALSE
    BY <1>4, <1>6
  <2> QED
    BY <1>3, <1>4, <2>1, Zenon
<1>9. LogOrder'
  <2>1. Ascending(wals)'
    <3>1. Ascending(wals)
      BY Zenon DEF LogInv, LogOrder
    <3> QED
      BY <1>8, <3>1, SMTT(20) DEF Ascending
  <2>2. \A i \in DOMAIN wals' : \A n \in 1..Len(wals'[i]) :
           wals'[i][n][2] <= puts - (IF com = "wal" THEN Len(batch) ELSE 0)
    BY <1>8, Zenon DEF LogInv, LogOrder
  <2> QED
    BY <1>2, <2>1, <2>2, ZenonT(30) DEF LogInv, LogOrder
<1>10. CoverInv'
  <2>1. SUFFICES ASSUME ~overlapped PROVE CoverInv'
    BY <1>2, Zenon DEF CoverInv
  <2>2. com = "idle" /\ mem[active] = Empty
    BY <1>2, <2>1, Zenon DEF LogInv, CoverInv
  <2>3. \A k \in Keys : Logged(k, mem[active][k])'
    BY <1>2, <2>2, Zenon DEF Logged, Empty
  <2> QED
    BY <1>2, <2>2, <2>3, Zenon DEF CoverInv
<1> QED
  BY <1>7, <1>9, <1>10, Zenon DEF LogInv

LEMMA LogDrain == LogInv /\ Drain => LogInv'
<1> SUFFICES ASSUME LogInv, Drain PROVE LogInv'
  BY Zenon
<1>1. PICK n \in 1..MaxBatch : \E keys \in [1..n -> Keys] :
         batch' = [i \in 1..n |-> <<keys[i], puts + i>>] /\ puts' = puts + n
  BY Zenon DEF Drain
<1>2. PICK keys \in [1..n -> Keys] : batch' = [i \in 1..n |-> <<keys[i], puts + i>>] /\ puts' = puts + n
  BY <1>1, Zenon
<1>3. /\ UNCHANGED <<inserted, com_mem, mem, overlapped, wals, trash>>
      /\ rot' = "none" /\ com' = "wal" /\ com = "idle"
  BY Zenon DEF Drain, ring, history, walfiles
<1>4. current_wal_id' = current_wal_id
  BY <1>3, Zenon DEF current_wal_id
<1>5. n \in Nat /\ puts \in Nat /\ Len(batch) \in Nat
  BY LogFacts, WritePathAssumption
<1>6. batch' \in Seq(Keys \X Nat) /\ Len(batch') = n /\ \A i \in 1..n : batch'[i][2] = puts + i
  BY <1>2, <1>5
<1>7. inserted = 0
  BY <1>3, Zenon DEF LogInv, LogTypes
<1>8. LogTypes'
  <2>1. inserted' \in 0..Len(batch')
    BY <1>3, <1>5, <1>6, <1>7
  <2>2. puts' \in Nat
    BY <1>2, <1>5
  <2> QED
    BY <1>3, <1>4, <1>6, <1>7, <2>1, <2>2, ZenonT(30) DEF LogInv, LogTypes
<1>9. LogOrder'
  <2>1. Len(batch') <= puts' /\ \A i \in 1..Len(batch') : batch'[i][2] = puts' - Len(batch') + i
    BY <1>2, <1>5, <1>6
  <2>2. Ascending(wals)'
    BY <1>3, SMTT(20) DEF LogInv, LogOrder, Ascending
  <2>3. \A i \in DOMAIN wals : \A m \in 1..Len(wals[i]) : wals[i][m][2] <= puts - 0
    BY <1>3, Zenon DEF LogInv, LogOrder
  <2>4. puts' - Len(batch') = puts - 0
    BY <1>2, <1>5, <1>6
  <2> QED
    BY <1>3, <2>1, <2>2, <2>3, <2>4, Zenon DEF LogOrder
<1>10. CoverInv'
  BY <1>3, <1>4, Zenon DEF LogInv, CoverInv, Logged
<1> QED
  BY <1>8, <1>9, <1>10, Zenon DEF LogInv

(* The front of the batch, t, is appended to the newest file.              *)
FrontAppended(t, files) ==
    /\ t \in Seq(Keys \X Nat) /\ Len(t) <= Len(batch) /\ \A i \in 1..Len(t) : t[i] = batch[i]
    /\ files = [wals EXCEPT ![current_wal_id] = @ \o t]

(* The old records stay where they are, t follows, all in order.           *)
FollowsOn(t, files, c) ==
    /\ DOMAIN files = DOMAIN wals /\ \A i \in DOMAIN files : files[i] \in Seq(Keys \X Nat)
    /\ \A i \in DOMAIN wals : i # c => files[i] = wals[i]
    /\ Len(files[c]) = Len(wals[c]) + Len(t)
    /\ \A n \in 1..Len(wals[c]) : files[c][n] = wals[c][n]
    /\ \A n \in 1..Len(t) : files[c][Len(wals[c]) + n] = t[n]
    /\ Ascending(files)
    /\ \A i \in DOMAIN files : \A n \in 1..Len(files[i]) : files[i][n][2] <= puts

LEMMA LogAppend ==
    ASSUME LogInv, com = "wal", NEW t, NEW files, FrontAppended(t, files), NEW c, c = current_wal_id
    PROVE  FollowsOn(t, files, c)
<1>1. PICK o, L, B, T : c = current_wal_id /\ o = wals[c] /\ L = Len(o) /\ B = Len(batch) /\ T = Len(t)
  BY Zenon
<1>2. L \in Nat /\ B \in Nat /\ T \in Nat /\ puts \in Nat /\ T <= B /\ B <= puts
  <2>1. L \in Nat /\ B \in Nat /\ B <= puts /\ puts \in Nat /\ T <= B
    BY <1>1, LogFacts, Zenon DEF FrontAppended
  <2>2. t \in Seq(Keys \X Nat)
    BY Zenon DEF FrontAppended
  <2>3. T \in Nat
    BY <1>1, <2>2
  <2> QED
    BY <2>1, <2>3, Zenon
<1>3. DOMAIN files = DOMAIN wals /\ files[c] = o \o t /\ \A i \in DOMAIN wals : i # c => files[i] = wals[i]
  BY <1>1, LogFacts, Zenon DEF FrontAppended
<1>4. c \in DOMAIN wals /\ c \in Nat /\ \A i \in DOMAIN wals : i \in Nat /\ i <= c
  BY <1>1, LogFacts, Zenon
<1>5. /\ files[c] \in Seq(Keys \X Nat) /\ Len(files[c]) = L + T
      /\ \A n \in 1..(L + T) : files[c][n] = IF n <= L THEN o[n] ELSE t[n - L]
  <2>1. o \in Seq(Keys \X Nat) /\ t \in Seq(Keys \X Nat)
    BY <1>1, LogFacts, Zenon DEF FrontAppended
  <2>2. /\ o \o t \in Seq(Keys \X Nat) /\ Len(o \o t) = Len(o) + Len(t)
        /\ \A n \in 1..(Len(o) + Len(t)) : (o \o t)[n] = IF n <= Len(o) THEN o[n] ELSE t[n - Len(o)]
    BY <2>1, ConcatIs, SMTT(20)
  <2>3. /\ o \o t \in Seq(Keys \X Nat) /\ Len(o \o t) = L + T
        /\ \A n \in 1..(L + T) : (o \o t)[n] = IF n <= L THEN o[n] ELSE t[n - L]
    BY <1>1, <2>2, SMTT(20)
  <2> QED
    BY <1>3, <2>3, Zenon
<1>6. \A n \in 1..L : files[c][n] = o[n]
  BY <1>2, <1>5
<1>7. \A n \in 1..T : files[c][L + n] = t[n]
  <2>1. ASSUME NEW n \in 1..T PROVE L + n \in 1..(L + T) /\ ~(L + n <= L) /\ (L + n) - L = n
    BY <1>2
  <2> QED
    BY <1>5, <2>1, Zenon
<1>8. \A i \in DOMAIN files : files[i] \in Seq(Keys \X Nat)
  BY <1>3, <1>5, LogFacts, Zenon
<1>9. \A i \in DOMAIN wals : \A n \in 1..Len(wals[i]) : wals[i][n][2] <= puts - B /\ wals[i][n][2] \in Nat
  <2>1. \A i \in DOMAIN wals : \A n \in 1..Len(wals[i]) : wals[i][n][2] <= puts - B
    BY <1>1, Zenon DEF LogInv, LogOrder
  <2>2. \A i \in DOMAIN wals : \A n \in 1..Len(wals[i]) : wals[i][n] \in Keys \X Nat
    BY LogFacts, Zenon
  <2> QED
    BY <2>1, <2>2
<1>10. \A n \in 1..T : t[n][2] = puts - B + n
  <2>1. \A n \in 1..T : n \in 1..B
    BY <1>2
  <2> QED
    BY <1>1, <2>1, Zenon DEF LogInv, LogOrder, FrontAppended
<1>11. ASSUME NEW n \in 1..Len(files[c])
       PROVE  \/ n \in 1..L /\ files[c][n] = o[n]
              \/ n - L \in 1..T /\ files[c][n] = t[n - L] /\ files[c][n][2] = puts - B + (n - L)
  <2>0. n \in 1..(L + T)
    BY <1>5, <1>11, Zenon
  <2>1. CASE n <= L
    <3>1. n \in 1..L
      BY <1>2, <2>0, <2>1
    <3> QED
      BY <1>6, <3>1, Zenon
  <2>2. CASE n > L
    <3>1. n - L \in 1..T /\ L + (n - L) = n
      BY <1>2, <2>0, <2>2
    <3> QED
      BY <1>7, <1>10, <3>1, Zenon
  <2> QED
    BY <1>2, <2>0, <2>1, <2>2
<1>12. \A i \in DOMAIN files : \A n \in 1..Len(files[i]) : files[i][n][2] <= puts
  <2>1. SUFFICES ASSUME NEW i \in DOMAIN files, NEW n \in 1..Len(files[i]) PROVE files[i][n][2] <= puts
    BY Zenon
  <2>2. CASE i # c
    <3>1. PICK x : x = files[i][n][2] /\ x \in Nat /\ x <= puts - B
      BY <1>3, <1>9, <2>2, Zenon
    <3>2. x <= puts
      BY <1>2, <3>1
    <3> QED
      BY <3>1, <3>2, Zenon
  <2>3. CASE i = c /\ n \in 1..L /\ files[c][n] = o[n]
    <3>1. PICK x : x = files[i][n][2] /\ x \in Nat /\ x <= puts - B
      BY <1>1, <1>4, <1>9, <2>3, Zenon
    <3>2. x <= puts
      BY <1>2, <3>1
    <3> QED
      BY <3>1, <3>2, Zenon
  <2>4. CASE i = c /\ n - L \in 1..T /\ files[c][n][2] = puts - B + (n - L)
    <3>1. puts - B + (n - L) <= puts
      BY <1>2, <2>4
    <3> QED
      BY <2>4, <3>1, Zenon
  <2> QED
    BY <1>11, <2>2, <2>3, <2>4, Zenon
<1>13. Ascending(files)
  <2>1. SUFFICES ASSUME NEW i \in DOMAIN files, NEW j \in DOMAIN files,
                        NEW n \in 1..Len(files[i]), NEW m \in 1..Len(files[j]),
                        i < j \/ (i = j /\ n <= m)
                 PROVE  files[i][n][2] <= files[j][m][2]
    BY Zenon DEF Ascending
  <2>2. Ascending(wals)
    BY Zenon DEF LogInv, LogOrder
  <2>3. i \in Nat /\ j \in Nat /\ i <= c /\ j <= c
    BY <1>3, <1>4, Zenon
  <2>4. CASE j = c /\ m - L \in 1..T /\ files[c][m][2] = puts - B + (m - L)
    <3>1. CASE i = c /\ n - L \in 1..T /\ files[c][n][2] = puts - B + (n - L)
      <4>1. n <= m
        BY <2>1, <2>3, <2>4, <3>1
      <4>2. puts - B + (n - L) <= puts - B + (m - L)
        BY <1>2, <2>4, <3>1, <4>1
      <4> QED
        BY <2>4, <3>1, <4>2, Zenon
    <3>2. CASE (i # c) \/ (i = c /\ n \in 1..L /\ files[c][n] = o[n])
      <4>0. i \in DOMAIN wals /\ n \in 1..Len(wals[i]) /\ files[i][n] = wals[i][n]
        BY <1>1, <1>3, <3>2, Zenon
      <4>1. PICK x : x = files[i][n][2] /\ x \in Nat /\ x <= puts - B
        BY <1>9, <4>0, Zenon
      <4>2. x <= puts - B + (m - L)
        BY <1>2, <2>4, <4>1, SMTT(20)
      <4> QED
        BY <2>4, <4>1, <4>2, Zenon
    <3> QED
      BY <1>11, <3>1, <3>2, Zenon
  <2>5. CASE (j # c) \/ (j = c /\ m \in 1..L /\ files[c][m] = o[m])
    <3>1. j \in DOMAIN wals /\ m \in 1..Len(wals[j]) /\ files[j][m] = wals[j][m]
      BY <1>1, <1>3, <2>5, Zenon
    <3>2. i \in DOMAIN wals /\ n \in 1..Len(wals[i]) /\ files[i][n] = wals[i][n]
      <4>1. CASE i # c
        BY <1>3, <4>1, Zenon
      <4>2. CASE i = c
        <5>1. j = c /\ n <= m /\ m \in 1..L
          BY <1>4, <2>1, <2>3, <2>5, <4>2
        <5>2. n \in 1..L
          BY <1>2, <5>1
        <5> QED
          BY <1>1, <1>4, <1>6, <4>2, <5>2, Zenon
      <4> QED
        BY <4>1, <4>2, Zenon
    <3> QED
      BY <2>1, <2>2, <3>1, <3>2, Zenon DEF Ascending
  <2> QED
    BY <1>11, <2>4, <2>5, Zenon
<1> QED
  BY <1>1, <1>3, <1>5, <1>6, <1>7, <1>8, <1>12, <1>13, ZenonT(30) DEF FollowsOn

LEMMA LogWalStage == LogInv /\ WalStage => LogInv'
<1> SUFFICES ASSUME LogInv, WalStage PROVE LogInv'
  BY Zenon
<1>1. /\ UNCHANGED <<puts, rot, batch, inserted, com_mem, mem, overlapped, trash>>
      /\ com = "wal" /\ com' = "load" /\ wals' = [wals EXCEPT ![current_wal_id] = @ \o batch]
  BY Zenon DEF WalStage, ring, history
<1>2. PICK c, L, B : c = current_wal_id /\ L = Len(wals[c]) /\ B = Len(batch)
  BY Zenon
<1>3. L \in Nat /\ B \in Nat /\ puts \in Nat /\ c \in DOMAIN wals
  BY <1>2, LogFacts, Zenon
<1>4. FrontAppended(batch, wals')
  <2>1. B <= B
    BY <1>3
  <2> QED
    BY <1>1, <1>2, <2>1, LogFacts, Zenon DEF FrontAppended
<1>5. PICK w : w = wals'
  BY Zenon
<1>6. /\ DOMAIN w = DOMAIN wals /\ \A i \in DOMAIN w : w[i] \in Seq(Keys \X Nat)
      /\ \A i \in DOMAIN wals : i # c => w[i] = wals[i]
      /\ Len(w[c]) = L + B
      /\ \A n \in 1..L : w[c][n] = wals[c][n]
      /\ \A n \in 1..B : w[c][L + n] = batch[n]
      /\ Ascending(w)
      /\ \A i \in DOMAIN w : \A n \in 1..Len(w[i]) : w[i][n][2] <= puts
  <2>1. PICK t : t = batch /\ FrontAppended(t, w)
    BY <1>4, <1>5, Zenon
  <2>2. FollowsOn(t, w, c)
    BY <1>1, <1>2, <2>1, LogAppend, Zenon
  <2> QED
    BY <1>2, <2>1, <2>2, Zenon DEF FollowsOn
<1>7. current_wal_id' = c
  BY <1>2, <1>5, <1>6, Zenon DEF current_wal_id
<1>8. LogTypes'
  BY <1>1, <1>2, <1>5, <1>6, <1>7, ZenonT(30) DEF LogInv, LogTypes
<1>9. LogOrder'
  <2>1. \A i \in DOMAIN w : \A n \in 1..Len(w[i]) : w[i][n][2] <= puts - 0
    <3>1. puts - 0 = puts
      BY <1>3
    <3> QED
      BY <1>6, <3>1, Zenon
  <2> QED
    BY <1>1, <1>5, <1>6, <2>1, SMTT(20) DEF LogInv, LogOrder
<1>10. CoverInv'
  <2>1. SUFFICES ASSUME ~overlapped PROVE CoverInv'
    BY <1>1, Zenon DEF CoverInv
  <2>2. \A i \in DOMAIN wals : \A n \in 1..Len(wals[i]) : n \in 1..Len(w[i]) /\ w[i][n] = wals[i][n]
    <3>1. \A n \in 1..L : n \in 1..(L + B)
      BY <1>3
    <3> QED
      BY <1>2, <1>6, <3>1, Zenon
  <2>3. \A k \in Keys : Logged(k, mem[active][k])'
    <3>1. \A k \in Keys : Logged(k, mem[active][k])
      BY <2>1, Zenon DEF LogInv, CoverInv
    <3>2. ASSUME NEW k, NEW v, Logged(k, v)
          PROVE  v = 0 \/ \E i \in DOMAIN w \ trash : \E n \in 1..Len(w[i]) : w[i][n][1] = k /\ v <= w[i][n][2]
      <4>1. CASE v = 0
        BY <4>1, Zenon
      <4>2. CASE v # 0
        <5>1. PICK i \in DOMAIN wals \ trash :
                 \E n \in 1..Len(wals[i]) : wals[i][n][1] = k /\ v <= wals[i][n][2]
          BY <3>2, <4>2, Zenon DEF Logged
        <5>2. PICK n \in 1..Len(wals[i]) : wals[i][n][1] = k /\ v <= wals[i][n][2]
          BY <5>1, Zenon
        <5>3. i \in DOMAIN w \ trash /\ n \in 1..Len(w[i]) /\ w[i][n] = wals[i][n]
          BY <1>6, <2>2, Zenon
        <5> QED
          BY <5>2, <5>3, Zenon
      <4> QED
        BY <4>1, <4>2, Zenon
    <3> QED
      BY <1>1, <1>5, <3>1, <3>2, SMTT(20) DEF Logged
  <2>4. \A n \in 1..B : \E m \in 1..Len(w[c]) : w[c][m] = batch[n]
    <3>1. \A n \in 1..B : L + n \in 1..(L + B)
      BY <1>3
    <3> QED
      BY <1>6, <3>1, Zenon
  <2>5. rot # "rotate_wal"
    BY <1>1, <2>1, Zenon DEF LogInv, CoverInv
  <2> QED
    BY <1>1, <1>2, <1>5, <1>7, <2>3, <2>4, <2>5, SMTT(20) DEF CoverInv
<1> QED
  BY <1>8, <1>9, <1>10, Zenon DEF LogInv

LEMMA LogLoad == LogInv /\ LoadActive => LogInv'
<1> SUFFICES ASSUME LogInv, LoadActive PROVE LogInv'
  BY Zenon
<1>1. /\ UNCHANGED <<puts, rot, batch, mem, overlapped, wals, trash>>
      /\ com = "load" /\ com' = "memtable" /\ com_mem' = Len(mem) /\ inserted' = 0
  BY Zenon DEF LoadActive, ring, history, walfiles
<1>2. current_wal_id' = current_wal_id
  BY <1>1, Zenon DEF current_wal_id
<1>3. 0 \in 0..Len(batch) /\ Len(mem) \in 1..Len(mem)
  <2>1. Len(batch) \in Nat /\ Len(mem) \in Nat /\ Len(mem) >= 1
    BY LogFacts, Zenon
  <2> QED
    BY <2>1
<1>4. LogTypes'
  BY <1>1, <1>2, <1>3, ZenonT(30) DEF LogInv, LogTypes
<1>5. LogOrder'
  BY <1>1, SMTT(20) DEF LogInv, LogOrder, Ascending
<1>6. CoverInv'
  BY <1>1, <1>2, ZenonT(30) DEF LogInv, CoverInv, Logged
<1> QED
  BY <1>4, <1>5, <1>6, Zenon DEF LogInv

LEMMA LogPut == LogInv /\ MemtablePut => LogInv'
<1> SUFFICES ASSUME LogInv, MemtablePut PROVE LogInv'
  BY Zenon
<1>1. PICK b, n : b = batch[n] /\ n = inserted + 1
  BY Zenon
<1>2. /\ UNCHANGED <<puts, rot, com, batch, com_mem, overlapped, wals, trash>>
      /\ com = "memtable" /\ inserted < Len(batch) /\ inserted' = n
      /\ mem' = [mem EXCEPT ![com_mem][b[1]] = b[2]]
  BY <1>1, Zenon DEF MemtablePut, history, walfiles
<1>3. current_wal_id' = current_wal_id
  BY <1>2, Zenon DEF current_wal_id
<1>4. n \in 1..Len(batch) /\ n \in 0..Len(batch)
  <2>1. Len(batch) \in Nat /\ inserted \in 0..Len(batch)
    BY LogFacts, Zenon DEF LogInv, LogTypes
  <2> QED
    BY <1>1, <1>2, <2>1
<1>5. b \in Keys \X Nat
  <2>1. batch \in Seq(Keys \X Nat)
    BY LogFacts, Zenon
  <2> QED
    BY <1>1, <1>4, <2>1
<1>6. PICK key, v : key = b[1] /\ v = b[2] /\ key \in Keys /\ v \in Nat
  BY <1>5
<1>7. com_mem \in 1..Len(mem) /\ mem \in Seq([Keys -> Nat])
  BY <1>2, Zenon DEF LogInv, LogTypes
<1>8. mem' = [mem EXCEPT ![com_mem] = [mem[com_mem] EXCEPT ![key] = v]]
  BY <1>2, <1>6, Zenon
<1>9. PICK f : f = [mem[com_mem] EXCEPT ![key] = v]
  BY Zenon
<1>10. f \in [Keys -> Nat] /\ f[key] = v /\ \A k \in Keys : k # key => f[k] = mem[com_mem][k]
  <2>1. mem[com_mem] \in [Keys -> Nat]
    BY <1>7
  <2> QED
    BY <1>6, <1>9, <2>1, Zenon
<1>11. /\ mem' \in Seq([Keys -> Nat]) /\ Len(mem') = Len(mem) /\ mem'[com_mem] = f
       /\ \A m \in 1..Len(mem) : m # com_mem => mem'[m] = mem[m]
  <2>1. PICK t : t = mem' /\ t = [mem EXCEPT ![com_mem] = f]
    BY <1>8, <1>9, Zenon
  <2>2. /\ t \in Seq([Keys -> Nat]) /\ Len(t) = Len(mem) /\ t[com_mem] = f
        /\ \A m \in 1..Len(mem) : m # com_mem => t[m] = mem[m]
    BY <1>7, <1>10, <2>1, SeqUpdate, SMTT(20)
  <2> QED
    BY <2>1, <2>2, Zenon
<1>12. LogTypes'
  BY <1>2, <1>3, <1>4, <1>11, ZenonT(30) DEF LogInv, LogTypes
<1>13. LogOrder'
  BY <1>2, SMTT(20) DEF LogInv, LogOrder, Ascending
<1>14. CoverInv'
  <2>1. SUFFICES ASSUME ~overlapped PROVE CoverInv'
    BY <1>2, Zenon DEF CoverInv
  <2>2. com_mem = Len(mem) /\ rot # "rotate_wal"
    BY <1>2, <2>1, Zenon DEF LogInv, CoverInv
  <2>3. Logged(key, v)
    <3>1. PICK c : c = current_wal_id /\ c \in DOMAIN wals \ trash
      BY Zenon DEF LogInv, LogTypes
    <3>2. PICK m \in 1..Len(wals[c]) : wals[c][m] = b
      BY <1>1, <1>2, <1>4, <2>1, <3>1, Zenon DEF LogInv, CoverInv
    <3>3. v <= v
      BY <1>6
    <3> QED
      BY <1>6, <3>1, <3>2, <3>3, Zenon DEF Logged
  <2>4. ASSUME NEW k \in Keys PROVE Logged(k, mem[active][k])'
    <3>1. mem'[Len(mem')] = f
      BY <1>11, <2>2, Zenon
    <3>2. CASE k = key
      BY <1>2, <1>10, <2>3, <3>1, <3>2, Zenon DEF Logged
    <3>3. CASE k # key
      <4>1. Logged(k, mem[Len(mem)][k])
        BY <2>1, Zenon DEF LogInv, CoverInv
      <4> QED
        BY <1>2, <1>10, <2>2, <3>1, <3>3, <4>1, Zenon DEF Logged
    <3> QED
      BY <3>2, <3>3, Zenon
  <2>5. com_mem' = Len(mem')
    BY <1>2, <1>11, <2>2, Zenon
  <2> QED
    BY <1>2, <1>3, <2>1, <2>2, <2>4, <2>5, Zenon DEF LogInv, CoverInv
<1> QED
  BY <1>12, <1>13, <1>14, Zenon DEF LogInv

LEMMA LogComplete == LogInv /\ Complete => LogInv'
<1> SUFFICES ASSUME LogInv, Complete PROVE LogInv'
  BY Zenon
<1>1. /\ UNCHANGED <<puts, rot, mem, overlapped, wals, trash>>
      /\ com = "memtable" /\ com' = "idle" /\ batch' = <<>> /\ inserted' = 0
  BY Zenon DEF Complete, ring, history, walfiles
<1>2. current_wal_id' = current_wal_id
  BY <1>1, Zenon DEF current_wal_id
<1>3. <<>> \in Seq(Keys \X Nat) /\ Len(<<>>) = 0 /\ 0 \in 0..Len(<<>>)
  OBVIOUS
<1>4. LogTypes'
  BY <1>1, <1>2, <1>3, ZenonT(30) DEF LogInv, LogTypes
<1>5. LogOrder'
  <2>1. \A i \in 1..Len(batch') : FALSE
    BY <1>1, <1>3
  <2>2. Len(batch') <= puts
    BY <1>1, <1>3, LogFacts
  <2>3. Ascending(wals)'
    BY <1>1, SMTT(20) DEF LogInv, LogOrder, Ascending
  <2> QED
    BY <1>1, <2>1, <2>2, <2>3, SMTT(20) DEF LogInv, LogOrder
<1>6. CoverInv'
  BY <1>1, <1>2, ZenonT(30) DEF LogInv, CoverInv, Logged
<1> QED
  BY <1>4, <1>5, <1>6, Zenon DEF LogInv

LEMMA LogRemove == LogInv /\ RemoveWal => LogInv'
<1> SUFFICES ASSUME LogInv, RemoveWal PROVE LogInv'
  BY Zenon
<1>1. PICK x \in trash : trash' = trash \ {x} /\ wals' = [j \in DOMAIN wals \ {x} |-> wals[j]]
  BY Zenon DEF RemoveWal
<1>2. UNCHANGED <<puts, rot, com, batch, inserted, com_mem, mem, overlapped>>
  BY Zenon DEF RemoveWal, leader, ring, history
<1>3. PICK c : c = current_wal_id /\ c \in DOMAIN wals /\ c # x /\ \A i \in DOMAIN wals : i \in Nat /\ i <= c
  BY <1>1, LogFacts, Zenon DEF LogInv, LogTypes
<1>4. DOMAIN wals' = DOMAIN wals \ {x} /\ \A i \in DOMAIN wals' : wals'[i] = wals[i]
  BY <1>1, Zenon
<1>5. current_wal_id' = c
  <2>1. DOMAIN wals' \in SUBSET Nat /\ c \in DOMAIN wals' /\ \A i \in DOMAIN wals' : i <= c
    BY <1>3, <1>4, Zenon
  <2>2. Max(DOMAIN wals') = c
    BY <2>1, LastFile, Zenon
  <2> QED
    BY <2>2, Zenon DEF current_wal_id
<1>6. LogTypes'
  <2>1. \A i \in DOMAIN wals' : i \in Nat /\ i <= c /\ wals'[i] \in Seq(Keys \X Nat)
    BY <1>3, <1>4, LogFacts, Zenon
  <2>2. trash' \subseteq DOMAIN wals' \ {c} /\ c \in DOMAIN wals'
    BY <1>1, <1>3, <1>4, Zenon DEF LogInv, LogTypes
  <2> QED
    BY <1>2, <1>5, <2>1, <2>2, ZenonT(30) DEF LogInv, LogTypes
<1>7. LogOrder'
  <2>1. Ascending(wals)'
    <3>1. Ascending(wals)
      BY Zenon DEF LogInv, LogOrder
    <3> QED
      BY <1>4, <3>1, SMTT(20) DEF Ascending
  <2>2. \A i \in DOMAIN wals' : \A n \in 1..Len(wals'[i]) :
           wals'[i][n][2] <= puts - (IF com = "wal" THEN Len(batch) ELSE 0)
    BY <1>4, Zenon DEF LogInv, LogOrder
  <2> QED
    BY <1>2, <2>1, <2>2, Zenon DEF LogInv, LogOrder
<1>8. CoverInv'
  <2>1. SUFFICES ASSUME ~overlapped PROVE CoverInv'
    BY <1>2, Zenon DEF CoverInv
  <2>2. DOMAIN wals \ trash = DOMAIN wals' \ trash'
    BY <1>1, <1>4, Zenon
  <2>3. \A i \in DOMAIN wals \ trash : wals'[i] = wals[i]
    BY <1>4, <2>2, Zenon
  <2>4. \A k \in Keys : Logged(k, mem[active][k])'
    <3>1. \A k \in Keys : Logged(k, mem[active][k])
      BY <2>1, Zenon DEF LogInv, CoverInv
    <3> QED
      BY <1>2, <2>2, <2>3, <3>1, SMTT(20) DEF Logged
  <2>5. wals'[c] = wals[c]
    BY <1>3, <1>4, Zenon
  <2> QED
    BY <1>2, <1>3, <1>5, <2>1, <2>4, <2>5, ZenonT(30) DEF LogInv, CoverInv
<1> QED
  BY <1>6, <1>7, <1>8, Zenon DEF LogInv

(* What a crash leaves of the WAL, if it tears no record.                  *)
LEMMA CrashFiles ==
    ASSUME LogInv, ~TornWrites, NEW files \in WalAfterCrash
    PROVE  /\ DOMAIN files = DOMAIN wals /\ \A i \in DOMAIN files : files[i] \in Seq(Keys \X Nat)
           /\ Ascending(files)
           /\ \A i \in DOMAIN files : \A n \in 1..Len(files[i]) : files[i][n][2] <= puts
<1>1. CASE files = wals
  <2>1. \A i \in DOMAIN wals : \A n \in 1..Len(wals[i]) : wals[i][n][2] <= puts
    <3>1. SUFFICES ASSUME NEW i \in DOMAIN wals, NEW n \in 1..Len(wals[i]) PROVE wals[i][n][2] <= puts
      BY Zenon
    <3>2. PICK x, d : x = wals[i][n][2] /\ d = IF com = "wal" THEN Len(batch) ELSE 0
      BY Zenon
    <3>3. wals[i][n] \in Keys \X Nat /\ x <= puts - d
      BY <3>2, LogFacts, Zenon DEF LogInv, LogOrder
    <3>4. x \in Nat
      BY <3>2, <3>3
    <3>5. puts \in Nat /\ d \in Nat
      BY <3>2, LogFacts
    <3>6. x <= puts
      BY <3>3, <3>4, <3>5
    <3> QED
      BY <3>2, <3>6, Zenon
  <2> QED
    BY <1>1, <2>1, LogFacts, Zenon DEF LogInv, LogOrder
<1>2. CASE files # wals
  <2>1. com = "wal" /\ \E n \in 1..Len(batch) : files = [wals EXCEPT ![current_wal_id] = @ \o SubSeq(batch, 1, n)]
    BY <1>2, Zenon DEF WalAfterCrash
  <2>2. PICK n \in 1..Len(batch) : files = [wals EXCEPT ![current_wal_id] = @ \o SubSeq(batch, 1, n)]
    BY <2>1, Zenon
  <2>3. PICK t : t = SubSeq(batch, 1, n)
    BY Zenon
  <2>4. t \in Seq(Keys \X Nat) /\ Len(t) <= Len(batch) /\ \A i \in 1..Len(t) : t[i] = batch[i]
    <3>1. batch \in Seq(Keys \X Nat)
      BY LogFacts, Zenon
    <3>2. t \in Seq(Keys \X Nat) /\ Len(t) = n /\ \A i \in 1..n : t[i] = batch[i]
      BY <2>3, <3>1
    <3>3. Len(batch) \in Nat /\ n <= Len(batch)
      BY <3>1
    <3> QED
      BY <3>2, <3>3, Zenon
  <2>5. FrontAppended(t, files)
    BY <2>2, <2>3, <2>4, Zenon DEF FrontAppended
  <2>6. PICK c : c = current_wal_id
    BY Zenon
  <2>7. FollowsOn(t, files, c)
    BY <2>1, <2>5, <2>6, LogAppend, Zenon
  <2> QED
    BY <2>7, Zenon DEF FollowsOn
<1> QED
  BY <1>1, <1>2, Zenon

LEMMA LogCrash == ~TornWrites /\ LogInv /\ Crash => LogInv'
<1> SUFFICES ASSUME ~TornWrites, LogInv, Crash PROVE LogInv'
  BY Zenon
<1>1. PICK files \in WalAfterCrash : wals' = files /\ mem' = <<Recovered(files)>>
  BY Zenon DEF Crash
<1>2. /\ trash' = {} /\ rot' = "none" /\ com' = "idle" /\ batch' = <<>> /\ inserted' = 0
      /\ UNCHANGED <<puts, overlapped>>
  BY Zenon DEF Crash
<1>3. PICK c : c = current_wal_id /\ c \in Nat /\ c \in DOMAIN wals /\ \A i \in DOMAIN wals : i \in Nat /\ i <= c
  BY LogFacts, Zenon
<1>4. /\ DOMAIN files = DOMAIN wals /\ \A i \in DOMAIN files : files[i] \in Seq(Keys \X Nat)
      /\ Ascending(files)
      /\ \A i \in DOMAIN files : \A n \in 1..Len(files[i]) : files[i][n][2] <= puts
  BY CrashFiles, Zenon
<1>5. current_wal_id' = c
  BY <1>1, <1>3, <1>4, Zenon DEF current_wal_id
<1>6. PICK r : r = Recovered(files)
  BY Zenon
<1>7. \A k \in Keys : /\ r[k] \in Nat
                      /\ r[k] # 0 => \E i \in DOMAIN files : \E n \in 1..Len(files[i]) :
                                        files[i][n][1] = k /\ files[i][n][2] = r[k]
  <2>1. DOMAIN files \subseteq Nat /\ \A i \in DOMAIN files : i <= c /\ files[i] \in Seq(Keys \X Nat)
    BY <1>3, <1>4, Zenon
  <2>2. Ascending(files)
    BY <1>4, Zenon
  <2>3. ASSUME NEW k \in Keys
        PROVE  /\ Recovered(files)[k] \in Nat
               /\ Recovered(files)[k] # 0 => \E i \in DOMAIN files : \E n \in 1..Len(files[i]) :
                    files[i][n][1] = k /\ files[i][n][2] = Recovered(files)[k]
    BY <1>3, <2>1, <2>2, RecoverIs, Zenon
  <2> QED
    BY <1>6, <2>3, Zenon
<1>8. r \in [Keys -> Nat]
  <2>1. r = [k \in Keys |-> r[k]]
    BY <1>6, Zenon DEF Recovered
  <2> QED
    BY <1>7, <2>1, Zenon
<1>9. mem' \in Seq([Keys -> Nat]) /\ Len(mem') = 1 /\ mem'[1] = r /\ 1 >= 1
  <2>1. mem' = <<r>>
    BY <1>1, <1>6, Zenon
  <2> QED
    BY <1>8, <2>1
<1>10. <<>> \in Seq(Keys \X Nat) /\ Len(<<>>) = 0 /\ 0 \in 0..Len(<<>>)
  OBVIOUS
<1>11. LogTypes'
  <2>1. /\ DOMAIN files \subseteq Nat /\ c \in DOMAIN files /\ {} \subseteq DOMAIN files \ {c}
        /\ \A i \in DOMAIN files : i <= c /\ files[i] \in Seq(Keys \X Nat)
    BY <1>3, <1>4, Zenon
  <2>2. puts \in Nat
    BY LogFacts, Zenon
  <2> QED
    BY <1>1, <1>2, <1>5, <1>9, <1>10, <2>1, <2>2, ZenonT(30) DEF LogTypes
<1>12. LogOrder'
  <2>1. \A i \in 1..Len(batch') : FALSE
    BY <1>2, <1>10
  <2>2. Len(batch') <= puts /\ puts - 0 = puts
    BY <1>2, <1>10, LogFacts
  <2>3. \A i \in DOMAIN files : \A n \in 1..Len(files[i]) : files[i][n][2] <= puts - 0
    BY <1>4, <2>2, Zenon
  <2>4. Ascending(wals)'
    BY <1>1, <1>4, SMTT(20) DEF Ascending
  <2> QED
    BY <1>1, <1>2, <2>1, <2>2, <2>3, <2>4, Zenon DEF LogOrder
<1>13. CoverInv'
  <2>1. ASSUME NEW k \in Keys PROVE Logged(k, mem[active][k])'
    <3>1. PICK v : v = r[k] /\ v \in Nat /\ v <= v
      BY <1>7
    <3>2. v # 0 => \E i \in DOMAIN files \ {} : \E n \in 1..Len(files[i]) : files[i][n][1] = k /\ v <= files[i][n][2]
      BY <1>7, <3>1, Zenon
    <3>3. mem'[Len(mem')][k] = v
      BY <1>9, <3>1, Zenon
    <3> QED
      BY <1>1, <1>2, <3>2, <3>3, Zenon DEF Logged
  <2> QED
    BY <1>2, <2>1, Zenon DEF CoverInv
<1> QED
  BY <1>11, <1>12, <1>13, Zenon DEF LogInv

LEMMA LogInit == Init => LogInv
<1> SUFFICES ASSUME Init PROVE LogInv
  BY Zenon
<1>1. /\ puts = 0 /\ rot = "none" /\ com = "idle" /\ batch = <<>> /\ inserted = 0
      /\ mem = <<Empty>> /\ wals = [i \in {1} |-> <<>>] /\ trash = {}
  BY Zenon DEF Init
<1>2. Empty \in [Keys -> Nat] /\ \A k \in Keys : Empty[k] = 0
  BY DEF Empty
<1>3. mem \in Seq([Keys -> Nat]) /\ Len(mem) = 1 /\ mem[1] = Empty /\ 1 >= 1
  BY <1>1, <1>2
<1>4. <<>> \in Seq(Keys \X Nat) /\ Len(<<>>) = 0 /\ 0 \in 0..Len(<<>>) /\ 0 \in Nat /\ \A n \in 1..Len(<<>>) : FALSE
  OBVIOUS
<1>5. DOMAIN wals = {1} /\ wals[1] = <<>>
  BY <1>1, Zenon
<1>6. current_wal_id = 1
  <2>1. {1} \in SUBSET Nat /\ 1 \in {1} /\ \A i \in {1} : i <= 1
    OBVIOUS
  <2>2. Max({1}) = 1
    BY <2>1, LastFile, Zenon
  <2> QED
    BY <1>5, <2>2, Zenon DEF current_wal_id
<1>7. LogTypes
  <2>1. {1} \subseteq Nat /\ \A i \in {1} : i <= 1
    OBVIOUS
  <2> QED
    BY <1>1, <1>3, <1>4, <1>5, <1>6, <2>1, ZenonT(30) DEF LogTypes
<1>8. LogOrder
  <2>1. \A i \in DOMAIN wals : \A n \in 1..Len(wals[i]) : FALSE
    BY <1>4, <1>5, Zenon
  <2>2. Len(batch) <= puts /\ \A i \in 1..Len(batch) : FALSE
    BY <1>1, <1>4
  <2> QED
    BY <2>1, <2>2, Zenon DEF LogOrder, Ascending
<1>9. CoverInv
  BY <1>1, <1>2, <1>3, Zenon DEF CoverInv, Logged
<1> QED
  BY <1>7, <1>8, <1>9, Zenon DEF LogInv

LEMMA LogStep == LogInv /\ [Next]_vars => LogInv'
<1> SUFFICES ASSUME LogInv, [Next]_vars PROVE LogInv'
  BY Zenon
<1>1. CASE Lead \/ BelowThreshold \/ EnqueueFlush
  <2>1. /\ UNCHANGED <<puts, com, batch, inserted, mem, com_mem, wals, trash, overlapped>>
        /\ rot' # "rotate_wal"
    BY <1>1, Zenon DEF Lead, BelowThreshold, EnqueueFlush, ring, history, walfiles
  <2> QED
    BY <2>1, LogQuiet, Zenon
<1>2. CASE FlushRead \/ FlushPublish \/ FlushFails \/ FlushReset
  <2>1. UNCHANGED <<puts, com, batch, inserted, mem, com_mem, wals, trash, overlapped, rot>>
    BY <1>2, Zenon DEF FlushRead, FlushPublish, FlushFails, FlushReset, leader, ring, history, walfiles
  <2> QED
    BY <2>1, LogQuiet, Zenon
<1>3. CASE \E r \in Readers : Read(r)
  <2>1. UNCHANGED <<puts, com, batch, inserted, mem, com_mem, wals, trash, overlapped, rot>>
    BY <1>3, ReadQuiet, Zenon DEF leader, ring, history, walfiles
  <2> QED
    BY <2>1, LogQuiet, Zenon
<1>4. CASE UNCHANGED vars
  <2>1. UNCHANGED <<puts, com, batch, inserted, mem, com_mem, wals, trash, overlapped, rot>>
    BY <1>4, Zenon DEF vars, leader, ring, history, walfiles
  <2> QED
    BY <2>1, LogQuiet, Zenon
<1> QED
  BY <1>1, <1>2, <1>3, <1>4, LogFreeze, LogRotate, LogDrain, LogWalStage, LogLoad, LogPut, LogComplete,
     LogRemove, Zenon DEF Next, Rotate, Commit, Flush

(* Whatever is in the active memtable would come back after a crash, for   *)
(* any batches, ring and number of crashes, unless a leader froze the      *)
(* memtable under another one's commit or a crash tore a record: the WAL   *)
(* is switched apart from the memtable, its old file is removed in the     *)
(* background, and recover goes through what is left of the files.         *)
THEOREM ActiveIsLogged == ~TornWrites => (RSpec => []WalCoversActive)
<1> SUFFICES ASSUME ~TornWrites PROVE RSpec => []WalCoversActive
  OBVIOUS
<1>1. Init => LogInv
  BY LogInit
<1>2. LogInv /\ [RNext]_vars => LogInv'
  <2>1. LogInv /\ Crash => LogInv'
    BY LogCrash, Zenon
  <2> QED
    BY <2>1, LogStep, Zenon DEF RNext
<1>3. LogInv => WalCoversActive
  BY LogCovers
<1> QED
  BY <1>1, <1>2, <1>3, PTL DEF RSpec
=============================================================================
