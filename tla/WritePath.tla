----------------------------- MODULE WritePath -----------------------------
(***************************************************************************)
(* The life of a write: WAL, active memtable, immutable ring, level 0, and *)
(* what get and scan find meanwhile and after a crash.                     *)
(*                                                                         *)
(* GroupCommit shows that at most one leader is in maybe_flush (before it  *)
(* takes the list) and at most one commits.  Here these are two roles: the *)
(* rotating leader and the committing one.  With several client threads    *)
(* the next leader may rotate while the previous one commits (Overlap).    *)
(*                                                                         *)
(* Puts are numbered in commit order; the number stands for the pointer    *)
(* stored, a tombstone included.  Bytes are left out: any memtable that is *)
(* not empty may have reached the flush threshold.                         *)
(***************************************************************************)
EXTENDS Integers, Sequences, FiniteSetsExt, Functions

CONSTANTS
    Keys,
    Slots,         \* length of immutables_ (4 in the code)
    Readers,       \* threads calling get or scan
    Overlap,       \* whether several threads write
    FlushMayFail,  \* whether writing the table or its edit can fail
    MaxPuts,       \* bound: puts
    MaxBatch,      \* bound: requests in a batch
    MaxMemtables   \* bound: memtables created

ASSUME WritePathAssumption ==
    /\ Slots \in Nat \ {0}
    /\ {Overlap, FlushMayFail} \subseteq BOOLEAN
    /\ {MaxPuts, MaxBatch, MaxMemtables} \subseteq Nat

VARIABLES
    puts,        \* number of the newest put
    acked,       \* history: newest put of each key that was acknowledged
    rot,         \* where the rotating leader is
    com,         \* where the committing leader is
    batch,       \* its batch: <<key, number>> pairs
    com_mem,     \* its current_active
    inserted,    \* how many of the batch it has inserted
    mem,         \* the memtables, the last one active
    immutables,  \* immutables_, 0 for an empty slot
    imm_idx,     \* current_imm_idx_
    flush_queue, \* tasks of flush_pool_: <<memtable, slot>>
    flush,       \* where the flush thread is
    table,       \* the entries it writes
    l0,          \* level 0, newest table first
    wals,        \* the WAL files: id |-> records
    trash,       \* WAL files whose removal is queued on compaction_pool_
    overlapped,  \* history: a memtable was frozen while a batch was committing
    crashes,     \* crashes so far: WriteRecovery adds them
    read         \* the reads in progress

leader == <<rot, com, batch, com_mem, inserted>>
ring == <<mem, immutables, imm_idx>>
flusher == <<flush_queue, flush, table>>
walfiles == <<wals, trash>>
history == <<overlapped, crashes>>
vars == <<puts, acked, leader, ring, flusher, l0, walfiles, history, read>>

Empty == [k \in Keys |-> 0]
NoRead == [pc |-> "idle", scan |-> FALSE, key |-> 0, floor |-> 0, order |-> <<>>, result |-> 0]

active == Len(mem)
current_wal_id == Max(DOMAIN wals)
Contents(m) == IF m = 0 THEN Empty ELSE mem[m]

Init ==
    /\ puts = 0 /\ acked = Empty
    /\ rot = "none" /\ com = "idle" /\ batch = <<>> /\ com_mem = 0 /\ inserted = 0
    /\ mem = <<Empty>> /\ immutables = [s \in 0..(Slots - 1) |-> 0] /\ imm_idx = 0
    /\ flush_queue = <<>> /\ flush = "idle" /\ table = Empty
    /\ l0 = <<>>
    /\ wals = [i \in {1} |-> <<>>] /\ trash = {}
    /\ overlapped = FALSE /\ crashes = 0
    /\ read = [r \in Readers |-> NoRead]

-----------------------------------------------------------------------------
(* maybe_flush.  The next leader enters it when a request finds the list   *)
(* empty: at once if other threads write, else after the commit.           *)
Lead ==
    /\ rot = "none"
    /\ Overlap \/ com = "idle"
    /\ rot' = "maybe_flush"
    /\ UNCHANGED <<puts, acked, com, batch, com_mem, inserted, ring, flusher, l0, walfiles, history, read>>

BelowThreshold ==
    /\ rot = "maybe_flush"
    /\ rot' = "ready"
    /\ UNCHANGED <<puts, acked, com, batch, com_mem, inserted, ring, flusher, l0, walfiles, history, read>>

(* Mutated Freeze: the slot is not waited for.                             *)
FreezeUnguarded ==
    /\ rot = "maybe_flush"
    /\ mem[active] # Empty
    /\ active < MaxMemtables
    /\ immutables' = [immutables EXCEPT ![imm_idx % Slots] = active]
    /\ imm_idx' = imm_idx + 1
    /\ mem' = Append(mem, Empty)
    /\ rot' = "rotate_wal"
    /\ overlapped' = (overlapped \/ com # "idle")
    /\ UNCHANGED <<puts, acked, com, batch, com_mem, inserted, flusher, l0, walfiles, crashes, read>>

(* The threshold is reached: wait for the slot (bg_flush_cv_), then freeze *)
(* the active memtable under memtable_mutex_.                              *)
Freeze ==
    /\ rot = "maybe_flush"
    /\ mem[active] # Empty
    /\ active < MaxMemtables
    /\ immutables[imm_idx % Slots] = 0
    /\ immutables' = [immutables EXCEPT ![imm_idx % Slots] = active]
    /\ imm_idx' = imm_idx + 1
    /\ mem' = Append(mem, Empty)
    /\ rot' = "rotate_wal"
    /\ overlapped' = (overlapped \/ com # "idle")
    /\ UNCHANGED <<puts, acked, com, batch, com_mem, inserted, flusher, l0, walfiles, crashes, read>>

(* rotate_wal: create, sync and switch to the new file, and queue the      *)
(* removal of the old one.                                                 *)
RotateWal ==
    /\ rot = "rotate_wal"
    /\ wals' = [i \in DOMAIN wals \cup {current_wal_id + 1} |->
                   IF i \in DOMAIN wals THEN wals[i] ELSE <<>>]
    /\ trash' = trash \cup {current_wal_id}
    /\ rot' = "enqueue"
    /\ UNCHANGED <<puts, acked, com, batch, com_mem, inserted, ring, flusher, l0, history, read>>

(* The flush task, with the frozen memtable and its slot.                  *)
EnqueueFlush ==
    /\ rot = "enqueue"
    /\ flush_queue' = Append(flush_queue, <<active - 1, (imm_idx - 1) % Slots>>)
    /\ rot' = "ready"
    /\ UNCHANGED <<puts, acked, com, batch, com_mem, inserted, ring, flush, table, l0, walfiles, history, read>>

-----------------------------------------------------------------------------
(* The commit, under commit_mutex_: take the list, append and sync the     *)
(* WAL, look up the active memtable, insert, complete.                     *)
Drain ==
    /\ rot = "ready" /\ com = "idle"
    /\ \E n \in 1..MaxBatch : \E keys \in [1..n -> Keys] :
          /\ puts + n <= MaxPuts
          /\ batch' = [i \in 1..n |-> <<keys[i], puts + i>>]
          /\ puts' = puts + n
    /\ rot' = "none" /\ com' = "wal"
    /\ UNCHANGED <<acked, com_mem, inserted, ring, flusher, l0, walfiles, history, read>>

WalStage ==
    /\ com = "wal"
    /\ wals' = [wals EXCEPT ![current_wal_id] = @ \o batch]
    /\ com' = "load"
    /\ UNCHANGED <<puts, acked, rot, batch, com_mem, inserted, ring, flusher, l0, trash, history, read>>

LoadActive ==
    /\ com = "load"
    /\ com_mem' = active
    /\ com' = "memtable" /\ inserted' = 0
    /\ UNCHANGED <<puts, acked, rot, batch, ring, flusher, l0, walfiles, history, read>>

(* Mutated MemtablePut: the batch is inserted newest first.                *)
MemtablePutNewestFirst ==
    /\ com = "memtable" /\ inserted < Len(batch)
    /\ inserted' = inserted + 1
    /\ LET b == batch[Len(batch) - inserted] IN mem' = [mem EXCEPT ![com_mem][b[1]] = b[2]]
    /\ UNCHANGED <<puts, acked, rot, com, batch, com_mem, immutables, imm_idx,
                   flusher, l0, walfiles, history, read>>

MemtablePut ==
    /\ com = "memtable" /\ inserted < Len(batch)
    /\ inserted' = inserted + 1
    /\ LET b == batch[inserted'] IN mem' = [mem EXCEPT ![com_mem][b[1]] = b[2]]
    /\ UNCHANGED <<puts, acked, rot, com, batch, com_mem, immutables, imm_idx,
                   flusher, l0, walfiles, history, read>>

(* commit_mutex_ is released and every request of the batch completes.     *)
Complete ==
    /\ com = "memtable" /\ inserted = Len(batch)
    /\ acked' = [k \in Keys |-> Max({acked[k]} \cup {b[2] : b \in {c \in Range(batch) : c[1] = k}})]
    /\ com' = "idle" /\ batch' = <<>> /\ com_mem' = 0 /\ inserted' = 0
    /\ UNCHANGED <<puts, rot, ring, flusher, l0, walfiles, history, read>>

-----------------------------------------------------------------------------
(* The flush thread: copy the memtable, write and publish the table, then  *)
(* empty the slot, whether or not that worked.                             *)
FlushRead ==
    /\ flush = "idle" /\ flush_queue # <<>>
    /\ table' = mem[Head(flush_queue)[1]]
    /\ flush' = "publish"
    /\ UNCHANGED <<puts, acked, leader, ring, flush_queue, l0, walfiles, history, read>>

(* Mutated FlushPublish: the new table goes behind the older ones.         *)
FlushPublishLast ==
    /\ flush = "publish"
    /\ l0' = Append(l0, table)
    /\ flush' = "reset"
    /\ UNCHANGED <<puts, acked, leader, ring, flush_queue, table, walfiles, history, read>>

FlushPublish ==
    /\ flush = "publish"
    /\ l0' = <<table>> \o l0
    /\ flush' = "reset"
    /\ UNCHANGED <<puts, acked, leader, ring, flush_queue, table, walfiles, history, read>>

FlushFails ==
    /\ FlushMayFail
    /\ flush = "publish"
    /\ flush' = "reset"
    /\ UNCHANGED <<puts, acked, leader, ring, flush_queue, table, l0, walfiles, history, read>>

(* Mutated FlushReset: the slot is left occupied.                          *)
FlushResetKeepsSlot ==
    /\ flush = "reset"
    /\ flush_queue' = Tail(flush_queue)
    /\ flush' = "idle" /\ table' = Empty
    /\ UNCHANGED <<puts, acked, leader, ring, l0, walfiles, history, read>>

FlushReset ==
    /\ flush = "reset"
    /\ immutables' = [immutables EXCEPT ![Head(flush_queue)[2]] = 0]
    /\ flush_queue' = Tail(flush_queue)
    /\ flush' = "idle" /\ table' = Empty
    /\ UNCHANGED <<puts, acked, leader, mem, imm_idx, l0, walfiles, history, read>>

(* The removal task that rotate_wal queued.                                *)
RemoveWal ==
    /\ \E i \in trash :
          /\ trash' = trash \ {i}
          /\ wals' = [j \in DOMAIN wals \ {i} |-> wals[j]]
    /\ UNCHANGED <<puts, acked, leader, ring, flusher, l0, history, read>>

-----------------------------------------------------------------------------
(* get: the active memtable, then the ring from its newest memtable.       *)
GetOrder ==
    LET n == IF imm_idx < Slots THEN imm_idx ELSE Slots
    IN  <<active>> \o [i \in 1..n |-> immutables[(imm_idx - i) % Slots]]

(* Mutated ScanOrder: the loop over the ring stops one slot early.         *)
ScanOrderShort == <<active>> \o [i \in 1..(Slots - 1) |-> immutables[i - 1]]

(* scan: the active memtable, then the ring by slot number.                *)
ScanOrder == <<active>> \o [i \in 1..Slots |-> immutables[i - 1]]

(* The first table that holds the key decides; 0 if none does.             *)
FirstHit(tables, k) ==
    LET hits == {i \in DOMAIN tables : tables[i][k] # 0}
    IN  IF hits = {} THEN 0 ELSE tables[Min(hits)][k]

InMemory(order, k) == FirstHit([i \in DOMAIN order |-> Contents(order[i])], k)

(* Mutated ReadBegin: get, too, takes the ring by slot number.             *)
ReadBeginBySlot(r) ==
    /\ read[r].pc = "idle"
    /\ \E k \in Keys, scan \in BOOLEAN :
          read' = [read EXCEPT ![r] =
                      [pc |-> "memtables", scan |-> scan, key |-> k, floor |-> acked[k], result |-> 0,
                       order |-> ScanOrder]]
    /\ UNCHANGED <<puts, acked, leader, ring, flusher, l0, walfiles, history>>

(* get or scan: the snapshot of the ring, under memtable_mutex_.  floor    *)
(* records what a read that starts now must not miss.                      *)
ReadBegin(r) ==
    /\ read[r].pc = "idle"
    /\ \E k \in Keys, scan \in BOOLEAN :
          read' = [read EXCEPT ![r] =
                      [pc |-> "memtables", scan |-> scan, key |-> k, floor |-> acked[k], result |-> 0,
                       order |-> IF scan THEN ScanOrder ELSE GetOrder]]
    /\ UNCHANGED <<puts, acked, leader, ring, flusher, l0, walfiles, history>>

ReadMemtables(r) ==
    /\ ~read[r].scan /\ read[r].pc = "memtables"
    /\ LET v == InMemory(read[r].order, read[r].key)
       IN  read' = [read EXCEPT ![r].pc = IF v = 0 THEN "tables" ELSE "returned",
                                ![r].order = <<>>,
                                ![r].result = v]
    /\ UNCHANGED <<puts, acked, leader, ring, flusher, l0, walfiles, history>>

(* versions_->current() is taken only now.                                 *)
ReadTables(r) ==
    /\ ~read[r].scan /\ read[r].pc = "tables"
    /\ read' = [read EXCEPT ![r].pc = "returned", ![r].result = FirstHit(l0, read[r].key)]
    /\ UNCHANGED <<puts, acked, leader, ring, flusher, l0, walfiles, history>>

(* scan looks everywhere; merged.insert keeps the first pointer of a key.  *)
ScanMemtables(r) ==
    /\ read[r].scan /\ read[r].pc = "memtables"
    /\ read' = [read EXCEPT ![r].pc = "tables", ![r].order = <<>>,
                            ![r].result = InMemory(read[r].order, read[r].key)]
    /\ UNCHANGED <<puts, acked, leader, ring, flusher, l0, walfiles, history>>

ScanTables(r) ==
    /\ read[r].scan /\ read[r].pc = "tables"
    /\ read' = [read EXCEPT ![r].pc = "returned",
                            ![r].result = IF @ = 0 THEN FirstHit(l0, read[r].key) ELSE @]
    /\ UNCHANGED <<puts, acked, leader, ring, flusher, l0, walfiles, history>>

ReadReturn(r) ==
    /\ read[r].pc = "returned"
    /\ read' = [read EXCEPT ![r] = NoRead]
    /\ UNCHANGED <<puts, acked, leader, ring, flusher, l0, walfiles, history>>

-----------------------------------------------------------------------------
Rotate == BelowThreshold \/ Freeze \/ RotateWal \/ EnqueueFlush
Commit == Drain \/ WalStage \/ LoadActive \/ MemtablePut \/ Complete
Flush == FlushRead \/ FlushPublish \/ FlushFails \/ FlushReset
Read(r) ==
    \/ ReadBegin(r) \/ ReadMemtables(r) \/ ReadTables(r)
    \/ ScanMemtables(r) \/ ScanTables(r) \/ ReadReturn(r)

Next ==
    \/ Lead \/ Rotate \/ Commit \/ Flush \/ RemoveWal
    \/ \E r \in Readers : Read(r)

(* The flush thread runs while tasks are queued, and a leader that froze   *)
(* the memtable goes on to queue its flush.  Clients owe no further call.  *)
Fairness == WF_vars(Flush) /\ WF_vars(RotateWal \/ EnqueueFlush)

Spec == Init /\ [][Next]_vars

FairSpec == Spec /\ Fairness

-----------------------------------------------------------------------------
(* Every variable has its type, every id names a memtable.                 *)
TypeOK ==
    /\ puts \in 0..MaxPuts
    /\ acked \in [Keys -> 0..MaxPuts]
    /\ rot \in {"none", "maybe_flush", "rotate_wal", "enqueue", "ready"}
    /\ com \in {"idle", "wal", "load", "memtable"}
    /\ \A b \in Range(batch) : b \in Keys \X (1..MaxPuts)
    /\ com_mem \in 0..active /\ inserted \in 0..Len(batch)
    /\ mem \in Seq([Keys -> 0..MaxPuts])
    /\ immutables \in [0..(Slots - 1) -> 0..active] /\ imm_idx \in Nat
    /\ \A t \in Range(flush_queue) : t \in (1..active) \X (0..(Slots - 1))
    /\ overlapped \in BOOLEAN /\ crashes \in Nat
    /\ flush \in {"idle", "publish", "reset"} /\ table \in [Keys -> 0..MaxPuts]
    /\ l0 \in Seq([Keys -> 0..MaxPuts])
    /\ DOMAIN wals # {} /\ trash \subseteq DOMAIN wals
    /\ \A r \in Readers : read[r].pc \in {"idle", "memtables", "tables", "returned"}

Stack == [i \in DOMAIN GetOrder |-> Contents(GetOrder[i])] \o l0

(* What a get that ran now would find.                                     *)
Visible(k) == FirstHit(Stack, k)

(* Newer containers hold newer values: along the order in which get looks, *)
(* no table has an older put of a key than a table behind it.  Flushing    *)
(* and compaction rely on it: the first hit ends the search.               *)
RecencyOrder ==
    \A i, j \in DOMAIN Stack : \A k \in Keys :
        i < j /\ Stack[i][k] # 0 => Stack[i][k] >= Stack[j][k]

(* A put that returned is found by a get that starts now, whatever the     *)
(* rotation and the flush have got to.                                     *)
AckedVisible == \A k \in Keys : Visible(k) >= acked[k]

(* A get returns no value older than the newest one acknowledged when it   *)
(* began, although it takes the ring and the version at different times.   *)
GetsSeeAcked ==
    \A r \in Readers :
        read[r].pc = "returned" /\ ~read[r].scan => read[r].result >= read[r].floor

(* The same of a scan.                                                     *)
ScansSeeAcked ==
    \A r \in Readers :
        read[r].pc = "returned" /\ read[r].scan => read[r].result >= read[r].floor

(* A scan misses no key that was acknowledged when it began: a memtable    *)
(* that leaves the ring meanwhile is in the version it takes afterwards.   *)
ScansMissNothing ==
    \A r \in Readers :
        read[r].pc = "returned" /\ read[r].scan /\ read[r].floor # 0 => read[r].result # 0

(* To its readers the engine is a map: only the insertion of a put changes *)
(* a value; freezing, publishing and emptying a slot change none.          *)
Map == INSTANCE KVMap WITH store <- [k \in Keys |-> Visible(k)]
ActsAsMap == Map!MapSpec

(* A full ring holds a leader back only until the flush thread frees the   *)
(* slot: a frozen memtable always leaves the ring.                         *)
FrozenLeaves == \A s \in 0..(Slots - 1) : immutables[s] # 0 ~> immutables[s] = 0
=============================================================================
