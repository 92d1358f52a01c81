------------------------------ MODULE LogFiles ------------------------------
(***************************************************************************)
(* The buffers of the value log and the WAL: what an append leaves in      *)
(* memory, what a sync brings to the file and to the disk, where pointers  *)
(* point meanwhile, and what a failed write, a clean close or a crash      *)
(* makes of them.                                                          *)
(*                                                                         *)
(* Puts are numbered in commit order.  The number stands for the record,   *)
(* which takes one cell of a value log; a pointer is a file and a cell.    *)
(* Freezing and flushing a memtable (WritePath) is one step here, between  *)
(* two commits, and one thread scans beside the writers.                   *)
(***************************************************************************)
EXTENDS Integers, Sequences, SequencesExt, FiniteSetsExt

CONSTANTS
    Keys,
    MAX_FILE_SIZE,      \* a value log with as many cells is left for a new one
    BufferLimit,        \* cells in buffer_ at which append syncs (4 MB)
    Torn,               \* a WAL record that does not pass its CRC
    ReadMovesPosition,  \* whether a positioned read moves where the next write goes
    Tolerated,          \* the faults no property exempts
    MaxPuts,            \* bound: puts
    MaxQueue,           \* bound: requests waiting
    MaxFailures,        \* bound: writes and fsyncs that fail
    MaxRestarts         \* bound: crashes and closes

ASSUME LogFilesAssumption ==
    /\ {MAX_FILE_SIZE, BufferLimit} \subseteq Nat \ {0}
    /\ ReadMovesPosition \in BOOLEAN
    /\ {MaxPuts, MaxQueue, MaxFailures, MaxRestarts} \subseteq Nat

VARIABLES
    vlogs,     \* vlogs_, the last one current: file, its fsynced length, position, buffer_, current_offset_
    wal,       \* wal_: file, its fsynced length, buffer_
    mem,       \* the memtable: key |-> entry
    tables,    \* the SSTables: key |-> entry
    queue,     \* requests past the test of is_panic_, oldest first
    com,       \* where the leader is, under commit_mutex_
    batch,
    ptrs,      \* pointers of the part of the batch that is appended
    sync,      \* who |-> its VLog::sync in progress
    is_panic,
    puts,      \* number of the newest put
    acked,     \* history: newest put of each key that was acknowledged
    synced,    \* history: the same with WriteOptions::sync
    faults,    \* history: what went wrong
    failures,
    restarts

logs == <<vlogs, wal>>
leader == <<com, batch, ptrs>>
counters == <<failures, restarts>>
vars == <<logs, mem, tables, queue, leader, sync, is_panic, puts, acked, synced, faults, counters>>

Tombstone == <<0, 0>>
None == [n |-> 0, ptr |-> Tombstone]
Empty == [k \in Keys |-> None]
NewVLog == [file |-> <<>>, durable |-> 0, pos |-> 0, buffer |-> <<>>, offset |-> 0]
NewWal == [file |-> <<>>, durable |-> 0, buffer |-> <<>>]
NoSync == [pc |-> "idle", file |-> 0, then |-> "none"]

Init ==
    /\ vlogs = <<NewVLog>> /\ wal = NewWal
    /\ mem = Empty /\ tables = Empty
    /\ queue = <<>> /\ com = "idle" /\ batch = <<>> /\ ptrs = <<>>
    /\ sync = [a \in {"leader", "scan"} |-> NoSync]
    /\ is_panic = FALSE
    /\ puts = 0 /\ acked = [k \in Keys |-> 0] /\ synced = [k \in Keys |-> 0]
    /\ faults = {} /\ failures = 0 /\ restarts = 0

current_vlog_id == Len(vlogs)

(* A thread is using buffer_ in sync; the leader also uses it in append.   *)
Busy(a) == sync[a].pc \in {"write", "clear"}
Raced(a) == IF Busy(a) THEN {"overlap"} ELSE {}

(* vlogs_mutex_ is held through sync_active_vlog and through a rotation.   *)
vlogs_mutex_free == sync["scan"].pc = "idle" /\ sync["leader"].then # "rotate"

-----------------------------------------------------------------------------
(* put and delete_key, up to the queue: is_panic_ is not tested again.     *)
Request(k, del, s) ==
    /\ ~is_panic
    /\ puts < MaxPuts /\ Len(queue) < MaxQueue
    /\ puts' = puts + 1
    /\ queue' = Append(queue, [key |-> k, n |-> puts', del |-> del, sync |-> s])
    /\ UNCHANGED <<logs, mem, tables, leader, sync, is_panic, acked, synced, faults, counters>>

SyncBegins(a, then) ==
    sync' = [sync EXCEPT ![a] = [pc |-> "write", file |-> current_vlog_id, then |-> then]]

(* The leader takes the list, and starts a new value log if the current    *)
(* one is too long.                                                        *)
Drain ==
    /\ com = "idle" /\ queue # <<>>
    /\ vlogs_mutex_free
    /\ batch' = queue /\ queue' = <<>> /\ ptrs' = <<>>
    /\ com' = "append"
    /\ IF vlogs[current_vlog_id].offset > MAX_FILE_SIZE THEN SyncBegins("leader", "rotate") ELSE UNCHANGED sync
    /\ UNCHANGED <<logs, mem, tables, is_panic, puts, acked, synced, faults, counters>>

Appending == com = "append" /\ sync["leader"].pc = "idle" /\ Len(ptrs) < Len(batch)
request == batch[Len(ptrs) + 1]

(* A delete leaves nothing in the value log.                               *)
AppendDelete ==
    /\ Appending /\ request.del
    /\ ptrs' = Append(ptrs, Tombstone)
    /\ UNCHANGED <<logs, mem, tables, queue, com, batch, sync, is_panic, puts, acked, synced, faults, counters>>

RotateVLog ==
    /\ Appending /\ ~request.del
    /\ vlogs[current_vlog_id].offset >= MAX_FILE_SIZE
    /\ vlogs_mutex_free
    /\ SyncBegins("leader", "rotate")
    /\ UNCHANGED <<logs, mem, tables, queue, leader, is_panic, puts, acked, synced, faults, counters>>

(* VLog::append: the record goes to the buffer, behind what is there, and  *)
(* the buffer to the file when it is full.                                 *)
AppendValue ==
    /\ Appending /\ ~request.del
    /\ vlogs[current_vlog_id].offset < MAX_FILE_SIZE
    /\ vlogs' = [vlogs EXCEPT ![current_vlog_id].buffer = Append(@, request.n)]
    /\ ptrs' = Append(ptrs, <<current_vlog_id, vlogs[current_vlog_id].offset + Len(vlogs'[current_vlog_id].buffer)>>)
    /\ IF Len(vlogs'[current_vlog_id].buffer) >= BufferLimit THEN SyncBegins("leader", "append") ELSE UNCHANGED sync
    /\ faults' = faults \cup Raced("scan")
    /\ UNCHANGED <<wal, mem, tables, queue, com, batch, is_panic, puts, acked, synced, counters>>

needs_sync == \E i \in DOMAIN batch : batch[i].sync

(* Mutated SyncValues: the WAL first.                                      *)
SyncValuesLater ==
    /\ com = "append" /\ sync["leader"].pc = "idle" /\ Len(ptrs) = Len(batch)
    /\ com' = "wal"
    /\ UNCHANGED <<logs, mem, tables, queue, batch, ptrs, sync, is_panic, puts, acked, synced, faults, counters>>

(* One request that asks for it is enough to sync the whole batch.         *)
SyncValues ==
    /\ com = "append" /\ sync["leader"].pc = "idle" /\ Len(ptrs) = Len(batch)
    /\ IF needs_sync
       THEN com' = "sync" /\ SyncBegins("leader", "wal") /\ faults' = faults \cup Raced("scan")
       ELSE com' = "wal" /\ UNCHANGED <<sync, faults>>
    /\ UNCHANGED <<logs, mem, tables, queue, batch, ptrs, is_panic, puts, acked, synced, counters>>

-----------------------------------------------------------------------------
(* VLog::sync, of the leader or of a scan.  write_all goes to where the    *)
(* handle stands: the end of the file, unless a read moved it.             *)
Written(v, cells) ==
    LET end == Max({Len(v.file), v.pos + Len(cells)})
    IN  [v EXCEPT !.file = [i \in 1..end |-> IF i \in (v.pos + 1)..(v.pos + Len(cells))
                                             THEN cells[i - v.pos] ELSE @[i]],
                  !.pos = @ + Len(cells)]

(* The caller goes on.  A scan, a rotation and an append ignore a failure; *)
(* the leader's own sync fails the batch and stops the engine.             *)
SyncReturns(a, ok, v) ==
    LET then == sync[a].then
        files == [vlogs EXCEPT ![sync[a].file] = v]
    IN  /\ sync' = [sync EXCEPT ![a] = NoSync]
        /\ vlogs' = IF then = "rotate" THEN Append(files, NewVLog) ELSE files
        /\ com' = IF then # "wal" THEN com ELSE IF ok THEN "wal" ELSE "failed"
        /\ is_panic' = (is_panic \/ (then = "wal" /\ ~ok))
        /\ faults' = faults \cup (IF then = "rotate" /\ ~ok THEN {"ignored"} ELSE {})

(* The buffer goes behind a part of it that a failed write left there, and *)
(* its pointers do not know.                                               *)
Shifted(v) == v.buffer # <<>> /\ Len(v.file) # v.offset

SyncWrite(a) ==
    /\ sync[a].pc = "write"
    /\ vlogs' = [vlogs EXCEPT ![sync[a].file] = Written(@, @.buffer)]
    /\ sync' = [sync EXCEPT ![a].pc = IF vlogs[sync[a].file].buffer = <<>> THEN "fsync" ELSE "clear"]
    /\ faults' = faults \cup (IF Shifted(vlogs[sync[a].file]) THEN {"shifted"} ELSE {})
    /\ UNCHANGED <<wal, mem, tables, queue, leader, is_panic, puts, acked, synced, counters>>

(* Some cells were written, and the whole buffer is kept.                  *)
SyncWriteFails(a) ==
    /\ sync[a].pc = "write" /\ failures < MaxFailures
    /\ failures' = failures + 1
    /\ LET v == vlogs[sync[a].file]
       IN  \E n \in 0..(Len(v.buffer) - 1) :
              SyncReturns(a, FALSE, Written(v, SubSeq(v.buffer, 1, n)))
    /\ UNCHANGED <<wal, mem, tables, queue, batch, ptrs, puts, acked, synced, restarts>>

(* Mutated SyncClear: the offset is left behind.                           *)
SyncClearKeepsOffset(a) ==
    /\ sync[a].pc = "clear"
    /\ vlogs' = [vlogs EXCEPT ![sync[a].file].buffer = <<>>]
    /\ sync' = [sync EXCEPT ![a].pc = "fsync"]
    /\ UNCHANGED <<wal, mem, tables, queue, leader, is_panic, puts, acked, synced, faults, counters>>

SyncClear(a) ==
    /\ sync[a].pc = "clear"
    /\ vlogs' = [vlogs EXCEPT ![sync[a].file].offset = @ + Len(vlogs[sync[a].file].buffer),
                              ![sync[a].file].buffer = <<>>]
    /\ sync' = [sync EXCEPT ![a].pc = "fsync"]
    /\ UNCHANGED <<wal, mem, tables, queue, leader, is_panic, puts, acked, synced, faults, counters>>

SyncFsync(a) ==
    /\ sync[a].pc = "fsync"
    /\ SyncReturns(a, TRUE, [vlogs[sync[a].file] EXCEPT !.durable = Len(vlogs[sync[a].file].file)])
    /\ UNCHANGED <<wal, mem, tables, queue, batch, ptrs, puts, acked, synced, counters>>

SyncFsyncFails(a) ==
    /\ sync[a].pc = "fsync" /\ failures < MaxFailures
    /\ failures' = failures + 1
    /\ SyncReturns(a, FALSE, vlogs[sync[a].file])
    /\ UNCHANGED <<wal, mem, tables, queue, batch, ptrs, puts, acked, synced, restarts>>

(* sync_active_vlog, at the start of a scan.                               *)
ScanSync ==
    /\ vlogs_mutex_free
    /\ SyncBegins("scan", "none")
    /\ faults' = faults \cup Raced("leader")
    /\ UNCHANGED <<logs, mem, tables, queue, leader, is_panic, puts, acked, synced, counters>>

-----------------------------------------------------------------------------
(* The WAL records of the batch.                                           *)
Records == [i \in DOMAIN batch |-> [key |-> batch[i].key, n |-> batch[i].n, ptr |-> ptrs[i]]]

(* WAL::sync writes behind a record that a crash or a failure cut.         *)
Behind == IF Torn \in Range(wal.file) THEN {"behind"} ELSE {}

(* Mutated WalSynced: the buffer is kept for the next sync.                *)
WalStaysBuffered ==
    /\ com = "wal"
    /\ wal' = [wal EXCEPT !.buffer = @ \o Records]
    /\ com' = "memtable"
    /\ UNCHANGED <<vlogs, mem, tables, queue, batch, ptrs, sync, is_panic, puts, acked, synced, faults, counters>>

(* WAL::append of each record and WAL::sync, under wal_mutex_.             *)
WalSynced ==
    /\ com = "wal"
    /\ wal' = IF needs_sync
              THEN LET file == wal.file \o wal.buffer \o Records
                   IN  [file |-> file, durable |-> Len(file), buffer |-> <<>>]
              ELSE [wal EXCEPT !.buffer = @ \o Records]
    /\ com' = "memtable"
    /\ faults' = faults \cup (IF needs_sync THEN Behind ELSE {})
    /\ UNCHANGED <<vlogs, mem, tables, queue, batch, ptrs, sync, is_panic, puts, acked, synced, counters>>

(* What a write that is cut short can leave of some records.               *)
Cut(records) ==
    {SubSeq(records, 1, n) : n \in 0..Len(records)} \cup
    {SubSeq(records, 1, n) \o <<Torn>> : n \in 0..(Len(records) - 1)}

(* The write stops half way and the buffer is kept, or all is written and  *)
(* the fsync fails.                                                        *)
WalFails ==
    /\ com = "wal" /\ needs_sync /\ failures < MaxFailures
    /\ failures' = failures + 1
    /\ LET buffer == wal.buffer \o Records
       IN  \E part \in Cut(buffer) :
              wal' = [wal EXCEPT !.file = @ \o part, !.buffer = IF part = buffer THEN <<>> ELSE buffer]
    /\ is_panic' = TRUE /\ com' = "failed"
    /\ faults' = faults \cup Behind
    /\ UNCHANGED <<vlogs, mem, tables, queue, batch, ptrs, sync, puts, acked, synced, restarts>>

(* The batch is put into the memtable, and every request completes.        *)
Newest(k, requests) == Max({0} \cup {r.n : r \in {q \in Range(requests) : q.key = k}})

Applied(m, records) ==
    FoldLeft(LAMBDA t, r : [t EXCEPT ![r.key] = [n |-> r.n, ptr |-> r.ptr]], m, records)

Complete ==
    /\ com = "memtable"
    /\ mem' = Applied(mem, Records)
    /\ acked' = [k \in Keys |-> Max({acked[k], Newest(k, batch)})]
    /\ synced' = [k \in Keys |-> Max({synced[k], Newest(k, SelectSeq(batch, LAMBDA r : r.sync))})]
    /\ com' = "idle" /\ batch' = <<>> /\ ptrs' = <<>>
    /\ UNCHANGED <<logs, tables, queue, sync, is_panic, puts, faults, counters>>

(* The batch failed: its requests complete with the error.                 *)
CompleteFailed ==
    /\ com = "failed"
    /\ com' = "idle" /\ batch' = <<>> /\ ptrs' = <<>>
    /\ UNCHANGED <<logs, mem, tables, queue, sync, is_panic, puts, acked, synced, faults, counters>>
-----------------------------------------------------------------------------
Puts(m) == {e \in Range(m) : e.ptr # Tombstone}
Durable(e) == e.ptr = Tombstone \/ e.ptr[2] <= vlogs[e.ptr[1]].durable

(* Mutated Flush: the new table replaces the others.                       *)
FlushReplaces ==
    /\ com = "idle" /\ mem # Empty
    /\ tables' = mem
    /\ mem' = Empty
    /\ wal' = NewWal
    /\ UNCHANGED <<vlogs, queue, leader, sync, is_panic, puts, acked, synced, faults, counters>>

(* maybe_flush, rotate_wal and flush_immutable: a table with the pointers  *)
(* of the memtable, and a new WAL.  The old one goes, with its buffer; the *)
(* value log is not synced.                                                *)
Flush ==
    /\ com = "idle" /\ mem # Empty
    /\ tables' = [k \in Keys |-> IF mem[k] = None THEN tables[k] ELSE mem[k]]
    /\ mem' = Empty
    /\ wal' = NewWal
    /\ UNCHANGED <<vlogs, queue, leader, sync, is_panic, puts, acked, synced, faults, counters>>

Visible(k) == IF mem[k] # None THEN mem[k] ELSE tables[k]

(* get of a value that is in the file: read_at uses the handle that is     *)
(* written to.                                                             *)
Get(k) ==
    LET ptr == Visible(k).ptr
    IN  /\ ptr # Tombstone /\ ptr[2] <= Len(vlogs[ptr[1]].file)
        /\ vlogs' = IF ReadMovesPosition THEN [vlogs EXCEPT ![ptr[1]].pos = ptr[2]] ELSE vlogs
        /\ UNCHANGED <<wal, mem, tables, queue, leader, sync, is_panic, puts, acked, synced, faults, counters>>

-----------------------------------------------------------------------------
(* WAL::replay: up to the first record that is damaged.                    *)
Replayed(records) ==
    LET torn == {i \in DOMAIN records : records[i] = Torn}
    IN  IF torn = {} THEN records ELSE SubSeq(records, 1, Min(torn) - 1)

(* The constructor of VLog, with the file that is found.                   *)
Opened(file, durable) ==
    [NewVLog EXCEPT !.file = file, !.durable = durable, !.pos = Len(file), !.offset = Len(file)]

(* recover: open the value logs and sync the last one, replay the WAL, and *)
(* go on writing to it.                                                    *)
Recover(files, durable, records) ==
    /\ vlogs' = [i \in DOMAIN vlogs |->
                    Opened(files[i], IF i = current_vlog_id THEN Len(files[i]) ELSE durable[i])]
    /\ wal' = [file |-> records, durable |-> Min({wal.durable, Len(records)}), buffer |-> <<>>]
    /\ mem' = Applied(Empty, Replayed(records))
    /\ queue' = <<>> /\ com' = "idle" /\ batch' = <<>> /\ ptrs' = <<>>
    /\ sync' = [a \in DOMAIN sync |-> NoSync]
    /\ is_panic' = FALSE
    /\ restarts < MaxRestarts /\ restarts' = restarts + 1
    /\ UNCHANGED <<tables, puts, synced, failures>>

(* The process or the machine stops: of what was not fsynced, and of the   *)
(* WAL write in progress, any first part is there.                         *)
Crash ==
    /\ \E cut \in {c \in [DOMAIN vlogs -> 0..Max({Len(vlogs[i].file) : i \in DOMAIN vlogs})] :
                      \A i \in DOMAIN vlogs : c[i] \in vlogs[i].durable..Len(vlogs[i].file)} :
       \E part \in Cut(SubSeq(wal.file, wal.durable + 1, Len(wal.file)) \o
                       IF com = "wal" /\ needs_sync THEN wal.buffer \o Records ELSE <<>>) :
          /\ Recover([i \in DOMAIN vlogs |-> SubSeq(vlogs[i].file, 1, cut[i])],
                     [i \in DOMAIN vlogs |-> vlogs[i].durable],
                     SubSeq(wal.file, 1, wal.durable) \o part)
          /\ faults' = faults \cup (IF \E e \in Puts(tables) : e.ptr[2] > cut[e.ptr[1]] THEN {"lost"} ELSE {})
    /\ acked' = [k \in Keys |-> Min({acked[k], IF mem'[k] # None THEN mem'[k].n ELSE tables[k].n})]

(* ~KVStore with no call in progress, and a new start: the value logs are  *)
(* synced, the buffer of the WAL is not.                                   *)
Close ==
    /\ com = "idle" /\ queue = <<>> /\ sync["scan"].pc = "idle"
    /\ LET files == [i \in DOMAIN vlogs |-> Written(vlogs[i], vlogs[i].buffer).file]
       IN  Recover(files, [i \in DOMAIN vlogs |-> Len(files[i])], wal.file)
    /\ faults' = faults \cup (IF wal.buffer # <<>> THEN {"dropped"} ELSE {})
                        \cup (IF \E i \in DOMAIN vlogs : Shifted(vlogs[i]) THEN {"shifted"} ELSE {})
    /\ UNCHANGED acked

Next ==
    \/ \E k \in Keys, del, s \in BOOLEAN : Request(k, del, s)
    \/ Drain \/ AppendDelete \/ RotateVLog \/ AppendValue \/ SyncValues
    \/ \E a \in DOMAIN sync :
          \/ SyncWrite(a) \/ SyncWriteFails(a) \/ SyncClear(a) \/ SyncFsync(a) \/ SyncFsyncFails(a)
    \/ ScanSync
    \/ WalSynced \/ WalFails \/ Complete \/ CompleteFailed
    \/ Flush \/ Crash \/ Close
    \/ \E k \in Keys : Get(k)

Spec == Init /\ [][Next]_vars
-----------------------------------------------------------------------------
(* What goes wrong unnoticed.  behind: WAL records are written behind a    *)
(* damaged one.  shifted: values are written behind a part of themselves.  *)
(* overlap: two threads use buffer_.  ignored: the failed sync of a value  *)
(* log that is left.  lost: a crash takes values that a table points to.   *)
(* dropped: a close leaves records in the buffer of the WAL.               *)
Faults == {"behind", "shifted", "overlap", "ignored", "lost", "dropped"}

(* Every variable has its type, and every pointer names a value log.       *)
TypeOK ==
    /\ \A i \in DOMAIN vlogs : vlogs[i].durable \in 0..Len(vlogs[i].file) /\ vlogs[i].pos \in 0..Len(vlogs[i].file)
    /\ wal.durable \in 0..Len(wal.file)
    /\ \A m \in {mem, tables}, k \in Keys : m[k].n \in 0..puts /\ m[k].ptr[1] \in 0..current_vlog_id
    /\ \A i \in DOMAIN ptrs : ptrs[i][1] \in 0..current_vlog_id
    /\ com \in {"idle", "append", "sync", "wal", "memtable", "failed"}
    /\ \A a \in DOMAIN sync : sync[a].pc \in {"idle", "write", "clear", "fsync"}
    /\ puts \in 0..MaxPuts /\ Len(queue) <= MaxQueue /\ Len(ptrs) <= Len(batch)
    /\ is_panic \in BOOLEAN /\ faults \subseteq Faults
    /\ failures \in 0..MaxFailures /\ restarts \in 0..MaxRestarts

(* None of some faults has occurred, except those that are tolerated.      *)
Without(some) == faults \cap some \subseteq Tolerated

(* Two threads that used buffer_ at once leave it undefined: the runs look *)
(* no further, and every property exempts what follows.                    *)
Defined == Without({"overlap"})

(* The record a pointer leads to, in the file or where the buffer will be. *)
At(ptr) ==
    LET v == vlogs[ptr[1]]
    IN  IF ptr[2] <= Len(v.file) THEN v.file[ptr[2]]
        ELSE IF ptr[2] - v.offset \in DOMAIN v.buffer THEN v.buffer[ptr[2] - v.offset] ELSE 0

(* Every pointer of the memtable and of the tables leads to the value that *)
(* was put with it, although append computes it before anything is in the  *)
(* file: through full buffers, rotations, scans that sync, writes that     *)
(* fail, crashes and restarts.  Exempt are states in which the buffer was  *)
(* written behind a part of it that a failed write had left in the file,   *)
(* and those after a crash that took a value which a table points to.      *)
PointersResolve ==
    Defined /\ Without({"shifted", "lost"}) => \A e \in Puts(mem) \cup Puts(tables) : At(e.ptr) = e.n

(* A pointer gets into the WAL file only when its value is on the disk, as *)
(* long as the sync of every value log that is left for a new one works.   *)
WalBehindValues ==
    Defined /\ Without({"ignored"}) => \A r \in Range(wal.file) : r = Torn \/ Durable(r)

(* A put with WriteOptions::sync that returned outlives crashes and        *)
(* closes, those that leave a damaged record in the WAL included: its key  *)
(* has it or a newer one, until records are written behind a damaged one.  *)
(* Its value is on the disk, unless a value log was left without a sync.   *)
SyncedKept ==
    Defined /\ Without({"behind"}) =>
        \A k \in Keys : /\ Visible(k).n >= synced[k]
                        /\ Without({"ignored"}) /\ Visible(k).n = synced[k] => Durable(Visible(k))

(* Between crashes a put that returned stays, synced or not, and nothing   *)
(* older takes its place after a flush or a close.  A crash may take it,   *)
(* and what the restart finds then counts as what returned.  Exempt are    *)
(* states after a close that dropped records in the buffer of the WAL, and *)
(* after records were written behind a damaged one.                        *)
AckedKept == Defined /\ Without({"dropped", "behind"}) => \A k \in Keys : Visible(k).n >= acked[k]
=============================================================================
