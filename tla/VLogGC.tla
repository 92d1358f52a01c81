------------------------------- MODULE VLogGC -------------------------------
(***************************************************************************)
(* The value log and its collectors.  run_vlog_gc scans the oldest file,   *)
(* rewrites what is live through the write queue and removes the file,     *)
(* while clients put, delete, rotate the memtable and read, and while      *)
(* another thread of compaction_pool_ may be collecting the same file.     *)
(*                                                                         *)
(* The tables and frozen memtables are one map, below: their order and     *)
(* their flush are in WritePath and LsmTree.  Sizes are left out: a file   *)
(* of which some records are live may be above or below the 50% limit.     *)
(***************************************************************************)
EXTENDS Integers, FiniteSets, SequencesExt

CONSTANTS
    Keys,
    Collectors,    \* the threads of compaction_pool_
    Client,        \* whoever else writes
    Batching,      \* whether requests can share a batch
    Deletes,       \* whether clients delete
    Unsynced,      \* whether clients write without WriteOptions::sync
    TornWrites,    \* whether a crash can tear the record being written
    MaxWrites,     \* bound: client requests
    MaxFiles,      \* bound: value log files
    MaxRotations,  \* bound: memtable rotations
    MaxCrashes     \* bound: crashes

ASSUME VLogGCAssumption ==
    /\ Client \notin Collectors
    /\ {Batching, Deletes, Unsynced, TornWrites} \subseteq BOOLEAN
    /\ {MaxWrites, MaxFiles, MaxRotations, MaxCrashes} \subseteq Nat

VARIABLES
    writes,           \* client requests so far
    latest,           \* history: newest put acknowledged for each key, 0 if deleted
    settled,          \* history: the same, of what was synced or frozen
    raced,            \* history: keys on which a client raced with a collector
    lost,             \* history: keys of which a crash took the value and left the pointer
    vlogs,            \* the files: id |-> records [key, value], those in buffer_ included
    current_vlog_id,
    durable,          \* records of the current file that are on the disk
    current_wal_id,
    active,           \* the active memtable: key |-> pointer
    below,            \* everything older
    logged,           \* the memtable that the WAL with its buffer would rebuild
    saved,            \* the memtable that the WAL on the disk would rebuild
    gc_tasks,         \* run_vlog_gc tasks queued on compaction_pool_
    gc,               \* where each thread is in run_vlog_gc
    gc_target_id,     \* each thread's
    offset,           \* each thread's next record to scan
    live_records,     \* what each found live and has not yet rewritten
    get,              \* the read in progress
    crashes           \* bound: crashes so far

history == <<writes, latest, settled, raced, lost>>
collector == <<gc_tasks, gc, gc_target_id, offset, live_records>>
log == <<vlogs, current_vlog_id, durable>>
memtables == <<active, below, logged, saved, current_wal_id>>
vars == <<history, log, memtables, collector, get, crashes>>

Nowhere == [file |-> 0, pos |-> 0]
IsTombstone(p) == p.file # 0 /\ p.pos = 0
Tombstone == [file |-> current_wal_id, pos |-> 0]
Torn == [key |-> "torn", value |-> 0]
NoPointers == [k \in Keys |-> Nowhere]

(* What a get ends with: a key's value, or one of these.                   *)
Nothing == "nothing"
Foreign == "foreign"
NoGet == [pc |-> "idle", key |-> "none", ptr |-> Nowhere, result |-> Nothing]

Over(upper, lower) == [k \in Keys |-> IF upper[k] = Nowhere THEN lower[k] ELSE upper[k]]

get_pointer(k) == Over(active, below)[k]

Each(x) == [c \in Collectors |-> x]

Init ==
    /\ writes = 0 /\ latest = [k \in Keys |-> 0] /\ settled = latest
    /\ raced = {} /\ lost = {}
    /\ vlogs = [i \in {1} |-> <<>>] /\ current_vlog_id = 1 /\ durable = 0
    /\ active = NoPointers /\ below = NoPointers /\ current_wal_id = 1
    /\ logged = NoPointers /\ saved = NoPointers
    /\ gc_tasks = 0 /\ gc = Each("idle") /\ gc_target_id = Each(0)
    /\ offset = Each(1) /\ live_records = Each(<<>>)
    /\ get = NoGet
    /\ crashes = 0

-----------------------------------------------------------------------------
(* The batch, under commit_mutex_: at most one client request and one of   *)
(* each collector that has something to rewrite.                           *)
Request(from, old, del, k, v) == [from |-> from, old |-> old, del |-> del, key |-> k, value |-> v]

is_gc(r) == r.from # Client

GcRequest(c) ==
    Request(c, gc_target_id[c], FALSE, Head(live_records[c]).key, Head(live_records[c]).value)

ClientRequests ==
    {Request(Client, 0, d, k, IF d THEN 0 ELSE writes + 1) :
        d \in (IF Deletes THEN BOOLEAN ELSE {FALSE}), k \in Keys}

GcWaits == {c \in Collectors : gc[c] = "rewrite" /\ live_records[c] # <<>>}

(* Mutated overwritten: the check is left out.                             *)
overwritten_unchecked(r) == FALSE

(* The active memtable has a pointer to a newer file.                      *)
overwritten(r) == is_gc(r) /\ active[r.key].file > r.old

(* Each request that is not ignored appends its value to the current file; *)
(* the pointers are inserted after all of them.                            *)
Kept(batch) == SelectSeq(batch, LAMBDA r : ~overwritten(r))
Appended(batch) == SelectSeq(Kept(batch), LAMBDA r : ~r.del)

(* Where the n-th record goes.  A file that fills in the middle of the     *)
(* batch is split from the next one after the first record.                *)
Place(n, split) ==
    IF split /\ n > 1 THEN [file |-> current_vlog_id + 1, pos |-> n - 1]
    ELSE [file |-> current_vlog_id, pos |-> Len(vlogs[current_vlog_id]) + n]

PointerOf(batch, split, i) ==
    LET kept == Kept(batch)
        before == SelectSeq(SubSeq(kept, 1, i), LAMBDA r : ~r.del)
    IN  IF kept[i].del THEN Tombstone ELSE Place(Len(before), split)

Inserted(map, batch, split, walOnly) ==
    LET kept == Kept(batch)
        of(k) == {i \in DOMAIN kept : kept[i].key = k /\ (walOnly => ~is_gc(kept[i]))}
    IN  [k \in Keys |-> IF of(k) = {} THEN map[k] ELSE PointerOf(batch, split, Max(of(k)))]

(* The files after the batch.                                              *)
Extended(batch, split) ==
    LET records == [i \in DOMAIN Appended(batch) |->
                       [key |-> Appended(batch)[i].key, value |-> Appended(batch)[i].value]]
        next == current_vlog_id + 1
    IN  IF split
        THEN [i \in DOMAIN vlogs \cup {next} |->
                 IF i = next THEN Tail(records)
                 ELSE IF i = current_vlog_id THEN Append(vlogs[i], Head(records)) ELSE vlogs[i]]
        ELSE [vlogs EXCEPT ![current_vlog_id] = @ \o records]

(* One request with sync is enough to sync the file and the WAL; without,  *)
(* all stays in their buffers.  A file that is left is synced first.       *)
Commit(batch, needs_sync) ==
    /\ \E split \in BOOLEAN :
          /\ split => Len(Appended(batch)) > 1 /\ current_vlog_id < MaxFiles
          /\ vlogs' = Extended(batch, split)
          /\ current_vlog_id' = current_vlog_id + (IF split THEN 1 ELSE 0)
          /\ active' = Inserted(active, batch, split, FALSE)
          /\ logged' = Inserted(logged, batch, split, TRUE)
          /\ durable' = IF needs_sync THEN Len(vlogs'[current_vlog_id']) ELSE IF split THEN 0 ELSE durable
    /\ saved' = IF needs_sync THEN logged' ELSE saved
    /\ settled' = IF needs_sync THEN latest' ELSE settled
    /\ UNCHANGED <<current_wal_id, below, lost, get, crashes>>

(* Keys that a collector has found live and not rewritten.  A client races *)
(* with it when it deletes such a key, overwrites it ahead of the rewrite  *)
(* in the same batch, or when what it wrote there is frozen.               *)
ToRewrite == {rec.key : rec \in UNION {Range(live_records[c]) : c \in Collectors}}

OvertakenIn(batch) ==
    {batch[i].key : i \in {n \in DOMAIN batch : /\ ~is_gc(batch[n])
                                              /\ \E j \in DOMAIN batch : j > n /\ batch[j].key = batch[n].key}}

DeletedIn(batch) == {r.key : r \in {q \in Range(batch) : q.del}}

ClientDone(batch) ==
    /\ writes < MaxWrites
    /\ writes' = writes + 1
    /\ \E r \in Range(batch) : ~is_gc(r) /\ latest' = [latest EXCEPT ![r.key] = r.value]
    /\ raced' = raced \cup OvertakenIn(batch) \cup (DeletedIn(batch) \cap ToRewrite)

GcDone(cs) ==
    /\ live_records' = [c \in Collectors |->
                           IF c \in cs THEN Tail(live_records[c]) ELSE live_records[c]]
    /\ UNCHANGED <<gc_tasks, gc, gc_target_id, offset>>

Write ==
    \E r \in ClientRequests, needs_sync \in {TRUE, ~Unsynced} :
        /\ ClientDone(<<r>>)
        /\ Commit(<<r>>, needs_sync)
        /\ UNCHANGED collector

GcWrite ==
    \E c \in GcWaits :
        /\ UNCHANGED <<writes, latest, raced>>
        /\ Commit(<<GcRequest(c)>>, TRUE)
        /\ GcDone({c})

WriteTogether ==
    /\ Batching
    /\ \E cs \in (SUBSET GcWaits) \ {{}} : \E r \in ClientRequests :
          \E batch \in SetToSeqs({r} \cup {GcRequest(c) : c \in cs}) :
             /\ ClientDone(batch)
             /\ Commit(batch, TRUE)
             /\ GcDone(cs)

(* Two collectors and no client.                                           *)
GcWriteTogether ==
    /\ Batching
    /\ UNCHANGED <<writes, latest, raced>>
    /\ \E cs \in SUBSET GcWaits :
          /\ Cardinality(cs) > 1
          /\ \E batch \in SetToSeqs({GcRequest(c) : c \in cs}) : Commit(batch, TRUE)
          /\ GcDone(cs)

(* A batch that finds the current file full syncs it, starts a new one,    *)
(* and queues a collection unless it finds out only at its first record.   *)
NewVlog ==
    /\ vlogs[current_vlog_id] # <<>>
    /\ current_vlog_id < MaxFiles
    /\ current_vlog_id' = current_vlog_id + 1
    /\ vlogs' = [i \in DOMAIN vlogs \cup {current_vlog_id'} |->
                    IF i \in DOMAIN vlogs THEN vlogs[i] ELSE <<>>]
    /\ durable' = 0
    /\ gc_tasks' \in {gc_tasks, gc_tasks + 1}
    /\ UNCHANGED <<history, memtables, gc, gc_target_id, offset, live_records, get, crashes>>

Holds(p, v) == p.file \in DOMAIN vlogs /\ p.pos \in DOMAIN vlogs[p.file] /\ vlogs[p.file][p.pos].value = v

(* The memtable is frozen and flushed, and its WAL is gone.  The value log *)
(* is not synced.                                                          *)
Freeze ==
    /\ active # NoPointers
    /\ current_wal_id <= MaxRotations
    /\ below' = Over(active, below)
    /\ active' = NoPointers /\ logged' = NoPointers /\ saved' = NoPointers
    /\ current_wal_id' = current_wal_id + 1
    /\ raced' = raced \cup {k \in Keys : \E c \in Collectors : \E rec \in Range(live_records[c]) :
                                 rec.key = k /\ active[k].file > gc_target_id[c] /\ ~Holds(active[k], rec.value)}
    /\ settled' = latest
    /\ UNCHANGED <<writes, latest, lost, log, collector, get, crashes>>

-----------------------------------------------------------------------------
(* run_vlog_gc, on a thread of compaction_pool_: take the oldest file,     *)
(* whether or not another thread is at it.                                 *)
GcBegin(c) ==
    /\ gc[c] = "idle" /\ gc_tasks > 0
    /\ gc_tasks' = gc_tasks - 1
    /\ LET older == {i \in DOMAIN vlogs : i < current_vlog_id}
       IN  IF older = {} THEN UNCHANGED <<gc, gc_target_id>>
           ELSE /\ gc' = [gc EXCEPT ![c] = "scan"]
                /\ gc_target_id' = [gc_target_id EXCEPT ![c] = Min(older)]
    /\ UNCHANGED <<history, log, memtables, offset, live_records, get, crashes>>

(* read_next fails at the end, and once another thread has closed the file.*)
AtEnd(c) == gc_target_id[c] \in DOMAIN vlogs => offset[c] > Len(vlogs[gc_target_id[c]])

ScanTo(c, next, found) ==
    /\ offset' = [offset EXCEPT ![c] = next]
    /\ live_records' = [live_records EXCEPT ![c] = @ \o found]
    /\ UNCHANGED <<history, log, memtables, gc_tasks, gc, gc_target_id, get, crashes>>

(* Mutated GcScan: a record counts as live only if it is in a table.       *)
GcScanTablesOnly(c) ==
    /\ gc[c] = "scan" /\ ~AtEnd(c)
    /\ LET r == vlogs[gc_target_id[c]][offset[c]]
           live == r # Torn /\ below[r.key] = [file |-> gc_target_id[c], pos |-> offset[c]]
       IN  ScanTo(c, offset[c] + 1, IF live THEN <<r>> ELSE <<>>)

(* One record: it is live if its key's pointer leads to it.  The length in *)
(* a torn record takes the scan past the start of the next one, and it     *)
(* goes on, or ends, anywhere behind.                                      *)
GcScan(c) ==
    /\ gc[c] = "scan" /\ ~AtEnd(c)
    /\ LET r == vlogs[gc_target_id[c]][offset[c]]
           end == Len(vlogs[gc_target_id[c]]) + 1
           live == get_pointer(r.key) = [file |-> gc_target_id[c], pos |-> offset[c]]
       IN  IF r = Torn
           THEN \E next \in ((offset[c] + 2)..end) \cup {end} : ScanTo(c, next, <<>>)
           ELSE ScanTo(c, offset[c] + 1, IF live THEN <<r>> ELSE <<>>)

GcReset(c) ==
    /\ gc' = [gc EXCEPT ![c] = "idle"]
    /\ gc_target_id' = [gc_target_id EXCEPT ![c] = 0]
    /\ offset' = [offset EXCEPT ![c] = 1]
    /\ live_records' = [live_records EXCEPT ![c] = <<>>]

(* More than half of what was read is live: give up.                       *)
GcSkip(c) ==
    /\ gc[c] = "scan" /\ AtEnd(c)
    /\ live_records[c] # <<>>
    /\ GcReset(c)
    /\ UNCHANGED <<history, log, memtables, gc_tasks, get, crashes>>

GcCommit(c) ==
    /\ gc[c] = "scan" /\ AtEnd(c)
    /\ live_records[c] = <<>> \/ Len(live_records[c]) < offset[c] - 1
    /\ gc' = [gc EXCEPT ![c] = "rewrite"]
    /\ UNCHANGED <<history, log, memtables, gc_tasks, gc_target_id, offset, live_records, get, crashes>>

(* Everything is rewritten or reported: close and remove the file, unless  *)
(* another thread has done so.                                             *)
GcRemove(c) ==
    /\ gc[c] = "rewrite" /\ live_records[c] = <<>>
    /\ vlogs' = [i \in DOMAIN vlogs \ {gc_target_id[c]} |-> vlogs[i]]
    /\ GcReset(c)
    /\ UNCHANGED <<history, current_vlog_id, durable, memtables, gc_tasks, get, crashes>>

-----------------------------------------------------------------------------
(* KVStore::get: find the pointer, look up the file under vlogs_mutex_,    *)
(* and read from its handle without it.                                    *)
GetPointer ==
    /\ get.pc = "idle"
    /\ \E k \in Keys :
          /\ get_pointer(k) # Nowhere /\ ~IsTombstone(get_pointer(k))
          /\ get' = [pc |-> "pointer", key |-> k, ptr |-> get_pointer(k), result |-> Nothing]
    /\ UNCHANGED <<history, log, memtables, collector, crashes>>

GetEnds(result) == get' = [pc |-> "returned", key |-> get.key, ptr |-> Nowhere, result |-> result]

GetFile ==
    /\ get.pc = "pointer"
    /\ IF get.ptr.file \in DOMAIN vlogs THEN get' = [get EXCEPT !.pc = "file"] ELSE GetEnds(Nothing)
    /\ UNCHANGED <<history, log, memtables, collector, crashes>>

Written(i) == IF i = current_vlog_id THEN durable ELSE Len(vlogs[i])

(* Mutated GetRead: the current file is read, as if there were no other.   *)
GetReadCurrent ==
    /\ get.pc = "file"
    /\ IF get.ptr.pos > durable THEN GetEnds(Nothing)
       ELSE GetEnds(vlogs[current_vlog_id][get.ptr.pos].key)
    /\ UNCHANGED <<history, log, memtables, collector, crashes>>

(* read_at.  It finds nothing that is still in buffer_.  If the file was   *)
(* closed meanwhile, it finds that out, or uses a handle whose number may  *)
(* by now be that of another file.                                         *)
GetRead ==
    /\ get.pc = "file"
    /\ LET p == get.ptr
       IN  IF p.file \notin DOMAIN vlogs THEN GetEnds(Nothing) \/ GetEnds(Foreign)
           ELSE IF p.pos > Written(p.file) THEN GetEnds(Nothing)
           ELSE GetEnds(vlogs[p.file][p.pos].key)
    /\ UNCHANGED <<history, log, memtables, collector, crashes>>

GetReturn ==
    /\ get.pc = "returned"
    /\ get' = NoGet
    /\ UNCHANGED <<history, log, memtables, collector, crashes>>

(* The process dies, as it does when a batch of the collector's cannot be  *)
(* synced: execute_write_request throws and no task catches it.  A record  *)
(* of the batch that nobody points to, or a part of one, may be left in    *)
(* the file.                                                               *)
Leftovers ==
    {<<>>} \cup {<<[key |-> k, value |-> 0]>> : k \in Keys}
           \cup (IF TornWrites THEN {<<Torn>>} ELSE {})

(* recover marks tombstones with the first WAL number.                     *)
Replayed(p) == IF IsTombstone(p) THEN [file |-> 1, pos |-> 0] ELSE p

(* Of what was not synced, any first part is on the disk.  The memtable is *)
(* rebuilt from the WAL and the newest file is synced and appended to; the *)
(* collectors do not resume.                                               *)
Crash ==
    /\ crashes < MaxCrashes
    /\ crashes' = crashes + 1
    /\ active' = [k \in Keys |-> Replayed(saved[k])] /\ logged' = saved
    /\ \E n \in durable..Len(vlogs[current_vlog_id]), tail \in Leftovers :
          /\ vlogs' = [vlogs EXCEPT ![current_vlog_id] = SubSeq(@, 1, n) \o tail]
          /\ durable' = n + Len(tail)
          /\ lost' = lost \cup {k \in Keys : LET p == Over(active', below)[k]
                                           IN  p.file = current_vlog_id /\ p.pos > n}
    /\ gc_tasks' = 0 /\ gc' = Each("idle") /\ gc_target_id' = Each(0)
    /\ offset' = Each(1) /\ live_records' = Each(<<>>)
    /\ get' = NoGet
    /\ current_vlog_id' = Max(DOMAIN vlogs)
    /\ latest' = settled
    /\ UNCHANGED <<writes, settled, raced, below, saved, current_wal_id>>

Next ==
    \/ Write \/ GcWrite \/ WriteTogether \/ GcWriteTogether \/ NewVlog \/ Freeze
    \/ \E c \in Collectors : GcBegin(c) \/ GcScan(c) \/ GcSkip(c) \/ GcCommit(c) \/ GcRemove(c)
    \/ GetPointer \/ GetFile \/ GetRead \/ GetReturn \/ Crash

Spec == Init /\ [][Next]_vars

-----------------------------------------------------------------------------
IsPointer(p) == p.file \in Nat /\ p.pos \in Nat

(* Every variable has its type; the file in use exists and is never one    *)
(* that is being collected.                                                *)
TypeOK ==
    /\ writes \in 0..MaxWrites /\ latest \in [Keys -> 0..MaxWrites] /\ settled \in [Keys -> 0..MaxWrites]
    /\ raced \cup lost \subseteq Keys
    /\ current_vlog_id \in DOMAIN vlogs /\ durable \in 0..Len(vlogs[current_vlog_id])
    /\ \A i \in DOMAIN vlogs : \A r \in Range(vlogs[i]) :
          r = Torn \/ (r.key \in Keys /\ r.value \in 0..MaxWrites)
    /\ \A k \in Keys : \A m \in {active, below, logged, saved} : IsPointer(m[k])
    /\ gc \in [Collectors -> {"idle", "scan", "rewrite"}] /\ gc_tasks \in 0..MaxFiles
    /\ \A c \in Collectors : gc[c] # "idle" => gc_target_id[c] \in 1..(current_vlog_id - 1)
    /\ get.pc \in {"idle", "pointer", "file", "returned"}

(* Every pointer a read would follow leads to a value of its key.          *)
Resolved ==
    \A k \in Keys :
        LET p == get_pointer(k)
        IN  p = Nowhere \/ IsTombstone(p) \/
            (/\ p.file \in DOMAIN vlogs
             /\ p.pos \in DOMAIN vlogs[p.file]
             /\ vlogs[p.file][p.pos].key = k)

(* What a collector removes nobody needs any more, though another thread   *)
(* may be collecting or moving the same records, until a crash, which      *)
(* loses the pointers it moved.                                            *)
PointersResolve == crashes = 0 => Resolved

LeadsTo(p, k) ==
    p.pos > 0 /\ p.file \in DOMAIN vlogs =>
        p.pos \in DOMAIN vlogs[p.file] /\ vlogs[p.file][p.pos].key = k

(* Every pointer leads to a record of its key, if its file exists.         *)
OwnRecords == \A k \in Keys : LeadsTo(get_pointer(k), k)

(* A get that found a file and used its handle still had the file.         *)
HandlesStay == get.result # Foreign

(* A get returns a value of its key or nothing, although collectors move   *)
(* the value or remove the file at any point of it, files split, and a     *)
(* crash leaves records nobody points to: numbers of removed files are not *)
(* used again.  Exempt are a get whose handle was closed before its read,  *)
(* and keys whose value a crash took while a table kept the pointer.       *)
ReadsOwnKey ==
    get.pc = "returned" /\ get.key \notin lost => get.result \in {get.key, Nothing, Foreign}

(* The newest put of a key is what a read finds, nothing after a delete.   *)
Newest(k) ==
    LET p == get_pointer(k)
    IN  IF p = Nowhere \/ IsTombstone(p) THEN latest[k] = 0
        ELSE p.file \in DOMAIN vlogs => Holds(p, latest[k])

(* Collectors move values and never change them.                           *)
NewestWins == \A k \in Keys : Newest(k)

(* A collector brings back an old value only on a key on which a client    *)
(* raced with it in one of three ways: whatever else clients do between    *)
(* its scan and its rewrite, and whenever the process dies, it does not.   *)
(* A put that was not synced may go with a crash; keys whose value a crash *)
(* took while a table kept the pointer are exempt.                         *)
NewestWinsUnlessRaced == \A k \in Keys \ (raced \cup lost) : Newest(k)

(* A get that found a pointer finds the value it leads to.                 *)
GetFindsValue == get.pc = "returned" => get.result = get.key
=============================================================================
