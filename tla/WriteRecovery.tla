--------------------------- MODULE WriteRecovery ---------------------------
(***************************************************************************)
(* WritePath with crashes.  Published tables and synced WAL records        *)
(* survive; the memtables and the queued tasks do not.                     *)
(***************************************************************************)
EXTENDS WritePath

CONSTANTS
    TornWrites,  \* whether a crash can tear the last WAL record
    MaxCrashes,  \* bound: crashes
    Torn         \* a WAL record that does not pass its CRC

ASSUME WriteRecoveryAssumption ==
    TornWrites \in BOOLEAN /\ MaxCrashes \in Nat /\ Torn \notin Keys \X Nat

(* A crash.  An append in progress may have written any prefix of the      *)
(* batch, the last record of it torn.  Queued tasks are lost.              *)
WalAfterCrash ==
    {wals} \cup
    {[wals EXCEPT ![current_wal_id] = @ \o tail] :
        tail \in IF com # "wal" THEN {}
                 ELSE {SubSeq(batch, 1, n) : n \in 1..Len(batch)} \cup
                      (IF TornWrites THEN {SubSeq(batch, 1, n) \o <<Torn>> : n \in 0..(Len(batch) - 1)}
                       ELSE {})}

(* WAL::replay: the records before the first one that is damaged.          *)
Replayed(records) ==
    LET torn == {i \in DOMAIN records : records[i] = Torn}
    IN  IF torn = {} THEN records ELSE SubSeq(records, 1, Min(torn) - 1)

(* The last record of a key in the file that is replayed last of those     *)
(* that hold one.                                                          *)
Holding(files, k) == {i \in DOMAIN files : \E record \in Range(Replayed(files[i])) : record[1] = k}
LastIn(records, k) == records[Max({n \in DOMAIN records : records[n][1] = k})][2]

(* Mutated Recovered: the files are replayed newest first.                 *)
RecoveredNewestFirst(files) ==
    [k \in Keys |-> IF Holding(files, k) = {} THEN 0
                    ELSE LastIn(Replayed(files[Min(Holding(files, k))]), k)]

(* Every file, oldest first, into one memtable: newer records replace      *)
(* older ones.                                                             *)
Recovered(files) ==
    [k \in Keys |-> IF Holding(files, k) = {} THEN 0
                    ELSE LastIn(Replayed(files[Max(Holding(files, k))]), k)]

(* The process dies at any point, and recover rebuilds the memtable and    *)
(* reopens the newest WAL for appending.                                   *)
Crash ==
    /\ crashes < MaxCrashes
    /\ crashes' = crashes + 1
    /\ \E files \in WalAfterCrash :
          /\ wals' = files
          /\ mem' = <<Recovered(files)>>
    /\ trash' = {}
    /\ immutables' = [s \in 0..(Slots - 1) |-> 0] /\ imm_idx' = 0
    /\ rot' = "none" /\ com' = "idle" /\ batch' = <<>> /\ com_mem' = 0 /\ inserted' = 0
    /\ flush_queue' = <<>> /\ flush' = "idle" /\ table' = Empty
    /\ read' = [r \in Readers |-> NoRead]
    /\ UNCHANGED <<puts, acked, l0, overlapped>>

RNext == Crash \/ Next

RSpec == Init /\ [][RNext]_vars

FairRSpec == RSpec /\ Fairness

-----------------------------------------------------------------------------
(* What the WAL files that stay would bring back covers the memtable.      *)
Covered ==
    LET kept == [i \in DOMAIN wals \ trash |-> wals[i]]
    IN  \A k \in Keys : Recovered(kept)[k] >= mem[active][k]

(* Whatever is in the active memtable would come back after a crash: its   *)
(* puts are in WAL files whose removal is not queued.  The WAL is switched *)
(* apart from the memtable and files are removed in the background.  Only  *)
(* a leader that froze the memtable in the middle of a commit breaks it.   *)
WalCoversActive == ~overlapped => Covered

(* Until a crash, the order in which get searches is an order of age,      *)
(* even if leaders overlap and flushes fail.                               *)
RecencyUntilCrash == crashes = 0 => RecencyOrder
=============================================================================
