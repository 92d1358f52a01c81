----------------------------- MODULE VersionSet -----------------------------
(***************************************************************************)
(* Which SSTables are live: VersionSet with the threads that use it.       *)
(*                                                                         *)
(* The flush thread adds a file to level 0, the compaction thread replaces *)
(* files of one level and the next by new ones and purges obsolete files,  *)
(* readers pin a version while they search it.  Both kinds of change go    *)
(* through log_and_apply, which appends a VersionEdit to MANIFEST.  One    *)
(* process is modelled here; VersionRecovery adds crashes and restarts.    *)
(*                                                                         *)
(* A version is the set of its <<level, number>> pairs: key ranges, and    *)
(* with them the choice of overlapping inputs, are left open here.         *)
(***************************************************************************)
EXTENDS Integers, FiniteSets, Sequences

CONSTANTS
    Readers,       \* threads inside get, get_pointer or scan
    L0Trigger,     \* level-0 files that start a compaction
    TopLevel,      \* deepest level the data has grown to (below MAX_LEVELS)
    ManifestLimit, \* records in MANIFEST before it is rewritten (1 MB in the code)
    ManifestMayFail, \* whether writes to MANIFEST can fail without a crash
    MaxFile,       \* bound: file numbers handed out
    Torn           \* a record of MANIFEST that does not decode

ASSUME VersionSetAssumption ==
    /\ TopLevel \in 1..5
    /\ L0Trigger \in Nat \ {0}
    /\ ManifestLimit \in Nat \ {0}
    /\ ManifestMayFail \in BOOLEAN
    /\ MaxFile \in Nat
    /\ Readers \cap {"worker", "merge"} = {}

VARIABLES
    next_file_number,  \* next_file_number_: the last number handed out
    pending_outputs,   \* pending_outputs_
    current,           \* current_
    active_versions,   \* the versions active_versions_ points to, weakly
    pins,              \* the shared pointers to versions that threads hold
    manifest,          \* the records of MANIFEST
    synced,            \* how many of them are known to be on disk
    disk,              \* numbers of the SSTable files in the directory
    pc,                \* where the flush and the compaction threads are
    output,            \* number of the file each of them writes
    edit,              \* their VersionEdit
    target,            \* the compaction's target_level
    keep,              \* purge_obsolete_files: live_files and pending
    max_seq            \* purge_obsolete_files: max_seq

numbers == <<next_file_number, pending_outputs>>
versions == <<current, active_versions>>
purge == <<keep, max_seq>>
log == <<manifest, synced>>
vars == <<numbers, versions, pins, log, disk, pc, output, edit, target, purge>>

Threads == {"flush", "compaction"}
Holders == Readers \cup {"worker", "merge"}
Levels == 0..TopLevel
Version == SUBSET (Levels \X Nat)
Files(v) == {f[2] : f \in v}
Level(v, i) == {f \in v : f[1] = i}

Edit == [deleted : Version, added : Version, next : Nat]
NoEdit == [deleted |-> {}, added |-> {}, next |-> 0]

Goto(t, label) == pc' = [pc EXCEPT ![t] = label]

(* mutex_ is held by the thread inside log_and_apply.                      *)
MutexFree == \A t \in Threads : pc[t] # "apply"

Init ==
    /\ next_file_number = 1
    /\ pending_outputs = {}
    /\ current = {}
    /\ active_versions = {}
    /\ pins = [h \in Holders |-> {}]
    /\ manifest = <<>> /\ synced = 0
    /\ disk = {}
    /\ pc = [t \in Threads |-> "idle"]
    /\ output = [t \in Threads |-> 0]
    /\ edit = [t \in Threads |-> NoEdit]
    /\ target = 0
    /\ keep = {} /\ max_seq = 0

-----------------------------------------------------------------------------
(* VersionSet::current: a thread takes a shared pointer under mutex_.      *)
Pin(r) ==
    /\ MutexFree
    /\ pins[r] = {}
    /\ pins' = [pins EXCEPT ![r] = {current}]
    /\ UNCHANGED <<numbers, versions, log, disk, pc, output, edit, target, purge>>

Release(r) ==
    /\ pins[r] # {}
    /\ pins' = [pins EXCEPT ![r] = {}]
    /\ UNCHANGED <<numbers, versions, log, disk, pc, output, edit, target, purge>>

(* Mutated new_file_number: the number is not announced as pending.        *)
new_file_number_unannounced(t) ==
    /\ MutexFree
    /\ next_file_number < MaxFile
    /\ next_file_number' = next_file_number + 1
    /\ output' = [output EXCEPT ![t] = next_file_number + 1]
    /\ UNCHANGED pending_outputs

(* Mutated new_file_number: a compaction names its output by               *)
(* next_file_number(), which claims nothing.                               *)
new_file_number_unclaimed(t) ==
    /\ MutexFree
    /\ next_file_number < MaxFile
    /\ next_file_number' = IF t = "flush" THEN next_file_number + 1 ELSE next_file_number
    /\ pending_outputs' = pending_outputs \cup {next_file_number'}
    /\ output' = [output EXCEPT ![t] = next_file_number']

new_file_number(t) ==
    /\ MutexFree
    /\ next_file_number < MaxFile
    /\ next_file_number' = next_file_number + 1
    /\ pending_outputs' = pending_outputs \cup {next_file_number + 1}
    /\ output' = [output EXCEPT ![t] = next_file_number + 1]

-----------------------------------------------------------------------------
(* flush_immutable: number, file, edit, log_and_apply.                     *)
FlushBegin ==
    /\ pc["flush"] = "idle"
    /\ new_file_number("flush")
    /\ Goto("flush", "write")
    /\ UNCHANGED <<versions, pins, log, disk, edit, target, purge>>

FlushWrite ==
    /\ pc["flush"] = "write"
    /\ disk' = disk \cup {output["flush"]}
    /\ edit' = [edit EXCEPT !["flush"] = [NoEdit EXCEPT !.added = {<<0, output["flush"]>>}]]
    /\ Goto("flush", "log")
    /\ UNCHANGED <<numbers, versions, pins, log, output, target, purge>>

(* The table could not be written or read back (or there was nothing to    *)
(* write): remove_pending_output.  What was written stays in the directory.*)
FlushAbandon ==
    /\ pc["flush"] = "write"
    /\ MutexFree
    /\ disk' \in {disk, disk \cup {output["flush"]}}
    /\ pending_outputs' = pending_outputs \ {output["flush"]}
    /\ Goto("flush", "idle")
    /\ UNCHANGED <<next_file_number, versions, pins, log, output, edit, target, purge>>

-----------------------------------------------------------------------------
(* bg_compaction_worker is scheduled when level 0 is full and no other run *)
(* of it is queued or active.                                              *)
Schedule ==
    /\ pc["compaction"] = "idle"
    /\ Cardinality(Level(current, 0)) >= L0Trigger
    /\ Goto("compaction", "check")
    /\ UNCHANGED <<numbers, versions, pins, log, disk, output, edit, target, purge>>

(* What run_compaction may take from level i: all of a full level 0, or    *)
(* one file of a deeper level over its size limit (which one, and whether  *)
(* the level is over it, is left open).                                    *)
Inputs(i) ==
    IF i = 0 THEN {f \in {Level(current, 0)} : Cardinality(f) >= L0Trigger}
             ELSE {{f} : f \in Level(current, i)}

(* The worker's loop pins the version and looks for a score of at least 1. *)
Check ==
    /\ pc["compaction"] = "check"
    /\ MutexFree
    /\ \/ /\ \E i \in 0..(TopLevel - 1) : Inputs(i) # {}
          /\ pins' = [pins EXCEPT !["worker"] = {current}]
          /\ Goto("compaction", "pick")
       \/ /\ Inputs(0) = {}
          /\ pins' = [pins EXCEPT !["worker"] = {}]
          /\ Goto("compaction", "idle")
    /\ UNCHANGED <<numbers, versions, log, disk, output, edit, target, purge>>

(* run_compaction pins the version again and chooses its inputs: those of  *)
(* one level and the files of the next that overlap them.                  *)
Pick ==
    /\ pc["compaction"] = "pick"
    /\ MutexFree
    /\ \E i \in 0..(TopLevel - 1) :
          \E src \in Inputs(i), overlapping \in SUBSET Level(current, i + 1) :
             /\ edit' = [edit EXCEPT !["compaction"] =
                            [NoEdit EXCEPT !.deleted = src \cup overlapping]]
             /\ target' = i + 1
    /\ pins' = [pins EXCEPT !["merge"] = {current}]
    /\ Goto("compaction", "merge")
    /\ UNCHANGED <<numbers, versions, log, disk, output, purge>>

(* flush_chunk.  A failure to write throws out of the worker and ends the  *)
(* process, which is a crash.                                              *)
ChunkBegin ==
    /\ pc["compaction"] = "merge"
    /\ new_file_number("compaction")
    /\ Goto("compaction", "write")
    /\ UNCHANGED <<versions, pins, log, disk, edit, target, purge>>

ChunkWrite ==
    /\ pc["compaction"] = "write"
    /\ disk' = disk \cup {output["compaction"]}
    /\ edit' = [edit EXCEPT !["compaction"].added = @ \cup {<<target, output["compaction"]>>}]
    /\ Goto("compaction", "merge")
    /\ UNCHANGED <<numbers, versions, pins, log, output, target, purge>>

(* The merge is over: it wrote something, since only the last level drops  *)
(* tombstones.                                                             *)
MergeEnd ==
    /\ pc["compaction"] = "merge"
    /\ edit["compaction"].added # {} \/ target = 5
    /\ Goto("compaction", "log")
    /\ UNCHANGED <<numbers, versions, pins, log, disk, output, edit, target, purge>>

-----------------------------------------------------------------------------
(* log_and_apply, first half: under mutex_ the record goes to MANIFEST.    *)
LogWrite(t) ==
    /\ pc[t] = "log"
    /\ MutexFree
    /\ edit' = [edit EXCEPT ![t].next = next_file_number]
    /\ manifest' = Append(manifest, edit'[t])
    /\ Goto(t, "apply")
    /\ UNCHANGED <<numbers, versions, pins, synced, disk, output, target, purge>>

(* Second half: after the sync the new version is installed, still under   *)
(* mutex_, and a long MANIFEST is replaced by one record.                  *)
Applied(v, e) == (v \ e.deleted) \cup e.added

Snapshot(v) == [deleted |-> {}, added |-> v, next |-> next_file_number]

AfterApply(t) == IF t = "flush" THEN "idle" ELSE "purge"


LogApply(t) ==
    /\ pc[t] = "apply"
    /\ current' = Applied(current, edit[t])
    /\ active_versions' = active_versions \cup {current'}
    /\ pending_outputs' = pending_outputs \ Files(edit[t].added)
    /\ \/ /\ Len(manifest) > ManifestLimit
          /\ manifest' = <<Snapshot(current')>>
       \/ /\ Len(manifest) <= ManifestLimit \/ ManifestMayFail
          /\ UNCHANGED manifest
    /\ synced' = Len(manifest')
    /\ edit' = [edit EXCEPT ![t] = NoEdit]
    /\ Goto(t, AfterApply(t))
    /\ UNCHANGED <<next_file_number, pins, disk, output, target, purge>>

(* The write or the sync failed: log_and_apply returns false and the flush *)
(* only reports it.  The record is missing, whole or torn in the file, and *)
(* the number stays pending.                                               *)
LogFails ==
    /\ ManifestMayFail
    /\ pc["flush"] = "apply"
    /\ manifest' \in {manifest, [manifest EXCEPT ![Len(manifest)] = Torn],
                      SubSeq(manifest, 1, Len(manifest) - 1)}
    /\ edit' = [edit EXCEPT !["flush"] = NoEdit]
    /\ Goto("flush", "idle")
    /\ UNCHANGED <<numbers, versions, pins, synced, disk, output, target, purge>>

-----------------------------------------------------------------------------
(* A version lives as long as somebody points to it.                       *)
Pinned == {current} \cup UNION {pins[h] : h \in Holders}

(* Mutated PurgeCapture: only the current version counts as live.          *)
PurgeCaptureCurrentOnly ==
    /\ pc["compaction"] = "purge"
    /\ MutexFree
    /\ keep' = Files(current) \cup pending_outputs
    /\ max_seq' = next_file_number
    /\ UNCHANGED active_versions
    /\ Goto("compaction", "scan")
    /\ UNCHANGED <<numbers, current, pins, log, disk, output, edit, target>>

(* purge_obsolete_files, under mutex_: what must stay; dead weak pointers  *)
(* are dropped.                                                            *)
PurgeCapture ==
    /\ pc["compaction"] = "purge"
    /\ MutexFree
    /\ active_versions' = active_versions \cap Pinned
    /\ keep' = pending_outputs \cup UNION {Files(v) : v \in active_versions'}
    /\ max_seq' = next_file_number
    /\ Goto("compaction", "scan")
    /\ UNCHANGED <<numbers, current, pins, log, disk, output, edit, target>>

(* Then without the mutex: files of the directory are removed one by one.  *)
Obsolete == {f \in disk : f \notin keep /\ f < max_seq}

PurgeRemove ==
    /\ pc["compaction"] = "scan"
    /\ \E f \in Obsolete : disk' = disk \ {f}
    /\ UNCHANGED <<numbers, versions, pins, log, pc, output, edit, target, purge>>

PurgeEnd ==
    /\ pc["compaction"] = "scan"
    /\ Obsolete = {}
    /\ pins' = [pins EXCEPT !["merge"] = {}]
    /\ keep' = {} /\ max_seq' = 0
    /\ Goto("compaction", "check")
    /\ UNCHANGED <<numbers, versions, log, disk, output, edit, target>>

-----------------------------------------------------------------------------
Next ==
    \/ \E r \in Readers : Pin(r) \/ Release(r)
    \/ FlushBegin \/ FlushWrite \/ FlushAbandon
    \/ Schedule \/ Check \/ Pick \/ ChunkBegin \/ ChunkWrite \/ MergeEnd
    \/ \E t \in Threads : LogWrite(t) \/ LogApply(t)
    \/ LogFails
    \/ PurgeCapture \/ PurgeRemove \/ PurgeEnd

Spec == Init /\ [][Next]_vars

-----------------------------------------------------------------------------
TypeOK ==
    /\ next_file_number \in Nat /\ pending_outputs \subseteq Nat
    /\ current \in Version /\ active_versions \subseteq Version
    /\ pins \in [Holders -> SUBSET Version]
    /\ manifest \in Seq(Edit \cup {Torn}) /\ synced \in 0..Len(manifest)
    /\ disk \subseteq Nat
    /\ pc \in [Threads -> {"idle", "write", "log", "apply", "check", "pick", "merge",
                           "purge", "scan"}]
    /\ output \in [Threads -> Nat] /\ edit \in [Threads -> Edit] /\ target \in Levels
    /\ keep \subseteq Nat /\ max_seq \in Nat

(* Files somebody still needs are in the directory: those of every version *)
(* a thread may search or merge from, however old, and those written for   *)
(* an edit that is not applied yet.                                        *)
NeededFilesExist ==
    /\ \A v \in Pinned : Files(v) \subseteq disk
    /\ \A t \in Threads : Files(edit[t].added) \subseteq disk

(* A table is in one level of the version only, and an edit deletes only   *)
(* files that are still there when it is applied.                          *)
EditsFit ==
    /\ \A f, g \in current : f[2] = g[2] => f = g
    /\ \A t \in Threads : edit[t].deleted \subseteq current
=============================================================================
