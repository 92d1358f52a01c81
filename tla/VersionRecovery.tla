--------------------------- MODULE VersionRecovery ---------------------------
(***************************************************************************)
(* VersionSet across crashes: what MANIFEST and the directory hold after   *)
(* a crash, and what VersionSet::recover and KVStore::recover make of it.  *)
(***************************************************************************)
EXTENDS VersionSet, SequencesExt

CONSTANTS
    PowerLoss,     \* whether a crash loses what was written and not synced
    MaxCrashes     \* bound: crashes

ASSUME VersionRecoveryAssumption == PowerLoss \in BOOLEAN /\ MaxCrashes \in Nat

VARIABLES
    crashes,   \* bound: crashes so far
    lossy      \* history: a crash has lost unsynced bytes

RInit == Init /\ crashes = 0 /\ lossy = FALSE

-----------------------------------------------------------------------------
(* VersionSet::recover: the records up to the first that does not decode.  *)
(* Deletions below level 1 are skipped.                                    *)
FirstTorn(m) == SelectInSeq(m, LAMBDA e : e = Torn)

Decoded(m) == IF FirstTorn(m) = 0 THEN m ELSE SubSeq(m, 1, FirstTorn(m) - 1)

Redone(v, e) == (v \ {f \in e.deleted : f[1] <= 1}) \cup e.added

RecoveredVersion(m) == FoldLeft(Redone, {}, Decoded(m))

(* Mutated RecoveredNumber: the number of the oldest record is used.       *)
RecoveredNumberOldest(m) == IF Decoded(m) = <<>> THEN 1 ELSE Head(Decoded(m)).next

RecoveredNumber(m) == IF Decoded(m) = <<>> THEN 1 ELSE Last(Decoded(m)).next

(* What a crash leaves.  The death of the process loses nothing that was   *)
(* written; a power loss may drop or tear the record of MANIFEST that was  *)
(* not synced, and any table, since SSTableWriter::write never syncs.      *)
ManifestAfterCrash ==
    {manifest} \cup
    IF PowerLoss /\ synced < Len(manifest)
    THEN {SubSeq(manifest, 1, synced), Append(SubSeq(manifest, 1, synced), Torn)}
    ELSE {}

DiskAfterCrash == IF PowerLoss THEN SUBSET disk ELSE {disk}

UpperLevels(v) == Level(v, 0) \cup Level(v, 1)

(* A crash, and KVStore::recover: orphans, which are all tables that       *)
(* levels 0 and 1 do not name, are deleted.                                *)
CrashAndRecover ==
    /\ crashes < MaxCrashes
    /\ crashes' = crashes + 1
    /\ manifest' \in ManifestAfterCrash
    /\ synced' = Len(manifest')
    /\ current' = RecoveredVersion(manifest')
    /\ active_versions' = {current'}
    /\ next_file_number' = RecoveredNumber(manifest')
    /\ \E d \in DiskAfterCrash :
          /\ disk' = d \cap Files(UpperLevels(current'))
          /\ lossy' = (lossy \/ manifest' # manifest \/ d # disk)
    /\ pending_outputs' = {}
    /\ pins' = [h \in Holders |-> {}]
    /\ pc' = [t \in Threads |-> "idle"]
    /\ output' = [t \in Threads |-> 0]
    /\ edit' = [t \in Threads |-> NoEdit]
    /\ target' = 0
    /\ keep' = {} /\ max_seq' = 0

-----------------------------------------------------------------------------
RNext == (Next /\ UNCHANGED <<crashes, lossy>>) \/ CrashAndRecover

RSpec == RInit /\ [][RNext]_<<vars, crashes, lossy>>

-----------------------------------------------------------------------------
(* No file name is used twice: every table in the directory, in a version  *)
(* or being written has a number already handed out, so the next           *)
(* SSTableWriter::write, which truncates, destroys nothing.                *)
NumbersAreFresh ==
    disk \cup pending_outputs \cup (UNION {Files(v) : v \in Pinned}) \subseteq 1..next_file_number

Installing == {t \in Threads : pc[t] = "apply"}

(* The version in memory, or the one that is being installed.              *)
Logged == {Applied(current, edit[t]) : t \in Installing} \cup (IF Installing = {} THEN {current} ELSE {})

(* Replaying MANIFEST gives that version.                                  *)
ManifestReplays == RecoveredVersion(manifest) \in Logged


(* Restarts keep the tables of levels 0 and 1 that somebody needs and what *)
(* was written for an edit, whatever the flush, the compaction and the     *)
(* purge were doing, as long as nothing is lost that had been written.     *)
(* Those of deeper levels KVStore::recover deletes: until the first crash  *)
(* they are there as well.                                                 *)
TablesSurviveRestart ==
    ~lossy => /\ \A v \in Pinned : Files(UpperLevels(v)) \subseteq disk
              /\ \A t \in Threads : Files(edit[t].added) \subseteq disk
              /\ crashes = 0 => NeededFilesExist
=============================================================================
