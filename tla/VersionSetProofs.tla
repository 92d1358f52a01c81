-------------------------- MODULE VersionSetProofs --------------------------
(***************************************************************************)
(* Proofs that purge_obsolete_files never removes a table somebody needs   *)
(* and that every edit fits the version it is applied to, for any number   *)
(* of readers, levels and files, between two crashes.                      *)
(***************************************************************************)
EXTENDS VersionSet, TLAPS

(* The numbers a thread has taken and not published yet.                   *)
Claim(t) == (IF pc[t] = "write" THEN {output[t]} ELSE {}) \cup Files(edit[t].added)

(* A purge that is under way will not take this number: it was seen live   *)
(* or pending under the mutex, or it was handed out later.                 *)
Spared(f) == pc["compaction"] = "scan" => f \in keep \/ f >= max_seq

PTypes ==
    /\ next_file_number \in Nat
    /\ max_seq \in Nat
    /\ max_seq <= next_file_number
    /\ current \in Version
    /\ pins \in [Holders -> SUBSET Version]
    /\ target \in Levels
    /\ pc \in [Threads -> {"idle", "write", "log", "apply", "check", "pick", "merge",
                           "purge", "scan"}]
    /\ output \in [Threads -> Nat]
    /\ edit \in [Threads -> Edit]

ClaimsPending ==
    /\ \A t \in Threads : Claim(t) \subseteq pending_outputs \cap 1..next_file_number
    /\ Claim("flush") \cap Claim("compaction") = {}

EditsEmpty ==
    /\ pc["flush"] \in {"idle", "write", "log", "apply"}
    /\ pc["flush"] \in {"idle", "write"} => edit["flush"].added = {}
    /\ pc["compaction"] \in {"idle", "check", "pick", "purge", "scan"}
          => edit["compaction"].added = {}

PurgeSpares ==
    /\ \A v \in Pinned : v \in active_versions \/ v = {}
    /\ \A v \in Pinned : \A f \in Files(v) : Spared(f)
    /\ \A f \in Claim("flush") : Spared(f)

PInv ==
    /\ PTypes
    /\ ClaimsPending
    /\ EditsEmpty
    /\ PurgeSpares
    /\ NeededFilesExist
USE DEF Threads

-----------------------------------------------------------------------------
LEMMA InitPInv == Init => PInv
<1> SUFFICES ASSUME Init PROVE PInv
  OBVIOUS
<1> USE DEF Init
<1>1. NoEdit \in Edit
  BY DEF NoEdit, Edit, Version
<1>2. PTypes
  BY <1>1, VersionSetAssumption DEF PTypes, Version, Levels
<1>3. \A t \in Threads : Claim(t) = {}
  BY DEF Claim, NoEdit, Files
<1>4. Pinned = {{}}
  BY DEF Pinned
<1>5. ClaimsPending /\ EditsEmpty
  BY <1>3 DEF ClaimsPending, EditsEmpty, NoEdit
<1>6. PurgeSpares
  BY <1>3, <1>4 DEF PurgeSpares, Files
<1>7. NeededFilesExist
  BY <1>4 DEF NeededFilesExist, Files, NoEdit
<1> QED
  BY <1>2, <1>5, <1>6, <1>7 DEF PInv

(* Types are kept by every step.                                           *)
LEMMA StepPTypes == PInv /\ [Next]_vars => PTypes'
<1> SUFFICES ASSUME PInv, [Next]_vars PROVE PTypes'
  OBVIOUS
<1> USE DEF PInv, PTypes, numbers, versions, log, purge, Goto
<1>a. NoEdit \in Edit
  BY DEF NoEdit, Edit, Version
<1>b. \A e \in Edit : e.deleted \in Version /\ e.added \in Version
  BY DEF Edit
<1>1. ASSUME NEW r \in Readers, Pin(r) \/ Release(r) PROVE PTypes'
  <2>1. pins' \in [Holders -> SUBSET Version]
    BY <1>1 DEF Pin, Release
  <2> QED
    BY <1>1, <2>1 DEF Pin, Release
<1>2. CASE FlushBegin
  BY <1>2 DEF FlushBegin, new_file_number
<1>3. CASE FlushWrite
  <2>1. [NoEdit EXCEPT !.added = {<<0, output["flush"]>>}] \in Edit
    BY VersionSetAssumption DEF NoEdit, Edit, Version, Levels
  <2> QED
    BY <1>3, <2>1 DEF FlushWrite
<1>4. CASE FlushAbandon
  BY <1>4 DEF FlushAbandon
<1>5. CASE Schedule
  BY <1>5 DEF Schedule
<1>6. CASE Check
  <2>1. pins' \in [Holders -> SUBSET Version]
    BY <1>6 DEF Check
  <2> QED
    BY <1>6, <2>1 DEF Check
<1>7. CASE Pick
  <2>1. PICK i \in 0..(TopLevel - 1) :
          \E src \in Inputs(i), overlapping \in SUBSET Level(current, i + 1) :
             /\ edit' = [edit EXCEPT !["compaction"] =
                            [NoEdit EXCEPT !.deleted = src \cup overlapping]]
             /\ target' = i + 1
    BY <1>7 DEF Pick
  <2>2. PICK src \in Inputs(i), overlapping \in SUBSET Level(current, i + 1) :
             edit' = [edit EXCEPT !["compaction"] =
                        [NoEdit EXCEPT !.deleted = src \cup overlapping]]
    BY <2>1
  <2>3. src \subseteq current /\ overlapping \subseteq current
    BY DEF Inputs, Level
  <2>4. [NoEdit EXCEPT !.deleted = src \cup overlapping] \in Edit
    BY <2>3 DEF NoEdit, Edit, Version
  <2>5. edit' \in [Threads -> Edit]
    BY <2>2, <2>4
  <2>6. target' \in Levels
    BY <2>1, VersionSetAssumption DEF Levels
  <2>7. pins' \in [Holders -> SUBSET Version]
    BY <1>7 DEF Pick
  <2> QED
    BY <1>7, <2>5, <2>6, <2>7 DEF Pick
<1>8. CASE ChunkBegin
  BY <1>8 DEF ChunkBegin, new_file_number
<1>9. CASE ChunkWrite
  <2>1. edit["compaction"].added \cup {<<target, output["compaction"]>>} \in Version
    BY <1>b DEF Version
  <2>2. [edit["compaction"] EXCEPT !.added = @ \cup {<<target, output["compaction"]>>}] \in Edit
    BY <2>1 DEF Edit
  <2> QED
    BY <1>9, <2>2 DEF ChunkWrite
<1>10. CASE MergeEnd
  BY <1>10 DEF MergeEnd
<1>11. ASSUME NEW t \in Threads, LogWrite(t) PROVE PTypes'
  <2>1. [edit[t] EXCEPT !.next = next_file_number] \in Edit
    BY DEF Edit
  <2> QED
    BY <1>11, <2>1 DEF LogWrite
<1>12. ASSUME NEW t \in Threads, LogApply(t) PROVE PTypes'
  <2>1. current' \in Version
    BY <1>12, <1>b DEF LogApply, Applied, Version
  <2>2. edit' \in [Threads -> Edit]
    BY <1>12, <1>a DEF LogApply
  <2> QED
    BY <1>12, <2>1, <2>2 DEF LogApply, AfterApply
<1>13. CASE LogFails
  BY <1>13, <1>a DEF LogFails
<1>14. CASE PurgeCapture
  BY <1>14 DEF PurgeCapture
<1>15. CASE PurgeRemove
  BY <1>15 DEF PurgeRemove
<1>16. CASE PurgeEnd
  <2>1. pins' \in [Holders -> SUBSET Version]
    BY <1>16 DEF PurgeEnd
  <2> QED
    BY <1>16, <2>1 DEF PurgeEnd
<1>17. CASE UNCHANGED vars
  BY <1>17 DEF vars
<1> QED
  BY <1>1, <1>2, <1>3, <1>4, <1>5, <1>6, <1>7, <1>8, <1>9, <1>10, <1>11, <1>12, <1>13,
     <1>14, <1>15, <1>16, <1>17 DEF Next
(* A thread that takes or drops a pointer to a version pins nothing new.   *)
LEMMA PinnedShrinks ==
    ASSUME current' = current,
           \A h \in Holders : pins'[h] \subseteq pins[h] \cup {current}
    PROVE  Pinned' \subseteq Pinned
  BY DEF Pinned

LEMMA FilesOfUnion ==
    ASSUME NEW a, NEW b
    PROVE  Files(a \cup b) = Files(a) \cup Files(b)
  BY DEF Files

(* A step that pins nothing new, claims nothing new, and leaves the        *)
(* directory, the numbers and a purge under way alone.                     *)
LEMMA QuietStep ==
    ASSUME PInv, PTypes', EditsEmpty',
           Pinned' \subseteq Pinned,
           \A t \in Threads : Claim(t)' \subseteq Claim(t),
           \A t \in Threads : Files(edit'[t].added) \subseteq Files(edit[t].added),
           pc'["compaction"] = "scan" =>
               pc["compaction"] = "scan" /\ UNCHANGED <<keep, max_seq>>,
           UNCHANGED <<next_file_number, pending_outputs, active_versions, disk>>
    PROVE  PInv'
<1> USE DEF PInv
<1>1. ClaimsPending'
  BY DEF ClaimsPending
<1>2. PurgeSpares'
  BY DEF PurgeSpares, Spared
<1>3. NeededFilesExist'
  BY DEF NeededFilesExist
<1> QED
  BY <1>1, <1>2, <1>3

(* The edits of the quiet steps.                                           *)
LEMMA FilesOfNone == Files({}) = {}
  BY DEF Files

LEMMA StepPInv == PInv /\ [Next]_vars => PInv'
<1> SUFFICES ASSUME PInv, [Next]_vars PROVE PInv'
  OBVIOUS
<1> USE DEF numbers, versions, log, purge, Goto
<1>0. PTypes /\ PTypes'
  BY StepPTypes DEF PInv
<1>1. ASSUME NEW r \in Readers, Pin(r) \/ Release(r) PROVE PInv'
  <2>1. Pinned' \subseteq Pinned
    BY <1>0, <1>1, PinnedShrinks DEF Pin, Release, PTypes
  <2>2. EditsEmpty'
    BY <1>1 DEF PInv, EditsEmpty, Pin, Release
  <2>3. \A t \in Threads : Claim(t)' = Claim(t)
    BY <1>1 DEF Claim, Pin, Release
  <2> QED
    BY <1>0, <1>1, <2>1, <2>2, <2>3, QuietStep DEF Pin, Release
<1>5. CASE Schedule
  <2>1. Pinned' \subseteq Pinned
    BY <1>5 DEF Schedule, Pinned
  <2>2. EditsEmpty'
    BY <1>0, <1>5 DEF PInv, PTypes, EditsEmpty, Schedule
  <2>3. \A t \in Threads : Claim(t)' = Claim(t)
    BY <1>0, <1>5 DEF Claim, Schedule, PTypes
  <2>4. pc'["compaction"] # "scan"
    BY <1>0, <1>5 DEF Schedule, PTypes
  <2> QED
    BY <1>0, <1>5, <2>1, <2>2, <2>3, <2>4, QuietStep DEF Schedule
<1>6. CASE Check
  <2>1. Pinned' \subseteq Pinned
    BY <1>0, <1>6, PinnedShrinks DEF Check, PTypes
  <2>2. EditsEmpty'
    BY <1>0, <1>6 DEF PInv, PTypes, EditsEmpty, Check
  <2>3. \A t \in Threads : Claim(t)' = Claim(t)
    BY <1>0, <1>6 DEF Claim, Check, PTypes
  <2>4. pc'["compaction"] # "scan"
    BY <1>0, <1>6 DEF Check, PTypes
  <2> QED
    BY <1>0, <1>6, <2>1, <2>2, <2>3, <2>4, QuietStep DEF Check
<1>7. CASE Pick
  <2>1. Pinned' \subseteq Pinned
    BY <1>0, <1>7, PinnedShrinks DEF Pick, PTypes
  <2>2. edit'["compaction"].added = {} /\ edit'["flush"] = edit["flush"]
    BY <1>0, <1>7 DEF Pick, NoEdit, PTypes
  <2>3. pc'["compaction"] = "merge" /\ pc'["flush"] = pc["flush"] /\ output' = output
    BY <1>0, <1>7 DEF Pick, PTypes
  <2>4. EditsEmpty'
    BY <2>2, <2>3 DEF PInv, EditsEmpty
  <2>5. Claim("compaction")' = {} /\ Claim("flush")' = Claim("flush")
    BY <2>2, <2>3, FilesOfNone DEF Claim
  <2>6. \A t \in Threads : Files(edit'[t].added) \subseteq Files(edit[t].added)
    BY <2>2, FilesOfNone
  <2> QED
    BY <1>0, <1>7, <2>1, <2>3, <2>4, <2>5, <2>6, QuietStep DEF Pick
<1>10. CASE MergeEnd
  <2>1. Pinned' \subseteq Pinned
    BY <1>10 DEF MergeEnd, Pinned
  <2>2. EditsEmpty'
    BY <1>0, <1>10 DEF PInv, PTypes, EditsEmpty, MergeEnd
  <2>3. \A t \in Threads : Claim(t)' = Claim(t)
    BY <1>0, <1>10 DEF Claim, MergeEnd, PTypes
  <2>4. pc'["compaction"] # "scan"
    BY <1>0, <1>10 DEF MergeEnd, PTypes
  <2> QED
    BY <1>0, <1>10, <2>1, <2>2, <2>3, <2>4, QuietStep DEF MergeEnd
<1>11. ASSUME NEW t \in Threads, LogWrite(t) PROVE PInv'
  <2>1. Pinned' \subseteq Pinned
    BY <1>11 DEF LogWrite, Pinned
  <2>2. \A u \in Threads : edit'[u].added = edit[u].added
    BY <1>0, <1>11 DEF LogWrite, PTypes, Edit
  <2>3. EditsEmpty'
    BY <1>0, <1>11, <2>2 DEF PInv, PTypes, EditsEmpty, LogWrite
  <2>4. \A u \in Threads : Claim(u)' = Claim(u)
    BY <1>0, <1>11, <2>2 DEF Claim, LogWrite, PTypes
  <2>5. pc'["compaction"] = "scan" => pc["compaction"] = "scan"
    BY <1>0, <1>11 DEF LogWrite, PTypes
  <2> QED
    BY <1>0, <1>11, <2>1, <2>2, <2>3, <2>4, <2>5, QuietStep DEF LogWrite
<1>13. CASE LogFails
  <2>1. Pinned' \subseteq Pinned
    BY <1>13 DEF LogFails, Pinned
  <2>2. edit'["flush"].added = {} /\ edit'["compaction"] = edit["compaction"]
    BY <1>0, <1>13 DEF LogFails, NoEdit, PTypes
  <2>3. pc'["flush"] = "idle" /\ pc'["compaction"] = pc["compaction"] /\ output' = output
    BY <1>0, <1>13 DEF LogFails, PTypes
  <2>4. EditsEmpty'
    BY <2>2, <2>3 DEF PInv, EditsEmpty
  <2>5. Claim("flush")' = {} /\ Claim("compaction")' = Claim("compaction")
    BY <2>2, <2>3, FilesOfNone DEF Claim
  <2>6. \A t \in Threads : Files(edit'[t].added) \subseteq Files(edit[t].added)
    BY <2>2, FilesOfNone
  <2> QED
    BY <1>0, <1>13, <2>1, <2>3, <2>4, <2>5, <2>6, QuietStep DEF LogFails
<1>16. CASE PurgeEnd
  <2>1. Pinned' \subseteq Pinned
    BY <1>0, <1>16, PinnedShrinks DEF PurgeEnd, PTypes
  <2>2. EditsEmpty'
    BY <1>0, <1>16 DEF PInv, PTypes, EditsEmpty, PurgeEnd
  <2>3. \A t \in Threads : Claim(t)' = Claim(t)
    BY <1>0, <1>16 DEF Claim, PurgeEnd, PTypes
  <2>4. pc'["compaction"] # "scan"
    BY <1>0, <1>16 DEF PurgeEnd, PTypes
  <2> QED
    BY <1>0, <1>16, <2>1, <2>2, <2>3, <2>4, QuietStep DEF PurgeEnd
<1>17. CASE UNCHANGED vars
  <2>1. Pinned' = Pinned /\ \A t \in Threads : Claim(t)' = Claim(t)
    BY <1>17 DEF vars, Pinned, Claim
  <2>2. EditsEmpty'
    BY <1>17 DEF vars, PInv, EditsEmpty
  <2> QED
    BY <1>0, <1>17, <2>1, <2>2, QuietStep DEF vars
<1>2. CASE FlushBegin
  <2> DEFINE n == next_file_number + 1
  <2>1. /\ pc["flush"] = "idle" /\ pc'["flush"] = "write" /\ pc'["compaction"] = pc["compaction"]
        /\ output'["flush"] = n /\ output'["compaction"] = output["compaction"]
        /\ next_file_number' = n /\ pending_outputs' = pending_outputs \cup {n}
        /\ UNCHANGED <<versions, pins, disk, edit, purge>>
    BY <1>0, <1>2 DEF FlushBegin, new_file_number, PTypes
  <2>2. Pinned' = Pinned
    BY <2>1 DEF Pinned
  <2>3. EditsEmpty'
    BY <2>1 DEF PInv, EditsEmpty
  <2>4. Claim("flush")' = {n} /\ Claim("compaction")' = Claim("compaction")
    BY <2>1, FilesOfNone DEF Claim, PInv, EditsEmpty
  <2>5. n \in Nat /\ n > next_file_number /\ n >= max_seq /\ n \notin 1..next_file_number
        /\ 1..next_file_number \subseteq 1..n /\ n \in 1..n
    BY <1>0 DEF PTypes
  <2> HIDE DEF n
  <2>6. ClaimsPending'
    BY <2>1, <2>4, <2>5 DEF PInv, ClaimsPending
  <2>7. PurgeSpares'
    BY <2>1, <2>2, <2>4, <2>5 DEF PInv, PurgeSpares, Spared
  <2>8. NeededFilesExist'
    BY <2>1, <2>2 DEF PInv, NeededFilesExist
  <2> QED
    BY <1>0, <2>3, <2>6, <2>7, <2>8 DEF PInv
<1>3. CASE FlushWrite
  <2> DEFINE n == output["flush"]
  <2>1. /\ pc["flush"] = "write" /\ pc'["flush"] = "log" /\ pc'["compaction"] = pc["compaction"]
        /\ edit'["flush"].added = {<<0, n>>} /\ edit'["compaction"] = edit["compaction"]
        /\ disk' = disk \cup {n}
        /\ UNCHANGED <<numbers, versions, pins, output, purge>>
    BY <1>0, <1>3 DEF FlushWrite, PTypes, NoEdit
  <2>2. Pinned' = Pinned
    BY <2>1 DEF Pinned
  <2>3. EditsEmpty'
    BY <2>1 DEF PInv, EditsEmpty
  <2>4. Files(edit'["flush"].added) = {n}
    BY <2>1 DEF Files
  <2>5. Claim("flush")' = Claim("flush") /\ Claim("compaction")' = Claim("compaction")
    BY <2>1, <2>4, FilesOfNone DEF Claim, PInv, EditsEmpty
  <2>6. ClaimsPending'
    BY <2>1, <2>5 DEF PInv, ClaimsPending
  <2>7. PurgeSpares'
    BY <2>1, <2>2, <2>5 DEF PInv, PurgeSpares, Spared
  <2>8. NeededFilesExist'
    BY <2>1, <2>2, <2>4 DEF PInv, NeededFilesExist
  <2> QED
    BY <1>0, <2>3, <2>6, <2>7, <2>8 DEF PInv
<1>4. CASE FlushAbandon
  <2> DEFINE n == output["flush"]
  <2>1. /\ pc["flush"] = "write" /\ pc'["flush"] = "idle" /\ pc'["compaction"] = pc["compaction"]
        /\ disk \subseteq disk' /\ pending_outputs' = pending_outputs \ {n}
        /\ UNCHANGED <<next_file_number, versions, pins, output, edit, purge>>
    BY <1>0, <1>4 DEF FlushAbandon, PTypes
  <2>2. Pinned' = Pinned
    BY <2>1 DEF Pinned
  <2>3. EditsEmpty'
    BY <2>1 DEF PInv, EditsEmpty
  <2>4. Claim("flush") = {n} /\ Claim("flush")' = {} /\ Claim("compaction")' = Claim("compaction")
    BY <2>1, FilesOfNone DEF Claim, PInv, EditsEmpty
  <2>5. ClaimsPending'
    BY <2>1, <2>4 DEF PInv, ClaimsPending
  <2>6. PurgeSpares'
    BY <2>1, <2>2, <2>4 DEF PInv, PurgeSpares, Spared
  <2>7. NeededFilesExist'
    BY <2>1, <2>2 DEF PInv, NeededFilesExist
  <2> QED
    BY <1>0, <2>3, <2>5, <2>6, <2>7 DEF PInv
<1>8. CASE ChunkBegin
  <2> DEFINE n == next_file_number + 1
  <2>1. /\ pc["compaction"] = "merge" /\ pc'["compaction"] = "write" /\ pc'["flush"] = pc["flush"]
        /\ output'["compaction"] = n /\ output'["flush"] = output["flush"]
        /\ next_file_number' = n /\ pending_outputs' = pending_outputs \cup {n}
        /\ UNCHANGED <<versions, pins, disk, edit, purge>>
    BY <1>0, <1>8 DEF ChunkBegin, new_file_number, PTypes
  <2>2. Pinned' = Pinned
    BY <2>1 DEF Pinned
  <2>3. EditsEmpty'
    BY <2>1 DEF PInv, EditsEmpty
  <2>4. Claim("compaction")' = Claim("compaction") \cup {n} /\ Claim("flush")' = Claim("flush")
    BY <2>1 DEF Claim
  <2>5. n \notin 1..next_file_number /\ 1..next_file_number \subseteq 1..n /\ n \in 1..n
    BY <1>0 DEF PTypes
  <2> HIDE DEF n
  <2>6. ClaimsPending'
    BY <2>1, <2>4, <2>5 DEF PInv, ClaimsPending
  <2>7. PurgeSpares'
    BY <2>1, <2>2, <2>4 DEF PInv, PurgeSpares, Spared
  <2>8. NeededFilesExist'
    BY <2>1, <2>2 DEF PInv, NeededFilesExist
  <2> QED
    BY <1>0, <2>3, <2>6, <2>7, <2>8 DEF PInv
<1>9. CASE ChunkWrite
  <2> DEFINE n == output["compaction"]
  <2>1. /\ pc["compaction"] = "write" /\ pc'["compaction"] = "merge" /\ pc'["flush"] = pc["flush"]
        /\ edit'["compaction"].added = edit["compaction"].added \cup {<<target, n>>}
        /\ edit'["flush"] = edit["flush"]
        /\ disk' = disk \cup {n}
        /\ UNCHANGED <<numbers, versions, pins, output, purge>>
    BY <1>0, <1>9 DEF ChunkWrite, PTypes, Edit
  <2>2. Pinned' = Pinned
    BY <2>1 DEF Pinned
  <2>3. EditsEmpty'
    BY <2>1 DEF PInv, EditsEmpty
  <2>4. Files({<<target, n>>}) = {n}
    BY DEF Files
  <2>5. Files(edit'["compaction"].added) = Files(edit["compaction"].added) \cup {n}
    BY <2>1, <2>4, FilesOfUnion
  <2>6. Claim("compaction")' = Claim("compaction") /\ Claim("flush")' = Claim("flush")
    BY <2>1, <2>5 DEF Claim
  <2>7. ClaimsPending'
    BY <2>1, <2>6 DEF PInv, ClaimsPending
  <2>8. PurgeSpares'
    BY <2>1, <2>2, <2>6 DEF PInv, PurgeSpares, Spared
  <2>9. NeededFilesExist'
    BY <2>1, <2>2, <2>5 DEF PInv, NeededFilesExist
  <2> QED
    BY <1>0, <2>3, <2>7, <2>8, <2>9 DEF PInv
<1>12. ASSUME NEW t \in Threads, LogApply(t) PROVE PInv'
  <2> DEFINE added == edit[t].added
  <2>1. /\ pc[t] = "apply" /\ pc'[t] \in {"idle", "purge"}
        /\ t = "flush" => pc'["flush"] = "idle"
        /\ t = "compaction" => pc'["compaction"] = "purge"
        /\ \A u \in Threads \ {t} : pc'[u] = pc[u] /\ edit'[u] = edit[u]
        /\ edit'[t].added = {}
        /\ pending_outputs' = pending_outputs \ Files(added)
        /\ active_versions' = active_versions \cup {current'}
        /\ UNCHANGED <<next_file_number, pins, disk, output, purge>>
    BY <1>0, <1>12 DEF LogApply, AfterApply, PTypes, NoEdit
  <2>2. Files(current') \subseteq Files(current) \cup Files(added)
    BY <1>12 DEF LogApply, Applied, Files
  <2>3. Claim(t) = Files(added) /\ Claim(t)' = {}
    BY <2>1, FilesOfNone DEF Claim
  <2>4. \A u \in Threads \ {t} : Claim(u)' = Claim(u)
    BY <2>1 DEF Claim
  <2>5. Pinned' \subseteq Pinned \cup {current'} /\ current \in Pinned
    BY <2>1 DEF Pinned
  <2> HIDE DEF added
  <2>6. EditsEmpty'
    <3>1. CASE t = "flush"
      BY <2>1, <3>1 DEF PInv, EditsEmpty
    <3>2. CASE t = "compaction"
      BY <2>1, <3>2 DEF PInv, EditsEmpty
    <3> QED
      BY <3>1, <3>2
  <2>7. ClaimsPending'
    <3>1. \A u \in Threads \ {t} : Claim(u) \cap Files(added) = {}
      BY <2>3 DEF PInv, ClaimsPending
    <3>2. \A u \in Threads : Claim(u)' \subseteq pending_outputs' \cap 1..next_file_number'
      BY <2>1, <2>3, <2>4, <3>1 DEF PInv, ClaimsPending
    <3>3. Claim("flush")' \cap Claim("compaction")' = {}
      BY <2>3, <2>4 DEF PInv, ClaimsPending
    <3> QED
      BY <3>2, <3>3 DEF ClaimsPending
  <2>8. PurgeSpares'
    <3>1. \A v \in Pinned' : v \in active_versions' \/ v = {}
      BY <2>1, <2>5 DEF PInv, PurgeSpares
    <3>2. CASE t = "flush"
      <4>1. \A f : Spared(f)' <=> Spared(f)
        BY <2>1, <3>2 DEF Spared
      <4>2. \A f \in Files(added) : Spared(f)
        BY <2>3, <3>2 DEF PInv, PurgeSpares
      <4>3. \A f \in Files(current') : Spared(f)
        BY <2>2, <2>5, <4>2 DEF PInv, PurgeSpares
      <4>4. \A v \in Pinned' : \A f \in Files(v) : Spared(f)
        BY <2>5, <4>3 DEF PInv, PurgeSpares
      <4> QED
        BY <2>3, <3>1, <3>2, <4>1, <4>4 DEF PurgeSpares
    <3>3. CASE t = "compaction"
      <4>1. \A f : Spared(f)'
        BY <2>1, <3>3 DEF Spared
      <4> QED
        BY <3>1, <4>1 DEF PurgeSpares
    <3> QED
      BY <3>2, <3>3
  <2>9. NeededFilesExist'
    <3>1. Files(current') \subseteq disk
      BY <2>2, <2>5 DEF PInv, NeededFilesExist, added
    <3>2. \A v \in Pinned' : Files(v) \subseteq disk
      BY <2>5, <3>1 DEF PInv, NeededFilesExist
    <3>3. \A u \in Threads : Files(edit'[u].added) \subseteq disk
      BY <2>1, FilesOfNone DEF PInv, NeededFilesExist
    <3> QED
      BY <2>1, <3>2, <3>3 DEF NeededFilesExist
  <2> QED
    BY <1>0, <2>6, <2>7, <2>8, <2>9 DEF PInv
<1>14. CASE PurgeCapture
  <2> DEFINE seen == UNION {Files(v) : v \in active_versions'}
  <2>1. /\ pc["compaction"] = "purge" /\ pc'["compaction"] = "scan" /\ pc'["flush"] = pc["flush"]
        /\ active_versions' = active_versions \cap Pinned
        /\ UNCHANGED <<numbers, current, pins, disk, output, edit>>
    BY <1>0, <1>14 DEF PurgeCapture, PTypes
  <2>0. keep' = seen \cup pending_outputs
    BY <1>14 DEF PurgeCapture
  <2> HIDE DEF seen
  <2>2. Pinned' = Pinned
    BY <2>1 DEF Pinned
  <2>3. EditsEmpty'
    BY <2>1 DEF PInv, EditsEmpty
  <2>4. \A t \in Threads : Claim(t)' = Claim(t)
    BY <2>1 DEF Claim
  <2>5. ClaimsPending'
    BY <2>1, <2>4 DEF PInv, ClaimsPending
  <2>6. PurgeSpares'
    <3>1. \A v \in Pinned : v \in active_versions' \/ v = {}
      BY <2>1 DEF PInv, PurgeSpares
    <3>2. ASSUME NEW v \in Pinned PROVE Files(v) \subseteq keep'
      <4>1. CASE v \in active_versions'
        BY <2>0, <4>1 DEF seen
      <4>2. CASE v = {}
        BY <4>2, FilesOfNone
      <4> QED
        BY <3>1, <4>1, <4>2
    <3>3. Claim("flush") \subseteq keep'
      <4>1. Claim("flush") \subseteq pending_outputs
        BY DEF PInv, ClaimsPending
      <4>2. pending_outputs \subseteq keep'
        BY <2>0
      <4> QED
        BY <4>1, <4>2
    <3>4. \A v \in Pinned' : \A f \in Files(v) : Spared(f)'
      BY <2>2, <3>2 DEF Spared
    <3>5. \A f \in Claim("flush")' : Spared(f)'
      BY <2>4, <3>3 DEF Spared
    <3> QED
      BY <2>2, <3>1, <3>4, <3>5 DEF PurgeSpares
  <2>7. NeededFilesExist'
    BY <2>1, <2>2 DEF PInv, NeededFilesExist
  <2> QED
    BY <1>0, <2>3, <2>5, <2>6, <2>7 DEF PInv
<1>15. CASE PurgeRemove
  <2>1. /\ pc["compaction"] = "scan"
        /\ UNCHANGED <<numbers, versions, pins, pc, output, edit, purge>>
    BY <1>15 DEF PurgeRemove
  <2>2. PICK g \in Obsolete : disk' = disk \ {g}
    BY <1>15 DEF PurgeRemove
  <2>3. g \notin keep /\ g < max_seq
    BY DEF Obsolete
  <2>4. Pinned' = Pinned /\ \A t \in Threads : Claim(t)' = Claim(t)
    BY <2>1 DEF Pinned, Claim
  <2>5. EditsEmpty' /\ ClaimsPending'
    BY <2>1, <2>4 DEF PInv, EditsEmpty, ClaimsPending
  <2>6. PurgeSpares'
    BY <2>1, <2>4 DEF PInv, PurgeSpares, Spared
  <2>7. \A f \in Claim("flush") : f # g
    <3>1. \A f \in Claim("flush") : f \in Nat /\ Spared(f)
      BY <1>0 DEF PInv, ClaimsPending, PurgeSpares, PTypes
    <3> QED
      BY <1>0, <2>1, <2>3, <3>1 DEF Spared, PTypes
  <2>8. \A v \in Pinned : g \notin Files(v)
    <3>1. \A v \in Pinned : \A f \in Files(v) : f \in Nat /\ Spared(f)
      <4>1. \A v \in Pinned : v \in Version
        BY <1>0 DEF Pinned, PTypes
      <4>2. \A v \in Pinned : \A f \in Files(v) : f \in Nat
        BY <4>1 DEF Version, Files
      <4> QED
        BY <4>2 DEF PInv, PurgeSpares
    <3> QED
      BY <1>0, <2>1, <2>3, <3>1 DEF Spared, PTypes
  <2>9. NeededFilesExist'
    <3>1. \A v \in Pinned' : Files(v) \subseteq disk'
      BY <2>2, <2>4, <2>8 DEF PInv, NeededFilesExist
    <3>2. Files(edit["flush"].added) \subseteq Claim("flush")
      BY DEF Claim
    <3>3. Files(edit["compaction"].added) = {}
      BY <2>1, FilesOfNone DEF PInv, EditsEmpty
    <3>4. \A t \in Threads : Files(edit'[t].added) \subseteq disk'
      BY <2>1, <2>2, <2>7, <3>2, <3>3 DEF PInv, NeededFilesExist
    <3> QED
      BY <3>1, <3>4 DEF NeededFilesExist
  <2> QED
    BY <1>0, <2>5, <2>6, <2>9 DEF PInv
<1> QED
  BY <1>1, <1>2, <1>3, <1>4, <1>5, <1>6, <1>7, <1>8, <1>9, <1>10, <1>11, <1>12, <1>13,
     <1>14, <1>15, <1>16, <1>17 DEF Next

-----------------------------------------------------------------------------
(* Between two crashes, purge_obsolete_files never removes a table of a    *)
(* version that a reader, a merge or the engine still points to, nor one   *)
(* that a flush or a compaction has written and not published: for any     *)
(* number of readers, levels and files, whatever the interleaving of the   *)
(* directory scan with flushes and reads.                                  *)
THEOREM PurgeIsSafe == Spec => []NeededFilesExist
<1>1. PInv => NeededFilesExist
  BY DEF PInv
<1> QED
  BY InitPInv, StepPInv, <1>1, PTL DEF Spec

-----------------------------------------------------------------------------
(* No two entries of a version or of an edit name the same file.           *)
OneLevel(v) == \A f, g \in v : f[2] = g[2] => f = g

(* What makes edits fit.  The numbers that threads hold are in no version  *)
(* yet, a flush deletes nothing, and a compaction's next output is not one *)
(* of its earlier ones.                                                    *)
FitInv ==
    /\ EditsFit
    /\ edit["flush"].deleted = {}
    /\ Files(current) \subseteq 1..next_file_number
    /\ \A t \in Threads : Claim(t) \cap Files(current) = {}
    /\ \A t \in Threads : pc[t] = "write" => output[t] \notin Files(edit[t].added)
    /\ \A t \in Threads : OneLevel(edit[t].added)

LEMMA FilesMonotone ==
    ASSUME NEW a, NEW b, a \subseteq b
    PROVE  Files(a) \subseteq Files(b)
  BY DEF Files

(* A step that installs no version, takes no number and adds to no edit.   *)
LEMMA QuietFit ==
    ASSUME FitInv, current' = current, next_file_number' = next_file_number,
           \A t \in Threads : edit'[t].added \subseteq edit[t].added,
           edit'["flush"].deleted = {}, edit'["compaction"].deleted \subseteq current,
           \A t \in Threads : pc'[t] = "write" => pc[t] = "write" /\ output'[t] = output[t]
    PROVE  FitInv'
<1>1. \A t \in Threads : Files(edit'[t].added) \subseteq Files(edit[t].added)
  BY FilesMonotone
<1>2. \A t \in Threads : Claim(t)' \subseteq Claim(t)
  BY <1>1 DEF Claim
<1>3. \A t \in Threads : OneLevel(edit'[t].added)
  BY DEF FitInv, OneLevel
<1>4. EditsFit'
  BY DEF FitInv, EditsFit
<1> QED
  BY <1>1, <1>2, <1>3, <1>4 DEF FitInv

(* A thread takes the next number for the file it is about to write.       *)
LEMMA NumberFit ==
    ASSUME PInv, FitInv, NEW t \in Threads, new_file_number(t), pc[t] # "write",
           pc' = [pc EXCEPT ![t] = "write"], UNCHANGED <<current, edit>>
    PROVE  FitInv'
<1>1. PICK n : n = next_file_number + 1
  OBVIOUS
<1>2. /\ next_file_number' = n /\ pc'[t] = "write" /\ output'[t] = n
      /\ \A u \in Threads : u # t => pc'[u] = pc[u] /\ output'[u] = output[u]
  BY <1>1 DEF PInv, PTypes, new_file_number
<1>3. 1..next_file_number \subseteq 1..n /\ n \notin 1..next_file_number
  BY <1>1 DEF PInv, PTypes
<1>4. Claim(t)' = Claim(t) \cup {n}
  BY <1>2 DEF Claim
<1>5. \A u \in Threads : u # t => Claim(u)' = Claim(u)
  BY <1>2 DEF Claim
<1>6. n \notin Files(current) /\ n \notin Files(edit[t].added)
  BY <1>3 DEF FitInv, PInv, ClaimsPending, Claim
<1>7. \A u \in Threads : Claim(u)' \cap Files(current)' = {}
  BY <1>4, <1>5, <1>6 DEF FitInv
<1>8. EditsFit'
  BY DEF FitInv, EditsFit
<1>9. \A u \in Threads : pc'[u] = "write" => output'[u] \notin Files(edit[u].added)
  BY <1>2, <1>6 DEF FitInv
<1> QED
  BY <1>2, <1>3, <1>7, <1>8, <1>9 DEF FitInv

(* The file is written and enters the thread's edit.                       *)
LEMMA WriteFit ==
    ASSUME PInv, FitInv, NEW t \in Threads, NEW i, pc[t] = "write", pc'[t] # "write",
           \A u \in Threads : u # t => pc'[u] = pc[u] /\ edit'[u] = edit[u],
           edit'[t].added = edit[t].added \cup {<<i, output[t]>>},
           edit'[t].deleted = edit[t].deleted,
           UNCHANGED <<current, next_file_number, output>>
    PROVE  FitInv'
<1>1. Files({<<i, output[t]>>}) = {output[t]}
  BY DEF Files
<1>2. Files(edit'[t].added) = Files(edit[t].added) \cup {output[t]}
  BY <1>1, FilesOfUnion
<1>3. \A u \in Threads : Claim(u)' = Claim(u)
  BY <1>2 DEF Claim
<1>4. OneLevel(edit'[t].added)
  <2>1. \A f \in edit[t].added : f[2] # output[t]
    BY DEF FitInv, Files
  <2> QED
    BY <2>1 DEF FitInv, OneLevel
<1>5. EditsFit'
  BY DEF FitInv, EditsFit
<1>6. edit'["flush"].deleted = {}
  BY DEF FitInv
<1>7. \A u \in Threads : OneLevel(edit'[u].added)
  BY <1>4 DEF FitInv
<1>8. \A u \in Threads : pc'[u] = "write" => output'[u] \notin Files(edit'[u].added)
  BY DEF FitInv
<1> QED
  BY <1>3, <1>5, <1>6, <1>7, <1>8 DEF FitInv

(* log_and_apply installs the version: the other thread's edit still fits. *)
LEMMA ApplyFit ==
    ASSUME PInv, FitInv, NEW t \in Threads, LogApply(t)
    PROVE  FitInv'
<1>1. /\ pc[t] = "apply" /\ current' = (current \ edit[t].deleted) \cup edit[t].added
      /\ edit'[t] = NoEdit /\ pc'[t] # "write"
      /\ \A u \in Threads : u # t => edit'[u] = edit[u] /\ pc'[u] = pc[u]
      /\ UNCHANGED <<next_file_number, output>>
  BY DEF LogApply, Applied, AfterApply, PInv, PTypes, Goto
<1>2. edit'[t].added = {} /\ edit'[t].deleted = {} /\ Files({}) = {}
  BY <1>1, FilesOfNone DEF NoEdit
<1>3. Claim(t)' = {} /\ \A u \in Threads : u # t => Claim(u)' = Claim(u)
  BY <1>1, <1>2 DEF Claim
<1>4. Files(current') \subseteq Files(current) \cup Files(edit[t].added)
  BY <1>1 DEF Files
<1>5. Files(edit[t].added) \subseteq Claim(t)
  BY DEF Claim
<1>6. Files(current') \subseteq 1..next_file_number
  BY <1>4, <1>5 DEF FitInv, PInv, ClaimsPending
<1>7. \A u \in Threads : Claim(u)' \cap Files(current') = {}
  BY <1>3, <1>4, <1>5 DEF FitInv, PInv, ClaimsPending
<1>8. OneLevel(current')
  <2>1. Files(current) \cap Files(edit[t].added) = {}
    BY <1>5 DEF FitInv
  <2>2. \A f \in current, g \in edit[t].added : f[2] # g[2]
    BY <2>1 DEF Files
  <2>3. OneLevel(current) /\ OneLevel(edit[t].added)
    BY DEF FitInv, EditsFit, OneLevel
  <2> QED
    BY <1>1, <2>2, <2>3 DEF OneLevel
<1>9. \A u \in Threads : edit'[u].deleted \subseteq current'
  BY <1>1, <1>2 DEF FitInv, EditsFit
<1>10. EditsFit'
  BY <1>8, <1>9 DEF EditsFit, OneLevel
<1>11. edit'["flush"].deleted = {}
  BY <1>1, <1>2 DEF FitInv
<1>12. \A u \in Threads : OneLevel(edit'[u].added)
  BY <1>1, <1>2 DEF FitInv, OneLevel
<1>13. \A u \in Threads : pc'[u] = "write" => output'[u] \notin Files(edit'[u].added)
  BY <1>1 DEF FitInv
<1> QED
  BY <1>1, <1>6, <1>7, <1>10, <1>11, <1>12, <1>13 DEF FitInv

LEMMA StepFit == PInv /\ FitInv /\ [Next]_vars => FitInv'
<1> SUFFICES ASSUME PInv, FitInv, [Next]_vars PROVE FitInv'
  OBVIOUS
<1> USE DEF numbers, versions, log, purge, Goto
<1>0. PTypes /\ edit["flush"].deleted = {} /\ edit["compaction"].deleted \subseteq current
  BY DEF PInv, FitInv, EditsFit
<1>1. ASSUME NEW r \in Readers, Pin(r) \/ Release(r) PROVE FitInv'
  BY <1>0, <1>1, QuietFit DEF Pin, Release
<1>2. CASE FlushBegin
  BY <1>2, NumberFit DEF FlushBegin
<1>3. CASE FlushWrite
  <2>1. edit'["flush"].added = {<<0, output["flush"]>>} /\ edit'["flush"].deleted = {}
        /\ edit'["compaction"] = edit["compaction"]
    BY <1>0, <1>3 DEF FlushWrite, NoEdit, PTypes
  <2>2. edit["flush"].added = {}
    BY <1>3 DEF FlushWrite, PInv, EditsEmpty
  <2>3. pc["flush"] = "write" /\ pc'["flush"] = "log" /\ pc'["compaction"] = pc["compaction"]
    BY <1>0, <1>3 DEF FlushWrite, PTypes
  <2> QED
    BY <1>0, <1>3, <2>1, <2>2, <2>3, WriteFit DEF FlushWrite
<1>4. CASE FlushAbandon
  BY <1>0, <1>4, QuietFit DEF FlushAbandon, PTypes
<1>5. CASE Schedule
  BY <1>0, <1>5, QuietFit DEF Schedule, PTypes
<1>6. CASE Check
  BY <1>0, <1>6, QuietFit DEF Check, PTypes
<1>7. CASE Pick
  <2>1. PICK i \in 0..(TopLevel - 1) :
          \E src \in Inputs(i), overlapping \in SUBSET Level(current, i + 1) :
             edit' = [edit EXCEPT !["compaction"] =
                        [NoEdit EXCEPT !.deleted = src \cup overlapping]]
    BY <1>7 DEF Pick
  <2>2. PICK src \in Inputs(i), overlapping \in SUBSET Level(current, i + 1) :
             edit' = [edit EXCEPT !["compaction"] =
                        [NoEdit EXCEPT !.deleted = src \cup overlapping]]
    BY <2>1
  <2>3. src \subseteq current /\ overlapping \subseteq current
    BY DEF Inputs, Level
  <2>4. /\ edit'["compaction"].added = {} /\ edit'["compaction"].deleted \subseteq current
        /\ edit'["flush"] = edit["flush"]
    BY <1>0, <2>2, <2>3 DEF NoEdit, PTypes
  <2>5. \A t \in Threads : pc'[t] = "write" => pc[t] = "write"
    BY <1>0, <1>7 DEF Pick, PTypes
  <2> QED
    BY <1>0, <1>7, <2>4, <2>5, QuietFit DEF Pick
<1>8. CASE ChunkBegin
  BY <1>8, NumberFit DEF ChunkBegin
<1>9. CASE ChunkWrite
  <2>1. /\ edit'["compaction"].added = edit["compaction"].added \cup {<<target, output["compaction"]>>}
        /\ edit'["compaction"].deleted = edit["compaction"].deleted
        /\ edit'["flush"] = edit["flush"]
    BY <1>0, <1>9 DEF ChunkWrite, PTypes, Edit
  <2>2. pc["compaction"] = "write" /\ pc'["compaction"] = "merge" /\ pc'["flush"] = pc["flush"]
    BY <1>0, <1>9 DEF ChunkWrite, PTypes
  <2> QED
    BY <1>0, <1>9, <2>1, <2>2, WriteFit DEF ChunkWrite
<1>10. CASE MergeEnd
  BY <1>0, <1>10, QuietFit DEF MergeEnd, PTypes
<1>11. ASSUME NEW t \in Threads, LogWrite(t) PROVE FitInv'
  <2>1. \A u \in Threads : edit'[u].added = edit[u].added /\ edit'[u].deleted = edit[u].deleted
    BY <1>0, <1>11 DEF LogWrite, PTypes, Edit
  <2>2. \A u \in Threads : pc'[u] = "write" => pc[u] = "write"
    BY <1>0, <1>11 DEF LogWrite, PTypes
  <2> QED
    BY <1>0, <1>11, <2>1, <2>2, QuietFit DEF LogWrite
<1>12. ASSUME NEW t \in Threads, LogApply(t) PROVE FitInv'
  BY <1>12, ApplyFit
<1>13. CASE LogFails
  <2>1. /\ edit'["flush"].added = {} /\ edit'["flush"].deleted = {}
        /\ edit'["compaction"] = edit["compaction"]
    BY <1>0, <1>13 DEF LogFails, NoEdit, PTypes
  <2>2. \A u \in Threads : pc'[u] = "write" => pc[u] = "write"
    BY <1>0, <1>13 DEF LogFails, PTypes
  <2> QED
    BY <1>0, <1>13, <2>1, <2>2, QuietFit DEF LogFails
<1>14. CASE PurgeCapture
  BY <1>0, <1>14, QuietFit DEF PurgeCapture, PTypes
<1>15. CASE PurgeRemove
  BY <1>0, <1>15, QuietFit DEF PurgeRemove
<1>16. CASE PurgeEnd
  BY <1>0, <1>16, QuietFit DEF PurgeEnd, PTypes
<1>17. CASE UNCHANGED vars
  BY <1>0, <1>17, QuietFit DEF vars
<1> QED
  BY <1>1, <1>2, <1>3, <1>4, <1>5, <1>6, <1>7, <1>8, <1>9, <1>10, <1>11, <1>12, <1>13,
     <1>14, <1>15, <1>16, <1>17 DEF Next

(* However flushes, compactions and failed edits interleave, a table is in *)
(* one level only, and what a compaction chose under an older version is   *)
(* still there when log_and_apply deletes it.                              *)
THEOREM EditsAlwaysFit == Spec => []EditsFit
<1>1. Init => FitInv
  <2> SUFFICES ASSUME Init PROVE FitInv
    OBVIOUS
  <2>1. Files({}) = {}
    BY FilesOfNone
  <2>2. \A t \in Threads : Claim(t) = {} /\ edit[t].added = {} /\ edit[t].deleted = {}
    BY <2>1 DEF Init, Claim, NoEdit
  <2> QED
    BY <2>1, <2>2 DEF Init, FitInv, EditsFit, OneLevel
<1>2. FitInv => EditsFit
  BY DEF FitInv
<1> QED
  BY <1>1, <1>2, InitPInv, StepPInv, StepFit, PTL DEF Spec
=============================================================================
