----------------------------- MODULE Background -----------------------------
(***************************************************************************)
(* Who waits for whom: writers held back while level 0 and the ring are    *)
(* full, the flush thread, compactions and garbage collections on          *)
(* compaction_pool_, the two condition variables and the destructor.       *)
(* Memtables and tables are only counted.                                  *)
(*                                                                         *)
(* A collector rewrites values through execute_write_request: the pool     *)
(* thread it runs on is then a caller like the writers.                    *)
(*                                                                         *)
(* flush_wait_mutex_ guards every wait, so testing a predicate and falling *)
(* asleep is one step.  A thread asleep on a condition variable wakes when *)
(* it is notified; wake-ups without a notification are not counted on.     *)
(***************************************************************************)
EXTENDS Integers, Sequences, FiniteSets

CONSTANTS
    Writers,
    PoolThreads,  \* threads of compaction_pool_ (2 in the code)
    Slots,        \* length of immutables_ (4)
    ScheduleAt,   \* level-0 files that make a thread queue a compaction (4)
    SlowAbove,    \* score above which a writer is held back (3)
    HardAt,       \* score of the hard limit (19)
    L0Trigger,    \* l0_compaction_trigger, as the worker reads it (4)
    MaxGcs,       \* bound: collections queued or running
    MaxRecords    \* bound: values a collection rewrites

ASSUME BackgroundAssumption ==
    /\ {Slots, ScheduleAt, SlowAbove, HardAt, L0Trigger} \subseteq Nat \ {0}
    /\ SlowAbove < HardAt
    /\ {MaxGcs, MaxRecords} \subseteq Nat
    /\ IsFiniteSet(Writers) /\ IsFiniteSet(PoolThreads) /\ Writers \cap PoolThreads = {}

Callers == Writers \cup PoolThreads

VARIABLES
    l0,        \* files at level 0
    imms,      \* occupied slots of the ring
    running,   \* bg_compaction_running_
    tasks,     \* tasks queued: compactions, by who queued them ("put" or "flush"), and "gc"
    pool,      \* thread |-> where it is, its task, files to merge or values to rewrite
    flush,     \* where the flush thread is
    pc,        \* where each caller is
    seen,      \* what each caller counted: l0_count and score
    closing    \* where the destructor is

work == <<l0, imms, running, tasks>>
vars == <<work, pool, flush, pc, seen, closing>>

Idle == [pc |-> "idle", task |-> "none", files |-> 0]

Init ==
    /\ l0 = 0 /\ imms = 0 /\ running = FALSE /\ tasks = <<>>
    /\ pool = [t \in PoolThreads |-> Idle]
    /\ flush = "idle"
    /\ pc = [w \in Callers |-> "idle"]
    /\ seen = [w \in Callers |-> [l0 |-> 0, score |-> 0]]
    /\ closing = "open"

Gcs == Cardinality({i \in DOMAIN tasks : tasks[i] = "gc"}) +
       Cardinality({t \in PoolThreads : pool[t].task = "gc"})

Goto(w, label) == pc' = [pc EXCEPT ![w] = label]

(* notify_all on bg_flush_cv_: writers and the destructor's first wait.    *)
NotifyFlush ==
    /\ pc' = [w \in Callers |-> CASE pc[w] = "asleep" -> "throttle"
                                  [] pc[w] = "slot_asleep" -> "slot"
                                  [] OTHER -> pc[w]]
    /\ closing' = IF closing = "imms_asleep" THEN "imms" ELSE closing

(* notify_all on both condition variables.                                 *)
NotifyBoth ==
    /\ pc' = [w \in Callers |-> CASE pc[w] = "asleep" -> "throttle"
                                  [] pc[w] = "slot_asleep" -> "slot"
                                  [] OTHER -> pc[w]]
    /\ closing' = CASE closing = "imms_asleep" -> "imms"
                    [] closing = "comp_asleep" -> "comp"
                    [] OTHER -> closing

-----------------------------------------------------------------------------
(* execute_write_request up to the queue, and the ring in maybe_flush.     *)
Begin(w) ==
    /\ pc[w] = "idle" /\ closing = "open"
    /\ Goto(w, "schedule")
    /\ seen' = [seen EXCEPT ![w] = [l0 |-> l0, score |-> l0 + imms]]
    /\ UNCHANGED <<work, pool, flush, closing>>

(* Mutated Schedule: bg_compaction_running_ is not tested again.           *)
ScheduleUnchecked(w) ==
    /\ pc[w] = "schedule"
    /\ IF seen[w].l0 >= ScheduleAt
       THEN running' = TRUE /\ tasks' = Append(tasks, "put")
       ELSE UNCHANGED <<running, tasks>>
    /\ Goto(w, "throttle")
    /\ UNCHANGED <<l0, imms, pool, flush, seen, closing>>

Schedule(w) ==
    /\ pc[w] = "schedule"
    /\ IF seen[w].l0 >= ScheduleAt /\ ~running
       THEN running' = TRUE /\ tasks' = Append(tasks, "put")
       ELSE UNCHANGED <<running, tasks>>
    /\ Goto(w, "throttle")
    /\ UNCHANGED <<l0, imms, pool, flush, seen, closing>>

MayWrite(w) ==
    LET limit == IF seen[w].score >= HardAt THEN HardAt ELSE seen[w].score
    IN  seen[w].score <= SlowAbove \/ l0 + imms < limit

(* Mutated Throttle: the limit itself is let through.                      *)
ThrottleAtLimit(w) ==
    /\ pc[w] = "throttle"
    /\ Goto(w, IF seen[w].score <= SlowAbove \/ l0 + imms <= seen[w].score THEN "write" ELSE "asleep")
    /\ UNCHANGED <<work, pool, flush, seen, closing>>

Throttle(w) ==
    /\ pc[w] = "throttle"
    /\ Goto(w, IF MayWrite(w) THEN "write" ELSE "asleep")
    /\ UNCHANGED <<work, pool, flush, seen, closing>>

(* The memtable has room.                                                  *)
Write(w) ==
    /\ pc[w] = "write"
    /\ Goto(w, "idle")
    /\ seen' = [seen EXCEPT ![w] = [l0 |-> 0, score |-> 0]]
    /\ UNCHANGED <<work, pool, flush, closing>>

(* The commit of the batch starts a new value log, and queues a collection.*)
WriteRotates(w) ==
    /\ pc[w] = "write"
    /\ Gcs < MaxGcs
    /\ tasks' = Append(tasks, "gc")
    /\ Goto(w, "idle")
    /\ seen' = [seen EXCEPT ![w] = [l0 |-> 0, score |-> 0]]
    /\ UNCHANGED <<l0, imms, running, pool, flush, closing>>

(* It is full: freeze it, waiting for a slot if the ring is full.          *)
NeedSlot(w) ==
    /\ pc[w] = "write"
    /\ \A v \in Callers : pc[v] \notin {"slot", "slot_asleep"}
    /\ Goto(w, "slot")
    /\ UNCHANGED <<work, pool, flush, seen, closing>>

TakeSlot(w) ==
    /\ pc[w] = "slot"
    /\ IF imms < Slots
       THEN /\ imms' = imms + 1
            /\ Goto(w, "idle")
            /\ seen' = [seen EXCEPT ![w] = [l0 |-> 0, score |-> 0]]
       ELSE /\ Goto(w, "slot_asleep")
            /\ UNCHANGED <<imms, seen>>
    /\ UNCHANGED <<l0, running, tasks, pool, flush, closing>>

-----------------------------------------------------------------------------
(* The flush task: publish the table, queue a compaction if level 0 is     *)
(* full and none runs, empty the slot, notify.                             *)
FlushPublish ==
    /\ flush = "idle" /\ imms > 0 /\ closing # "flush_stopped"
    /\ l0' = l0 + 1
    /\ flush' = "schedule"
    /\ UNCHANGED <<imms, running, tasks, pool, pc, seen, closing>>

(* The table cannot be written, loaded or logged: the slot is emptied all  *)
(* the same, and only a failing log_and_apply still looks at level 0.      *)
FlushFails ==
    /\ flush = "idle" /\ imms > 0 /\ closing # "flush_stopped"
    /\ flush' \in {"schedule", "reset"}
    /\ UNCHANGED <<work, pool, pc, seen, closing>>

FlushSchedule ==
    /\ flush = "schedule"
    /\ IF l0 >= ScheduleAt /\ ~running
       THEN running' = TRUE /\ tasks' = Append(tasks, "flush")
       ELSE UNCHANGED <<running, tasks>>
    /\ flush' = "reset"
    /\ UNCHANGED <<l0, imms, pool, pc, seen, closing>>

FlushReset ==
    /\ flush = "reset"
    /\ imms' = imms - 1
    /\ flush' = "notify"
    /\ UNCHANGED <<l0, running, tasks, pool, pc, seen, closing>>

(* Mutated FlushNotify: nobody is woken.                                   *)
FlushNotifyNobody ==
    /\ flush = "notify"
    /\ flush' = "idle"
    /\ UNCHANGED <<work, pool, pc, seen, closing>>

FlushNotify ==
    /\ flush = "notify"
    /\ NotifyFlush
    /\ flush' = "idle"
    /\ UNCHANGED <<work, pool, seen>>

-----------------------------------------------------------------------------
Enter(t, label, n) == pool' = [pool EXCEPT ![t].pc = label, ![t].files = n]

(* A pool thread takes a task.                                             *)
Dequeue(t) ==
    /\ pool[t].pc = "idle" /\ tasks # <<>> /\ closing # "closed"
    /\ \/ /\ Head(tasks) # "gc"
          /\ pool' = [pool EXCEPT ![t] = [pc |-> "check", task |-> Head(tasks), files |-> 0]]
       \/ /\ Head(tasks) = "gc"
          /\ \E n \in 0..MaxRecords : pool' = [pool EXCEPT ![t] = [pc |-> "collect", task |-> "gc", files |-> n]]
    /\ tasks' = Tail(tasks)
    /\ UNCHANGED <<l0, imms, running, flush, pc, seen, closing>>

(* run_vlog_gc: a live value is put again, as by a writer.                 *)
Rewrite(t) ==
    /\ pool[t].pc = "collect" /\ pool[t].files > 0 /\ pc[t] = "idle"
    /\ Enter(t, "collect", pool[t].files - 1)
    /\ Goto(t, "schedule")
    /\ seen' = [seen EXCEPT ![t] = [l0 |-> l0, score |-> l0 + imms]]
    /\ UNCHANGED <<work, flush, closing>>

Collected(t) ==
    /\ pool[t].pc = "collect" /\ pool[t].files = 0 /\ pc[t] = "idle"
    /\ pool' = [pool EXCEPT ![t] = Idle]
    /\ UNCHANGED <<work, flush, pc, seen, closing>>

(* bg_compaction_worker: compact while level 0 has reached the trigger.    *)
Check(t) ==
    /\ pool[t].pc = "check"
    /\ IF l0 >= L0Trigger THEN Enter(t, "merge", l0) ELSE Enter(t, "clear", 0)
    /\ UNCHANGED <<work, flush, pc, seen, closing>>

(* run_compaction installs its edit: the files it read at the start leave. *)
Merge(t) ==
    /\ pool[t].pc = "merge"
    /\ l0' = l0 - pool[t].files
    /\ Enter(t, "check", 0)
    /\ UNCHANGED <<imms, running, tasks, flush, pc, seen, closing>>

ClearRunning(t) ==
    /\ pool[t].pc = "clear"
    /\ running' = FALSE
    /\ Enter(t, "notify", 0)
    /\ UNCHANGED <<l0, imms, tasks, flush, pc, seen, closing>>

(* Mutated CompactionNotify: nobody is woken.                              *)
CompactionNotifyNobody(t) ==
    /\ pool[t].pc = "notify"
    /\ pool' = [pool EXCEPT ![t] = Idle]
    /\ UNCHANGED <<work, flush, pc, seen, closing>>

(* A task queued by a writer notifies both condition variables; one queued *)
(* by the flush thread notifies bg_flush_cv_ twice.                        *)
CompactionNotify(t) ==
    /\ pool[t].pc = "notify"
    /\ IF pool[t].task = "put" THEN NotifyBoth ELSE NotifyFlush
    /\ pool' = [pool EXCEPT ![t] = Idle]
    /\ UNCHANGED <<work, flush, seen>>

-----------------------------------------------------------------------------
(* ~KVStore, once the clients have returned.                               *)
Close ==
    /\ closing = "open" /\ \A w \in Writers : pc[w] = "idle"
    /\ closing' = "imms"
    /\ UNCHANGED <<work, pool, flush, pc, seen>>

AwaitFlush ==
    /\ closing = "imms"
    /\ closing' = IF imms = 0 THEN "comp" ELSE "imms_asleep"
    /\ UNCHANGED <<work, pool, flush, pc, seen>>

AwaitCompaction ==
    /\ closing = "comp"
    /\ closing' = IF running THEN "comp_asleep" ELSE "stop"
    /\ UNCHANGED <<work, pool, flush, pc, seen>>

(* The pools are stopped, flush_pool_ first, when their running tasks have *)
(* ended.                                                                  *)
StopFlushPool ==
    /\ closing = "stop" /\ flush = "idle"
    /\ closing' = "flush_stopped"
    /\ UNCHANGED <<work, pool, flush, pc, seen>>

StopCompactionPool ==
    /\ closing = "flush_stopped" /\ \A t \in PoolThreads : pool[t].pc = "idle"
    /\ closing' = "closed"
    /\ UNCHANGED <<work, pool, flush, pc, seen>>

-----------------------------------------------------------------------------
Proceed(w) == Schedule(w) \/ Throttle(w) \/ Write(w) \/ WriteRotates(w) \/ NeedSlot(w) \/ TakeSlot(w)
Flush == FlushPublish \/ FlushFails \/ FlushSchedule \/ FlushReset \/ FlushNotify
Compact(t) ==
    \/ Dequeue(t) \/ Check(t) \/ Merge(t) \/ ClearRunning(t) \/ CompactionNotify(t)
    \/ Rewrite(t) \/ Collected(t)
Destroy == AwaitFlush \/ AwaitCompaction \/ StopFlushPool \/ StopCompactionPool

Next ==
    \/ \E w \in Writers : Begin(w)
    \/ \E w \in Callers : Proceed(w)
    \/ Flush \/ Close \/ Destroy
    \/ \E t \in PoolThreads : Compact(t)

Spec == Init /\ [][Next]_vars

(* Every thread that can take a step takes one; clients owe no call.       *)
FairSpec ==
    /\ Spec
    /\ \A w \in Callers : WF_vars(Proceed(w))
    /\ WF_vars(Flush) /\ WF_vars(Destroy)
    /\ \A t \in PoolThreads : WF_vars(Compact(t))

-----------------------------------------------------------------------------
(* Counters stay in range: the ring never overflows, level 0 never goes    *)
(* below zero.                                                             *)
TypeOK ==
    /\ l0 \in Nat /\ imms \in 0..Slots /\ running \in BOOLEAN
    /\ tasks \in Seq({"put", "flush", "gc"})
    /\ \A t \in PoolThreads : pool[t].pc \in {"idle", "check", "merge", "clear", "notify", "collect"}
    /\ flush \in {"idle", "schedule", "reset", "notify"}
    /\ pc \in [Callers -> {"idle", "schedule", "throttle", "asleep", "write", "slot", "slot_asleep"}]
    /\ closing \in {"open", "imms", "imms_asleep", "comp", "comp_asleep", "stop", "flush_stopped", "closed"}

Working(t) == pool[t].pc \in {"check", "merge", "clear"}

(* At most one compaction is queued or running, although writers and the   *)
(* flush thread both start them and the pool has several threads: two at a *)
(* time would merge the same files.  The flag is up exactly meanwhile.     *)
OneCompaction ==
    /\ \A i, j \in DOMAIN tasks : tasks[i] # "gc" /\ tasks[j] # "gc" => i = j
    /\ \A t, u \in PoolThreads : Working(t) /\ Working(u) => t = u
    /\ \A i \in DOMAIN tasks : tasks[i] # "gc" => \A t \in PoolThreads : ~Working(t)
    /\ running <=> \/ \E i \in DOMAIN tasks : tasks[i] # "gc"
                   \/ \E t \in PoolThreads : Working(t)

(* The backlog stays within the hard limit plus one table per caller that  *)
(* passed it at the same time.  The soft limit gives no bound: a caller    *)
(* that counts a table while it is both in the ring and at level 0 waits   *)
(* for nothing.                                                            *)
BacklogBounded == l0 + imms <= HardAt + Cardinality(Callers)

(* A leader that found the ring full goes on: the flush thread frees its   *)
(* slot whatever compaction does, until the destructor stops that thread.  *)
(* The next leader can come for a slot only when this one has its own.     *)
SlotWaitEnds ==
    LET Waiting == \E w \in Callers : pc[w] \in {"slot", "slot_asleep"}
    IN  Waiting ~> ~Waiting \/ closing = "flush_stopped"

(* Nothing moves: level 0 is full and nobody merges it, since the thread   *)
(* that would start a compaction saw the last one running, or since every  *)
(* pool thread is a collector that waits for the compaction behind it.     *)
Stalled ==
    /\ l0 >= ScheduleAt /\ imms = 0 /\ flush = "idle"
    /\ \A w \in Callers : pc[w] \in {"idle", "asleep"}
    /\ \A t \in PoolThreads : IF pool[t].pc = "idle" THEN tasks = <<>>
                              ELSE pool[t].pc = "collect" /\ pc[t] = "asleep"

(* Once the clients make no more calls and no more value logs start (new   *)
(* calls and new collections could always overtake), every write in        *)
(* progress returns, or everything comes to the standstill above: in no    *)
(* other way do notifications get lost or threads wait for each other,     *)
(* collectors included.                                                    *)
WritesReturnOrStall ==
    <>[][\A w \in Callers : ~Begin(w) /\ ~WriteRotates(w)]_vars =>
        <>[](Stalled \/ closing = "flush_stopped" \/ \A w \in Callers : pc[w] = "idle")

(* A throttled write eventually goes through.                              *)
EveryWriteReturns == \A w \in Callers : pc[w] # "idle" ~> pc[w] = "idle"

(* The destructor, once called, returns.                                   *)
DestructorReturns == closing # "open" ~> closing = "closed"
=============================================================================
