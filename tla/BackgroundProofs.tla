-------------------------- MODULE BackgroundProofs --------------------------
(***************************************************************************)
(* Compactions never overlap and the backlog stays bounded, whatever the   *)
(* number of writers, of pool threads and of collections, and whatever the *)
(* limits.  OneCompaction is inductive once the queue and the pool have    *)
(* their types; the bound needs a ledger of the callers that will write    *)
(* without looking at the backlog again.                                   *)
(***************************************************************************)
EXTENDS Background, FiniteSetTheorems, TLAPS

PoolStates == [pc : {"idle", "check", "merge", "clear", "notify", "collect"},
               task : {"none", "put", "flush", "gc"}, files : Int]

Tasks == {"put", "flush", "gc"}

BTypes ==
    /\ running \in BOOLEAN
    /\ tasks \in Seq(Tasks)
    /\ pool \in [PoolThreads -> PoolStates]
    /\ l0 \in Int

BInv == BTypes /\ OneCompaction

LEMMA InitBInv == Init => BInv
<1> SUFFICES ASSUME Init PROVE BInv
  OBVIOUS
<1>1. Idle \in PoolStates /\ Idle.pc = "idle"
  BY DEF Idle, PoolStates
<1>2. \A t \in PoolThreads : ~Working(t)
  BY <1>1 DEF Init, Working
<1>3. BTypes
  <2>1. pool \in [PoolThreads -> PoolStates]
    BY <1>1 DEF Init
  <2>2. running \in BOOLEAN
    BY Zenon DEF Init
  <2>3. l0 \in Int
    BY SMT DEF Init
  <2>4. tasks \in Seq(Tasks)
    BY DEF Init, Tasks
  <2> QED BY <2>1, <2>2, <2>3, <2>4 DEF BTypes
<1> QED
  <2>1. running = FALSE /\ DOMAIN tasks = {}
    BY DEF Init
  <2> QED BY <1>2, <1>3, <2>1 DEF BInv, OneCompaction

(* The indices of a queue that grows at its end.                           *)
LEMMA AppendIndices ==
    ASSUME NEW q \in Seq(Tasks), NEW e \in Tasks
    PROVE  /\ Append(q, e) \in Seq(Tasks)
           /\ DOMAIN Append(q, e) = DOMAIN q \cup {Len(q) + 1}
           /\ Len(q) + 1 \notin DOMAIN q
           /\ \A i \in DOMAIN q : Append(q, e)[i] = q[i]
           /\ Append(q, e)[Len(q) + 1] = e
<1>1. DOMAIN q = 1..Len(q) /\ DOMAIN Append(q, e) = 1..(Len(q) + 1) /\ Len(q) \in Nat
  OBVIOUS
<1>2. 1..(Len(q) + 1) = 1..Len(q) \cup {Len(q) + 1} /\ Len(q) + 1 \notin 1..Len(q)
  BY <1>1
<1> QED BY <1>1, <1>2

(* The indices of a queue that loses its head.                             *)
LEMMA TailIndices ==
    ASSUME NEW q \in Seq(Tasks), q # <<>>
    PROVE  /\ Tail(q) \in Seq(Tasks) /\ Head(q) \in Tasks
           /\ 1 \in DOMAIN q /\ q[1] = Head(q)
           /\ \A i \in DOMAIN Tail(q) : i + 1 \in DOMAIN q /\ i + 1 # 1 /\ Tail(q)[i] = q[i + 1]
           /\ \A i \in DOMAIN q : i # 1 => i - 1 \in DOMAIN Tail(q) /\ Tail(q)[i - 1] = q[i]
<1>1. DOMAIN q = 1..Len(q) /\ Len(q) \in Nat /\ Len(q) >= 1
  OBVIOUS
<1>2. Tail(q) \in Seq(Tasks) /\ DOMAIN Tail(q) = 1..(Len(q) - 1) /\ Head(q) = q[1]
  BY <1>1
<1>3. \A i \in 1..(Len(q) - 1) : Tail(q)[i] = q[i + 1]
  BY <1>1
<1> QED BY <1>1, <1>2, <1>3

(* A step that leaves the queue, the flag and who compacts alone.          *)
LEMMA QuietBInv ==
    ASSUME BInv, UNCHANGED <<running, tasks>>, l0' \in Int,
           pool' \in [PoolThreads -> PoolStates],
           \A t \in PoolThreads : Working(t)' <=> Working(t)
    PROVE  BInv'
BY DEF BInv, BTypes, OneCompaction

(* A step that leaves the whole pool alone, too.                           *)
LEMMA SilentBInv ==
    ASSUME BInv, UNCHANGED <<running, tasks, pool>>, l0' \in Int
    PROVE  BInv'
<1>1. \A t \in PoolThreads : Working(t)' <=> Working(t)
  BY DEF Working
<1> QED BY <1>1, QuietBInv DEF BInv, BTypes

(* Queueing a compaction when the flag is down.                            *)
LEMMA EnqueueBInv ==
    ASSUME BInv, NEW who \in {"put", "flush"}, ~running,
           running' = TRUE, tasks' = Append(tasks, who), UNCHANGED <<pool, l0>>
    PROVE  BInv'
<1>1. (\A i \in DOMAIN tasks : tasks[i] = "gc") /\ \A t \in PoolThreads : ~Working(t)
  BY DEF BInv, OneCompaction
<1>2. tasks \in Seq(Tasks) /\ who \in Tasks
  BY DEF BInv, BTypes, Tasks
<1>3. /\ tasks' \in Seq(Tasks) /\ DOMAIN tasks' = DOMAIN tasks \cup {Len(tasks) + 1}
      /\ \A i \in DOMAIN tasks : tasks'[i] = tasks[i]
      /\ tasks'[Len(tasks) + 1] = who
  BY <1>2, AppendIndices
<1>4. \A t \in PoolThreads : ~Working(t)'
  BY <1>1 DEF Working
<1>5. \A i \in DOMAIN tasks' : tasks'[i] # "gc" <=> i = Len(tasks) + 1
  BY <1>1, <1>3
<1> QED
  BY <1>3, <1>4, <1>5 DEF BInv, BTypes, OneCompaction

(* Queueing a collection.                                                  *)
LEMMA CollectBInv ==
    ASSUME BInv, tasks' = Append(tasks, "gc"), UNCHANGED <<running, pool, l0>>
    PROVE  BInv'
<1>1. tasks \in Seq(Tasks) /\ "gc" \in Tasks
  BY DEF BInv, BTypes, Tasks
<1>2. /\ tasks' \in Seq(Tasks) /\ DOMAIN tasks' = DOMAIN tasks \cup {Len(tasks) + 1}
      /\ \A i \in DOMAIN tasks : tasks'[i] = tasks[i]
      /\ tasks'[Len(tasks) + 1] = "gc"
  BY <1>1, AppendIndices
<1>3. \A t \in PoolThreads : Working(t)' <=> Working(t)
  BY DEF Working
<1>4. \A i \in DOMAIN tasks' : tasks'[i] # "gc" => i \in DOMAIN tasks /\ tasks[i] # "gc"
  BY <1>2
<1>5. \A i \in DOMAIN tasks : tasks[i] # "gc" => i \in DOMAIN tasks' /\ tasks'[i] # "gc"
  BY <1>2
<1>6. BTypes' /\ BTypes /\ OneCompaction
  BY <1>2 DEF BInv, BTypes
<1>7. OneCompaction'
  BY <1>3, <1>4, <1>5, <1>6 DEF OneCompaction
<1> QED
  BY <1>6, <1>7 DEF BInv

(* What Enter does to the pool.                                            *)
LEMMA EnterTypes ==
    ASSUME BTypes, NEW t \in PoolThreads, NEW n \in Int,
           NEW label \in {"idle", "check", "merge", "clear", "notify", "collect"}, Enter(t, label, n)
    PROVE  /\ pool' \in [PoolThreads -> PoolStates] /\ pool'[t].pc = label
           /\ \A u \in PoolThreads : u # t => pool'[u] = pool[u]
<1>1. pool' \in [PoolThreads -> PoolStates] /\ pool'[t].pc = label
  BY DEF BTypes, PoolStates, Enter
<1>2. \A u \in PoolThreads : u # t => pool'[u] = pool[u]
  BY DEF BTypes, Enter
<1> QED BY <1>1, <1>2

(* A pool thread that moves within a task.                                 *)
LEMMA EnterBInv ==
    ASSUME BInv, NEW t \in PoolThreads, Working(t), NEW label \in {"check", "merge", "clear"},
           NEW n \in Int, Enter(t, label, n), UNCHANGED <<running, tasks>>, l0' \in Int
    PROVE  BInv'
<1>1. /\ pool' \in [PoolThreads -> PoolStates] /\ pool'[t].pc = label
      /\ \A u \in PoolThreads : u # t => pool'[u] = pool[u]
  BY EnterTypes DEF BInv
<1>2. \A u \in PoolThreads : Working(u)' <=> Working(u)
  BY <1>1 DEF Working
<1> QED
  BY <1>1, <1>2, QuietBInv

LEMMA StepBInv == BInv /\ [Next]_vars => BInv'
<1> SUFFICES ASSUME BInv, [Next]_vars PROVE BInv'
  OBVIOUS
<1>0. BTypes /\ OneCompaction
  BY DEF BInv
<1>1. ASSUME NEW w \in Writers, Begin(w) PROVE BInv'
  BY <1>0, <1>1, SilentBInv DEF Begin, work, BTypes
<1>2. ASSUME NEW w \in Callers, Schedule(w) PROVE BInv'
  <2>1. CASE seen[w].l0 >= ScheduleAt /\ ~running
    BY <1>2, <2>1, EnqueueBInv DEF Schedule
  <2>2. CASE ~(seen[w].l0 >= ScheduleAt /\ ~running)
    BY <1>0, <1>2, <2>2, SilentBInv DEF Schedule, BTypes
  <2> QED BY <2>1, <2>2
<1>3. ASSUME NEW w \in Callers, Throttle(w) \/ Write(w) \/ NeedSlot(w) PROVE BInv'
  BY <1>0, <1>3, SilentBInv DEF Throttle, Write, NeedSlot, work, BTypes
<1>4. ASSUME NEW w \in Callers, TakeSlot(w) PROVE BInv'
  BY <1>0, <1>4, SilentBInv DEF TakeSlot, BTypes
<1>5. ASSUME NEW w \in Callers, WriteRotates(w) PROVE BInv'
  BY <1>5, CollectBInv DEF WriteRotates
<1>6. ASSUME FlushPublish \/ FlushFails PROVE BInv'
  BY <1>0, <1>6, SilentBInv DEF FlushPublish, FlushFails, work, BTypes
<1>7. ASSUME FlushSchedule PROVE BInv'
  <2>1. CASE l0 >= ScheduleAt /\ ~running
    BY <1>7, <2>1, EnqueueBInv DEF FlushSchedule
  <2>2. CASE ~(l0 >= ScheduleAt /\ ~running)
    BY <1>0, <1>7, <2>2, SilentBInv DEF FlushSchedule, BTypes
  <2> QED BY <2>1, <2>2
<1>8. ASSUME FlushReset \/ FlushNotify PROVE BInv'
  BY <1>0, <1>8, SilentBInv DEF FlushReset, FlushNotify, work, BTypes
<1>9. ASSUME NEW t \in PoolThreads, Dequeue(t) PROVE BInv'
  <2>1. /\ tasks' = Tail(tasks) /\ tasks' \in Seq(Tasks) /\ Head(tasks) \in Tasks
        /\ 1 \in DOMAIN tasks /\ tasks[1] = Head(tasks)
        /\ \A i \in DOMAIN tasks' : i + 1 \in DOMAIN tasks /\ i + 1 # 1 /\ tasks'[i] = tasks[i + 1]
        /\ \A i \in DOMAIN tasks : i # 1 => i - 1 \in DOMAIN tasks' /\ tasks'[i - 1] = tasks[i]
    BY <1>0, <1>9, TailIndices DEF Dequeue, BTypes
  <2>2. UNCHANGED <<l0, running>> /\ pool[t].pc = "idle" /\ ~Working(t)
    BY <1>9 DEF Dequeue, Working
  <2>3. CASE Head(tasks) # "gc"
    <3>1. /\ pool' \in [PoolThreads -> PoolStates] /\ pool'[t].pc = "check"
          /\ \A u \in PoolThreads : u # t => pool'[u] = pool[u]
      <4>1. pool' = [pool EXCEPT ![t] = [pc |-> "check", task |-> Head(tasks), files |-> 0]]
        BY <1>9, <2>3 DEF Dequeue
      <4>2. [pc |-> "check", task |-> Head(tasks), files |-> 0] \in PoolStates
        BY <2>1 DEF PoolStates, Tasks
      <4> QED BY <1>0, <4>1, <4>2 DEF BTypes
    <3>2. running /\ (\A u \in PoolThreads : ~Working(u)) /\ \A i \in DOMAIN tasks : tasks[i] # "gc" => i = 1
      BY <1>0, <2>1, <2>3 DEF OneCompaction
    <3>3. \A u \in PoolThreads : Working(u)' <=> u = t
      BY <3>1, <3>2 DEF Working
    <3>4. \A i \in DOMAIN tasks' : tasks'[i] = "gc"
      BY <2>1, <3>2
    <3>5. BTypes'
      BY <1>0, <2>1, <2>2, <3>1 DEF BTypes
    <3> QED
      BY <2>2, <3>2, <3>3, <3>4, <3>5 DEF BInv, OneCompaction
  <2>4. CASE Head(tasks) = "gc"
    <3>1. /\ pool' \in [PoolThreads -> PoolStates] /\ pool'[t].pc = "collect"
          /\ \A u \in PoolThreads : u # t => pool'[u] = pool[u]
      <4>1. PICK n \in 0..MaxRecords : pool' = [pool EXCEPT ![t] = [pc |-> "collect", task |-> "gc", files |-> n]]
        BY <1>9, <2>4 DEF Dequeue
      <4>2. [pc |-> "collect", task |-> "gc", files |-> n] \in PoolStates
        BY DEF PoolStates
      <4> QED BY <1>0, <4>1, <4>2 DEF BTypes
    <3>2. \A u \in PoolThreads : Working(u)' <=> Working(u)
      BY <2>2, <3>1 DEF Working
    <3>3. \A i \in DOMAIN tasks' : tasks'[i] # "gc" => i \in Int /\ i + 1 \in DOMAIN tasks /\ tasks[i + 1] # "gc"
      BY <2>1
    <3>4. (\E i \in DOMAIN tasks' : tasks'[i] # "gc") <=> \E i \in DOMAIN tasks : tasks[i] # "gc"
      BY <2>1, <2>4
    <3>5. BTypes'
      BY <1>0, <2>1, <2>2, <3>1 DEF BTypes
    <3>6. \A i, j \in DOMAIN tasks' : tasks'[i] # "gc" /\ tasks'[j] # "gc" => i = j
      BY <1>0, <3>3 DEF OneCompaction
    <3>7. OneCompaction'
      <4>1. \A i \in DOMAIN tasks' : tasks'[i] # "gc" => \A u \in PoolThreads : ~Working(u)'
        BY <1>0, <3>2, <3>3 DEF OneCompaction
      <4>2. \A u, v \in PoolThreads : Working(u)' /\ Working(v)' => u = v
        BY <1>0, <3>2 DEF OneCompaction
      <4>3. running' <=> (\E i \in DOMAIN tasks' : tasks'[i] # "gc") \/ \E u \in PoolThreads : Working(u)'
        BY <1>0, <2>2, <3>2, <3>4 DEF OneCompaction
      <4> QED BY <3>6, <4>1, <4>2, <4>3 DEF OneCompaction
    <3> QED
      BY <3>5, <3>7 DEF BInv
  <2> QED BY <2>3, <2>4
<1>10. ASSUME NEW t \in PoolThreads, Check(t) PROVE BInv'
  <2>1. Working(t) /\ 0 \in Int /\ l0 \in Int /\ l0' = l0
    BY <1>0, <1>10 DEF Check, Working, work, BTypes
  <2>2. CASE l0 >= L0Trigger
    BY <1>10, <2>1, <2>2, EnterBInv DEF Check, work
  <2>3. CASE ~(l0 >= L0Trigger)
    BY <1>10, <2>1, <2>3, EnterBInv DEF Check, work
  <2> QED BY <2>2, <2>3
<1>11. ASSUME NEW t \in PoolThreads, Merge(t) PROVE BInv'
  <2>1. Working(t) /\ 0 \in Int /\ l0' \in Int
    BY <1>0, <1>11 DEF Merge, Working, BTypes, PoolStates
  <2> QED BY <1>11, <2>1, EnterBInv DEF Merge
<1>12. ASSUME NEW t \in PoolThreads, ClearRunning(t) PROVE BInv'
  <2>1. Working(t) /\ (\A i \in DOMAIN tasks : tasks[i] = "gc") /\ \A u \in PoolThreads : Working(u) => u = t
    BY <1>0, <1>12 DEF ClearRunning, Working, OneCompaction
  <2>2. /\ pool' \in [PoolThreads -> PoolStates] /\ pool'[t].pc = "notify"
        /\ \A u \in PoolThreads : u # t => pool'[u] = pool[u]
    BY <1>0, <1>12, EnterTypes DEF ClearRunning
  <2>3. \A u \in PoolThreads : ~Working(u)'
    BY <2>1, <2>2 DEF Working
  <2> QED
    BY <1>0, <1>12, <2>1, <2>2, <2>3 DEF ClearRunning, BInv, BTypes, OneCompaction
<1>13. ASSUME NEW t \in PoolThreads, CompactionNotify(t) PROVE BInv'
  <2>1. /\ pool' \in [PoolThreads -> PoolStates] /\ pool'[t].pc = "idle"
        /\ \A u \in PoolThreads : u # t => pool'[u] = pool[u]
    BY <1>0, <1>13 DEF CompactionNotify, Idle, BTypes, PoolStates
  <2>2. \A u \in PoolThreads : Working(u)' <=> Working(u)
    BY <1>13, <2>1 DEF Working, CompactionNotify
  <2> QED
    BY <1>0, <1>13, <2>1, <2>2, QuietBInv DEF CompactionNotify, work, BTypes
<1>14. ASSUME NEW t \in PoolThreads, Rewrite(t) PROVE BInv'
  <2>1. pool[t].files - 1 \in Int /\ "collect" \in {"idle", "check", "merge", "clear", "notify", "collect"}
    BY <1>0 DEF BTypes, PoolStates
  <2>2. /\ pool' \in [PoolThreads -> PoolStates] /\ pool'[t].pc = "collect"
        /\ \A u \in PoolThreads : u # t => pool'[u] = pool[u]
    BY <1>0, <1>14, <2>1, EnterTypes DEF Rewrite
  <2>3. \A u \in PoolThreads : Working(u)' <=> Working(u)
    BY <1>14, <2>2 DEF Rewrite, Working
  <2> QED
    BY <1>0, <1>14, <2>2, <2>3, QuietBInv DEF Rewrite, work, BTypes
<1>15. ASSUME NEW t \in PoolThreads, Collected(t) PROVE BInv'
  <2>1. /\ pool' \in [PoolThreads -> PoolStates] /\ pool'[t].pc = "idle"
        /\ \A u \in PoolThreads : u # t => pool'[u] = pool[u]
    BY <1>0, <1>15 DEF Collected, Idle, BTypes, PoolStates
  <2>2. \A u \in PoolThreads : Working(u)' <=> Working(u)
    BY <1>15, <2>1 DEF Working, Collected
  <2> QED
    BY <1>0, <1>15, <2>1, <2>2, QuietBInv DEF Collected, work, BTypes
<1>16. ASSUME Close \/ Destroy \/ UNCHANGED vars PROVE BInv'
  BY <1>0, <1>16, SilentBInv DEF Close, Destroy, AwaitFlush, AwaitCompaction, StopFlushPool, StopCompactionPool, work, vars, BTypes
<1> QED
  BY <1>1, <1>2, <1>3, <1>4, <1>6, <1>7, <1>8, <1>9, <1>10, <1>11, <1>12, <1>13, <1>16, <1>5, <1>14, <1>15
     DEF Next, Proceed, Flush, Compact

(* At most one compaction is queued or running at any time, and            *)
(* bg_compaction_running_ is up exactly then: VersionSet's one compaction  *)
(* thread stands for the whole pool.                                       *)
THEOREM CompactionsNeverOverlap == Spec => []OneCompaction
<1>1. BInv => OneCompaction
  BY DEF BInv
<1> QED
  BY <1>1, InitBInv, StepBInv, PTL DEF Spec

-----------------------------------------------------------------------------
(* A caller that will write without looking at the backlog again.          *)
HoldsTicket(w) ==
    \/ pc[w] \in {"write", "slot", "slot_asleep"}
    \/ pc[w] \in {"schedule", "throttle", "asleep"} /\ seen[w].score <= SlowAbove

Tickets == {w \in Callers : HoldsTicket(w)}

(* The tables there are: one being flushed is counted twice by the code.   *)
Moving == IF flush \in {"schedule", "reset"} THEN 1 ELSE 0
Stored == l0 + imms - Moving

LTypes ==
    /\ l0 \in Int /\ imms \in Int
    /\ \A t \in PoolThreads : pool[t].files \in Nat
    /\ DOMAIN pool = PoolThreads
    /\ DOMAIN pc = Callers
    /\ seen \in [Callers -> [l0 : Int, score : Int]]

(* Every ticket was given out below the hard limit and adds at most one    *)
(* table.                                                                  *)
Ledger == LTypes /\ Stored + Cardinality(Tickets) < HardAt + Cardinality(Callers)

LEMMA Limits == /\ HardAt \in Nat /\ SlowAbove \in Nat /\ L0Trigger \in Nat
                /\ SlowAbove < HardAt /\ Slots \in Nat /\ HardAt > 0 /\ MaxRecords \in Nat
  BY BackgroundAssumption

(* Sets of callers can be counted.                                         *)
LEMMA CallersCount ==
    ASSUME NEW S \in SUBSET Callers
    PROVE  /\ IsFiniteSet(S) /\ Cardinality(S) \in Nat /\ Cardinality(Callers) \in Nat
           /\ Cardinality(S) <= Cardinality(Callers)
<1>1. IsFiniteSet(Callers)
  BY BackgroundAssumption, FS_Union DEF Callers
<1>2. IsFiniteSet(S) /\ Cardinality(S) <= Cardinality(Callers)
  BY <1>1, FS_Subset
<1> QED
  BY <1>1, <1>2, FS_CardinalityType

LEMMA StoredIs ==
    ASSUME LTypes
    PROVE  Stored \in Int /\ Moving \in {0, 1} /\ Stored <= l0 + imms /\ l0 + imms <= Stored + 1
  BY DEF LTypes, Stored, Moving

(* No new table and no new ticket.                                         *)
LEMMA QuietLedger ==
    ASSUME Ledger, LTypes', Stored' <= Stored, Tickets' \subseteq Tickets
    PROVE  Ledger'
<1>1. Tickets \in SUBSET Callers /\ Tickets' \in SUBSET Tickets
  BY DEF Tickets
<1>2. IsFiniteSet(Tickets) /\ Cardinality(Tickets) \in Nat /\ Cardinality(Callers) \in Nat
  BY <1>1, CallersCount
<1>3. Cardinality(Tickets') <= Cardinality(Tickets) /\ Cardinality(Tickets') \in Nat
  BY <1>1, <1>2, FS_Subset, FS_CardinalityType
<1>4. Stored \in Int /\ Stored' \in Int
  <2>1. LTypes' => Stored' \in Int
    BY DEF LTypes, Stored, Moving
  <2> QED BY <2>1, StoredIs DEF Ledger
<1> QED
  BY <1>2, <1>3, <1>4, Limits DEF Ledger

(* A caller that found the backlog below the limit gets a ticket.          *)
LEMMA EntryLedger ==
    ASSUME Ledger, LTypes', Stored' = Stored, l0 + imms < HardAt
    PROVE  Ledger'
<1>1. Tickets' \in SUBSET Callers
  BY DEF Tickets
<1>2. PICK n : n = Cardinality(Tickets')
  OBVIOUS
<1>3. n \in Nat /\ Cardinality(Callers) \in Nat /\ n <= Cardinality(Callers)
  BY <1>1, <1>2, CallersCount
<1>4. Stored < HardAt /\ Stored \in Int
  BY StoredIs, Limits DEF Ledger, LTypes
<1> QED
  BY <1>2, <1>3, <1>4, Limits DEF Ledger

(* A ticket is spent on a table.                                           *)
LEMMA SpendLedger ==
    ASSUME Ledger, LTypes', NEW w \in Tickets, Stored' = Stored + 1, Tickets' \subseteq Tickets \ {w}
    PROVE  Ledger'
<1>1. Tickets \in SUBSET Callers /\ Tickets \ {w} \in SUBSET Callers
  BY DEF Tickets
<1>2. /\ IsFiniteSet(Tickets) /\ Cardinality(Tickets) \in Nat /\ Cardinality(Callers) \in Nat
      /\ IsFiniteSet(Tickets \ {w})
  BY <1>1, CallersCount
<1>3. Cardinality(Tickets \ {w}) = Cardinality(Tickets) - 1
  BY <1>2, FS_RemoveElement
<1>4. Cardinality(Tickets') <= Cardinality(Tickets \ {w}) /\ Cardinality(Tickets') \in Nat
  BY <1>2, FS_Subset, FS_CardinalityType
<1>5. Stored \in Int
  BY StoredIs DEF Ledger
<1> QED
  BY <1>2, <1>3, <1>4, <1>5, Limits DEF Ledger

(* A step of the flush or of the pool that only wakes callers.             *)
LEMMA WakeLedger ==
    ASSUME Ledger, UNCHANGED <<l0, imms, seen>>, Moving' = Moving,
           \A t \in PoolThreads : pool'[t].files \in Nat, DOMAIN pool' = PoolThreads,
           pc' = pc \/ NotifyFlush \/ NotifyBoth
    PROVE  Ledger'
<1>1. /\ DOMAIN pc' = Callers
      /\ \A w \in Callers : \/ pc'[w] = pc[w]
                            \/ pc[w] = "asleep" /\ pc'[w] = "throttle"
                            \/ pc[w] = "slot_asleep" /\ pc'[w] = "slot"
  BY DEF NotifyFlush, NotifyBoth, Ledger, LTypes
<1>2. Tickets' \subseteq Tickets
  BY <1>1 DEF Tickets, HoldsTicket
<1>3. LTypes' /\ Stored' = Stored
  BY <1>1 DEF Ledger, LTypes, Stored
<1>4. Stored \in Int
  BY StoredIs DEF Ledger
<1> QED
  BY <1>2, <1>3, <1>4, QuietLedger

(* A caller counts the backlog and enters.                                 *)
LEMMA BeginLedger ==
    ASSUME Ledger, NEW w \in Callers, Goto(w, "schedule"),
           seen' = [seen EXCEPT ![w] = [l0 |-> l0, score |-> l0 + imms]],
           \A t \in PoolThreads : pool'[t].files \in Nat, DOMAIN pool' = PoolThreads,
           UNCHANGED <<l0, imms, flush>>
    PROVE  Ledger'
<1>1. LTypes' /\ Stored' = Stored
  <2>1. l0 + imms \in Int /\ l0 \in Int
    BY DEF Ledger, LTypes
  <2>2. seen' \in [Callers -> [l0 : Int, score : Int]]
    BY <2>1 DEF Ledger, LTypes
  <2> QED
    BY <2>2 DEF Ledger, LTypes, Stored, Moving, Goto
<1>2. CASE l0 + imms <= SlowAbove
  <2>1. l0 + imms < HardAt
    BY <1>2, Limits DEF Ledger, LTypes
  <2> QED BY <1>1, <2>1, EntryLedger
<1>3. CASE ~(l0 + imms <= SlowAbove)
  <2>1. pc'[w] = "schedule" /\ seen'[w].score = l0 + imms
    BY DEF Ledger, LTypes, Goto
  <2>2. \A v \in Callers : v # w => pc'[v] = pc[v] /\ seen'[v] = seen[v]
    BY DEF Ledger, LTypes, Goto
  <2>3. Tickets' \subseteq Tickets
    BY <1>3, <2>1, <2>2 DEF Tickets, HoldsTicket
  <2>4. Stored' <= Stored
    BY <1>1, StoredIs DEF Ledger
  <2> QED BY <1>1, <2>3, <2>4, QuietLedger
<1> QED
  BY <1>2, <1>3

(* A caller that moves and leaves the counters alone.                      *)
LEMMA MoveLedger ==
    ASSUME Ledger, NEW w \in Callers, DOMAIN pc' = Callers,
           \A v \in Callers : v # w => pc'[v] = pc[v] /\ seen'[v] = seen[v],
           HoldsTicket(w)' => HoldsTicket(w),
           seen' \in [Callers -> [l0 : Int, score : Int]], UNCHANGED <<l0, imms, flush, pool>>
    PROVE  Ledger'
<1>1. LTypes' /\ Stored' = Stored
  BY DEF Ledger, LTypes, Stored, Moving
<1>2. Tickets' \subseteq Tickets
  BY DEF Tickets, HoldsTicket
<1>3. Stored' <= Stored
  BY <1>1, StoredIs DEF Ledger
<1> QED
  BY <1>1, <1>2, <1>3, QuietLedger

(* Steps of execute_write_request and maybe_flush.                         *)
LEMMA ProceedLedger ==
    ASSUME Ledger, NEW w \in Callers, Proceed(w)
    PROVE  Ledger'
<1>0. LTypes /\ [l0 |-> 0, score |-> 0] \in [l0 : Int, score : Int]
  BY DEF Ledger
<1>1. CASE Schedule(w)
  <2>1. /\ pc[w] = "schedule" /\ pc'[w] = "throttle" /\ DOMAIN pc' = Callers /\ seen' = seen
        /\ \A v \in Callers : v # w => pc'[v] = pc[v]
        /\ UNCHANGED <<l0, imms, flush, pool>>
    BY <1>0, <1>1 DEF Schedule, Goto, LTypes
  <2>2. HoldsTicket(w)' => HoldsTicket(w)
    BY <2>1 DEF HoldsTicket
  <2> QED BY <1>0, <2>1, <2>2, MoveLedger DEF LTypes
<1>2. CASE Throttle(w)
  <2>1. /\ pc[w] = "throttle" /\ pc'[w] = (IF MayWrite(w) THEN "write" ELSE "asleep")
        /\ DOMAIN pc' = Callers /\ seen' = seen
        /\ \A v \in Callers : v # w => pc'[v] = pc[v]
        /\ UNCHANGED <<l0, imms, flush, pool>>
    BY <1>0, <1>2 DEF Throttle, Goto, LTypes, work
  <2>2. CASE seen[w].score <= SlowAbove \/ ~MayWrite(w)
    <3>1. HoldsTicket(w)' => HoldsTicket(w)
      BY <2>1, <2>2 DEF HoldsTicket
    <3> QED BY <1>0, <2>1, <3>1, MoveLedger DEF LTypes
  <2>3. CASE MayWrite(w) /\ ~(seen[w].score <= SlowAbove)
    <3>1. l0 + imms < HardAt
      <4>1. l0 + imms < IF seen[w].score >= HardAt THEN HardAt ELSE seen[w].score
        BY <2>3 DEF MayWrite
      <4>2. seen[w].score \in Int /\ l0 + imms \in Int
        BY <1>0 DEF LTypes
      <4> QED BY <4>1, <4>2, Limits
    <3>2. LTypes' /\ Stored' = Stored
      BY <1>0, <2>1 DEF LTypes, Stored, Moving
    <3> QED BY <3>1, <3>2, EntryLedger
  <2> QED BY <2>2, <2>3
<1>3. CASE Write(w) \/ WriteRotates(w)
  <2>1. /\ pc'[w] = "idle" /\ DOMAIN pc' = Callers
        /\ \A v \in Callers : v # w => pc'[v] = pc[v]
        /\ seen' = [seen EXCEPT ![w] = [l0 |-> 0, score |-> 0]]
        /\ UNCHANGED <<l0, imms, flush, pool>>
    BY <1>0, <1>3 DEF Write, WriteRotates, Goto, LTypes, work
  <2>2. /\ seen' \in [Callers -> [l0 : Int, score : Int]]
        /\ \A v \in Callers : v # w => seen'[v] = seen[v]
    BY <1>0, <2>1 DEF LTypes
  <2>3. ~HoldsTicket(w)'
    BY <2>1 DEF HoldsTicket
  <2> QED BY <1>0, <2>1, <2>2, <2>3, MoveLedger
<1>4. CASE NeedSlot(w)
  <2>1. /\ pc[w] = "write" /\ DOMAIN pc' = Callers /\ seen' = seen
        /\ \A v \in Callers : v # w => pc'[v] = pc[v]
        /\ UNCHANGED <<l0, imms, flush, pool>>
    BY <1>0, <1>4 DEF NeedSlot, Goto, LTypes, work
  <2>2. HoldsTicket(w)
    BY <2>1 DEF HoldsTicket
  <2> QED BY <1>0, <2>1, <2>2, MoveLedger DEF LTypes
<1>5. CASE TakeSlot(w)
  <2>1. pc[w] = "slot" /\ DOMAIN pc' = Callers /\ UNCHANGED <<l0, flush, pool>>
        /\ \A v \in Callers : v # w => pc'[v] = pc[v]
    BY <1>0, <1>5 DEF TakeSlot, Goto, LTypes
  <2>2. HoldsTicket(w) /\ w \in Tickets
    BY <2>1 DEF HoldsTicket, Tickets
  <2>3. CASE imms < Slots
    <3>1. /\ imms' = imms + 1 /\ pc'[w] = "idle"
          /\ seen' = [seen EXCEPT ![w] = [l0 |-> 0, score |-> 0]]
      BY <1>0, <1>5, <2>3 DEF TakeSlot, Goto, LTypes
    <3>2. /\ seen' \in [Callers -> [l0 : Int, score : Int]]
          /\ \A v \in Callers : v # w => seen'[v] = seen[v]
      BY <1>0, <3>1 DEF LTypes
    <3>3. Tickets' \subseteq Tickets \ {w}
      BY <2>1, <3>1, <3>2 DEF Tickets, HoldsTicket
    <3>4. LTypes' /\ Stored' = Stored + 1
      BY <1>0, <2>1, <3>1, <3>2 DEF LTypes, Stored, Moving
    <3> QED BY <2>2, <3>3, <3>4, SpendLedger
  <2>4. CASE ~(imms < Slots)
    <3>1. UNCHANGED <<imms, seen>>
      BY <1>5, <2>4 DEF TakeSlot
    <3> QED BY <1>0, <2>1, <2>2, <3>1, MoveLedger DEF LTypes
  <2> QED BY <2>3, <2>4
<1> QED
  BY <1>1, <1>2, <1>3, <1>4, <1>5 DEF Proceed

(* Steps of the flush task: a table moves from the ring to level 0.        *)
LEMMA FlushLedger ==
    ASSUME Ledger, Flush
    PROVE  Ledger'
<1>0. LTypes
  BY DEF Ledger
<1>1. CASE FlushPublish \/ FlushSchedule \/ FlushReset
  <2>1. /\ UNCHANGED <<pool, pc, seen>> /\ l0' \in Int /\ imms' \in Int
        /\ Stored' = Stored
    BY <1>0, <1>1 DEF FlushPublish, FlushSchedule, FlushReset, LTypes, Stored, Moving
  <2>2. LTypes' /\ Tickets' = Tickets
    BY <1>0, <2>1 DEF LTypes, Tickets, HoldsTicket
  <2>3. Stored' <= Stored
    BY <1>0, <2>1, StoredIs
  <2> QED BY <2>2, <2>3, QuietLedger
<1>2. CASE FlushNotify
  <2>1. Moving' = Moving /\ NotifyFlush /\ UNCHANGED <<l0, imms, seen, pool>>
    BY <1>2 DEF FlushNotify, Moving, work
  <2> QED BY <1>0, <2>1, WakeLedger DEF LTypes
<1>3. CASE FlushFails
  <2>1. /\ UNCHANGED <<l0, imms, pool, pc, seen>> /\ Moving = 0 /\ Moving' = 1
    BY <1>3 DEF FlushFails, Moving, work
  <2>2. LTypes' /\ Tickets' = Tickets /\ Stored' <= Stored
    BY <1>0, <2>1 DEF LTypes, Tickets, HoldsTicket, Stored
  <2> QED BY <2>2, QuietLedger
<1> QED
  BY <1>1, <1>2, <1>3 DEF Flush

(* Steps of the pool: a merge removes files from level 0.                  *)
LEMMA CompactLedger ==
    ASSUME Ledger, NEW t \in PoolThreads, Compact(t)
    PROVE  Ledger'
<1>0. LTypes
  BY DEF Ledger
<1>1. ASSUME NEW label, NEW n \in Nat, Enter(t, label, n)
      PROVE  (\A u \in PoolThreads : pool'[u].files \in Nat) /\ DOMAIN pool' = PoolThreads
  BY <1>0, <1>1 DEF Enter, LTypes
<1>2. ASSUME NEW s, s.files \in Nat, pool' = [pool EXCEPT ![t] = s]
      PROVE  (\A u \in PoolThreads : pool'[u].files \in Nat) /\ DOMAIN pool' = PoolThreads
  BY <1>0, <1>2 DEF LTypes
<1>3. CASE Dequeue(t)
  <2>1. (\A u \in PoolThreads : pool'[u].files \in Nat) /\ DOMAIN pool' = PoolThreads
    <3>1. CASE Head(tasks) # "gc"
      <4>1. PICK s : s = [pc |-> "check", task |-> Head(tasks), files |-> 0]
        OBVIOUS
      <4>2. pool' = [pool EXCEPT ![t] = s] /\ s.files \in Nat
        BY <1>3, <3>1, <4>1 DEF Dequeue
      <4> QED BY <1>2, <4>2
    <3>2. CASE Head(tasks) = "gc"
      <4>1. PICK n \in 0..MaxRecords : pool' = [pool EXCEPT ![t] = [pc |-> "collect", task |-> "gc", files |-> n]]
        BY <1>3, <3>2 DEF Dequeue
      <4>2. PICK s : s = [pc |-> "collect", task |-> "gc", files |-> n]
        OBVIOUS
      <4>3. s.files \in Nat
        BY <4>2, Limits
      <4> QED BY <1>2, <4>1, <4>2, <4>3
    <3> QED BY <3>1, <3>2
  <2> QED BY <1>3, <2>1, WakeLedger DEF Dequeue, Moving
<1>4. CASE Check(t)
  <2>1. l0 >= L0Trigger => l0 \in Nat
    BY <1>0, Limits DEF LTypes
  <2>2. (\A u \in PoolThreads : pool'[u].files \in Nat) /\ DOMAIN pool' = PoolThreads
    BY <1>1, <1>4, <2>1 DEF Check
  <2> QED BY <1>4, <2>2, WakeLedger DEF Check, Moving, work
<1>5. CASE Merge(t)
  <2>1. (\A u \in PoolThreads : pool'[u].files \in Nat) /\ DOMAIN pool' = PoolThreads
    BY <1>1, <1>5 DEF Merge
  <2>2. /\ l0' = l0 - pool[t].files /\ pool[t].files \in Nat
        /\ UNCHANGED <<imms, flush, pc, seen>>
    BY <1>0, <1>5 DEF Merge, LTypes
  <2>3. LTypes' /\ Stored' <= Stored
    BY <1>0, <2>1, <2>2 DEF LTypes, Stored, Moving
  <2>4. Tickets' = Tickets
    BY <2>2 DEF Tickets, HoldsTicket
  <2> QED BY <2>3, <2>4, QuietLedger
<1>6. CASE ClearRunning(t)
  <2>1. (\A u \in PoolThreads : pool'[u].files \in Nat) /\ DOMAIN pool' = PoolThreads
    BY <1>1, <1>6 DEF ClearRunning
  <2> QED BY <1>6, <2>1, WakeLedger DEF ClearRunning, Moving
<1>7. CASE CompactionNotify(t)
  <2>1. (\A u \in PoolThreads : pool'[u].files \in Nat) /\ DOMAIN pool' = PoolThreads
    BY <1>2, <1>7 DEF CompactionNotify, Idle
  <2> QED BY <1>7, <2>1, WakeLedger DEF CompactionNotify, Moving, work
<1>8. CASE Rewrite(t)
  <2>1. pool[t].files - 1 \in Nat
    BY <1>0, <1>8 DEF Rewrite, LTypes
  <2>2. (\A u \in PoolThreads : pool'[u].files \in Nat) /\ DOMAIN pool' = PoolThreads
    BY <1>1, <1>8, <2>1 DEF Rewrite
  <2>3. t \in Callers
    BY DEF Callers
  <2> QED BY <1>8, <2>2, <2>3, BeginLedger DEF Rewrite, work
<1>9. CASE Collected(t)
  <2>1. (\A u \in PoolThreads : pool'[u].files \in Nat) /\ DOMAIN pool' = PoolThreads
    BY <1>2, <1>9 DEF Collected, Idle
  <2> QED BY <1>9, <2>1, WakeLedger DEF Collected, Moving, work
<1> QED
  BY <1>3, <1>4, <1>5, <1>6, <1>7, <1>8, <1>9 DEF Compact

LEMMA StepLedger == Ledger /\ [Next]_vars => Ledger'
<1> SUFFICES ASSUME Ledger, [Next]_vars PROVE Ledger'
  OBVIOUS
<1>0. LTypes
  BY DEF Ledger
<1>1. ASSUME NEW w \in Writers, Begin(w) PROVE Ledger'
  BY <1>0, <1>1, BeginLedger DEF Begin, LTypes, Callers, work
<1>2. ASSUME Close \/ Destroy \/ UNCHANGED vars PROVE Ledger'
  <2>1. UNCHANGED <<work, pool, flush, pc, seen>>
    BY <1>2 DEF Close, Destroy, AwaitFlush, AwaitCompaction, StopFlushPool, StopCompactionPool, vars
  <2> QED BY <1>0, <2>1, WakeLedger DEF work, Moving, LTypes
<1> QED
  BY <1>1, <1>2, ProceedLedger, FlushLedger, CompactLedger DEF Next

(* Whatever the number of threads, level 0 and the ring never hold more    *)
(* than the hard limit of execute_write_request plus one table for each    *)
(* caller that passed it together with others.                             *)
THEOREM BacklogStaysBounded == Spec => []BacklogBounded
<1>1. Init => Ledger
  <2> SUFFICES ASSUME Init PROVE Ledger
    OBVIOUS
  <2>1. [l0 |-> 0, score |-> 0] \in [l0 : Int, score : Int] /\ Idle.files = 0
    BY DEF Idle
  <2>2. LTypes /\ Stored = 0
    <3>1. l0 = 0 /\ imms = 0 /\ flush = "idle"
      BY DEF Init
    <3>2. DOMAIN pool = PoolThreads /\ \A t \in PoolThreads : pool[t].files = 0
      BY <2>1 DEF Init
    <3>3. DOMAIN pc = Callers /\ seen \in [Callers -> [l0 : Int, score : Int]]
      BY <2>1 DEF Init
    <3>4. Stored = 0
      <4>1. Moving = 0
        BY <3>1, Zenon DEF Moving
      <4>2. Stored = 0 + 0 - 0
        BY <3>1, <4>1, Zenon DEF Stored
      <4> QED
        BY <4>2
    <3>5. LTypes
      BY <3>1, <3>2, <3>3 DEF LTypes
    <3> QED
      BY <3>4, <3>5
  <2>3. Tickets \in SUBSET Callers
    BY DEF Tickets
  <2>4. PICK n : n = Cardinality(Tickets)
    OBVIOUS
  <2>5. n \in Nat /\ Cardinality(Callers) \in Nat /\ n <= Cardinality(Callers)
    BY <2>3, <2>4, CallersCount
  <2> QED BY <2>2, <2>4, <2>5, Limits DEF Ledger
<1>2. Ledger => BacklogBounded
  <2> SUFFICES ASSUME Ledger PROVE BacklogBounded
    OBVIOUS
  <2>1. Tickets \in SUBSET Callers
    BY DEF Tickets
  <2>2. PICK n : n = Cardinality(Tickets)
    OBVIOUS
  <2>3. n \in Nat /\ Cardinality(Callers) \in Nat
    BY <2>1, <2>2, CallersCount
  <2>4. Stored \in Int /\ l0 + imms <= Stored + 1 /\ l0 + imms \in Int
    BY StoredIs DEF Ledger, LTypes
  <2> QED BY <2>2, <2>3, <2>4, Limits DEF Ledger, BacklogBounded
<1> QED
  BY <1>1, <1>2, StepLedger, PTL DEF Spec
=============================================================================
