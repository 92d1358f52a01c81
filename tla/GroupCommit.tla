---------------------------- MODULE GroupCommit ----------------------------
(***************************************************************************)
(* The leader/follower group commit of KVStore::execute_write_request.     *)
(*                                                                         *)
(* Every writer thread owns one WriteRequest at a time, on its stack, so   *)
(* the thread names the request.  Threads push their request on the        *)
(* lock-free list write_queue_; the one that found the list empty becomes  *)
(* a leader, runs maybe_flush, takes commit_mutex_, takes the whole list,  *)
(* persists and applies it, releases the mutex and completes the members   *)
(* one by one.  A new leader can exist as soon as the list has been taken, *)
(* that is while the previous one still commits.                           *)
(*                                                                         *)
(* Left to other modules: what maybe_flush rotates and what the VLog and   *)
(* the WAL hold.  Here these stages only succeed or fail.                  *)
(***************************************************************************)
EXTENDS Integers, Sequences, Functions

CONSTANTS
    Writers,     \* threads that call put, delete_key or, for GC, execute_write_request
    GcWriters,   \* those whose requests carry is_gc
    NoOne        \* value of a free mutex

ASSUME WritersAssumption ==
    /\ GcWriters \subseteq Writers
    /\ NoOne \notin Writers

VARIABLES
    pc,           \* where each thread is in execute_write_request
    write_queue,  \* the list behind write_queue_, oldest request first
    commit_mutex, \* holder of commit_mutex_
    is_panic,     \* is_panic_
    batch,        \* a leader's local vector of requests, oldest first
    pos,          \* index of a leader's loop over its batch
    ignored,      \* a leader's ignored[] flags, as the set of flagged requests
    batch_error,  \* whether a leader's batch_error is set
    state,        \* WriteRequest::state
    error,        \* whether WriteRequest::error is set
    state_held,   \* whether the completing leader holds WriteRequest::state_mutex
    effect        \* history: what the commit did with the request

local == <<batch, pos, ignored, batch_error>>
request == <<state, error, state_held, effect>>
vars == <<pc, write_queue, commit_mutex, is_panic, local, request>>

Sleeping == {"await", "block", "asleep"}
BeforeDrain == {"maybe_flush", "drain"}
Committing == {"vlog", "wal", "memtable", "unlock"}
Completing == {"set_state", "notify"}

Goto(w, label) == pc' = [pc EXCEPT ![w] = label]

Init ==
    /\ pc = [w \in Writers |-> "idle"]
    /\ write_queue = <<>>
    /\ commit_mutex = NoOne
    /\ is_panic = FALSE
    /\ batch = [w \in Writers |-> <<>>]
    /\ pos = [w \in Writers |-> 1]
    /\ ignored = [w \in Writers |-> {}]
    /\ batch_error = [w \in Writers |-> FALSE]
    /\ state = [w \in Writers |-> "INIT"]
    /\ error = [w \in Writers |-> FALSE]
    /\ state_held = [w \in Writers |-> FALSE]
    /\ effect = [w \in Writers |-> "none"]

-----------------------------------------------------------------------------
(* The caller builds a request.  put and delete_key refuse to start in the *)
(* panic state; the garbage collector does not look at it.                 *)
Begin(w) ==
    /\ pc[w] = "idle"
    /\ is_panic => w \in GcWriters
    /\ Goto(w, "push")
    /\ UNCHANGED <<write_queue, commit_mutex, is_panic, local, request>>

(* The call returns and the request leaves the stack: until the next Begin *)
(* its fields read as those of a request just constructed.                 *)
Destroy(w) ==
    /\ state' = [state EXCEPT ![w] = "INIT"]
    /\ error' = [error EXCEPT ![w] = FALSE]
    /\ state_held' = [state_held EXCEPT ![w] = FALSE]
    /\ effect' = [effect EXCEPT ![w] = "none"]

(* Mutated Push: a plain store instead of the exchange drops the requests  *)
(* already linked.                                                         *)
PushDropsOlder(w) ==
    /\ pc[w] = "push"
    /\ write_queue' = <<w>>
    /\ Goto(w, IF write_queue = <<>> THEN "maybe_flush" ELSE "await")
    /\ UNCHANGED <<commit_mutex, is_panic, local, request>>

(* Mutated Push: whoever finds commit_mutex_ free takes the lead.          *)
PushLeadsWhenUnlocked(w) ==
    /\ pc[w] = "push"
    /\ write_queue' = Append(write_queue, w)
    /\ Goto(w, IF write_queue = <<>> \/ commit_mutex = NoOne THEN "maybe_flush" ELSE "await")
    /\ UNCHANGED <<commit_mutex, is_panic, local, request>>

(* The compare-and-swap loop: atomic when it succeeds.  The thread leads   *)
(* exactly when the list was empty (link_older == nullptr).                *)
Push(w) ==
    /\ pc[w] = "push"
    /\ write_queue' = Append(write_queue, w)
    /\ Goto(w, IF write_queue = <<>> THEN "maybe_flush" ELSE "await")
    /\ UNCHANGED <<commit_mutex, is_panic, local, request>>

-----------------------------------------------------------------------------
(* A follower: await_state looks at the state without the lock first, then *)
(* checks it under state_mutex and sleeps on state_cv when it is not set.  *)
AwaitLoad(w) ==
    /\ pc[w] = "await"
    /\ \/ state[w] = "COMPLETED" /\ Goto(w, "idle") /\ Destroy(w)
       \/ state[w] # "COMPLETED" /\ Goto(w, "block") /\ UNCHANGED request
    /\ UNCHANGED <<write_queue, commit_mutex, is_panic, local>>

AwaitWait(w) ==
    /\ pc[w] = "block"
    /\ ~state_held[w]
    /\ \/ state[w] = "COMPLETED" /\ Goto(w, "idle") /\ Destroy(w)
       \/ state[w] # "COMPLETED" /\ Goto(w, "asleep") /\ UNCHANGED request
    /\ UNCHANGED <<write_queue, commit_mutex, is_panic, local>>

-----------------------------------------------------------------------------
(* A leader runs maybe_flush before it owns commit_mutex_.                 *)
MaybeFlush(w) ==
    /\ pc[w] = "maybe_flush"
    /\ Goto(w, "drain")
    /\ UNCHANGED <<write_queue, commit_mutex, is_panic, local, request>>

(* It locks commit_mutex_, exchanges the list with nullptr and reverses it.*)
Drain(w) ==
    /\ pc[w] = "drain"
    /\ commit_mutex = NoOne
    /\ commit_mutex' = w
    /\ batch' = [batch EXCEPT ![w] = write_queue]
    /\ write_queue' = <<>>
    /\ Goto(w, "vlog")
    /\ UNCHANGED <<is_panic, pos, ignored, batch_error, request>>

(* VLog appends and, if a member asks for it, VLog sync.  A GC request     *)
(* whose key was overwritten meanwhile is flagged and left out.            *)
VlogStage(w) ==
    /\ pc[w] = "vlog"
    /\ \E overwritten \in SUBSET (GcWriters \cap Range(batch[w])) :
          ignored' = [ignored EXCEPT ![w] = overwritten]
    /\ Goto(w, "wal")
    /\ UNCHANGED <<write_queue, commit_mutex, is_panic, batch, pos, batch_error, request>>

(* WAL appends and sync.                                                   *)
WalStage(w) ==
    /\ pc[w] = "wal"
    /\ Goto(w, "memtable")
    /\ UNCHANGED <<write_queue, commit_mutex, is_panic, local, request>>

(* Mutated StageFails: the exception is not kept in batch_error.           *)
StageFailsSilently(w) ==
    /\ pc[w] \in {"vlog", "wal"}
    /\ is_panic' = TRUE
    /\ effect' = [r \in Writers |-> IF r \in Range(batch[w]) THEN "failed" ELSE effect[r]]
    /\ Goto(w, "unlock")
    /\ UNCHANGED <<write_queue, commit_mutex, local, state, error, state_held>>

(* Mutated StageFails: a batch that fails is tried again.                  *)
StageFailsRetries(w) ==
    /\ pc[w] \in {"vlog", "wal"}
    /\ Goto(w, "vlog")
    /\ UNCHANGED <<write_queue, commit_mutex, is_panic, local, request>>

(* An append or a sync failed: the engine panics and the batch is given up *)
(* before any of it reaches the memtable.                                  *)
StageFails(w) ==
    /\ pc[w] \in {"vlog", "wal"}
    /\ is_panic' = TRUE
    /\ batch_error' = [batch_error EXCEPT ![w] = TRUE]
    /\ effect' = [r \in Writers |-> IF r \in Range(batch[w]) THEN "failed" ELSE effect[r]]
    /\ Goto(w, "unlock")
    /\ UNCHANGED <<write_queue, commit_mutex, batch, pos, ignored, state, error, state_held>>

(* Mutated MemtablePut: the loop runs over the list as linked, newest first.*)
MemtablePutNewestFirst(w) ==
    /\ pc[w] = "memtable"
    /\ LET r == batch[w][Len(batch[w]) + 1 - pos[w]]
       IN  effect' = [effect EXCEPT ![r] = IF r \in ignored[w] THEN "ignored" ELSE "put"]
    /\ pos' = [pos EXCEPT ![w] = @ + 1]
    /\ Goto(w, IF pos[w] = Len(batch[w]) THEN "unlock" ELSE "memtable")
    /\ UNCHANGED <<write_queue, commit_mutex, is_panic, batch, ignored, batch_error,
                   state, error, state_held>>

(* One memtable insertion of the loop that ends the commit.                *)
MemtablePut(w) ==
    /\ pc[w] = "memtable"
    /\ LET r == batch[w][pos[w]]
       IN  effect' = [effect EXCEPT ![r] = IF r \in ignored[w] THEN "ignored" ELSE "put"]
    /\ pos' = [pos EXCEPT ![w] = @ + 1]
    /\ Goto(w, IF pos[w] = Len(batch[w]) THEN "unlock" ELSE "memtable")
    /\ UNCHANGED <<write_queue, commit_mutex, is_panic, batch, ignored, batch_error,
                   state, error, state_held>>

(* Mutated Unlock: the completion loop does not start at the first member. *)
UnlockKeepsIndex(w) ==
    /\ pc[w] = "unlock"
    /\ commit_mutex' = NoOne
    /\ Goto(w, "set_state")
    /\ UNCHANGED <<write_queue, is_panic, local, request>>

Unlock(w) ==
    /\ pc[w] = "unlock"
    /\ commit_mutex' = NoOne
    /\ pos' = [pos EXCEPT ![w] = 1]
    /\ Goto(w, "set_state")
    /\ UNCHANGED <<write_queue, is_panic, batch, ignored, batch_error, request>>

(* The completion loop: the error is stored, then set_state locks          *)
(* state_mutex and stores COMPLETED...                                     *)
SetState(w) ==
    /\ pc[w] = "set_state"
    /\ LET r == batch[w][pos[w]]
       IN  /\ ~state_held[r]
           /\ error' = [error EXCEPT ![r] = batch_error[w]]
           /\ state' = [state EXCEPT ![r] = "COMPLETED"]
           /\ state_held' = [state_held EXCEPT ![r] = TRUE]
    /\ Goto(w, "notify")
    /\ UNCHANGED <<write_queue, commit_mutex, is_panic, local, effect>>

(* ... then it notifies and unlocks.                                       *)
Woken(r) == IF pc[r] = "asleep" THEN "block" ELSE pc[r]

Notify(w) ==
    /\ pc[w] = "notify"
    /\ pos[w] < Len(batch[w])
    /\ LET r == batch[w][pos[w]]
       IN  /\ state_held' = [state_held EXCEPT ![r] = FALSE]
           /\ pc' = [pc EXCEPT ![r] = Woken(r), ![w] = "set_state"]
    /\ pos' = [pos EXCEPT ![w] = @ + 1]
    /\ UNCHANGED <<write_queue, commit_mutex, is_panic, batch, ignored, batch_error,
                   state, error, effect>>

(* After the last member the leader returns, and its vectors are gone.     *)
NotifyLast(w) ==
    /\ pc[w] = "notify"
    /\ pos[w] = Len(batch[w])
    /\ LET r == batch[w][pos[w]]
       IN  /\ state' = [state EXCEPT ![w] = "INIT"]
           /\ error' = [error EXCEPT ![w] = FALSE]
           /\ state_held' = [state_held EXCEPT ![r] = FALSE, ![w] = FALSE]
           /\ effect' = [effect EXCEPT ![w] = "none"]
           /\ pc' = [pc EXCEPT ![r] = Woken(r), ![w] = "idle"]
    /\ batch' = [batch EXCEPT ![w] = <<>>]
    /\ pos' = [pos EXCEPT ![w] = 1]
    /\ ignored' = [ignored EXCEPT ![w] = {}]
    /\ batch_error' = [batch_error EXCEPT ![w] = FALSE]
    /\ UNCHANGED <<write_queue, commit_mutex, is_panic>>

-----------------------------------------------------------------------------
Proceed(w) ==
    \/ Push(w) \/ AwaitLoad(w) \/ AwaitWait(w)
    \/ MaybeFlush(w) \/ Drain(w) \/ VlogStage(w) \/ WalStage(w) \/ StageFails(w)
    \/ MemtablePut(w) \/ Unlock(w) \/ SetState(w) \/ Notify(w) \/ NotifyLast(w)

Next == \E w \in Writers : Begin(w) \/ Proceed(w)

Spec == Init /\ [][Next]_vars

(* A thread inside execute_write_request keeps running: weak fairness of   *)
(* its steps.  Nothing obliges a client to issue another request, and the  *)
(* mutexes need no stronger assumption.                                    *)
FairSpec == Spec /\ \A w \in Writers : WF_vars(Proceed(w))
-----------------------------------------------------------------------------
(* Types.  A leader's loop index stays inside its batch while it is used,  *)
(* so no loop of execute_write_request reads past its vector.              *)
TypeOK ==
    /\ pc \in [Writers -> {"idle", "push"} \cup Sleeping \cup BeforeDrain
                             \cup Committing \cup Completing]
    /\ write_queue \in Seq(Writers)
    /\ commit_mutex \in Writers \cup {NoOne}
    /\ is_panic \in BOOLEAN
    /\ batch \in [Writers -> Seq(Writers)]
    /\ pos \in [Writers -> Nat]
    /\ \A w \in Writers : pc[w] \in Completing \cup {"memtable"} => pos[w] \in DOMAIN batch[w]
    /\ ignored \in [Writers -> SUBSET GcWriters]
    /\ batch_error \in [Writers -> BOOLEAN]
    /\ state \in [Writers -> {"INIT", "COMPLETED"}]
    /\ error \in [Writers -> BOOLEAN]
    /\ state_held \in [Writers -> BOOLEAN]
    /\ effect \in [Writers -> {"none", "put", "ignored", "failed"}]

(* The requests leader l has drained and not completed yet.                *)
FirstOwed(l) ==
    IF pc[l] \in Committing THEN 1
    ELSE IF pc[l] = "set_state" THEN pos[l]
    ELSE IF pc[l] = "notify" THEN pos[l] + 1
    ELSE Len(batch[l]) + 1

Owed(l) == {batch[l][i] : i \in FirstOwed(l)..Len(batch[l])}

(* A request on its way: submitted and not yet completed.                  *)
Outstanding(r) == pc[r] \notin {"idle", "push"} /\ state[r] = "INIT"

(* Every submitted request is in exactly one place that will complete it:  *)
(* the list or the batch of one leader.  None is dropped when a leader     *)
(* takes the list, none is completed twice, and no pointer to a request    *)
(* already completed (whose thread may have returned and reused the        *)
(* stack) is left to be processed.                                         *)
ExactlyOneOwner ==
    /\ IsInjective(write_queue)
    /\ \A l \in Writers : Owed(l) \cap Range(write_queue) = {}
    /\ \A l, m \in Writers : l # m => Owed(l) \cap Owed(m) = {}
    /\ \A r \in Writers :
          Outstanding(r) <=> r \in Range(write_queue) \/ \E l \in Writers : r \in Owed(l)

(* Leaders may overlap, but at most one has not taken the list yet: it is  *)
(* the oldest request of the list, so each leader commits its own request, *)
(* first.  This is what lets an unfair commit_mutex_ starve nobody.        *)
LeaderHeadsItsBatch ==
    \A w \in Writers :
        /\ pc[w] \in BeforeDrain <=> write_queue # <<>> /\ Head(write_queue) = w
        /\ pc[w] \in Committing \cup Completing => batch[w] # <<>> /\ Head(batch[w]) = w

(* A completed request reports what happened: no error exactly when it is  *)
(* in the memtable, except that a relocation of the garbage collector may  *)
(* have been dropped.  A batch that failed reached the memtable with none  *)
(* of its members.                                                         *)
CompletionTellsTheTruth ==
    \A r \in Writers :
        state[r] = "COMPLETED" =>
            /\ error[r] <=> effect[r] = "failed"
            /\ ~error[r] => effect[r] = "put" \/ (effect[r] = "ignored" /\ r \in GcWriters)

(* Refinement: the group commit implements one serial line of requests.    *)
(* The line is what the committing leader has not applied yet, then the    *)
(* list.                                                                   *)
Line ==
    IF commit_mutex # NoOne /\ pc[commit_mutex] \in {"vlog", "wal", "memtable"}
    THEN SubSeq(batch[commit_mutex], pos[commit_mutex], Len(batch[commit_mutex])) \o write_queue
    ELSE write_queue

Outcome == [w \in Writers |->
               IF pc[w] \in {"idle", "push"} THEN "idle"
               ELSE IF effect[w] = "none" THEN "waiting" ELSE effect[w]]

Serial == INSTANCE WriteSerial WITH line <- Line, outcome <- Outcome

(* Requests take effect in the order they were pushed, across batches and  *)
(* leaders, and no caller returns before its own request took effect or    *)
(* failed.                                                                 *)
CommitsSerially == Serial!SerialSpec

(* Every request returns to its caller: no lost wakeup between await_state *)
(* and set_state, no leader waiting for ever on commit_mutex_.             *)
EveryRequestReturns == \A w \in Writers : pc[w] # "idle" ~> pc[w] = "idle"

(* A request stays until the leader that completes it has let go of its    *)
(* state_mutex.  await_state, which looks at the state without the mutex   *)
(* first, does not see to that.                                            *)
MutexOutlivesHolder ==
    [][\A w \in Writers : state_held[w] /\ pc[w] \in Sleeping => pc'[w] # "idle"]_vars
=============================================================================
