------------------------- MODULE GroupCommitProofs -------------------------
(***************************************************************************)
(* Proofs about GroupCommit, for any set of writer threads: who owns a     *)
(* request, that a caller is told what was done with it, and that requests *)
(* take effect as in one serial line.                                      *)
(***************************************************************************)
EXTENDS GroupCommit, SequenceTheorems, TLAPS

(* What the threads' positions say about the mutex, about a leader's       *)
(* vectors and about requests that are not submitted.                      *)
LeaderState ==
    /\ \A w \in Writers : commit_mutex = w <=> pc[w] \in Committing
    /\ \A w \in Writers : IsInjective(batch[w])
    /\ \A w \in Writers : pc[w] \notin Committing \cup Completing => batch[w] = <<>>
    /\ \A w \in Writers : pc[w] \notin {"memtable", "unlock"} \cup Completing => pos[w] = 1
    /\ \A w \in Writers : pc[w] \in {"idle", "push"} => state[w] = "INIT"
    /\ \A w \in Writers : pc[w] = "notify" \/ (pc[w] = "set_state" /\ pos[w] > 1)
                             => state[w] = "COMPLETED"

IInv ==
    /\ TypeOK
    /\ LeaderState
    /\ LeaderHeadsItsBatch
    /\ ExactlyOneOwner

USE DEF Sleeping, BeforeDrain, Committing, Completing

-----------------------------------------------------------------------------
(* Initially nothing is submitted.                                         *)
LEMMA InitIInv == Init => IInv
<1> SUFFICES ASSUME Init PROVE IInv
  OBVIOUS
<1>1. TypeOK
  <2>1. batch \in [Writers -> Seq(Writers)] /\ write_queue \in Seq(Writers)
    BY DEF Init
  <2>2. /\ is_panic \in BOOLEAN
        /\ batch_error \in [Writers -> BOOLEAN]
        /\ error \in [Writers -> BOOLEAN]
        /\ state_held \in [Writers -> BOOLEAN]
    BY Zenon DEF Init
  <2> QED
    BY <2>1, <2>2, Zenon DEF Init, TypeOK
<1>2. LeaderState
  BY WritersAssumption DEF Init, LeaderState, IsInjective
<1>3. LeaderHeadsItsBatch
  BY Zenon DEF Init, LeaderHeadsItsBatch
<1>4. \A l \in Writers : Owed(l) = {}
  BY DEF Init, Owed, FirstOwed
<1>5. Range(write_queue) = {} /\ IsInjective(write_queue)
  BY DEF Init, Range, IsInjective
<1>6. ExactlyOneOwner
  BY <1>4, <1>5, Zenon DEF Init, ExactlyOneOwner, Outstanding
<1> QED
  BY <1>1, <1>2, <1>3, <1>6, Zenon DEF IInv

(* Types are preserved by every step.                                      *)
LEMMA StepTypeOK == IInv /\ [Next]_vars => TypeOK'
<1> SUFFICES ASSUME IInv, [Next]_vars PROVE TypeOK'
  OBVIOUS
<1> USE WritersAssumption DEF IInv, TypeOK, request, local, Goto, Destroy
<1>1. ASSUME NEW w \in Writers, Begin(w) PROVE TypeOK'
  BY <1>1, Zenon DEF Begin
<1>2. ASSUME NEW w \in Writers, Push(w) PROVE TypeOK'
  <2>1. write_queue' \in Seq(Writers)
    BY <1>2 DEF Push
  <2> QED
    BY <1>2, <2>1, Zenon DEF Push
<1>3. ASSUME NEW w \in Writers, AwaitLoad(w) PROVE TypeOK'
  <2>1. CASE state[w] = "COMPLETED"
    <3>1. error' \in [Writers -> BOOLEAN] /\ state_held' \in [Writers -> BOOLEAN]
      BY <1>3, <2>1, Zenon DEF AwaitLoad
    <3>2. state' \in [Writers -> {"INIT", "COMPLETED"}]
      BY <1>3, <2>1, ZenonT(30) DEF AwaitLoad
    <3>4. effect' \in [Writers -> {"none", "put", "ignored", "failed"}]
      BY <1>3, <2>1, Zenon DEF AwaitLoad
    <3>3. \A v \in Writers : pc'[v] \in Completing \cup {"memtable"} => pos'[v] \in DOMAIN batch'[v]
      BY <1>3, <2>1, Zenon DEF AwaitLoad
    <3> QED
      BY <1>3, <2>1, <3>1, <3>2, <3>3, <3>4, ZenonT(30) DEF AwaitLoad
  <2>2. CASE state[w] # "COMPLETED"
    BY <1>3, <2>2, Zenon DEF AwaitLoad
  <2> QED
    BY <2>1, <2>2, Zenon
<1>4. ASSUME NEW w \in Writers, AwaitWait(w) PROVE TypeOK'
  BY <1>4, ZenonT(30) DEF AwaitWait
<1>5. ASSUME NEW w \in Writers, MaybeFlush(w) PROVE TypeOK'
  BY <1>5, Zenon DEF MaybeFlush
<1>6. ASSUME NEW w \in Writers, Drain(w) PROVE TypeOK'
  BY <1>6 DEF Drain
<1>7. ASSUME NEW w \in Writers, VlogStage(w) PROVE TypeOK'
  BY <1>7 DEF VlogStage
<1>8. ASSUME NEW w \in Writers, WalStage(w) PROVE TypeOK'
  BY <1>8 DEF WalStage, LeaderState, LeaderHeadsItsBatch
<1>9. ASSUME NEW w \in Writers, StageFails(w) PROVE TypeOK'
  BY <1>9, Zenon DEF StageFails
<1>10. ASSUME NEW w \in Writers, MemtablePut(w) PROVE TypeOK'
  <2>1. pos[w] \in 1..Len(batch[w]) /\ batch[w] \in Seq(Writers)
    BY <1>10 DEF MemtablePut
  <2>2. batch[w][pos[w]] \in Writers
    BY <2>1
  <2>3. effect' \in [Writers -> {"none", "put", "ignored", "failed"}]
    BY <1>10, <2>2, Zenon DEF MemtablePut
  <2>4. pos' \in [Writers -> Nat]
    BY <1>10, <2>1, SMTT(20) DEF MemtablePut
  <2>5. \A v \in Writers : pc'[v] \in Completing \cup {"memtable"} => pos'[v] \in DOMAIN batch'[v]
    BY <1>10, <2>1, SMTT(20) DEF MemtablePut
  <2> QED
    BY <1>10, <2>3, <2>4, <2>5, Zenon DEF MemtablePut
<1>11. ASSUME NEW w \in Writers, Unlock(w) PROVE TypeOK'
  BY <1>11 DEF Unlock, LeaderHeadsItsBatch
<1>12. ASSUME NEW w \in Writers, SetState(w) PROVE TypeOK'
  BY <1>12, Zenon DEF SetState
<1>13. ASSUME NEW w \in Writers, Notify(w) PROVE TypeOK'
  <2>1. pos[w] \in 1..Len(batch[w]) /\ batch[w] \in Seq(Writers)
    BY <1>13 DEF Notify
  <2>2. batch[w][pos[w]] \in Writers
    BY <2>1
  <2>3. pc' \in [Writers -> {"idle", "push"} \cup Sleeping \cup BeforeDrain
                             \cup Committing \cup Completing]
    BY <1>13, <2>2, Zenon DEF Notify, Woken
  <2>4. pos' \in [Writers -> Nat] /\ state_held' \in [Writers -> BOOLEAN]
    BY <1>13, <2>1, <2>2 DEF Notify
  <2>5. \A v \in Writers : pc'[v] \in Completing \cup {"memtable"} => pos'[v] \in DOMAIN batch'[v]
    <3>1. pc'[w] \in Completing \cup {"memtable"} => pos'[w] \in DOMAIN batch'[w]
      BY <1>13, <2>1, <2>2 DEF Notify
    <3>2. \A v \in Writers \ {w} : /\ pos'[v] = pos[v] /\ batch'[v] = batch[v]
                                   /\ pc'[v] \in {pc[v], "block"}
      BY <1>13, <2>2, Zenon DEF Notify, Woken
    <3> QED
      BY <3>1, <3>2, Zenon
  <2> QED
    BY <1>13, <2>3, <2>4, <2>5, Zenon DEF Notify
<1>14. ASSUME NEW w \in Writers, NotifyLast(w) PROVE TypeOK'
  <2>1. pos[w] \in 1..Len(batch[w]) /\ batch[w] \in Seq(Writers)
    BY <1>14 DEF NotifyLast
  <2>2. batch[w][pos[w]] \in Writers
    BY <2>1
  <2>3. pc' \in [Writers -> {"idle", "push"} \cup Sleeping \cup BeforeDrain
                             \cup Committing \cup Completing]
    BY <1>14, <2>2, Zenon DEF NotifyLast, Woken
  <2>4. pos' \in [Writers -> Nat] /\ state_held' \in [Writers -> BOOLEAN]
    BY <1>14, <2>1, <2>2, Zenon DEF NotifyLast
  <2>5. \A v \in Writers : pc'[v] \in Completing \cup {"memtable"} => pos'[v] \in DOMAIN batch'[v]
    <3>1. pc'[w] \in Completing \cup {"memtable"} => pos'[w] \in DOMAIN batch'[w]
      BY <1>14, <2>1, <2>2, Zenon DEF NotifyLast
    <3>2. \A v \in Writers \ {w} : /\ pos'[v] = pos[v] /\ batch'[v] = batch[v]
                                   /\ pc'[v] \in {pc[v], "block"}
      BY <1>14, <2>2, Zenon DEF NotifyLast, Woken
    <3> QED
      BY <3>1, <3>2, Zenon
  <2>6. batch' \in [Writers -> Seq(Writers)] /\ ignored' \in [Writers -> SUBSET GcWriters]
    BY <1>14 DEF NotifyLast
  <2>7. error' \in [Writers -> BOOLEAN] /\ batch_error' \in [Writers -> BOOLEAN]
    BY <1>14, Zenon DEF NotifyLast
  <2>8. /\ state' \in [Writers -> {"INIT", "COMPLETED"}]
        /\ effect' \in [Writers -> {"none", "put", "ignored", "failed"}]
    BY <1>14, Zenon DEF NotifyLast
  <2> QED
    BY <1>14, <2>3, <2>4, <2>5, <2>6, <2>7, <2>8, Zenon DEF NotifyLast
<1>15. CASE UNCHANGED vars
  BY <1>15, Zenon DEF vars
<1> QED
  BY <1>1, <1>2, <1>3, <1>4, <1>5, <1>6, <1>7, <1>8, <1>9, <1>10, <1>11, <1>12, <1>13,
     <1>14, <1>15, Zenon DEF Next, Proceed
(* What a leader has still to complete is outstanding.                     *)
LEMMA OwedIsOutstanding ==
    ASSUME IInv, NEW l \in Writers, NEW i \in FirstOwed(l)..Len(batch[l]), i >= 1
    PROVE  batch[l][i] \in Writers /\ Outstanding(batch[l][i]) /\ batch[l][i] \in Owed(l)
<1>1. batch[l] \in Seq(Writers)
  BY Zenon DEF IInv, TypeOK
<1>2. FirstOwed(l) \in Int
  BY <1>1 DEF IInv, TypeOK, FirstOwed
<1>3. batch[l][i] \in Writers
  BY <1>1, <1>2
<1>4. batch[l][i] \in Owed(l)
  BY Zenon DEF Owed
<1> QED
  BY <1>3, <1>4, Zenon DEF IInv, ExactlyOneOwner

(* The mutex, a leader's vectors and unsubmitted requests, step by step.   *)
LEMMA StepLeaderState == IInv /\ [Next]_vars => LeaderState'
<1> SUFFICES ASSUME IInv, [Next]_vars PROVE LeaderState'
  OBVIOUS
<1> USE WritersAssumption DEF IInv, TypeOK, LeaderState, request, local, Goto, Destroy
<1>1. ASSUME NEW w \in Writers, Begin(w) PROVE LeaderState'
  BY <1>1 DEF Begin
<1>2. ASSUME NEW w \in Writers, Push(w) PROVE LeaderState'
  BY <1>2, SMTT(20) DEF Push
<1>3. ASSUME NEW w \in Writers, AwaitLoad(w) PROVE LeaderState'
  <2>1. CASE state[w] = "COMPLETED"
    <3>1. /\ pc' = [pc EXCEPT ![w] = "idle"]
          /\ state' = [state EXCEPT ![w] = "INIT"]
          /\ UNCHANGED <<commit_mutex, batch, pos>>
      BY <1>3, <2>1, Zenon DEF AwaitLoad
    <3> QED
      BY <1>3, <3>1 DEF AwaitLoad
  <2>2. CASE state[w] # "COMPLETED"
    BY <1>3, <2>2, ZenonT(30) DEF AwaitLoad
  <2> QED
    BY <2>1, <2>2, Zenon
<1>4. ASSUME NEW w \in Writers, AwaitWait(w) PROVE LeaderState'
  <2>1. CASE state[w] = "COMPLETED"
    <3>1. /\ pc' = [pc EXCEPT ![w] = "idle"]
          /\ state' = [state EXCEPT ![w] = "INIT"]
          /\ UNCHANGED <<commit_mutex, batch, pos>>
      BY <1>4, <2>1, Zenon DEF AwaitWait
    <3> QED
      BY <1>4, <3>1 DEF AwaitWait
  <2>2. CASE state[w] # "COMPLETED"
    BY <1>4, <2>2, ZenonT(30) DEF AwaitWait
  <2> QED
    BY <2>1, <2>2, Zenon
<1>5. ASSUME NEW w \in Writers, MaybeFlush(w) PROVE LeaderState'
  BY <1>5 DEF MaybeFlush
<1>6. ASSUME NEW w \in Writers, Drain(w) PROVE LeaderState'
  BY <1>6 DEF Drain, ExactlyOneOwner, IsInjective
<1>7. ASSUME NEW w \in Writers, VlogStage(w) PROVE LeaderState'
  BY <1>7 DEF VlogStage
<1>8. ASSUME NEW w \in Writers, WalStage(w) PROVE LeaderState'
  BY <1>8 DEF WalStage
<1>9. ASSUME NEW w \in Writers, StageFails(w) PROVE LeaderState'
  BY <1>9 DEF StageFails
<1>10. ASSUME NEW w \in Writers, MemtablePut(w) PROVE LeaderState'
  BY <1>10 DEF MemtablePut
<1>11. ASSUME NEW w \in Writers, Unlock(w) PROVE LeaderState'
  BY <1>11 DEF Unlock
<1>12. ASSUME NEW w \in Writers, SetState(w) PROVE LeaderState'
  <2> DEFINE r == batch[w][pos[w]]
  <2>1. r \in Writers /\ Outstanding(r)
    <3>1. pos[w] \in FirstOwed(w)..Len(batch[w]) /\ pos[w] >= 1
      BY <1>12 DEF SetState, FirstOwed
    <3> QED
      BY <3>1, OwedIsOutstanding, Zenon
  <2>2. pos[w] = 1 => r = w
    BY <1>12 DEF SetState, LeaderHeadsItsBatch
  <2>3. state' = [state EXCEPT ![r] = "COMPLETED"] /\ pc' = [pc EXCEPT ![w] = "notify"]
    BY <1>12, Zenon DEF SetState
  <2>4. UNCHANGED <<commit_mutex, batch, pos>> /\ pc[w] = "set_state" /\ pos[w] \in Nat \ {0}
    BY <1>12 DEF SetState
  <2>5. state'[w] = "COMPLETED"
    BY <2>1, <2>2, <2>3, <2>4, SMTT(20)
  <2> QED
    BY <2>1, <2>3, <2>4, <2>5, SMTT(20) DEF Outstanding
<1>13. ASSUME NEW w \in Writers, Notify(w) PROVE LeaderState'
  BY <1>13, ZenonT(30) DEF Notify, Woken
<1>14. ASSUME NEW w \in Writers, NotifyLast(w) PROVE LeaderState'
  <2>1. batch[w][pos[w]] \in Writers
    BY <1>14 DEF NotifyLast
  <2>2. \A v \in Writers \ {w} : /\ pos'[v] = pos[v] /\ batch'[v] = batch[v]
                                 /\ state'[v] = state[v]
                                 /\ pc'[v] = pc[v] \/ (pc[v] = "asleep" /\ pc'[v] = "block")
    BY <1>14, <2>1 DEF NotifyLast, Woken
  <2>3. /\ pc'[w] = "idle" /\ pos'[w] = 1 /\ batch'[w] = <<>> /\ state'[w] = "INIT"
        /\ pc[w] = "notify" /\ commit_mutex' = commit_mutex
    BY <1>14, Zenon DEF NotifyLast
  <2>4. ASSUME NEW v \in Writers
        PROVE  /\ IsInjective(batch'[v])
               /\ commit_mutex' = v <=> pc'[v] \in Committing
               /\ pc'[v] \notin Committing \cup Completing => batch'[v] = <<>>
               /\ pc'[v] \notin {"memtable", "unlock"} \cup Completing => pos'[v] = 1
               /\ pc'[v] \in {"idle", "push"} => state'[v] = "INIT"
               /\ pc'[v] = "notify" \/ (pc'[v] = "set_state" /\ pos'[v] > 1)
                     => state'[v] = "COMPLETED"
    <3>1. CASE v = w
      <4>1. IsInjective(<<>>)
        BY DEF IsInjective
      <4> QED
        BY <3>1, <4>1, <2>3, Zenon
    <3>2. CASE v # w /\ pc'[v] = pc[v]
      <4>1. pos'[v] = pos[v] /\ batch'[v] = batch[v] /\ state'[v] = state[v]
        BY <3>2, <2>2, Zenon
      <4>2. IsInjective(batch'[v])
        BY <4>1, Zenon
      <4>3. commit_mutex' = v <=> pc'[v] \in Committing
        BY <3>2, <2>3, Zenon
      <4>4. pc'[v] \notin Committing \cup Completing => batch'[v] = <<>>
        BY <3>2, <4>1, Zenon
      <4>5. /\ pc'[v] \notin {"memtable", "unlock"} \cup Completing => pos'[v] = 1
            /\ pc'[v] \in {"idle", "push"} => state'[v] = "INIT"
            /\ pc'[v] = "notify" \/ (pc'[v] = "set_state" /\ pos'[v] > 1)
                     => state'[v] = "COMPLETED"
        BY <3>2, <4>1, Zenon
      <4> QED
        BY <4>2, <4>3, <4>4, <4>5, Zenon
    <3>3. CASE v # w /\ pc[v] = "asleep" /\ pc'[v] = "block"
      BY <3>3, <2>2, <2>3, ZenonT(30)
    <3> QED
      BY <3>1, <3>2, <3>3, <2>2, Zenon
  <2> QED
    BY <2>4, Zenon
<1>15. CASE UNCHANGED vars
  BY <1>15, Zenon DEF vars
<1> QED
  BY <1>1, <1>2, <1>3, <1>4, <1>5, <1>6, <1>7, <1>8, <1>9, <1>10, <1>11, <1>12, <1>13,
     <1>14, <1>15, Zenon DEF Next, Proceed

(* A leader stays the oldest request of the list until it has taken it.    *)
LEMMA StepLeaderHeads == IInv /\ [Next]_vars => LeaderHeadsItsBatch'
<1> SUFFICES ASSUME IInv, [Next]_vars PROVE LeaderHeadsItsBatch'
  OBVIOUS
<1> USE WritersAssumption DEF IInv, TypeOK, LeaderHeadsItsBatch, request, local, Goto, Destroy
<1>1. ASSUME NEW w \in Writers, Begin(w) PROVE LeaderHeadsItsBatch'
  BY <1>1, Zenon DEF Begin
<1>2. ASSUME NEW w \in Writers, Push(w) PROVE LeaderHeadsItsBatch'
  <2>1. CASE write_queue = <<>>
    BY <1>2, <2>1 DEF Push
  <2>2. CASE write_queue # <<>>
    <3>1. write_queue' # <<>> /\ Head(write_queue') = Head(write_queue)
      BY <1>2, <2>2, SMTT(20) DEF Push
    <3> QED
      BY <1>2, <2>2, <3>1, Zenon DEF Push
  <2> QED
    BY <2>1, <2>2, Zenon
<1>3. ASSUME NEW w \in Writers, AwaitLoad(w) PROVE LeaderHeadsItsBatch'
  BY <1>3, ZenonT(30) DEF AwaitLoad
<1>4. ASSUME NEW w \in Writers, AwaitWait(w) PROVE LeaderHeadsItsBatch'
  BY <1>4, ZenonT(30) DEF AwaitWait
<1>5. ASSUME NEW w \in Writers, MaybeFlush(w) PROVE LeaderHeadsItsBatch'
  BY <1>5, Zenon DEF MaybeFlush
<1>6. ASSUME NEW w \in Writers, Drain(w) PROVE LeaderHeadsItsBatch'
  BY <1>6, Zenon DEF Drain
<1>7. ASSUME NEW w \in Writers, VlogStage(w) PROVE LeaderHeadsItsBatch'
  BY <1>7, Zenon DEF VlogStage
<1>8. ASSUME NEW w \in Writers, WalStage(w) PROVE LeaderHeadsItsBatch'
  BY <1>8, Zenon DEF WalStage
<1>9. ASSUME NEW w \in Writers, StageFails(w) PROVE LeaderHeadsItsBatch'
  BY <1>9, Zenon DEF StageFails
<1>10. ASSUME NEW w \in Writers, MemtablePut(w) PROVE LeaderHeadsItsBatch'
  BY <1>10, Zenon DEF MemtablePut
<1>11. ASSUME NEW w \in Writers, Unlock(w) PROVE LeaderHeadsItsBatch'
  BY <1>11, Zenon DEF Unlock
<1>12. ASSUME NEW w \in Writers, SetState(w) PROVE LeaderHeadsItsBatch'
  BY <1>12, Zenon DEF SetState
<1>13. ASSUME NEW w \in Writers, Notify(w) PROVE LeaderHeadsItsBatch'
  BY <1>13, Zenon DEF Notify, Woken
<1>14. ASSUME NEW w \in Writers, NotifyLast(w) PROVE LeaderHeadsItsBatch'
  BY <1>14, Zenon DEF NotifyLast, Woken
<1>15. CASE UNCHANGED vars
  BY <1>15, Zenon DEF vars
<1> QED
  BY <1>1, <1>2, <1>3, <1>4, <1>5, <1>6, <1>7, <1>8, <1>9, <1>10, <1>11, <1>12, <1>13,
     <1>14, <1>15, Zenon DEF Next, Proceed

(* What appending does to the set of elements.                             *)
LEMMA RangeOfAppend ==
    ASSUME NEW S, NEW s \in Seq(S), NEW e \in S
    PROVE  Range(Append(s, e)) = Range(s) \cup {e}
<1>1. /\ DOMAIN Append(s, e) = 1..(Len(s) + 1)
      /\ DOMAIN s = 1..Len(s)
      /\ Len(s) \in Nat
      /\ \A i \in 1..Len(s) : Append(s, e)[i] = s[i]
      /\ Append(s, e)[Len(s) + 1] = e
  OBVIOUS
<1>2. \A x \in Range(s) : x \in Range(Append(s, e))
  BY <1>1 DEF Range
<1>3. e \in Range(Append(s, e))
  BY <1>1 DEF Range
<1>4. \A x \in Range(Append(s, e)) : x \in Range(s) \cup {e}
  <2> SUFFICES ASSUME NEW i \in 1..(Len(s) + 1)
               PROVE  Append(s, e)[i] \in Range(s) \cup {e}
    BY <1>1, Zenon DEF Range
  <2>1. CASE i \in 1..Len(s)
    BY <1>1, <2>1, Zenon DEF Range
  <2>2. CASE i = Len(s) + 1
    BY <1>1, <2>2, Zenon
  <2> QED
    BY <1>1, <2>1, <2>2
<1> QED
  BY <1>2, <1>3, <1>4, Zenon

(* An index behind another one of the same sequence.                       *)
LEMMA LaterIndex ==
    ASSUME NEW p \in Nat, p >= 1, NEW n \in Nat, NEW i \in (p + 1)..n
    PROVE  i \in p..n /\ i \in 1..n /\ i # p
  OBVIOUS

(* A step that moves no request between the list, the batches and the      *)
(* completed ones keeps the ownership.                                     *)
LEMMA OwnersUnmoved ==
    ASSUME ExactlyOneOwner, UNCHANGED write_queue,
           \A l \in Writers : Owed(l)' = Owed(l),
           \A r \in Writers : Outstanding(r)' <=> Outstanding(r)
    PROVE  ExactlyOneOwner'
  BY DEF ExactlyOneOwner

(* No request is lost, duplicated or completed twice by a step.            *)
LEMMA StepOwner == IInv /\ [Next]_vars => ExactlyOneOwner'
<1> SUFFICES ASSUME IInv, [Next]_vars PROVE ExactlyOneOwner'
  OBVIOUS
<1> USE WritersAssumption DEF IInv, TypeOK, request, local, Goto, Destroy
<1>a. ASSUME UNCHANGED <<write_queue, batch>>,
             \A l \in Writers : FirstOwed(l)' = FirstOwed(l),
             \A r \in Writers : Outstanding(r)' <=> Outstanding(r)
      PROVE  ExactlyOneOwner'
  <2>1. \A l \in Writers : Owed(l)' = Owed(l)
    BY <1>a, SMTT(20) DEF Owed
  <2> QED
    BY <1>a, <2>1, OwnersUnmoved, Zenon
<1>1. ASSUME NEW w \in Writers, Begin(w) PROVE ExactlyOneOwner'
  <2>1. \A l \in Writers : FirstOwed(l)' = FirstOwed(l)
    BY <1>1, Zenon DEF Begin, FirstOwed
  <2>2. \A r \in Writers : Outstanding(r)' <=> Outstanding(r)
    BY <1>1, Zenon DEF Begin, Outstanding, LeaderState
  <2> QED
    BY <1>1, <2>1, <2>2, <1>a, Zenon DEF Begin
<1>2. ASSUME NEW w \in Writers, AwaitLoad(w) PROVE ExactlyOneOwner'
  <2>1. \A l \in Writers : FirstOwed(l)' = FirstOwed(l)
    BY <1>2 DEF AwaitLoad, FirstOwed
  <2>2. \A r \in Writers : Outstanding(r)' <=> Outstanding(r)
    BY <1>2 DEF AwaitLoad, Outstanding, LeaderState
  <2> QED
    BY <1>2, <2>1, <2>2, <1>a, Zenon DEF AwaitLoad
<1>3. ASSUME NEW w \in Writers, AwaitWait(w) PROVE ExactlyOneOwner'
  <2>1. \A l \in Writers : FirstOwed(l)' = FirstOwed(l)
    BY <1>3 DEF AwaitWait, FirstOwed
  <2>2. \A r \in Writers : Outstanding(r)' <=> Outstanding(r)
    BY <1>3 DEF AwaitWait, Outstanding, LeaderState
  <2> QED
    BY <1>3, <2>1, <2>2, <1>a, Zenon DEF AwaitWait
<1>4. ASSUME NEW w \in Writers, MaybeFlush(w) PROVE ExactlyOneOwner'
  <2>1. \A l \in Writers : FirstOwed(l)' = FirstOwed(l)
    BY <1>4, Zenon DEF MaybeFlush, FirstOwed
  <2>2. \A r \in Writers : Outstanding(r)' <=> Outstanding(r)
    BY <1>4, Zenon DEF MaybeFlush, Outstanding, LeaderState
  <2> QED
    BY <1>4, <2>1, <2>2, <1>a, Zenon DEF MaybeFlush
<1>5. ASSUME NEW w \in Writers, VlogStage(w) PROVE ExactlyOneOwner'
  <2>1. \A l \in Writers : FirstOwed(l)' = FirstOwed(l)
    BY <1>5, Zenon DEF VlogStage, FirstOwed
  <2>2. \A r \in Writers : Outstanding(r)' <=> Outstanding(r)
    BY <1>5, Zenon DEF VlogStage, Outstanding, LeaderState
  <2> QED
    BY <1>5, <2>1, <2>2, <1>a, Zenon DEF VlogStage
<1>6. ASSUME NEW w \in Writers, WalStage(w) PROVE ExactlyOneOwner'
  <2>1. \A l \in Writers : FirstOwed(l)' = FirstOwed(l)
    BY <1>6, Zenon DEF WalStage, FirstOwed
  <2>2. \A r \in Writers : Outstanding(r)' <=> Outstanding(r)
    BY <1>6, Zenon DEF WalStage, Outstanding, LeaderState
  <2> QED
    BY <1>6, <2>1, <2>2, <1>a, Zenon DEF WalStage
<1>7. ASSUME NEW w \in Writers, StageFails(w) PROVE ExactlyOneOwner'
  <2>1. \A l \in Writers : FirstOwed(l)' = FirstOwed(l)
    BY <1>7, Zenon DEF StageFails, FirstOwed
  <2>2. \A r \in Writers : Outstanding(r)' <=> Outstanding(r)
    BY <1>7, Zenon DEF StageFails, Outstanding, LeaderState
  <2> QED
    BY <1>7, <2>1, <2>2, <1>a, Zenon DEF StageFails
<1>8. ASSUME NEW w \in Writers, MemtablePut(w) PROVE ExactlyOneOwner'
  <2>1. \A l \in Writers : FirstOwed(l)' = FirstOwed(l)
    BY <1>8, Zenon DEF MemtablePut, FirstOwed
  <2>2. \A r \in Writers : Outstanding(r)' <=> Outstanding(r)
    BY <1>8, Zenon DEF MemtablePut, Outstanding, LeaderState
  <2> QED
    BY <1>8, <2>1, <2>2, <1>a, Zenon DEF MemtablePut
<1>9. ASSUME NEW w \in Writers, Unlock(w) PROVE ExactlyOneOwner'
  <2>1. \A l \in Writers : FirstOwed(l)' = FirstOwed(l)
    BY <1>9, Zenon DEF Unlock, FirstOwed
  <2>2. \A r \in Writers : Outstanding(r)' <=> Outstanding(r)
    BY <1>9, Zenon DEF Unlock, Outstanding, LeaderState
  <2> QED
    BY <1>9, <2>1, <2>2, <1>a, Zenon DEF Unlock
<1>10. ASSUME NEW w \in Writers, Notify(w) PROVE ExactlyOneOwner'
  <2>1. \A l \in Writers : FirstOwed(l)' = FirstOwed(l)
    BY <1>10, Zenon DEF Notify, FirstOwed, Woken
  <2>2. \A r \in Writers : Outstanding(r)' <=> Outstanding(r)
    BY <1>10, Zenon DEF Notify, Outstanding, LeaderState, Woken
  <2> QED
    BY <1>10, <2>1, <2>2, <1>a, Zenon DEF Notify
<1>11. ASSUME NEW w \in Writers, Push(w) PROVE ExactlyOneOwner'
  <2>1. \A l \in Writers : Owed(l)' = Owed(l)
    <3>1. \A l \in Writers : FirstOwed(l)' = FirstOwed(l)
      BY <1>11, Zenon DEF Push, FirstOwed
    <3> QED
      BY <1>11, <3>1 DEF Push, Owed
  <2>2. \A r \in Writers : Outstanding(r)' <=> r = w \/ Outstanding(r)
    BY <1>11, Zenon DEF Push, Outstanding, LeaderState
  <2>3. w \notin Range(write_queue) /\ \A l \in Writers : w \notin Owed(l)
    BY <1>11, Zenon DEF Push, Outstanding, ExactlyOneOwner
  <2>4. Range(write_queue)' = Range(write_queue) \cup {w}
    BY <1>11, RangeOfAppend DEF Push
  <2>5. IsInjective(write_queue)'
    <3>1. IsInjective(write_queue) /\ \A i \in DOMAIN write_queue : write_queue[i] # w
      BY <2>3, Zenon DEF Range, ExactlyOneOwner
    <3> QED
      BY <1>11, <3>1, SMTT(20) DEF Push, IsInjective
  <2> QED
    BY <2>1, <2>2, <2>3, <2>4, <2>5 DEF ExactlyOneOwner
<1>12. ASSUME NEW w \in Writers, Drain(w) PROVE ExactlyOneOwner'
  <2>1. \A l \in Writers \ {w} : Owed(l)' = Owed(l)
    <3>1. \A l \in Writers \ {w} : FirstOwed(l)' = FirstOwed(l) /\ batch'[l] = batch[l]
      BY <1>12, Zenon DEF Drain, FirstOwed
    <3> QED
      BY <3>1, SMTT(20) DEF Owed
  <2>2. Owed(w) = {}
    <3>1. FirstOwed(w) = Len(batch[w]) + 1 /\ Len(batch[w]) \in Nat
      BY <1>12 DEF Drain, FirstOwed
    <3> QED
      BY <3>1 DEF Owed
  <2>3. Owed(w)' = Range(write_queue)
    <3>1. FirstOwed(w)' = 1 /\ batch'[w] = write_queue
      BY <1>12, Zenon DEF Drain, FirstOwed
    <3>2. DOMAIN write_queue = 1..Len(write_queue)
      OBVIOUS
    <3> QED
      BY <3>1, <3>2 DEF Owed, Range
  <2>4. Range(write_queue)' = {} /\ IsInjective(write_queue)'
    BY <1>12 DEF Drain, Range, IsInjective
  <2>5. \A r \in Writers : Outstanding(r)' <=> Outstanding(r)
    BY <1>12, Zenon DEF Drain, Outstanding
  <2>6. \A l \in Writers : Owed(l)' \cap Range(write_queue)' = {}
    BY <2>4, Zenon
  <2>7. \A l, m \in Writers : l # m => Owed(l)' \cap Owed(m)' = {}
    <3> SUFFICES ASSUME NEW l \in Writers, NEW m \in Writers, l # m
                 PROVE  Owed(l)' \cap Owed(m)' = {}
      OBVIOUS
    <3>1. CASE l = w
      BY <2>1, <2>3, <3>1 DEF ExactlyOneOwner
    <3>2. CASE m = w
      BY <2>1, <2>3, <3>2, Zenon DEF ExactlyOneOwner
    <3>3. CASE l # w /\ m # w
      BY <2>1, <3>3 DEF ExactlyOneOwner
    <3> QED
      BY <3>1, <3>2, <3>3, Zenon
  <2>8. ASSUME NEW r \in Writers
        PROVE  Outstanding(r)' <=> r \in Range(write_queue)' \/ \E l \in Writers : r \in Owed(l)'
    <3>1. Outstanding(r) <=> r \in Range(write_queue) \/ \E l \in Writers \ {w} : r \in Owed(l)
      BY <2>2, Zenon DEF ExactlyOneOwner
    <3>2. ASSUME NEW l \in Writers, r \in Owed(l)'
          PROVE  r \in Range(write_queue) \/ \E m \in Writers \ {w} : r \in Owed(m)
      <4>1. CASE l = w
        BY <2>3, <3>2, <4>1, Zenon
      <4>2. CASE l # w
        BY <2>1, <3>2, <4>2
      <4> QED
        BY <4>1, <4>2, Zenon
    <3>3. ASSUME NEW l \in Writers \ {w}, r \in Owed(l) PROVE r \in Owed(l)'
      BY <2>1, <3>3, Zenon
    <3>4. r \in Range(write_queue) => r \in Owed(w)'
      BY <2>3, Zenon
    <3>5. (\E l \in Writers : r \in Owed(l)')
              <=> r \in Range(write_queue) \/ \E l \in Writers \ {w} : r \in Owed(l)
      BY <3>2, <3>3, <3>4, Zenon
    <3>6. r \notin Range(write_queue)'
      BY <2>4, Zenon
    <3> QED
      BY <2>5, <3>1, <3>5, <3>6, Zenon
  <2> QED
    BY <2>4, <2>6, <2>7, <2>8, Zenon DEF ExactlyOneOwner
<1>13. ASSUME NEW w \in Writers, SetState(w) PROVE ExactlyOneOwner'
  <2> DEFINE r == batch[w][pos[w]]
  <2>1. pos[w] \in 1..Len(batch[w]) /\ FirstOwed(w) = pos[w]
    BY <1>13 DEF SetState, FirstOwed
  <2>2. r \in Writers /\ Outstanding(r) /\ r \in Owed(w)
    BY <2>1, OwedIsOutstanding
  <2>3. \A l \in Writers \ {w} : Owed(l)' = Owed(l)
    <3>1. \A l \in Writers \ {w} : FirstOwed(l)' = FirstOwed(l) /\ batch'[l] = batch[l]
      BY <1>13, Zenon DEF SetState, FirstOwed
    <3> QED
      BY <3>1 DEF Owed
  <2>4. Owed(w)' = Owed(w) \ {r}
    <3>1. FirstOwed(w)' = pos[w] + 1 /\ batch'[w] = batch[w]
      BY <1>13, Zenon DEF SetState, FirstOwed
    <3>2. \A i \in 1..Len(batch[w]) : batch[w][i] = r => i = pos[w]
      BY <2>1 DEF LeaderState, IsInjective
    <3> DEFINE later == {batch[w][i] : i \in (pos[w] + 1)..Len(batch[w])}
    <3>3. Owed(w)' = later
      BY <3>1 DEF Owed
    <3>4. Owed(w) = {batch[w][i] : i \in pos[w]..Len(batch[w])}
      BY <2>1, Zenon DEF Owed
    <3>5. ASSUME NEW x \in later PROVE x \in Owed(w) \ {r}
      <4>1. PICK i \in (pos[w] + 1)..Len(batch[w]) : x = batch[w][i]
        OBVIOUS
      <4>2. pos[w] \in Nat /\ pos[w] >= 1 /\ Len(batch[w]) \in Nat
        BY <2>1
      <4>3. i \in pos[w]..Len(batch[w]) /\ i \in 1..Len(batch[w]) /\ i # pos[w]
        BY <4>2, LaterIndex, Zenon
      <4> QED
        BY <3>2, <3>4, <4>1, <4>3, Zenon
    <3>6. ASSUME NEW x \in Owed(w), x # r PROVE x \in later
      <4>1. PICK i \in pos[w]..Len(batch[w]) : x = batch[w][i]
        BY <3>4, Zenon
      <4>2. i # pos[w]
        BY <3>6, <4>1, Zenon
      <4>3. i \in (pos[w] + 1)..Len(batch[w])
        BY <2>1, <4>2
      <4> QED
        BY <4>1, <4>3, Zenon
    <3> HIDE DEF later, r
    <3> QED
      BY <3>3, <3>5, <3>6, Zenon
  <2>5. \A v \in Writers : Outstanding(v)' <=> v # r /\ Outstanding(v)
    <3>1. state' = [state EXCEPT ![r] = "COMPLETED"] /\ pc' = [pc EXCEPT ![w] = "notify"]
      BY <1>13, Zenon DEF SetState
    <3>2. pc[w] = "set_state"
      BY <1>13, Zenon DEF SetState
    <3> QED
      BY <2>2, <3>1, <3>2, Zenon DEF Outstanding
  <2>6. UNCHANGED write_queue
    BY <1>13, Zenon DEF SetState
  <2> HIDE DEF r
  <2>7. \A l \in Writers : Owed(l)' \subseteq Owed(l)
    BY <2>3, <2>4, Zenon
  <2>8. ASSUME NEW v \in Writers
        PROVE  Outstanding(v)' <=> v \in Range(write_queue)' \/ \E l \in Writers : v \in Owed(l)'
    <3>1. r \notin Range(write_queue) /\ \A l \in Writers \ {w} : r \notin Owed(l)
      BY <2>2, Zenon DEF ExactlyOneOwner
    <3>2. ASSUME NEW l \in Writers
          PROVE  v \in Owed(l)' <=> v \in Owed(l) /\ v # r
      <4>1. CASE l = w
        BY <2>4, <4>1, Zenon
      <4>2. CASE l # w
        BY <2>3, <3>1, <4>2
      <4> QED
        BY <4>1, <4>2, Zenon
    <3>3. v \in Range(write_queue)' <=> v \in Range(write_queue) /\ v # r
      BY <2>6, <3>1, Zenon
    <3>4. Outstanding(v) <=> v \in Range(write_queue) \/ \E l \in Writers : v \in Owed(l)
      BY Zenon DEF ExactlyOneOwner
    <3> QED
      BY <2>5, <3>2, <3>3, <3>4, Zenon
  <2>9. \A l \in Writers : Owed(l)' \cap Range(write_queue)' = {}
    BY <2>6, <2>7, Zenon DEF ExactlyOneOwner
  <2>10. \A l, m \in Writers : l # m => Owed(l)' \cap Owed(m)' = {}
    BY <2>7, Zenon DEF ExactlyOneOwner
  <2>11. IsInjective(write_queue)'
    BY <2>6, Zenon DEF ExactlyOneOwner
  <2> QED
    BY <2>8, <2>9, <2>10, <2>11, Zenon DEF ExactlyOneOwner
<1>14. ASSUME NEW w \in Writers, NotifyLast(w) PROVE ExactlyOneOwner'
  <2>1. \A v \in Writers \ {w} : /\ pos'[v] = pos[v] /\ batch'[v] = batch[v]
                                 /\ state'[v] = state[v]
                                 /\ pc'[v] = pc[v] \/ (pc[v] = "asleep" /\ pc'[v] = "block")
    BY <1>14, Zenon DEF NotifyLast, Woken
  <2>2. \A l \in Writers \ {w} : Owed(l)' = Owed(l)
    <3>1. \A l \in Writers \ {w} : FirstOwed(l)' = FirstOwed(l)
      BY <2>1, Zenon DEF FirstOwed
    <3> QED
      BY <2>1, <3>1, SMTT(20) DEF Owed
  <2>3. Owed(w) = {}
    <3>1. FirstOwed(w) = Len(batch[w]) + 1 /\ Len(batch[w]) \in Nat
      BY <1>14 DEF NotifyLast, FirstOwed
    <3> QED
      BY <3>1 DEF Owed
  <2>4. Owed(w)' = {}
    <3>1. FirstOwed(w)' = 1 /\ batch'[w] = <<>>
      BY <1>14 DEF NotifyLast, FirstOwed
    <3> QED
      BY <3>1 DEF Owed
  <2>5. \A r \in Writers : Outstanding(r)' <=> Outstanding(r)
    <3>1. ~Outstanding(w) /\ ~Outstanding(w)'
      BY <1>14, Zenon DEF NotifyLast, Outstanding, LeaderState
    <3>2. \A r \in Writers \ {w} : Outstanding(r)' <=> Outstanding(r)
      BY <2>1, Zenon DEF Outstanding
    <3> QED
      BY <3>1, <3>2, Zenon
  <2> QED
    BY <1>14, <2>2, <2>3, <2>4, <2>5, OwnersUnmoved, Zenon DEF NotifyLast
<1>15. CASE UNCHANGED vars
  <2>1. \A l \in Writers : Owed(l)' = Owed(l)
    BY <1>15 DEF vars, Owed, FirstOwed
  <2>2. \A r \in Writers : Outstanding(r)' <=> Outstanding(r)
    BY <1>15, Zenon DEF vars, Outstanding
  <2> QED
    BY <1>15, <2>1, <2>2, OwnersUnmoved, Zenon DEF vars
<1> QED
  BY <1>1, <1>2, <1>3, <1>4, <1>5, <1>6, <1>7, <1>8, <1>9, <1>10, <1>11, <1>12, <1>13,
     <1>14, <1>15, Zenon DEF Next, Proceed

-----------------------------------------------------------------------------
(* The invariant is inductive.                                             *)
THEOREM Inductive == Spec => []IInv
<1>1. IInv /\ [Next]_vars => IInv'
  BY StepTypeOK, StepLeaderState, StepLeaderHeads, StepOwner, Zenon DEF IInv
<1> QED
  BY InitIInv, <1>1, PTL DEF Spec

(* In every run of the group commit the indexes the loops of               *)
(* execute_write_request use are inside their vectors.                     *)
THEOREM TypeCorrect == Spec => []TypeOK
<1>1. IInv => TypeOK
  BY Zenon DEF IInv
<1> QED
  BY <1>1, Inductive, PTL

(* However many threads write, every request that execute_write_request    *)
(* has linked and not completed is in the list or in the batch of one      *)
(* leader, once.                                                           *)
THEOREM OwnershipHolds == Spec => []ExactlyOneOwner
<1>1. IInv => ExactlyOneOwner
  BY Zenon DEF IInv
<1> QED
  BY <1>1, Inductive, PTL

(* However many threads write, at most one leader waits to take the list,  *)
(* and it takes its own request with it, at the front.                     *)
THEOREM LeadershipHolds == Spec => []LeaderHeadsItsBatch
<1>1. IInv => LeaderHeadsItsBatch
  BY Zenon DEF IInv
<1> QED
  BY <1>1, Inductive, PTL

-----------------------------------------------------------------------------
(* What a completed request says is what was done with it.                 *)
Told(r, failed) ==
    IF failed THEN effect[r] = "failed"
    ELSE effect[r] = "put" \/ (effect[r] = "ignored" /\ r \in GcWriters)

(* The requests a leader still has to complete: those it has not reached   *)
(* are untouched, the others are as its batch_error says.                  *)
LeaderEffects(l) ==
    /\ pc[l] \notin {"unlock"} \cup Completing => ~batch_error[l]
    /\ \A i \in FirstOwed(l)..Len(batch[l]) :
          IF pc[l] \in {"vlog", "wal", "memtable"} /\ i >= pos[l] THEN effect[batch[l][i]] = "none"
          ELSE Told(batch[l][i], batch_error[l])

EffectInv ==
    /\ \A r \in Writers : pc[r] \in {"idle", "push"} \/ r \in Range(write_queue) => effect[r] = "none"
    /\ \A l \in Writers : LeaderEffects(l)
    /\ \A r \in Writers : state[r] = "COMPLETED" => Told(r, error[r])

(* A request of a batch that is not completed is nowhere else.             *)
LEMMA OwedFacts ==
    ASSUME IInv, NEW l \in Writers, NEW i \in FirstOwed(l)..Len(batch[l])
    PROVE  /\ i \in 1..Len(batch[l]) /\ batch[l][i] \in Writers /\ batch[l][i] \in Owed(l)
           /\ pc[batch[l][i]] \notin {"idle", "push"} /\ state[batch[l][i]] = "INIT"
           /\ batch[l][i] \notin Range(write_queue)
           /\ \A m \in Writers : m # l => batch[l][i] \notin Owed(m)
<1>1. batch[l] \in Seq(Writers) /\ Len(batch[l]) \in Nat /\ pos[l] \in Nat
  BY DEF IInv, TypeOK
<1>2. pc[l] \in Completing => pos[l] >= 1
  BY <1>1 DEF IInv, TypeOK
<1>3. FirstOwed(l) \in Nat /\ FirstOwed(l) >= 1
  BY <1>1, <1>2 DEF FirstOwed
<1>4. i \in 1..Len(batch[l])
  BY <1>1, <1>3
<1>5. batch[l][i] \in Writers /\ batch[l][i] \in Owed(l)
  BY <1>1, <1>4 DEF Owed
<1>6. Outstanding(batch[l][i])
  BY <1>5, Zenon DEF IInv, ExactlyOneOwner
<1> QED
  BY <1>4, <1>5, <1>6, Zenon DEF IInv, ExactlyOneOwner, Outstanding

(* A leader none of whose requests is touched.                             *)
LEMMA EffectsKept ==
    ASSUME IInv, NEW l \in Writers, LeaderEffects(l),
           pc'[l] = pc[l] \/ (pc[l] = "asleep" /\ pc'[l] = "block"),
           pos'[l] = pos[l], batch'[l] = batch[l], batch_error'[l] = batch_error[l],
           \A r \in Owed(l) : effect'[r] = effect[r]
    PROVE  LeaderEffects(l)'
<1>1. FirstOwed(l)' = FirstOwed(l)
  BY Zenon DEF FirstOwed
<1>2. \A i \in FirstOwed(l)..Len(batch[l]) : effect'[batch[l][i]] = effect[batch[l][i]]
  BY OwedFacts, Zenon
<1>3. ASSUME NEW i \in FirstOwed(l)..Len(batch[l])
      PROVE  IF pc'[l] \in {"vlog", "wal", "memtable"} /\ i >= pos[l] THEN effect'[batch[l][i]] = "none"
             ELSE Told(batch[l][i], batch_error[l])'
  BY <1>2, <1>3, Zenon DEF LeaderEffects, Told
<1> QED
  BY <1>1, <1>3, Zenon DEF LeaderEffects

(* A thread that leads no batch.                                           *)
LEMMA NoEffects ==
    ASSUME NEW l \in Writers, batch'[l] = <<>>, pc'[l] \notin Committing \cup Completing, ~batch_error'[l]
    PROVE  LeaderEffects(l)'
<1>1. FirstOwed(l)' = 1 /\ Len(batch'[l]) = 0
  BY DEF FirstOwed
<1> QED
  BY <1>1 DEF LeaderEffects

(* A step of a thread that leads no batch, before or after it.             *)
LEMMA QuietEffects ==
    ASSUME IInv, EffectInv, NEW w \in Writers, UNCHANGED <<batch, pos, batch_error>>,
           pc[w] \notin Committing \cup Completing, pc'[w] \notin Committing \cup Completing,
           \A v \in Writers \ {w} : pc'[v] = pc[v] /\ effect'[v] = effect[v],
           effect'[w] = effect[w] \/ ~Outstanding(w)
    PROVE  \A l \in Writers : LeaderEffects(l)'
<1>1. LeaderEffects(w)'
  <2>1. batch[w] = <<>> /\ ~batch_error[w]
    BY Zenon DEF IInv, LeaderState, EffectInv, LeaderEffects
  <2> QED
    BY <2>1, NoEffects, Zenon
<1>2. ASSUME NEW l \in Writers, l # w
      PROVE  LeaderEffects(l)'
  <2>1. \A r \in Owed(l) : Outstanding(r) /\ r \in Writers
    BY OwedFacts, SMTT(20) DEF Owed, Outstanding
  <2>2. \A r \in Owed(l) : effect'[r] = effect[r]
    BY <2>1, Zenon
  <2>3. pc'[l] = pc[l] /\ pos'[l] = pos[l] /\ batch'[l] = batch[l] /\ batch_error'[l] = batch_error[l]
    BY <1>2, Zenon
  <2>4. LeaderEffects(l)
    BY Zenon DEF EffectInv
  <2> QED
    BY <2>2, <2>3, <2>4, EffectsKept, Zenon
<1> QED
  BY <1>1, <1>2, Zenon

(* A caller that returns leaves no trace of its request.                   *)
LEMMA ReturnEffects ==
    ASSUME IInv, EffectInv, NEW w \in Writers, pc[w] \in Sleeping, state[w] = "COMPLETED",
           Goto(w, "idle"), Destroy(w), UNCHANGED <<write_queue, local>>
    PROVE  EffectInv'
<1>1. /\ pc' = [pc EXCEPT ![w] = "idle"] /\ state' = [state EXCEPT ![w] = "INIT"]
      /\ error' = [error EXCEPT ![w] = FALSE] /\ effect' = [effect EXCEPT ![w] = "none"]
      /\ UNCHANGED <<write_queue, batch, pos, batch_error>>
  BY Zenon DEF Goto, Destroy, local
<1>2. /\ pc'[w] = "idle" /\ state'[w] = "INIT" /\ effect'[w] = "none"
      /\ \A v \in Writers \ {w} : /\ pc'[v] = pc[v] /\ state'[v] = state[v]
                                   /\ error'[v] = error[v] /\ effect'[v] = effect[v]
  BY <1>1, Zenon DEF IInv, TypeOK
<1>3. ~Outstanding(w)
  BY Zenon DEF Outstanding
<1>4. \A l \in Writers : LeaderEffects(l)'
  BY <1>1, <1>2, <1>3, QuietEffects, Zenon
<1>5. \A r \in Writers : pc'[r] \in {"idle", "push"} \/ r \in Range(write_queue)' => effect'[r] = "none"
  BY <1>1, <1>2 DEF EffectInv
<1>6. \A r \in Writers : state'[r] = "COMPLETED" => Told(r, error[r])'
  BY <1>2, Zenon DEF EffectInv, Told
<1> QED
  BY <1>4, <1>5, <1>6, Zenon DEF EffectInv

(* Taking the list: none of its requests has been touched.                 *)
LEMMA DrainEffects ==
    ASSUME IInv, EffectInv, NEW w \in Writers, Drain(w)
    PROVE  EffectInv'
<1>1. /\ pc[w] = "drain" /\ pc' = [pc EXCEPT ![w] = "vlog"] /\ batch' = [batch EXCEPT ![w] = write_queue]
      /\ write_queue' = <<>> /\ UNCHANGED <<pos, batch_error, state, error, effect>>
  BY Zenon DEF Drain, Goto, request
<1>2. /\ pc'[w] = "vlog" /\ batch'[w] = write_queue /\ pos[w] = 1 /\ ~batch_error[w]
      /\ \A v \in Writers \ {w} : pc'[v] = pc[v] /\ batch'[v] = batch[v]
  BY <1>1, Zenon DEF IInv, TypeOK, LeaderState, EffectInv, LeaderEffects
<1>3. LeaderEffects(w)'
  <2>1. FirstOwed(w)' = 1
    BY <1>2, Zenon DEF FirstOwed
  <2>2. ASSUME NEW i \in 1..Len(write_queue)
        PROVE  effect[write_queue[i]] = "none" /\ i >= 1
    <3>1. write_queue \in Seq(Writers)
      BY Zenon DEF IInv, TypeOK
    <3>2. write_queue[i] \in Writers /\ write_queue[i] \in Range(write_queue)
      BY <3>1 DEF Range
    <3> QED
      BY <3>2 DEF EffectInv
  <2> QED
    BY <1>1, <1>2, <2>1, <2>2, Zenon DEF LeaderEffects
<1>4. ASSUME NEW l \in Writers, l # w
      PROVE  LeaderEffects(l)'
  BY <1>1, <1>2, <1>4, EffectsKept, Zenon DEF EffectInv
<1>5. \A r \in Writers : pc'[r] \in {"idle", "push"} \/ r \in Range(write_queue)' => effect'[r] = "none"
  <2>1. Range(<<>>) = {}
    BY DEF Range
  <2> QED
    BY <1>1, <1>2, <2>1, Zenon DEF EffectInv
<1>6. \A r \in Writers : state'[r] = "COMPLETED" => Told(r, error[r])'
  BY <1>1, Zenon DEF EffectInv, Told
<1> QED
  BY <1>3, <1>4, <1>5, <1>6, Zenon DEF EffectInv

(* A batch that fails: every member failed, none was put.                  *)
LEMMA FailEffects ==
    ASSUME IInv, EffectInv, NEW w \in Writers, StageFails(w)
    PROVE  EffectInv'
<1>1. /\ pc[w] \in {"vlog", "wal"} /\ pc' = [pc EXCEPT ![w] = "unlock"]
      /\ batch_error' = [batch_error EXCEPT ![w] = TRUE]
      /\ effect' = [r \in Writers |-> IF r \in Range(batch[w]) THEN "failed" ELSE effect[r]]
      /\ UNCHANGED <<write_queue, batch, pos, state, error>>
  BY Zenon DEF StageFails, Goto
<1>2. /\ pc'[w] = "unlock" /\ batch_error'[w]
      /\ \A v \in Writers \ {w} : pc'[v] = pc[v] /\ batch_error'[v] = batch_error[v]
  BY <1>1, Zenon DEF IInv, TypeOK
<1>3. batch[w] \in Seq(Writers) /\ FirstOwed(w) = 1 /\ DOMAIN batch[w] = 1..Len(batch[w])
  BY <1>1 DEF IInv, TypeOK, FirstOwed
<1>4. Range(batch[w]) = Owed(w)
  BY <1>3, Zenon DEF Range, Owed
<1>5. \A r \in Owed(w) : /\ r \in Writers /\ pc[r] \notin {"idle", "push"} /\ state[r] = "INIT"
                         /\ r \notin Range(write_queue) /\ \A m \in Writers : m # w => r \notin Owed(m)
  BY OwedFacts DEF Owed
<1>6. LeaderEffects(w)'
  <2>1. FirstOwed(w)' = 1
    BY <1>2, Zenon DEF FirstOwed
  <2>2. ASSUME NEW i \in 1..Len(batch[w])
        PROVE  effect'[batch[w][i]] = "failed"
    BY <1>1, <1>3 DEF Range
  <2> QED
    BY <1>1, <1>2, <2>1, <2>2 DEF LeaderEffects, Told
<1>7. ASSUME NEW l \in Writers, l # w
      PROVE  LeaderEffects(l)'
  <2>1. \A r \in Owed(l) : r \in Writers /\ r \notin Owed(w)
    BY <1>5, <1>7, OwedFacts DEF Owed
  <2>2. \A r \in Owed(l) : effect'[r] = effect[r]
    BY <1>1, <1>4, <2>1, Zenon
  <2> QED
    BY <1>1, <1>2, <1>7, <2>2, EffectsKept, Zenon DEF EffectInv
<1>8. \A r \in Writers : pc'[r] \in {"idle", "push"} \/ r \in Range(write_queue)' => effect'[r] = "none"
  BY <1>1, <1>2, <1>4, <1>5, Zenon DEF EffectInv
<1>9. \A r \in Writers : state'[r] = "COMPLETED" => Told(r, error[r])'
  BY <1>1, <1>4, <1>5, Zenon DEF EffectInv, Told
<1> QED
  BY <1>6, <1>7, <1>8, <1>9, Zenon DEF EffectInv

(* One insertion: the request the loop is at is put or, for the collector, *)
(* ignored.                                                                *)
LEMMA PutEffects ==
    ASSUME IInv, EffectInv, NEW w \in Writers, MemtablePut(w)
    PROVE  EffectInv'
<1>1. PICK x : x = batch[w][pos[w]]
  OBVIOUS
<1>2. /\ pc[w] = "memtable" /\ effect' = [effect EXCEPT ![x] = IF x \in ignored[w] THEN "ignored" ELSE "put"]
      /\ pos' = [pos EXCEPT ![w] = pos[w] + 1]
      /\ pc' = [pc EXCEPT ![w] = IF pos[w] = Len(batch[w]) THEN "unlock" ELSE "memtable"]
      /\ UNCHANGED <<write_queue, batch, batch_error, state, error>>
  BY <1>1, Zenon DEF MemtablePut, Goto
<1>3. /\ pos[w] \in 1..Len(batch[w]) /\ Len(batch[w]) \in Nat /\ FirstOwed(w) = 1 /\ ~batch_error[w]
      /\ IsInjective(batch[w]) /\ DOMAIN batch[w] = 1..Len(batch[w])
  <2>1. pos[w] \in 1..Len(batch[w]) /\ Len(batch[w]) \in Nat /\ DOMAIN batch[w] = 1..Len(batch[w])
    BY <1>2 DEF IInv, TypeOK
  <2>2. FirstOwed(w) = 1 /\ IsInjective(batch[w])
    BY <1>2, Zenon DEF IInv, FirstOwed, LeaderState
  <2>3. ~batch_error[w]
    BY <1>2, Zenon DEF EffectInv, LeaderEffects
  <2> QED
    BY <2>1, <2>2, <2>3, Zenon
<1>4. /\ x \in Writers /\ x \in Owed(w) /\ pc[x] \notin {"idle", "push"} /\ state[x] = "INIT"
      /\ x \notin Range(write_queue) /\ \A m \in Writers : m # w => x \notin Owed(m)
  BY <1>1, <1>3, OwedFacts, Zenon
<1>5. /\ pos'[w] = pos[w] + 1 /\ pc'[w] = IF pos[w] = Len(batch[w]) THEN "unlock" ELSE "memtable"
      /\ \A v \in Writers \ {w} : pc'[v] = pc[v] /\ pos'[v] = pos[v]
  BY <1>2, Zenon DEF IInv, TypeOK
<1>6. /\ effect'[x] = "put" \/ (effect'[x] = "ignored" /\ x \in GcWriters)
      /\ \A r \in Writers \ {x} : effect'[r] = effect[r]
  BY <1>2, <1>4, Zenon DEF IInv, TypeOK
<1>7. LeaderEffects(w)'
  <2>1. FirstOwed(w)' = 1
    BY <1>5, Zenon DEF FirstOwed
  <2>2. ASSUME NEW j \in 1..Len(batch[w])
        PROVE  IF pc'[w] \in {"vlog", "wal", "memtable"} /\ j >= pos'[w] THEN effect'[batch[w][j]] = "none"
               ELSE Told(batch[w][j], batch_error[w])'
    <3>1. CASE j = pos[w]
      BY <1>1, <1>2, <1>3, <1>5, <1>6, <3>1, SMTT(20) DEF Told
    <3>2. CASE j # pos[w]
      <4>1. batch[w][j] # x /\ batch[w][j] \in Writers
        BY <1>1, <1>3, <3>2, OwedFacts, Zenon DEF IsInjective
      <4>2. effect'[batch[w][j]] = effect[batch[w][j]]
        BY <1>6, <4>1, Zenon
      <4>3. IF j >= pos[w] THEN effect[batch[w][j]] = "none" ELSE Told(batch[w][j], batch_error[w])
        BY <1>2, <1>3, Zenon DEF EffectInv, LeaderEffects
      <4>4. /\ pc'[w] \in {"vlog", "wal", "memtable"} /\ j >= pos'[w] => j >= pos[w]
            /\ ~(pc'[w] \in {"vlog", "wal", "memtable"} /\ j >= pos'[w]) => ~(j >= pos[w])
        BY <1>3, <1>5, <3>2, SMTT(20)
      <4> QED
        BY <1>2, <4>2, <4>3, <4>4, Zenon DEF Told
    <3> QED
      BY <3>1, <3>2, Zenon
  <2> QED
    BY <1>2, <1>3, <2>1, <2>2, Zenon DEF LeaderEffects
<1>8. ASSUME NEW l \in Writers, l # w
      PROVE  LeaderEffects(l)'
  <2>1. \A r \in Owed(l) : r \in Writers /\ r # x
    BY <1>4, <1>8, OwedFacts, SMTT(20) DEF Owed
  <2>2. \A r \in Owed(l) : effect'[r] = effect[r]
    BY <1>6, <2>1, Zenon
  <2> QED
    BY <1>2, <1>5, <1>8, <2>2, EffectsKept, Zenon DEF EffectInv
<1>9. \A r \in Writers : pc'[r] \in {"idle", "push"} \/ r \in Range(write_queue)' => effect'[r] = "none"
  BY <1>2, <1>4, <1>5, <1>6, SMTT(20) DEF EffectInv
<1>10. \A r \in Writers : state'[r] = "COMPLETED" => Told(r, error[r])'
  BY <1>2, <1>4, <1>6, Zenon DEF EffectInv, Told
<1> QED
  BY <1>7, <1>8, <1>9, <1>10, Zenon DEF EffectInv

(* A step of a leader that touches no request's outcome and owes no more   *)
(* than before.                                                            *)
LEMMA LeaderStepEffects ==
    ASSUME IInv, EffectInv, NEW w \in Writers, UNCHANGED <<write_queue, batch, batch_error, effect>>,
           pc[w] \in Committing \cup Completing, pc'[w] \in Committing \cup Completing,
           pc[w] \in {"vlog", "wal"} => pc'[w] \in {"wal", "memtable"} /\ pos'[w] = pos[w],
           pc[w] \notin {"vlog", "wal"} => pc[w] \in {"unlock"} \cup Completing /\ pc'[w] \in Completing,
           FirstOwed(w)' >= FirstOwed(w), FirstOwed(w)' \in Nat,
           \A v \in Writers \ {w} : pos'[v] = pos[v] /\ (pc'[v] = pc[v] \/ (pc[v] = "asleep" /\ pc'[v] = "block"))
    PROVE  /\ \A l \in Writers : LeaderEffects(l)'
           /\ \A r \in Writers : pc'[r] \in {"idle", "push"} \/ r \in Range(write_queue)' => effect'[r] = "none"
<1>1. LeaderEffects(w)'
  <2>1. LeaderEffects(w)
    BY Zenon DEF EffectInv
  <2>2. FirstOwed(w) \in Nat /\ Len(batch[w]) \in Nat
    BY SMTT(20) DEF IInv, TypeOK, FirstOwed
  <2>3. \A i \in FirstOwed(w)'..Len(batch[w]) : i \in FirstOwed(w)..Len(batch[w])
    BY <2>2
  <2>4. CASE pc[w] \in {"vlog", "wal"}
    <3>1. ~batch_error'[w] /\ pc'[w] \in {"vlog", "wal", "memtable"} /\ pc[w] \in {"vlog", "wal", "memtable"} /\ pos'[w] = pos[w]
      BY <2>1, <2>4, Zenon DEF LeaderEffects
    <3> QED
      BY <2>1, <2>3, <3>1, Zenon DEF LeaderEffects, Told
  <2>5. CASE pc[w] \notin {"vlog", "wal"}
    BY <2>1, <2>3, <2>5, Zenon DEF LeaderEffects, Told
  <2> QED
    BY <2>4, <2>5, Zenon
<1>2. ASSUME NEW l \in Writers, l # w
      PROVE  LeaderEffects(l)'
  BY <1>2, EffectsKept, Zenon DEF EffectInv
<1>3. \A r \in Writers : pc'[r] \in {"idle", "push"} \/ r \in Range(write_queue)' => effect'[r] = "none"
  BY Zenon DEF EffectInv
<1> QED
  BY <1>1, <1>2, <1>3, Zenon

(* A member is told what became of it.                                     *)
LEMMA SetStateEffects ==
    ASSUME IInv, EffectInv, NEW w \in Writers, SetState(w)
    PROVE  EffectInv'
<1>1. PICK x : x = batch[w][pos[w]]
  OBVIOUS
<1>2. /\ pc[w] = "set_state" /\ error' = [error EXCEPT ![x] = batch_error[w]]
      /\ state' = [state EXCEPT ![x] = "COMPLETED"] /\ pc' = [pc EXCEPT ![w] = "notify"]
      /\ UNCHANGED <<write_queue, batch, pos, batch_error, effect>>
  BY <1>1, Zenon DEF SetState, Goto, local
<1>3. pos[w] \in 1..Len(batch[w]) /\ FirstOwed(w) = pos[w] /\ pos[w] \in Nat /\ Len(batch[w]) \in Nat
  BY <1>2 DEF IInv, TypeOK, FirstOwed
<1>4. x \in Writers /\ Told(x, batch_error[w])
  BY <1>1, <1>2, <1>3, OwedFacts, SMTT(20) DEF EffectInv, LeaderEffects
<1>5. pc'[w] = "notify" /\ \A v \in Writers \ {w} : pc'[v] = pc[v]
  BY <1>2, Zenon DEF IInv, TypeOK
<1>6. FirstOwed(w)' = pos[w] + 1
  BY <1>2, <1>5, Zenon DEF FirstOwed
<1>7. /\ \A l \in Writers : LeaderEffects(l)'
      /\ \A r \in Writers : pc'[r] \in {"idle", "push"} \/ r \in Range(write_queue)' => effect'[r] = "none"
  <2>1. FirstOwed(w)' >= FirstOwed(w) /\ FirstOwed(w)' \in Nat
    BY <1>3, <1>6
  <2> QED
    BY <1>2, <1>5, <2>1, LeaderStepEffects, Zenon
<1>8. ASSUME NEW r \in Writers, state'[r] = "COMPLETED"
      PROVE  Told(r, error[r])'
  <2>1. CASE r = x
    <3>1. error'[r] = batch_error[w]
      BY <1>2, <1>4, <2>1, Zenon DEF IInv, TypeOK
    <3> QED
      BY <1>2, <1>4, <2>1, <3>1, Zenon DEF Told
  <2>2. CASE r # x
    <3>1. error'[r] = error[r] /\ state'[r] = state[r]
      BY <1>2, <2>2, Zenon DEF IInv, TypeOK
    <3> QED
      BY <1>2, <1>8, <3>1, Zenon DEF EffectInv, Told
  <2> QED
    BY <2>1, <2>2, Zenon
<1> QED
  BY <1>7, <1>8, Zenon DEF EffectInv

(* Every step keeps the outcomes and what is said of them in agreement.    *)
LEMMA StepEffects == IInv /\ EffectInv /\ [Next]_vars => EffectInv'
<1> SUFFICES ASSUME IInv, EffectInv, [Next]_vars
             PROVE  EffectInv'
  OBVIOUS
<1>1. ASSUME NEW w \in Writers, Begin(w) \/ Push(w) \/ MaybeFlush(w)
      PROVE  EffectInv'
  <2>1. /\ pc[w] \in {"idle", "push", "maybe_flush"} /\ pc'[w] \in {"push", "maybe_flush", "await", "drain"}
        /\ \A v \in Writers \ {w} : pc'[v] = pc[v]
        /\ pc'[w] = "push" => pc[w] = "idle"
        /\ write_queue' = write_queue \/ (pc[w] = "push" /\ write_queue' = Append(write_queue, w))
        /\ UNCHANGED <<batch, pos, batch_error, state, error, effect>>
    BY <1>1, Zenon DEF Begin, Push, MaybeFlush, Goto, local, request, IInv, TypeOK
  <2>2. \A l \in Writers : LeaderEffects(l)'
    BY <2>1, QuietEffects, Zenon
  <2>3. \A r \in Writers : r \in Range(write_queue') => r \in Range(write_queue) \/ (r = w /\ pc[w] = "push")
    <3>1. write_queue \in Seq(Writers)
      BY Zenon DEF IInv, TypeOK
    <3>2. Range(Append(write_queue, w)) = Range(write_queue) \cup {w}
      BY <3>1, RangeOfAppend
    <3> QED
      BY <2>1, <3>2, Zenon
  <2>4. \A r \in Writers : pc'[r] \in {"idle", "push"} \/ r \in Range(write_queue)' => effect'[r] = "none"
    BY <2>1, <2>3, Zenon DEF EffectInv
  <2>5. \A r \in Writers : state'[r] = "COMPLETED" => Told(r, error[r])'
    BY <2>1, Zenon DEF EffectInv, Told
  <2> QED
    BY <2>2, <2>4, <2>5, Zenon DEF EffectInv
<1>2. ASSUME NEW w \in Writers, AwaitLoad(w) \/ AwaitWait(w)
      PROVE  EffectInv'
  <2>1. CASE state[w] = "COMPLETED"
    BY <1>2, <2>1, ReturnEffects, Zenon DEF AwaitLoad, AwaitWait
  <2>2. CASE state[w] # "COMPLETED"
    <3>1. /\ pc[w] \in {"await", "block"} /\ pc'[w] \in {"block", "asleep"}
          /\ \A v \in Writers \ {w} : pc'[v] = pc[v]
          /\ UNCHANGED <<write_queue, batch, pos, batch_error, state, error, effect>>
      BY <1>2, <2>2, Zenon DEF AwaitLoad, AwaitWait, Goto, local, request, IInv, TypeOK
    <3>2. \A l \in Writers : LeaderEffects(l)'
      BY <3>1, QuietEffects, Zenon
    <3>3. \A r \in Writers : pc'[r] \in {"idle", "push"} \/ r \in Range(write_queue)' => effect'[r] = "none"
      BY <3>1, Zenon DEF EffectInv
    <3>4. \A r \in Writers : state'[r] = "COMPLETED" => Told(r, error[r])'
      BY <3>1, Zenon DEF EffectInv, Told
    <3> QED
      BY <3>2, <3>3, <3>4, Zenon DEF EffectInv
  <2> QED
    BY <2>1, <2>2, Zenon
<1>3. ASSUME NEW w \in Writers, VlogStage(w) \/ WalStage(w) \/ Unlock(w)
      PROVE  EffectInv'
  <2>1. /\ \/ pc[w] \in {"vlog", "wal"} /\ pc'[w] \in {"wal", "memtable"} /\ pos' = pos
           \/ pc[w] = "unlock" /\ pc'[w] = "set_state" /\ pos' = [pos EXCEPT ![w] = 1]
        /\ \A v \in Writers \ {w} : pc'[v] = pc[v]
        /\ UNCHANGED <<write_queue, batch, batch_error, state, error, effect>>
    BY <1>3, Zenon DEF VlogStage, WalStage, Unlock, Goto, local, request, IInv, TypeOK
  <2>2. \A v \in Writers \ {w} : pos'[v] = pos[v]
    BY <2>1, Zenon DEF IInv, TypeOK
  <2>3. FirstOwed(w) = 1 /\ FirstOwed(w)' = 1
    BY <2>1, Zenon DEF FirstOwed, IInv, TypeOK
  <2>4. /\ \A l \in Writers : LeaderEffects(l)'
        /\ \A r \in Writers : pc'[r] \in {"idle", "push"} \/ r \in Range(write_queue)' => effect'[r] = "none"
    BY <2>1, <2>2, <2>3, LeaderStepEffects, SMTT(20)
  <2>5. \A r \in Writers : state'[r] = "COMPLETED" => Told(r, error[r])'
    BY <2>1, Zenon DEF EffectInv, Told
  <2> QED
    BY <2>4, <2>5, Zenon DEF EffectInv
<1>4. ASSUME NEW w \in Writers, Notify(w)
      PROVE  EffectInv'
  <2>1. /\ pc[w] = "notify" /\ pc'[w] = "set_state" /\ pos' = [pos EXCEPT ![w] = pos[w] + 1]
        /\ \A v \in Writers \ {w} : pc'[v] = pc[v] \/ (pc[v] = "asleep" /\ pc'[v] = "block")
        /\ UNCHANGED <<write_queue, batch, batch_error, state, error, effect>>
    BY <1>4, Zenon DEF Notify, Woken, IInv, TypeOK
  <2>2. pos[w] \in Nat /\ pos'[w] = pos[w] + 1 /\ \A v \in Writers \ {w} : pos'[v] = pos[v]
    BY <2>1, Zenon DEF IInv, TypeOK
  <2>3. FirstOwed(w) = pos[w] + 1 /\ FirstOwed(w)' = pos[w] + 1
    BY <2>1, <2>2, Zenon DEF FirstOwed
  <2>4. /\ \A l \in Writers : LeaderEffects(l)'
        /\ \A r \in Writers : pc'[r] \in {"idle", "push"} \/ r \in Range(write_queue)' => effect'[r] = "none"
    <3>1. FirstOwed(w)' >= FirstOwed(w) /\ FirstOwed(w)' \in Nat
      BY <2>2, <2>3
    <3> QED
      BY <2>1, <2>2, <3>1, LeaderStepEffects, Zenon
  <2>5. \A r \in Writers : state'[r] = "COMPLETED" => Told(r, error[r])'
    BY <2>1, Zenon DEF EffectInv, Told
  <2> QED
    BY <2>4, <2>5, Zenon DEF EffectInv
<1>5. ASSUME NEW w \in Writers, NotifyLast(w)
      PROVE  EffectInv'
  <2>1. /\ pc[w] = "notify" /\ pc'[w] = "idle" /\ state' = [state EXCEPT ![w] = "INIT"]
        /\ error' = [error EXCEPT ![w] = FALSE] /\ effect' = [effect EXCEPT ![w] = "none"]
        /\ batch' = [batch EXCEPT ![w] = <<>>] /\ pos' = [pos EXCEPT ![w] = 1]
        /\ batch_error' = [batch_error EXCEPT ![w] = FALSE]
        /\ \A v \in Writers \ {w} : pc'[v] = pc[v] \/ (pc[v] = "asleep" /\ pc'[v] = "block")
        /\ UNCHANGED write_queue
    BY <1>5, Zenon DEF NotifyLast, Woken, IInv, TypeOK
  <2>2. /\ state'[w] = "INIT" /\ effect'[w] = "none" /\ batch'[w] = <<>> /\ ~batch_error'[w]
        /\ \A v \in Writers \ {w} : /\ state'[v] = state[v] /\ error'[v] = error[v] /\ effect'[v] = effect[v]
                                     /\ batch'[v] = batch[v] /\ pos'[v] = pos[v] /\ batch_error'[v] = batch_error[v]
    BY <2>1, Zenon DEF IInv, TypeOK
  <2>3. state[w] = "COMPLETED"
    BY <2>1, Zenon DEF IInv, LeaderState
  <2>4. LeaderEffects(w)'
    BY <2>1, <2>2, NoEffects, Zenon
  <2>5. ASSUME NEW l \in Writers, l # w
        PROVE  LeaderEffects(l)'
    <3>1. ASSUME NEW r \in Owed(l)
          PROVE  r \in Writers \ {w}
      <4>1. PICK i \in FirstOwed(l)..Len(batch[l]) : r = batch[l][i]
        BY Zenon DEF Owed
      <4>2. r \in Writers /\ state[r] = "INIT"
        BY <4>1, OwedFacts, Zenon
      <4> QED
        BY <2>3, <4>2, Zenon
    <3>2. \A r \in Owed(l) : effect'[r] = effect[r]
      BY <2>2, <3>1, Zenon
    <3>3. /\ pc'[l] = pc[l] \/ (pc[l] = "asleep" /\ pc'[l] = "block")
          /\ pos'[l] = pos[l] /\ batch'[l] = batch[l] /\ batch_error'[l] = batch_error[l]
      BY <2>1, <2>2, <2>5, Zenon
    <3>4. LeaderEffects(l)
      BY Zenon DEF EffectInv
    <3> QED
      BY <3>2, <3>3, <3>4, EffectsKept, Zenon
  <2>6. \A r \in Writers : pc'[r] \in {"idle", "push"} \/ r \in Range(write_queue)' => effect'[r] = "none"
    BY <2>1, <2>2 DEF EffectInv
  <2>7. \A r \in Writers : state'[r] = "COMPLETED" => Told(r, error[r])'
    BY <2>2, Zenon DEF EffectInv, Told
  <2> QED
    BY <2>4, <2>5, <2>6, <2>7, Zenon DEF EffectInv
<1>6. CASE UNCHANGED vars
  BY <1>6, SMTT(20) DEF vars, local, request, EffectInv, LeaderEffects, Told, FirstOwed
<1> QED
  BY <1>1, <1>2, <1>3, <1>4, <1>5, <1>6, DrainEffects, FailEffects, PutEffects, SetStateEffects, Zenon
     DEF Next, Proceed

(* The outcomes agree in every run.                                        *)
LEMMA EffectsAgree == Spec => [](IInv /\ EffectInv)
<1>1. Init => EffectInv
  <2>1. SUFFICES ASSUME Init
                 PROVE  EffectInv
    OBVIOUS
  <2>2. \A l \in Writers : FirstOwed(l) = 1 /\ Len(batch[l]) = 0 /\ ~batch_error[l]
    BY <2>1 DEF Init, FirstOwed
  <2>3. \A l \in Writers : LeaderEffects(l)
    BY <2>2 DEF LeaderEffects
  <2> QED
    BY <2>1, <2>3, Zenon DEF Init, EffectInv
<1> QED
  BY <1>1, Inductive, StepEffects, PTL DEF Spec

(* However many threads write, a request that is completed reports what    *)
(* happened to it: no error exactly when it reached the memtable.          *)
THEOREM CompletionsAreTrue == Spec => []CompletionTellsTheTruth
<1>1. IInv /\ EffectInv => CompletionTellsTheTruth
  BY Zenon DEF IInv, TypeOK, EffectInv, Told, CompletionTellsTheTruth
<1> QED
  BY <1>1, EffectsAgree, PTL

-----------------------------------------------------------------------------
(* The sequences the serial line is made of.                               *)
LEMMA AppendBehind ==
    ASSUME NEW S, NEW s \in Seq(S), NEW q \in Seq(S), NEW e \in S
    PROVE  s \o Append(q, e) = Append(s \o q, e)
<1>1. <<e>> \in Seq(S)
  OBVIOUS
<1>2. Append(q, e) = q \o <<e>> /\ s \o q \in Seq(S)
  BY AppendIsConcat, ConcatProperties, Zenon
<1>3. Append(s \o q, e) = (s \o q) \o <<e>>
  BY <1>2, AppendIsConcat, Zenon
<1> QED
  BY <1>1, <1>2, <1>3, ConcatAssociative

LEMMA RestOf ==
    ASSUME NEW S, NEW s \in Seq(S), NEW p \in 1..(Len(s) + 1)
    PROVE  /\ SubSeq(s, p, Len(s)) \in Seq(S)
           /\ Len(SubSeq(s, p, Len(s))) = Len(s) + 1 - p
           /\ \A i \in 1..(Len(s) + 1 - p) : SubSeq(s, p, Len(s))[i] = s[p + i - 1]
<1>1. Len(s) \in Nat /\ p \in Int /\ Len(s) \in Int
  OBVIOUS
<1>2. \A i \in p..Len(s) : s[i] \in S
  BY <1>1
<1>3. /\ SubSeq(s, p, Len(s)) \in Seq(S)
      /\ Len(SubSeq(s, p, Len(s))) = IF p <= Len(s) THEN Len(s) - p + 1 ELSE 0
      /\ \A i \in 1..(Len(s) - p + 1) : SubSeq(s, p, Len(s))[i] = s[p + i - 1]
  BY <1>1, <1>2, SubSeqProperties
<1> QED
  BY <1>1, <1>3

(* The next request of a batch is the front of the line, the others follow.*)
LEMMA FrontOf ==
    ASSUME NEW S, NEW s \in Seq(S), NEW q \in Seq(S), NEW p \in 1..Len(s)
    PROVE  LET line == SubSeq(s, p, Len(s)) \o q
           IN  /\ line \in Seq(S) /\ line # <<>> /\ Head(line) = s[p]
               /\ Tail(line) = SubSeq(s, p + 1, Len(s)) \o q
<1> DEFINE a == SubSeq(s, p, Len(s))
           b == SubSeq(s, p + 1, Len(s))
           line == a \o q
<1>1. Len(s) \in Nat /\ p \in 1..(Len(s) + 1) /\ p + 1 \in 1..(Len(s) + 1) /\ p \in Nat /\ Len(q) \in Nat
  OBVIOUS
<1>2. /\ a \in Seq(S) /\ Len(a) = Len(s) + 1 - p
      /\ \A i \in 1..(Len(s) + 1 - p) : a[i] = s[p + i - 1]
  BY <1>1, RestOf, Zenon
<1>3. /\ b \in Seq(S) /\ Len(b) = Len(s) + 1 - (p + 1)
      /\ \A i \in 1..(Len(s) + 1 - (p + 1)) : b[i] = s[p + 1 + i - 1]
  BY <1>1, RestOf, Zenon
<1> HIDE DEF a, b
<1>4. /\ line \in Seq(S) /\ Len(line) = Len(a) + Len(q)
      /\ \A i \in 1..(Len(a) + Len(q)) : line[i] = IF i <= Len(a) THEN a[i] ELSE q[i - Len(a)]
  BY <1>2, ConcatProperties, Zenon
<1>5. /\ b \o q \in Seq(S) /\ Len(b \o q) = Len(b) + Len(q)
      /\ \A i \in 1..(Len(b) + Len(q)) : (b \o q)[i] = IF i <= Len(b) THEN b[i] ELSE q[i - Len(b)]
  BY <1>3, ConcatProperties, Zenon
<1> HIDE DEF line
<1>6. line # <<>> /\ line[1] = s[p]
  <2>1. 1 \in 1..(Len(s) + 1 - p) /\ p + 1 - 1 = p /\ Len(a) \in Nat /\ 1 <= Len(a)
    BY <1>1, <1>2
  <2>2. a[1] = s[p]
    BY <1>2, <2>1, Zenon
  <2>3. 1 \in 1..(Len(a) + Len(q)) /\ Len(line) # 0
    BY <1>1, <1>4, <2>1
  <2> QED
    BY <1>4, <2>1, <2>2, <2>3
<1>7. Head(line) = s[p]
  BY <1>4, <1>6
<1>8. /\ Tail(line) \in Seq(S) /\ Len(Tail(line)) = Len(line) - 1
      /\ \A i \in 1..Len(Tail(line)) : Tail(line)[i] = line[i + 1]
  BY <1>4, <1>6, HeadTailProperties, Zenon
<1>9. Len(Tail(line)) = Len(b \o q)
  BY <1>1, <1>2, <1>3, <1>4, <1>5, <1>8
<1>10. ASSUME NEW i \in 1..Len(Tail(line))
       PROVE  Tail(line)[i] = (b \o q)[i]
  <2>1. i \in 1..(Len(b) + Len(q)) /\ i + 1 \in 1..(Len(a) + Len(q)) /\ i \in Nat /\ Len(a) = Len(b) + 1 /\ Len(b) \in Nat
    BY <1>1, <1>2, <1>3, <1>4, <1>5, <1>8, <1>9
  <2>2. Tail(line)[i] = IF i + 1 <= Len(a) THEN a[i + 1] ELSE q[i + 1 - Len(a)]
    BY <1>4, <1>8, <2>1
  <2>3. (b \o q)[i] = IF i <= Len(b) THEN b[i] ELSE q[i - Len(b)]
    BY <1>5, <2>1, Zenon
  <2>4. CASE i <= Len(b)
    <3>1. i + 1 <= Len(a) /\ i + 1 \in 1..(Len(s) + 1 - p) /\ i \in 1..(Len(s) + 1 - (p + 1))
      BY <1>1, <1>2, <1>3, <2>1, <2>4
    <3>2. a[i + 1] = s[p + (i + 1) - 1] /\ b[i] = s[p + 1 + i - 1]
      BY <1>2, <1>3, <3>1, Zenon
    <3>3. p + (i + 1) - 1 = p + 1 + i - 1
      BY <1>1, <2>1
    <3> QED
      BY <2>2, <2>3, <2>4, <3>1, <3>2, <3>3, Zenon
  <2>5. CASE ~(i <= Len(b))
    <3>1. ~(i + 1 <= Len(a)) /\ i + 1 - Len(a) = i - Len(b)
      BY <2>1, <2>5
    <3> QED
      BY <2>2, <2>3, <2>5, <3>1, Zenon
  <2> QED
    BY <2>4, <2>5, Zenon
<1>11. Tail(line) = b \o q
  BY <1>5, <1>8, <1>9, <1>10, SeqEqual, Zenon
<1> QED
  BY <1>4, <1>6, <1>7, <1>11, Zenon DEF line, a, b

(* The list is what follows a whole batch.                                 *)
LEMMA BehindOf ==
    ASSUME NEW S, NEW s \in Seq(S), NEW q \in Seq(S)
    PROVE  /\ Len(s \o q) = Len(s) + Len(q) /\ \A i \in 1..Len(s) : (s \o q)[i] = s[i]
           /\ SubSeq(s \o q, Len(s) + 1, Len(s \o q)) = q
           /\ SubSeq(s, 1, Len(s)) = s /\ s \o <<>> = s
<1>1. Len(s) \in Nat /\ Len(q) \in Nat
  OBVIOUS
<1>2. /\ s \o q \in Seq(S) /\ Len(s \o q) = Len(s) + Len(q)
      /\ \A i \in 1..(Len(s) + Len(q)) : (s \o q)[i] = IF i <= Len(s) THEN s[i] ELSE q[i - Len(s)]
  BY ConcatProperties, Zenon
<1>3. \A i \in 1..Len(s) : (s \o q)[i] = s[i]
  BY <1>1, <1>2
<1> DEFINE t == s \o q
           u == SubSeq(t, Len(s) + 1, Len(t))
<1>4. /\ u \in Seq(S) /\ Len(u) = Len(t) + 1 - (Len(s) + 1)
      /\ \A i \in 1..(Len(t) + 1 - (Len(s) + 1)) : u[i] = t[Len(s) + 1 + i - 1]
  <2>1. Len(s) + 1 \in 1..(Len(t) + 1)
    BY <1>1, <1>2
  <2> QED
    BY <1>2, <2>1, RestOf
<1> HIDE DEF u, t
<1>5. Len(u) = Len(q)
  BY <1>1, <1>2, <1>4 DEF t
<1>6. ASSUME NEW i \in 1..Len(u)
      PROVE  u[i] = q[i]
  <2>1. u[i] = t[Len(s) + 1 + i - 1]
    BY <1>4, Zenon
  <2>2. Len(s) + 1 + i - 1 = Len(s) + i /\ Len(s) + i \in 1..(Len(s) + Len(q)) /\ ~(Len(s) + i <= Len(s)) /\ Len(s) + i - Len(s) = i
    BY <1>1, <1>5
  <2>3. t[Len(s) + i] = q[Len(s) + i - Len(s)]
    BY <1>2, <2>2 DEF t
  <2> QED
    BY <2>1, <2>2, <2>3, Zenon
<1>7. u = q
  BY <1>4, <1>5, <1>6, SeqEqual, Zenon
<1> QED
  BY <1>2, <1>3, <1>7, SubSeqFull, ConcatEmptySeq, Zenon DEF u, t

-----------------------------------------------------------------------------
InLine == {"vlog", "wal", "memtable"}
NoRequest == {"idle", "push"}

(* Steps that leave the line alone: the committing leader goes on at the   *)
(* same request.                                                           *)
LEMMA LineKept ==
    ASSUME IInv, UNCHANGED <<commit_mutex, write_queue>>,
           \A v \in Writers : pc[v] \in Committing => /\ batch'[v] = batch[v] /\ pos'[v] = pos[v]
                                                      /\ pc'[v] \in InLine <=> pc[v] \in InLine
    PROVE  Line' = Line
<1>1. commit_mutex # NoOne => commit_mutex \in Writers /\ pc[commit_mutex] \in Committing
  BY Zenon DEF IInv, TypeOK, LeaderState
<1> QED
  BY <1>1, Zenon DEF Line, InLine

(* Steps that leave the callers and the outcomes alone.                    *)
LEMMA OutcomeKept ==
    ASSUME UNCHANGED effect, \A v \in Writers : pc'[v] \in NoRequest <=> pc[v] \in NoRequest
    PROVE  Outcome' = Outcome
  BY Zenon DEF Outcome, NoRequest

(* The line while a leader commits.                                        *)
LEMMA LineOf ==
    ASSUME IInv, NEW w \in Writers, pc[w] \in InLine
    PROVE  /\ commit_mutex = w /\ batch[w] \in Seq(Writers) /\ write_queue \in Seq(Writers)
           /\ Line = SubSeq(batch[w], pos[w], Len(batch[w])) \o write_queue
<1>1. commit_mutex = w /\ commit_mutex # NoOne
  BY WritersAssumption, Zenon DEF IInv, LeaderState, InLine
<1> QED
  BY <1>1, Zenon DEF Line, IInv, TypeOK, InLine

(* Push is Submit.                                                         *)
LEMMA PushIsSubmit ==
    ASSUME IInv, EffectInv, NEW w \in Writers, Push(w)
    PROVE  Serial!Submit(w)
<1>1. /\ pc[w] = "push" /\ write_queue' = Append(write_queue, w) /\ pc'[w] \notin NoRequest
      /\ \A v \in Writers \ {w} : pc'[v] = pc[v]
      /\ pc'[w] \notin Committing /\ UNCHANGED <<commit_mutex, batch, pos, effect>>
  BY Zenon DEF Push, Goto, local, request, IInv, TypeOK, NoRequest
<1>2. Outcome[w] = "idle"
  BY <1>1, Zenon DEF Outcome
<1>3. effect[w] = "none"
  BY <1>1, Zenon DEF EffectInv
<1>4. Outcome' = [Outcome EXCEPT ![w] = "waiting"]
  <2>1. Outcome'[w] = "waiting"
    BY <1>1, <1>3, Zenon DEF Outcome, NoRequest
  <2>2. \A v \in Writers \ {w} : Outcome'[v] = Outcome[v]
    BY <1>1, Zenon DEF Outcome
  <2>3. Outcome = [v \in Writers |-> Outcome[v]] /\ Outcome' = [v \in Writers |-> Outcome'[v]]
    BY Zenon DEF Outcome
  <2> QED
    BY <2>1, <2>2, <2>3, Zenon
<1>5. Line' = Append(Line, w)
  <2>1. CASE commit_mutex # NoOne /\ pc[commit_mutex] \in InLine
    <3>1. commit_mutex \in Writers \ {w}
      BY <1>1, <2>1, Zenon DEF IInv, TypeOK, InLine
    <3>2. PICK h \in Writers \ {w} : h = commit_mutex
      BY <3>1, Zenon
    <3>3. /\ batch[h] \in Seq(Writers) /\ write_queue \in Seq(Writers)
          /\ Line = SubSeq(batch[h], pos[h], Len(batch[h])) \o write_queue
      BY <2>1, <3>2, LineOf, Zenon
    <3>4. Line' = SubSeq(batch[h], pos[h], Len(batch[h])) \o Append(write_queue, w)
      BY <1>1, <2>1, <3>2, Zenon DEF Line, InLine
    <3>5. SubSeq(batch[h], pos[h], Len(batch[h])) \in Seq(Writers)
      <4>1. pos[h] \in 1..(Len(batch[h]) + 1)
        <5>1. pc[h] = "memtable" => pos[h] \in DOMAIN batch[h]
          BY <3>2, Zenon DEF IInv, TypeOK
        <5>2. pc[h] # "memtable" => pos[h] = 1
          BY <2>1, <3>2, Zenon DEF IInv, LeaderState, InLine
        <5> QED
          BY <3>3, <5>1, <5>2
      <4> QED
        BY <3>3, <4>1, RestOf, Zenon
    <3>6. PICK a \in Seq(Writers), q \in Seq(Writers) :
             a = SubSeq(batch[h], pos[h], Len(batch[h])) /\ q = write_queue
      BY <3>3, <3>5, Zenon
    <3>7. a \o Append(q, w) = Append(a \o q, w)
      BY AppendBehind
    <3> QED
      BY <3>3, <3>4, <3>6, <3>7, Zenon
  <2>2. CASE ~(commit_mutex # NoOne /\ pc[commit_mutex] \in InLine)
    <3>1. commit_mutex # NoOne => commit_mutex \in Writers \ {w}
      BY <1>1, Zenon DEF IInv, TypeOK, LeaderState
    <3>2. ~(commit_mutex # NoOne /\ pc'[commit_mutex] \in InLine)
      BY <1>1, <2>2, <3>1, Zenon
    <3>3. Line = write_queue
      BY <2>2, Zenon DEF Line, InLine
    <3>4. Line' = write_queue'
      BY <1>1, <3>2, Zenon DEF Line, InLine
    <3> QED
      BY <1>1, <3>3, <3>4, Zenon
  <2> QED
    BY <2>1, <2>2, Zenon
<1> QED
  BY <1>2, <1>4, <1>5, Zenon DEF Serial!Submit

(* A caller that returns has its outcome: Return.                          *)
LEMMA ReturnIsReturn ==
    ASSUME IInv, EffectInv, NEW w \in Writers, pc[w] \notin NoRequest \cup Committing, state[w] = "COMPLETED",
           UNCHANGED <<commit_mutex, write_queue>>, pc'[w] = "idle", effect' = [effect EXCEPT ![w] = "none"],
           \A v \in Writers \ {w} : /\ batch'[v] = batch[v] /\ pos'[v] = pos[v]
                                    /\ pc'[v] = pc[v] \/ (pc[v] = "asleep" /\ pc'[v] = "block")
    PROVE  Serial!Return(w)
<1>1. Line' = Line
  BY LineKept, Zenon DEF InLine
<1>2. Told(w, error[w])
  BY Zenon DEF EffectInv
<1>3. Outcome[w] \in {"put", "ignored", "failed"}
  BY <1>2, Zenon DEF Told, Outcome, NoRequest
<1>4. \A v \in Writers \ {w} : effect'[v] = effect[v]
  BY Zenon DEF IInv, TypeOK
<1>5. Outcome'[w] = "idle" /\ \A v \in Writers \ {w} : Outcome'[v] = Outcome[v]
  BY <1>4, Zenon DEF Outcome
<1>6. Outcome = [v \in Writers |-> Outcome[v]] /\ Outcome' = [v \in Writers |-> Outcome'[v]]
  BY DEF Outcome
<1>7. Outcome' = [Outcome EXCEPT ![w] = "idle"]
  BY <1>5, <1>6, Zenon
<1> QED
  BY <1>1, <1>3, <1>7, Zenon DEF Serial!Return

(* A batch that fails is a front section of the line.                      *)
LEMMA FailIsFail ==
    ASSUME IInv, EffectInv, NEW w \in Writers, StageFails(w)
    PROVE  \E n \in 1..Len(Line) : Serial!FailFront(n)
<1>1. /\ pc[w] \in {"vlog", "wal"} /\ pc' = [pc EXCEPT ![w] = "unlock"]
      /\ effect' = [r \in Writers |-> IF r \in Range(batch[w]) THEN "failed" ELSE effect[r]]
      /\ UNCHANGED <<write_queue, commit_mutex, batch, pos>>
  BY Zenon DEF StageFails, Goto
<1>2. PICK s : s = batch[w]
  OBVIOUS
<1>3. PICK n : n = Len(s)
  BY Zenon
<1>4. /\ commit_mutex = w /\ s \in Seq(Writers) /\ write_queue \in Seq(Writers) /\ pos[w] = 1 /\ s # <<>>
      /\ Line = SubSeq(s, 1, Len(s)) \o write_queue
  <2>1. pos[w] = 1 /\ s # <<>>
    BY <1>1, <1>2, Zenon DEF IInv, LeaderState, LeaderHeadsItsBatch
  <2> QED
    BY <1>1, <1>2, <2>1, LineOf, Zenon DEF InLine
<1>5. /\ Line = s \o write_queue /\ Len(Line) = Len(s) + Len(write_queue)
      /\ \A i \in 1..Len(s) : Line[i] = s[i]
      /\ SubSeq(Line, Len(s) + 1, Len(Line)) = write_queue
  <2>1. SubSeq(s, 1, Len(s)) = s
    BY <1>4, BehindOf, Zenon
  <2>2. Line = s \o write_queue
    BY <1>4, <2>1, Zenon
  <2>3. PICK q \in Seq(Writers) : q = write_queue
    BY <1>4, Zenon
  <2>4. /\ Len(s \o q) = Len(s) + Len(q) /\ \A i \in 1..Len(s) : (s \o q)[i] = s[i]
        /\ SubSeq(s \o q, Len(s) + 1, Len(s \o q)) = q
    BY <1>4, BehindOf
  <2> QED
    BY <2>2, <2>3, <2>4, Zenon
<1>6. n \in 1..Len(Line) /\ n \in Nat
  <2>1. Len(s) \in Nat /\ Len(s) # 0 /\ Len(write_queue) \in Nat
    BY <1>4, EmptySeq
  <2> QED
    BY <1>3, <1>5, <2>1
<1>7. Line' = SubSeq(Line, n + 1, Len(Line))
  <2>1. pc'[w] = "unlock" /\ commit_mutex' = w
    BY <1>1, <1>4, Zenon DEF IInv, TypeOK
  <2>2. Line' = write_queue
    BY <1>1, <2>1, Zenon DEF Line
  <2> QED
    BY <1>3, <1>5, <2>2, Zenon
<1>8. \A v \in Writers : v \in Range(s) <=> \E i \in 1..n : Line[i] = v
  <2>1. DOMAIN s = 1..n
    BY <1>3, <1>4
  <2> QED
    BY <1>3, <1>5, <2>1, Zenon DEF Range
<1>9. \A v \in Writers : Outcome'[v] = IF \E i \in 1..n : Line[i] = v THEN "failed" ELSE Outcome[v]
  <2>1. ASSUME NEW v \in Writers, v \in Range(s)
        PROVE  pc[v] \notin NoRequest /\ pc'[v] \notin NoRequest /\ effect'[v] = "failed"
    <3>1. FirstOwed(w) = 1 /\ DOMAIN batch[w] = 1..Len(batch[w])
      BY <1>1, <1>2, <1>4 DEF FirstOwed
    <3>2. PICK i \in 1..Len(batch[w]) : v = batch[w][i]
      BY <1>2, <2>1, <3>1, Zenon DEF Range
    <3>3. pc[v] \notin NoRequest
      BY <3>1, <3>2, OwedFacts, Zenon DEF NoRequest
    <3> QED
      BY <1>1, <1>2, <2>1, <3>3, Zenon DEF IInv, TypeOK, NoRequest
  <2>2. ASSUME NEW v \in Writers, v \notin Range(s)
        PROVE  effect'[v] = effect[v] /\ (pc'[v] \in NoRequest <=> pc[v] \in NoRequest)
    BY <1>1, <1>2, <2>2, Zenon DEF IInv, TypeOK, NoRequest
  <2> QED
    BY <1>8, <2>1, <2>2, Zenon DEF Outcome, NoRequest
<1>10. Outcome' = [v \in Writers |-> IF \E i \in 1..n : Line[i] = v THEN "failed" ELSE Outcome[v]]
  <2>1. Outcome' = [v \in Writers |-> Outcome'[v]]
    BY Zenon DEF Outcome
  <2> QED
    BY <1>9, <2>1, Zenon
<1>11. Serial!FailFront(n)
  BY <1>7, <1>10, Zenon DEF Serial!FailFront
<1> QED
  BY <1>6, <1>11, Zenon

(* One insertion deals with the front of the line.                         *)
LEMMA PutIsApply ==
    ASSUME IInv, EffectInv, NEW w \in Writers, MemtablePut(w)
    PROVE  Serial!Apply
<1>1. PICK s, p, x : s = batch[w] /\ p = pos[w] /\ x = batch[w][pos[w]]
  OBVIOUS
<1>2. /\ pc[w] = "memtable" /\ effect' = [effect EXCEPT ![x] = IF x \in ignored[w] THEN "ignored" ELSE "put"]
      /\ pos' = [pos EXCEPT ![w] = p + 1]
      /\ pc' = [pc EXCEPT ![w] = IF p = Len(s) THEN "unlock" ELSE "memtable"]
      /\ UNCHANGED <<write_queue, commit_mutex, batch>>
  BY <1>1, Zenon DEF MemtablePut, Goto
<1>3. /\ commit_mutex = w /\ s \in Seq(Writers) /\ write_queue \in Seq(Writers)
      /\ Line = SubSeq(s, p, Len(s)) \o write_queue
  BY <1>1, <1>2, LineOf, Zenon DEF InLine
<1>4. p \in 1..Len(s) /\ FirstOwed(w) = 1
  BY <1>1, <1>2, <1>3 DEF IInv, TypeOK, FirstOwed
<1>5. x \in Writers /\ pc[x] \notin NoRequest
  BY <1>1, <1>4, OwedFacts, Zenon DEF NoRequest
<1>6. Line # <<>> /\ Head(Line) = x /\ Tail(Line) = SubSeq(s, p + 1, Len(s)) \o write_queue
  BY <1>1, <1>3, <1>4, FrontOf, ZenonT(30)
<1>7. /\ pos'[w] = p + 1 /\ pc'[w] = IF p = Len(s) THEN "unlock" ELSE "memtable"
      /\ \A v \in Writers : pc'[v] \in NoRequest <=> pc[v] \in NoRequest
  BY <1>2, Zenon DEF IInv, TypeOK, NoRequest
<1>8. Line' = Tail(Line)
  <2>1. CASE p = Len(s)
    <3>1. Line' = write_queue
      BY <1>2, <1>3, <1>7, <2>1, SMTT(20) DEF Line
    <3>2. SubSeq(s, p + 1, Len(s)) = <<>>
      <4>1. p + 1 \in Int /\ Len(s) \in Int /\ Len(s) < p + 1
        BY <1>3, <1>4, <2>1
      <4> QED
        BY <4>1, SubSeqEmpty, Zenon
    <3>3. <<>> \o write_queue = write_queue
      BY <1>3, ConcatEmptySeq, Zenon
    <3> QED
      BY <1>6, <3>1, <3>2, <3>3, Zenon
  <2>2. CASE p # Len(s)
    <3>1. commit_mutex' = w /\ w # NoOne /\ pc'[w] = "memtable" /\ batch'[w] = s
      BY <1>1, <1>2, <1>3, <1>7, <2>2, WritersAssumption, Zenon
    <3> QED
      BY <1>2, <1>6, <1>7, <3>1, Zenon DEF Line
  <2> QED
    BY <2>1, <2>2, Zenon
<1>9. PICK o : o = effect'[x]
  OBVIOUS
<1>10. o \in {"put"} \cup (IF x \in GcWriters THEN {"ignored"} ELSE {}) /\ \A v \in Writers \ {x} : effect'[v] = effect[v]
  BY <1>2, <1>5, <1>9, Zenon DEF IInv, TypeOK
<1>11. Outcome' = [Outcome EXCEPT ![x] = o]
  <2>1. o # "none"
    BY <1>10, Zenon
  <2>2. Outcome'[x] = o /\ \A v \in Writers \ {x} : Outcome'[v] = Outcome[v]
    BY <1>5, <1>7, <1>9, <1>10, <2>1, Zenon DEF Outcome, NoRequest
  <2>3. Outcome = [v \in Writers |-> Outcome[v]] /\ Outcome' = [v \in Writers |-> Outcome'[v]]
    BY Zenon DEF Outcome
  <2> QED
    BY <1>5, <2>2, <2>3, Zenon
<1> QED
  BY <1>6, <1>8, <1>10, <1>11, Zenon DEF Serial!Apply

(* Every step of the group commit is a step of the serial line or none.    *)
LEMMA StepIsSerial == IInv /\ EffectInv /\ [Next]_vars => [Serial!SerialNext]_<<Line, Outcome>>
<1> SUFFICES ASSUME IInv, EffectInv, [Next]_vars
             PROVE  [Serial!SerialNext]_<<Line, Outcome>>
  OBVIOUS
<1>1. ASSUME NEW w \in Writers, Begin(w) \/ MaybeFlush(w) \/ VlogStage(w) \/ WalStage(w) \/ SetState(w)
      PROVE  UNCHANGED <<Line, Outcome>>
  <2>1. /\ UNCHANGED <<commit_mutex, write_queue, batch, pos, effect>>
        /\ \A v \in Writers \ {w} : pc'[v] = pc[v]
        /\ pc'[w] \in InLine <=> pc[w] \in InLine
        /\ pc'[w] \in NoRequest <=> pc[w] \in NoRequest
    BY <1>1, Zenon DEF Begin, MaybeFlush, VlogStage, WalStage, SetState, Goto, local, request, IInv, TypeOK, InLine, NoRequest
  <2>2. Line' = Line
    BY <2>1, LineKept, Zenon
  <2>3. Outcome' = Outcome
    BY <2>1, OutcomeKept, Zenon
  <2> QED
    BY <2>2, <2>3, Zenon
<1>2. ASSUME NEW w \in Writers, AwaitLoad(w) \/ AwaitWait(w)
      PROVE  Serial!Return(w) \/ UNCHANGED <<Line, Outcome>>
  <2>1. CASE state[w] = "COMPLETED"
    <3>1. /\ pc[w] \in Sleeping /\ pc'[w] = "idle" /\ effect' = [effect EXCEPT ![w] = "none"]
          /\ UNCHANGED <<commit_mutex, write_queue, batch, pos>>
          /\ \A v \in Writers \ {w} : pc'[v] = pc[v]
      BY <1>2, <2>1, Zenon DEF AwaitLoad, AwaitWait, Goto, Destroy, local, request, IInv, TypeOK
    <3>2. pc[w] \notin NoRequest \cup Committing
      BY <3>1, Zenon DEF NoRequest
    <3> QED
      BY <2>1, <3>1, <3>2, ReturnIsReturn, Zenon
  <2>2. CASE state[w] # "COMPLETED"
    <3>1. /\ UNCHANGED <<commit_mutex, write_queue, batch, pos, effect>>
          /\ \A v \in Writers \ {w} : pc'[v] = pc[v]
          /\ pc[w] \in Sleeping /\ pc'[w] \in Sleeping
      BY <1>2, <2>2, Zenon DEF AwaitLoad, AwaitWait, Goto, local, request, IInv, TypeOK
    <3>2. Line' = Line
      BY <3>1, LineKept, Zenon DEF InLine
    <3>3. Outcome' = Outcome
      BY <3>1, OutcomeKept, Zenon DEF NoRequest
    <3> QED
      BY <3>2, <3>3, Zenon
  <2> QED
    BY <2>1, <2>2, Zenon
<1>3. ASSUME NEW w \in Writers, Drain(w)
      PROVE  UNCHANGED <<Line, Outcome>>
  <2>1. /\ commit_mutex = NoOne /\ commit_mutex' = w /\ pc'[w] = "vlog" /\ batch'[w] = write_queue
        /\ pc[w] = "drain" /\ write_queue' = <<>> /\ pos' = pos /\ effect' = effect /\ pos[w] = 1
        /\ \A v \in Writers \ {w} : pc'[v] = pc[v]
    BY <1>3, Zenon DEF Drain, Goto, request, IInv, TypeOK, LeaderState
  <2>2. Line = write_queue
    BY <2>1, Zenon DEF Line
  <2>3. Line' = SubSeq(write_queue, 1, Len(write_queue)) \o <<>>
    BY <2>1, WritersAssumption, Zenon DEF Line
  <2>4. write_queue \in Seq(Writers)
    BY Zenon DEF IInv, TypeOK
  <2>5. PICK q \in Seq(Writers) : q = write_queue
    BY <2>4, Zenon
  <2>6. SubSeq(q, 1, Len(q)) = q /\ q \o <<>> = q
    BY BehindOf, Zenon
  <2>7. Outcome' = Outcome
    BY <2>1, OutcomeKept, Zenon DEF NoRequest
  <2> QED
    BY <2>2, <2>3, <2>5, <2>6, <2>7, Zenon
<1>4. ASSUME NEW w \in Writers, Unlock(w)
      PROVE  UNCHANGED <<Line, Outcome>>
  <2>1. /\ pc[w] = "unlock" /\ pc'[w] = "set_state" /\ commit_mutex' = NoOne
        /\ write_queue' = write_queue /\ effect' = effect
        /\ \A v \in Writers \ {w} : pc'[v] = pc[v]
    BY <1>4, Zenon DEF Unlock, Goto, request, IInv, TypeOK
  <2>2. commit_mutex = w
    BY <2>1, Zenon DEF IInv, LeaderState
  <2>3. Line = write_queue /\ Line' = write_queue
    BY <2>1, <2>2, Zenon DEF Line
  <2>4. Outcome' = Outcome
    BY <2>1, OutcomeKept, Zenon DEF NoRequest
  <2> QED
    BY <2>3, <2>4, Zenon
<1>5. ASSUME NEW w \in Writers, Notify(w)
      PROVE  UNCHANGED <<Line, Outcome>>
  <2>1. /\ pc[w] = "notify" /\ pc'[w] = "set_state" /\ pos' = [pos EXCEPT ![w] = pos[w] + 1]
        /\ \A v \in Writers \ {w} : pc'[v] = pc[v] \/ (pc[v] = "asleep" /\ pc'[v] = "block")
        /\ UNCHANGED <<write_queue, commit_mutex, batch, effect>>
    BY <1>5, Zenon DEF Notify, Woken, IInv, TypeOK
  <2>2. \A v \in Writers \ {w} : pos'[v] = pos[v]
    BY <2>1, Zenon DEF IInv, TypeOK
  <2>3. Line' = Line
    BY <2>1, <2>2, LineKept, Zenon DEF InLine
  <2>4. Outcome' = Outcome
    BY <2>1, OutcomeKept, Zenon DEF NoRequest
  <2> QED
    BY <2>3, <2>4, Zenon
<1>6. ASSUME NEW w \in Writers, NotifyLast(w)
      PROVE  Serial!Return(w)
  <2>1. /\ pc[w] = "notify" /\ pc'[w] = "idle" /\ effect' = [effect EXCEPT ![w] = "none"]
        /\ batch' = [batch EXCEPT ![w] = <<>>] /\ pos' = [pos EXCEPT ![w] = 1]
        /\ \A v \in Writers \ {w} : pc'[v] = pc[v] \/ (pc[v] = "asleep" /\ pc'[v] = "block")
        /\ UNCHANGED <<write_queue, commit_mutex>>
    BY <1>6, Zenon DEF NotifyLast, Woken, IInv, TypeOK
  <2>2. \A v \in Writers \ {w} : batch'[v] = batch[v] /\ pos'[v] = pos[v]
    BY <2>1, Zenon DEF IInv, TypeOK
  <2>3. state[w] = "COMPLETED" /\ pc[w] \notin NoRequest \cup Committing
    BY <2>1, Zenon DEF IInv, LeaderState, NoRequest
  <2> QED
    BY <2>1, <2>2, <2>3, ReturnIsReturn, Zenon
<1>7. CASE UNCHANGED vars
  BY <1>7, Zenon DEF vars, local, request, Line, Outcome
<1> QED
  BY <1>1, <1>2, <1>3, <1>4, <1>5, <1>6, <1>7, PushIsSubmit, FailIsFail, PutIsApply, Zenon
     DEF Next, Proceed, Serial!SerialNext

(* However many threads write, requests take effect in the order they were *)
(* pushed, across batches and leaders, and no caller returns before its    *)
(* own request took effect or failed: execute_write_request implements one *)
(* serial line.                                                            *)
THEOREM GroupCommitIsSerial == Spec => CommitsSerially
<1>1. Init => Serial!SerialInit
  <2>1. SUFFICES ASSUME Init
                 PROVE  Line = <<>> /\ Outcome = [w \in Writers |-> "idle"]
    BY Zenon DEF Serial!SerialInit
  <2> QED
    BY <2>1, Zenon DEF Init, Line, Outcome
<1> QED
  BY <1>1, EffectsAgree, StepIsSerial, PTL DEF Spec, CommitsSerially, Serial!SerialSpec, Serial!svars
=============================================================================
