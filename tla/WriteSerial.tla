---------------------------- MODULE WriteSerial ----------------------------
(***************************************************************************)
(* What the group commit promises its callers, without leaders, batches or *)
(* locks: requests stand in one line and are dealt with from its front, in *)
(* the order they joined it; a caller returns only when its own request    *)
(* has been dealt with.  An I/O failure takes out a front section of the   *)
(* line at once.                                                           *)
(***************************************************************************)
EXTENDS Integers, Sequences

CONSTANTS Writers, GcWriters

VARIABLES
    line,     \* requests submitted and not yet dealt with, oldest first
    outcome   \* of each writer's request: idle, waiting, put, ignored or failed

svars == <<line, outcome>>

SerialInit ==
    /\ line = <<>>
    /\ outcome = [w \in Writers |-> "idle"]

Submit(w) ==
    /\ outcome[w] = "idle"
    /\ line' = Append(line, w)
    /\ outcome' = [outcome EXCEPT ![w] = "waiting"]

(* Only a relocation of the garbage collector may be dropped silently.     *)
Apply ==
    /\ line # <<>>
    /\ line' = Tail(line)
    /\ \E o \in {"put"} \cup (IF Head(line) \in GcWriters THEN {"ignored"} ELSE {}) :
          outcome' = [outcome EXCEPT ![Head(line)] = o]

FailFront(n) ==
    /\ line' = SubSeq(line, n + 1, Len(line))
    /\ outcome' = [w \in Writers |->
                      IF \E i \in 1..n : line[i] = w THEN "failed" ELSE outcome[w]]

Return(w) ==
    /\ outcome[w] \in {"put", "ignored", "failed"}
    /\ outcome' = [outcome EXCEPT ![w] = "idle"]
    /\ UNCHANGED line

SerialNext ==
    \/ \E w \in Writers : Submit(w) \/ Return(w)
    \/ Apply
    \/ \E n \in 1..Len(line) : FailFront(n)

SerialSpec == SerialInit /\ [][SerialNext]_svars
=============================================================================
