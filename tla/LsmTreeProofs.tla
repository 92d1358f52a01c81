--------------------------- MODULE LsmTreeProofs ---------------------------
(***************************************************************************)
(* Proofs, for any keys, levels, trigger and sequence of flushes and       *)
(* compactions: below level 0 the tables of a level never overlap, upper   *)
(* levels have the newer entries, and get finds the newest of all.         *)
(***************************************************************************)
EXTENDS LsmTree, TLAPS

Below(t, u) == \A k \in KeysOf(t), j \in KeysOf(u) : k < j

Apart(t, u) == Below(t, u) \/ Below(u, t)

IsTab(t) == KeysOf(t) \subseteq Keys /\ KeysOf(t) # {} /\ t.seq \in 0..next_file

(* An iterator in the priority queue.                                      *)
IsItem(it) == \E l, s, r : it = [level |-> l, seq |-> s, rest |-> r]

(* The keys a compaction has still to write, or has written.               *)
Pending == UNION {DOMAIN it.rest : it \in pq}
Merging == Pending \cup DOMAIN chunk \cup UNION {KeysOf(t) : t \in outputs}

Types ==
    /\ next_file \in Nat
    /\ DOMAIN levels = Levels /\ \A i \in Levels : \A t \in levels[i] : IsTab(t)
    /\ pc = "merge" => source_level \in 0..(TopLevel - 1)
    /\ pc # "merge" => pq = {} /\ chunk = NoEntries /\ outputs = {} /\ last_key = 0
    /\ \A it \in pq : /\ DOMAIN it.rest \subseteq Keys /\ DOMAIN it.rest # {}
                      /\ it.level \in Nat /\ it.seq \in 0..next_file
                      /\ IsItem(it)
    /\ chunk # NoEntries => DOMAIN chunk # {}
    /\ DOMAIN chunk \subseteq Keys /\ last_key \in Nat
    /\ \A t \in outputs : IsTab(t)

(* The merge goes through the keys in order: outputs, chunk, what is left. *)
MergeOrder ==
    /\ \A k \in Pending : last_key <= k
    /\ \A k \in DOMAIN chunk : k <= last_key
    /\ \A t \in outputs : \A k \in KeysOf(t) : k <= last_key /\ \A j \in DOMAIN chunk : k < j
    /\ \A t, u \in outputs : t # u => Apart(t, u)

(* A table of the target level that is no input lies on one side of all    *)
(* that the compaction writes.                                             *)
Rest(i) == levels[i] \ {f[2] : f \in {g \in inputs : g[1] = i}}
RestAside ==
    pc = "merge" =>
        \A t \in Rest(target_level) : \/ \A k \in KeysOf(t), j \in Merging : k < j
                                      \/ \A k \in KeysOf(t), j \in Merging : j < k

AllApart == \A i \in 1..TopLevel : \A t, u \in levels[i] : t # u => Apart(t, u)

LInv == Types /\ MergeOrder /\ (passed_over = {} => RestAside /\ AllApart)

-----------------------------------------------------------------------------
(* What the library knows of finite sets and of the naturals: sets of      *)
(* naturals have a least element, sets of keys have a greatest one.  It is *)
(* proved at the end (ExtremesExist), where the library is brought in, and *)
(* a hypothesis of the lemmas until then.                                  *)
Extremes ==
    /\ \A S \in SUBSET Nat : S # {} => \E x \in S : \A y \in S : x <= y
    /\ \A S \in SUBSET Keys : S # {} => \E x \in S : \A y \in S : y <= x
    /\ Cardinality({}) = 0

(* A set of naturals has a least element.                                  *)
LEMMA MinNat ==
    ASSUME Extremes, NEW T, T \subseteq Nat, T # {}
    PROVE  \E x \in T : \A y \in T : x <= y
  BY Zenon DEF Extremes

(* Min of FiniteSetsExt is what its name says.                             *)
LEMMA MinIs ==
    ASSUME Extremes, NEW S, S \subseteq Nat, S # {}
    PROVE  Min(S) \in S /\ \A y \in S : Min(S) <= y
<1>1. \E x \in S : \A y \in S : x <= y
  BY MinNat, Zenon
<1> QED
  BY <1>1, Zenon DEF Min

(* Max of a set of keys, likewise.                                         *)
LEMMA MaxIs ==
    ASSUME Extremes, NEW S, S \subseteq Keys, S # {}
    PROVE  Max(S) \in S /\ \A y \in S : y <= Max(S)
<1>1. \E x \in S : \A y \in S : x >= y
  <2>1. PICK x \in S : \A y \in S : y <= x
    BY Zenon DEF Extremes
  <2>2. Keys \subseteq Nat
    BY LsmTreeAssumption, Zenon
  <2> QED
    BY <2>1, <2>2, Zenon
<1>2. Max(S) \in S /\ \A y \in S : Max(S) >= y
  BY <1>1, Zenon DEF Max
<1>3. Keys \subseteq Nat
  BY LsmTreeAssumption, Zenon
<1> QED
  BY <1>2, <1>3, Zenon

(* The keys, as the assumption has them.                                   *)
LEMMA KeysAreNat == Keys \subseteq Nat
  BY LsmTreeAssumption, Zenon

(* min_key and max_key of a table bound its keys.                          *)
LEMMA Bounds ==
    ASSUME Extremes, NEW t, KeysOf(t) \subseteq Keys, KeysOf(t) # {}
    PROVE  /\ min_key(t) \in KeysOf(t) /\ max_key(t) \in KeysOf(t) /\ KeysOf(t) \subseteq Nat
           /\ \A k \in KeysOf(t) : min_key(t) <= k /\ k <= max_key(t)
<1>1. KeysOf(t) \subseteq Nat
  BY KeysAreNat, Zenon
<1> QED
  BY <1>1, MinIs, MaxIs, Zenon DEF min_key, max_key

(* The ranges of two tables are disjoint exactly when all keys of one are  *)
(* below all keys of the other.                                            *)
LEMMA ApartIsDisjoint ==
    ASSUME Extremes, NEW t, KeysOf(t) \subseteq Keys, KeysOf(t) # {},
           NEW u, KeysOf(u) \subseteq Keys, KeysOf(u) # {}
    PROVE  Apart(t, u) <=> max_key(t) < min_key(u) \/ max_key(u) < min_key(t)
<1>1. /\ min_key(t) \in KeysOf(t) /\ max_key(t) \in KeysOf(t) /\ KeysOf(t) \subseteq Nat
      /\ \A k \in KeysOf(t) : min_key(t) <= k /\ k <= max_key(t)
  BY Bounds, Zenon
<1>2. /\ min_key(u) \in KeysOf(u) /\ max_key(u) \in KeysOf(u) /\ KeysOf(u) \subseteq Nat
      /\ \A k \in KeysOf(u) : min_key(u) <= k /\ k <= max_key(u)
  BY Bounds, Zenon
<1> HIDE DEF KeysOf, min_key, max_key
<1>3. Below(t, u) <=> max_key(t) < min_key(u)
  BY <1>1, <1>2 DEF Below
<1>4. Below(u, t) <=> max_key(u) < min_key(t)
  BY <1>1, <1>2 DEF Below
<1> QED
  BY <1>3, <1>4, Zenon DEF Apart

(* The priority queue has a first iterator: the least key, then the upper  *)
(* level, then the newest file.                                            *)
LEMMA FirstExists ==
    ASSUME Extremes, Types, pq # {}
    PROVE  \E it \in pq : \A other \in pq : Before(it, other)
<1> DEFINE key(it) == Min(DOMAIN it.rest)
<1>1. \A it \in pq : key(it) \in Nat /\ it.level \in Nat /\ it.seq \in Nat /\ next_file - it.seq \in Nat
  <2>1. SUFFICES ASSUME NEW it \in pq
                 PROVE  key(it) \in Nat /\ it.level \in Nat /\ it.seq \in Nat /\ next_file - it.seq \in Nat
    OBVIOUS
  <2>2. DOMAIN it.rest \subseteq Nat /\ DOMAIN it.rest # {}
    BY KeysAreNat, Zenon DEF Types
  <2>3. key(it) \in Nat
    BY <2>2, MinIs, Zenon
  <2> HIDE DEF key
  <2> QED
    BY <2>3 DEF Types
<1> HIDE DEF key
<1>2. PICK a \in pq : \A it \in pq : key(a) <= key(it)
  <2> DEFINE S == {key(it) : it \in pq}
  <2>1. S \subseteq Nat /\ S # {}
    BY <1>1, Zenon
  <2>2. PICK x \in S : \A y \in S : x <= y
    BY <2>1, MinNat, Zenon
  <2> QED
    BY <2>2, Zenon
<1>3. PICK b \in pq : key(b) = key(a) /\ \A it \in pq : key(it) = key(a) => b.level <= it.level
  <2> DEFINE S == {it.level : it \in {c \in pq : key(c) = key(a)}}
  <2>1. S \subseteq Nat /\ S # {}
    BY <1>1, Zenon
  <2>2. PICK x \in S : \A y \in S : x <= y
    BY <2>1, MinNat, Zenon
  <2> QED
    BY <2>2, Zenon
<1>4. PICK c \in pq : /\ key(c) = key(a) /\ c.level = b.level
                      /\ \A it \in pq : key(it) = key(a) /\ it.level = b.level
                                           => next_file - c.seq <= next_file - it.seq
  <2> DEFINE S == {next_file - it.seq : it \in {d \in pq : key(d) = key(a) /\ d.level = b.level}}
  <2>1. S \subseteq Nat /\ S # {}
    BY <1>1, <1>3, Zenon
  <2>2. PICK x \in S : \A y \in S : x <= y
    BY <2>1, MinNat, Zenon
  <2> QED
    BY <2>2, Zenon
<1>5. ASSUME NEW it \in pq
      PROVE  Before(c, it)
  <2>1. CASE key(c) < key(it)
    BY <2>1, Zenon DEF Before, key
  <2>2. CASE key(c) = key(it) /\ c.level < it.level
    BY <2>2, Zenon DEF Before, key
  <2>3. CASE key(c) = key(it) /\ c.level = it.level
    <3>1. next_file - c.seq <= next_file - it.seq
      BY <1>3, <1>4, <2>3, Zenon
    <3>2. c.seq >= it.seq
      BY <1>1, <3>1 DEF Types
    <3> QED
      BY <2>3, <3>2, Zenon DEF Before, key
  <2> QED
    BY <1>1, <1>2, <1>3, <1>4, <2>1, <2>2, <2>3
<1> QED
  BY <1>5, Zenon

(* What MergeStep takes off the queue: the least key that is left.         *)
LEMMA FirstIsLeast ==
    ASSUME Extremes, Types, NEW top \in pq, \A other \in pq : Before(top, other)
    PROVE  /\ Min(DOMAIN top.rest) \in DOMAIN top.rest /\ Min(DOMAIN top.rest) \in Nat
           /\ \A k \in Pending : Min(DOMAIN top.rest) <= k
<1>1. \A it \in pq : DOMAIN it.rest \subseteq Nat /\ DOMAIN it.rest # {}
  BY KeysAreNat, Zenon DEF Types
<1>2. \A it \in pq : Min(DOMAIN it.rest) \in DOMAIN it.rest /\ \A k \in DOMAIN it.rest : Min(DOMAIN it.rest) <= k
  BY <1>1, MinIs, Zenon
<1>3. ASSUME NEW it \in pq, NEW k \in DOMAIN it.rest
      PROVE  Min(DOMAIN top.rest) <= k
  <2>1. Min(DOMAIN top.rest) <= Min(DOMAIN it.rest)
    BY <1>1, <1>2 DEF Before
  <2> QED
    BY <1>1, <1>2, <2>1
<1> QED
  BY <1>1, <1>2, <1>3, Zenon DEF Pending

-----------------------------------------------------------------------------
(* An empty tree, and no compaction.                                       *)
LEMMA InitLInv == Init => LInv
<1> SUFFICES ASSUME Init
             PROVE  LInv
  OBVIOUS
<1>1. /\ levels = [i \in Levels |-> {}] /\ next_file = 1 /\ pc = "idle" /\ pq = {}
      /\ last_key = 0 /\ chunk = NoEntries /\ outputs = {}
  BY Zenon DEF Init
<1>2. DOMAIN chunk = {}
  BY <1>1, Zenon DEF NoEntries
<1>3. Types
  BY <1>1, <1>2, Zenon DEF Types
<1>4. MergeOrder
  BY <1>1, <1>2, Zenon DEF MergeOrder, Pending
<1>5. RestAside
  BY <1>1, Zenon DEF RestAside
<1>6. AllApart
  BY <1>1 DEF AllApart, Levels
<1> QED
  BY <1>3, <1>4, <1>5, <1>6, Zenon DEF LInv

(* A flush (flush_immutable) touches level 0 only, below which everything  *)
(* stays as it is.                                                         *)
LEMMA FlushLInv ==
    ASSUME LInv, Flush
    PROVE  LInv'
<1>1. TopLevel \in Nat /\ TopLevel > 0 /\ 0 \in Levels /\ next_file \in Nat
  BY LsmTreeAssumption DEF Levels, LInv, Types
<1>2. \E t : /\ levels' = [levels EXCEPT ![0] = @ \cup {t}]
             /\ KeysOf(t) \subseteq Keys /\ KeysOf(t) # {} /\ t.seq = next_file'
  <2>1. PICK ks \in (SUBSET Keys) \ {{}}, dead \in SUBSET Keys :
            levels' = [levels EXCEPT ![0] = @ \cup
                {Table(next_file', [k \in ks |-> IF k \in dead THEN -flushes' ELSE flushes'])}]
    BY Zenon DEF Flush
  <2> DEFINE t == Table(next_file', [k \in ks |-> IF k \in dead THEN -flushes' ELSE flushes'])
  <2>2. KeysOf(t) = ks /\ t.seq = next_file'
    BY Zenon DEF KeysOf, Table
  <2> QED
    BY <2>1, <2>2, Zenon
<1>3. PICK t : /\ levels' = [levels EXCEPT ![0] = @ \cup {t}]
               /\ KeysOf(t) \subseteq Keys /\ KeysOf(t) # {} /\ t.seq = next_file'
  BY <1>2, Zenon
<1>4. next_file' = next_file + 1 /\ UNCHANGED <<passed_over, compaction>>
  BY Zenon DEF Flush
<1>5. UNCHANGED <<pc, source_level, inputs, pq, last_key, chunk, outputs>>
  BY <1>4, Zenon DEF compaction
<1>6. DOMAIN levels' = Levels /\ \A i \in Levels \ {0} : levels'[i] = levels[i]
  BY <1>1, <1>3, Zenon DEF LInv, Types
<1>7. levels'[0] = levels[0] \cup {t}
  BY <1>1, <1>3, Zenon DEF LInv, Types
<1>8. \A u : IsTab(u) => IsTab(u)'
  BY <1>1, <1>4 DEF IsTab
<1>9. IsTab(t)'
  BY <1>1, <1>3, <1>4 DEF IsTab
<1>10. \A i \in Levels : \A u \in levels'[i] : IsTab(u)'
  BY <1>6, <1>7, <1>8, <1>9, Zenon DEF LInv, Types
<1>11. Types'
  <2>1. \A it \in pq : it.seq \in 0..next_file'
    BY <1>1, <1>4 DEF LInv, Types
  <2> QED
    BY <1>1, <1>4, <1>5, <1>6, <1>8, <1>10, <2>1 DEF LInv, Types
<1>12. MergeOrder'
  BY <1>5, Zenon DEF LInv, MergeOrder, Pending
<1>13. ASSUME passed_over' = {}
       PROVE  RestAside' /\ AllApart'
  <2>1. RestAside /\ AllApart
    BY <1>4, <1>13, Zenon DEF LInv
  <2>2. \A i \in 1..TopLevel : levels'[i] = levels[i]
    BY <1>1, <1>6 DEF Levels
  <2>3. pc = "merge" => target_level \in 1..TopLevel /\ target_level' = target_level
    BY <1>1, <1>5 DEF LInv, Types, target_level
  <2>4. pc = "merge" => Rest(target_level)' = Rest(target_level)
    BY <1>5, <2>2, <2>3, Zenon DEF Rest
  <2>5. RestAside'
    BY <1>5, <2>1, <2>4, Zenon DEF RestAside, Merging, Pending
  <2>6. AllApart'
    BY <2>1, <2>2, Zenon DEF AllApart
  <2> QED
    BY <2>5, <2>6, Zenon
<1> QED
  BY <1>11, <1>12, <1>13, Zenon DEF LInv

-----------------------------------------------------------------------------
(* The inputs of a compaction cover a range: a table of the target level   *)
(* that was not taken lies on one side of every input.                     *)
LEMMA InputsCover ==
    ASSUME Extremes, Types, AllApart, NEW i \in 0..(TopLevel - 1), NEW src, src \subseteq levels[i], src # {},
           NEW t \in levels[i + 1], t \notin TargetInputs(i, src)
    PROVE  \/ \A u \in src \cup TargetInputs(i, src) : Below(t, u)
           \/ \A u \in src \cup TargetInputs(i, src) : Below(u, t)
<1> DEFINE Mins == {min_key(u) : u \in src}
           Maxs == {max_key(u) : u \in src}
           low == Min(Mins)
           high == Max(Maxs)
           tgt == TargetInputs(i, src)
<1>1. TopLevel \in Nat /\ i \in Levels /\ i + 1 \in Levels /\ i + 1 \in 1..TopLevel
  BY LsmTreeAssumption DEF Levels
<1>2. \A u \in levels[i] \cup levels[i + 1] : KeysOf(u) \subseteq Keys /\ KeysOf(u) # {}
  BY <1>1, Zenon DEF Types, IsTab
<1>3. \A u \in levels[i] \cup levels[i + 1] :
         /\ min_key(u) \in KeysOf(u) /\ max_key(u) \in KeysOf(u) /\ KeysOf(u) \subseteq Nat
         /\ \A k \in KeysOf(u) : min_key(u) <= k /\ k <= max_key(u)
  BY <1>2, Bounds, Zenon
<1>4. Mins \subseteq Nat /\ Mins # {} /\ Maxs \subseteq Keys /\ Maxs # {}
  BY <1>2, <1>3, Zenon
<1>5. low \in Mins /\ \A k \in Mins : low <= k
  BY <1>4, MinIs, Zenon
<1>6. Maxs \subseteq Nat
  BY <1>4, KeysAreNat, Zenon
<1>7. high \in Maxs /\ \A k \in Maxs : k <= high
  BY <1>4, MaxIs, Zenon
<1>8. tgt = {u \in levels[i + 1] : min_key(u) <= high /\ max_key(u) >= low}
  BY Zenon DEF TargetInputs, overlaps
<1>9. low \in Nat /\ high \in Nat /\ ~(min_key(t) <= high /\ max_key(t) >= low)
  BY <1>4, <1>5, <1>6, <1>7, <1>8, Zenon
<1> HIDE DEF low, high, tgt
<1>10. ASSUME NEW u \in src
       PROVE  low <= min_key(u) /\ max_key(u) <= high
  BY <1>5, <1>7, Zenon
<1>11. ASSUME NEW u \in tgt
       PROVE  u \in levels[i + 1] /\ u # t /\ Apart(t, u) /\ min_key(u) <= high /\ max_key(u) >= low
  BY <1>1, <1>8, <1>11, Zenon DEF AllApart, tgt
<1>12. CASE max_key(t) < low
  <2>1. ASSUME NEW u \in src
        PROVE  Below(t, u)
    <3>1. /\ \A k \in KeysOf(t) : k \in Nat /\ k <= max_key(t)
          /\ \A j \in KeysOf(u) : j \in Nat /\ min_key(u) <= j
          /\ max_key(t) \in Nat /\ min_key(u) \in Nat
      BY <1>3, Zenon
    <3> QED
      BY <1>9, <1>10, <1>12, <3>1 DEF Below
  <2>2. ASSUME NEW u \in tgt
        PROVE  Below(t, u)
    <3>1. /\ max_key(t) \in KeysOf(t) /\ max_key(u) \in KeysOf(u)
          /\ max_key(t) \in Nat /\ max_key(u) \in Nat
      BY <1>3, <1>11, Zenon
    <3>2. ~Below(u, t)
      BY <1>9, <1>11, <1>12, <3>1 DEF Below
    <3> QED
      BY <1>11, <3>2, Zenon DEF Apart
  <2> QED
    BY <2>1, <2>2, Zenon DEF tgt
<1>13. CASE min_key(t) > high
  <2>1. ASSUME NEW u \in src
        PROVE  Below(u, t)
    <3>1. /\ \A k \in KeysOf(t) : k \in Nat /\ min_key(t) <= k
          /\ \A j \in KeysOf(u) : j \in Nat /\ j <= max_key(u)
          /\ min_key(t) \in Nat /\ max_key(u) \in Nat
      BY <1>3, Zenon
    <3> QED
      BY <1>9, <1>10, <1>13, <3>1 DEF Below
  <2>2. ASSUME NEW u \in tgt
        PROVE  Below(u, t)
    <3>1. /\ min_key(t) \in KeysOf(t) /\ min_key(u) \in KeysOf(u)
          /\ min_key(t) \in Nat /\ min_key(u) \in Nat
      BY <1>3, <1>11, Zenon
    <3>2. ~Below(t, u)
      BY <1>9, <1>11, <1>13, <3>1 DEF Below
    <3> QED
      BY <1>11, <3>2, Zenon DEF Apart
  <2> QED
    BY <2>1, <2>2, Zenon DEF tgt
<1>14. min_key(t) \in Nat /\ max_key(t) \in Nat
  BY <1>3, Zenon
<1> QED
  BY <1>9, <1>12, <1>13, <1>14

(* A level that is over its limit has a file to compact.                   *)
LEMMA OverHasInputs ==
    ASSUME Extremes, Types, NEW i \in Levels, Over(i)
    PROVE  SourceInputs(i) # {}
<1>1. CASE i = 0
  <2>1. levels[0] # {}
    BY <1>1, LsmTreeAssumption DEF Over, Extremes
  <2> QED
    BY <1>1, <2>1, Zenon DEF SourceInputs
<1>2. CASE i # 0
  <2> DEFINE S == {min_key(t) : t \in levels[i]}
  <2>1. \A t \in levels[i] : min_key(t) \in Nat
    BY Bounds, Zenon DEF Types, IsTab
  <2>2. S \subseteq Nat /\ S # {}
    BY <1>2, <2>1, Zenon DEF Over
  <2>3. PICK x \in S : \A y \in S : x <= y
    BY <2>2, MinNat, Zenon
  <2> QED
    BY <1>2, <2>3 DEF SourceInputs
<1> QED
  BY <1>1, <1>2, Zenon

(* Pick takes whole files: what it merges are keys of the inputs, and the  *)
(* other tables of the target level lie aside.                             *)
LEMMA PickLInv ==
    ASSUME Extremes, LInv, Pick
    PROVE  LInv'
<1> DEFINE files(i) == ({i} \X SourceInputs(i)) \cup ({i + 1} \X TargetInputs(i, SourceInputs(i)))
<1>1. /\ pc = "idle" /\ pc' = "merge"
      /\ UNCHANGED <<levels, next_file, flushes, flushed, written, last_key, chunk, outputs>>
  BY Zenon DEF Pick
<1>2. PICK i \in 0..(TopLevel - 1) :
         /\ Over(i)
         /\ source_level' = i
         /\ \E unopened \in SUBSET files(i) : \E unlisted \in SUBSET {f \in unopened : f[1] = i + 1} :
               /\ passed_over' = passed_over \cup UNION {KeysOf(f[2]) : f \in unopened}
               /\ inputs' = files(i) \ unlisted
               /\ pq' = {[level |-> f[1], seq |-> f[2].seq, rest |-> f[2].entries] :
                            f \in files(i) \ unopened}
  BY Zenon DEF Pick
<1>3. PICK unopened \in SUBSET files(i) : \E unlisted \in SUBSET {f \in unopened : f[1] = i + 1} :
         /\ passed_over' = passed_over \cup UNION {KeysOf(f[2]) : f \in unopened}
         /\ inputs' = files(i) \ unlisted
         /\ pq' = {[level |-> f[1], seq |-> f[2].seq, rest |-> f[2].entries] :
                      f \in files(i) \ unopened}
  BY <1>2, Zenon
<1>4. /\ passed_over' = passed_over \cup UNION {KeysOf(f[2]) : f \in unopened}
      /\ pq' = {[level |-> f[1], seq |-> f[2].seq, rest |-> f[2].entries] :
                   f \in files(i) \ unopened}
      /\ unopened = {} => inputs' = files(i)
  BY <1>3, Zenon
<1>5. /\ TopLevel \in Nat \ {0} /\ i \in Nat /\ i \in Levels /\ i + 1 \in Levels /\ i + 1 \in 1..TopLevel
      /\ target_level' = i + 1
  BY <1>2, LsmTreeAssumption DEF Levels, target_level
<1>6. SourceInputs(i) \subseteq levels[i] /\ TargetInputs(i, SourceInputs(i)) \subseteq levels[i + 1]
  BY Zenon DEF SourceInputs, TargetInputs
<1>7. \A f \in files(i) : f[1] \in {i, i + 1} /\ f[2] \in levels[i] \cup levels[i + 1] /\ IsTab(f[2])
  BY <1>5, <1>6, Zenon DEF LInv, Types
<1>8. /\ pq = {} /\ chunk = NoEntries /\ outputs = {} /\ last_key = 0
      /\ pq = {} /\ DOMAIN chunk = {}
  BY <1>1, Zenon DEF LInv, Types, NoEntries
<1>9. ASSUME NEW it \in pq'
      PROVE  /\ DOMAIN it.rest \subseteq Keys /\ DOMAIN it.rest # {}
             /\ it.level \in Nat /\ it.seq \in 0..next_file
             /\ IsItem(it)
             /\ \E f \in files(i) : DOMAIN it.rest = KeysOf(f[2])
  <2>1. PICK f \in files(i) : it = [level |-> f[1], seq |-> f[2].seq, rest |-> f[2].entries]
    BY <1>4, Zenon
  <2>2. it.level = f[1] /\ it.seq = f[2].seq /\ it.rest = f[2].entries
    BY <2>1, Zenon
  <2>3. it.level \in Nat
    BY <1>5, <1>7, <2>2
  <2> QED
    BY <1>7, <2>1, <2>2, <2>3, Zenon DEF IsTab, KeysOf, IsItem
<1>10. Types'
  <2>1. \A u : IsTab(u)' <=> IsTab(u)
    BY <1>1, Zenon DEF IsTab
  <2> QED
    BY <1>1, <1>2, <1>8, <1>9, <2>1, Zenon DEF LInv, Types
<1>11. MergeOrder'
  <2>1. \A k \in Pending' : k \in Nat
    BY <1>9, KeysAreNat, Zenon DEF Pending
  <2> QED
    BY <1>1, <1>8, <2>1 DEF MergeOrder
<1>12. ASSUME passed_over' = {}
       PROVE  RestAside' /\ AllApart'
  <2>1. passed_over = {} /\ UNION {KeysOf(f[2]) : f \in unopened} = {}
    BY <1>4, <1>12, Zenon
  <2>2. unopened = {}
    <3>1. \A f \in unopened : KeysOf(f[2]) # {}
      BY <1>7, Zenon DEF IsTab
    <3> QED
      BY <2>1, <3>1
  <2>3. inputs' = files(i) /\ RestAside /\ AllApart
    BY <1>4, <2>1, <2>2, Zenon DEF LInv
  <2>4. AllApart'
    BY <1>1, <2>3, Zenon DEF AllApart
  <2>5. SourceInputs(i) # {}
    BY <1>2, <1>5, OverHasInputs, Zenon DEF LInv
  <2>6. {f[2] : f \in {g \in inputs' : g[1] = i + 1}} = TargetInputs(i, SourceInputs(i))
    <3>1. i # i + 1
      BY <1>5
    <3>2. ASSUME NEW t \in TargetInputs(i, SourceInputs(i))
          PROVE  t \in {f[2] : f \in {g \in files(i) : g[1] = i + 1}}
      <4>1. <<i + 1, t>> \in files(i)
        OBVIOUS
      <4> HIDE DEF files
      <4> QED
        BY <4>1
    <3> QED
      BY <2>3, <3>1, <3>2, Zenon
  <2>7. Rest(target_level)' = levels[i + 1] \ TargetInputs(i, SourceInputs(i))
    BY <1>1, <1>5, <2>6, Zenon DEF Rest
  <2>8. \A j \in Merging' : \E u \in SourceInputs(i) \cup TargetInputs(i, SourceInputs(i)) : j \in KeysOf(u)
    <3>1. Merging' = Pending'
      BY <1>1, <1>8, Zenon DEF Merging
    <3>2. \A f \in files(i) : f[2] \in SourceInputs(i) \cup TargetInputs(i, SourceInputs(i))
      OBVIOUS
    <3> QED
      BY <1>9, <3>1, <3>2, Zenon DEF Pending
  <2>9. ASSUME NEW t \in levels[i + 1], t \notin TargetInputs(i, SourceInputs(i))
        PROVE  \/ \A k \in KeysOf(t), j \in Merging' : k < j
               \/ \A k \in KeysOf(t), j \in Merging' : j < k
    <3>1. \/ \A u \in SourceInputs(i) \cup TargetInputs(i, SourceInputs(i)) : Below(t, u)
          \/ \A u \in SourceInputs(i) \cup TargetInputs(i, SourceInputs(i)) : Below(u, t)
      BY <1>6, <2>3, <2>5, <2>9, InputsCover, Zenon DEF LInv
    <3> QED
      BY <2>8, <3>1, Zenon DEF Below
  <2>10. RestAside'
    BY <2>7, <2>9, Zenon DEF RestAside
  <2> QED
    BY <2>4, <2>10, Zenon
<1> QED
  BY <1>10, <1>11, <1>12, Zenon DEF LInv

(* Taking a key off an iterator (SSTableIterator::next) leaves the rest.   *)
LEMMA WithoutIs ==
    ASSUME NEW it, IsItem(it), NEW k
    PROVE  /\ Without(it, k).level = it.level /\ Without(it, k).seq = it.seq
           /\ DOMAIN Without(it, k).rest = DOMAIN it.rest \ {k} /\ IsItem(Without(it, k))
           /\ \A j \in DOMAIN it.rest \ {k} : Without(it, k).rest[j] = it.rest[j]
<1>1. PICK l, s, r : it = [level |-> l, seq |-> s, rest |-> r]
  BY Zenon DEF IsItem
<1>2. it.level = l /\ it.seq = s /\ it.rest = r
  BY <1>1, Zenon
<1> DEFINE q == [j \in DOMAIN r \ {k} |-> r[j]]
<1>3. Without(it, k) = [level |-> l, seq |-> s, rest |-> q]
  <2>1. Without(it, k) = [[level |-> l, seq |-> s, rest |-> r] EXCEPT !.rest = q]
    BY <1>1, <1>2, Zenon DEF Without
  <2> HIDE DEF q
  <2>2. [[level |-> l, seq |-> s, rest |-> r] EXCEPT !.rest = q] = [level |-> l, seq |-> s, rest |-> q]
    OBVIOUS
  <2> QED
    BY <2>1, <2>2, Zenon
<1>4. DOMAIN q = DOMAIN r \ {k} /\ \A j \in DOMAIN r \ {k} : q[j] = r[j]
  OBVIOUS
<1> HIDE DEF q
<1>5. Without(it, k).level = l /\ Without(it, k).seq = s /\ Without(it, k).rest = q
  BY <1>3
<1>6. IsItem(Without(it, k))
  BY <1>3, Zenon DEF IsItem
<1> QED
  BY <1>2, <1>4, <1>5, <1>6, Zenon

(* A turn of the merge loop takes the least key left.  It is either the    *)
(* last key again, and dropped, or above all that was kept.                *)
LEMMA MergeStepLInv ==
    ASSUME Extremes, LInv, MergeStep
    PROVE  LInv'
<1> DEFINE first(it) == \A other \in pq : Before(it, other)
           top == CHOOSE it \in pq : first(it)
           k == Min(DOMAIN top.rest)
           left == Without(top, k)
           drop == k = last_key \/ (is_tombstone(top.rest[k]) /\ target_level = TopLevel)
<1>1. /\ pc = "merge" /\ pq # {} /\ last_key' = k
      /\ pq' = (pq \ {top}) \cup {it \in {left} : DOMAIN it.rest # {}}
      /\ chunk' = IF drop THEN chunk
                  ELSE [j \in DOMAIN chunk \cup {k} |-> IF j = k THEN top.rest[k] ELSE chunk[j]]
      /\ UNCHANGED <<levels, next_file, passed_over, pc, source_level, inputs, outputs>>
  BY Zenon DEF MergeStep, MergeStepBody
<1>2. top \in pq /\ first(top)
  <2>1. \E it \in pq : first(it)
    BY <1>1, FirstExists, Zenon DEF LInv
  <2> QED
    BY <2>1, Zenon
<1>3. k \in DOMAIN top.rest /\ k \in Nat /\ \A j \in Pending : k <= j
  BY <1>2, FirstIsLeast, Zenon DEF LInv
<1>4. /\ left.level = top.level /\ left.seq = top.seq
      /\ DOMAIN left.rest = DOMAIN top.rest \ {k} /\ IsItem(left)
  BY <1>2, WithoutIs, Zenon DEF LInv, Types
<1> HIDE DEF top, k, left, drop
<1>5. DOMAIN chunk' \subseteq DOMAIN chunk \cup {k} /\ (k = last_key => DOMAIN chunk' = DOMAIN chunk)
  BY <1>1, Zenon DEF drop
<1>6. \A it \in pq' : it \in pq \/ (it = left /\ DOMAIN left.rest # {})
  BY <1>1, Zenon
<1>7. Pending' \subseteq Pending /\ k \in Pending /\ Pending \subseteq Nat
  <2>1. \A it \in pq' : DOMAIN it.rest \subseteq Pending
    BY <1>2, <1>4, <1>6, Zenon DEF Pending
  <2>2. Pending \subseteq Nat
    BY KeysAreNat, Zenon DEF LInv, Types, Pending
  <2> QED
    BY <1>2, <1>3, <2>1, <2>2, Zenon DEF Pending
<1>8. last_key <= k /\ last_key \in Nat
  BY <1>7, Zenon DEF LInv, MergeOrder, Types
<1>9. DOMAIN chunk \subseteq Nat /\ \A t \in outputs : KeysOf(t) \subseteq Nat
  BY KeysAreNat, Zenon DEF LInv, Types, IsTab
<1>10. Types'
  <2>1. \A u : IsTab(u)' <=> IsTab(u)
    BY <1>1, Zenon DEF IsTab
  <2>2. \A it \in pq' : /\ DOMAIN it.rest \subseteq Keys /\ DOMAIN it.rest # {}
                        /\ it.level \in Nat /\ it.seq \in 0..next_file
                        /\ IsItem(it)
    BY <1>2, <1>4, <1>6, Zenon DEF LInv, Types
  <2>3. DOMAIN chunk' \subseteq Keys /\ (chunk' # NoEntries => DOMAIN chunk' # {})
    BY <1>1, <1>2, <1>3, <1>5, Zenon DEF LInv, Types
  <2> QED
    BY <1>1, <1>3, <2>1, <2>2, <2>3, Zenon DEF LInv, Types
<1>11. MergeOrder'
  <2>1. \A j \in Pending' : k <= j
    BY <1>3, <1>7, Zenon
  <2>2. \A j \in DOMAIN chunk' : j <= k
    BY <1>3, <1>5, <1>8, <1>9 DEF LInv, MergeOrder
  <2>3. ASSUME NEW t \in outputs, NEW j \in KeysOf(t)
        PROVE  j <= k /\ \A n \in DOMAIN chunk' : j < n
    <3>1. j \in Nat /\ j <= last_key /\ \A n \in DOMAIN chunk : j < n
      BY <1>9, Zenon DEF LInv, MergeOrder
    <3>2. k # last_key => j < k
      BY <1>3, <1>8, <3>1
    <3> QED
      BY <1>3, <1>5, <1>8, <3>1, <3>2
  <2> QED
    BY <1>1, <2>1, <2>2, <2>3, Zenon DEF LInv, MergeOrder, Apart, Below
<1>12. ASSUME passed_over' = {}
       PROVE  RestAside' /\ AllApart'
  <2>1. RestAside /\ AllApart
    BY <1>1, <1>12, Zenon DEF LInv
  <2>2. Merging' \subseteq Merging
    BY <1>1, <1>5, <1>7, Zenon DEF Merging
  <2>3. Rest(target_level)' = Rest(target_level)
    BY <1>1, Zenon DEF Rest, target_level
  <2>4. RestAside'
    BY <1>1, <2>1, <2>2, <2>3, Zenon DEF RestAside
  <2> QED
    BY <1>1, <2>1, <2>4, Zenon DEF AllApart
<1> QED
  BY <1>10, <1>11, <1>12, Zenon DEF LInv

(* flush_chunk: the new output lies above the earlier ones.                *)
LEMMA FlushChunkLInv ==
    ASSUME LInv, FlushChunk
    PROVE  LInv'
<1>1. PICK new : new = Table(next_file', chunk)
  OBVIOUS
<1>2. /\ pc = "merge" /\ chunk # NoEntries /\ next_file' = next_file + 1
      /\ outputs' = outputs \cup {new} /\ chunk' = NoEntries
      /\ UNCHANGED <<levels, passed_over, pc, source_level, inputs, pq, last_key>>
  BY <1>1, Zenon DEF FlushChunk
<1>3. KeysOf(new) = DOMAIN chunk /\ new.seq = next_file + 1 /\ DOMAIN chunk' = {}
  BY <1>1, <1>2, Zenon DEF KeysOf, Table, NoEntries
<1>4. DOMAIN chunk # {}
  BY <1>2, Zenon DEF LInv, Types
<1>5. next_file \in Nat /\ \A u : IsTab(u) => IsTab(u)'
  BY <1>2 DEF LInv, Types, IsTab
<1>6. IsTab(new)'
  BY <1>2, <1>3, <1>4, <1>5 DEF LInv, Types, IsTab
<1>7. Types'
  <2>1. \A it \in pq : it.seq \in 0..next_file'
    BY <1>2, <1>5 DEF LInv, Types
  <2> QED
    BY <1>2, <1>3, <1>5, <1>6, <2>1 DEF LInv, Types
<1>8. MergeOrder'
  <2>1. \A t \in outputs : Below(t, new)
    BY <1>3, Zenon DEF LInv, MergeOrder, Below
  <2>2. \A t \in outputs' : \A j \in KeysOf(t) : j <= last_key
    BY <1>2, <1>3, Zenon DEF LInv, MergeOrder
  <2>3. \A t, u \in outputs' : t # u => Apart(t, u)
    BY <1>2, <2>1, Zenon DEF LInv, MergeOrder, Apart
  <2> QED
    BY <1>2, <1>3, <2>2, <2>3, Zenon DEF LInv, MergeOrder, Pending
<1>9. ASSUME passed_over' = {}
      PROVE  RestAside' /\ AllApart'
  <2>1. RestAside /\ AllApart
    BY <1>2, <1>9, Zenon DEF LInv
  <2>2. Merging' \subseteq Merging
    BY <1>2, <1>3, Zenon DEF Merging, Pending
  <2>3. Rest(target_level)' = Rest(target_level)
    BY <1>2, Zenon DEF Rest, target_level
  <2>4. RestAside'
    BY <1>2, <2>1, <2>2, <2>3, Zenon DEF RestAside
  <2> QED
    BY <1>2, <2>1, <2>4, Zenon DEF AllApart
<1> QED
  BY <1>7, <1>8, <1>9, Zenon DEF LInv

(* log_and_apply: the target level gets the outputs in place of its input  *)
(* files; the other levels only lose files.                                *)
LEMMA InstallLInv ==
    ASSUME LInv, Install
    PROVE  LInv'
<1>1. /\ pc = "merge" /\ pq = {} /\ chunk = NoEntries
      /\ levels' = [i \in Levels |-> Rest(i) \cup (IF i = target_level THEN outputs ELSE {})]
      /\ pc' = "idle" /\ last_key' = 0 /\ outputs' = {}
      /\ UNCHANGED <<next_file, passed_over, pq, chunk>>
  BY Zenon DEF Install, Rest
<1>2. \A i \in Levels : Rest(i) \subseteq levels[i]
  BY Zenon DEF Rest
<1>3. \A i \in Levels : levels'[i] = Rest(i) \cup (IF i = target_level THEN outputs ELSE {})
  BY <1>1, Zenon
<1>4. \A i \in Levels : levels'[i] \subseteq levels[i] \cup outputs
  BY <1>2, <1>3, Zenon
<1>5. DOMAIN chunk = {}
  BY <1>1, Zenon DEF NoEntries
<1>6. Types'
  <2>1. \A u : IsTab(u)' <=> IsTab(u)
    BY <1>1, Zenon DEF IsTab
  <2>2. \A i \in Levels : \A t \in levels'[i] : IsTab(t)
    BY <1>4, Zenon DEF LInv, Types
  <2> QED
    BY <1>1, <1>5, <2>1, <2>2, Zenon DEF LInv, Types
<1>7. MergeOrder'
  BY <1>1, <1>5, Zenon DEF MergeOrder, Pending
<1>8. ASSUME passed_over' = {}
      PROVE  RestAside' /\ AllApart'
  <2>1. RestAside /\ AllApart
    BY <1>1, <1>8, Zenon DEF LInv
  <2>2. RestAside'
    BY <1>1, Zenon DEF RestAside
  <2>3. ASSUME NEW i \in 1..TopLevel, NEW t \in levels'[i], NEW u \in levels'[i], t # u
        PROVE  Apart(t, u)
    <3>1. i \in Levels
      BY LsmTreeAssumption DEF Levels
    <3>2. CASE t \in Rest(i) /\ u \in Rest(i)
      BY <1>2, <2>1, <2>3, <3>1, <3>2, Zenon DEF AllApart
    <3>3. CASE t \in outputs /\ u \in outputs
      BY <2>3, <3>3, Zenon DEF LInv, MergeOrder
    <3>4. ASSUME i = target_level, NEW a \in Rest(i), NEW b \in outputs
          PROVE  Apart(a, b)
      <4>1. KeysOf(b) \subseteq Merging
        BY Zenon DEF Merging
      <4>2. \/ \A k \in KeysOf(a), j \in Merging : k < j
            \/ \A k \in KeysOf(a), j \in Merging : j < k
        BY <1>1, <2>1, <3>4, Zenon DEF RestAside
      <4> QED
        BY <4>1, <4>2, Zenon DEF Apart, Below
    <3>5. \A a, b : Apart(a, b) => Apart(b, a)
      BY Zenon DEF Apart
    <3>6. /\ t \in Rest(i) \/ (i = target_level /\ t \in outputs)
          /\ u \in Rest(i) \/ (i = target_level /\ u \in outputs)
      BY <1>3, <3>1, Zenon
    <3> QED
      BY <3>2, <3>3, <3>4, <3>5, <3>6, Zenon
  <2>4. AllApart'
    BY <2>3, Zenon DEF AllApart, Apart, Below
  <2> QED
    BY <2>2, <2>4, Zenon
<1> QED
  BY <1>6, <1>7, <1>8, Zenon DEF LInv

(* Every step of flushes and compactions keeps the invariant.              *)
LEMMA StepLInv ==
    ASSUME Extremes, LInv, [Next]_vars
    PROVE  LInv'
<1>1. CASE UNCHANGED vars
  <2>1. UNCHANGED <<levels, next_file, passed_over, pc, source_level, inputs, pq, last_key, chunk, outputs>>
    BY <1>1, Zenon DEF vars, compaction
  <2>2. Types'
    BY <2>1, Zenon DEF LInv, Types, IsTab
  <2>3. MergeOrder'
    BY <2>1, Zenon DEF LInv, MergeOrder, Pending, Apart, Below
  <2>4. (passed_over = {} => RestAside /\ AllApart)'
    BY <2>1 DEF LInv, RestAside, AllApart, Rest, target_level, Merging, Pending
  <2> QED
    BY <2>2, <2>3, <2>4, Zenon DEF LInv
<1> QED
  BY <1>1, FlushLInv, PickLInv, MergeStepLInv, FlushChunkLInv, InstallLInv, Zenon DEF Next

-----------------------------------------------------------------------------
(* What is known of the entries of a key k in the tree.                    *)
EntryTypes(k) ==
    /\ flushes \in Nat /\ written[k] \in Int /\ Age(written[k]) <= flushes
    /\ \A i \in Levels : \A t \in levels[i] :
          k \in KeysOf(t) => t.entries[k] \in Int /\ Age(t.entries[k]) <= Age(written[k])

(* One table of a lower level at most holds it, and of two tables of level *)
(* 0 the one with the higher number has the newer entry.                   *)
OnePerLevel(k) ==
    /\ \A i \in 1..TopLevel : \A t, u \in levels[i] : k \in KeysOf(t) \cap KeysOf(u) => t = u
    /\ \A t, u \in levels[0] : k \in KeysOf(t) \cap KeysOf(u) =>
          \/ t = u
          \/ t.seq < u.seq /\ Age(t.entries[k]) < Age(u.entries[k])
          \/ u.seq < t.seq /\ Age(u.entries[k]) < Age(t.entries[k])

(* UpperIsNewer, for one key.                                              *)
NewerAbove(k) ==
    \A i, j \in Levels : \A t \in levels[i], u \in levels[j] :
        i < j /\ k \in KeysOf(t) \cap KeysOf(u) => Age(t.entries[k]) > Age(u.entries[k])

(* The newest entry is in the tree, or was a tombstone and nothing is.     *)
NewestKept(k) ==
    \/ \E i \in Levels : \E t \in levels[i] : k \in KeysOf(t) /\ t.entries[k] = written[k]
    \/ written[k] <= 0 /\ \A i \in Levels : \A t \in levels[i] : k \notin KeysOf(t)

(* The inputs with the key, and the newest entry of theirs.                *)
InputsWith(k) == {f \in inputs : k \in KeysOf(f[2])}
Best(k, e) ==
    /\ \E f \in InputsWith(k) : f[2].entries[k] = e
    /\ \A g \in InputsWith(k) : g[2].entries[k] = e \/ Age(g[2].entries[k]) < Age(e)

(* If an input has the key then what is left of its level is newer, and    *)
(* what is left of the target level does not have it.                      *)
InputsApart(k) ==
    /\ \A f \in inputs : f[1] \in {source_level, target_level} /\ f[2] \in levels[f[1]]
    /\ \A f \in InputsWith(k) : \A t \in Rest(target_level) : k \notin KeysOf(t)
    /\ \A f \in InputsWith(k) : \A t \in Rest(source_level) :
          f[1] = source_level /\ k \in KeysOf(t) => Age(t.entries[k]) > Age(f[2].entries[k])

(* The iterators still have every entry of the key.                        *)
Unmerged(k) ==
    /\ \A f \in InputsWith(k) : \E it \in pq :
          it.level = f[1] /\ it.seq = f[2].seq /\ k \in DOMAIN it.rest /\ it.rest[k] = f[2].entries[k]
    /\ \A it \in pq : k \in DOMAIN it.rest =>
          \E f \in InputsWith(k) : it.level = f[1] /\ it.seq = f[2].seq /\ it.rest[k] = f[2].entries[k]

(* The merge has kept its newest entry, or dropped it as a tombstone.      *)
Merged(k) ==
    /\ k \in DOMAIN chunk => Best(k, chunk[k])
    /\ \A t \in outputs : k \in KeysOf(t) => Best(k, t.entries[k])
    /\ InputsWith(k) # {} =>
          \/ k \in DOMAIN chunk
          \/ \E t \in outputs : k \in KeysOf(t)
          \/ target_level = TopLevel /\ \E f \in InputsWith(k) : Best(k, f[2].entries[k]) /\ f[2].entries[k] < 0

MergeInv(k) ==
    pc = "merge" => /\ InputsApart(k)
                    /\ IF last_key < k THEN Unmerged(k) ELSE Merged(k)

KeyInv(k) == EntryTypes(k) /\ OnePerLevel(k) /\ NewerAbove(k) /\ NewestKept(k) /\ MergeInv(k)

-----------------------------------------------------------------------------
(* At first there are no tables.                                           *)
LEMMA InitKey ==
    ASSUME Init, NEW k \in Keys
    PROVE  KeyInv(k)
<1>1. /\ levels = [i \in Levels |-> {}] /\ flushes = 0 /\ written = [j \in Keys |-> 0] /\ pc = "idle"
  BY Zenon DEF Init
<1>2. \A i \in Levels : levels[i] = {}
  BY <1>1, Zenon
<1>3. TopLevel \in Nat /\ 0 \in Levels /\ 1..TopLevel \subseteq Levels
  BY LsmTreeAssumption DEF Levels
<1>4. written[k] = 0 /\ Age(0) = 0
  BY <1>1 DEF Age
<1>5. EntryTypes(k) /\ NewestKept(k)
  BY <1>1, <1>2, <1>4 DEF EntryTypes, NewestKept
<1>6. OnePerLevel(k) /\ NewerAbove(k)
  BY <1>2, <1>3, Zenon DEF OnePerLevel, NewerAbove
<1> QED
  BY <1>1, <1>5, <1>6, Zenon DEF KeyInv, MergeInv

(* The table a flush (flush_immutable) adds to level 0.                    *)
LEMMA FlushAdds ==
    ASSUME LInv, Flush, flushes \in Nat
    PROVE  \E t : /\ levels'[0] = levels[0] \cup {t} /\ t.seq = next_file + 1
                  /\ \A i \in 1..TopLevel : levels'[i] = levels[i]
                  /\ \A k \in KeysOf(t) : /\ t.entries[k] \in Int /\ Age(t.entries[k]) = flushes + 1
                                          /\ k \in Keys => written'[k] = t.entries[k]
                  /\ \A k \in Keys \ KeysOf(t) : written'[k] = written[k]
<1>1. flushes' = flushes + 1 /\ next_file' = next_file + 1 /\ next_file \in Nat
  BY Zenon DEF Flush, LInv, Types
<1>2. PICK ks \in (SUBSET Keys) \ {{}}, dead \in SUBSET Keys :
         /\ levels' = [levels EXCEPT ![0] = @ \cup
                {Table(next_file', [k \in ks |-> IF k \in dead THEN -flushes' ELSE flushes'])}]
         /\ written' = [k \in Keys |->
                IF k \in ks THEN [j \in ks |-> IF j \in dead THEN -flushes' ELSE flushes'][k] ELSE written[k]]
  BY Zenon DEF Flush
<1>3. PICK n : n = flushes + 1
  OBVIOUS
<1>4. PICK entries : entries = [k \in ks |-> IF k \in dead THEN -n ELSE n]
  BY Zenon
<1>5. PICK t : t = Table(next_file + 1, entries)
  OBVIOUS
<1>6. levels' = [levels EXCEPT ![0] = @ \cup {t}]
  BY <1>1, <1>2, <1>3, <1>4, <1>5, Zenon
<1>7. written' = [k \in Keys |-> IF k \in ks THEN entries[k] ELSE written[k]]
  BY <1>1, <1>2, <1>3, <1>4, Zenon
<1>8. t.seq = next_file + 1 /\ t.entries = entries /\ KeysOf(t) = ks
  BY <1>4, <1>5, Zenon DEF Table, KeysOf
<1>9. n \in Nat /\ n > 0
  BY <1>3
<1>10. \A k \in ks : entries[k] \in Int /\ Age(entries[k]) = n
  BY <1>4, <1>9 DEF Age
<1>11. TopLevel \in Nat /\ 0 \in Levels /\ DOMAIN levels = Levels /\ 1..TopLevel \subseteq Levels
  BY LsmTreeAssumption DEF Levels, LInv, Types
<1>12. levels'[0] = levels[0] \cup {t} /\ \A i \in 1..TopLevel : levels'[i] = levels[i]
  BY <1>6, <1>11
<1> QED
  BY <1>3, <1>7, <1>8, <1>10, <1>12, Zenon

(* A flush puts a newer entry above the others: a higher number than any   *)
(* table of level 0, an age no entry has reached.                          *)
LEMMA FlushKey ==
    ASSUME LInv, Flush, NEW k \in Keys, KeyInv(k)
    PROVE  KeyInv(k)'
<1>1. /\ flushes \in Nat /\ written[k] \in Int /\ Age(written[k]) <= flushes
      /\ \A i \in Levels : \A t \in levels[i] :
            k \in KeysOf(t) => t.entries[k] \in Int /\ Age(t.entries[k]) <= Age(written[k])
  BY Zenon DEF KeyInv, EntryTypes
<1>2. PICK new : /\ levels'[0] = levels[0] \cup {new} /\ new.seq = next_file + 1
                 /\ \A i \in 1..TopLevel : levels'[i] = levels[i]
                 /\ k \in KeysOf(new) => /\ new.entries[k] \in Int /\ Age(new.entries[k]) = flushes + 1
                                         /\ written'[k] = new.entries[k]
                 /\ k \notin KeysOf(new) => written'[k] = written[k]
  BY <1>1, FlushAdds, Zenon
<1>3. flushes' = flushes + 1 /\ UNCHANGED <<pc, source_level, inputs, pq, last_key, chunk, outputs>>
  BY Zenon DEF Flush, compaction
<1>4. TopLevel \in Nat \ {0} /\ Levels = 0..TopLevel /\ next_file \in Nat /\ \A t \in levels[0] : t.seq \in 0..next_file
  BY LsmTreeAssumption DEF Levels, LInv, Types, IsTab
<1>5. \A i \in Levels : \A t \in levels'[i] : t \in levels[i] \/ (i = 0 /\ t = new)
  BY <1>2, <1>4
<1>6. \A i \in Levels : \A t \in levels[i] : t \in levels'[i]
  BY <1>2, <1>4
<1>7. \A e \in Int : Age(e) \in Nat
  BY DEF Age
<1>8. Age(written[k]) <= Age(written'[k]) /\ Age(written'[k]) <= flushes + 1 /\ written'[k] \in Int
  BY <1>1, <1>2, <1>7
<1>9. \A i \in Levels : \A t \in levels[i] :
          k \in KeysOf(t) => t.entries[k] \in Int /\ Age(t.entries[k]) \in Nat /\ Age(t.entries[k]) <= flushes
  BY <1>1, <1>7
<1>10. EntryTypes(k)'
  <2>1. ASSUME NEW i \in Levels, NEW t \in levels'[i], k \in KeysOf(t)
        PROVE  t.entries[k] \in Int /\ Age(t.entries[k]) <= Age(written'[k])
    <3>1. CASE t \in levels[i]
      BY <1>1, <1>7, <1>8, <2>1, <3>1
    <3>2. CASE t = new
      BY <1>2, <1>7, <2>1, <3>2
    <3> QED
      BY <1>5, <2>1, <3>1, <3>2, Zenon
  <2> QED
    BY <1>1, <1>3, <1>8, <2>1 DEF EntryTypes, Age, KeysOf
<1>11. OnePerLevel(k)'
  <2>1. \A t, u \in levels'[0] : k \in KeysOf(t) \cap KeysOf(u) =>
          \/ t = u
          \/ t.seq < u.seq /\ Age(t.entries[k]) < Age(u.entries[k])
          \/ u.seq < t.seq /\ Age(u.entries[k]) < Age(t.entries[k])
    <3> SUFFICES ASSUME NEW t \in levels'[0], NEW u \in levels'[0], k \in KeysOf(t), k \in KeysOf(u)
                 PROVE  \/ t = u
                        \/ t.seq < u.seq /\ Age(t.entries[k]) < Age(u.entries[k])
                        \/ u.seq < t.seq /\ Age(u.entries[k]) < Age(t.entries[k])
      OBVIOUS
    <3>1. 0 \in Levels
      BY <1>4
    <3>2. CASE t \in levels[0] /\ u \in levels[0]
      BY <3>2, Zenon DEF KeyInv, OnePerLevel
    <3>3. CASE t \in levels[0] /\ u = new
      BY <1>1, <1>2, <1>4, <1>9, <3>1, <3>3
    <3>4. CASE t = new /\ u \in levels[0]
      BY <1>1, <1>2, <1>4, <1>9, <3>1, <3>4
    <3> QED
      BY <1>2, <3>2, <3>3, <3>4, Zenon
  <2> QED
    BY <1>2, <2>1, Zenon DEF KeyInv, OnePerLevel, Age, KeysOf
<1>12. NewerAbove(k)'
  <2> SUFFICES ASSUME NEW i \in Levels, NEW j \in Levels, NEW t \in levels'[i], NEW u \in levels'[j],
                      i < j, k \in KeysOf(t), k \in KeysOf(u)
               PROVE  Age(t.entries[k]) > Age(u.entries[k])
    BY Zenon DEF NewerAbove, Age, KeysOf
  <2>1. j # 0 /\ u \in levels[j]
    BY <1>4, <1>5
  <2>2. CASE t \in levels[i]
    BY <2>1, <2>2, Zenon DEF KeyInv, NewerAbove
  <2>3. CASE t = new
    BY <1>1, <1>2, <1>9, <2>1, <2>3, SMTT(20)
  <2> QED
    BY <1>5, <2>2, <2>3, Zenon
<1>13. NewestKept(k)'
  <2>1. CASE k \in KeysOf(new)
    <3>1. 0 \in Levels /\ new \in levels'[0] /\ written'[k] = new.entries[k]
      BY <1>2, <1>4, <2>1, SMTT(20)
    <3> QED
      BY <2>1, <3>1, Zenon DEF NewestKept, KeysOf
  <2>2. CASE k \notin KeysOf(new)
    BY <1>2, <1>5, <1>6, <2>2, Zenon DEF KeyInv, NewestKept, KeysOf
  <2> QED
    BY <2>1, <2>2, Zenon
<1>14. ASSUME pc = "merge"
       PROVE  InputsApart(k)'
  <2>1. source_level \in 0..(TopLevel - 1) /\ target_level \in 1..TopLevel /\ source_level \in Levels
    BY <1>4, <1>14, SMTT(20) DEF LInv, Types, target_level
  <2>2. InputsApart(k)
    BY <1>14, Zenon DEF KeyInv, MergeInv
  <2>3. Rest(target_level)' = Rest(target_level) /\ InputsWith(k)' = InputsWith(k)
    BY <1>2, <1>3, <2>1, Zenon DEF Rest, target_level, InputsWith, KeysOf
  <2>4. \A t \in Rest(source_level)' : t \in Rest(source_level) \/ t = new
    BY <1>3, <1>5, <2>1, Zenon DEF Rest
  <2>5. \A f \in inputs : f[1] \in {source_level, target_level} /\ f[2] \in levels[f[1]] /\ f[2] \in levels'[f[1]]
    BY <1>6, <2>1, <2>2, <1>4 DEF InputsApart
  <2>6. ASSUME NEW f \in InputsWith(k), NEW t \in Rest(source_level)', f[1] = source_level, k \in KeysOf(t)
        PROVE  Age(t.entries[k]) > Age(f[2].entries[k])
    <3>1. CASE t \in Rest(source_level)
      BY <2>2, <2>6, <3>1, Zenon DEF InputsApart
    <3>2. CASE t = new
      <4>1. f[2] \in levels[source_level] /\ k \in KeysOf(f[2])
        BY <2>5, <2>6, Zenon DEF InputsWith
      <4> QED
        BY <1>1, <1>2, <1>9, <2>1, <2>6, <3>2, <4>1, SMTT(20)
    <3> QED
      BY <2>4, <2>6, <3>1, <3>2, Zenon
  <2> QED
    BY <1>3, <2>2, <2>3, <2>5, <2>6, Zenon DEF InputsApart, target_level, Age, KeysOf
<1>15. MergeInv(k)'
  <2>1. pc = "merge" => IF last_key < k THEN Unmerged(k) ELSE Merged(k)
    BY Zenon DEF KeyInv, MergeInv
  <2>2. InputsWith(k)' = InputsWith(k) /\ Unmerged(k)' = Unmerged(k) /\ Merged(k)' = Merged(k)
    BY <1>3, ZenonT(30) DEF InputsWith, KeysOf, Unmerged, Merged, Best, Age, target_level
  <2> QED
    BY <1>3, <1>14, <2>1, <2>2, Zenon DEF MergeInv
<1> QED
  BY <1>10, <1>11, <1>12, <1>13, <1>15, Zenon DEF KeyInv

-----------------------------------------------------------------------------
(* A table of the target level that shares a key with an input of the      *)
(* source level overlaps the range of the inputs, so it is one of them.    *)
LEMMA SharedIsTaken ==
    ASSUME Extremes, Types, NEW i \in 0..(TopLevel - 1), NEW src, src \subseteq levels[i],
           NEW t \in src, NEW u \in levels[i + 1], NEW k \in KeysOf(t) \cap KeysOf(u)
    PROVE  u \in TargetInputs(i, src)
<1> DEFINE Mins == {min_key(v) : v \in src}
           Maxs == {max_key(v) : v \in src}
           low == Min(Mins)
           high == Max(Maxs)
<1>1. i \in Levels /\ i + 1 \in Levels
  BY LsmTreeAssumption DEF Levels
<1>2. \A v \in levels[i] \cup levels[i + 1] : KeysOf(v) \subseteq Keys /\ KeysOf(v) # {}
  BY <1>1, Zenon DEF Types, IsTab
<1>3. \A v \in levels[i] \cup levels[i + 1] :
         /\ min_key(v) \in KeysOf(v) /\ max_key(v) \in KeysOf(v) /\ KeysOf(v) \subseteq Nat
         /\ \A j \in KeysOf(v) : min_key(v) <= j /\ j <= max_key(v)
  BY <1>2, Bounds, Zenon
<1>4. Mins \subseteq Nat /\ Mins # {} /\ Maxs \subseteq Keys /\ Maxs # {} /\ Maxs \subseteq Nat
  BY <1>2, <1>3, Zenon
<1>5. low \in Mins /\ \A j \in Mins : low <= j
  BY <1>4, MinIs, Zenon
<1>6. high \in Maxs /\ \A j \in Maxs : j <= high
  BY <1>4, MaxIs, Zenon
<1>7. TargetInputs(i, src) = {v \in levels[i + 1] : min_key(v) <= high /\ max_key(v) >= low}
  BY Zenon DEF TargetInputs, overlaps
<1>8. low \in Nat /\ high \in Nat /\ low <= min_key(t) /\ max_key(t) <= high
  BY <1>4, <1>5, <1>6, Zenon
<1>9. /\ k \in Nat /\ min_key(t) \in Nat /\ max_key(t) \in Nat /\ min_key(u) \in Nat /\ max_key(u) \in Nat
       /\ min_key(t) <= k /\ k <= max_key(t) /\ min_key(u) <= k /\ k <= max_key(u)
  BY <1>3, Zenon
<1> HIDE DEF low, high
<1> QED
  BY <1>7, <1>8, <1>9

(* Pick: a key of no file that could not be opened has its entries in the  *)
(* iterators.  All of level 0 is taken, and of a lower level the only      *)
(* table with the key.                                                     *)
LEMMA PickKey ==
    ASSUME Extremes, LInv, Pick, NEW k \in Keys, k \notin passed_over', KeyInv(k)
    PROVE  KeyInv(k)'
<1> DEFINE files(i) == ({i} \X SourceInputs(i)) \cup ({i + 1} \X TargetInputs(i, SourceInputs(i)))
<1>1. /\ pc = "idle" /\ pc' = "merge"
      /\ UNCHANGED <<levels, next_file, flushes, flushed, written, last_key, chunk, outputs>>
  BY Zenon DEF Pick
<1>2. PICK i \in 0..(TopLevel - 1) :
         /\ source_level' = i
         /\ \E unopened \in SUBSET files(i) : \E unlisted \in SUBSET {f \in unopened : f[1] = i + 1} :
               /\ passed_over' = passed_over \cup UNION {KeysOf(f[2]) : f \in unopened}
               /\ inputs' = files(i) \ unlisted
               /\ pq' = {[level |-> f[1], seq |-> f[2].seq, rest |-> f[2].entries] :
                            f \in files(i) \ unopened}
  BY Zenon DEF Pick
<1>3. PICK unopened \in SUBSET files(i) : \E unlisted \in SUBSET {f \in unopened : f[1] = i + 1} :
         /\ passed_over' = passed_over \cup UNION {KeysOf(f[2]) : f \in unopened}
         /\ inputs' = files(i) \ unlisted
         /\ pq' = {[level |-> f[1], seq |-> f[2].seq, rest |-> f[2].entries] :
                      f \in files(i) \ unopened}
  BY <1>2, Zenon
<1>4. PICK unlisted \in SUBSET {f \in unopened : f[1] = i + 1} :
         /\ passed_over' = passed_over \cup UNION {KeysOf(f[2]) : f \in unopened}
         /\ inputs' = files(i) \ unlisted
         /\ pq' = {[level |-> f[1], seq |-> f[2].seq, rest |-> f[2].entries] :
                      f \in files(i) \ unopened}
  BY <1>3, Zenon
<1>5. /\ TopLevel \in Nat \ {0} /\ i \in Nat /\ i \in Levels /\ i + 1 \in Levels /\ i + 1 \in 1..TopLevel
      /\ target_level' = i + 1 /\ i # i + 1
  BY <1>2, LsmTreeAssumption DEF Levels, target_level
<1>6. SourceInputs(i) \subseteq levels[i] /\ TargetInputs(i, SourceInputs(i)) \subseteq levels[i + 1]
  BY Zenon DEF SourceInputs, TargetInputs
<1>7. \A f \in unopened : k \notin KeysOf(f[2])
  BY <1>4, Zenon
<1>8. \A t : t \in SourceInputs(i) <=> <<i, t>> \in files(i)
  BY <1>5, Zenon
<1>9. \A t : t \in TargetInputs(i, SourceInputs(i)) <=> <<i + 1, t>> \in files(i)
  BY <1>5, Zenon
<1>10. \A f \in files(i) : f = <<f[1], f[2]>> /\ f[1] \in {i, i + 1} /\ f[2] \in levels[f[1]]
  BY <1>6
<1> HIDE DEF files
<1>11. \A t \in SourceInputs(i) : <<i, t>> \in inputs'
  <2>1. \A f \in unlisted : f[1] # i
    BY <1>4, <1>5, Zenon
  <2> QED
    BY <1>4, <1>8, <2>1, Zenon
<1>12. \A t \in Rest(i + 1)' : k \in KeysOf(t) => t \in levels[i + 1] /\ t \notin TargetInputs(i, SourceInputs(i))
  <2>1. ASSUME NEW t \in levels[i + 1], k \in KeysOf(t), t \in TargetInputs(i, SourceInputs(i))
        PROVE  t \in {f[2] : f \in {g \in inputs' : g[1] = i + 1}}
    <3>1. <<i + 1, t>> \in files(i) /\ <<i + 1, t>>[1] = i + 1 /\ <<i + 1, t>>[2] = t
      BY <1>9, <2>1, Zenon
    <3>2. <<i + 1, t>> \notin unopened
      BY <1>7, <2>1, <3>1, Zenon
    <3>3. <<i + 1, t>> \in inputs'
      BY <1>4, <3>1, <3>2, Zenon
    <3> QED
      BY <3>1, <3>3, Zenon
  <2>2. Rest(i + 1)' = levels[i + 1] \ {f[2] : f \in {g \in inputs' : g[1] = i + 1}}
    BY <1>1, Zenon DEF Rest
  <2> QED
    BY <2>1, <2>2, Zenon
<1>13. \A t \in Rest(i)' : t \in levels[i] /\ t \notin SourceInputs(i)
  <2>1. ASSUME NEW t \in SourceInputs(i)
        PROVE  t \in {f[2] : f \in {g \in inputs' : g[1] = i}}
    <3>1. <<i, t>> \in inputs' /\ <<i, t>>[1] = i /\ <<i, t>>[2] = t
      BY <1>11, <2>1, Zenon
    <3> QED
      BY <3>1, Zenon
  <2>2. Rest(i)' = levels[i] \ {f[2] : f \in {g \in inputs' : g[1] = i}}
    BY <1>1, Zenon DEF Rest
  <2> QED
    BY <2>1, <2>2, Zenon
<1>14. \A f \in InputsWith(k)' : f \in files(i) /\ f \notin unopened /\ k \in KeysOf(f[2])
  BY <1>4, <1>7, Zenon DEF InputsWith, KeysOf
<1>15. InputsApart(k)'
  <2>1. \A f \in inputs' : f[1] \in {i, i + 1} /\ f[2] \in levels[f[1]]
    BY <1>4, <1>10, Zenon
  <2>2. ASSUME NEW f \in InputsWith(k)', NEW t \in Rest(i + 1)', k \in KeysOf(t)
        PROVE  FALSE
    <3>1. t \in levels[i + 1] /\ t \notin TargetInputs(i, SourceInputs(i))
      BY <1>12, <2>2, Zenon
    <3>2. f \in files(i) /\ k \in KeysOf(f[2]) /\ f = <<f[1], f[2]>> /\ f[1] \in {i, i + 1}
      BY <1>10, <1>14, <2>2, Zenon
    <3>3. CASE f[1] = i
      <4>1. f[2] \in SourceInputs(i)
        BY <1>8, <3>2, <3>3, Zenon
      <4> QED
        BY <1>6, <2>2, <3>1, <3>2, <4>1, SharedIsTaken, Zenon DEF LInv
    <3>4. CASE f[1] = i + 1
      <4>1. f[2] \in TargetInputs(i, SourceInputs(i))
        BY <1>9, <3>2, <3>4, Zenon
      <4> QED
        BY <1>5, <1>6, <2>2, <3>1, <3>2, <4>1, Zenon DEF KeyInv, OnePerLevel
    <3> QED
      BY <3>2, <3>3, <3>4, Zenon
  <2>3. ASSUME NEW f \in InputsWith(k)', NEW t \in Rest(i)', f[1] = i, k \in KeysOf(t)
        PROVE  FALSE
    <3>1. t \in levels[i] /\ t \notin SourceInputs(i)
      BY <1>13, <2>3, Zenon
    <3>2. f \in files(i) /\ k \in KeysOf(f[2]) /\ f = <<f[1], f[2]>>
      BY <1>10, <1>14, <2>3, Zenon
    <3>3. f[2] \in SourceInputs(i)
      BY <1>8, <2>3, <3>2, Zenon
    <3>4. i # 0
      BY <3>1, Zenon DEF SourceInputs
    <3>5. t = f[2]
      BY <1>5, <1>6, <2>3, <3>1, <3>2, <3>3, <3>4 DEF KeyInv, OnePerLevel
    <3> QED
      BY <3>1, <3>3, <3>5, Zenon
  <2> QED
    BY <1>1, <1>2, <1>5, <2>1, <2>2, <2>3, Zenon DEF InputsApart, KeysOf
<1>16. Unmerged(k)'
  <2>1. ASSUME NEW f \in InputsWith(k)'
        PROVE  \E it \in pq' : /\ it.level = f[1] /\ it.seq = f[2].seq
                               /\ k \in DOMAIN it.rest /\ it.rest[k] = f[2].entries[k]
    <3>1. PICK it : it = [level |-> f[1], seq |-> f[2].seq, rest |-> f[2].entries]
      BY ZenonT(30)
    <3>2. it \in pq'
      BY <1>4, <1>14, <3>1, Zenon
    <3>3. it.level = f[1] /\ it.seq = f[2].seq /\ it.rest = f[2].entries
      BY <3>1, Zenon
    <3> QED
      BY <1>14, <3>2, <3>3, Zenon DEF KeysOf
  <2>2. ASSUME NEW it \in pq', k \in DOMAIN it.rest
        PROVE  \E f \in InputsWith(k)' : it.level = f[1] /\ it.seq = f[2].seq /\ it.rest[k] = f[2].entries[k]
    <3>1. PICK f \in files(i) \ unopened : it = [level |-> f[1], seq |-> f[2].seq, rest |-> f[2].entries]
      BY <1>4, Zenon
    <3>2. it.level = f[1] /\ it.seq = f[2].seq /\ it.rest = f[2].entries
      BY <3>1, Zenon
    <3>3. f \in InputsWith(k)'
      BY <1>4, <2>2, <3>1, <3>2, Zenon DEF InputsWith, KeysOf
    <3> QED
      BY <3>2, <3>3, Zenon
  <2> QED
    BY <2>1, <2>2, Zenon DEF Unmerged
<1>17. last_key' = 0 /\ 0 < k
  BY <1>1, LsmTreeAssumption DEF LInv, Types
<1>18. MergeInv(k)'
  BY <1>15, <1>16, <1>17, Zenon DEF MergeInv
<1>19. EntryTypes(k)' /\ OnePerLevel(k)' /\ NewerAbove(k)' /\ NewestKept(k)'
  BY <1>1, ZenonT(30) DEF KeyInv, EntryTypes, OnePerLevel, NewerAbove, NewestKept, Age, KeysOf
<1> QED
  BY <1>18, <1>19, Zenon DEF KeyInv

-----------------------------------------------------------------------------
(* The first iterator with a key has its newest entry: CompareIter prefers *)
(* the upper level, and within a level the file with the higher number.    *)
LEMMA TopIsBest ==
    ASSUME Extremes, LInv, pc = "merge", NEW top \in pq, \A other \in pq : Before(top, other),
           NEW k \in Keys, k = Min(DOMAIN top.rest), KeyInv(k), last_key < k
    PROVE  \E f \in InputsWith(k) : f[2].entries[k] = top.rest[k] /\ Best(k, top.rest[k])
<1>1. Unmerged(k) /\ InputsApart(k) /\ OnePerLevel(k) /\ NewerAbove(k)
  BY Zenon DEF KeyInv, MergeInv
<1>2. \A it \in pq : DOMAIN it.rest \subseteq Nat /\ DOMAIN it.rest # {}
  BY KeysAreNat, Zenon DEF LInv, Types
<1>3. k \in DOMAIN top.rest /\ k \in Nat /\ \A j \in Pending : k <= j
  BY FirstIsLeast, Zenon DEF LInv
<1>4. PICK f \in InputsWith(k) : top.level = f[1] /\ top.seq = f[2].seq /\ top.rest[k] = f[2].entries[k]
  BY <1>1, <1>3, Zenon DEF Unmerged
<1>5. /\ TopLevel \in Nat \ {0} /\ source_level \in Levels /\ target_level \in Levels /\ Levels = 0..TopLevel
      /\ \A t \in levels[0] : t.seq \in Nat
  BY LsmTreeAssumption, SMTT(20) DEF Levels, LInv, Types, IsTab, target_level
<1>6. \A g \in InputsWith(k) : g[1] \in Levels /\ g[2] \in levels[g[1]] /\ k \in KeysOf(g[2])
  BY <1>1, <1>5, Zenon DEF InputsApart, InputsWith
<1>7. ASSUME NEW g \in InputsWith(k)
      PROVE  g[2].entries[k] = f[2].entries[k] \/ Age(g[2].entries[k]) < Age(f[2].entries[k])
  <2>1. PICK it \in pq : it.level = g[1] /\ it.seq = g[2].seq /\ k \in DOMAIN it.rest
    BY <1>1, Zenon DEF Unmerged
  <2>2. Min(DOMAIN it.rest) = k
    <3>1. Min(DOMAIN it.rest) \in DOMAIN it.rest /\ Min(DOMAIN it.rest) <= k
      BY <1>2, <2>1, MinIs, Zenon
    <3>2. Min(DOMAIN it.rest) \in Pending /\ Min(DOMAIN it.rest) \in Nat
      BY <1>2, <3>1, Zenon DEF Pending
    <3> QED
      BY <1>3, <3>1, <3>2
  <2>3. f[1] < g[1] \/ (f[1] = g[1] /\ f[2].seq >= g[2].seq)
    BY <1>3, <1>4, <2>1, <2>2, SMTT(20) DEF Before
  <2>4. CASE f[1] < g[1]
    <3>1. Age(f[2].entries[k]) > Age(g[2].entries[k])
      BY <1>1, <1>6, <2>4, Zenon DEF NewerAbove
    <3>2. Age(f[2].entries[k]) \in Int /\ Age(g[2].entries[k]) \in Int
      BY <1>6, SMTT(20) DEF KeyInv, EntryTypes, Age
    <3> QED
      BY <3>1, <3>2, Zenon
  <2>5. CASE f[1] = g[1] /\ f[1] # 0
    BY <1>1, <1>5, <1>6, <2>5, SMTT(20) DEF OnePerLevel
  <2>6. CASE f[1] = 0 /\ g[1] = 0
    <3>1. f[2] \in levels[0] /\ g[2] \in levels[0] /\ k \in KeysOf(f[2]) /\ k \in KeysOf(g[2])
      BY <1>6, <2>6, Zenon
    <3>2. ~(f[2].seq < g[2].seq)
      BY <1>5, <2>3, <2>6, <3>1
    <3> QED
      BY <1>1, <3>1, <3>2, Zenon DEF OnePerLevel
  <2> QED
    BY <2>3, <2>4, <2>5, <2>6, Zenon
<1> QED
  BY <1>4, <1>7, Zenon DEF Best

(* A turn of the merge loop: the newest entry of the least key is kept, or *)
(* dropped as a tombstone at the last level, and older ones are dropped.   *)
LEMMA MergeStepKey ==
    ASSUME Extremes, LInv, MergeStep, NEW k \in Keys, KeyInv(k)
    PROVE  KeyInv(k)'
<1> DEFINE first(it) == \A other \in pq : Before(it, other)
           top == CHOOSE it \in pq : first(it)
           m == Min(DOMAIN top.rest)
           left == Without(top, m)
           drop == m = last_key \/ (is_tombstone(top.rest[m]) /\ target_level = TopLevel)
<1>1. /\ pc = "merge" /\ pq # {} /\ last_key' = m
      /\ pq' = (pq \ {top}) \cup {it \in {left} : DOMAIN it.rest # {}}
      /\ chunk' = IF drop THEN chunk
                  ELSE [j \in DOMAIN chunk \cup {m} |-> IF j = m THEN top.rest[m] ELSE chunk[j]]
      /\ UNCHANGED <<levels, next_file, flushes, written, passed_over, pc, source_level, inputs, outputs>>
  BY Zenon DEF MergeStep, MergeStepBody
<1>2. top \in pq /\ first(top)
  <2>1. \E it \in pq : first(it)
    BY <1>1, FirstExists, Zenon DEF LInv
  <2> QED
    BY <2>1, Zenon
<1>3. m \in DOMAIN top.rest /\ m \in Nat /\ \A j \in Pending : m <= j
  BY <1>2, FirstIsLeast, Zenon DEF LInv
<1>4. /\ left.level = top.level /\ left.seq = top.seq
      /\ DOMAIN left.rest = DOMAIN top.rest \ {m}
      /\ \A j \in DOMAIN top.rest \ {m} : left.rest[j] = top.rest[j]
  BY <1>2, WithoutIs, SMTT(20) DEF LInv, Types
<1>5. k \in Nat /\ last_key \in Nat /\ last_key <= m
  <2>1. m \in Pending
    BY <1>2, <1>3, Zenon DEF Pending
  <2> QED
    BY <2>1, KeysAreNat, Zenon DEF LInv, Types, MergeOrder
<1>6. last_key < k /\ m = k => \E f \in InputsWith(k) : f[2].entries[k] = top.rest[k] /\ Best(k, top.rest[k])
  BY <1>1, <1>2, TopIsBest, Zenon
<1> HIDE DEF top, m, left, drop
<1>7. InputsWith(k)' = InputsWith(k) /\ (\A e : Best(k, e)' <=> Best(k, e)) /\ target_level' = target_level
  BY <1>1, Zenon DEF InputsWith, Best, KeysOf, Age, target_level
<1>8. EntryTypes(k)' /\ OnePerLevel(k)' /\ NewerAbove(k)' /\ NewestKept(k)'
  BY <1>1, Zenon DEF KeyInv, EntryTypes, OnePerLevel, NewerAbove, NewestKept, Age, KeysOf
<1>9. InputsApart(k)'
  BY <1>1, <1>7, Zenon DEF KeyInv, MergeInv, InputsApart, Rest, Age, KeysOf
<1>10. ASSUME m < k
       PROVE  Unmerged(k)'
  <2>1. Unmerged(k)
    BY <1>1, <1>3, <1>5, <1>10 DEF KeyInv, MergeInv
  <2>2. ASSUME NEW f \in InputsWith(k)
        PROVE  \E it \in pq' : /\ it.level = f[1] /\ it.seq = f[2].seq
                               /\ k \in DOMAIN it.rest /\ it.rest[k] = f[2].entries[k]
    <3>1. PICK it \in pq : /\ it.level = f[1] /\ it.seq = f[2].seq
                           /\ k \in DOMAIN it.rest /\ it.rest[k] = f[2].entries[k]
      BY <2>1, Zenon DEF Unmerged
    <3>2. CASE it = top
      <4>1. /\ left.level = f[1] /\ left.seq = f[2].seq
            /\ k \in DOMAIN left.rest /\ left.rest[k] = f[2].entries[k]
        BY <1>3, <1>4, <1>5, <1>10, <3>1, <3>2
      <4> QED
        BY <1>1, <4>1, Zenon
    <3>3. CASE it # top
      BY <1>1, <3>1, <3>3, Zenon
    <3> QED
      BY <3>2, <3>3, Zenon
  <2>3. ASSUME NEW it \in pq', k \in DOMAIN it.rest
        PROVE  \E f \in InputsWith(k) : it.level = f[1] /\ it.seq = f[2].seq /\ it.rest[k] = f[2].entries[k]
    <3>1. CASE it \in pq
      BY <2>1, <2>3, <3>1, Zenon DEF Unmerged
    <3>2. CASE it = left
      <4>1. k \in DOMAIN top.rest /\ top.rest[k] = left.rest[k]
        BY <1>4, <2>3, <3>2, Zenon
      <4> QED
        BY <1>2, <1>4, <2>1, <3>2, <4>1 DEF Unmerged
    <3> QED
      BY <1>1, <2>3, <3>1, <3>2, Zenon
  <2> QED
    BY <1>7, <2>2, <2>3, SMTT(20) DEF Unmerged
<1>11. ASSUME k <= last_key
       PROVE  Merged(k)'
  <2>1. Merged(k)
    BY <1>1, <1>5, <1>11 DEF KeyInv, MergeInv
  <2>2. (k \in DOMAIN chunk' <=> k \in DOMAIN chunk) /\ (k \in DOMAIN chunk => chunk'[k] = chunk[k])
    <3>1. CASE k = m
      BY <1>1, <1>3, <1>5, <1>11, <3>1 DEF drop
    <3>2. CASE k # m /\ k \in DOMAIN chunk
      BY <1>1, <3>2, Zenon
    <3>3. CASE k # m /\ k \notin DOMAIN chunk
      BY <1>1, <2>1, <3>3, Zenon
    <3> QED
      BY <3>1, <3>2, <3>3, Zenon
  <2> QED
    BY <1>1, <1>7, <2>1, <2>2, Zenon DEF Merged, KeysOf
<1>12. ASSUME last_key < k, k <= m
       PROVE  Merged(k)'
  <2>1. Unmerged(k)
    BY <1>1, <1>12, Zenon DEF KeyInv, MergeInv
  <2>2. k \notin DOMAIN chunk /\ \A t \in outputs : k \notin KeysOf(t)
    BY <1>5, <1>12 DEF LInv, MergeOrder
  <2>3. CASE k < m
    <3>1. InputsWith(k) = {}
      <4>1. SUFFICES ASSUME NEW f \in InputsWith(k)
                     PROVE  FALSE
        OBVIOUS
      <4>2. k \in Pending
        BY <2>1, Zenon DEF Unmerged, Pending
      <4> QED
        BY <1>3, <1>5, <2>3, <4>2
    <3>2. k \notin DOMAIN chunk'
      BY <1>1, <1>3, <1>5, <2>2, <2>3
    <3> QED
      BY <1>1, <1>7, <2>2, <3>1, <3>2, Zenon DEF Merged, KeysOf
  <2>4. CASE k = m
    <3>1. PICK f \in InputsWith(k) : f[2].entries[k] = top.rest[k] /\ Best(k, top.rest[k])
      BY <1>6, <1>12, <2>4, Zenon
    <3>2. CASE drop
      <4>1. target_level = TopLevel /\ f[2].entries[k] < 0 /\ Best(k, f[2].entries[k])
        BY <1>5, <1>12, <2>4, <3>1, <3>2 DEF drop, is_tombstone
      <4>2. chunk' = chunk
        BY <1>1, <3>2, Zenon
      <4> QED
        BY <1>1, <1>7, <2>2, <4>1, <4>2, Zenon DEF Merged, KeysOf
    <3>3. CASE ~drop
      <4>1. k \in DOMAIN chunk' /\ chunk'[k] = top.rest[k]
        BY <1>1, <2>4, <3>3, Zenon
      <4> QED
        BY <1>1, <1>7, <2>2, <3>1, <4>1, Zenon DEF Merged, KeysOf
    <3> QED
      BY <3>2, <3>3, Zenon
  <2> QED
    BY <1>3, <1>5, <1>12, <2>3, <2>4
<1>13. MergeInv(k)'
  BY <1>1, <1>3, <1>5, <1>9, <1>10, <1>11, <1>12 DEF MergeInv
<1> QED
  BY <1>8, <1>13, Zenon DEF KeyInv

(* flush_chunk moves the entry from the chunk to an output.                *)
LEMMA FlushChunkKey ==
    ASSUME LInv, FlushChunk, NEW k \in Keys, KeyInv(k)
    PROVE  KeyInv(k)'
<1>1. PICK new : new = Table(next_file', chunk)
  OBVIOUS
<1>2. /\ pc = "merge" /\ outputs' = outputs \cup {new} /\ chunk' = NoEntries
      /\ UNCHANGED <<levels, flushes, written, passed_over, pc, source_level, inputs, pq, last_key>>
  BY <1>1, Zenon DEF FlushChunk
<1>3. KeysOf(new) = DOMAIN chunk /\ new.entries = chunk /\ DOMAIN chunk' = {}
  BY <1>1, <1>2, Zenon DEF KeysOf, Table, NoEntries
<1>4. InputsWith(k)' = InputsWith(k) /\ (\A e : Best(k, e)' <=> Best(k, e)) /\ target_level' = target_level
  BY <1>2, Zenon DEF InputsWith, Best, KeysOf, Age, target_level
<1>5. EntryTypes(k)' /\ OnePerLevel(k)' /\ NewerAbove(k)' /\ NewestKept(k)'
  BY <1>2, ZenonT(30) DEF KeyInv, EntryTypes, OnePerLevel, NewerAbove, NewestKept, Age, KeysOf
<1>6. InputsApart(k)'
  BY <1>2, <1>4, ZenonT(30) DEF KeyInv, MergeInv, InputsApart, Rest, Age, KeysOf
<1>7. Unmerged(k) => Unmerged(k)'
  BY <1>2, <1>4, SMTT(20) DEF Unmerged
<1>8. ASSUME Merged(k)
      PROVE  Merged(k)'
  <2>1. \A t \in outputs' : k \in KeysOf(t) => Best(k, t.entries[k])
    BY <1>2, <1>3, <1>8, Zenon DEF Merged
  <2>2. InputsWith(k) # {} =>
          \/ \E t \in outputs' : k \in KeysOf(t)
          \/ target_level = TopLevel /\ \E f \in InputsWith(k) : Best(k, f[2].entries[k]) /\ f[2].entries[k] < 0
    BY <1>2, <1>3, <1>8, Zenon DEF Merged
  <2> QED
    BY <1>3, <1>4, <2>1, <2>2, ZenonT(30) DEF Merged, KeysOf
<1>9. MergeInv(k)'
  BY <1>2, <1>6, <1>7, <1>8, Zenon DEF KeyInv, MergeInv
<1> QED
  BY <1>5, <1>9, Zenon DEF KeyInv

(* What an input has of a key is older than what is left above the target  *)
(* level, newer than all below it, and gone from the target level.         *)
LEMMA InputsBetween ==
    ASSUME LInv, pc = "merge", NEW k \in Keys, KeyInv(k), NEW f \in InputsWith(k)
    PROVE  /\ f[1] \in Levels /\ f[2] \in levels[f[1]] /\ k \in KeysOf(f[2])
           /\ \A i \in Levels : \A t \in Rest(i) : k \in KeysOf(t) =>
                 /\ i # target_level
                 /\ i < target_level => Age(t.entries[k]) > Age(f[2].entries[k])
                 /\ i > target_level => Age(f[2].entries[k]) > Age(t.entries[k])
<1>1. InputsApart(k) /\ NewerAbove(k)
  BY Zenon DEF KeyInv, MergeInv
<1>2. /\ TopLevel \in Nat \ {0} /\ Levels = 0..TopLevel /\ source_level \in Nat
      /\ source_level \in Levels /\ target_level \in Levels /\ target_level = source_level + 1
  BY LsmTreeAssumption DEF Levels, LInv, Types, target_level
<1>3. f[1] \in {source_level, target_level} /\ f[1] \in Levels /\ f[2] \in levels[f[1]] /\ k \in KeysOf(f[2])
  BY <1>1, <1>2, Zenon DEF InputsApart, InputsWith
<1>4. ASSUME NEW i \in Levels, NEW t \in Rest(i), k \in KeysOf(t)
      PROVE  /\ i # target_level
             /\ i < target_level => Age(t.entries[k]) > Age(f[2].entries[k])
             /\ i > target_level => Age(f[2].entries[k]) > Age(t.entries[k])
  <2>1. i # target_level
    BY <1>1, <1>4, Zenon DEF InputsApart
  <2>2. t \in levels[i]
    BY <1>4, Zenon DEF Rest
  <2>3. ASSUME i < target_level
        PROVE  Age(t.entries[k]) > Age(f[2].entries[k])
    <3>1. CASE i < f[1]
      BY <1>1, <1>3, <1>4, <2>2, <3>1, Zenon DEF NewerAbove
    <3>2. CASE i = source_level /\ f[1] = source_level
      BY <1>1, <1>4, <3>2, Zenon DEF InputsApart
    <3> QED
      BY <1>2, <1>3, <2>3, <3>1, <3>2
  <2>4. ASSUME i > target_level
        PROVE  Age(f[2].entries[k]) > Age(t.entries[k])
    <3>1. f[1] < i
      BY <1>2, <1>3, <2>4
    <3> QED
      BY <1>1, <1>3, <1>4, <2>2, <3>1, Zenon DEF NewerAbove
  <2> QED
    BY <2>1, <2>3, <2>4, Zenon
<1> QED
  BY <1>3, <1>4, Zenon

(* Install: the outputs take the place of the inputs of a key, and if none *)
(* does then a tombstone went that hid nothing any more.                   *)
LEMMA InstallKey ==
    ASSUME LInv, Install, NEW k \in Keys, KeyInv(k)
    PROVE  KeyInv(k)'
<1> DEFINE Aged(e) == e \in Int /\ Age(e) <= Age(written[k])
<1>1. /\ pc = "merge" /\ pq = {} /\ chunk = NoEntries /\ pc' = "idle"
      /\ levels' = [i \in Levels |-> Rest(i) \cup (IF i = target_level THEN outputs ELSE {})]
      /\ UNCHANGED <<flushes, written>>
  BY Zenon DEF Install, Rest
<1>2. /\ TopLevel \in Nat \ {0} /\ Levels = 0..TopLevel /\ source_level \in Nat
      /\ target_level \in 1..TopLevel /\ target_level \in Levels
  BY <1>1, LsmTreeAssumption DEF Levels, LInv, Types, target_level
<1>3. \A i \in Levels : levels'[i] = Rest(i) \cup (IF i = target_level THEN outputs ELSE {})
  BY <1>1, Zenon
<1>4. \A i \in Levels : Rest(i) \subseteq levels[i] /\ Rest(i) \subseteq levels'[i]
  BY <1>3, Zenon DEF Rest
<1>5. \A i \in Levels : \A t \in levels'[i] : t \in Rest(i) \/ (i = target_level /\ t \in outputs)
  BY <1>3, Zenon
<1>6. outputs \subseteq levels'[target_level]
  BY <1>2, <1>3, Zenon
<1>7. k \in Nat /\ last_key \in Nat /\ DOMAIN chunk = {}
  BY <1>1, KeysAreNat, Zenon DEF LInv, Types, NoEntries
<1>8. ASSUME NEW t \in outputs, k \in KeysOf(t)
      PROVE  Best(k, t.entries[k])
  <2>1. k <= last_key
    BY <1>8, Zenon DEF LInv, MergeOrder
  <2>2. Merged(k)
    BY <1>1, <1>7, <2>1 DEF KeyInv, MergeInv
  <2> QED
    BY <1>8, <2>2, Zenon DEF Merged
<1>9. ASSUME InputsWith(k) # {}
      PROVE  \/ \E t \in outputs : k \in KeysOf(t)
             \/ target_level = TopLevel /\ \E f \in InputsWith(k) : Best(k, f[2].entries[k]) /\ f[2].entries[k] < 0
  <2>1. ~Unmerged(k)
    BY <1>1, <1>9, Zenon DEF Unmerged
  <2>2. Merged(k)
    BY <1>1, <2>1, Zenon DEF KeyInv, MergeInv
  <2> QED
    BY <1>7, <1>9, <2>2, Zenon DEF Merged
<1>10. \A t, u \in outputs : k \in KeysOf(t) \cap KeysOf(u) => t = u
  BY <1>7 DEF LInv, MergeOrder, Apart, Below
<1>11. \A f \in InputsWith(k) : Aged(f[2].entries[k])
  BY <1>1, InputsBetween, ZenonT(30) DEF KeyInv, EntryTypes
<1>12. \A t \in outputs : k \in KeysOf(t) => \E f \in InputsWith(k) : f[2].entries[k] = t.entries[k]
  BY <1>8, Zenon DEF Best
<1>13. ASSUME NEW t \in outputs, k \in KeysOf(t)
       PROVE  /\ Aged(t.entries[k])
              /\ \A i \in Levels : \A u \in Rest(i) : k \in KeysOf(u) =>
                    /\ i # target_level
                    /\ i < target_level => Age(u.entries[k]) > Age(t.entries[k])
                    /\ i > target_level => Age(t.entries[k]) > Age(u.entries[k])
  <2>1. PICK f \in InputsWith(k) : f[2].entries[k] = t.entries[k]
    BY <1>12, <1>13, Zenon
  <2> QED
    BY <1>1, <1>11, <2>1, InputsBetween, Zenon
<1>14. EntryTypes(k)'
  <2>1. ASSUME NEW i \in Levels, NEW t \in levels'[i], k \in KeysOf(t)
        PROVE  Aged(t.entries[k])
    <3>1. CASE t \in Rest(i)
      BY <1>4, <2>1, <3>1, Zenon DEF KeyInv, EntryTypes
    <3>2. CASE t \in outputs
      BY <1>13, <2>1, <3>2, Zenon
    <3> QED
      BY <1>5, <2>1, <3>1, <3>2, Zenon
  <2> QED
    BY <1>1, <2>1, Zenon DEF KeyInv, EntryTypes, Age, KeysOf
<1>15. OnePerLevel(k)'
  <2>1. 0 \in Levels /\ 0 # target_level /\ levels'[0] \subseteq levels[0]
    BY <1>2, <1>4, <1>5, SMTT(20)
  <2>2. ASSUME NEW i \in 1..TopLevel, NEW t \in levels'[i], NEW u \in levels'[i], k \in KeysOf(t), k \in KeysOf(u)
        PROVE  t = u
    <3>1. i \in Levels
      BY <1>2
    <3>2. CASE t \in Rest(i) /\ u \in Rest(i)
      BY <1>4, <2>2, <3>1, <3>2, Zenon DEF KeyInv, OnePerLevel
    <3>3. CASE t \in outputs /\ u \in outputs
      BY <1>10, <2>2, <3>3, Zenon
    <3>4. ~(i = target_level /\ t \in Rest(i) /\ u \in outputs) /\ ~(i = target_level /\ u \in Rest(i) /\ t \in outputs)
      BY <1>13, <2>2, <3>1, Zenon
    <3> QED
      BY <1>5, <2>2, <3>1, <3>2, <3>3, <3>4, Zenon
  <2> QED
    BY <2>1, <2>2, ZenonT(30) DEF KeyInv, OnePerLevel, Age, KeysOf
<1>16. NewerAbove(k)'
  <2> SUFFICES ASSUME NEW i \in Levels, NEW j \in Levels, NEW t \in levels'[i], NEW u \in levels'[j],
                      i < j, k \in KeysOf(t), k \in KeysOf(u)
               PROVE  Age(t.entries[k]) > Age(u.entries[k])
    BY Zenon DEF NewerAbove, Age, KeysOf
  <2>1. CASE t \in Rest(i) /\ u \in Rest(j)
    BY <1>4, <2>1, Zenon DEF KeyInv, NewerAbove
  <2>2. CASE t \in Rest(i) /\ j = target_level /\ u \in outputs
    BY <1>13, <2>2, Zenon
  <2>3. CASE i = target_level /\ t \in outputs /\ u \in Rest(j)
    <3>1. j > target_level
      BY <1>2, <2>3, Zenon
    <3> QED
      BY <1>13, <2>3, <3>1, Zenon
  <2> QED
    BY <1>2, <1>5, <2>1, <2>2, <2>3
<1>17. NewestKept(k)'
  <2>1. CASE \A i \in Levels : \A t \in levels[i] : k \notin KeysOf(t)
    <3>1. written[k] <= 0
      BY <2>1, Zenon DEF KeyInv, NewestKept
    <3>2. InputsWith(k) = {}
      BY <1>1, <2>1, InputsBetween, Zenon
    <3>3. \A i \in Levels : \A t \in levels'[i] : k \notin KeysOf(t)
      BY <1>4, <1>5, <1>12, <2>1, <3>2, Zenon
    <3> QED
      BY <1>1, <3>1, <3>3, Zenon DEF NewestKept, KeysOf
  <2>2. ASSUME NEW i \in Levels, NEW t \in levels[i], k \in KeysOf(t), t.entries[k] = written[k]
        PROVE  NewestKept(k)'
    <3>1. CASE t \in Rest(i)
      BY <1>1, <1>4, <2>2, <3>1, Zenon DEF NewestKept, KeysOf
    <3>2. CASE t \notin Rest(i)
      <4>1. PICK f \in inputs : f[1] = i /\ f[2] = t
        BY <2>2, <3>2, Zenon DEF Rest
      <4>2. f \in InputsWith(k)
        BY <2>2, <4>1, Zenon DEF InputsWith
      <4>3. ASSUME NEW e, Best(k, e)
            PROVE  e = written[k]
        <5>1. Aged(e) /\ written[k] \in Int
          BY <1>11, <4>3, Zenon DEF Best, KeyInv, EntryTypes
        <5>2. written[k] = e \/ Age(written[k]) < Age(e)
          BY <2>2, <4>1, <4>2, <4>3, Zenon DEF Best
        <5> QED
          BY <5>1, <5>2 DEF Age
      <4>4. CASE \E u \in outputs : k \in KeysOf(u)
        <5>1. PICK u \in outputs : k \in KeysOf(u)
          BY <4>4, Zenon
        <5>2. u.entries[k] = written[k] /\ u \in levels'[target_level]
          BY <1>6, <1>8, <4>3, <5>1, ZenonT(30)
        <5> QED
          BY <1>1, <1>2, <5>1, <5>2, Zenon DEF NewestKept, KeysOf
      <4>5. CASE \A u \in outputs : k \notin KeysOf(u)
        <5>1. PICK g \in InputsWith(k) : Best(k, g[2].entries[k]) /\ g[2].entries[k] < 0 /\ target_level = TopLevel
          BY <1>9, <4>2, <4>5, Zenon
        <5>2. g[2].entries[k] = written[k] /\ written[k] \in Int
          BY <4>3, <5>1, ZenonT(30) DEF KeyInv, EntryTypes
        <5>3. ASSUME NEW j \in Levels, NEW u \in levels'[j], k \in KeysOf(u)
              PROVE  FALSE
          <6>1. u \in Rest(j) /\ u \in levels[j]
            BY <1>4, <1>5, <4>5, <5>3, Zenon
          <6>2. j < target_level /\ Age(u.entries[k]) > Age(written[k])
            BY <1>1, <1>2, <5>1, <5>2, <5>3, <6>1, InputsBetween, SMTT(20)
          <6>3. u.entries[k] \in Int /\ Age(u.entries[k]) <= Age(written[k])
            BY <5>3, <6>1, Zenon DEF KeyInv, EntryTypes
          <6> QED
            BY <5>2, <6>2, <6>3, SMTT(20) DEF Age
        <5> QED
          BY <1>1, <5>1, <5>2, <5>3, SMTT(20) DEF NewestKept, KeysOf
      <4> QED
        BY <4>4, <4>5, Zenon
    <3> QED
      BY <3>1, <3>2, Zenon
  <2> QED
    BY <2>1, <2>2, Zenon DEF KeyInv, NewestKept
<1>18. MergeInv(k)'
  BY <1>1, Zenon DEF MergeInv
<1> QED
  BY <1>14, <1>15, <1>16, <1>17, <1>18, Zenon DEF KeyInv

-----------------------------------------------------------------------------
(* get stops at the uppermost level that has the key, where the newest     *)
(* entry is.                                                               *)
LEMMA GetIsNewest ==
    ASSUME Extremes, LInv, NEW k \in Keys, KeyInv(k)
    PROVE  Found(k)
<1> DEFINE hits == {i \in Levels : Candidates(i, k) # {}}
<1>1. TopLevel \in Nat /\ Levels = 0..TopLevel
  BY LsmTreeAssumption, Zenon DEF Levels
<1>2. \A i \in Levels : Candidates(i, k) = {t \in levels[i] : k \in KeysOf(t)}
  BY Bounds, Zenon DEF Candidates, LInv, Types, IsTab
<1>3. CASE \A i \in Levels : \A t \in levels[i] : k \notin KeysOf(t)
  <2>1. hits = {}
    BY <1>2, <1>3, Zenon
  <2>2. get(k) = 0
    BY <2>1, Zenon DEF get
  <2>3. written[k] <= 0 /\ written[k] \in Int
    BY <1>3, Zenon DEF KeyInv, NewestKept, EntryTypes
  <2> QED
    BY <2>2, <2>3 DEF Found, is_tombstone
<1>4. ASSUME NEW i \in Levels, NEW t \in levels[i], k \in KeysOf(t), t.entries[k] = written[k]
      PROVE  get(k) = written[k]
  <2>1. i \in hits /\ hits \subseteq Nat /\ hits # {}
    BY <1>1, <1>2, <1>4
  <2>2. Min(hits) \in hits /\ Min(hits) <= i
    BY <2>1, MinIs, Zenon
  <2>3. \A u \in Candidates(Min(hits), k) :
            /\ u \in levels[Min(hits)] /\ k \in KeysOf(u) /\ u.entries[k] \in Int
            /\ Age(u.entries[k]) <= Age(written[k])
    BY <1>2, <2>2, Zenon DEF KeyInv, EntryTypes
  <2>4. written[k] \in Int
    BY Zenon DEF KeyInv, EntryTypes
  <2>5. Min(hits) = i
    <3>1. SUFFICES ASSUME Min(hits) < i
                   PROVE  FALSE
      BY <1>1, <2>2
    <3>2. PICK u \in Candidates(Min(hits), k) : TRUE
      BY <2>2, ZenonT(30)
    <3>3. Age(u.entries[k]) > Age(written[k])
      BY <1>4, <2>2, <2>3, <3>1, <3>2, Zenon DEF KeyInv, NewerAbove
    <3> QED
      BY <2>3, <2>4, <3>2, <3>3, SMTT(20) DEF Age
  <2>6. t \in Candidates(i, k)
    BY <1>2, <1>4, Zenon
  <2>7. \A u \in Candidates(i, k) : i # 0 => u = t
    BY <1>1, <1>4, <2>3, <2>5, SMTT(20) DEF KeyInv, OnePerLevel
  <2>8. \A u \in Candidates(i, k) : i = 0 => u = t \/ u.seq < t.seq
    <3> SUFFICES ASSUME NEW u \in Candidates(i, k), i = 0, u # t
                 PROVE  u.seq < t.seq
      OBVIOUS
    <3>1. u \in levels[0] /\ t \in levels[0] /\ k \in KeysOf(t) \cap KeysOf(u)
      BY <1>4, <2>3, <2>5, Zenon
    <3>2. ~(Age(t.entries[k]) < Age(u.entries[k]))
      BY <1>4, <2>3, <2>4, <2>5, SMTT(20) DEF Age
    <3> QED
      BY <3>1, <3>2, Zenon DEF KeyInv, OnePerLevel
  <2>9. First(i, Candidates(i, k)) = t
    <3> DEFINE leads(v) == \A u \in Candidates(i, k) : IF i = 0 THEN u.seq <= v.seq ELSE min_key(v) <= min_key(u)
    <3>1. \A u \in Candidates(i, k) : u.seq \in Nat /\ min_key(u) \in Nat
      <4>1. \A u \in levels[i] : KeysOf(u) \subseteq Keys /\ KeysOf(u) # {} /\ u.seq \in Nat
        BY SMTT(20) DEF LInv, Types, IsTab
      <4>2. \A u \in levels[i] : min_key(u) \in Nat
        BY <4>1, Bounds, Zenon
      <4> QED
        BY <2>3, <2>5, <4>1, <4>2, Zenon
    <3>2. leads(t)
      BY <2>6, <2>7, <2>8, <3>1
    <3>3. \A v \in Candidates(i, k) : leads(v) => v = t
      BY <2>6, <2>7, <2>8, <3>1, SMTT(20)
    <3>4. First(i, Candidates(i, k)) = CHOOSE v \in Candidates(i, k) : leads(v)
      BY Zenon DEF First
    <3> HIDE DEF leads
    <3> QED
      BY <2>6, <3>2, <3>3, <3>4, Zenon
  <2>10. get(k) = First(Min(hits), Candidates(Min(hits), k)).entries[k]
    BY <2>1, Zenon DEF get
  <2> QED
    BY <1>4, <2>5, <2>9, <2>10, Zenon
<1> QED
  BY <1>3, <1>4, Zenon DEF KeyInv, NewestKept, Found

(* Every spared key keeps the invariant.                                   *)
LEMMA StepKey ==
    ASSUME Extremes, LInv, [Next]_vars, \A k \in Spared : KeyInv(k)
    PROVE  (\A k \in Spared : KeyInv(k))'
<1>1. ASSUME NEW k \in Keys, k \notin passed_over'
      PROVE  KeyInv(k)'
  <2>1. k \in Spared
    <3>1. CASE Pick
      <4>1. passed_over \subseteq passed_over'
        BY <3>1, Zenon DEF Pick
      <4> QED
        BY <1>1, <4>1, Zenon DEF Spared
    <3>2. CASE ~Pick
      <4>1. passed_over' = passed_over
        BY <3>2, Zenon DEF Next, Flush, MergeStep, MergeStepBody, FlushChunk, Install, vars
      <4> QED
        BY <1>1, <4>1, Zenon DEF Spared
    <3> QED
      BY <3>1, <3>2, Zenon
  <2>2. KeyInv(k)
    BY <2>1, Zenon
  <2>3. CASE Flush
    BY <2>2, <2>3, FlushKey, Zenon
  <2>4. CASE Pick
    BY <1>1, <2>2, <2>4, PickKey, Zenon
  <2>5. CASE MergeStep
    BY <2>2, <2>5, MergeStepKey, Zenon
  <2>6. CASE FlushChunk
    BY <2>2, <2>6, FlushChunkKey, Zenon
  <2>7. CASE Install
    BY <2>2, <2>7, InstallKey, Zenon
  <2>8. CASE UNCHANGED vars
    <3>1. UNCHANGED <<levels, flushes, written, pc, source_level, inputs, pq, last_key, chunk, outputs>>
      BY <2>8, Zenon DEF vars, compaction
    <3>2. EntryTypes(k)' /\ OnePerLevel(k)' /\ NewerAbove(k)' /\ NewestKept(k)'
      BY <2>2, <3>1, ZenonT(30) DEF KeyInv, EntryTypes, OnePerLevel, NewerAbove, NewestKept, Age, KeysOf
    <3>3. MergeInv(k)'
      <4>1. InputsWith(k)' = InputsWith(k) /\ (\A e : Best(k, e)' <=> Best(k, e)) /\ target_level' = target_level
        BY <3>1, Zenon DEF InputsWith, Best, KeysOf, Age, target_level
      <4>2. InputsApart(k) => InputsApart(k)'
        BY <3>1, <4>1, ZenonT(30) DEF InputsApart, Rest, Age, KeysOf
      <4>3. (Unmerged(k) => Unmerged(k)') /\ (Merged(k) => Merged(k)')
        BY <3>1, <4>1, SMTT(20) DEF Unmerged, Merged, KeysOf
      <4> QED
        BY <2>2, <3>1, <4>2, <4>3, Zenon DEF KeyInv, MergeInv
    <3> QED
      BY <3>2, <3>3, Zenon DEF KeyInv
  <2> QED
    BY <2>3, <2>4, <2>5, <2>6, <2>7, <2>8, Zenon DEF Next
<1> QED
  BY <1>1, Zenon DEF Spared

-----------------------------------------------------------------------------
INSTANCE FiniteSetTheorems

(* A set of naturals has a least element.                                  *)
LEMMA LeastNat ==
    ASSUME NEW T, T \subseteq Nat, T # {}
    PROVE  \E x \in T : \A y \in T : x <= y
<1>1. IsWellFoundedOn(OpToRel(<,Nat), Nat)
  BY NatLessThanWellFounded, Zenon
<1>2. PICK x \in T : \A y \in T : ~ (<<y, x>> \in OpToRel(<,Nat))
  BY <1>1, WFMin, Zenon
<1>3. \A y \in T : ~(y < x)
  BY <1>2, Zenon DEF OpToRel
<1> QED
  BY <1>3

(* A finite set of naturals has a greatest element.                        *)
LEMMA GreatestNat ==
    ASSUME NEW S, S \subseteq Nat, IsFiniteSet(S), S # {}
    PROVE  \E x \in S : \A y \in S : y <= x
<1> DEFINE HasMax(U) == \E x \in U : \A y \in U : y <= x
           Sizes == {n \in Nat : \E U \in SUBSET Nat :
                        IsFiniteSet(U) /\ U # {} /\ Cardinality(U) = n /\ ~HasMax(U)}
<1>1. SUFFICES ASSUME Sizes # {}
               PROVE  FALSE
  <2>1. Cardinality(S) \in Nat
    BY FS_CardinalityType, Zenon
  <2> QED
    BY <2>1, Zenon
<1>2. PICK n \in Sizes : \A m \in Sizes : n <= m
  <2>1. Sizes \subseteq Nat
    OBVIOUS
  <2> QED
    BY <1>1, <2>1, LeastNat, Zenon
<1>3. PICK U \in SUBSET Nat : IsFiniteSet(U) /\ U # {} /\ Cardinality(U) = n /\ ~HasMax(U)
  BY <1>2, Zenon
<1>4. PICK u \in U : TRUE
  BY <1>3, Zenon
<1>5. IsFiniteSet(U \ {u}) /\ Cardinality(U \ {u}) = n - 1
  BY <1>3, <1>4, FS_RemoveElement, Zenon
<1>6. U \ {u} # {}
  <2>1. SUFFICES ASSUME U = {u}
                 PROVE  FALSE
    BY <1>4, Zenon
  <2>2. u \in Nat
    BY <1>4, Zenon
  <2> QED
    BY <1>3, <2>1, <2>2
<1>7. HasMax(U \ {u})
  <2>1. n - 1 \in Nat /\ n - 1 < n
    BY <1>2, <1>5, FS_CardinalityType
  <2>2. n - 1 \notin Sizes
    BY <1>2, <2>1
  <2> QED
    BY <1>5, <1>6, <2>1, <2>2, Zenon
<1>8. PICK x \in U \ {u} : \A y \in U \ {u} : y <= x
  BY <1>7, Zenon
<1>9. x \in Nat /\ u \in Nat /\ U \subseteq Nat
  BY <1>4, <1>8, Zenon
<1>10. HasMax(U)
  <2>1. CASE u <= x
    <3>1. \A y \in U : y <= x
      BY <1>8, <2>1, Zenon
    <3> QED
      BY <1>8, <3>1, Zenon
  <2>2. CASE x <= u
    <3>1. \A y \in U : y <= u
      BY <1>8, <1>9, <2>2
    <3> QED
      BY <1>4, <3>1, Zenon
  <2> QED
    BY <1>9, <2>1, <2>2
<1> QED
  BY <1>3, <1>10, Zenon

(* So the hypothesis of the lemmas holds.                                  *)
LEMMA ExtremesExist == Extremes
<1>1. \A S \in SUBSET Nat : S # {} => \E x \in S : \A y \in S : x <= y
  BY LeastNat, Zenon
<1>2. \A S \in SUBSET Keys : S # {} => \E x \in S : \A y \in S : y <= x
  <2>1. ASSUME NEW S \in SUBSET Keys, S # {}
        PROVE  \E x \in S : \A y \in S : y <= x
    <3>1. S \subseteq Nat /\ IsFiniteSet(S)
      BY LsmTreeAssumption, FS_Subset, Zenon
    <3> QED
      BY <2>1, <3>1, GreatestNat, Zenon
  <2> QED
    BY <2>1, Zenon
<1>3. Cardinality({}) = 0
  BY FS_EmptySet, Zenon
<1> QED
  BY <1>1, <1>2, <1>3, Zenon DEF Extremes

(* Below level 0 the files of a level have disjoint key ranges whatever is *)
(* flushed while a compaction runs, for any keys, number of levels and     *)
(* trigger, as long as run_compaction can open its inputs.                 *)
THEOREM LevelsNeverOverlap == Spec => []LevelsDisjoint
<1>1. LInv => LevelsDisjoint
  <2> SUFFICES ASSUME LInv, passed_over = {},
                      NEW i \in 1..TopLevel, NEW t \in levels[i], NEW u \in levels[i], t # u
               PROVE  max_key(t) < min_key(u) \/ max_key(u) < min_key(t)
    BY Zenon DEF LevelsDisjoint, Disjoint
  <2>1. i \in Levels
    BY LsmTreeAssumption DEF Levels
  <2>2. /\ KeysOf(t) \subseteq Keys /\ KeysOf(t) # {}
        /\ KeysOf(u) \subseteq Keys /\ KeysOf(u) # {}
    BY <2>1, Zenon DEF LInv, Types, IsTab
  <2>3. Apart(t, u)
    BY Zenon DEF LInv, AllApart
  <2> QED
    BY <2>2, <2>3, ApartIsDisjoint, ExtremesExist, Zenon
<1>2. LInv /\ [Next]_vars => LInv'
  BY StepLInv, ExtremesExist, Zenon
<1> QED
  BY <1>1, <1>2, InitLInv, PTL DEF Spec

(* The invariant of the keys, with that of the levels it rests on.         *)
LEMMA KeysKeepOrder == Spec => [](LInv /\ \A k \in Spared : KeyInv(k))
<1>1. Init => LInv /\ \A k \in Spared : KeyInv(k)
  BY InitLInv, InitKey, Zenon DEF Spared
<1>2. LInv /\ (\A k \in Spared : KeyInv(k)) /\ [Next]_vars => LInv' /\ (\A k \in Spared : KeyInv(k))'
  BY StepLInv, StepKey, ExtremesExist, Zenon
<1> QED
  BY <1>1, <1>2, PTL DEF Spec

(* An upper level never holds an older entry of a key than a lower one,    *)
(* for any keys, levels, trigger, flushes and compactions, whatever files  *)
(* run_compaction fails to open (the keys of those excepted).              *)
THEOREM UpperLevelsAreNewer == Spec => []UpperIsNewer
<1>1. (\A k \in Spared : KeyInv(k)) => UpperIsNewer
  BY Zenon DEF UpperIsNewer, KeyInv, NewerAbove
<1> QED
  BY <1>1, KeysKeepOrder, PTL

(* AccretionDB::get on the tables returns the newest entry flushed for a   *)
(* key, or nothing if that is a tombstone, between any two steps of flushes*)
(* and compactions.                                                        *)
THEOREM GetReturnsNewest == Spec => []GetFindsNewest
<1>1. LInv /\ (\A k \in Spared : KeyInv(k)) => GetFindsNewest
  BY GetIsNewest, ExtremesExist, Zenon DEF GetFindsNewest, Spared
<1> QED
  BY <1>1, KeysKeepOrder, PTL
=============================================================================
