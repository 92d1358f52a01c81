------------------------------ MODULE LsmTree ------------------------------
(***************************************************************************)
(* The tables of the tree: what a flush adds, how run_compaction picks its *)
(* inputs, merges them and installs the result while flushes go on, and    *)
(* what get finds.                                                         *)
(*                                                                         *)
(* An entry is a number: n for a value written by the n-th flush, -n for a *)
(* tombstone.  Sizes are left out: a chunk may end after any entry and any *)
(* inner level may be over its limit.  Files are in VersionSet.            *)
(***************************************************************************)
EXTENDS Integers, FiniteSets, FiniteSetsExt

CONSTANTS
    Keys,       \* ordered by <
    TopLevel,   \* MAX_LEVELS - 1 (5 in the code)
    L0Trigger,  \* l0_compaction_trigger
    MaxFlushes, \* bound: flushes
    MaxEntries, \* bound: entries flushed
    MaxFailures \* bound: inputs that the first compaction to fail so cannot open

ASSUME LsmTreeAssumption ==
    /\ Keys \subseteq Nat \ {0} /\ IsFiniteSet(Keys)
    /\ TopLevel \in Nat \ {0}
    /\ L0Trigger \in Nat \ {0}
    /\ {MaxFlushes, MaxEntries, MaxFailures} \subseteq Nat

VARIABLES
    levels,         \* the current Version: files_[i] as a set of tables
    next_file,      \* next_file_number_
    flushes,        \* flushes so far
    flushed,        \* entries flushed so far
    written,        \* history: the newest entry flushed for each key
    passed_over,    \* history: keys of inputs that a compaction could not open
    pc,             \* where run_compaction is
    source_level,
    inputs,         \* the files its edit deletes: <<level, table>>
    pq,             \* the iterators: level, seq and the entries left
    last_key,       \* 0 before the first key
    chunk,          \* the entries of the output being collected
    outputs         \* the files its edit adds

compaction == <<pc, source_level, inputs, pq, last_key, chunk, outputs>>
vars == <<levels, next_file, flushes, flushed, written, passed_over, compaction>>

Levels == 0..TopLevel
NoEntries == [k \in {} |-> 0]
Table(seq, entries) == [seq |-> seq, entries |-> entries]
KeysOf(t) == DOMAIN t.entries
min_key(t) == Min(KeysOf(t))
max_key(t) == Max(KeysOf(t))
target_level == source_level + 1
is_tombstone(e) == e < 0

Init ==
    /\ levels = [i \in Levels |-> {}]
    /\ next_file = 1 /\ flushes = 0 /\ flushed = 0
    /\ written = [k \in Keys |-> 0] /\ passed_over = {}
    /\ pc = "idle" /\ source_level = 0 /\ inputs = {} /\ pq = {}
    /\ last_key = 0 /\ chunk = NoEntries /\ outputs = {}

(* flush_immutable: a memtable with some keys, some of them deleted,       *)
(* becomes the newest table of level 0.                                    *)
Flush ==
    /\ flushes < MaxFlushes
    /\ flushes' = flushes + 1
    /\ next_file' = next_file + 1
    /\ \E ks \in (SUBSET Keys) \ {{}} : \E dead \in SUBSET ks :
          /\ flushed' = flushed + Cardinality(ks)
          /\ flushed' <= MaxEntries
          /\ LET entries == [k \in ks |-> IF k \in dead THEN -flushes' ELSE flushes']
             IN  /\ levels' = [levels EXCEPT ![0] = @ \cup {Table(next_file', entries)}]
                 /\ written' = [k \in Keys |-> IF k \in ks THEN entries[k] ELSE written[k]]
    /\ UNCHANGED <<passed_over, compaction>>

-----------------------------------------------------------------------------
overlaps(t, low, high) == min_key(t) <= high /\ max_key(t) >= low

(* Mutated SourceInputs: only the newest file of level 0 is taken.         *)
SourceInputsNewest(i) ==
    IF i = 0 THEN {t \in levels[0] : \A u \in levels[0] : u.seq <= t.seq}
    ELSE {t \in levels[i] : \A u \in levels[i] : min_key(t) <= min_key(u)}

(* All of level 0, or the first file of an inner level.                    *)
SourceInputs(i) ==
    IF i = 0 THEN levels[0]
    ELSE {t \in levels[i] : \A u \in levels[i] : min_key(t) <= min_key(u)}

(* Mutated TargetInputs: only files that lie inside the range are taken.   *)
TargetInputsInside(i, src) ==
    LET low == Min({min_key(t) : t \in src})
        high == Max({max_key(t) : t \in src})
    IN  {t \in levels[i + 1] : min_key(t) >= low /\ max_key(t) <= high}

TargetInputs(i, src) ==
    LET low == Min({min_key(t) : t \in src})
        high == Max({max_key(t) : t \in src})
    IN  {t \in levels[i + 1] : overlaps(t, low, high)}

Over(i) == IF i = 0 THEN Cardinality(levels[0]) >= L0Trigger ELSE levels[i] # {}

(* get_sstable_reader is called twice for a file of the target level and   *)
(* once for the others.  A file of the target level that cannot be opened  *)
(* the first time is left where it is; one that cannot be opened for the   *)
(* merge is left out of it and deleted by the edit all the same.           *)
Pick ==
    /\ pc = "idle"
    /\ \E i \in 0..(TopLevel - 1) :
          /\ Over(i)
          /\ source_level' = i
          /\ LET src == SourceInputs(i)
                 files == ({i} \X src) \cup ({i + 1} \X TargetInputs(i, src))
             IN  \E unopened \in SUBSET files : \E unlisted \in SUBSET {f \in unopened : f[1] = i + 1} :
                    /\ unopened # {} => passed_over = {} /\ Cardinality(unopened) <= MaxFailures
                    /\ passed_over' = passed_over \cup UNION {KeysOf(f[2]) : f \in unopened}
                    /\ inputs' = files \ unlisted
                    /\ pq' = {[level |-> f[1], seq |-> f[2].seq, rest |-> f[2].entries] :
                                 f \in files \ unopened}
    /\ pc' = "merge"
    /\ UNCHANGED <<levels, next_file, flushes, flushed, written, last_key, chunk, outputs>>

(* CompareIter: by key, then the upper level, then the newer file.         *)
Before(a, b) ==
    LET ka == Min(DOMAIN a.rest)
        kb == Min(DOMAIN b.rest)
    IN  \/ ka < kb
        \/ ka = kb /\ a.level < b.level
        \/ ka = kb /\ a.level = b.level /\ a.seq >= b.seq

Without(it, k) == [it EXCEPT !.rest = [j \in DOMAIN it.rest \ {k} |-> it.rest[j]]]

(* One turn of the merge loop: the first entry of a key is kept, later     *)
(* ones are dropped, and so is a tombstone that reaches the last level.    *)
MergeStepBody(bottom) ==
    /\ pc = "merge" /\ pq # {}
    /\ LET top == CHOOSE it \in pq : \A other \in pq : Before(it, other)
           k == Min(DOMAIN top.rest)
           e == top.rest[k]
           left == Without(top, k)
           drop == k = last_key \/ (is_tombstone(e) /\ target_level = bottom)
       IN  /\ pq' = (pq \ {top}) \cup {it \in {left} : DOMAIN it.rest # {}}
           /\ last_key' = k
           /\ chunk' = IF drop THEN chunk
                       ELSE [j \in DOMAIN chunk \cup {k} |-> IF j = k THEN e ELSE chunk[j]]
    /\ UNCHANGED <<levels, next_file, flushes, flushed, written, passed_over, pc, source_level, inputs, outputs>>

(* Mutated MergeStep: tombstones are dropped one level too early.          *)
MergeStepDropsEarly == MergeStepBody(TopLevel - 1)

MergeStep == MergeStepBody(TopLevel)

(* flush_chunk: at the size limit, and once more after the loop.           *)
FlushChunk ==
    /\ pc = "merge" /\ chunk # NoEntries
    /\ next_file' = next_file + 1
    /\ outputs' = outputs \cup {Table(next_file', chunk)}
    /\ chunk' = NoEntries
    /\ UNCHANGED <<levels, flushes, flushed, written, passed_over, pc, source_level, inputs, pq, last_key>>

(* log_and_apply of the edit, to whatever version is current by now.       *)
Install ==
    /\ pc = "merge" /\ pq = {} /\ chunk = NoEntries
    /\ levels' = [i \in Levels |->
                     (levels[i] \ {f[2] : f \in {g \in inputs : g[1] = i}})
                     \cup (IF i = target_level THEN outputs ELSE {})]
    /\ pc' = "idle" /\ source_level' = 0 /\ inputs' = {} /\ last_key' = 0 /\ outputs' = {}
    /\ UNCHANGED <<next_file, flushes, flushed, written, passed_over, pq, chunk>>

Next == Flush \/ Pick \/ MergeStep \/ FlushChunk \/ Install

Spec == Init /\ [][Next]_vars

-----------------------------------------------------------------------------
(* get: level by level, level 0 newest first, the others by min_key; a     *)
(* file is opened only if the key is in its range, and the first hit ends  *)
(* the search.                                                             *)
Candidates(i, k) == {t \in levels[i] : min_key(t) <= k /\ k <= max_key(t) /\ k \in KeysOf(t)}

First(i, tables) ==
    CHOOSE t \in tables : \A u \in tables : IF i = 0 THEN u.seq <= t.seq ELSE min_key(t) <= min_key(u)

get(k) ==
    LET hits == {i \in Levels : Candidates(i, k) # {}}
        i == Min(hits)
    IN  IF hits = {} THEN 0 ELSE First(i, Candidates(i, k)).entries[k]

-----------------------------------------------------------------------------
Entries == [Keys -> -MaxFlushes..MaxFlushes]
IsTable(t) == t.seq \in 2..next_file /\ KeysOf(t) # {} /\ KeysOf(t) \subseteq Keys

(* The version holds well-formed tables at every level, and a running      *)
(* compaction has a level below its source.                                *)
TypeOK ==
    /\ DOMAIN levels = Levels /\ \A i \in Levels : \A t \in levels[i] : IsTable(t)
    /\ flushes \in 0..MaxFlushes /\ flushed \in 0..MaxEntries /\ next_file >= 1
    /\ written \in Entries
    /\ pc \in {"idle", "merge"} /\ source_level \in 0..(TopLevel - 1)
    /\ \A it \in pq : DOMAIN it.rest # {} /\ DOMAIN it.rest \subseteq Keys
    /\ DOMAIN chunk \subseteq Keys /\ last_key \in Keys \cup {0}
    /\ \A t \in outputs : IsTable(t)

Disjoint ==
    \A i \in 1..TopLevel : \A t, u \in levels[i] :
        t # u => max_key(t) < min_key(u) \/ max_key(u) < min_key(t)

(* Below level 0 the files of a level have disjoint key ranges, whatever   *)
(* is flushed while a compaction runs, as long as compactions can open     *)
(* their inputs.  get and the choice of the next inputs rely on it.        *)
LevelsDisjoint == passed_over = {} => Disjoint

Age(e) == IF e < 0 THEN -e ELSE e

(* The keys of tables that could be opened whenever they were merged.      *)
Spared == Keys \ passed_over

(* An upper level never holds an older entry of a key than a lower one,    *)
(* so a file that moves down never uncovers or overtakes another, next to  *)
(* a file that could not be opened either.                                 *)
UpperIsNewer ==
    \A i, j \in Levels : \A t \in levels[i], u \in levels[j] :
        i < j => \A k \in KeysOf(t) \cap KeysOf(u) \cap Spared : Age(t.entries[k]) > Age(u.entries[k])

Found(k) == get(k) = written[k] \/ (get(k) = 0 /\ is_tombstone(written[k]))

(* get returns the newest entry flushed.  A compaction may lose nothing    *)
(* but a tombstone with nothing left to hide, and when it fails to open an *)
(* input, no keys but those of that input.                                 *)
GetFindsNewest == \A k \in Spared : Found(k)

(* The same for every key, whatever could not be opened.                   *)
NothingLost == \A k \in Keys : Found(k)
=============================================================================
