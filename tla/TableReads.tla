----------------------------- MODULE TableReads -----------------------------
(***************************************************************************)
(* Threads that get from and scan SSTables at the same time, through the   *)
(* two caches they share: table_cache_, of loaded readers, and a shard of  *)
(* the block cache.  Each looks up, goes to the disk without a lock when   *)
(* it missed, and inserts what it read.                                    *)
(*                                                                         *)
(* A version pins the tables, so their files stay (VersionSet).  The code  *)
(* has two builds: on Windows a reader maps its file, on POSIX it reads.   *)
(***************************************************************************)
EXTENDS SSTable, BlockCache

CONSTANTS
    Builds,        \* the builds: whether files are mapped (Windows) or read (POSIX)
    TableKeys,     \* table |-> the sets of keys it may hold
    BlockLimits,   \* the values block_limit may have (4096 in the code)
    Threads,
    CacheBytes,    \* capacity of the shard
    MaxReaders,    \* readers kept in table_cache_ (100)
    MaxOps         \* bound: gets and scans

ASSUME TableReadsAssumption ==
    /\ Builds \subseteq BOOLEAN
    /\ CacheBytes \in Nat /\ MaxReaders \in Nat \ {0} /\ MaxOps \in Nat

Tables == DOMAIN TableKeys

VARIABLES
    mapped,        \* the build that runs
    keys,          \* table |-> the keys that were written to it
    files,         \* table |-> its file
    table_cache,   \* table_cache_order_; table_cache_: table |-> whether its filter was read
    block_cache,
    op,            \* thread |-> its get or scan in progress
    ops            \* how many were begun

vars == <<mapped, keys, files, table_cache, block_cache, op, ops>>

NoOp == [pc |-> "idle", scan |-> FALSE, table |-> 0, key |-> <<>>, block |-> 0, seeking |-> FALSE,
         result |-> NotFound, out |-> <<>>, failed |-> FALSE]

Init ==
    /\ mapped \in Builds
    /\ keys \in {k \in [Tables -> UNION Range(TableKeys)] : \A t \in Tables : k[t] \in TableKeys[t]}
    /\ \E limit \in BlockLimits : files = [t \in Tables |-> write(keys[t], limit)]
    /\ table_cache = [order |-> <<>>, map |-> <<>>]
    /\ block_cache = EmptyCache
    /\ op = [t \in Threads |-> NoOp] /\ ops = 0

Become(t, s) == op' = [op EXCEPT ![t] = s]

Begin(t) ==
    /\ op[t].pc = "idle" /\ ops < MaxOps
    /\ \E table \in Tables, key \in Keys, scan \in BOOLEAN :
          Become(t, [NoOp EXCEPT !.pc = "open", !.table = table, !.key = key, !.scan = scan])
    /\ ops' = ops + 1
    /\ UNCHANGED <<mapped, keys, files, table_cache, block_cache>>

-----------------------------------------------------------------------------
(* With its reader, a get finds the block to read, if any; an iterator     *)
(* starts at the first block.                                              *)
Opened(s, filter) ==
    LET block == BlockOf(load(files[s.table], mapped, filter), s.key)
    IN  IF s.scan THEN [s EXCEPT !.pc = "block", !.block = 1]
        ELSE IF block = 0 THEN [s EXCEPT !.pc = "returned"]
        ELSE [s EXCEPT !.pc = "block", !.block = block]

(* get_sstable_reader: look up under table_cache_mutex_.                   *)
FindReader(t) ==
    /\ op[t].pc = "open"
    /\ IF op[t].table \in DOMAIN table_cache.map
       THEN /\ table_cache' = [table_cache EXCEPT !.order = MoveToFront(@, op[t].table)]
            /\ Become(t, Opened(op[t], table_cache.map[op[t].table]))
       ELSE /\ Become(t, [op[t] EXCEPT !.pc = "load"])
            /\ UNCHANGED table_cache
    /\ UNCHANGED <<mapped, keys, files, block_cache, ops>>

Inserted(table, filter) ==
    LET order == <<table>> \o table_cache.order
        map == [t \in DOMAIN table_cache.map \cup {table} |-> IF t = table THEN filter ELSE table_cache.map[t]]
    IN  IF Cardinality(DOMAIN map) > MaxReaders
        THEN [order |-> Front(order), map |-> [t \in DOMAIN map \ {Last(order)} |-> map[t]]]
        ELSE [order |-> order, map |-> map]

(* It is loaded, with its filter or without, and looked up again: insert   *)
(* it, or use the one that another thread has inserted meanwhile.          *)
LoadReader(t) ==
    /\ op[t].pc = "load"
    /\ IF op[t].table \in DOMAIN table_cache.map
       THEN /\ table_cache' = [table_cache EXCEPT !.order = MoveToFront(@, op[t].table)]
            /\ Become(t, Opened(op[t], table_cache.map[op[t].table]))
       ELSE \E filter \in (IF mapped THEN {FALSE} ELSE BOOLEAN) :
               /\ table_cache' = Inserted(op[t].table, filter)
               /\ Become(t, Opened(op[t], filter))
    /\ UNCHANGED <<mapped, keys, files, block_cache, ops>>

(* It cannot be loaded: the callers go on as if the table were not there.  *)
LoadFails(t) ==
    /\ op[t].pc = "load"
    /\ Become(t, [op[t] EXCEPT !.pc = "returned", !.failed = TRUE])
    /\ UNCHANGED <<mapped, keys, files, table_cache, block_cache, ops>>

-----------------------------------------------------------------------------
IndexEntry(s) == files[s.table].index[s.block]

CacheKey(s) == <<s.table, IndexEntry(s).offset>>

(* With its block, a get is done.  An iterator that has been constructed   *)
(* seeks; after that it goes on to the next block.                         *)
Use(s, b) ==
    IF ~s.scan THEN [s EXCEPT !.pc = "returned", !.result = SearchBlock(b, s.key)]
    ELSE IF ~s.seeking
    THEN [s EXCEPT !.pc = "block", !.seeking = TRUE, !.block = SeekBlock(files[s.table].index, s.key)]
    ELSE LET out == s.out \o FromBlock(b, s.key, s.out # <<>>)
         IN  IF s.block < Len(files[s.table].index)
             THEN [s EXCEPT !.pc = "block", !.block = @ + 1, !.out = out]
             ELSE [s EXCEPT !.pc = "returned", !.out = out]

(* The block cache, which a get from a mapped file does not use.           *)
FindBlock(t) ==
    /\ op[t].pc = "block" /\ (op[t].scan \/ ~mapped)
    /\ LET key == CacheKey(op[t])
       IN  IF Cached(block_cache, key)
           THEN /\ block_cache' = Touch(block_cache, key)
                /\ Become(t, Use(op[t], block_cache.map[key]))
           ELSE /\ Become(t, [op[t] EXCEPT !.pc = "fill"])
                /\ UNCHANGED block_cache
    /\ UNCHANGED <<mapped, keys, files, table_cache, ops>>

ReadMapped(t) ==
    /\ op[t].pc = "block" /\ ~op[t].scan /\ mapped
    /\ Become(t, Use(op[t], ReadBlock(files[op[t].table], IndexEntry(op[t]))))
    /\ UNCHANGED <<mapped, keys, files, table_cache, block_cache, ops>>

(* The block is read from the file and put into the cache, where another   *)
(* thread may have put it meanwhile.                                       *)
FillBlock(t) ==
    /\ op[t].pc = "fill"
    /\ LET block == ReadBlock(files[op[t].table], IndexEntry(op[t]))
       IN  /\ block_cache' = PutBlock(block_cache, CacheKey(op[t]), block, CacheBytes)
           /\ Become(t, Use(op[t], block))
    /\ UNCHANGED <<mapped, keys, files, table_cache, ops>>

(* It cannot be read: a get returns false, an iterator throws.             *)
ReadFails(t) ==
    /\ op[t].pc = "fill" /\ ~mapped
    /\ Become(t, [op[t] EXCEPT !.pc = "returned", !.failed = TRUE])
    /\ UNCHANGED <<mapped, keys, files, table_cache, block_cache, ops>>

Return(t) ==
    /\ op[t].pc = "returned"
    /\ Become(t, NoOp)
    /\ UNCHANGED <<mapped, keys, files, table_cache, block_cache, ops>>

Next ==
    \E t \in Threads :
        \/ Begin(t) \/ FindReader(t) \/ LoadReader(t) \/ LoadFails(t)
        \/ FindBlock(t) \/ ReadMapped(t) \/ FillBlock(t) \/ ReadFails(t) \/ Return(t)

Spec == Init /\ [][Next]_vars

-----------------------------------------------------------------------------
(* Every variable has its type.                                            *)
TypeOK ==
    /\ mapped \in BOOLEAN
    /\ \A t \in Tables : keys[t] \subseteq Keys
    /\ DOMAIN table_cache.map \subseteq Tables
    /\ DOMAIN block_cache.map \subseteq Tables \X Nat
    /\ ops \in 0..MaxOps
    /\ \A t \in Threads : op[t].pc \in {"idle", "open", "load", "block", "fill", "returned"}

(* What was written to a table, in order.                                  *)
Written(t) == Entries(keys[t])

(* A get finds the key in its table exactly if it was written to it, with  *)
(* its pointer: through the filter, the index, the restarts and shared     *)
(* prefixes, and a block that may have come from the cache.  What it could *)
(* not read it reports as absent.                                          *)
GetExact ==
    \A t \in Threads :
        op[t].pc = "returned" /\ ~op[t].scan /\ ~op[t].failed =>
            op[t].result = LET at == {i \in DOMAIN Written(op[t].table) : Written(op[t].table)[i].key = op[t].key}
                           IN  IF at = {} THEN NotFound ELSE Written(op[t].table)[Max(at)].pointer

(* A scan returns what was written from its start key on, in order, each   *)
(* entry once, across block boundaries.                                    *)
ScanExact ==
    \A t \in Threads :
        op[t].pc = "returned" /\ op[t].scan /\ ~op[t].failed =>
            op[t].out = SelectSeq(Written(op[t].table), LAMBDA e : ~Less(e.key, op[t].key))

(* However two threads miss the same block, the shard holds the blocks of  *)
(* its keys, counts the bytes it holds, and holds no more than it may.     *)
BlocksAccounted ==
    /\ Range(block_cache.list) = DOMAIN block_cache.map
    /\ \A i, j \in DOMAIN block_cache.list : block_cache.list[i] = block_cache.list[j] => i = j
    /\ \A k \in DOMAIN block_cache.map : block_cache.map[k] \in Range(files[k[1]].blocks)
    /\ block_cache.size = MapThenSumSet(LAMBDA k : block_cache.map[k].length, DOMAIN block_cache.map)
    /\ block_cache.size <= CacheBytes

(* However two threads load the same table, the order of use has each      *)
(* reader once, so that what is evicted is the one used longest ago.       *)
ReadersAccounted ==
    /\ Range(table_cache.order) = DOMAIN table_cache.map
    /\ Len(table_cache.order) = Cardinality(DOMAIN table_cache.map)
    /\ Cardinality(DOMAIN table_cache.map) <= MaxReaders

(* Both caches keep their books whatever threads miss, load and evict at   *)
(* the same time (BlockCache::put, get_sstable_reader).                    *)
CachesAccounted == BlocksAccounted /\ ReadersAccounted
=============================================================================
