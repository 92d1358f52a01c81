------------------------------ MODULE Memtable ------------------------------
(***************************************************************************)
(* A memtable: ConcurrentSkipList over its Arena.  One put at a time, since *)
(* batches are written under commit_mutex_, links its node level by level  *)
(* while gets and iterators, which take no lock, follow the same pointers  *)
(* one load at a time.                                                     *)
(*                                                                         *)
(* A key has one node, so a node is named by its key.                      *)
(***************************************************************************)
EXTENDS Arena, FiniteSets

CONSTANTS
    N,             \* the keys are 1..N, in their order
    Readers,
    K_MAX_HEIGHT,  \* 12 in the code
    NodeBytes,     \* sizeof(Node), with one pointer
    PointerBytes,  \* each further pointer
    KeyBytes,      \* key |-> its length
    MaxPuts        \* bound: puts

Keys == 1..N
head == 0
nullptr == N + 1
Nodes == 0..nullptr
Levels == 0..(K_MAX_HEIGHT - 1)

ASSUME MemtableAssumption ==
    /\ {N, K_MAX_HEIGHT, NodeBytes} \subseteq Nat \ {0} /\ {MaxPuts, PointerBytes} \subseteq Nat
    /\ KeyBytes \in [Keys -> Nat]

VARIABLES
    next,        \* node |-> level |-> following node
    height,      \* node |-> how many levels it is allocated for, 0 for none
    value,       \* node |-> the pointer stored in it, numbered by put
    max_height,
    arena,
    region,      \* node |-> where the arena put it
    put,         \* the put in progress
    puts,        \* puts begun
    acked,       \* history: newest put returned for each key
    read         \* reader |-> its get or scan in progress

list == <<next, height, value, max_height, arena, region>>
vars == <<list, put, puts, acked, read>>

NoPut == [pc |-> "idle", key |-> 0, prev |-> [l \in Levels |-> head], level |-> 0]
NoRead == [pc |-> "idle", scan |-> FALSE, key |-> 0, x |-> head, level |-> 0,
           node |-> nullptr, result |-> 0, seen |-> {}, visited |-> {}]
NoRegion == [block |-> 0, at |-> 0, size |-> 0]

node_size(k, h) == NodeBytes + (h - 1) * PointerBytes + (IF k = head THEN 0 ELSE KeyBytes[k])

allocate_node(a, k, h) == allocate(a, node_size(k, h))

(* What the arena returned, as a region.                                   *)
RegionOf(c) == [block |-> c.block, at |-> c.at, size |-> c.size]

Init ==
    LET c == allocate_node(NewArena, head, K_MAX_HEIGHT)
    IN  /\ next = [n \in Nodes |-> [l \in Levels |-> nullptr]]
        /\ height = [n \in Nodes |-> IF n = head THEN K_MAX_HEIGHT ELSE 0]
        /\ value = [n \in Nodes |-> 0]
        /\ max_height = 1
        /\ arena = c.arena
        /\ region = [n \in Nodes |-> IF n = head THEN RegionOf(c) ELSE NoRegion]
        /\ put = NoPut /\ puts = 0 /\ acked = [k \in Keys |-> 0]
        /\ read = [r \in Readers |-> NoRead]

(* The heights it may return.                                              *)
random_height == 1..K_MAX_HEIGHT

key_is_after_node(k, n) == n # nullptr /\ n < k

(* find_greater_or_equal with prev, under write_lock_: nobody else stores. *)
(* On one level, from a node to the last one before k.                     *)
LastOn(k, l) ==
    LET last[n \in Nodes] == IF key_is_after_node(k, next[n][l]) THEN last[next[n][l]] ELSE n
    IN  last

(* Level by level from the top; head_ on the levels that no node has yet.  *)
Prev(k) ==
    LET prev[l \in Levels] ==
            IF l >= max_height THEN head
            ELSE LastOn(k, l)[IF l = K_MAX_HEIGHT - 1 THEN head ELSE prev[l + 1]]
    IN  [l \in Levels |-> prev[l]]

(* The keys a reader can reach: what the list holds.                       *)
Linked(k) == \E n \in Nodes : next[n][0] = k /\ height[n] > 0
Stored == [k \in Keys |-> IF Linked(k) THEN value[k] ELSE 0]

(* What the list has to hold of a key: the newest put that returned or,    *)
(* while one is in progress, what its readers can reach.                   *)
Owed(k) == IF put.key = k THEN Stored[k] ELSE acked[k]

(* What each get in progress could return so far.                          *)
Witness(k, v) ==
    read' = [r \in Readers |->
                IF read[r].pc # "idle" /\ ~read[r].scan /\ read[r].key = k
                THEN [read[r] EXCEPT !.seen = @ \cup {v}] ELSE read[r]]

-----------------------------------------------------------------------------
(* Mutated PutFound: the node is taken out and linked again.               *)
PutFoundRelinks(k) ==
    /\ put.pc = "idle" /\ puts < MaxPuts
    /\ next[Prev(k)[0]][0] = k
    /\ puts' = puts + 1
    /\ value' = [value EXCEPT ![k] = puts']
    /\ next' = [next EXCEPT ![Prev(k)[0]][0] = next[k][0]]
    /\ put' = [pc |-> "next", key |-> k, prev |-> Prev(k), level |-> 0]
    /\ UNCHANGED <<height, max_height, arena, region, acked, read>>

(* put of a key the list holds: its pointer is replaced in place.          *)
PutFound(k) ==
    /\ put.pc = "idle" /\ puts < MaxPuts
    /\ next[Prev(k)[0]][0] = k
    /\ puts' = puts + 1
    /\ value' = [value EXCEPT ![k] = puts']
    /\ acked' = [acked EXCEPT ![k] = puts']
    /\ Witness(k, puts')
    /\ UNCHANGED <<next, height, max_height, arena, region, put>>

(* put of a new key: choose a height, raise max_height_, allocate the node.*)
PutNew(k) ==
    /\ put.pc = "idle" /\ puts < MaxPuts
    /\ next[Prev(k)[0]][0] # k
    /\ puts' = puts + 1
    /\ \E h \in random_height :
          LET c == allocate_node(arena, k, h)
          IN  /\ max_height' = IF h > max_height THEN h ELSE max_height
              /\ arena' = c.arena
              /\ region' = [region EXCEPT ![k] = RegionOf(c)]
              /\ height' = [height EXCEPT ![k] = h]
    /\ value' = [value EXCEPT ![k] = puts']
    /\ put' = [pc |-> "next", key |-> k, prev |-> Prev(k), level |-> 0]
    /\ UNCHANGED <<next, acked, read>>

(* Mutated LinkNext: every level follows the lowest one.                   *)
LinkNextLowest ==
    /\ put.pc = "next"
    /\ next' = [next EXCEPT ![put.key][put.level] = next[put.prev[0]][0]]
    /\ put' = [put EXCEPT !.pc = "publish"]
    /\ UNCHANGED <<height, value, max_height, arena, region, puts, acked, read>>

(* One level: the new node's pointer first, then the one that leads to it. *)
LinkNext ==
    /\ put.pc = "next"
    /\ next' = [next EXCEPT ![put.key][put.level] = next[put.prev[put.level]][put.level]]
    /\ put' = [put EXCEPT !.pc = "publish"]
    /\ UNCHANGED <<height, value, max_height, arena, region, puts, acked, read>>

Linkage ==
    next' = [next EXCEPT ![put.prev[put.level]][put.level] = put.key]

LinkPublish ==
    /\ put.pc = "publish"
    /\ Linkage
    /\ IF put.level + 1 < height[put.key]
       THEN put' = [put EXCEPT !.pc = "next", !.level = @ + 1] /\ UNCHANGED acked
       ELSE put' = NoPut /\ acked' = [acked EXCEPT ![put.key] = value[put.key]]
    /\ IF put.level = 0 THEN Witness(put.key, value[put.key]) ELSE UNCHANGED read
    /\ UNCHANGED <<height, value, max_height, arena, region, puts>>

-----------------------------------------------------------------------------
Become(r, s) == read' = [read EXCEPT ![r] = s] /\ UNCHANGED <<list, put, puts, acked>>

(* get, or an iterator's seek.  max_height_ is stored relaxed, so that an  *)
(* older, lower one may be read.                                           *)
Seek(r) ==
    /\ read[r].pc = "idle"
    /\ \E k \in Keys, scan \in BOOLEAN, level \in 0..(max_height - 1) :
          Become(r, [NoRead EXCEPT !.pc = "search", !.scan = scan, !.key = k, !.level = level,
                        !.seen = IF scan THEN {j \in Keys : j >= k /\ Owed(j) # 0} ELSE {Owed(k)}])

(* Iterator(list): seek_to_first.                                          *)
SeekToFirst(r) ==
    /\ read[r].pc = "idle"
    /\ Become(r, [NoRead EXCEPT !.pc = "at", !.scan = TRUE, !.node = next[head][0],
                     !.seen = {j \in Keys : Owed(j) # 0}])

(* Mutated Search: null ends it on any level.                              *)
SearchGivesUp(r) ==
    LET s == read[r]
        n == next[s.x][s.level]
    IN  /\ s.pc = "search"
        /\ Become(r, IF key_is_after_node(s.key, n) THEN [s EXCEPT !.x = n]
                     ELSE IF s.level > 0 /\ n # nullptr THEN [s EXCEPT !.level = @ - 1]
                     ELSE [s EXCEPT !.node = n,
                              !.pc = IF s.scan THEN "at" ELSE IF n = s.key THEN "value" ELSE "returned"])

(* One load of find_greater_or_equal.                                      *)
Search(r) ==
    LET s == read[r]
        n == next[s.x][s.level]
    IN  /\ s.pc = "search"
        /\ Become(r, IF key_is_after_node(s.key, n) THEN [s EXCEPT !.x = n]
                     ELSE IF s.level > 0 THEN [s EXCEPT !.level = @ - 1]
                     ELSE [s EXCEPT !.node = n,
                              !.pc = IF s.scan THEN "at" ELSE IF n = s.key THEN "value" ELSE "returned"])

GetValue(r) ==
    /\ read[r].pc = "value"
    /\ Become(r, [read[r] EXCEPT !.pc = "returned", !.result = value[read[r].node]])

(* Mutated IteratorNext: along the highest level of the node.              *)
IteratorNextHighest(r) ==
    LET s == read[r]
    IN  /\ s.pc = "at"
        /\ Become(r, IF s.node = nullptr THEN [s EXCEPT !.pc = "returned"]
                     ELSE [s EXCEPT !.visited = @ \cup {s.node}, !.node = next[s.node][height[s.node] - 1]])

(* The entry under the iterator is taken, and next().                      *)
IteratorNext(r) ==
    LET s == read[r]
    IN  /\ s.pc = "at"
        /\ Become(r, IF s.node = nullptr THEN [s EXCEPT !.pc = "returned"]
                     ELSE [s EXCEPT !.visited = @ \cup {s.node}, !.node = next[s.node][0]])

ReadReturn(r) ==
    /\ read[r].pc = "returned"
    /\ Become(r, NoRead)

Next ==
    \/ \E k \in Keys : PutFound(k) \/ PutNew(k)
    \/ LinkNext \/ LinkPublish
    \/ \E r \in Readers : \/ Seek(r) \/ SeekToFirst(r) \/ Search(r)
                          \/ GetValue(r) \/ IteratorNext(r) \/ ReadReturn(r)

Spec == Init /\ [][Next]_vars

-----------------------------------------------------------------------------
(* Every variable has its type.                                            *)
TypeOK ==
    /\ next \in [Nodes -> [Levels -> Nodes]]
    /\ height \in [Nodes -> 0..K_MAX_HEIGHT] /\ max_height \in 1..K_MAX_HEIGHT
    /\ value \in [Nodes -> 0..MaxPuts] /\ acked \in [Keys -> 0..MaxPuts] /\ puts \in 0..MaxPuts
    /\ put.pc \in {"idle", "next", "publish"} /\ put.key \in 0..N /\ put.level \in Levels
    /\ \A r \in Readers : /\ read[r].pc \in {"idle", "search", "value", "at", "returned"}
                          /\ read[r].x \in 0..N /\ read[r].level \in Levels /\ read[r].node \in Nodes

OnLevel(n, l) == n = head \/ (n # nullptr /\ \E m \in Nodes : height[m] > l /\ next[m][l] = n)

(* At every moment of a put, each level is in key order, and what is on it *)
(* has that height and is on the level below: a search that steps down     *)
(* never lands on a node the lower level does not lead on from.            *)
LevelsNest ==
    \A l \in Levels : \A n \in Nodes :
        OnLevel(n, l) =>
            /\ height[n] > l
            /\ n < next[n][l]
            /\ l > 0 => OnLevel(n, l - 1)

(* A get returns a value its key had between its call and its return, put  *)
(* in progress or not, and no older one than the last put that returned    *)
(* before it: it never misses a key that is in the list because it came    *)
(* down from a level on which a new node is linked or is not yet.          *)
GetIsLinearizable ==
    \A r \in Readers : read[r].pc = "returned" /\ ~read[r].scan => read[r].result \in read[r].seen

(* An iterator goes through its keys in order and returns every key that   *)
(* was put before it began, whatever is inserted around it meanwhile.      *)
ScanIsComplete ==
    \A r \in Readers :
        read[r].scan =>
            /\ \A k \in read[r].visited : k < read[r].node /\ k >= read[r].key
            /\ read[r].pc = "returned" => read[r].seen \subseteq read[r].visited

Overlap(a, b) == a.block = b.block /\ a.at < b.at + b.size /\ b.at < a.at + a.size

(* No two nodes share a byte, and each lies inside its block, whether it   *)
(* fitted the current one, started a new one or got one of its own.        *)
NodesDisjoint ==
    \A n \in Nodes : height[n] > 0 =>
        /\ region[n].at + region[n].size <= arena.blocks[region[n].block].size
        /\ node_size(n, height[n]) <= region[n].size
        /\ \A m \in Nodes : height[m] > 0 /\ m # n => ~Overlap(region[n], region[m])

(* The list is a map in which a put takes effect at one instant: when the  *)
(* lowest level is published, or the value replaced.                       *)
Map == INSTANCE KVMap WITH store <- Stored
ActsAsMap == Map!MapSpec
=============================================================================
