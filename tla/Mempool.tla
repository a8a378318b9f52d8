------------------------------ MODULE Mempool ------------------------------
(***************************************************************************)
(* The memory pool of src/src/utils/asm/asm_mempool.c as http.c uses it: a *)
(* manager with one pool per block type, each pool with a free list for    *)
(* every type, and requests that take a few blocks and give them back.     *)
(*                                                                         *)
(* A block is given out by the pool of its type, but mempool_check_block   *)
(* knows no pool: the first one claims every block, so mempool_manager_free *)
(* returns all of them to the first pool.  Its usage, an unsigned counter,  *)
(* goes below zero by what the other pools' go too high.                   *)
(*                                                                         *)
(* Both builds are modelled.  On aarch64 a block that is given out again   *)
(* is cleared after the unlock, by its size and from behind its header; as *)
(* the blocks of a mapping are only their size apart, the header included, *)
(* exactly the header of the block above is wiped: its link, its size and  *)
(* its magic number.  Above the last block lies other memory of the        *)
(* process, none, or another mapping.  Elsewhere nothing is cleared.       *)
(*                                                                         *)
(* What a request stores in a block is taken to fit behind its header.     *)
(***************************************************************************)
EXTENDS Integers, Sequences, FiniteSets, FiniteSetsExt

CONSTANTS Types,      \* the block types, 1 .. 4 for the four sizes
          Preblocks,  \* blocks carved out of the mapping of each free list
          HeapBlocks, \* the blocks aligned_alloc may return, by type
          Requests,   \* the requests that run at the same time
          Slots,      \* blocks a request needs before it is served; 3
          GcThreshold,
          Wrap        \* 2^64, the modulus of the counters

ASSUME MempoolAssumption ==
  /\ Types \subseteq Nat \ {0} /\ 1 \in Types /\ IsFiniteSet(Types)
  /\ {Preblocks, Slots, GcThreshold} \subseteq Nat
  /\ Wrap \in Nat \ {0}

VARIABLES
  free,        \* pools[p]->free_blocks[t], the latest first
  usage,       \* pools[p]->stats.current_usage
  total_freed, \* of the first pool, up to the first value above GcThreshold
  heap,        \* the blocks aligned_alloc has not given out
  request,     \* [pc, held, want]: the blocks of each request
  process,     \* "runs", "exited" or "aborted"
  aarch64,     \* the build
  zeroed,      \* blocks whose size was wiped
  broken       \* those of them whose magic number was not written since

headers == <<aarch64, zeroed, broken>>
poolVars == <<free, usage, total_freed, heap, request, process, headers>>

First == 1
Small == 1             \* the type of the smallest blocks, and of those of size 0
BlockSize(b) == b[2]   \* of type t; sizes differ between types, t stands for it
Size(b) == IF b \in zeroed THEN 0 ELSE BlockSize(b)
TypeOf(b) == IF b \in zeroed THEN Small ELSE b[2]
Prealloc(p, t) == {<<"map", t, p, i>> : i \in 1 .. Preblocks}
Mapped(b) == b[1] = "map"
Heap == {<<"heap", t, 0, i>> : t \in Types, i \in HeapBlocks}
Null == <<"null", 0, 0, 0>>

Held == (UNION {{request[r].held[i] : i \in DOMAIN request[r].held} : r \in Requests}) \ {Null}
Listed(p, t) == {free[p][t][i] : i \in DOMAIN free[p][t]}
Add(p, n) == usage' = [usage EXCEPT ![p] = (@ + n) % Wrap]

\* mempool_create_with_config and mempool_prealloc link every block of a mapping
PoolInit ==
  /\ free = [p \in Types |-> [t \in Types |->
               [i \in 1 .. Preblocks |-> <<"map", t, p, Preblocks + 1 - i>>]]]
  /\ usage = [p \in Types |-> 0]
  /\ total_freed = 0
  /\ heap = Heap
  /\ request = [r \in Requests |-> [pc |-> "idle", held |-> <<>>, want |-> 1]]
  /\ process = "runs"
  /\ aarch64 \in BOOLEAN
  /\ zeroed = {} /\ broken = {}

Take(r, b, pc) == request' = [request EXCEPT ![r].held = Append(@, b), ![r].pc = pc]

\* Mutant: the block that is given out stays at the head of its list
AllocHitKeepsHead(r, t) ==
  /\ process = "runs" /\ request[r].pc = "parse" /\ Len(request[r].held) < Slots
  /\ free[t][t] # <<>>
  /\ Add(t, Size(Head(free[t][t])))
  /\ Take(r, Head(free[t][t]), IF aarch64 THEN "clear" ELSE "parse")
  /\ broken' = broken \ {Head(free[t][t])}
  /\ UNCHANGED <<free, total_freed, heap, process, aarch64, zeroed>>

\* mempool_manager_alloc asks the pool of the type; mempool_alloc_asm finds a
\* block in its list and writes its magic number
AllocHit(r, t) ==
  /\ process = "runs" /\ request[r].pc = "parse" /\ Len(request[r].held) < Slots
  /\ free[t][t] # <<>>
  /\ free' = [free EXCEPT ![t][t] = Tail(@)]
  /\ Add(t, Size(Head(free[t][t])))
  /\ Take(r, Head(free[t][t]), IF aarch64 THEN "clear" ELSE "parse")
  /\ broken' = broken \ {Head(free[t][t])}
  /\ UNCHANGED <<total_freed, heap, process, aarch64, zeroed>>

\* The headers that may lie behind a block: of the block above it, or of the
\* lowest one of a mapping that follows
Above(b) == IF b[4] < Preblocks THEN {[b EXCEPT ![4] = @ + 1]}
            ELSE {<<"map", t, p, 1>> : t \in Types, p \in Types} \ {[b EXCEPT ![4] = 1]}

\* What a list is when the link of b in it is wiped
CutBehind(s, b) == IF \E i \in DOMAIN s : s[i] = b
                   THEN SubSeq(s, 1, CHOOSE i \in DOMAIN s : s[i] = b) ELSE s

\* On aarch64 the block is cleared after the unlock, by the size it has then
ClearBlock(r) ==
  LET b == request[r].held[Len(request[r].held)] IN
  /\ process = "runs" /\ request[r].pc = "clear"
  /\ request' = [request EXCEPT ![r].pc = "parse"]
  /\ \/ /\ b \notin zeroed
        /\ \E x \in Above(b) :
             /\ zeroed' = zeroed \cup {x}
             /\ broken' = broken \cup {x}
             /\ free' = [p \in Types |-> [t \in Types |-> CutBehind(free[p][t], x)]]
        /\ UNCHANGED process
     \/ /\ b \notin zeroed => b[4] = Preblocks
        /\ process' \in IF b \in zeroed THEN {"runs"} ELSE {"runs", "aborted"}
        /\ UNCHANGED <<free, zeroed, broken>>
  /\ UNCHANGED <<usage, total_freed, heap, aarch64>>

\* The list is empty: the lock is released while the block is allocated
AllocMisses(r, t) ==
  /\ process = "runs" /\ request[r].pc = "parse" /\ Len(request[r].held) < Slots
  /\ free[t][t] = <<>>
  /\ request' = [request EXCEPT ![r].pc = "allocate", ![r].want = t]
  /\ UNCHANGED <<free, usage, total_freed, heap, process, headers>>

\* Mutant: the usage is counted for blocks out of the list only
AllocNewUncounted(r) ==
  /\ process = "runs" /\ request[r].pc = "allocate" /\ ~aarch64
  /\ \E b \in heap :
       /\ b[2] = request[r].want
       /\ heap' = heap \ {b}
       /\ Take(r, b, "parse")
  /\ UNCHANGED <<usage, free, total_freed, process, headers>>

AllocNew(r) ==
  /\ process = "runs" /\ request[r].pc = "allocate" /\ ~aarch64
  /\ \E b \in heap :
       /\ b[2] = request[r].want
       /\ heap' = heap \ {b}
       /\ Take(r, b, "parse")
  /\ Add(request[r].want, request[r].want)
  /\ UNCHANGED <<free, total_freed, process, headers>>

AllocFails(r) ==
  /\ process = "runs" /\ request[r].pc = "allocate" /\ ~aarch64
  /\ \A b \in heap : b[2] # request[r].want
  /\ Take(r, Null, "parse")
  /\ UNCHANGED <<free, usage, total_freed, heap, process, headers>>

\* The arguments of mmap are in the wrong registers on aarch64: the call is
\* refused, and its error number is taken for the address of the block
AllocFaults(r) ==
  /\ process = "runs" /\ request[r].pc = "allocate" /\ aarch64
  /\ process' = "aborted"
  /\ UNCHANGED <<free, usage, total_freed, heap, request, headers>>

\* parse_http_request_optimized: the blocks are asked for one after the other
\* and looked at together; with one missing, the others are given back
ParseBegins(r) ==
  /\ process = "runs" /\ request[r].pc = "idle"
  /\ request' = [request EXCEPT ![r] = [pc |-> "parse", held |-> <<>>, want |-> 1]]
  /\ UNCHANGED <<free, usage, total_freed, heap, process, headers>>

ParseDone(r) ==
  /\ process = "runs" /\ request[r].pc = "parse" /\ Len(request[r].held) = Slots
  /\ request' = [request EXCEPT ![r].pc = "cleanup"]
  /\ UNCHANGED <<free, usage, total_freed, heap, process, headers>>

\* mempool_manager_free for the first block the request still holds: it goes
\* to the first pool, whose counters it changes, into the list its size tells.
\* A block without its magic number is nobody's: it is given to free(), which
\* aborts, as it was not malloc that returned the address
FreeBlock(r) ==
  LET b == Head(request[r].held) IN
  /\ process = "runs" /\ request[r].pc = "cleanup" /\ request[r].held # <<>>
  /\ \/ /\ b = Null
        /\ request' = [request EXCEPT ![r].held = Tail(@)]
        /\ UNCHANGED <<free, usage, total_freed, process>>
     \/ /\ b # Null /\ b \in broken
        /\ process' = "aborted"
        /\ UNCHANGED <<free, usage, total_freed, request>>
     \/ /\ b # Null /\ b \notin broken
        /\ free' = [free EXCEPT ![First][TypeOf(b)] = <<b>> \o @]
        /\ Add(First, - Size(b))
        /\ total_freed' = Min({total_freed + Size(b), GcThreshold + 1})
        /\ request' = [request EXCEPT ![r].held = Tail(@), ![r].pc = "freed"]
        /\ UNCHANGED process
  /\ UNCHANGED <<heap, headers>>

\* total_freed is read after the unlock; a collection runs at most once a second
NoCollection(r) ==
  /\ process = "runs" /\ request[r].pc = "freed"
  /\ request' = [request EXCEPT ![r].pc = "cleanup"]
  /\ UNCHANGED <<free, usage, total_freed, heap, process, headers>>

\* The blocks mempool_gc releases of a list: the first half, rounded up
Released(s) == {s[i] : i \in 1 .. Len(s) - Len(s) \div 2}
Collected == UNION {Released(free[First][t]) : t \in Types}

\* Every block with its magic number is given to free(), also one that was cut
\* out of a mapping: the C library aborts on it
mempool_gc(r) ==
  /\ process = "runs" /\ request[r].pc = "freed" /\ total_freed > GcThreshold
  /\ IF \E b \in Collected \ broken : Mapped(b)
     THEN /\ process' = "aborted"
          /\ UNCHANGED <<free, heap, request>>
     ELSE /\ free' = [free EXCEPT ![First] = [t \in Types |->
                        LET s == free[First][t]
                        IN SubSeq(s, Len(s) - Len(s) \div 2 + 1, Len(s))]]
          /\ heap' = heap \cup (Collected \ broken)
          /\ request' = [request EXCEPT ![r].pc = "cleanup"]
          /\ UNCHANGED process
  /\ UNCHANGED <<usage, total_freed, headers>>

RequestDone(r) ==
  /\ process = "runs" /\ request[r].pc = "cleanup" /\ request[r].held = <<>>
  /\ request' = [request EXCEPT ![r].pc = "idle"]
  /\ UNCHANGED <<free, usage, total_freed, heap, process, headers>>

\* mempool_manager_destroy, at exit: every mapping is undone before the lists
\* are walked, so a list that reaches into one is a use of unmapped memory
mempool_manager_destroy ==
  /\ process = "runs" /\ \A r \in Requests : request[r].pc = "idle"
  /\ process' = IF \E p, t \in Types : \E b \in Listed(p, t) : Mapped(b)
                THEN "aborted" ELSE "exited"
  /\ UNCHANGED <<free, usage, total_freed, heap, request, headers>>

PoolNext ==
  \/ \E r \in Requests :
       \/ ParseBegins(r) \/ ParseDone(r) \/ RequestDone(r)
       \/ ClearBlock(r) \/ AllocNew(r) \/ AllocFails(r) \/ AllocFaults(r)
       \/ FreeBlock(r) \/ NoCollection(r) \/ mempool_gc(r)
       \/ \E t \in Types : AllocHit(r, t) \/ AllocMisses(r, t)
  \/ mempool_manager_destroy

PoolSpec == PoolInit /\ [][PoolNext]_poolVars

-----------------------------------------------------------------------------
\* A block is in one place at most: held by one request, or in one list, once,
\* or in the heap.  No interleaving of requests hands it out twice, although
\* blocks move from the pool that gave them out to the first one, change their
\* type when their size is wiped, and drop out of a list that is cut.
BlocksInOnePlace ==
  /\ \A r, q \in Requests : \A i \in DOMAIN request[r].held, j \in DOMAIN request[q].held :
       request[r].held[i] = request[q].held[j] /\ request[r].held[i] # Null => r = q /\ i = j
  /\ \A p, q, t, u \in Types : \A i \in DOMAIN free[p][t], j \in DOMAIN free[q][u] :
       free[p][t][i] = free[q][u][j] => p = q /\ t = u /\ i = j
  /\ \A p, t \in Types : Listed(p, t) \cap (Held \cup heap) = {}
  /\ Held \cap heap = {}

\* Every pool alone miscounts, but the counters of all pools together, modulo
\* their width, are the size of the blocks that the requests hold, up to the
\* first time the header of such a block is wiped by the clearing of another.
UsageBalanced ==
  Held \cap broken = {} =>
    SumFunction(usage) % Wrap = SumFunction([b \in Held |-> Size(b)]) % Wrap

\* Every block of a free list has the magic number of free blocks.
\* mempool_validate
ListsValid == \A p, t \in Types : Listed(p, t) \cap broken = {}
=============================================================================
