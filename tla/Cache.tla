-------------------------------- MODULE Cache --------------------------------
(***************************************************************************)
(* The C cache, src/src/utils/cache.c: a hash table with chains, a doubly  *)
(* linked LRU list threaded through the same entries, counters, one mutex. *)
(*                                                                         *)
(* Entries are cells of a finite memory; calloc fails when none is left.   *)
(* A chain of the hash table (hash_next) is the sequence of its cells; the *)
(* LRU list is modelled link by link, since what its functions do to the   *)
(* links is what matters.  The mutex is the default one: a thread that     *)
(* locks it twice waits for itself.  Whether a hit answers with the        *)
(* content or with "not modified" (cache_get's conditional part) makes no  *)
(* difference to the cache and is left out, and so are the hit counters.   *)
(***************************************************************************)
EXTENDS Naturals, FiniteSets, SequencesExt

CONSTANTS
    Threads, Keys, Values,
    SizeOf,         \* content_length of each value
    Cells,          \* the entries memory has room for
    Buckets, Hash,  \* the slots of the hash table, the slot of each key
    MaxEntries, MaxSize, TTL,  \* config->max_entries, max_size, default_ttl
    Ops,            \* the functions the threads call
    Null

ASSUME CacheAssumption ==
    /\ SizeOf \in [Values -> Nat]
    /\ Hash \in [Keys -> Buckets] /\ IsFiniteSet(Buckets)
    /\ MaxEntries \in Nat /\ MaxSize \in Nat /\ TTL \in Nat \ {0}
    /\ Ops \subseteq {"get", "put", "remove", "clear", "cleanup"}
    /\ Null \notin Cells /\ Null \notin Threads

VARIABLES
    mutex,              \* the thread that holds manager->mutex
    chain,              \* hash_table, each slot with its hash_next chain
    head, tail,         \* of the LRU list
    prev, next,         \* lru_prev and lru_next of each cell
    cell,               \* key, content and remaining life of each cell
    live,               \* the cells that are allocated
    entries, size,      \* stats.current_entries, stats.current_size
    pc, arg, cur,       \* of each thread: where it is, its call, its list cursor
    ans                 \* of each thread: its last call and what that answered

tableVars == <<chain, cell, live, entries, size>>
listVars == <<head, tail, prev, next>>
callVars == <<pc, arg, cur, ans>>
vars == <<mutex, tableVars, listVars, callVars>>

Calls ==
    {[op |-> o, key |-> k] : o \in Ops \cap {"get", "remove"}, k \in Keys}
    \cup {[op |-> o, key |-> k, val |-> v] : o \in Ops \cap {"put"}, k \in Keys, v \in Values}
    \cup {[op |-> o] : o \in Ops \cap {"clear", "cleanup"}}

Blank == [key |-> Null, val |-> Null, left |-> 0]

Init ==
    /\ mutex = Null
    /\ chain = [b \in Buckets |-> <<>>]
    /\ head = Null /\ tail = Null
    /\ prev = [c \in Cells |-> Null]
    /\ next = [c \in Cells |-> Null]
    /\ cell = [c \in Cells |-> Blank]
    /\ live = {}
    /\ entries = 0 /\ size = 0
    /\ pc = [t \in Threads |-> "idle"]
    /\ arg = [t \in Threads |-> Null]
    /\ cur = [t \in Threads |-> Null]
    /\ ans = [t \in Threads |-> Null]

------------------------------------------------------------------------------
(* The hash table.                                                         *)

\* The place of key k in its chain, 0 when it is not there.
PlaceOf(k) == SelectInSeq(chain[Hash[k]], LAMBDA c : cell[c].key = k)

\* cache_find_entry
Find(k) == IF PlaceOf(k) = 0 THEN Null ELSE chain[Hash[k]][PlaceOf(k)]

\* cache_is_fresh
Fresh(c) == cell[c].left > 0

Full(len) == entries >= MaxEntries \/ size + len > MaxSize

------------------------------------------------------------------------------
(* The LRU list, as functions from its links to its links.                 *)

List == [head |-> head, tail |-> tail, prev |-> prev, next |-> next]

SetList(l) == head' = l.head /\ tail' = l.tail /\ prev' = l.prev /\ next' = l.next

\* cache_remove_from_list
RemoveFromList(l, c) ==
    [head |-> IF l.prev[c] = Null THEN l.next[c] ELSE l.head,
     tail |-> IF l.next[c] = Null THEN l.prev[c] ELSE l.tail,
     next |-> IF l.prev[c] = Null THEN l.next
              ELSE [l.next EXCEPT ![l.prev[c]] = l.next[c]],
     prev |-> IF l.next[c] = Null THEN l.prev
              ELSE [l.prev EXCEPT ![l.next[c]] = l.prev[c]]]

\* Adding c in front, the second half of cache_move_to_head.
AddToHead(l, c) ==
    [head |-> c,
     tail |-> IF l.tail = Null THEN c ELSE l.tail,
     next |-> [l.next EXCEPT ![c] = l.head],
     prev |-> IF l.head = Null THEN [l.prev EXCEPT ![c] = Null]
              ELSE [l.prev EXCEPT ![c] = Null, ![l.head] = c]]

\* cache_move_to_head
MoveToHead(l, c) == IF l.head = c THEN l ELSE AddToHead(RemoveFromList(l, c), c)

------------------------------------------------------------------------------
Goto(t, from, to) == pc[t] = from /\ pc' = [pc EXCEPT ![t] = to]

\* A thread calls one of the functions.
Call(t) ==
    /\ Goto(t, "idle", "lock")
    /\ \E call \in Calls : arg' = [arg EXCEPT ![t] = call]
    /\ ans' = [ans EXCEPT ![t] = Null]
    /\ UNCHANGED <<mutex, tableVars, listVars, cur>>

\* pthread_mutex_lock.
Acquire(t) ==
    /\ Goto(t, "lock", "locked")
    /\ mutex = Null
    /\ mutex' = t
    /\ UNCHANGED <<tableVars, listVars, arg, cur, ans>>

\* Unlock and return a.
Return(t, a) ==
    /\ mutex' = Null
    /\ pc' = [pc EXCEPT ![t] = "idle"]
    /\ arg' = [arg EXCEPT ![t] = Null]
    /\ cur' = [cur EXCEPT ![t] = Null]
    /\ ans' = [ans EXCEPT ![t] = [to |-> arg[t], is |-> a]]

\* The thread, holding the mutex, calls cache_remove, which locks it: no
\* action leads on from here.
LockAgain(t) ==
    /\ pc' = [pc EXCEPT ![t] = "relock"]
    /\ UNCHANGED <<mutex, arg, cur, ans, tableVars, listVars>>

Doing(t, op) == pc[t] = "locked" /\ arg[t].op = op

\* Mutant: the miss returns with the mutex locked.
GetMissesLocked(t) ==
    /\ Doing(t, "get") /\ Find(arg[t].key) = Null
    /\ pc' = [pc EXCEPT ![t] = "idle"]
    /\ arg' = [arg EXCEPT ![t] = Null]
    /\ ans' = [ans EXCEPT ![t] = [to |-> arg[t], is |-> "miss"]]
    /\ UNCHANGED <<mutex, cur, tableVars, listVars>>

GetMisses(t) ==
    /\ Doing(t, "get") /\ Find(arg[t].key) = Null
    /\ Return(t, "miss")
    /\ UNCHANGED <<tableVars, listVars>>

GetFindsExpired(t) ==
    /\ Doing(t, "get")
    /\ \E c \in Cells : c = Find(arg[t].key) /\ ~Fresh(c)
    /\ LockAgain(t)

GetHits(t) ==
    /\ Doing(t, "get")
    /\ \E c \in Cells :
        /\ c = Find(arg[t].key) /\ Fresh(c)
        /\ SetList(MoveToHead(List, c))
        /\ Return(t, cell[c].val)
    /\ UNCHANGED tableVars

\* cache_response_create finds no memory: NULL, as for a miss, though the entry
\* was found and has moved.
GetFails(t) ==
    /\ Doing(t, "get")
    /\ \E c \in Cells :
        /\ c = Find(arg[t].key) /\ Fresh(c)
        /\ SetList(MoveToHead(List, c))
    /\ Return(t, "failed")
    /\ UNCHANGED tableVars

------------------------------------------------------------------------------
(* cache_put: first its eviction loop.                                     *)

\* cache_evict_lru finds a tail and removes it.
PutEvicts(t) ==
    /\ Doing(t, "put") /\ Full(SizeOf[arg[t].val])
    /\ tail # Null
    /\ LockAgain(t)

\* cache_evict_lru returns at once: the loop goes round for ever.
Spinning(t) == Doing(t, "put") /\ Full(SizeOf[arg[t].val]) /\ tail = Null

PutSpins(t) == Spinning(t) /\ UNCHANGED vars

PutFails(t) ==
    /\ Doing(t, "put") /\ ~Full(SizeOf[arg[t].val])
    /\ live = Cells
    /\ Return(t, "failed")
    /\ UNCHANGED <<tableVars, listVars>>

PutStores(t) ==
    /\ Doing(t, "put") /\ ~Full(SizeOf[arg[t].val])
    /\ \E c \in Cells \ live :
        /\ live' = live \cup {c}
        /\ cell' = [cell EXCEPT ![c] =
                        [key |-> arg[t].key, val |-> arg[t].val, left |-> TTL]]
        /\ chain' = [chain EXCEPT ![Hash[arg[t].key]] = <<c>> \o @]
        /\ SetList(MoveToHead([List EXCEPT !.prev[c] = Null, !.next[c] = Null], c))
    /\ entries' = entries + 1
    /\ size' = size + SizeOf[arg[t].val]
    /\ Return(t, "stored")

------------------------------------------------------------------------------
(* cache_remove, cache_manager_clear and cache_cleanup_expired.            *)

RemoveFindsNothing(t) ==
    /\ Doing(t, "remove") /\ Find(arg[t].key) = Null
    /\ Return(t, "absent")
    /\ UNCHANGED <<tableVars, listVars>>

\* Mutant: the freed entry stays in the LRU list.
RemoveFreesListed(t) ==
    /\ Doing(t, "remove")
    /\ \E c \in Cells :
        /\ c = Find(arg[t].key)
        /\ chain' = [chain EXCEPT ![Hash[arg[t].key]] = RemoveAt(@, PlaceOf(arg[t].key))]
        /\ entries' = entries - 1
        /\ size' = size - SizeOf[cell[c].val]
        /\ live' = live \ {c}
        /\ cell' = [cell EXCEPT ![c] = Blank]
    /\ Return(t, "removed")
    /\ UNCHANGED listVars

\* Mutant: the first entry of the chain is unlinked, not the one found.
RemoveFreesFirst(t) ==
    /\ Doing(t, "remove")
    /\ \E c \in Cells :
        /\ c = Find(arg[t].key)
        /\ chain' = [chain EXCEPT ![Hash[arg[t].key]] = Tail(@)]
        /\ SetList(RemoveFromList(List, c))
        /\ entries' = entries - 1
        /\ size' = size - SizeOf[cell[c].val]
        /\ live' = live \ {c}
        /\ cell' = [cell EXCEPT ![c] = Blank]
    /\ Return(t, "removed")

RemoveFrees(t) ==
    /\ Doing(t, "remove")
    /\ \E c \in Cells :
        /\ c = Find(arg[t].key)
        /\ chain' = [chain EXCEPT ![Hash[arg[t].key]] = RemoveAt(@, PlaceOf(arg[t].key))]
        /\ SetList(RemoveFromList(List, c))
        /\ entries' = entries - 1
        /\ size' = size - SizeOf[cell[c].val]
        /\ live' = live \ {c}
        /\ cell' = [cell EXCEPT ![c] = Blank]
    /\ Return(t, "removed")

\* clear and cleanup walk the LRU list from its head.
WalkStarts(t) ==
    /\ pc[t] = "locked" /\ arg[t].op \in {"clear", "cleanup"}
    /\ pc' = [pc EXCEPT ![t] = arg[t].op]
    /\ cur' = [cur EXCEPT ![t] = head]
    /\ UNCHANGED <<mutex, tableVars, listVars, arg, ans>>

ClearFrees(t) ==
    /\ pc[t] = "clear" /\ cur[t] # Null
    /\ live' = live \ {cur[t]}
    /\ cur' = [cur EXCEPT ![t] = next[cur[t]]]
    /\ UNCHANGED <<mutex, chain, cell, entries, size, listVars, pc, arg, ans>>

\* Mutant: the size is not reset with the rest.
ClearResetsNoSize(t) ==
    /\ pc[t] = "clear" /\ cur[t] = Null
    /\ head' = Null /\ tail' = Null
    /\ chain' = [b \in Buckets |-> <<>>]
    /\ entries' = 0 /\ UNCHANGED size
    /\ cell' = [c \in Cells |-> IF c \in live THEN cell[c] ELSE Blank]
    /\ Return(t, "done")
    /\ UNCHANGED <<live, prev, next>>

ClearResets(t) ==
    /\ pc[t] = "clear" /\ cur[t] = Null
    /\ head' = Null /\ tail' = Null
    /\ chain' = [b \in Buckets |-> <<>>]
    /\ entries' = 0 /\ size' = 0
    /\ cell' = [c \in Cells |-> IF c \in live THEN cell[c] ELSE Blank]
    /\ Return(t, "done")
    /\ UNCHANGED <<live, prev, next>>

CleanupPasses(t) ==
    /\ pc[t] = "cleanup" /\ cur[t] # Null /\ Fresh(cur[t])
    /\ cur' = [cur EXCEPT ![t] = next[cur[t]]]
    /\ UNCHANGED <<mutex, tableVars, listVars, pc, arg, ans>>

CleanupFindsExpired(t) ==
    /\ pc[t] = "cleanup" /\ cur[t] # Null /\ ~Fresh(cur[t])
    /\ LockAgain(t)

CleanupEnds(t) ==
    /\ pc[t] = "cleanup" /\ cur[t] = Null
    /\ Return(t, "done")
    /\ UNCHANGED <<tableVars, listVars>>

------------------------------------------------------------------------------
\* A second of time(NULL).  A cleanup reads the clock once, when it begins.
Tick ==
    /\ \A t \in Threads : pc[t] # "cleanup"
    /\ \E c \in Cells : cell[c].left > 0
    /\ cell' = [c \in Cells |-> IF cell[c].left > 0 THEN [cell[c] EXCEPT !.left = @ - 1]
                                ELSE cell[c]]
    /\ UNCHANGED <<mutex, chain, live, entries, size, listVars, callVars>>

\* What a thread does once it has called.
Work(t) ==
    \/ GetMisses(t) \/ GetFindsExpired(t) \/ GetHits(t) \/ GetFails(t)
    \/ PutEvicts(t) \/ PutSpins(t) \/ PutFails(t) \/ PutStores(t)
    \/ RemoveFindsNothing(t) \/ RemoveFrees(t)
    \/ WalkStarts(t) \/ ClearFrees(t) \/ ClearResets(t)
    \/ CleanupPasses(t) \/ CleanupFindsExpired(t) \/ CleanupEnds(t)

Next == Tick \/ \E t \in Threads : Call(t) \/ Acquire(t) \/ Work(t)

Spec == Init /\ [][Next]_vars

------------------------------------------------------------------------------
(* Properties.                                                             *)

Clearing == \E t \in Threads : pc[t] = "clear"
Chained == UNION {ToSet(chain[b]) : b \in Buckets}

\* The table and the list point at allocated entries only, each entry hangs
\* once, in the slot of its key, and the entry at the head of the LRU list is
\* in the table (a clear frees first and resets after, under the mutex).
NoDangling ==
    ~Clearing =>
        /\ Chained \subseteq live
        /\ {head, tail} \subseteq Chained \cup {Null}
        /\ \A b \in Buckets : \A i, j \in DOMAIN chain[b] :
            /\ Hash[cell[chain[b][i]].key] = b
            /\ i # j => chain[b][i] # chain[b][j]

\* stats.current_entries and current_size count what hangs in the table, with
\* duplicates of a key, removals and clears in any order, and stay within the
\* limits.
CountsExact ==
    /\ entries = SumFunction([b \in Buckets |-> Len(chain[b])])
    /\ size = SumFunction([c \in Chained |-> SizeOf[cell[c].val]])
    /\ entries <= MaxEntries /\ size <= MaxSize

\* The entries from the head of the LRU list on, along lru_next.
Listed ==
    LET f[n \in 0 .. Cardinality(Cells)] ==
            IF n = 0 THEN {head} \ {Null}
            ELSE f[n - 1] \cup ({next[c] : c \in f[n - 1]} \ {Null})
    IN f[Cardinality(Cells)]

\* Every entry of the table is in the LRU list too, where eviction and the
\* clearing functions look for it ("a hash table to find, an LRU list to
\* manage").
EntriesListed == ~Clearing => Chained \subseteq Listed

\* The mutex is held by exactly the thread that is inside a function: every
\* return unlocks it, and none unlocks it for another thread.
MutexHeldInside ==
    \A t \in Threads : mutex = t <=> pc[t] \in {"locked", "clear", "cleanup", "relock"}

\* What a get would find under each key.
Contents ==
    [k \in Keys |-> LET c == Find(k) IN
                    IF c # Null /\ Fresh(c) THEN [val |-> cell[c].val, left |-> cell[c].left]
                    ELSE [val |-> Null, left |-> 0]]

Map == INSTANCE CacheMap WITH store <- Contents, on <- TRUE, MayForget <- FALSE

Distinct == \A c, d \in Chained : cell[c].key = cell[d].key => c = d

\* The table is the map its users expect: while no key hangs in it twice, a get
\* answers with what was put last under the key it was given, or fails for want
\* of memory, and every call does to the table, at one instant, what the call
\* its caller made does to the map.
TableIsMap == [][Distinct => UNCHANGED <<Contents, ans>> \/ Map!Next]_vars

\* No thread waits for a mutex it holds.
NoSelfDeadlock == \A t \in Threads : pc[t] # "relock"
=============================================================================
