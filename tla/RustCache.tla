------------------------------ MODULE RustCache ------------------------------
(***************************************************************************)
(* The Rust cache, src/src/rust_modules/cache/mod.rs: a hash map of the    *)
(* contents, a list of keys in the order of their last use, a count of the *)
(* bytes.  Every method holds the mutex from its first line to its last,   *)
(* so it is one step, except put: the loop in which put evicts is taken    *)
(* round by round, since it need not end.  Which contents are cacheable    *)
(* (type, smallest and largest size) is left open, and so are the hit      *)
(* counters.                                                               *)
(***************************************************************************)
EXTENDS Naturals, FiniteSets, SequencesExt

CONSTANTS
    Keys, Values,
    SizeOf,         \* data.len() of each value
    MaxEntries, MaxSize, TTL,
    MaxListed,      \* how long lru_list may grow; nothing bounds it
    Ops,            \* the methods that are called
    Null

ASSUME RustCacheAssumption ==
    /\ SizeOf \in [Values -> Nat]
    /\ MaxEntries \in Nat /\ MaxSize \in Nat /\ TTL \in Nat \ {0} /\ MaxListed \in Nat
    /\ Ops \subseteq {"get", "put", "remove", "clear", "cleanup", "enable"}
    /\ Null \notin Values /\ Null \notin Keys

VARIABLES
    store,          \* the hash map, Missing where it has no entry
    lru,            \* lru_list, the key used last at its end
    size,           \* current_size
    enabled,
    putting,        \* the call of put that holds the mutex, or Null
    ans,            \* the last call and what it answered
    recent          \* history: the keys in the true order of their last use

inner == <<store, lru, size, enabled>>
rustVars == <<inner, putting, ans, recent>>

Missing == [val |-> Null, left |-> 0]
Stored == {k \in Keys : store[k] # Missing}
Fresh(k) == store[k].left > 0

RustInit ==
    /\ store = [k \in Keys |-> Missing]
    /\ lru = <<>> /\ size = 0 /\ enabled = TRUE
    /\ putting = Null /\ ans = Null
    /\ recent = <<>>

Answer(call, a) == ans' = [to |-> call, is |-> a]

Used(k) == recent' = Append(RemoveFirst(recent, k), k)

\* A call of op can take the mutex.
Free(op) == op \in Ops /\ putting = Null

------------------------------------------------------------------------------
\* update_access_stats
Touch(k) == Append(RemoveFirst(lru, k), k)

GetHits(k) ==
    /\ Free("get") /\ enabled /\ Fresh(k)
    /\ lru' = Touch(k)
    /\ Answer([op |-> "get", key |-> k], store[k].val)
    /\ Used(k)
    /\ UNCHANGED <<store, size, enabled, putting>>

GetMisses(k) ==
    /\ Free("get") /\ ~(enabled /\ Fresh(k))
    /\ Answer([op |-> "get", key |-> k], "miss")
    /\ UNCHANGED <<inner, putting, recent>>

------------------------------------------------------------------------------
(* put                                                                     *)

PutStarts(k, v) ==
    /\ Free("put") /\ enabled
    /\ Len(lru) < MaxListed
    /\ putting' = [key |-> k, val |-> v]
    /\ ans' = Null
    /\ UNCHANGED <<inner, recent>>

\* The cache is switched off, or the content is not cacheable.
PutRejects(k, v) ==
    /\ Free("put")
    /\ Answer([op |-> "put", key |-> k, val |-> v], "failed")
    /\ UNCHANGED <<inner, putting, recent>>

AtLimit == Cardinality(Stored) >= MaxEntries \/ size + SizeOf[putting.val] > MaxSize

Evicting == putting # Null /\ AtLimit /\ Stored # {}

\* Mutant: the size of the new content is given back, not that of the old one.
EvictGivesBackNew ==
    /\ Evicting /\ lru # <<>> /\ Head(lru) \in Stored
    /\ store' = [store EXCEPT ![Head(lru)] = Missing]
    /\ size' = size - SizeOf[putting.val]
    /\ lru' = Tail(lru)
    /\ UNCHANGED <<enabled, putting, ans, recent>>

\* Mutant: the key at the other end of the list is evicted.
EvictNewest ==
    /\ Evicting /\ lru # <<>> /\ Last(lru) \in Stored
    /\ store' = [store EXCEPT ![Last(lru)] = Missing]
    /\ size' = size - SizeOf[store[Last(lru)].val]
    /\ lru' = RemoveFirst(lru, Last(lru))
    /\ UNCHANGED <<enabled, putting, ans, recent>>

\* select_eviction_candidate names a key of the store.
Evict ==
    /\ Evicting /\ lru # <<>> /\ Head(lru) \in Stored
    /\ store' = [store EXCEPT ![Head(lru)] = Missing]
    /\ size' = size - SizeOf[store[Head(lru)].val]
    /\ lru' = Tail(lru)
    /\ UNCHANGED <<enabled, putting, ans, recent>>

\* The candidate is in the list only, or there is none: the loop goes round
\* without a change, for ever.
EvictMisses ==
    /\ Evicting /\ (lru = <<>> \/ Head(lru) \notin Stored)
    /\ UNCHANGED rustVars

PutReturns(a) ==
    /\ putting' = Null
    /\ Answer([op |-> "put", key |-> putting.key, val |-> putting.val], a)

\* Nothing is left to evict and the limits are still exceeded.
PutGivesUp ==
    /\ putting # Null /\ AtLimit /\ Stored = {}
    /\ PutReturns("failed")
    /\ UNCHANGED <<inner, recent>>

\* Mutant: an entry that is there already keeps its content.
PutStoresFirst ==
    /\ putting # Null /\ ~AtLimit
    /\ store' = IF putting.key \in Stored THEN store
                ELSE [store EXCEPT ![putting.key] = [val |-> putting.val, left |-> TTL]]
    /\ size' = size + SizeOf[putting.val]
    /\ lru' = Append(lru, putting.key)
    /\ Used(putting.key)
    /\ PutReturns("stored")
    /\ UNCHANGED enabled

PutStores ==
    /\ putting # Null /\ ~AtLimit
    /\ store' = [store EXCEPT ![putting.key] = [val |-> putting.val, left |-> TTL]]
    /\ size' = size + SizeOf[putting.val]
    /\ lru' = Append(lru, putting.key)
    /\ Used(putting.key)
    /\ PutReturns("stored")
    /\ UNCHANGED enabled

------------------------------------------------------------------------------
(* remove, cleanup_expired, clear and set_enabled                          *)

\* Mutant: the removed key stays in the list.
RemoveListed(k) ==
    /\ Free("remove") /\ k \in Stored
    /\ store' = [store EXCEPT ![k] = Missing]
    /\ size' = size - SizeOf[store[k].val]
    /\ Answer([op |-> "remove", key |-> k], "removed")
    /\ UNCHANGED <<lru, enabled, putting, recent>>

RemoveEntry(k) ==
    /\ Free("remove") /\ k \in Stored
    /\ store' = [store EXCEPT ![k] = Missing]
    /\ size' = size - SizeOf[store[k].val]
    /\ lru' = RemoveFirst(lru, k)
    /\ Answer([op |-> "remove", key |-> k], "removed")
    /\ UNCHANGED <<enabled, putting, recent>>

RemoveNothing(k) ==
    /\ Free("remove") /\ k \notin Stored
    /\ Answer([op |-> "remove", key |-> k], "absent")
    /\ UNCHANGED <<inner, putting, recent>>

SizeOfAll(K) == SumFunction([k \in K |-> SizeOf[store[k].val]])

CleanupExpired ==
    /\ Free("cleanup")
    /\ LET expired == {k \in Stored : ~Fresh(k)} IN
        /\ store' = [k \in Keys |-> IF k \in expired THEN Missing ELSE store[k]]
        /\ size' = size - SizeOfAll(expired)
        /\ lru' = FoldSet(LAMBDA k, list : RemoveFirst(list, k), lru, expired)
    /\ Answer([op |-> "cleanup"], "done")
    /\ UNCHANGED <<enabled, putting, recent>>

Clear ==
    /\ Free("clear")
    /\ store' = [k \in Keys |-> Missing]
    /\ lru' = <<>> /\ size' = 0
    /\ Answer([op |-> "clear"], "done")
    /\ recent' = <<>>
    /\ UNCHANGED <<enabled, putting>>

SetEnabled ==
    /\ Free("enable")
    /\ enabled' = ~enabled
    /\ UNCHANGED <<store, lru, size, putting, ans, recent>>

\* A second of SystemTime.
Tick ==
    /\ \E k \in Keys : Fresh(k)
    /\ store' = [k \in Keys |-> IF Fresh(k) THEN [store[k] EXCEPT !.left = @ - 1] ELSE store[k]]
    /\ UNCHANGED <<lru, size, enabled, putting, ans, recent>>

PutStep == Evict \/ EvictMisses \/ PutGivesUp \/ PutStores

RustNext ==
    \/ \E k \in Keys : GetHits(k) \/ GetMisses(k) \/ RemoveEntry(k) \/ RemoveNothing(k)
    \/ \E k \in Keys, v \in Values : PutStarts(k, v) \/ PutRejects(k, v)
    \/ PutStep
    \/ CleanupExpired \/ Clear \/ SetEnabled
    \/ Tick

RustSpec == RustInit /\ [][RustNext]_rustVars

\* The thread that is inside put runs; nobody has to call.
RustFairSpec == RustSpec /\ WF_rustVars(PutStep)

------------------------------------------------------------------------------
(* Properties.                                                             *)

\* Every entry is in the list, where eviction can find it, however often its
\* key was stored, hit and removed; current_size is never less than what is
\* stored, so that no subtraction underflows; and the limits hold.
StoreAccounted ==
    /\ Stored \subseteq ToSet(lru)
    /\ SizeOfAll(Stored) <= size
    /\ Cardinality(Stored) <= MaxEntries /\ size <= MaxSize

NoDuplicates == \A i, j \in DOMAIN lru : lru[i] = lru[j] => i = j

\* The key that makes room is the stored key whose last use is the oldest.
OldestEvicted ==
    \A k \in Stored : putting # Null /\ store'[k] = Missing
        => \E i \in DOMAIN recent : recent[i] = k /\ \A j \in 1 .. i - 1 : recent[j] \notin Stored

\* While no key is listed twice, eviction is least recently used.
LeastRecentEvicted == [][NoDuplicates => OldestEvicted]_rustVars

\* Where no key is ever listed twice, put returns: then the list names stored
\* keys only, and evicting them makes room or empties the cache.
PutEnds == []NoDuplicates => (putting # Null ~> putting = Null)

\* To its callers the cache is a map: while it is switched on, a get answers
\* with what was put last under the key it was given, and with nothing only if
\* that expired, was removed, or made room for a put; it never answers with an
\* earlier content or one of another key.
Map == INSTANCE CacheMap WITH
    Threads <- {"caller"},
    MayForget <- TRUE,
    on <- enabled,
    ans <- [t \in {"caller"} |-> ans],
    store <- [k \in Keys |-> IF Fresh(k) THEN store[k] ELSE Missing]

ImplementsMap == Map!Spec
=============================================================================
