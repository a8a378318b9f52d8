-------------------------- MODULE RustCache_proofs --------------------------
(***************************************************************************)
(* Theorems of RustCache, for every set of keys and contents, every limit  *)
(* and every set of methods called: the accounts of the cache are right    *)
(* between any two of its steps, and to its callers it is a map that may   *)
(* forget.                                                                 *)
(***************************************************************************)
EXTENDS RustCache, Collections

Entry == [val : Values, left : 0 .. TTL]

Types ==
    /\ store \in [Keys -> Entry \cup {Missing}]
    /\ lru \in Seq(Keys)
    /\ size \in Nat
    /\ putting \in [key : Keys, val : Values] \cup {Null}

\* What StoreAccounted says, of a store with finitely many entries.
AccountInv == Types /\ IsFiniteSet(Stored) /\ StoreAccounted

------------------------------------------------------------------------------
(* What an entry is                                                        *)

LEMMA EntryIs ==
    ASSUME Types, NEW k \in Keys
    PROVE  /\ k \in Stored <=> store[k] # Missing
           /\ k \in Stored => store[k] \in Entry
           /\ k \notin Stored => ~Fresh(k)
           /\ Missing \notin Entry
<1>1. Missing \notin Entry
  BY RustCacheAssumption DEF Missing, Entry
<1>2. QED
  BY <1>1 DEF Types, Stored, Fresh, Missing

\* The stored keys after an entry is dropped, and after one is written
LEMMA DropIs ==
    ASSUME Types, NEW k \in Keys, store' = [store EXCEPT ![k] = Missing]
    PROVE  /\ store' \in [Keys -> Entry \cup {Missing}]
           /\ Stored' = Stored \ {k}
           /\ \A q \in Stored' : store'[q] = store[q]
BY DEF Types, Stored

LEMMA WriteIs ==
    ASSUME Types, NEW k \in Keys, NEW e \in Entry, store' = [store EXCEPT ![k] = e]
    PROVE  /\ store' \in [Keys -> Entry \cup {Missing}]
           /\ Stored' = Stored \cup {k}
           /\ store'[k] = e
           /\ \A q \in Stored \ {k} : store'[q] = store[q]
<1>1. e # Missing
  BY EntryIs
<1>2. store'[k] = e /\ \A q \in Keys : q # k => store'[q] = store[q]
  BY DEF Types
<1>3. QED
  BY <1>1, <1>2 DEF Types, Stored

------------------------------------------------------------------------------
(* The sizes of the entries                                                *)

SizeIn(K) == [k \in K |-> SizeOf[store[k].val]]

LEMMA SizesAre ==
    ASSUME Types, NEW k \in Stored
    PROVE  store[k].val \in Values /\ SizeOf[store[k].val] \in Nat
<1>1. k \in Keys /\ store[k] \in Entry
  BY EntryIs DEF Stored
<1>2. QED
  BY <1>1, RustCacheAssumption DEF Entry

LEMMA SizeOfAllIs ==
    ASSUME Types, NEW K \in SUBSET Stored, IsFiniteSet(Stored)
    PROVE  /\ SizeOfAll(K) = SumFunctionOnSet(SizeIn(Stored), K)
           /\ SizeOfAll(K) \in Nat
           /\ SizeOfAll(K) + SizeOfAll(Stored \ K) = SizeOfAll(Stored)
<1>1. ASSUME NEW L \in SUBSET Stored
      PROVE  /\ SizeOfAll(L) = SumFunctionOnSet(SizeIn(Stored), L)
             /\ SizeOfAll(L) \in Nat
  <2>1. IsFiniteSet(L)
    BY FS_Subset
  <2>2. SizeOfAll(L) = SumFunctionOnSet(SizeIn(L), L)
    BY SumFunctionIs DEF SizeOfAll, SizeIn
  <2>3. \A k \in L : SizeIn(L)[k] = SizeIn(Stored)[k] /\ SizeIn(L)[k] \in Nat
    BY SizesAre DEF SizeIn
  <2>4. QED
    BY <2>1, <2>2, <2>3, SumSame, SumNat
<1>2. \A k \in Stored : SizeIn(Stored)[k] \in Nat
  BY SizesAre DEF SizeIn
<1>3. SumFunctionOnSet(SizeIn(Stored), Stored)
        = SumFunctionOnSet(SizeIn(Stored), K) + SumFunctionOnSet(SizeIn(Stored), Stored \ K)
  BY <1>2, SumPart
<1>4. QED
  BY <1>1, <1>3

\* The sum after a step that leaves the keys K, with the contents they had
LEMMA SizeKept ==
    ASSUME NEW K, Stored' = K, \A k \in K : store'[k].val = store[k].val
    PROVE  SizeOfAll(Stored)' = SizeOfAll(K)
<1>1. SizeIn(Stored)' = SizeIn(K)
  BY DEF SizeIn
<1>2. SizeOfAll(Stored)' = SumFunction(SizeIn(Stored)') /\ SizeOfAll(K) = SumFunction(SizeIn(K))
  BY DEF SizeOfAll, SizeIn
<1>3. QED
  BY <1>1, <1>2

------------------------------------------------------------------------------
(* The accounts, step by step                                              *)

\* Entries are dropped, their sizes given back, and no other key leaves the
\* list.
LEMMA DropCounts ==
    ASSUME AccountInv, NEW K \in SUBSET Stored, Stored' = Stored \ K,
           store' \in [Keys -> Entry \cup {Missing}], \A k \in Stored' : store'[k] = store[k],
           size' = size - SizeOfAll(K), NEW l \in Seq(Keys), lru' = l,
           ToSet(lru) \subseteq ToSet(l) \cup K, putting' = putting
    PROVE  AccountInv'
<1>1. Types /\ IsFiniteSet(Stored)
  BY DEF AccountInv
<1>2. IsFiniteSet(Stored \ K) /\ Cardinality(Stored \ K) <= Cardinality(Stored)
  BY <1>1, FS_Subset
<1>3. Cardinality(Stored \ K) \in Nat /\ Cardinality(Stored) \in Nat
  BY <1>1, <1>2, FS_CardinalityType
<1>4. /\ SizeOfAll(K) + SizeOfAll(Stored \ K) = SizeOfAll(Stored)
      /\ SizeOfAll(K) \in Nat /\ SizeOfAll(Stored \ K) \in Nat
      /\ SizeOfAll(Stored) \in Nat
  <2>1. Stored \ K \in SUBSET Stored /\ Stored \in SUBSET Stored
    OBVIOUS
  <2>2. QED
    BY <1>1, <2>1, SizeOfAllIs
<1>5. SizeOfAll(Stored)' = SizeOfAll(Stored \ K)
  BY SizeKept
<1>6. size' \in Nat /\ SizeOfAll(Stored)' <= size' /\ size' <= MaxSize
  <2>1. SizeOfAll(Stored) <= size /\ size <= MaxSize /\ size \in Nat /\ MaxSize \in Nat
    BY RustCacheAssumption DEF AccountInv, StoreAccounted, Types
  <2>2. QED
    BY <1>4, <1>5, <2>1
<1>7. Cardinality(Stored)' <= MaxEntries
  <2>1. Cardinality(Stored) <= MaxEntries /\ MaxEntries \in Nat
    BY RustCacheAssumption DEF AccountInv, StoreAccounted
  <2>2. QED
    BY <1>2, <1>3, <2>1
<1>8. Stored' \subseteq ToSet(lru')
  BY DEF AccountInv, StoreAccounted
<1>9. QED
  BY <1>1, <1>2, <1>6, <1>7, <1>8 DEF AccountInv, Types, StoreAccounted

\* The size of one entry
LEMMA SizeOfOne ==
    ASSUME Types, IsFiniteSet(Stored), NEW k \in Stored
    PROVE  SizeOfAll({k}) = SizeOf[store[k].val]
<1>1. {k} \in SUBSET Stored /\ IsFiniteSet({k}) /\ {k} \ {k} = {}
  BY FS_Singleton
<1>2. SizeOfAll({k}) = SumFunctionOnSet(SizeIn(Stored), {k})
  BY <1>1, SizeOfAllIs
<1>3. SizeIn(Stored)[k] = SizeOf[store[k].val] /\ SizeOf[store[k].val] \in Nat
  BY SizesAre DEF SizeIn
<1>4. SumFunctionOnSet(SizeIn(Stored), {k}) = SizeIn(Stored)[k] + 0
  BY <1>1, <1>3, SumRemove, SumEmpty
<1>5. QED
  BY <1>2, <1>3, <1>4

\* One entry is dropped.
LEMMA DropOneCounts ==
    ASSUME AccountInv, NEW k \in Stored, store' = [store EXCEPT ![k] = Missing],
           size' = size - SizeOf[store[k].val], NEW l \in Seq(Keys), lru' = l,
           ToSet(lru) \subseteq ToSet(l) \cup {k}, putting' = putting
    PROVE  AccountInv'
<1>1. k \in Keys /\ Types /\ IsFiniteSet(Stored) /\ {k} \in SUBSET Stored
  BY DEF Stored, AccountInv
<1>2. /\ store' \in [Keys -> Entry \cup {Missing}] /\ Stored' = Stored \ {k}
      /\ \A q \in Stored' : store'[q] = store[q]
  BY <1>1, DropIs
<1>3. size' = size - SizeOfAll({k})
  BY <1>1, SizeOfOne
<1>4. QED
  BY <1>1, <1>2, <1>3, DropCounts

LEMMA TouchIs ==
    ASSUME Types, NEW k \in Keys
    PROVE  Touch(k) \in Seq(Keys) /\ ToSet(lru) \subseteq ToSet(Touch(k))
<1>1. /\ RemoveFirst(lru, k) \in Seq(Keys)
      /\ ToSet(lru) \subseteq ToSet(RemoveFirst(lru, k)) \cup {k}
  BY RemoveFirstIs DEF Types
<1>2. QED
  BY <1>1, AppendPlaces DEF Touch

\* A step that leaves the store and its size alone
LEMMA ListStep ==
    ASSUME AccountInv, UNCHANGED <<store, size>>, NEW l \in Seq(Keys), lru' = l,
           ToSet(lru) \subseteq ToSet(l),
           putting' \in [key : Keys, val : Values] \cup {Null}
    PROVE  AccountInv'
BY DEF AccountInv, Types, StoreAccounted, Stored, SizeOfAll

\* A content is stored: what was under its key, if anything, is still counted.
LEMMA PutCounts == ASSUME AccountInv, PutStores PROVE AccountInv'
<1> DEFINE k == putting.key
           v == putting.val
<1>1. k \in Keys /\ v \in Values /\ Types /\ IsFiniteSet(Stored) /\ SizeOf[v] \in Nat
  BY RustCacheAssumption DEF PutStores, AccountInv, Types
<1>2. [val |-> v, left |-> TTL] \in Entry
  BY <1>1, RustCacheAssumption DEF Entry
<1>3. /\ store' \in [Keys -> Entry \cup {Missing}] /\ Stored' = Stored \cup {k}
      /\ store'[k] = [val |-> v, left |-> TTL]
      /\ \A q \in Stored \ {k} : store'[q] = store[q]
  BY <1>1, <1>2, WriteIs DEF PutStores
<1>4. lru' \in Seq(Keys) /\ ToSet(lru') = ToSet(lru) \cup {k}
  BY <1>1, AppendPlaces DEF PutStores, Types
<1>5. /\ ~(Cardinality(Stored) >= MaxEntries) /\ ~(size + SizeOf[v] > MaxSize)
      /\ size' = size + SizeOf[v] /\ putting' = Null
  BY DEF PutStores, AtLimit, PutReturns
<1> HIDE DEF k, v
<1>6. IsFiniteSet(Stored)' /\ Cardinality(Stored)' <= MaxEntries
  <2>1. /\ IsFiniteSet(Stored \cup {k}) /\ Cardinality(Stored) \in Nat
        /\ Cardinality(Stored \cup {k}) <= Cardinality(Stored) + 1
        /\ Cardinality(Stored \cup {k}) \in Nat
    <3>1. /\ IsFiniteSet(Stored \cup {k}) /\ Cardinality(Stored) \in Nat
          /\ Cardinality(Stored \cup {k}) =
               IF k \in Stored THEN Cardinality(Stored) ELSE Cardinality(Stored) + 1
      BY <1>1, FS_AddElement, FS_CardinalityType
    <3>2. Cardinality(Stored \cup {k}) \in Nat
      BY <3>1, FS_CardinalityType
    <3>3. QED
      BY <3>1, <3>2
  <2>2. QED
    BY <1>3, <1>5, <2>1, RustCacheAssumption
<1>7. SizeOfAll(Stored)' <= SizeOfAll(Stored) + SizeOf[v] /\ SizeOfAll(Stored)' \in Nat
      /\ SizeOfAll(Stored) \in Nat
  <2>1. PICK K : K = Stored \ {k}
    OBVIOUS
  <2>2. PICK f : f = SizeIn(Stored)'
    OBVIOUS
  <2>3. f = [q \in K \cup {k} |-> SizeOf[store'[q].val]]
    BY <1>3, <2>1, <2>2 DEF SizeIn
  <2>4. f[k] = SizeOf[v] /\ \A q \in K : f[q] = SizeIn(K)[q] /\ f[q] \in Nat
    <3>1. f[k] = SizeOf[v]
      BY <1>3, <2>3
    <3>2. ASSUME NEW q \in K PROVE f[q] = SizeIn(K)[q] /\ f[q] \in Nat
      <4>1. f[q] = SizeOf[store[q].val]
        BY <1>3, <2>1, <2>3
      <4>2. QED
        BY <1>1, <2>1, <4>1, SizesAre DEF SizeIn
    <3>3. QED
      BY <3>1, <3>2
  <2>5. IsFiniteSet(K) /\ k \notin K /\ K \in SUBSET Stored
    BY <1>1, <2>1, FS_Subset
  <2>6. SumFunctionOnSet(f, K \cup {k}) = f[k] + SumFunctionOnSet(f, K)
    BY <1>1, <2>4, <2>5, SumAdd
  <2>7. SumFunctionOnSet(f, K) = SizeOfAll(K)
    <3>1. SumFunctionOnSet(f, K) = SumFunctionOnSet(SizeIn(K), K)
      BY <2>4, <2>5, SumSame
    <3>2. SizeOfAll(K) = SumFunctionOnSet(SizeIn(K), K)
      BY SumFunctionIs DEF SizeOfAll, SizeIn
    <3>3. QED
      BY <3>1, <3>2
  <2>8. SizeOfAll(Stored)' = SumFunctionOnSet(f, K \cup {k})
    <3>1. SizeOfAll(Stored)' = SumFunction(f)
      BY <2>2 DEF SizeOfAll, SizeIn
    <3>2. DOMAIN f = K \cup {k}
      BY <2>3
    <3>3. QED
      BY <3>1, <3>2, SumFunctionIs
  <2>9. /\ SizeOfAll(K) \in Nat /\ SizeOfAll(Stored \ K) \in Nat /\ SizeOfAll(Stored) \in Nat
        /\ SizeOfAll(K) + SizeOfAll(Stored \ K) = SizeOfAll(Stored)
    <3>1. Stored \in SUBSET Stored /\ Stored \ K \in SUBSET Stored
      OBVIOUS
    <3>2. QED
      BY <1>1, <2>5, <3>1, SizeOfAllIs
  <2>10. QED
    BY <1>1, <2>4, <2>6, <2>7, <2>8, <2>9
<1>8. size' \in Nat /\ SizeOfAll(Stored)' <= size' /\ size' <= MaxSize
  <2>1. SizeOfAll(Stored) <= size /\ size \in Nat /\ MaxSize \in Nat
    BY RustCacheAssumption DEF AccountInv, StoreAccounted, Types
  <2>2. QED
    BY <1>1, <1>5, <1>7, <2>1
<1>9. Stored' \subseteq ToSet(lru')
  BY <1>3, <1>4 DEF AccountInv, StoreAccounted
<1>10. QED
  BY <1>3, <1>4, <1>5, <1>6, <1>8, <1>9 DEF AccountInv, Types, StoreAccounted

\* The expired entries are dropped.
LEMMA CleanupCounts == ASSUME AccountInv, CleanupExpired PROVE AccountInv'
<1> DEFINE expired == {k \in Stored : ~Fresh(k)}
<1>1. Types /\ IsFiniteSet(Stored) /\ expired \in SUBSET Stored
  BY DEF AccountInv
<1>2. /\ store' = [k \in Keys |-> IF k \in expired THEN Missing ELSE store[k]]
      /\ size' = size - SizeOfAll(expired)
      /\ lru' = FoldSet(LAMBDA k, list : RemoveFirst(list, k), lru, expired)
      /\ putting' = putting
  BY DEF CleanupExpired
<1>3. lru' = WithoutAll(lru, expired)
  BY <1>2 DEF WithoutAll
<1> HIDE DEF expired
<1>4. /\ store' \in [Keys -> Entry \cup {Missing}]
      /\ Stored' = Stored \ expired
      /\ \A k \in Stored' : store'[k] = store[k]
  BY <1>1, <1>2 DEF Types, Stored
<1>5. IsFiniteSet(expired)
  BY <1>1, FS_Subset
<1>6. lru' \in Seq(Keys) /\ ToSet(lru) \subseteq ToSet(lru') \cup expired
  BY <1>1, <1>3, <1>5, WithoutAllIs DEF Types
<1>7. QED
  BY <1>1, <1>2, <1>4, <1>6, DropCounts

\* Time passes: the contents stay.
LEMMA TickCounts == ASSUME AccountInv, Tick PROVE AccountInv'
<1>1. Types /\ IsFiniteSet(Stored)
  BY DEF AccountInv
<1>2. /\ store' = [k \in Keys |-> IF Fresh(k) THEN [store[k] EXCEPT !.left = @ - 1] ELSE store[k]]
      /\ UNCHANGED <<lru, size, putting>>
  BY DEF Tick
<1>3. ASSUME NEW k \in Keys
      PROVE  /\ store'[k] \in Entry \cup {Missing}
             /\ store'[k].val = store[k].val
             /\ store'[k] = Missing <=> store[k] = Missing
  <2>1. CASE Fresh(k)
    <3>1. store[k] \in Entry /\ store[k] # Missing /\ store[k].left > 0
      BY <1>1, <2>1, EntryIs DEF Fresh
    <3>2. store'[k] = [store[k] EXCEPT !.left = @ - 1]
      BY <1>2, <2>1
    <3>3. store'[k] \in Entry /\ store'[k].val = store[k].val
      BY <3>1, <3>2, RustCacheAssumption DEF Entry
    <3>4. QED
      BY <1>1, <3>1, <3>3, EntryIs
  <2>2. CASE ~Fresh(k)
    BY <1>1, <1>2, <2>2 DEF Types
  <2>3. QED
    BY <2>1, <2>2
<1>4. store' \in [Keys -> Entry \cup {Missing}] /\ Stored' = Stored
  BY <1>2, <1>3 DEF Stored
<1>5. SizeOfAll(Stored)' = SizeOfAll(Stored)
  <2>1. \A k \in Stored : store'[k].val = store[k].val
    BY <1>3 DEF Stored
  <2>2. QED
    BY <1>4, <2>1, SizeKept
<1>6. QED
  BY <1>1, <1>2, <1>4, <1>5 DEF AccountInv, Types, StoreAccounted

\* The cache is emptied.
LEMMA ClearCounts == ASSUME AccountInv, Clear PROVE AccountInv'
<1>1. Stored' = {} /\ store' \in [Keys -> Entry \cup {Missing}]
  BY DEF Clear, Stored
<1>2. SizeOfAll(Stored)' = 0
  <2>1. PICK f : f = SizeIn(Stored)'
    OBVIOUS
  <2>2. SizeOfAll(Stored)' = SumFunction(f) /\ DOMAIN f = {}
    BY <1>1, <2>1 DEF SizeOfAll, SizeIn
  <2>3. QED
    BY <2>2, SumFunctionIs, SumEmpty
<1>3. lru' = <<>> /\ size' = 0 /\ putting' = putting
  BY DEF Clear
<1>4. IsFiniteSet(Stored)' /\ Cardinality(Stored)' = 0
  BY <1>1, FS_EmptySet
<1>5. QED
  BY <1>1, <1>2, <1>3, <1>4, RustCacheAssumption DEF AccountInv, Types, StoreAccounted

LEMMA AccountStep == ASSUME AccountInv, [RustNext]_rustVars PROVE AccountInv'
<1>1. Types /\ lru \in Seq(Keys)
  BY DEF AccountInv, Types
<1>2. CASE UNCHANGED <<store, lru, size, putting>>
  BY <1>1, <1>2, ListStep DEF Types
<1>3. ASSUME NEW k \in Keys, GetHits(k) PROVE AccountInv'
  BY <1>1, <1>3, TouchIs, ListStep DEF GetHits, Types
<1>4. ASSUME NEW k \in Keys, NEW v \in Values, PutStarts(k, v) PROVE AccountInv'
  <2>1. /\ putting' \in [key : Keys, val : Values] \cup {Null}
        /\ UNCHANGED <<store, size, lru>>
    BY <1>4 DEF PutStarts, inner
  <2>2. QED
    BY <1>1, <2>1, ListStep
<1>5. CASE Evict
  <2>1. /\ lru # <<>> /\ Head(lru) \in Stored /\ lru' = Tail(lru) /\ putting' = putting
        /\ store' = [store EXCEPT ![Head(lru)] = Missing]
        /\ size' = size - SizeOf[store[Head(lru)].val]
    BY <1>5 DEF Evict
  <2>2. Tail(lru) \in Seq(Keys) /\ ToSet(lru) \subseteq ToSet(Tail(lru)) \cup {Head(lru)}
    BY <1>1, <2>1, TailPlaces
  <2>3. QED
    BY <2>1, <2>2, DropOneCounts
<1>6. CASE PutGivesUp
  <2>1. putting' = Null /\ UNCHANGED <<store, size, lru>>
    BY <1>6 DEF PutGivesUp, PutReturns, inner
  <2>2. QED
    BY <1>1, <2>1, ListStep
<1>7. ASSUME NEW k \in Keys, RemoveEntry(k) PROVE AccountInv'
  <2>1. /\ RemoveFirst(lru, k) \in Seq(Keys)
        /\ ToSet(lru) \subseteq ToSet(RemoveFirst(lru, k)) \cup {k}
    BY <1>1, RemoveFirstIs
  <2>2. QED
    BY <1>7, <2>1, DropOneCounts DEF RemoveEntry
<1>8. QED
  BY <1>2, <1>3, <1>4, <1>5, <1>6, <1>7, PutCounts, CleanupCounts, ClearCounts, TickCounts
  DEF RustNext, PutStep, GetMisses, RemoveNothing, PutRejects, EvictMisses, SetEnabled, rustVars, inner

LEMMA AccountInit == ASSUME RustInit PROVE AccountInv
<1>1. Stored = {} /\ store \in [Keys -> Entry \cup {Missing}]
  BY DEF RustInit, Stored
<1>2. SizeOfAll(Stored) = 0
  BY <1>1, SumFunctionIs, SumEmpty DEF SizeOfAll
<1>3. IsFiniteSet(Stored) /\ Cardinality(Stored) = 0
  BY <1>1, FS_EmptySet
<1>4. QED
  BY <1>1, <1>2, <1>3, RustCacheAssumption DEF RustInit, AccountInv, Types, StoreAccounted

LEMMA Accounts == RustSpec => []AccountInv
<1>1. AccountInv /\ [RustNext]_rustVars => AccountInv'
  BY AccountStep
<1>2. QED
  BY AccountInit, <1>1, PTL DEF RustSpec

\* Every entry of the Rust cache can be found by eviction, its count of bytes
\* never falls below what is stored, and it exceeds neither limit: whatever
\* methods are called, and however often a key is listed.
THEOREM StoreIsAccounted == RustSpec => []StoreAccounted
BY Accounts, PTL DEF AccountInv

------------------------------------------------------------------------------
(* The cache implements the map of CacheMap: the map's store is what a get *)
(* would find.                                                             *)

MapStore == [k \in Keys |-> IF Fresh(k) THEN store[k] ELSE Missing]
MapAns == [t \in {"caller"} |-> ans]

USE DEF Map!Missing

LEMMA MapInit == ASSUME RustInit PROVE Map!Init
<1>1. \A k \in Keys : ~Fresh(k)
  BY DEF RustInit, Fresh, Missing
<1>2. QED
  BY <1>1 DEF RustInit, Map!Init, Missing

\* An answer of the caller, and a store that no caller can tell from the old
LEMMA MapAnswer ==
    ASSUME NEW a, ans' = a
    PROVE  MapAns' = [MapAns EXCEPT !["caller"] = a]
BY DEF MapAns

LEMMA MapKept ==
    ASSUME UNCHANGED store
    PROVE  MapStore' = MapStore
BY DEF MapStore, Fresh

\* The mapped store when one entry is dropped, and when several are whose time
\* is over
LEMMA MapDrop ==
    ASSUME Types, NEW k \in Keys, store' = [store EXCEPT ![k] = Missing]
    PROVE  MapStore' = [MapStore EXCEPT ![k] = Missing]
<1>1. \A q \in Keys : store'[q] = IF q = k THEN Missing ELSE store[q]
  BY DEF Types
<1>2. \A q \in Keys : MapStore'[q] = IF q = k THEN Missing ELSE MapStore[q]
  BY <1>1 DEF MapStore, Fresh, Missing
<1>3. QED
  BY <1>2 DEF MapStore

LEMMA MapCleanup ==
    ASSUME Types, CleanupExpired
    PROVE  MapStore' = MapStore
<1>1. \A k \in Keys : store'[k] = IF k \in Stored /\ ~Fresh(k) THEN Missing ELSE store[k]
  BY DEF CleanupExpired
<1>2. \A k \in Keys : MapStore'[k] = MapStore[k]
  <2> SUFFICES ASSUME NEW k \in Keys PROVE MapStore'[k] = MapStore[k]
    OBVIOUS
  <2>1. CASE Fresh(k)
    BY <1>1, <2>1 DEF MapStore, Fresh
  <2>2. CASE ~Fresh(k)
    BY <1>1, <2>2 DEF MapStore, Fresh, Missing
  <2>3. QED
    BY <2>1, <2>2
<1>3. QED
  BY <1>2 DEF MapStore

LEMMA MapPut ==
    ASSUME Types, PutStores
    PROVE  /\ putting.key \in Keys /\ putting.val \in Values
           /\ MapStore' = [MapStore EXCEPT ![putting.key] =
                              [val |-> putting.val, left |-> TTL]]
<1>1. putting.key \in Keys /\ putting.val \in Values
  BY DEF PutStores, Types
<1>2. \A q \in Keys : store'[q] = IF q = putting.key THEN [val |-> putting.val, left |-> TTL]
                                  ELSE store[q]
  BY DEF PutStores, Types
<1>3. \A q \in Keys : MapStore'[q] = IF q = putting.key
                                     THEN [val |-> putting.val, left |-> TTL] ELSE MapStore[q]
  BY <1>2, RustCacheAssumption DEF MapStore, Fresh
<1>4. QED
  BY <1>1, <1>3 DEF MapStore

LEMMA MapTick ==
    ASSUME Types, Tick
    PROVE  MapStore' = [k \in Keys |-> IF MapStore[k].left <= 1 THEN Missing
                                       ELSE [MapStore[k] EXCEPT !.left = @ - 1]]
<1>1. ASSUME NEW k \in Keys
      PROVE  MapStore'[k] = IF MapStore[k].left <= 1 THEN Missing
                            ELSE [MapStore[k] EXCEPT !.left = @ - 1]
  <2>1. store'[k] = IF Fresh(k) THEN [store[k] EXCEPT !.left = @ - 1] ELSE store[k]
    BY DEF Tick
  <2>2. CASE ~Fresh(k)
    BY <2>1, <2>2 DEF MapStore, Fresh, Missing
  <2>3. CASE Fresh(k)
    <3>1. store[k] \in Entry /\ store[k].left \in Nat /\ store[k].left > 0
      BY <2>3, EntryIs DEF Fresh, Entry
    <3>2. MapStore[k] = store[k] /\ store'[k] = [store[k] EXCEPT !.left = @ - 1]
      BY <2>1, <2>3 DEF MapStore
    <3>3. store'[k].left = store[k].left - 1
      BY <3>1, <3>2 DEF Entry
    <3>4. MapStore'[k] = IF store[k].left <= 1 THEN Missing ELSE store'[k]
      BY <3>1, <3>3 DEF MapStore, Fresh
    <3>5. QED
      BY <3>2, <3>4
  <2>4. QED
    BY <2>2, <2>3
<1>2. QED
  BY <1>1 DEF MapStore

\* While a put is under way its caller has no answer yet.
AskedInv == putting # Null => ans = Null

LEMMA AskedStep == ASSUME Types, AskedInv, [RustNext]_rustVars PROVE AskedInv'
BY DEF AskedInv, RustNext, PutStep, Free, GetHits, GetMisses, RemoveEntry, RemoveNothing, PutStarts,
       PutRejects, PutReturns, PutGivesUp, PutStores, Evict, EvictMisses, CleanupExpired, Clear,
       SetEnabled, Tick, rustVars

\* Every step of the cache is one of the map, or none.
LEMMA MapStep ==
    ASSUME Types, AskedInv, [RustNext]_rustVars
    PROVE  [Map!Next]_<<MapStore, enabled, MapAns>>
<1> USE DEF Map!Answer, Answer, Map!GetOf, Map!PutOf, Map!RemoveOf, Map!ClearOf, Map!CleanupOf
<1>1. ASSUME NEW k \in Keys, GetHits(k) PROVE Map!Get("caller", k)
  <2>1. /\ MapStore[k] = store[k] /\ store[k] # Missing /\ UNCHANGED <<store, enabled>> /\ enabled
        /\ Answer([op |-> "get", key |-> k], store[k].val)
    BY <1>1, EntryIs DEF GetHits, MapStore, Fresh, Missing
  <2>2. QED
    BY <2>1, MapAnswer, MapKept DEF Map!Get, MapStore, MapAns, Missing
<1>2. ASSUME NEW k \in Keys, GetMisses(k)
      PROVE  Map!Get("caller", k) \/ Map!Withhold("caller", k)
  <2>1. /\ Answer([op |-> "get", key |-> k], "miss") /\ UNCHANGED <<store, enabled>>
        /\ enabled => MapStore[k] = Missing
    BY <1>2 DEF GetMisses, inner, MapStore
  <2>2. CASE enabled
    BY <2>1, <2>2, MapAnswer, MapKept DEF Map!Get, MapStore, MapAns, Missing
  <2>3. CASE ~enabled
    BY <2>1, <2>3, MapAnswer, MapKept DEF Map!Withhold, MapStore, MapAns
  <2>4. QED
    BY <2>2, <2>3
<1>3. ASSUME NEW k \in Keys, RemoveEntry(k) PROVE Map!Delete("caller", k)
  BY <1>3, MapAnswer, MapDrop DEF RemoveEntry, Map!Delete, MapStore, MapAns, Missing
<1>4. ASSUME NEW k \in Keys, RemoveNothing(k) PROVE Map!DeleteNothing("caller", k)
  <2>1. MapStore[k] = Missing
    BY <1>4, EntryIs DEF RemoveNothing, MapStore
  <2>2. QED
    BY <1>4, <2>1, MapAnswer, MapKept DEF RemoveNothing, inner, Map!DeleteNothing, MapStore, MapAns, Missing
<1>5. ASSUME NEW k \in Keys, NEW v \in Values, PutStarts(k, v) PROVE Map!Ask("caller")
  BY <1>5, MapAnswer, MapKept DEF PutStarts, inner, Map!Ask, MapStore, MapAns
<1>6. ASSUME NEW k \in Keys, NEW v \in Values, PutRejects(k, v) PROVE Map!Refuse("caller", k, v)
  BY <1>6, MapAnswer, MapKept DEF PutRejects, inner, Map!Refuse, MapStore, MapAns
<1>7. ASSUME PutGivesUp PROVE \E k \in Keys, v \in Values : Map!Refuse("caller", k, v)
  <2>1. PICK k \in Keys, v \in Values : k = putting.key /\ v = putting.val
    BY <1>7 DEF PutGivesUp, Types
  <2>2. Map!Refuse("caller", k, v)
    BY <1>7, <2>1, MapAnswer, MapKept DEF PutGivesUp, PutReturns, inner, Map!Refuse, MapStore, MapAns
  <2>3. QED
    BY <2>2
<1>8. ASSUME Evict PROVE \E k \in Keys : Map!Forget("caller", k)
  <2>1. PICK k \in Keys : k = Head(lru)
    BY <1>8 DEF Evict, Stored
  <2>2. MapAns["caller"] = Null /\ UNCHANGED <<enabled, ans>>
    BY <1>8 DEF Evict, Evicting, AskedInv, MapAns
  <2>3. Map!Forget("caller", k)
    BY <1>8, <2>1, <2>2, MapDrop DEF Evict, Map!Forget, MapStore, MapAns, Missing
  <2>4. QED
    BY <2>3
<1>9. ASSUME PutStores PROVE \E k \in Keys, v \in Values : Map!Put("caller", k, v)
  <2>1. /\ Answer([op |-> "put", key |-> putting.key, val |-> putting.val], "stored")
        /\ UNCHANGED enabled
    BY <1>9 DEF PutStores, PutReturns
  <2>2. PICK k \in Keys, v \in Values : k = putting.key /\ v = putting.val
    BY <1>9, MapPut
  <2>3. Map!Put("caller", k, v)
    BY <1>9, <2>1, <2>2, MapAnswer, MapPut DEF Map!Put, MapStore, MapAns
  <2>4. QED
    BY <2>3
<1>10. ASSUME CleanupExpired PROVE Map!Cleanup("caller")
  BY <1>10, MapAnswer, MapCleanup DEF CleanupExpired, Map!Cleanup, MapStore, MapAns
<1>11. ASSUME Clear PROVE Map!Clear("caller")
  <2>1. /\ Answer([op |-> "clear"], "done") /\ UNCHANGED enabled
        /\ \A k \in Keys : store'[k] = Missing
    BY <1>11 DEF Clear
  <2>2. MapStore' = [k \in Keys |-> Missing]
    BY <2>1 DEF MapStore, Fresh, Missing
  <2>3. QED
    BY <2>1, <2>2, MapAnswer DEF Map!Clear, MapStore, MapAns, Missing
<1>12. ASSUME Tick PROVE Map!Age
  BY <1>12, MapTick DEF Tick, Map!Age, MapStore, MapAns, Missing
<1>13. ASSUME SetEnabled PROVE Map!Switch
  BY <1>13, MapKept DEF SetEnabled, Map!Switch, MapStore, MapAns
<1>14. ASSUME EvictMisses \/ UNCHANGED rustVars PROVE UNCHANGED <<MapStore, enabled, MapAns>>
  BY <1>14, MapKept DEF EvictMisses, rustVars, inner, MapAns
<1>15. QED
  <2>1. CASE \E k \in Keys : GetHits(k) \/ GetMisses(k) \/ RemoveEntry(k) \/ RemoveNothing(k)
    BY <1>1, <1>2, <1>3, <1>4, <2>1 DEF Map!Next
  <2>2. CASE \E k \in Keys, v \in Values : PutStarts(k, v) \/ PutRejects(k, v)
    BY <1>5, <1>6, <2>2 DEF Map!Next
  <2>3. CASE PutStep
    BY <1>7, <1>8, <1>9, <1>14, <2>3 DEF PutStep, Map!Next
  <2>4. CASE CleanupExpired \/ Clear \/ Tick \/ SetEnabled
    BY <1>10, <1>11, <1>12, <1>13, <2>4 DEF Map!Next
  <2>5. QED
    BY <1>14, <2>1, <2>2, <2>3, <2>4 DEF RustNext

\* To its callers the Rust cache is the map of CacheMap: while it is switched on
\* a get answers with what was put last under the key it was given, unless that
\* expired, was removed, or made room for a put, and every other answer is that
\* of the call that was made, under its key.  The map's store is mapped to the
\* entries a get would return.
THEOREM ImplementsTheMap == RustSpec => ImplementsMap
<1>1. RustInit => Map!Init /\ AskedInv
  BY MapInit DEF RustInit, AskedInv
<1>2. AccountInv /\ AskedInv /\ [RustNext]_rustVars
        => AskedInv' /\ [Map!Next]_<<MapStore, enabled, MapAns>>
  BY MapStep, AskedStep DEF AccountInv
<1>3. QED
  BY <1>1, <1>2, Accounts, PTL DEF RustSpec, ImplementsMap, Map!Spec, Map!mapVars, MapStore, MapAns

------------------------------------------------------------------------------
(* Eviction is least recently used                                         *)

\* The two lists agree: of two stored keys, the one used later has its last
\* place in lru after every place of the other.
RecentInv ==
    /\ recent \in Seq(Keys) /\ NoRepeats(recent)
    /\ Stored \subseteq ToSet(recent)
    /\ \A a, b \in Stored : a # b /\ Before(recent, a, b) => After(lru, a, b)

\* A key is used: it comes last in both lists.
LEMMA UseKeeps ==
    ASSUME RecentInv, Types, NEW k \in Keys, Used(k), Stored' \subseteq Stored \cup {k},
           NEW l \in Seq(Keys), lru' = Append(l, k),
           \A a, b : b # k /\ After(lru, a, b) => After(l, a, b)
    PROVE  RecentInv'
<1> DEFINE r == RemoveFirst(recent, k)
<1>1. recent \in Seq(Keys) /\ NoRepeats(recent) /\ recent' = Append(r, k)
  BY DEF RecentInv, Used
<1>2. r \in Seq(Keys) /\ ToSet(recent) \subseteq ToSet(r) \cup {k}
  BY <1>1, RemoveFirstIs
<1>3. NoRepeats(r) /\ k \notin ToSet(r)
  BY <1>1, RepeatsRemove
<1>4. \A a, b : Before(r, a, b) => Before(recent, a, b) /\ a \in ToSet(r)
  <2>1. \A a, b : Before(r, a, b) => Before(recent, a, b)
    BY <1>1, BeforeRemove
  <2>2. \A a, b : Before(r, a, b) => a \in ToSet(r)
    BY DEF Before, ToSet
  <2>3. QED
    BY <2>1, <2>2
<1> HIDE DEF r
<1>5. recent' \in Seq(Keys) /\ ToSet(recent') = ToSet(r) \cup {k}
  BY <1>1, <1>2, AppendPlaces
<1>6. NoRepeats(recent')
  BY <1>1, <1>2, <1>3, AppendOrder
<1>7. Stored' \subseteq ToSet(recent')
  BY <1>2, <1>5 DEF RecentInv
<1>8. ASSUME NEW a \in Stored', NEW b \in Stored', a # b, Before(recent', a, b)
      PROVE  After(lru', a, b)
  <2>1. CASE b = k
    <3>1. a # k
      BY <1>8, <2>1
    <3>2. After(Append(l, k), a, k)
      BY <3>1, AppendOrder
    <3>3. QED
      BY <2>1, <3>2
  <2>2. CASE b # k
    <3>1. Before(r, a, b)
      BY <1>1, <1>2, <1>8, <2>2, AppendOrder
    <3>2. a # k /\ Before(recent, a, b)
      BY <1>3, <1>4, <3>1
    <3>3. After(lru, a, b)
      BY <1>8, <2>2, <3>2 DEF RecentInv
    <3>4. After(l, a, b)
      BY <2>2, <3>3
    <3>5. QED
      BY <3>2, <3>4, AppendOrder
  <2>3. QED
    BY <2>1, <2>2
<1>9. QED
  BY <1>5, <1>6, <1>7, <1>8 DEF RecentInv

\* Keys leave the store and the list, and the order of the others stays.
LEMMA LeaveKeeps ==
    ASSUME RecentInv, recent' = recent, Stored' \subseteq Stored,
           \A a, b \in Stored' : After(lru, a, b) => After(lru', a, b)
    PROVE  RecentInv'
BY DEF RecentInv

LEMMA RecentStep == ASSUME AccountInv, RecentInv, [RustNext]_rustVars PROVE RecentInv'
<1>1. Types /\ IsFiniteSet(Stored) /\ lru \in Seq(Keys)
  BY DEF AccountInv, Types
<1>2. CASE UNCHANGED <<store, lru, recent>>
  BY <1>2 DEF RecentInv, Stored
<1>3. ASSUME NEW k \in Keys, GetHits(k) PROVE RecentInv'
  <2>1. /\ RemoveFirst(lru, k) \in Seq(Keys) /\ lru' = Append(RemoveFirst(lru, k), k)
        /\ Used(k) /\ store' = store
    BY <1>1, <1>3, RemoveFirstIs DEF GetHits, Touch
  <2>2. \A a, b : b # k /\ After(lru, a, b) => After(RemoveFirst(lru, k), a, b)
    BY <1>1, AfterRemove
  <2>3. Stored' = Stored
    BY <2>1 DEF Stored
  <2>4. QED
    BY <1>1, <2>1, <2>2, <2>3, UseKeeps
<1>4. CASE PutStores
  <2>1. putting.key \in Keys /\ Used(putting.key) /\ lru' = Append(lru, putting.key)
    BY <1>1, <1>4 DEF PutStores, Types
  <2>2. Stored' \subseteq Stored \cup {putting.key}
    <3>1. \A k \in Keys : k # putting.key => store'[k] = store[k]
      BY <1>1, <1>4 DEF PutStores, Types
    <3>2. QED
      BY <3>1 DEF Stored
  <2>3. QED
    BY <1>1, <2>1, <2>2, UseKeeps
<1>5. CASE Evict
  <2>1. /\ lru # <<>> /\ Head(lru) \in Stored /\ lru' = Tail(lru) /\ recent' = recent
        /\ store' = [store EXCEPT ![Head(lru)] = Missing]
    BY <1>5 DEF Evict
  <2>2. Stored' = Stored \ {Head(lru)}
    BY <1>1, <2>1, DropIs DEF Stored
  <2>3. \A a, b : b # Head(lru) /\ After(lru, a, b) => After(Tail(lru), a, b)
    BY <1>1, <2>1, AfterTail
  <2>4. QED
    BY <2>1, <2>2, <2>3, LeaveKeeps
<1>6. ASSUME NEW k \in Keys, RemoveEntry(k) PROVE RecentInv'
  <2>1. /\ lru' = RemoveFirst(lru, k) /\ recent' = recent
        /\ store' = [store EXCEPT ![k] = Missing]
    BY <1>6 DEF RemoveEntry
  <2>2. Stored' = Stored \ {k}
    BY <1>1, <2>1, DropIs
  <2>3. \A a, b : b # k /\ After(lru, a, b) => After(RemoveFirst(lru, k), a, b)
    BY <1>1, AfterRemove
  <2>4. QED
    BY <2>1, <2>2, <2>3, LeaveKeeps
<1>7. CASE CleanupExpired
  <2> DEFINE expired == {k \in Stored : ~Fresh(k)}
  <2>1. /\ store' = [k \in Keys |-> IF k \in expired THEN Missing ELSE store[k]]
        /\ lru' = FoldSet(LAMBDA k, list : RemoveFirst(list, k), lru, expired)
        /\ recent' = recent
    BY <1>7 DEF CleanupExpired
  <2>2. lru' = WithoutAll(lru, expired)
    BY <2>1 DEF WithoutAll
  <2>3. IsFiniteSet(expired)
    BY <1>1, FS_Subset
  <2> HIDE DEF expired
  <2>4. Stored' = Stored \ expired
    BY <2>1 DEF Stored
  <2>5. \A a, b : b \notin expired /\ After(lru, a, b) => After(lru', a, b)
    BY <1>1, <2>2, <2>3, WithoutAllIs
  <2>6. QED
    BY <2>1, <2>4, <2>5, LeaveKeeps
<1>8. CASE Clear
  <2>1. Stored' = {} /\ recent' = <<>>
    BY <1>8 DEF Clear, Stored
  <2>2. recent' \in Seq(Keys) /\ NoRepeats(recent')
    BY <2>1 DEF NoRepeats
  <2>3. QED
    BY <2>1, <2>2 DEF RecentInv
<1>9. CASE Tick
  <2>1. UNCHANGED <<lru, recent>> /\ \A k \in Keys : ~Fresh(k) => store'[k] = store[k]
    BY <1>9 DEF Tick
  <2>2. \A k \in Keys : Fresh(k) => k \in Stored
    BY <1>1, EntryIs
  <2>3. Stored' \subseteq Stored
    BY <2>1, <2>2 DEF Stored
  <2>4. QED
    BY <2>1, <2>3, LeaveKeeps
<1>10. QED
  BY <1>2, <1>3, <1>4, <1>5, <1>6, <1>7, <1>8, <1>9
  DEF RustNext, PutStep, PutStarts, PutGivesUp, GetMisses, RemoveNothing, PutRejects,
      EvictMisses, SetEnabled, rustVars, inner

LEMMA RecentInit == ASSUME RustInit PROVE RecentInv
<1>1. Stored = {} /\ recent = <<>>
  BY DEF RustInit, Stored
<1>2. recent \in Seq(Keys) /\ NoRepeats(recent)
  BY <1>1 DEF NoRepeats
<1>3. QED
  BY <1>1, <1>2 DEF RecentInv

\* Only eviction takes an entry away while a put is under way.
LEMMA OnlyEviction ==
    ASSUME Types, [RustNext]_rustVars, putting # Null, NEW k \in Stored, store'[k] = Missing
    PROVE  Evict
<1>1. k \in Keys /\ store[k] # Missing /\ store[k] \in Entry
  BY EntryIs DEF Stored
<1>2. ASSUME PutStores PROVE FALSE
  <2>1. store'[k] = [val |-> putting.val, left |-> TTL] \/ store'[k] = store[k]
    BY <1>1, <1>2 DEF PutStores, Types
  <2>2. putting.val # Null
    BY <1>2, RustCacheAssumption DEF PutStores, Types
  <2>3. QED
    BY <1>1, <2>1, <2>2 DEF Missing
<1>3. ASSUME Tick PROVE FALSE
  <2>1. store'[k] = [store[k] EXCEPT !.left = @ - 1] \/ store'[k] = store[k]
    BY <1>1, <1>3 DEF Tick
  <2>2. store'[k].val = store[k].val /\ store[k].val # Null
    BY <1>1, <2>1, RustCacheAssumption DEF Entry
  <2>3. QED
    BY <2>2 DEF Missing
<1>4. store' # store
  BY <1>1
<1>5. QED
  BY <1>2, <1>3, <1>4
  DEF RustNext, PutStep, Free, GetHits, GetMisses, RemoveEntry, RemoveNothing, PutStarts,
      PutRejects, PutGivesUp, EvictMisses, CleanupExpired, Clear, SetEnabled, rustVars, inner

LEMMA EvictsOldest ==
    ASSUME AccountInv, RecentInv, [RustNext]_rustVars, NoDuplicates
    PROVE  OldestEvicted
<1> SUFFICES ASSUME NEW k \in Stored, putting # Null, store'[k] = Missing
             PROVE  \E i \in DOMAIN recent :
                       recent[i] = k /\ \A j \in 1 .. i - 1 : recent[j] \notin Stored
  BY DEF OldestEvicted
<1>1. Types /\ lru \in Seq(Keys) /\ recent \in Seq(Keys) /\ Stored \subseteq ToSet(lru)
  BY DEF AccountInv, Types, StoreAccounted, RecentInv
<1>2. Evict
  BY <1>1, OnlyEviction
<1>3. k = Head(lru) /\ lru # <<>>
  <2>1. k \in Keys /\ store[k] # Missing
    BY DEF Stored
  <2>2. \A q \in Keys : q # Head(lru) => store'[q] = store[q]
    BY <1>1, <1>2 DEF Evict, Types
  <2>3. QED
    BY <1>2, <2>1, <2>2 DEF Evict
<1>4. 1 \in DOMAIN lru /\ lru[1] = k
  BY <1>1, <1>3, TailPlaces
<1>5. PICK i \in DOMAIN recent : recent[i] = k
  BY DEF RecentInv, ToSet
<1>6. ASSUME NEW j \in 1 .. i - 1, recent[j] \in Stored PROVE FALSE
  <2>1. j \in DOMAIN recent /\ j < i /\ j # i
    BY <1>1, <1>5
  <2>2. recent[j] # k
    BY <1>5, <2>1 DEF RecentInv, NoRepeats
  <2>3. Before(recent, recent[j], k)
    BY <1>5, <2>1 DEF Before
  <2>4. After(lru, recent[j], k)
    BY <1>6, <2>2, <2>3 DEF RecentInv
  <2>5. PICK m \in DOMAIN lru :
          lru[m] = k /\ \A n \in DOMAIN lru : lru[n] = recent[j] => n < m
    BY <2>4 DEF After
  <2>6. m = 1
    BY <1>4, <2>5 DEF NoDuplicates
  <2>7. PICK n \in DOMAIN lru : lru[n] = recent[j]
    BY <1>1, <1>6 DEF ToSet
  <2>8. n < 1 /\ n \in 1 .. Len(lru)
    BY <1>1, <2>5, <2>6, <2>7
  <2>9. QED
    BY <2>8
<1>7. QED
  BY <1>5, <1>6

\* Where no key is listed twice, the entry that makes room for a put is the
\* one whose last use is the oldest: the order of lru is the order of use.
THEOREM EvictionIsLru == RustSpec => LeastRecentEvicted
<1>1. AccountInv /\ RecentInv /\ [RustNext]_rustVars => RecentInv'
  BY RecentStep
<1>2. AccountInv /\ RecentInv /\ [RustNext]_rustVars => [NoDuplicates => OldestEvicted]_rustVars
  BY EvictsOldest
<1>3. QED
  BY RecentInit, <1>1, <1>2, Accounts, PTL DEF RustSpec, LeastRecentEvicted
=============================================================================
