---------------------------- MODULE Cache_proofs ----------------------------
(***************************************************************************)
(* Theorems of Cache for every number of threads, keys, entries and every  *)
(* limit: the LRU list never holds two entries, the mutex is held by the   *)
(* thread that is inside a function, the counters are those of the chains, *)
(* nothing refers to a freed entry, and the table implements CacheMap.     *)
(***************************************************************************)
EXTENDS Cache, Collections

NoLinks == [c \in Cells |-> Null]

\* The LRU list never has more than one entry, and no entry is ever linked to
\* another: cache_move_to_head unlinks an entry that is not in the list, which
\* empties the list.
ListOfOne ==
    /\ head = tail
    /\ \A c \in Cells : prev[c] = Null /\ next[c] = Null

\* ListOfOne with the types it needs: a list that is one entry or none.
OneOrNone(l) == l.head = l.tail /\ l.prev = NoLinks /\ l.next = NoLinks

ListInv == head = tail /\ prev = NoLinks /\ next = NoLinks

\* Unlinking any cell from a list of at most one empties it: with no links,
\* the cell looks like the first and the last of the list.
LEMMA UnlinkEmpties ==
    ASSUME NEW l, OneOrNone(l), NEW c \in Cells
    PROVE  /\ OneOrNone(RemoveFromList(l, c))
           /\ RemoveFromList(l, c).head = Null
BY DEF OneOrNone, NoLinks, RemoveFromList

\* Moving a cell to the head makes it the only one.
LEMMA MoveLeavesOne ==
    ASSUME NEW l, OneOrNone(l), NEW c \in Cells
    PROVE  /\ OneOrNone(MoveToHead(l, c))
           /\ MoveToHead(l, c).head = c
<1> DEFINE m == RemoveFromList(l, c)
<1>1. OneOrNone(m) /\ m.head = Null
  BY UnlinkEmpties
<1>2. OneOrNone(AddToHead(m, c)) /\ AddToHead(m, c).head = c
  <2> HIDE DEF m
  <2>1. QED
    BY <1>1 DEF OneOrNone, NoLinks, AddToHead
<1>3. QED
  BY <1>2 DEF MoveToHead

\* The empty cache has an empty list.
LEMMA InitOne == Init => ListInv
BY DEF Init, ListInv, NoLinks

\* An action that sets the list to one of at most one entry keeps ListInv.
LEMMA SetOne ==
    ASSUME NEW l, OneOrNone(l), SetList(l)
    PROVE  ListInv'
BY DEF OneOrNone, SetList, ListInv, NoLinks

\* Every step keeps the list at one entry at most.
LEMMA StepOne == ListInv /\ [Next]_vars => ListInv'
<1> SUFFICES ASSUME ListInv, [Next]_vars PROVE ListInv'
  OBVIOUS
<1>1. OneOrNone(List)
  BY DEF ListInv, OneOrNone, List
<1>2. CASE UNCHANGED listVars
  BY <1>2 DEF ListInv, listVars, NoLinks
<1>3. ASSUME NEW t \in Threads, GetHits(t) \/ GetFails(t) PROVE ListInv'
  <2>1. PICK c \in Cells : SetList(MoveToHead(List, c))
    BY <1>3 DEF GetHits, GetFails
  <2>2. QED
    BY <1>1, <2>1, MoveLeavesOne, SetOne
<1>4. ASSUME NEW t \in Threads, PutStores(t) PROVE ListInv'
  <2>1. PICK c \in Cells :
            SetList(MoveToHead([List EXCEPT !.prev[c] = Null, !.next[c] = Null], c))
    BY <1>4 DEF PutStores
  <2>2. OneOrNone([List EXCEPT !.prev[c] = Null, !.next[c] = Null])
    BY DEF ListInv, OneOrNone, List, NoLinks
  <2>3. QED
    BY <2>1, <2>2, MoveLeavesOne, SetOne
<1>5. ASSUME NEW t \in Threads, RemoveFrees(t) PROVE ListInv'
  <2>1. PICK c \in Cells : SetList(RemoveFromList(List, c))
    BY <1>5 DEF RemoveFrees
  <2>2. QED
    BY <1>1, <2>1, UnlinkEmpties, SetOne
<1>6. ASSUME NEW t \in Threads, ClearResets(t) PROVE ListInv'
  BY <1>6 DEF ClearResets, ListInv, NoLinks
<1>7. ASSUME NEW t \in Threads, Work(t),
             ~GetHits(t), ~GetFails(t), ~PutStores(t), ~RemoveFrees(t), ~ClearResets(t)
      PROVE  UNCHANGED listVars
  BY <1>7 DEF Work, GetMisses, GetFindsExpired, PutEvicts, PutSpins, PutFails,
     RemoveFindsNothing, WalkStarts, ClearFrees, CleanupPasses, CleanupFindsExpired,
     CleanupEnds, LockAgain, listVars, vars
<1>8. CASE UNCHANGED vars \/ Tick \/ \E t \in Threads : Call(t) \/ Acquire(t)
  BY <1>2, <1>8 DEF vars, Tick, Call, Acquire
<1>9. QED
  BY <1>2, <1>3, <1>4, <1>5, <1>6, <1>7, <1>8 DEF Next

\* No sequence of calls by any number of threads ever links two entries in the
\* LRU list: it holds the entry put or hit last, or nothing.  Whatever else is
\* in the table is out of reach of cache_evict_lru, cache_manager_clear and
\* cache_cleanup_expired, which start from this list.
THEOREM ListHoldsAtMostOne == Spec => []ListOfOne
<1>1. Spec => []ListInv
  BY InitOne, StepOne, PTL DEF Spec
<1>2. ListInv => ListOfOne
  BY DEF ListInv, ListOfOne, NoLinks
<1>3. QED
  BY <1>1, <1>2, PTL

------------------------------------------------------------------------------
\* MutexHeldInside with the types it needs.
MutexInv ==
    /\ mutex \in Threads \cup {Null}
    /\ pc = [t \in Threads |-> pc[t]]
    /\ MutexHeldInside

\* At first nobody holds the mutex.
LEMMA InitMutex == Init => MutexInv
BY CacheAssumption DEF Init, MutexInv, MutexHeldInside

\* A thread inside a function that unlocks and returns.
LEMMA ReturnUnlocks ==
    ASSUME MutexInv, NEW t \in Threads, pc[t] \in {"locked", "clear", "cleanup"},
           NEW a, Return(t, a)
    PROVE  MutexInv'
BY CacheAssumption DEF MutexInv, MutexHeldInside, Return

\* A thread inside a function that goes on to another place inside it.
LEMMA InsideKeeps ==
    ASSUME MutexInv, NEW t \in Threads, pc[t] \in {"locked", "clear", "cleanup"},
           NEW to \in {"locked", "clear", "cleanup", "relock"},
           pc' = [pc EXCEPT ![t] = to], mutex' = mutex
    PROVE  MutexInv'
BY DEF MutexInv, MutexHeldInside

\* Every step keeps the mutex with the thread that is inside.
LEMMA StepMutex == MutexInv /\ [Next]_vars => MutexInv'
<1> SUFFICES ASSUME MutexInv, [Next]_vars PROVE MutexInv'
  OBVIOUS
<1>1. CASE UNCHANGED <<mutex, pc>>
  BY <1>1 DEF MutexInv, MutexHeldInside
<1>2. CASE UNCHANGED vars \/ Tick
  BY <1>1, <1>2 DEF vars, Tick, callVars
<1>3. ASSUME NEW t \in Threads, Call(t) PROVE MutexInv'
  BY <1>3 DEF Call, Goto, MutexInv, MutexHeldInside
<1>4. ASSUME NEW t \in Threads, Acquire(t) PROVE MutexInv'
  BY <1>4, CacheAssumption DEF Acquire, Goto, MutexInv, MutexHeldInside
<1>5. ASSUME NEW t \in Threads, Work(t) PROVE MutexInv'
  <2>1. CASE GetMisses(t) \/ PutFails(t) \/ RemoveFindsNothing(t) \/ ClearResets(t) \/ CleanupEnds(t)
    <3>1. pc[t] \in {"locked", "clear", "cleanup"} /\ \E a : Return(t, a)
      BY <2>1 DEF GetMisses, PutFails, RemoveFindsNothing, ClearResets, CleanupEnds, Doing
    <3>2. QED
      BY <3>1, ReturnUnlocks
  <2>2. CASE GetHits(t) \/ GetFails(t) \/ PutStores(t) \/ RemoveFrees(t)
    <3>1. pc[t] = "locked" /\ \E a : Return(t, a)
      BY <2>2 DEF GetHits, GetFails, PutStores, RemoveFrees, Doing
    <3>2. QED
      BY <3>1, ReturnUnlocks
  <2>3. CASE GetFindsExpired(t) \/ PutEvicts(t) \/ CleanupFindsExpired(t)
    <3>1. pc[t] \in {"locked", "cleanup"} /\ LockAgain(t)
      BY <2>3 DEF GetFindsExpired, PutEvicts, CleanupFindsExpired, Doing
    <3>2. QED
      BY <3>1, InsideKeeps DEF LockAgain
  <2>4. CASE WalkStarts(t)
    BY <2>4, InsideKeeps DEF WalkStarts
  <2>5. CASE PutSpins(t) \/ ClearFrees(t) \/ CleanupPasses(t)
    BY <1>1, <2>5 DEF PutSpins, ClearFrees, CleanupPasses, vars, callVars
  <2>6. QED
    BY <1>5, <2>1, <2>2, <2>3, <2>4, <2>5 DEF Work
<1>6. QED
  BY <1>2, <1>3, <1>4, <1>5 DEF Next

\* For any number of threads and any calls: the mutex is held by exactly the
\* thread that is inside a function, or that waits there for itself.
THEOREM MutexWithThreadInside == Spec => []MutexHeldInside
<1>1. Spec => []MutexInv
  BY InitMutex, StepMutex, PTL DEF Spec
<1>2. MutexInv => MutexHeldInside
  BY DEF MutexInv
<1>3. QED
  BY <1>1, <1>2, PTL

------------------------------------------------------------------------------
(* The calls of the threads                                                *)

CallInv ==
    /\ arg = [t \in Threads |-> arg[t]] /\ pc = [t \in Threads |-> pc[t]]
    /\ \A t \in Threads : pc[t] # "idle" => arg[t] \in Calls
    /\ \A t \in Threads : pc[t] \in {"clear", "cleanup"} => arg[t].op = pc[t]

LEMMA CallStep == ASSUME CallInv, [Next]_vars PROVE CallInv'
<1>1. CASE UNCHANGED <<pc, arg>>
  BY <1>1 DEF CallInv
<1>2. ASSUME NEW t \in Threads, Call(t) PROVE CallInv'
  <2>1. PICK call \in Calls : arg' = [arg EXCEPT ![t] = call]
    BY <1>2 DEF Call
  <2>2. pc' = [pc EXCEPT ![t] = "lock"]
    BY <1>2 DEF Call, Goto
  <2>3. QED
    BY <2>1, <2>2, Zenon DEF CallInv
<1>3. ASSUME NEW t \in Threads, NEW a, Return(t, a) PROVE CallInv'
  BY <1>3 DEF CallInv, Return
<1>4. ASSUME NEW t \in Threads, pc[t] # "idle", NEW to, pc' = [pc EXCEPT ![t] = to], arg' = arg,
             to \in {"clear", "cleanup"} => arg[t].op = to
      PROVE  CallInv'
  BY <1>4 DEF CallInv
<1>5. ASSUME NEW t \in Threads, Acquire(t) PROVE CallInv'
  BY <1>4, <1>5 DEF Acquire, Goto
<1>6. ASSUME NEW t \in Threads, Work(t) PROVE CallInv'
  <2>1. CASE \/ GetMisses(t) \/ GetHits(t) \/ GetFails(t) \/ PutFails(t) \/ PutStores(t)
             \/ RemoveFindsNothing(t) \/ RemoveFrees(t) \/ ClearResets(t) \/ CleanupEnds(t)
    <3>1. \E a : Return(t, a)
      BY <2>1 DEF GetMisses, GetHits, GetFails, PutFails, PutStores, RemoveFindsNothing, RemoveFrees,
                  ClearResets, CleanupEnds
    <3>2. QED
      BY <1>3, <3>1
  <2>2. CASE GetFindsExpired(t) \/ PutEvicts(t) \/ CleanupFindsExpired(t)
    BY <1>4, <2>2 DEF GetFindsExpired, PutEvicts, CleanupFindsExpired, LockAgain, Doing
  <2>3. CASE WalkStarts(t)
    BY <1>4, <2>3 DEF WalkStarts
  <2>4. CASE PutSpins(t) \/ ClearFrees(t) \/ CleanupPasses(t)
    BY <1>1, <2>4 DEF PutSpins, ClearFrees, CleanupPasses, vars, callVars
  <2>5. QED
    BY <1>6, <2>1, <2>2, <2>3, <2>4 DEF Work
<1>7. CASE UNCHANGED vars \/ Tick
  BY <1>1, <1>7 DEF vars, Tick, callVars
<1>8. QED
  BY <1>2, <1>5, <1>6, <1>7 DEF Next

\* What the arguments of a put, a get and a remove are
LEMMA ArgIs ==
    ASSUME CallInv, NEW t \in Threads, pc[t] = "locked", arg[t].op \in {"get", "put", "remove"}
    PROVE  /\ arg[t].key \in Keys
           /\ arg[t].op = "put" => /\ arg[t].val \in Values
                                  /\ arg[t] = Map!PutOf(arg[t].key, arg[t].val)
           /\ arg[t].op = "get" => arg[t] = Map!GetOf(arg[t].key)
           /\ arg[t].op = "remove" => arg[t] = Map!RemoveOf(arg[t].key)
<1> USE DEF Map!PutOf, Map!GetOf, Map!RemoveOf
<1>1. arg[t] \in Calls
  BY DEF CallInv
<1>2. QED
  BY <1>1 DEF Calls

LEMMA WalkArgIs ==
    ASSUME CallInv, NEW t \in Threads, pc[t] \in {"clear", "cleanup"}
    PROVE  /\ pc[t] = "clear" => arg[t] = Map!ClearOf
           /\ pc[t] = "cleanup" => arg[t] = Map!CleanupOf
<1>1. arg[t] \in Calls /\ arg[t].op = pc[t]
  BY DEF CallInv
<1>2. QED
  BY <1>1 DEF Calls, Map!ClearOf, Map!CleanupOf

\* Nobody clears while another thread is inside.
LEMMA LockedAlone ==
    ASSUME MutexInv, NEW t \in Threads, pc[t] \in {"locked", "cleanup"}
    PROVE  ~Clearing
<1> SUFFICES ASSUME NEW u \in Threads, pc[u] = "clear" PROVE FALSE
  BY DEF Clearing
<1>1. mutex = t /\ mutex = u
  BY DEF MutexInv, MutexHeldInside
<1>2. QED
  BY <1>1

------------------------------------------------------------------------------
(* The table                                                               *)

Entry == [key : Keys, val : Values, left : 0 .. TTL]

Types ==
    /\ chain \in [Buckets -> Seq(Cells)]
    /\ cell = [c \in Cells |-> cell[c]]
    /\ \A c \in Chained : cell[c] \in Entry

\* Each entry hangs once, in the slot of its key.
InPlace ==
    \A b \in Buckets :
        /\ NoRepeats(chain[b])
        /\ \A c \in ToSet(chain[b]) : Hash[cell[c].key] = b

\* Between a clear's first free and its reset the table names freed entries.
Linked ==
    ~Clearing => Chained \subseteq live /\ {head, tail} \subseteq Chained \cup {Null}

TableInv ==
    /\ ListInv /\ MutexInv /\ CallInv
    /\ Types /\ InPlace /\ IsFiniteSet(Chained)
    /\ CountsExact
    /\ Linked

LEMMA ChainedIs ==
    ASSUME Types
    PROVE  /\ \A b \in Buckets : chain[b] \in Seq(Cells) /\ ToSet(chain[b]) \subseteq Chained
           /\ \A c \in Chained : c \in Cells /\ \E b \in Buckets : c \in ToSet(chain[b])
<1>1. ASSUME NEW b \in Buckets PROVE chain[b] \in Seq(Cells) /\ ToSet(chain[b]) \subseteq Cells
  <2>1. chain[b] \in Seq(Cells)
    BY DEF Types
  <2>2. QED
    BY <2>1 DEF ToSet
<1>2. QED
  BY <1>1 DEF Chained

\* In a table in place, an entry hangs in the slot of its key and in no other.
LEMMA HangsInSlot ==
    ASSUME Types, InPlace, NEW c \in Chained
    PROVE  c \in ToSet(chain[Hash[cell[c].key]]) /\ Hash[cell[c].key] \in Buckets
BY ChainedIs DEF InPlace

LEMMA InPlaceIsNoDangling == ASSUME Types, InPlace, Linked PROVE NoDangling
<1>1. ASSUME NEW b \in Buckets, NEW i \in DOMAIN chain[b], NEW j \in DOMAIN chain[b]
      PROVE  /\ Hash[cell[chain[b][i]].key] = b
             /\ i # j => chain[b][i] # chain[b][j]
  BY DEF InPlace, NoRepeats, ToSet
<1>2. QED
  BY <1>1 DEF NoDangling, Linked

------------------------------------------------------------------------------
(* The counters                                                            *)

Lengths == [b \in Buckets |-> Len(chain[b])]
SizesOf(K) == [c \in K |-> SizeOf[cell[c].val]]

LEMMA CountsAre ==
    ASSUME Types
    PROVE  /\ SumFunction(Lengths) = SumFunctionOnSet(Lengths, Buckets)
           /\ SumFunction(SizesOf(Chained)) = SumFunctionOnSet(SizesOf(Chained), Chained)
           /\ \A b \in Buckets : Lengths[b] = Len(chain[b]) /\ Lengths[b] \in Nat
           /\ \A c \in Chained : SizesOf(Chained)[c] = SizeOf[cell[c].val]
                                 /\ SizesOf(Chained)[c] \in Nat
<1>1. DOMAIN Lengths = Buckets /\ DOMAIN SizesOf(Chained) = Chained
  BY DEF Lengths, SizesOf
<1>2. \A b \in Buckets : Len(chain[b]) \in Nat
  BY DEF Types
<1>3. \A c \in Chained : cell[c].val \in Values /\ SizeOf[cell[c].val] \in Nat
  BY CacheAssumption DEF Types, Entry
<1>4. QED
  BY <1>1, <1>2, <1>3, SumFunctionIs DEF Lengths, SizesOf

\* CountsExact after a step that changes one chain
LEMMA LengthChange ==
    ASSUME Types, Types', NEW b \in Buckets, \A d \in Buckets \ {b} : chain'[d] = chain[d]
    PROVE  /\ SumFunction(Lengths)' + Len(chain[b]) = SumFunction(Lengths) + Len(chain'[b])
           /\ SumFunction(Lengths)' \in Nat /\ SumFunction(Lengths) \in Nat
<1>1. PICK f : f = Lengths
  OBVIOUS
<1>2. PICK g : g = Lengths'
  OBVIOUS
<1>3. \A d \in Buckets : f[d] = Len(chain[d]) /\ f[d] \in Nat /\ g[d] = Len(chain'[d]) /\ g[d] \in Nat
  <2>1. \A d \in Buckets : Len(chain[d]) \in Nat /\ Len(chain'[d]) \in Nat
    BY DEF Types
  <2>2. QED
    BY <1>1, <1>2, <2>1 DEF Lengths
<1>4. DOMAIN f = Buckets /\ DOMAIN g = Buckets
  BY <1>1, <1>2 DEF Lengths
<1>5. /\ SumFunctionOnSet(g, Buckets) + f[b] = SumFunctionOnSet(f, Buckets) + g[b]
      /\ SumFunctionOnSet(f, Buckets) \in Nat /\ SumFunctionOnSet(g, Buckets) \in Nat
  <2>1. IsFiniteSet(Buckets)
    BY CacheAssumption
  <2>2. \A d \in Buckets : f[d] \in Nat /\ g[d] \in Nat
    BY <1>3
  <2>3. \A d \in Buckets \ {b} : g[d] = f[d]
    BY <1>3
  <2>4. QED
    BY <2>1, <2>2, <2>3, SumChange
<1>6. /\ SumFunction(g) + f[b] = SumFunction(f) + g[b]
      /\ SumFunction(f) \in Nat /\ SumFunction(g) \in Nat
  BY <1>4, <1>5, SumFunctionIs
<1>7. QED
  BY <1>1, <1>2, <1>3, <1>6

\* The sizes when an entry comes and when one goes
LEMMA SizeCome ==
    ASSUME Types, Types', IsFiniteSet(Chained), NEW c, c \notin Chained,
           Chained' = Chained \cup {c}, \A d \in Chained : cell'[d].val = cell[d].val
    PROVE  /\ SumFunction(SizesOf(Chained))' =
                SumFunction(SizesOf(Chained)) + SizeOf[cell'[c].val]
           /\ SumFunction(SizesOf(Chained)) \in Nat
           /\ SizeOf[cell'[c].val] \in Nat
<1>1. PICK f : f = SizesOf(Chained)
  OBVIOUS
<1>2. PICK g : g = SizesOf(Chained)'
  OBVIOUS
<1>3. \A d \in Chained : f[d] = SizeOf[cell[d].val] /\ f[d] \in Nat
  BY <1>1, CountsAre
<1>4. \A d \in Chained \cup {c} : g[d] = SizeOf[cell'[d].val] /\ g[d] \in Nat
  <2>1. \A d \in Chained \cup {c} : cell'[d] \in Entry
    BY DEF Types
  <2>2. \A d \in Chained \cup {c} : SizeOf[cell'[d].val] \in Nat
    BY <2>1, CacheAssumption DEF Entry
  <2>3. QED
    BY <1>2, <2>2 DEF SizesOf
<1>5. DOMAIN f = Chained /\ DOMAIN g = Chained \cup {c}
  BY <1>1, <1>2 DEF SizesOf
<1>6. SumFunctionOnSet(g, Chained \cup {c}) = g[c] + SumFunctionOnSet(g, Chained)
  BY <1>4, SumAdd
<1>7. SumFunctionOnSet(g, Chained) = SumFunctionOnSet(f, Chained)
  <2>1. \A d \in Chained : g[d] = f[d]
    BY <1>3, <1>4
  <2>2. QED
    BY <2>1, SumSame
<1>8. SumFunctionOnSet(f, Chained) \in Nat
  BY <1>3, SumNat
<1>9. SumFunction(g) = SumFunction(f) + g[c] /\ g[c] \in Nat /\ SumFunction(f) \in Nat
  BY <1>4, <1>5, <1>6, <1>7, <1>8, SumFunctionIs
<1>10. QED
  BY <1>1, <1>2, <1>4, <1>9

LEMMA SizeGo ==
    ASSUME Types, Types', IsFiniteSet(Chained), NEW c \in Chained,
           Chained' = Chained \ {c}, \A d \in Chained' : cell'[d].val = cell[d].val
    PROVE  /\ SumFunction(SizesOf(Chained)) =
                SumFunction(SizesOf(Chained))' + SizeOf[cell[c].val]
           /\ SumFunction(SizesOf(Chained))' \in Nat
           /\ SizeOf[cell[c].val] \in Nat
<1>1. PICK f : f = SizesOf(Chained)
  OBVIOUS
<1>2. PICK g : g = SizesOf(Chained)'
  OBVIOUS
<1>3. PICK K : K = Chained \ {c}
  OBVIOUS
<1>4. \A d \in Chained : f[d] = SizeOf[cell[d].val] /\ f[d] \in Nat
  BY <1>1, CountsAre
<1>5. \A d \in K : g[d] = f[d]
  BY <1>2, <1>3, <1>4 DEF SizesOf
<1>6. DOMAIN f = Chained /\ DOMAIN g = K /\ IsFiniteSet(K)
  BY <1>1, <1>2, <1>3, FS_Subset DEF SizesOf
<1>7. SumFunctionOnSet(f, Chained) = f[c] + SumFunctionOnSet(f, K)
  BY <1>3, <1>4, SumRemove
<1>8. SumFunctionOnSet(f, K) = SumFunctionOnSet(g, K)
  BY <1>5, <1>6, SumSame
<1>9. SumFunctionOnSet(f, K) \in Nat
  BY <1>3, <1>4, <1>6, SumNat
<1>10. SumFunction(f) = SumFunction(g) + f[c] /\ SumFunction(g) \in Nat /\ f[c] \in Nat
  BY <1>4, <1>6, <1>7, <1>8, <1>9, SumFunctionIs
<1>11. QED
  BY <1>1, <1>2, <1>4, <1>10

------------------------------------------------------------------------------
(* The place of a key in its chain                                         *)

Place(s, m, k) == SelectInSeq(s, LAMBDA c : m[c].key = k)

\* The first entry of a chain that has the key, if one has
LEMMA FirstPlace ==
    ASSUME NEW T, NEW s \in Seq(T), NEW m, NEW k
    PROVE  \/ /\ Place(s, m, k) = 0
              /\ \A i \in 1 .. Len(s) : m[s[i]].key # k
           \/ /\ Place(s, m, k) \in 1 .. Len(s)
              /\ m[s[Place(s, m, k)]].key = k
              /\ \A i \in 1 .. Len(s) : m[s[i]].key = k => Place(s, m, k) <= i
<1> DEFINE I == {i \in 1 .. Len(s) : m[s[i]].key = k}
           p == Place(s, m, k)
<1>1. p = IF I # {} THEN Min(I) ELSE 0
  BY DEF Place, SelectInSeq
<1> HIDE DEF p
<1>2. CASE I # {}
  <2>1. I \in SUBSET Nat
    OBVIOUS
  <2> HIDE DEF I
  <2>2. \E n \in I : \A i \in I : n <= i
    BY <1>2, <2>1, LeastNumber
  <2>3. Min(I) \in I /\ \A i \in I : Min(I) <= i
    BY <2>2 DEF Min
  <2>4. p \in I /\ \A i \in I : p <= i
    BY <1>1, <1>2, <2>3
  <2>5. QED
    BY <2>4 DEF I, p
<1>3. CASE I = {}
  BY <1>1, <1>3 DEF p
<1>4. QED
  BY <1>2, <1>3

LEMMA FindIs ==
    ASSUME Types, NEW k \in Keys
    PROVE  \/ /\ Find(k) = Null
              /\ \A i \in 1 .. Len(chain[Hash[k]]) : cell[chain[Hash[k]][i]].key # k
           \/ /\ PlaceOf(k) \in 1 .. Len(chain[Hash[k]])
              /\ Find(k) = chain[Hash[k]][PlaceOf(k)]
              /\ Find(k) \in Chained /\ Find(k) # Null /\ Find(k) \in Cells
              /\ cell[Find(k)].key = k
<1> DEFINE s == chain[Hash[k]]
           p == PlaceOf(k)
<1>1. s \in Seq(Cells) /\ ToSet(s) \subseteq Chained /\ Chained \subseteq Cells
  BY ChainedIs, CacheAssumption
<1>2. p = Place(s, cell, k) /\ Find(k) = IF p = 0 THEN Null ELSE s[p]
  BY DEF PlaceOf, Place, Find
<1>3. \/ p = 0 /\ \A i \in 1 .. Len(s) : cell[s[i]].key # k
      \/ p \in 1 .. Len(s) /\ cell[s[p]].key = k
  BY <1>1, <1>2, FirstPlace
<1> HIDE DEF p
<1>4. CASE p = 0 /\ \A i \in 1 .. Len(s) : cell[s[i]].key # k
  BY <1>2, <1>4
<1>5. CASE p \in 1 .. Len(s) /\ cell[s[p]].key = k
  <2>1. p # 0 /\ p \in DOMAIN s
    BY <1>1, <1>5
  <2>2. s[p] \in ToSet(s)
    BY <2>1 DEF ToSet
  <2>3. s[p] \in Cells /\ s[p] # Null /\ s[p] \in Chained
    BY <1>1, <2>2, CacheAssumption
  <2>4. QED
    BY <1>2, <1>5, <2>1, <2>3 DEF p
<1>6. QED
  BY <1>3, <1>4, <1>5

------------------------------------------------------------------------------
(* The steps                                                               *)

\* Returning leaves nobody clearing, and so does a step of the holder that
\* goes elsewhere.
LEMMA ClearingStays ==
    ASSUME MutexInv, CallInv, NEW t \in Threads, pc[t] # "clear", NEW to, pc' = [pc EXCEPT ![t] = to]
    PROVE  Clearing => Clearing'
<1> SUFFICES ASSUME NEW u \in Threads, pc[u] = "clear" PROVE pc'[u] = "clear"
  BY DEF Clearing
<1>1. QED
  BY DEF CallInv

\* A step that leaves table and list alone
LEMMA QuietStep ==
    ASSUME TableInv, ListInv', MutexInv', CallInv',
           UNCHANGED <<chain, cell, live, entries, size, head, tail>>, Clearing => Clearing'
    PROVE  TableInv'
<1>1. Chained' = Chained
  BY DEF Chained
<1>2. Types' /\ InPlace'
  BY <1>1 DEF TableInv, Types, InPlace
<1>3. CountsExact'
  BY <1>1 DEF TableInv, CountsExact
<1>4. Linked'
  BY <1>1 DEF TableInv, Linked
<1>5. QED
  BY <1>1, <1>2, <1>3, <1>4 DEF TableInv

\* A content is put: its entry hangs in front of its chain.
LEMMA PutTable ==
    ASSUME TableInv, ListInv', MutexInv', CallInv', NEW t \in Threads, PutStores(t)
    PROVE  TableInv'
<1> DEFINE k == arg[t].key
           v == arg[t].val
           b == Hash[k]
<1>1. /\ pc[t] = "locked" /\ ~Full(SizeOf[v]) /\ k \in Keys /\ v \in Values /\ b \in Buckets
      /\ ~Clearing
  BY ArgIs, LockedAlone, CacheAssumption DEF PutStores, Doing, TableInv
<1>2. PICK c \in Cells \ live :
        /\ cell' = [cell EXCEPT ![c] = [key |-> k, val |-> v, left |-> TTL]]
        /\ chain' = [chain EXCEPT ![b] = <<c>> \o @]
        /\ live' = live \cup {c}
        /\ SetList(MoveToHead([List EXCEPT !.prev[c] = Null, !.next[c] = Null], c))
  BY DEF PutStores
<1>3. entries' = entries + 1 /\ size' = size + SizeOf[v]
  BY DEF PutStores
<1>4. head' = c
  <2>1. OneOrNone([List EXCEPT !.prev[c] = Null, !.next[c] = Null])
    BY DEF TableInv, ListInv, OneOrNone, List, NoLinks
  <2>2. QED
    BY <1>2, <2>1, MoveLeavesOne DEF SetList
<1> HIDE DEF k, v, b
<1>5. Types /\ InPlace /\ IsFiniteSet(Chained) /\ c \notin Chained
  BY <1>1, <1>2 DEF TableInv, Linked
<1>6. /\ cell'[c] = [key |-> k, val |-> v, left |-> TTL]
      /\ \A d \in Cells : d # c => cell'[d] = cell[d]
      /\ cell' = [d \in Cells |-> cell'[d]]
  BY <1>2, <1>5 DEF Types
<1>7. cell'[c] \in Entry
  BY <1>1, <1>6, CacheAssumption DEF Entry
<1>8. /\ chain[b] \in Seq(Cells) /\ chain'[b] = <<c>> \o chain[b]
      /\ \A d \in Buckets \ {b} : chain'[d] = chain[d]
  BY <1>1, <1>2, <1>5 DEF Types
<1>9. /\ chain'[b] \in Seq(Cells) /\ Len(chain'[b]) = Len(chain[b]) + 1
      /\ ToSet(chain'[b]) = {c} \cup ToSet(chain[b])
      /\ NoRepeats(chain'[b])
  <2>1. NoRepeats(chain[b]) /\ c \notin ToSet(chain[b])
    BY <1>1, <1>5, ChainedIs DEF InPlace
  <2>2. QED
    BY <1>8, <2>1, ConsIs
<1>10. Chained' = Chained \cup {c}
  <2>1. \A d \in Buckets : ToSet(chain'[d]) = IF d = b THEN {c} \cup ToSet(chain[d]) ELSE ToSet(chain[d])
    BY <1>8, <1>9
  <2>2. QED
    BY <1>1, <2>1 DEF Chained
<1>11. Types'
  <2>1. chain' \in [Buckets -> Seq(Cells)]
    BY <1>1, <1>2, <1>5, <1>8, <1>9 DEF Types
  <2>2. \A d \in Chained' : cell'[d] \in Entry
    BY <1>5, <1>6, <1>7, <1>10, ChainedIs DEF Types
  <2>3. QED
    BY <1>6, <2>1, <2>2 DEF Types
<1>12. InPlace'
  <2> SUFFICES ASSUME NEW d \in Buckets
               PROVE  NoRepeats(chain'[d]) /\ \A e \in ToSet(chain'[d]) : Hash[cell'[e].key] = d
    BY DEF InPlace
  <2>1. \A e \in ToSet(chain[d]) : cell'[e] = cell[e] /\ Hash[cell[e].key] = d
    BY <1>5, <1>6, ChainedIs DEF InPlace
  <2>2. CASE d = b
    <3>1. Hash[cell'[c].key] = b
      BY <1>6 DEF b
    <3>2. QED
      BY <1>9, <2>1, <2>2, <3>1
  <2>3. CASE d # b
    BY <1>5, <1>8, <2>1, <2>3 DEF InPlace
  <2>4. QED
    BY <2>2, <2>3
<1>13. CountsExact'
  <2>1. /\ entries = SumFunction(Lengths) /\ size = SumFunction(SizesOf(Chained))
        /\ entries <= MaxEntries /\ size <= MaxSize
    BY DEF TableInv, CountsExact, Lengths, SizesOf
  <2>2. /\ SumFunction(Lengths)' + Len(chain[b]) = SumFunction(Lengths) + Len(chain'[b])
        /\ SumFunction(Lengths)' \in Nat /\ SumFunction(Lengths) \in Nat
    BY <1>1, <1>5, <1>8, <1>11, LengthChange
  <2>3. entries' = SumFunction(Lengths)' /\ entries' <= MaxEntries
    <3>1. Len(chain[b]) \in Nat /\ Len(chain'[b]) = Len(chain[b]) + 1
      BY <1>8, <1>9
    <3>2. ~(entries >= MaxEntries) /\ MaxEntries \in Nat
      BY <1>1, CacheAssumption DEF Full
    <3>3. QED
      BY <1>3, <2>1, <2>2, <3>1, <3>2
  <2>4. \A d \in Chained : cell'[d].val = cell[d].val
    BY <1>5, <1>6, ChainedIs
  <2>5. /\ SumFunction(SizesOf(Chained))' = SumFunction(SizesOf(Chained)) + SizeOf[cell'[c].val]
        /\ SumFunction(SizesOf(Chained)) \in Nat
        /\ SizeOf[cell'[c].val] \in Nat
    BY <1>5, <1>10, <1>11, <2>4, SizeCome
  <2>6. size' = SumFunction(SizesOf(Chained))' /\ size' <= MaxSize
    <3>1. cell'[c].val = v
      BY <1>6
    <3>2. ~(size + SizeOf[v] > MaxSize) /\ MaxSize \in Nat
      BY <1>1, CacheAssumption DEF Full
    <3>3. QED
      BY <1>3, <2>1, <2>5, <3>1, <3>2
  <2>7. QED
    BY <2>3, <2>6 DEF CountsExact, Lengths, SizesOf
<1>14. Linked'
  BY <1>1, <1>2, <1>4, <1>5, <1>10 DEF TableInv, Linked, ListInv
<1>15. QED
  BY <1>10, <1>11, <1>12, <1>13, <1>14, <1>5, FS_AddElement DEF TableInv

\* An entry is removed: it is taken out of its chain and freed.
LEMMA RemoveTable ==
    ASSUME TableInv, ListInv', MutexInv', CallInv', NEW t \in Threads, RemoveFrees(t)
    PROVE  TableInv'
<1> DEFINE k == arg[t].key
           b == Hash[k]
           p == PlaceOf(k)
<1>1. pc[t] = "locked" /\ k \in Keys /\ b \in Buckets /\ ~Clearing
  BY ArgIs, LockedAlone, CacheAssumption DEF RemoveFrees, Doing, TableInv
<1>2. PICK c \in Cells :
        /\ c = Find(k)
        /\ chain' = [chain EXCEPT ![b] = RemoveAt(@, p)]
        /\ SetList(RemoveFromList(List, c))
        /\ entries' = entries - 1
        /\ size' = size - SizeOf[cell[c].val]
        /\ live' = live \ {c}
        /\ cell' = [cell EXCEPT ![c] = Blank]
  BY DEF RemoveFrees
<1>3. Types /\ InPlace /\ IsFiniteSet(Chained) /\ Chained \subseteq live
  BY <1>1 DEF TableInv, Linked
<1>4. p \in 1 .. Len(chain[b]) /\ c = chain[b][p] /\ c \in Chained /\ c # Null
  <2>1. c # Null
    BY CacheAssumption
  <2>2. QED
    BY <1>1, <1>2, <1>3, <2>1, FindIs
<1>5. head' = Null
  <2>1. OneOrNone(List)
    BY DEF TableInv, ListInv, OneOrNone, List
  <2>2. QED
    BY <1>2, <2>1, UnlinkEmpties DEF SetList
<1> HIDE DEF k, b, p
<1>6. /\ \A d \in Cells : d # c => cell'[d] = cell[d]
      /\ cell' = [d \in Cells |-> cell'[d]]
  BY <1>2, <1>3 DEF Types
<1>7. /\ chain[b] \in Seq(Cells) /\ chain'[b] = RemoveAt(chain[b], p)
      /\ \A d \in Buckets \ {b} : chain'[d] = chain[d]
  BY <1>1, <1>2, <1>3 DEF Types
<1>8. /\ chain'[b] \in Seq(Cells) /\ Len(chain'[b]) = Len(chain[b]) - 1
      /\ ToSet(chain'[b]) = ToSet(chain[b]) \ {c}
      /\ NoRepeats(chain'[b])
  <2>1. NoRepeats(chain[b])
    BY <1>1, <1>3 DEF InPlace
  <2>2. RemoveAt(chain[b], p) \in Seq(Cells) /\ Len(RemoveAt(chain[b], p)) = Len(chain[b]) - 1
    BY <1>4, <1>7, RemoveAtIs
  <2>3. /\ ToSet(RemoveAt(chain[b], p)) = ToSet(chain[b]) \ {chain[b][p]}
        /\ NoRepeats(RemoveAt(chain[b], p))
    BY <1>4, <1>7, <2>1, RemoveAtOne
  <2>4. QED
    BY <1>4, <1>7, <2>2, <2>3
<1>9. \A d \in Buckets : ToSet(chain'[d]) = ToSet(chain[d]) \ {c}
  <2> SUFFICES ASSUME NEW d \in Buckets PROVE ToSet(chain'[d]) = ToSet(chain[d]) \ {c}
    OBVIOUS
  <2>1. CASE d = b
    BY <1>8, <2>1
  <2>2. CASE d # b
    <3>1. c \in ToSet(chain[b])
      BY <1>4, <1>7 DEF ToSet
    <3>2. c \notin ToSet(chain[d])
      BY <1>1, <1>3, <2>2, <3>1 DEF InPlace
    <3>3. QED
      BY <1>7, <2>2, <3>2
  <2>3. QED
    BY <2>1, <2>2
<1>10. Chained' = Chained \ {c}
  BY <1>9 DEF Chained
<1>11. Types'
  <2>1. chain' \in [Buckets -> Seq(Cells)]
    BY <1>1, <1>2, <1>3, <1>7, <1>8 DEF Types
  <2>2. \A d \in Chained' : cell'[d] \in Entry
    BY <1>3, <1>6, <1>10, ChainedIs DEF Types
  <2>3. QED
    BY <1>6, <2>1, <2>2 DEF Types
<1>12. InPlace'
  <2> SUFFICES ASSUME NEW d \in Buckets
               PROVE  NoRepeats(chain'[d]) /\ \A e \in ToSet(chain'[d]) : Hash[cell'[e].key] = d
    BY DEF InPlace
  <2>1. ASSUME NEW e \in ToSet(chain'[d]) PROVE cell'[e] = cell[e] /\ Hash[cell[e].key] = d
    <3>1. e \in ToSet(chain[d]) /\ e # c
      BY <1>9
    <3>2. e \in Cells
      BY <1>3, <3>1, ChainedIs
    <3>3. QED
      BY <1>3, <1>6, <3>1, <3>2 DEF InPlace
  <2>2. NoRepeats(chain'[d])
    BY <1>3, <1>7, <1>8 DEF InPlace
  <2>3. QED
    BY <2>1, <2>2
<1>13. CountsExact'
  <2>1. /\ entries = SumFunction(Lengths) /\ size = SumFunction(SizesOf(Chained))
        /\ entries <= MaxEntries /\ size <= MaxSize
    BY DEF TableInv, CountsExact, Lengths, SizesOf
  <2>2. /\ SumFunction(Lengths)' + Len(chain[b]) = SumFunction(Lengths) + Len(chain'[b])
        /\ SumFunction(Lengths)' \in Nat /\ SumFunction(Lengths) \in Nat
    BY <1>1, <1>3, <1>7, <1>11, LengthChange
  <2>3. entries' = SumFunction(Lengths)' /\ entries' <= MaxEntries
    <3>1. Len(chain[b]) \in Nat /\ Len(chain'[b]) = Len(chain[b]) - 1
      BY <1>7, <1>8
    <3>2. MaxEntries \in Nat
      BY CacheAssumption
    <3>3. QED
      BY <1>2, <2>1, <2>2, <3>1, <3>2
  <2>4. \A d \in Chained' : cell'[d].val = cell[d].val
    BY <1>3, <1>6, <1>10, ChainedIs
  <2>5. /\ SumFunction(SizesOf(Chained)) = SumFunction(SizesOf(Chained))' + SizeOf[cell[c].val]
        /\ SumFunction(SizesOf(Chained))' \in Nat
        /\ SizeOf[cell[c].val] \in Nat
    BY <1>3, <1>4, <1>10, <1>11, <2>4, SizeGo
  <2>6. size' = SumFunction(SizesOf(Chained))' /\ size' <= MaxSize
    <3>1. MaxSize \in Nat
      BY CacheAssumption
    <3>2. QED
      BY <1>2, <2>1, <2>5, <3>1
  <2>7. QED
    BY <2>3, <2>6 DEF CountsExact, Lengths, SizesOf
<1>14. Linked'
  BY <1>2, <1>3, <1>5, <1>10 DEF TableInv, Linked, ListInv
<1>15. IsFiniteSet(Chained')
  BY <1>3, <1>10, FS_Subset
<1>16. QED
  BY <1>10, <1>11, <1>12, <1>13, <1>14, <1>15 DEF TableInv

\* The end of a clear: nothing hangs in the table any more.
LEMMA ClearTable ==
    ASSUME TableInv, ListInv', MutexInv', CallInv', NEW t \in Threads, ClearResets(t)
    PROVE  TableInv'
<1>1. /\ chain' = [b \in Buckets |-> <<>>] /\ entries' = 0 /\ size' = 0
      /\ head' = Null /\ tail' = Null
      /\ cell' = [c \in Cells |-> IF c \in live THEN cell[c] ELSE Blank]
  BY DEF ClearResets
<1>2. Chained' = {}
  BY <1>1 DEF Chained, ToSet
<1>3. Types' /\ InPlace' /\ IsFiniteSet(Chained')
  <2>1. \A b \in Buckets : NoRepeats(chain'[b]) /\ ToSet(chain'[b]) = {}
    BY <1>1 DEF NoRepeats, ToSet
  <2>2. QED
    BY <1>1, <1>2, <2>1, FS_EmptySet DEF Types, InPlace
<1>4. CountsExact'
  <2>1. PICK f : f = Lengths'
    OBVIOUS
  <2>2. PICK g : g = SizesOf(Chained)'
    OBVIOUS
  <2>3. DOMAIN f = Buckets /\ \A b \in Buckets : f[b] = 0
    BY <1>1, <2>1 DEF Lengths
  <2>4. SumFunctionOnSet(f, Buckets) = 0
    BY <2>3, SumZero, CacheAssumption
  <2>5. DOMAIN g = {}
    BY <1>2, <2>2 DEF SizesOf
  <2>6. SumFunction(f) = 0 /\ SumFunction(g) = 0
    BY <2>3, <2>4, <2>5, SumFunctionIs, SumEmpty
  <2>7. SumFunction(Lengths)' = 0 /\ SumFunction(SizesOf(Chained))' = 0
    BY <2>1, <2>2, <2>6
  <2>8. QED
    BY <1>1, <2>7, CacheAssumption DEF CountsExact, Lengths, SizesOf
<1>5. Linked'
  BY <1>1, <1>2 DEF Linked
<1>6. QED
  BY <1>2, <1>3, <1>4, <1>5 DEF TableInv

\* Time passes: keys and contents stay.
LEMMA TickTable ==
    ASSUME TableInv, ListInv', MutexInv', CallInv', Tick
    PROVE  TableInv'
<1>1. /\ cell' = [c \in Cells |-> IF cell[c].left > 0 THEN [cell[c] EXCEPT !.left = @ - 1]
                                  ELSE cell[c]]
      /\ UNCHANGED <<chain, live, entries, size, head, tail, pc>>
  BY DEF Tick, listVars, callVars
<1>2. Types /\ InPlace /\ IsFiniteSet(Chained) /\ Chained' = Chained
  BY <1>1 DEF TableInv, Chained
<1>3. ASSUME NEW c \in Chained
      PROVE  cell'[c] \in Entry /\ cell'[c].key = cell[c].key /\ cell'[c].val = cell[c].val
  <2>1. c \in Cells /\ cell[c] \in Entry
    BY <1>2, ChainedIs DEF Types
  <2>2. cell'[c] = IF cell[c].left > 0 THEN [cell[c] EXCEPT !.left = @ - 1] ELSE cell[c]
    BY <1>1, <2>1
  <2>3. QED
    BY <2>1, <2>2, CacheAssumption DEF Entry
<1>4. Types'
  BY <1>1, <1>2, <1>3 DEF Types
<1>5. InPlace'
  <2>1. \A b \in Buckets : \A c \in ToSet(chain[b]) : cell'[c].key = cell[c].key
    BY <1>2, <1>3, ChainedIs
  <2>2. QED
    BY <1>1, <1>2, <2>1 DEF InPlace
<1>6. CountsExact'
  <2>1. PICK K : K = Chained
    OBVIOUS
  <2>2. [c \in K |-> SizeOf[cell'[c].val]] = [c \in K |-> SizeOf[cell[c].val]]
    BY <1>3, <2>1
  <2>3. QED
    BY <1>1, <1>2, <2>1, <2>2 DEF TableInv, CountsExact
<1>7. Linked'
  BY <1>1, <1>2 DEF TableInv, Linked, Clearing
<1>8. QED
  BY <1>2, <1>4, <1>5, <1>6, <1>7 DEF TableInv

LEMMA TableStep == ASSUME TableInv, [Next]_vars PROVE TableInv'
<1>1. ListInv' /\ MutexInv' /\ CallInv' /\ MutexInv /\ CallInv
  BY StepOne, StepMutex, CallStep DEF TableInv
<1>2. CASE UNCHANGED <<tableVars, head, tail, pc>>
  <2>1. Clearing => Clearing'
    BY <1>2 DEF Clearing
  <2>2. QED
    BY <1>1, <1>2, <2>1, QuietStep DEF tableVars
<1>3. ASSUME NEW t \in Threads, pc[t] # "clear", NEW to, pc' = [pc EXCEPT ![t] = to],
             UNCHANGED <<tableVars, head, tail>>
      PROVE  TableInv'
  <2>1. Clearing => Clearing'
    BY <1>1, <1>3, ClearingStays
  <2>2. QED
    BY <1>1, <1>3, <2>1, QuietStep DEF tableVars
<1>4. ASSUME NEW t \in Threads, Call(t) \/ Acquire(t) PROVE TableInv'
  BY <1>3, <1>4 DEF Call, Acquire, Goto, listVars
<1>5. ASSUME NEW t \in Threads, GetHits(t) \/ GetFails(t) PROVE TableInv'
  <2>1. pc[t] = "locked" /\ arg[t].key \in Keys /\ ~Clearing /\ UNCHANGED tableVars
    BY <1>1, <1>5, ArgIs, LockedAlone DEF GetHits, GetFails, Doing
  <2>2. PICK c \in Cells : c = Find(arg[t].key) /\ SetList(MoveToHead(List, c))
    BY <1>5 DEF GetHits, GetFails
  <2>3. c \in Chained
    <3>1. c # Null
      BY CacheAssumption
    <3>2. QED
      BY <2>1, <2>2, <3>1, FindIs DEF TableInv
  <2>4. head' = c /\ tail' = c
    <3>1. OneOrNone(List)
      BY DEF TableInv, ListInv, OneOrNone, List
    <3>2. QED
      BY <1>1, <2>2, <3>1, MoveLeavesOne DEF SetList, ListInv
  <2>5. Chained' = Chained /\ live' = live /\ Chained \subseteq live
    BY <2>1 DEF tableVars, Chained, TableInv, Linked
  <2>6. Types' /\ InPlace' /\ CountsExact'
    BY <2>1, <2>5 DEF tableVars, TableInv, Types, InPlace, CountsExact
  <2>7. Linked'
    BY <2>3, <2>4, <2>5 DEF Linked
  <2>8. QED
    BY <1>1, <2>5, <2>6, <2>7 DEF TableInv
<1>6. ASSUME NEW t \in Threads, ClearFrees(t) PROVE TableInv'
  <2>1. Clearing'
    BY <1>6 DEF ClearFrees, Clearing
  <2>2. UNCHANGED <<chain, cell, entries, size, head, tail>>
    BY <1>6 DEF ClearFrees, listVars
  <2>3. Chained' = Chained
    BY <2>2 DEF Chained
  <2>4. Types' /\ InPlace' /\ CountsExact'
    BY <2>2, <2>3 DEF TableInv, Types, InPlace, CountsExact
  <2>5. Linked'
    BY <2>1 DEF Linked
  <2>6. QED
    BY <1>1, <2>3, <2>4, <2>5 DEF TableInv
<1>7. ASSUME NEW t \in Threads, Work(t) PROVE TableInv'
  <2>1. CASE GetMisses(t) \/ PutFails(t) \/ RemoveFindsNothing(t) \/ CleanupEnds(t)
    <3>1. pc[t] # "clear" /\ UNCHANGED <<tableVars, head, tail>> /\ pc' = [pc EXCEPT ![t] = "idle"]
      BY <2>1 DEF GetMisses, PutFails, RemoveFindsNothing, CleanupEnds, Doing, Return, listVars
    <3>2. QED
      BY <1>3, <3>1
  <2>2. CASE GetFindsExpired(t) \/ PutEvicts(t) \/ CleanupFindsExpired(t)
    <3>1. pc[t] # "clear" /\ UNCHANGED <<tableVars, head, tail>> /\ pc' = [pc EXCEPT ![t] = "relock"]
      BY <2>2 DEF GetFindsExpired, PutEvicts, CleanupFindsExpired, Doing, LockAgain, listVars
    <3>2. QED
      BY <1>3, <3>1
  <2>3. CASE WalkStarts(t)
    <3>1. /\ pc[t] # "clear" /\ UNCHANGED <<tableVars, head, tail>>
          /\ pc' = [pc EXCEPT ![t] = arg[t].op]
      BY <2>3 DEF WalkStarts, listVars
    <3>2. QED
      BY <1>3, <3>1
  <2>4. CASE PutSpins(t) \/ CleanupPasses(t)
    BY <1>2, <2>4 DEF PutSpins, CleanupPasses, vars, callVars, listVars
  <2>5. QED
    BY <1>1, <1>5, <1>6, <1>7, <2>1, <2>2, <2>3, <2>4, PutTable, RemoveTable, ClearTable DEF Work
<1>8. CASE UNCHANGED vars
  BY <1>2, <1>8 DEF vars, listVars, callVars
<1>9. QED
  BY <1>1, <1>4, <1>7, <1>8, TickTable DEF Next

LEMMA TableInit == ASSUME Init PROVE TableInv
<1>1. ListInv /\ MutexInv
  BY InitOne, InitMutex
<1>2. CallInv
  BY DEF Init, CallInv
<1>3. Chained = {} /\ \A b \in Buckets : NoRepeats(chain[b]) /\ ToSet(chain[b]) = {}
  BY DEF Init, Chained, ToSet, NoRepeats
<1>4. Types /\ InPlace /\ IsFiniteSet(Chained)
  BY <1>3, FS_EmptySet DEF Init, Types, InPlace
<1>5. CountsExact
  <2>1. DOMAIN Lengths = Buckets /\ \A b \in Buckets : Lengths[b] = 0
    BY DEF Init, Lengths
  <2>2. SumFunctionOnSet(Lengths, Buckets) = 0
    BY <2>1, SumZero, CacheAssumption
  <2>3. DOMAIN SizesOf(Chained) = {}
    BY <1>3 DEF SizesOf
  <2>4. SumFunction(Lengths) = 0 /\ SumFunction(SizesOf(Chained)) = 0
    BY <2>1, <2>2, <2>3, SumFunctionIs, SumEmpty
  <2>5. QED
    BY <2>4, CacheAssumption DEF Init, CountsExact, Lengths, SizesOf
<1>6. Linked
  BY <1>3 DEF Init, Linked
<1>7. QED
  BY <1>1, <1>2, <1>4, <1>5, <1>6 DEF TableInv

LEMMA TableHolds == Spec => []TableInv
<1>1. TableInv /\ [Next]_vars => TableInv'
  BY TableStep
<1>2. QED
  BY TableInit, <1>1, PTL DEF Spec

\* current_entries and current_size are what hangs in the table, after any
\* calls of any threads, puts of a key that is there and removals of its
\* copies among them, and neither exceeds its limit.
THEOREM CountersAreExact == Spec => []CountsExact
<1>1. TableInv => CountsExact
  BY DEF TableInv
<1>2. QED
  BY <1>1, TableHolds, PTL

\* Outside a clear, the table and the ends of the LRU list name allocated
\* entries only, and each entry hangs once, in the slot of its key.
THEOREM NothingDangles == Spec => []NoDangling
<1>1. TableInv => NoDangling
  BY InPlaceIsNoDangling DEF TableInv
<1>2. QED
  BY <1>1, TableHolds, PTL

------------------------------------------------------------------------------
(* The table as a map: what a chain gives under a key                      *)

FindIn(s, m, k) == IF Place(s, m, k) = 0 THEN Null ELSE s[Place(s, m, k)]

Shown(c, m) ==
    IF c # Null /\ m[c].left > 0 THEN [val |-> m[c].val, left |-> m[c].left]
    ELSE [val |-> Null, left |-> 0]

LEMMA ContentsAre ==
    /\ Contents = [k \in Keys |-> Shown(FindIn(chain[Hash[k]], cell, k), cell)]
    /\ Contents' = [k \in Keys |-> Shown(FindIn(chain'[Hash[k]], cell', k), cell')]
<1>1. Contents = [k \in Keys |-> Shown(FindIn(chain[Hash[k]], cell, k), cell)]
  BY DEF Contents, Find, PlaceOf, Place, FindIn, Shown, Fresh
<1>2. (Contents = [k \in Keys |-> Shown(FindIn(chain[Hash[k]], cell, k), cell)])'
  BY <1>1, PTL
<1>3. QED
  BY <1>1, <1>2

LEMMA FindInIs ==
    ASSUME NEW T, NEW s \in Seq(T), NEW m, NEW k
    PROVE  \/ /\ FindIn(s, m, k) = Null
              /\ \A i \in 1 .. Len(s) : m[s[i]].key # k
           \/ \E p \in 1 .. Len(s) :
              /\ FindIn(s, m, k) = s[p] /\ m[s[p]].key = k
              /\ \A i \in 1 .. Len(s) : m[s[i]].key = k => p <= i
<1> DEFINE p == Place(s, m, k)
<1>1. FindIn(s, m, k) = IF p = 0 THEN Null ELSE s[p]
  BY DEF FindIn
<1>2. \/ p = 0 /\ \A i \in 1 .. Len(s) : m[s[i]].key # k
      \/ /\ p \in 1 .. Len(s) /\ m[s[p]].key = k
         /\ \A i \in 1 .. Len(s) : m[s[i]].key = k => p <= i
  BY FirstPlace
<1> HIDE DEF p
<1>3. p \in 1 .. Len(s) => p # 0
  OBVIOUS
<1>4. QED
  BY <1>1, <1>2, <1>3

IsFirst(s, m, k, p) ==
    /\ p \in 1 .. Len(s) /\ m[s[p]].key = k
    /\ \A i \in 1 .. Len(s) : m[s[i]].key = k => p <= i

\* What the first entry with the key is, the chain gives.
LEMMA FindInFirst ==
    ASSUME NEW T, NEW s \in Seq(T), NEW m, NEW k, NEW p, IsFirst(s, m, k, p)
    PROVE  FindIn(s, m, k) = s[p]
<1> USE DEF IsFirst
<1>1. PICK q \in 1 .. Len(s) :
        /\ FindIn(s, m, k) = s[q] /\ m[s[q]].key = k
        /\ \A i \in 1 .. Len(s) : m[s[i]].key = k => q <= i
  BY FindInIs
<1>2. q <= p /\ p <= q /\ p \in Int /\ q \in Int
  BY <1>1
<1>3. QED
  BY <1>1, <1>2

LEMMA FindInNone ==
    ASSUME NEW T, NEW s \in Seq(T), NEW m, NEW k, \A i \in 1 .. Len(s) : m[s[i]].key # k
    PROVE  FindIn(s, m, k) = Null
BY FindInIs

\* Only the keys of the chain's entries matter.
LEMMA FindInSame ==
    ASSUME NEW T, NEW s \in Seq(T), NEW m, NEW n, NEW k, \A x \in ToSet(s) : n[x].key = m[x].key
    PROVE  FindIn(s, n, k) = FindIn(s, m, k)
<1>1. \A i \in 1 .. Len(s) : n[s[i]].key = m[s[i]].key
  BY DEF ToSet
<1>2. CASE \A i \in 1 .. Len(s) : m[s[i]].key # k
  BY <1>1, <1>2, FindInNone
<1>3. CASE \E i \in 1 .. Len(s) : m[s[i]].key = k
  <2>1. PICK p \in 1 .. Len(s) :
          /\ FindIn(s, m, k) = s[p] /\ m[s[p]].key = k
          /\ \A i \in 1 .. Len(s) : m[s[i]].key = k => p <= i
    BY <1>3, FindInIs
  <2>2. IsFirst(s, n, k, p)
    BY <1>1, <2>1 DEF IsFirst
  <2>3. FindIn(s, n, k) = s[p]
    BY <2>2, FindInFirst
  <2>4. QED
    BY <2>1, <2>3
<1>4. QED
  BY <1>2, <1>3

\* An entry put in front hides those behind it that have its key.
LEMMA FindInFront ==
    ASSUME NEW T, NEW s \in Seq(T), NEW m, NEW k, NEW x \in T
    PROVE  FindIn(<<x>> \o s, m, k) = IF m[x].key = k THEN x ELSE FindIn(s, m, k)
<1> DEFINE t == <<x>> \o s
<1>1. /\ t \in Seq(T) /\ Len(t) = Len(s) + 1 /\ Len(s) \in Nat /\ t[1] = x
      /\ \A i \in DOMAIN s : i \in Nat /\ i > 0 /\ t[i + 1] = s[i]
      /\ \A i \in DOMAIN t : i \in Nat /\ i > 0 /\ (i = 1 \/ (i - 1 \in DOMAIN s /\ t[i] = s[i - 1]))
  BY ConsIs
<1> HIDE DEF t
<1>2. 1 \in 1 .. Len(t) /\ t \in Seq(T) /\ \A i \in 1 .. Len(t) : i \in DOMAIN t
  BY <1>1
<1>3. CASE m[x].key = k
  <2>1. PICK p \in 1 .. Len(t) : p = 1 /\ t[p] = x
    BY <1>1, <1>2
  <2>2. IsFirst(t, m, k, p)
    BY <1>3, <2>1 DEF IsFirst
  <2>3. FindIn(t, m, k) = t[p]
    BY <1>2, <2>2, FindInFirst
  <2>4. QED
    BY <1>3, <2>1, <2>3 DEF t
<1>4. CASE m[x].key # k /\ \A i \in 1 .. Len(s) : m[s[i]].key # k
  <2>1. ASSUME NEW i \in 1 .. Len(t) PROVE m[t[i]].key # k
    <3>1. i = 1 \/ (i - 1 \in 1 .. Len(s) /\ t[i] = s[i - 1])
      BY <1>1, <1>2
    <3>2. QED
      BY <1>1, <1>4, <3>1
  <2>2. FindIn(t, m, k) = Null
    BY <1>1, <2>1, FindInNone
  <2>3. FindIn(s, m, k) = Null
    BY <1>4, FindInNone
  <2>4. QED
    BY <1>4, <2>2, <2>3 DEF t
<1>5. CASE m[x].key # k /\ \E i \in 1 .. Len(s) : m[s[i]].key = k
  <2>1. PICK p \in 1 .. Len(s) :
          /\ FindIn(s, m, k) = s[p] /\ m[s[p]].key = k
          /\ \A i \in 1 .. Len(s) : m[s[i]].key = k => p <= i
    BY <1>5, FindInIs
  <2>2. p + 1 \in 1 .. Len(t) /\ t[p + 1] = s[p]
    BY <1>1
  <2>3. ASSUME NEW i \in 1 .. Len(t), m[t[i]].key = k PROVE p + 1 <= i
    <3>1. i # 1
      BY <1>1, <1>5, <2>3
    <3>2. i \in DOMAIN t
      BY <1>2
    <3>3. i - 1 \in DOMAIN s /\ t[i] = s[i - 1]
      BY <1>1, <3>1, <3>2
    <3>4. i - 1 \in 1 .. Len(s)
      BY <3>3
    <3>5. p <= i - 1
      BY <2>1, <2>3, <3>3, <3>4
    <3>6. QED
      BY <3>5
  <2>4. PICK q \in 1 .. Len(t) : q = p + 1 /\ t[q] = s[p]
    BY <2>2
  <2>5. IsFirst(t, m, k, q)
    BY <2>1, <2>3, <2>4 DEF IsFirst
  <2>6. FindIn(t, m, k) = t[q]
    BY <1>2, <2>5, FindInFirst
  <2>7. QED
    BY <1>5, <2>1, <2>4, <2>6 DEF t
<1>6. QED
  BY <1>3, <1>4, <1>5

\* The only entry with its key taken out
LEMMA FindInWithout ==
    ASSUME NEW T, NEW s \in Seq(T), NEW m, NEW k, NEW p \in 1 .. Len(s),
           \A i \in 1 .. Len(s) : m[s[i]].key = m[s[p]].key => i = p
    PROVE  FindIn(RemoveAt(s, p), m, k) = IF m[s[p]].key = k THEN Null ELSE FindIn(s, m, k)
<1> DEFINE r == RemoveAt(s, p)
<1>1. /\ r \in Seq(T) /\ Len(r) = Len(s) - 1 /\ Len(s) \in Nat
      /\ \A j \in 1 .. Len(s) - 1 : r[j] = IF j < p THEN s[j] ELSE s[j + 1]
  BY RemoveAtIs
<1> HIDE DEF r
<1>2. ASSUME NEW j \in 1 .. Len(r)
      PROVE  \E i \in 1 .. Len(s) : i # p /\ i = (IF j < p THEN j ELSE j + 1) /\ r[j] = s[i]
  <2>1. CASE j < p
    BY <1>1, <2>1
  <2>2. CASE ~(j < p)
    BY <1>1, <2>2
  <2>3. QED
    BY <2>1, <2>2
<1>3. CASE \A j \in 1 .. Len(r) : m[r[j]].key # k
  <2>1. FindIn(r, m, k) = Null
    BY <1>1, <1>3, FindInNone
  <2>2. ASSUME m[s[p]].key # k PROVE FindIn(s, m, k) = Null
    <3>1. ASSUME NEW i \in 1 .. Len(s), m[s[i]].key = k PROVE FALSE
      <4>1. i # p
        BY <2>2, <3>1
      <4>2. CASE i < p
        <5>1. i \in 1 .. Len(r) /\ r[i] = s[i]
          BY <1>1, <4>2
        <5>2. QED
          BY <1>3, <3>1, <5>1
      <4>3. CASE i > p
        <5>1. i - 1 \in 1 .. Len(r) /\ (i - 1) + 1 = i /\ ~(i - 1 < p)
          BY <1>1, <4>3
        <5>2. r[i - 1] = s[i]
          BY <1>1, <5>1
        <5>3. QED
          BY <1>3, <3>1, <5>1, <5>2
      <4>4. QED
        BY <4>1, <4>2, <4>3
    <3>2. QED
      BY <3>1, FindInNone
  <2>3. QED
    BY <2>1, <2>2 DEF r
<1>4. CASE \E j \in 1 .. Len(r) : m[r[j]].key = k
  <2>1. PICK j \in 1 .. Len(r) :
          /\ FindIn(r, m, k) = r[j] /\ m[r[j]].key = k
          /\ \A i \in 1 .. Len(r) : m[r[i]].key = k => j <= i
    <3>1. r \in Seq(T)
      BY <1>1
    <3>2. QED
      BY <1>4, <3>1, FindInIs
  <2>2. PICK i \in 1 .. Len(s) : i # p /\ i = (IF j < p THEN j ELSE j + 1) /\ r[j] = s[i]
    BY <1>2
  <2>3. m[s[p]].key # k
    BY <2>1, <2>2
  <2>4. ASSUME NEW n \in 1 .. Len(s), m[s[n]].key = k PROVE i <= n
    <3>1. n # p
      BY <2>3, <2>4
    <3>2. CASE n < p
      <4>1. n \in 1 .. Len(r) /\ r[n] = s[n]
        BY <1>1, <3>2
      <4>2. j <= n
        BY <2>1, <2>4, <4>1
      <4>3. QED
        BY <2>2, <3>2, <4>2
    <3>3. CASE n > p
      <4>1. n - 1 \in 1 .. Len(r) /\ (n - 1) + 1 = n /\ ~(n - 1 < p)
        BY <1>1, <3>3
      <4>2. r[n - 1] = s[n]
        BY <1>1, <4>1
      <4>3. j <= n - 1
        BY <2>1, <2>4, <4>1, <4>2
      <4>4. QED
        BY <2>2, <4>3
    <3>4. QED
      BY <3>1, <3>2, <3>3
  <2>5. IsFirst(s, m, k, i)
    BY <2>1, <2>2, <2>4 DEF IsFirst
  <2>6. FindIn(s, m, k) = s[i]
    BY <2>5, FindInFirst
  <2>7. QED
    BY <2>1, <2>2, <2>3, <2>6 DEF r
<1>5. QED
  BY <1>3, <1>4

------------------------------------------------------------------------------
(* The steps of the table as steps of the map                              *)

\* What the table gives under a key is what the entry found there holds.
LEMMA ContentIs ==
    ASSUME NEW k \in Keys
    PROVE  /\ Find(k) = FindIn(chain[Hash[k]], cell, k)
           /\ Contents[k] = Shown(Find(k), cell)
           /\ Contents'[k] = Shown(FindIn(chain'[Hash[k]], cell', k), cell')
           /\ DOMAIN Contents = Keys /\ DOMAIN Contents' = Keys
<1>1. Find(k) = FindIn(chain[Hash[k]], cell, k)
  BY DEF Find, PlaceOf, Place, FindIn
<1>2. QED
  BY <1>1, ContentsAre

LEMMA ContentsKept ==
    ASSUME UNCHANGED <<chain, cell>>
    PROVE  Contents' = Contents
BY ContentsAre

LEMMA PutContents ==
    ASSUME TableInv, NEW t \in Threads, PutStores(t)
    PROVE  /\ arg[t].key \in Keys /\ arg[t].val \in Values
           /\ Contents' = [Contents EXCEPT ![arg[t].key] = [val |-> arg[t].val, left |-> TTL]]
<1> DEFINE k == arg[t].key
           v == arg[t].val
           b == Hash[k]
<1>1. k \in Keys /\ v \in Values /\ b \in Buckets /\ ~Clearing
  BY ArgIs, LockedAlone, CacheAssumption DEF PutStores, Doing, TableInv
<1>2. PICK c \in Cells \ live :
        /\ cell' = [cell EXCEPT ![c] = [key |-> k, val |-> v, left |-> TTL]]
        /\ chain' = [chain EXCEPT ![b] = <<c>> \o @]
  BY DEF PutStores
<1> HIDE DEF k, v, b
<1>3. Types /\ c \notin Chained /\ c # Null
  BY <1>1, <1>2, CacheAssumption DEF TableInv, Linked
<1>4. /\ cell'[c] = [key |-> k, val |-> v, left |-> TTL]
      /\ \A d \in Chained : cell'[d] = cell[d]
  BY <1>2, <1>3, ChainedIs DEF Types
<1>5. /\ chain'[b] = <<c>> \o chain[b]
      /\ \A d \in Buckets \ {b} : chain'[d] = chain[d]
  BY <1>1, <1>2, <1>3 DEF Types
<1>6. ASSUME NEW q \in Keys
      PROVE  Contents'[q] = IF q = k THEN [val |-> v, left |-> TTL] ELSE Contents[q]
  <2> DEFINE s == chain[Hash[q]]
             f == FindIn(s, cell, q)
  <2>1. s \in Seq(Cells) /\ Hash[q] \in Buckets /\ ToSet(s) \subseteq Chained
    BY <1>3, ChainedIs, CacheAssumption
  <2>2. FindIn(s, cell', q) = f
    <3>1. \A x \in ToSet(s) : cell'[x].key = cell[x].key
      BY <1>4, <2>1
    <3>2. QED
      BY <2>1, <3>1, FindInSame
  <2>3. f = Null \/ f \in Chained
    BY <1>3, FindIs, ContentIs
  <2>4. Shown(f, cell') = Shown(f, cell)
    BY <1>4, <2>3 DEF Shown
  <2>5. Contents[q] = Shown(f, cell) /\ Contents'[q] = Shown(FindIn(chain'[Hash[q]], cell', q), cell')
    BY ContentIs
  <2> HIDE DEF s, f
  <2>6. CASE q = k
    <3>1. FindIn(<<c>> \o chain[b], cell', k) = c
      <4>1. cell'[c].key = k /\ chain[b] \in Seq(Cells)
        BY <1>1, <1>3, <1>4 DEF Types
      <4>2. QED
        BY <4>1, FindInFront
    <3>2. Shown(c, cell') = [val |-> v, left |-> TTL]
      BY <1>3, <1>4, CacheAssumption DEF Shown
    <3>3. QED
      BY <1>5, <2>5, <2>6, <3>1, <3>2 DEF b
  <2>7. CASE q # k /\ Hash[q] = b
    <3>1. FindIn(<<c>> \o s, cell', q) = FindIn(s, cell', q)
      <4>1. cell'[c].key # q
        BY <1>4, <2>7
      <4>2. QED
        BY <2>1, <4>1, FindInFront
    <3>2. chain'[Hash[q]] = <<c>> \o s
      BY <1>5, <2>7 DEF s
    <3>3. QED
      BY <2>2, <2>4, <2>5, <2>7, <3>1, <3>2
  <2>8. CASE q # k /\ Hash[q] # b
    <3>1. chain'[Hash[q]] = s
      BY <1>5, <2>1, <2>8 DEF s
    <3>2. QED
      BY <2>2, <2>4, <2>5, <2>8, <3>1
  <2>9. QED
    BY <2>6, <2>7, <2>8
<1>7. Contents' = [Contents EXCEPT ![k] = [val |-> v, left |-> TTL]]
  BY <1>1, <1>6, ContentsAre
<1>8. QED
  BY <1>1, <1>7 DEF k, v

\* While no key hangs twice, the removal leaves nothing under its key.
LEMMA RemoveContents ==
    ASSUME TableInv, Distinct, NEW t \in Threads, RemoveFrees(t)
    PROVE  /\ arg[t].key \in Keys
           /\ Contents' = [Contents EXCEPT ![arg[t].key] = [val |-> Null, left |-> 0]]
<1> DEFINE k == arg[t].key
           b == Hash[k]
           p == PlaceOf(k)
<1>1. k \in Keys /\ b \in Buckets
  BY ArgIs, CacheAssumption DEF RemoveFrees, Doing, TableInv
<1>2. PICK c \in Cells :
        /\ c = Find(k)
        /\ chain' = [chain EXCEPT ![b] = RemoveAt(@, p)]
        /\ cell' = [cell EXCEPT ![c] = Blank]
  BY DEF RemoveFrees
<1>3. Types /\ InPlace
  BY DEF TableInv
<1>4. /\ p \in 1 .. Len(chain[b]) /\ c = chain[b][p] /\ c \in Chained /\ c # Null
      /\ cell[c].key = k
  <2>1. c # Null
    BY CacheAssumption
  <2>2. QED
    BY <1>1, <1>2, <1>3, <2>1, FindIs
<1> HIDE DEF k, b, p
<1>5. \A d \in Chained : d # c => cell'[d] = cell[d]
  BY <1>2, <1>3, ChainedIs DEF Types
<1>6. /\ chain[b] \in Seq(Cells) /\ chain'[b] = RemoveAt(chain[b], p)
      /\ \A d \in Buckets \ {b} : chain'[d] = chain[d]
  BY <1>1, <1>2, <1>3 DEF Types
<1>7. NoRepeats(chain[b]) /\ \A i \in 1 .. Len(chain[b]) : chain[b][i] \in Chained
  <2>1. \A i \in 1 .. Len(chain[b]) : chain[b][i] \in ToSet(chain[b])
    BY <1>6 DEF ToSet
  <2>2. QED
    BY <1>1, <1>3, <2>1, ChainedIs DEF InPlace
<1>8. \A i \in 1 .. Len(chain[b]) : cell[chain[b][i]].key = k => i = p
  <2> SUFFICES ASSUME NEW i \in 1 .. Len(chain[b]), cell[chain[b][i]].key = k PROVE i = p
    OBVIOUS
  <2>1. chain[b][i] = chain[b][p]
    BY <1>4, <1>7 DEF Distinct
  <2>2. i \in DOMAIN chain[b] /\ p \in DOMAIN chain[b]
    BY <1>4, <1>6
  <2>3. QED
    BY <1>7, <2>1, <2>2 DEF NoRepeats
<1>9. /\ RemoveAt(chain[b], p) \in Seq(Cells)
      /\ ToSet(RemoveAt(chain[b], p)) = ToSet(chain[b]) \ {c}
  <2>1. RemoveAt(chain[b], p) \in Seq(Cells)
    BY <1>4, <1>6, RemoveAtIs
  <2>2. ToSet(RemoveAt(chain[b], p)) = ToSet(chain[b]) \ {chain[b][p]}
    BY <1>4, <1>6, <1>7, RemoveAtOne
  <2>3. QED
    BY <1>4, <2>1, <2>2
<1>10. ASSUME NEW q \in Keys
       PROVE  Contents'[q] = IF q = k THEN [val |-> Null, left |-> 0] ELSE Contents[q]
  <2> DEFINE s == chain[Hash[q]]
             f == FindIn(s, cell, q)
  <2>1. s \in Seq(Cells) /\ Hash[q] \in Buckets /\ ToSet(s) \subseteq Chained
    BY <1>3, ChainedIs, CacheAssumption
  <2>2. Contents[q] = Shown(f, cell) /\ Contents'[q] = Shown(FindIn(chain'[Hash[q]], cell', q), cell')
    BY ContentIs
  <2>3. f = Null \/ (f \in Chained /\ cell[f].key = q)
    BY <1>3, FindIs, ContentIs
  <2>4. q # k => Shown(f, cell') = Shown(f, cell)
    BY <1>4, <1>5, <2>3 DEF Shown
  <2>5. CASE Hash[q] = b
    <3>1. \A x \in ToSet(RemoveAt(chain[b], p)) : cell'[x].key = cell[x].key
      BY <1>5, <1>9, <2>1, <2>5
    <3>2. FindIn(RemoveAt(chain[b], p), cell', q) = FindIn(RemoveAt(chain[b], p), cell, q)
      BY <1>9, <3>1, FindInSame
    <3>3. cell[chain[b][p]].key = k
      BY <1>4
    <3>4. FindIn(RemoveAt(chain[b], p), cell, q) =
            IF cell[chain[b][p]].key = q THEN Null ELSE FindIn(chain[b], cell, q)
      BY <1>4, <1>6, <1>8, <3>3, FindInWithout
    <3>5. CASE q = k
      <4>1. FindIn(chain'[Hash[q]], cell', q) = Null
        BY <1>6, <2>5, <3>2, <3>3, <3>4, <3>5
      <4>2. QED
        BY <2>2, <3>5, <4>1 DEF Shown
    <3>6. CASE q # k
      <4>1. FindIn(chain'[Hash[q]], cell', q) = f
        BY <1>6, <2>5, <3>2, <3>3, <3>4, <3>6
      <4>2. QED
        BY <2>2, <2>4, <3>6, <4>1
    <3>7. QED
      BY <3>5, <3>6
  <2>6. CASE Hash[q] # b
    <3>1. q # k /\ chain'[Hash[q]] = s
      BY <1>6, <2>1, <2>6 DEF b
    <3>2. c \notin ToSet(s)
      BY <1>3, <1>4, <2>1, <2>6 DEF InPlace, b
    <3>3. \A x \in ToSet(s) : cell'[x].key = cell[x].key
      BY <1>5, <2>1, <3>2
    <3>4. FindIn(s, cell', q) = f
      BY <2>1, <3>3, FindInSame
    <3>5. QED
      BY <2>2, <2>4, <3>1, <3>4
  <2>7. QED
    BY <2>5, <2>6
<1>11. Contents' = [Contents EXCEPT ![k] = [val |-> Null, left |-> 0]]
  BY <1>1, <1>10, ContentsAre
<1>12. QED
  BY <1>1, <1>11 DEF k

LEMMA ClearContents ==
    ASSUME NEW t \in Threads, ClearResets(t)
    PROVE  Contents' = [k \in Keys |-> [val |-> Null, left |-> 0]]
<1>1. ASSUME NEW k \in Keys PROVE Contents'[k] = [val |-> Null, left |-> 0]
  <2>1. chain'[Hash[k]] = <<>>
    BY CacheAssumption DEF ClearResets
  <2>2. <<>> \in Seq(Cells) /\ \A i \in 1 .. Len(<<>>) : FALSE
    OBVIOUS
  <2>3. FindIn(<<>>, cell', k) = Null
    BY <2>2, FindInNone
  <2>4. QED
    BY <2>1, <2>3, ContentIs DEF Shown
<1>2. QED
  BY <1>1, ContentsAre

LEMMA TickContents ==
    ASSUME TableInv, Tick
    PROVE  Contents' = [k \in Keys |-> IF Contents[k].left <= 1 THEN [val |-> Null, left |-> 0]
                                       ELSE [Contents[k] EXCEPT !.left = @ - 1]]
<1>1. ASSUME NEW k \in Keys
      PROVE  Contents'[k] = IF Contents[k].left <= 1 THEN [val |-> Null, left |-> 0]
                            ELSE [Contents[k] EXCEPT !.left = @ - 1]
  <2> DEFINE s == chain[Hash[k]]
             f == FindIn(s, cell, k)
  <2>1. Types /\ s \in Seq(Cells) /\ ToSet(s) \subseteq Chained
    BY ChainedIs, CacheAssumption DEF TableInv
  <2>2. ASSUME NEW c \in Chained
        PROVE  /\ cell[c] \in Entry /\ cell'[c].key = cell[c].key
               /\ cell'[c] = IF cell[c].left > 0 THEN [cell[c] EXCEPT !.left = @ - 1] ELSE cell[c]
    <3>1. c \in Cells /\ cell[c] \in Entry
      BY <2>1, ChainedIs DEF Types
    <3>2. cell'[c] = IF cell[c].left > 0 THEN [cell[c] EXCEPT !.left = @ - 1] ELSE cell[c]
      BY <3>1 DEF Tick
    <3>3. QED
      BY <3>1, <3>2 DEF Entry
  <2>3. FindIn(s, cell', k) = f
    <3>1. \A x \in ToSet(s) : cell'[x].key = cell[x].key
      BY <2>1, <2>2
    <3>2. QED
      BY <2>1, <3>1, FindInSame
  <2>4. Contents[k] = Shown(f, cell) /\ Contents'[k] = Shown(FindIn(chain'[Hash[k]], cell', k), cell')
    BY ContentIs
  <2>5. chain'[Hash[k]] = s
    BY DEF Tick
  <2>6. f = Null \/ f \in Chained
    BY <2>1, FindIs, ContentIs
  <2> HIDE DEF s, f
  <2>7. Contents'[k] = Shown(f, cell')
    BY <2>3, <2>4, <2>5
  <2>8. CASE f = Null \/ ~(cell[f].left > 0)
    <3>1. Contents[k] = [val |-> Null, left |-> 0]
      BY <2>4, <2>8 DEF Shown
    <3>2. Contents'[k] = [val |-> Null, left |-> 0]
      BY <2>2, <2>6, <2>7, <2>8 DEF Shown
    <3>3. QED
      BY <3>1, <3>2
  <2>9. CASE f # Null /\ cell[f].left > 0
    <3>1. /\ cell[f] \in Entry /\ cell[f].left \in Nat /\ cell[f].left > 0
          /\ cell'[f] = [cell[f] EXCEPT !.left = @ - 1]
      BY <2>2, <2>6, <2>9 DEF Entry
    <3>2. cell'[f].left = cell[f].left - 1 /\ cell'[f].val = cell[f].val
      BY <3>1 DEF Entry
    <3>3. Contents[k] = [val |-> cell[f].val, left |-> cell[f].left]
      BY <2>4, <2>9 DEF Shown
    <3>4. Contents'[k] = IF cell[f].left <= 1 THEN [val |-> Null, left |-> 0]
                         ELSE [val |-> cell[f].val, left |-> cell[f].left - 1]
      BY <2>7, <2>9, <3>1, <3>2 DEF Shown
    <3>5. QED
      BY <3>3, <3>4
  <2>10. QED
    BY <2>8, <2>9
<1>2. QED
  BY <1>1, ContentsAre

\* Every step is one of the map, or changes nothing a caller can see.
LEMMA MapSteps ==
    ASSUME TableInv, Distinct, [Next]_vars
    PROVE  UNCHANGED <<Contents, ans>> \/ Map!Next
<1> DEFINE Seen == UNCHANGED <<Contents, ans>> \/ Map!Next
<1> USE DEF Map!Answer, Map!Missing
<1>0. CallInv
  BY DEF TableInv
<1>1. CASE UNCHANGED <<chain, cell, ans>>
  BY <1>1, ContentsKept
<1>2. ASSUME NEW t \in Threads, Call(t) PROVE Map!Ask(t)
  BY <1>2, ContentsKept DEF Call, tableVars, Map!Ask
<1>3. ASSUME NEW t \in Threads, GetMisses(t) PROVE \E k \in Keys : Map!Get(t, k)
  <2>1. PICK k \in Keys : arg[t] = Map!GetOf(k) /\ Find(k) = Null
    BY <1>0, <1>3, ArgIs DEF GetMisses, Doing
  <2>2. Contents[k] = [val |-> Null, left |-> 0]
    BY <2>1, ContentIs DEF Shown
  <2>3. ans' = [ans EXCEPT ![t] = [to |-> arg[t], is |-> "miss"]] /\ Contents' = Contents
    BY <1>3, ContentsKept DEF GetMisses, Return, tableVars
  <2>4. Map!Get(t, k)
    BY <2>1, <2>2, <2>3 DEF Map!Get
  <2>5. QED
    BY <2>4
<1>4. ASSUME NEW t \in Threads, GetHits(t) \/ GetFails(t)
      PROVE  \E k \in Keys : Map!Get(t, k) \/ Map!GetFails(t, k)
  <2>1. PICK k \in Keys, c \in Cells :
          /\ arg[t] = Map!GetOf(k) /\ c = Find(k) /\ Fresh(c)
          /\ \/ Return(t, cell[c].val)
             \/ Return(t, "failed")
    BY <1>0, <1>4, ArgIs DEF GetHits, GetFails, Doing
  <2>2. Contents[k] = [val |-> cell[c].val, left |-> cell[c].left] /\ cell[c].left > 0
    BY <2>1, ContentIs, CacheAssumption DEF Shown, Fresh
  <2>3. Contents[k] # [val |-> Null, left |-> 0] /\ Contents[k].val = cell[c].val
    BY <2>2
  <2>4. Contents' = Contents
    BY <1>4, ContentsKept DEF GetHits, GetFails, tableVars
  <2>5. \/ ans' = [ans EXCEPT ![t] = [to |-> Map!GetOf(k), is |-> cell[c].val]]
        \/ ans' = [ans EXCEPT ![t] = [to |-> Map!GetOf(k), is |-> "failed"]]
    BY <2>1 DEF Return
  <2>6. Map!Get(t, k) \/ Map!GetFails(t, k)
    BY <2>3, <2>4, <2>5 DEF Map!Get, Map!GetFails
  <2>7. QED
    BY <2>6
<1>5. ASSUME NEW t \in Threads, PutFails(t) PROVE \E k \in Keys, v \in Values : Map!Refuse(t, k, v)
  <2>1. PICK k \in Keys, v \in Values : arg[t] = Map!PutOf(k, v)
    BY <1>0, <1>5, ArgIs DEF PutFails, Doing
  <2>2. Map!Refuse(t, k, v)
    BY <1>5, <2>1, ContentsKept DEF PutFails, Return, tableVars, Map!Refuse
  <2>3. QED
    BY <2>2
<1>6. ASSUME NEW t \in Threads, PutStores(t) PROVE \E k \in Keys, v \in Values : Map!Put(t, k, v)
  <2>1. PICK k \in Keys, v \in Values :
          k = arg[t].key /\ v = arg[t].val /\ arg[t] = Map!PutOf(k, v)
    BY <1>0, <1>6, ArgIs DEF PutStores, Doing
  <2>2. Contents' = [Contents EXCEPT ![k] = [val |-> v, left |-> TTL]]
    BY <1>6, <2>1, PutContents
  <2>3. Map!Put(t, k, v)
    BY <1>6, <2>1, <2>2 DEF PutStores, Return, Map!Put
  <2>4. QED
    BY <2>3
<1>7. ASSUME NEW t \in Threads, RemoveFindsNothing(t) PROVE \E k \in Keys : Map!DeleteNothing(t, k)
  <2>1. PICK k \in Keys : arg[t] = Map!RemoveOf(k) /\ Find(k) = Null
    BY <1>0, <1>7, ArgIs DEF RemoveFindsNothing, Doing
  <2>2. Contents[k] = [val |-> Null, left |-> 0]
    BY <2>1, ContentIs DEF Shown
  <2>3. ans' = [ans EXCEPT ![t] = [to |-> arg[t], is |-> "absent"]] /\ Contents' = Contents
    BY <1>7, ContentsKept DEF RemoveFindsNothing, Return, tableVars
  <2>4. Map!DeleteNothing(t, k)
    BY <2>1, <2>2, <2>3 DEF Map!DeleteNothing
  <2>5. QED
    BY <2>4
<1>8. ASSUME NEW t \in Threads, RemoveFrees(t) PROVE \E k \in Keys : Map!Delete(t, k)
  <2>1. PICK k \in Keys : k = arg[t].key /\ arg[t] = Map!RemoveOf(k)
    BY <1>0, <1>8, ArgIs DEF RemoveFrees, Doing
  <2>2. Contents' = [Contents EXCEPT ![k] = [val |-> Null, left |-> 0]]
    BY <1>8, <2>1, RemoveContents
  <2>3. Map!Delete(t, k)
    BY <1>8, <2>1, <2>2 DEF RemoveFrees, Return, Map!Delete
  <2>4. QED
    BY <2>3
<1>9. ASSUME NEW t \in Threads, ClearResets(t) PROVE Map!Clear(t)
  <2>1. arg[t] = Map!ClearOf
    BY <1>0, <1>9, WalkArgIs DEF ClearResets
  <2>2. QED
    BY <1>9, <2>1, ClearContents DEF ClearResets, Return, Map!Clear
<1>10. ASSUME NEW t \in Threads, CleanupEnds(t) PROVE Map!Cleanup(t)
  <2>1. arg[t] = Map!CleanupOf
    BY <1>0, <1>10, WalkArgIs DEF CleanupEnds
  <2>2. QED
    BY <1>10, <2>1, ContentsKept DEF CleanupEnds, Return, tableVars, Map!Cleanup
<1>11. ASSUME Tick PROVE Map!Age
  BY <1>11, TickContents DEF Tick, callVars, Map!Age
<1>12. ASSUME NEW t \in Threads,
              \/ Acquire(t) \/ GetFindsExpired(t) \/ PutEvicts(t) \/ PutSpins(t)
              \/ WalkStarts(t) \/ ClearFrees(t) \/ CleanupPasses(t) \/ CleanupFindsExpired(t)
       PROVE  UNCHANGED <<chain, cell, ans>>
  BY <1>12 DEF Acquire, GetFindsExpired, PutEvicts, PutSpins, WalkStarts, ClearFrees,
     CleanupPasses, CleanupFindsExpired, LockAgain, tableVars, callVars, vars
<1>13. ASSUME NEW t \in Threads, Call(t) \/ Acquire(t) \/ Work(t) PROVE Seen
  <2>1. CASE \/ Call(t) \/ GetMisses(t) \/ GetHits(t) \/ GetFails(t) \/ PutFails(t) \/ PutStores(t)
    BY <1>2, <1>3, <1>4, <1>5, <1>6, <2>1 DEF Map!Next
  <2>2. CASE \/ RemoveFindsNothing(t) \/ RemoveFrees(t) \/ ClearResets(t) \/ CleanupEnds(t)
    BY <1>7, <1>8, <1>9, <1>10, <2>2 DEF Map!Next
  <2>3. QED
    BY <1>1, <1>12, <1>13, <2>1, <2>2 DEF Work
<1>14. CASE UNCHANGED vars
  BY <1>1, <1>14 DEF vars, tableVars, callVars
<1>15. QED
  BY <1>11, <1>13, <1>14 DEF Next, Map!Next

\* The table is the map its users expect: while no key hangs in it twice,
\* every answer and every change of what a get would find are, at one instant,
\* those that the caller's own call, under its own key, has on the map of
\* CacheMap, whatever the threads interleave.
THEOREM TableActsAsMap == Spec => TableIsMap
<1>1. TableInv /\ [Next]_vars => [Distinct => UNCHANGED <<Contents, ans>> \/ Map!Next]_vars
  BY MapSteps
<1>2. QED
  BY <1>1, TableHolds, PTL DEF Spec, TableIsMap
=============================================================================
