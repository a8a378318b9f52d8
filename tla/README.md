# Verification of the ANX HTTP server

TLA+ models of the server in `src/`, TLC runs on small instances of them, and theorems about
them that TLAPS checks for every instance. `PROJECT.json` lists the runs, the source lines every
definition stands for, the mutants that show that each property can fail, the findings and the
hazards.

Commands, in this directory: `tlc -config Upstream.cfg MCUpstream` for a run, `tlapm
LoadBalancer_proofs.tla` for the proofs of a module.

## 1. The system

One **master** process (`core/main.c`) opens the listening sockets, forks `worker_processes`
**workers** and waits for them. Each worker is a single thread in `worker_loop` (`core/net.c`):
an edge-triggered epoll loop with a fixed pool of connection slots, which hands complete
requests to the **HTTP** or **HTTPS** handler (`http/`). A handler looks up a route, answers
from the **C cache** or from disk, or proxies the request to a server of an **upstream group**
that the **load balancer** chooses. **Health-check** threads set the statuses of the upstream
servers. Workers share nothing but the sockets: every other structure is copied by `fork`.

| component | state | operations | what is hard | what makes it correct |
|---|---|---|---|---|
| Master (`core/main.c`) | `worker_pids`, `num_workers_spawned` | fork loop, wait loop, `signal_handler`, `cleanup_resources` | signals between two steps, workers that end in any order, fork failing half way | the handler knows all workers; nobody is left behind; zombies are reaped; a signal ends the server |
| Worker (`core/net.c`, `http/http.c`) | epoll set, slots, descriptors | accept, read, handle, hang up, idle cleanup | edge-triggered events, stale slot pointers, descriptors reused, clients that stop half way | pending connections are served; slots come back; requests are answered |
| Load balancer (`proxy/load_balancer.c`) | per server: status, connections, failures; the round-robin index; a mutex | four selections, availability with failure windows, connect, count, blame | walks of a list with an index beside it, counters without a lock, error paths | exact counters; selections end, after one lap at the latest; strategies pick what they say |
| Proxying (`proxy/lb_proxy.c`) | locals of a request | select, connect, send, forward, close | each step may fail | every way out gives the connection back |
| Health checks (`proxy/health_check.c`) | manager, thread, history ring, static counters | start, replace, stop, check, add to history | thread against stop, counters shared by accident | no thread outlives its manager; stop returns; failing servers go down |
| C cache (`utils/cache.c`) | hash table, LRU list, counters, a mutex | get, put, remove, clear, cleanup | mutex taken twice, links of two structures through the same entry | a map with expiry; no dangling entry; every entry where eviction finds it; exact counters; no self-deadlock |
| Rust cache (`rust_modules/cache/mod.rs`) | map, list of keys, byte count | get, put, remove, clear, cleanup, enable | list and map drifting apart, sizes that underflow | limits, evictability, LRU, a map that may forget |
| Bandwidth (`utils/bandwidth.c`) | token bucket | acquire, three senders | rounding, clamped waits, partial sends, endless retries | bytes within the rate; a bounded overrun |
| Upstream groups (`proxy/load_balancer.c`, `core/core.c`) | groups, servers, weights | load, add, refuse, remove, pick by weight | counts beside lists, weights that must cancel out | counts agree with lists; a round gives each server its weight |
| HTTPS handler (`http/https.c`, `proxy/proxy.c`, `find_route`) | locals of a request, its file, its log entry | route, relay, stat, open, compress, look up, send, store | twenty ways out, files that change, relays that break, writes nobody looks at | the best route; everything released, logged once; honest lengths |
| Memory pool (`utils/asm/asm_mempool.c`) | a free list per size and pool, counters | alloc, free, collect, destroy | unlocked gaps, blocks that change pools, headers that are overwritten | a block is in one place; usages add up |
| Assembly (`utils/asm/asm_opt.c`) | none | memory, string, search, encoding and header routines | words, vectors, tails, overlaps | what the C library's definition says |
| TCP stream proxy (`stream/stream.c`) | listeners, connections, descriptors of the process | start, stop, accept, connect, forward, clean up | three kinds of threads open and close numbers that are reused | each number is its connection's; bytes in order; an end ends the proxy |
| Event push (`stream/push.c`) | list of clients, its count | request, create, headers, link, free | the limit checked in one critical section, the client linked in another | a bounded, counted list; nothing left open |
| Configuration parser, logging, headers, chunks, compression, health API, Rust parsers and bindings | mostly none | parsing and formatting | data, not control | not modelled (see 8) |

Three interactions deserve a remark. The health-check threads are started by
`create_core_config`, before the workers are forked, and threads do not survive a fork: in a
worker the statuses never change after the configuration was read. And the C cache is called by
the HTTPS handler of one single-threaded worker; its mutex is there for threads the server does
not have yet. The models have both: the server as it ships, and the threads the locks are for.
Last, every thread of the stream proxy names its sockets by numbers of one descriptor table, so
what one thread closes is what another gets next; `Stream` has that table for this reason.

## 2. Modules

| module | models | EXTENDS / INSTANCE |
|---|---|---|
| `LoadBalancer` | an upstream group and the requests that go through it | |
| `LoadBalancer_proofs` | theorems | `LoadBalancer`, `TLAPS` |
| `CacheMap` | what a cache promises: a map whose contents expire | |
| `Cache` | the C cache, link by link | INSTANCE `CacheMap` |
| `MCCache`, `Cache_proofs` | instances, theorems | `Cache` |
| `RustCache` | the Rust cache | INSTANCE `CacheMap` |
| `RustCache_proofs` | theorems | `RustCache` |
| `Worker` | one worker, its clients and the kernel between them | |
| `HealthCheck`, `HealthCheck_proofs` | managers, their threads, the shared counters, theorems | |
| `MCUpstream` | instances for a group and its health checks | `LoadBalancer`, `HealthCheck` |
| `Bandwidth` | the token bucket and the senders | |
| `Master` | the processes and their signals | |
| `UpstreamGroup` | groups loaded and changed, selection by weight | |
| `Https` | a request through the HTTPS handler, its route and its relay | |
| `Mempool` | the pools and the requests that use them | |
| `AsmMemory`, `AsmHttp` | the assembly routines, as functions on bytes and texts | `AsmHttp` EXTENDS `AsmMemory` |
| `AsmCalls`, `AsmCalls_proofs` | calls of them on bounded inputs, what the C library answers, theorems | `AsmHttp`; `Collections` |
| `Stream` | the TCP proxy, its threads and the descriptors | |
| `Push` | the event push service | |
| `MCRequests` | instances for what a request goes through | `AsmCalls`, `Mempool`, `UpstreamGroup`, `Https`, `Bandwidth` |
| `MCServices` | instances for what runs as long as the server | `Stream`, `Push`, `Master`, `RustCache` |
| `Requests_proofs` | theorems about what a request goes through | `Bandwidth`, `UpstreamGroup`, `Https`, `Mempool`, `Collections` |
| `Services_proofs` | theorems about what runs as long as the server | `Stream`, `Push`, `Master` |
| `Collections` | lemmas about sums over sets, sequences and recursive functions, for the other proof modules | `SequencesExt`, `FiniteSetTheorems` |

The parts that `MCUpstream`, `MCRequests` and `MCServices` put together share no state: in a
behaviour one of them moves and the others stay in an initial state, so the states of a run are
the sum of those of its parts and not the product.

Conventions. `pc` (or `thread`, `caller`) says where an actor is; an action is a step from one
point to the next, and its comment names the function it stands for. Operators with the comment
"Mutant:" are not part of the model: each is the operator after it with a plausible bug, and is
used only to check that a property notices.

### LoadBalancer

Servers are the places `0 .. N-1` of the group's linked list, and `N` is the NULL behind the
last. A request runs `Request`, `Lock` (a selection takes the mutex and places its walk), one
step per server looked at, `Return`, then without a lock `Check`, connect, `CountUp`, send,
forward, `Blame` or success, `Close`, `CountDown`. A read-modify-write of a server's counter is
two steps with a register in between. `since` counts the ticks since the last failure up to
`fail_timeout`; `Forgive` is the reset of the failure count that `upstream_server_is_available`
does on the way. Round robin and address hash share their walk, which has an index beside the
server pointer; the two advance by different rules (`NextPos`, `NextIdx`), as in the code.
`checked` is the set of servers whose status a health-check thread of the same process changes
(`SetStatus`); it is empty in a worker.

### CacheMap, Cache, RustCache

`CacheMap` is the abstract specification: a call takes effect at one instant. What a caller was
told is in `ans`, together with what it asked for, the function, the key and the value, so a
step of an implementation is a step of the map only if it is the one that its caller asked for,
under the caller's key. `Cache` models entries as cells with `lru_prev` and `lru_next`, chains
of the hash table as sequences, and the mutex as the default one, so a thread that locks it
again (`LockAgain`) has no further step. `cache_move_to_head` and `cache_remove_from_list` are
functions from links to links. `GetFails` is a hit whose answer cannot be copied for want of
memory, after the entry has moved. `PutSpins` is the eviction loop of `cache_put` that finds
nothing to evict. `Cache`'s mapping (`Map`) is: a key holds what the first fresh entry of its
chain holds. `RustCache` takes each method as one step, because each holds the mutex from end to
end, except for the eviction loop of `put`; its mapping is that a key holds its entry while that
is fresh.

### Worker

The kernel is modelled as the code uses it: the lowest free descriptor is taken, an epoll
registration keeps the slot pointer it was made with and disappears with the last close,
readiness is edge triggered. A request arrives in pieces. The worker's steps are its system
calls and what follows each up to the next. A round of accepts ends at either of its bounds,
`MAX_ACCEPT_PER_ROUND` (`tries`) or what the round has left of `MAX_EVENTS` (`index`,
`accepted`). `Dies` is the end of the process by SIGPIPE, which nobody ignores, or by an abort
of the memory pool; the master forks no other worker. `free_connection` frees a slot without
closing its descriptor, `handle_http_request` closes the descriptor without freeing the slot,
and the slot pointers of events already fetched are used as they are: all as in the code.

### HealthCheck

`Start`, `CreateFirst`, `Stop`, `TellToStop`, `Joined` are the calls of the thread that starts
and stops managers; `Look`, `NotYet`, `CheckServer`, `CountSuccess`, `CountFailure`, `Add` are
the rounds of a manager's thread. `held` is the manager's mutex while a check is under way. The
static counters `ups` and `downs` are loaded in `CheckServer` and stored in the next step, so
threads of different groups interleave there.

### Bandwidth

A clock in ticks; `Refilled` is the refill with its integer division; `Acquire`, `AcquireDenied`
and `Again` are the two calls of `bandwidth_controller_acquire` around the `usleep`, of which
the second is not looked at. A send that would block is retried without end, as in the code: a
peer that does not read keeps the sender, so no end of a call is claimed. `MaxBlocked` bounds
the retries of a run.

### Master

`Fork` and `Record` are apart, since a signal can come in between. `Known(n)` is what the
handler of a process that has counted `n` workers kills: a worker has the handler too, and knows
the workers before it. There are at most `MaxPids`, 128, workers: the code writes the pid of any
further one past `worker_pids`. `FreePids` is `free` of a static array, which aborts or does
not.

### UpstreamGroup

Each function holds the mutex of its group or of the list of groups from end to end and is one
step. `blocks` and `loading` are where `create_core_config` is in the configuration. `picks` is
a history: how often each server was picked since every current weight was 0, unless the members
or who is available changed.

### Https

One request at a time, as in a worker. `held` is what the handler has still to release, `out`
what has reached the client, `logged` what the access log got. `Write` is an `SSL_write` whose
result nobody looks at, on a socket that does not wait: what is written arrives, or a part of it
(`Short`), or nothing. The relay has its two loops: `HeadRelayed` ends the one over the head,
`HeadMissed` is a read that fails or brings the end of the backend's answer before it, after
which the loop over the body reads again and may relay a body without its head; a head's end
that is split between two reads is missed in the same way. `files` changes under it, so what
`Stat` saw may not be what `SendBody` reads. The cached branch is modelled, but `StoreInCache`
reads from a descriptor that `SendBody` has closed, so nothing is ever stored and the branch is
never taken.

### Mempool

Both builds are modelled (`aarch64`). A manager has a pool for each block type and each pool a
list for every type; the block that a pool gives out goes back to the first pool, because
`mempool_check_block` looks at the block only. A request takes its blocks, with the lock
released between the look at an empty list and the allocation, and gives them back one by one,
each followed by a collection or not. A collection and the destruction that reach a block of a
mapping end in an abort.

On aarch64 a block that is given out again is cleared after the unlock (`ClearBlock`):
`block->size` bytes from behind its header. Blocks of a mapping are that far apart with their
headers, so the header of the block above (`Above`) is wiped: its link, which cuts a list
(`CutBehind`), its size, which makes it a block of the smallest type (`zeroed`), and its magic
number (`broken`), until it is written again. A free of a block without its magic number is
handed to `free()`, which aborts. The allocation of a new block passes its arguments to `mmap`
in the wrong registers there and answers an error number (`AllocFaults`). What a request stores
is taken to fit behind the header; a path of 113 to 128 bytes does not.

### AsmMemory, AsmHttp, AsmCalls

A routine is a function from memory (addresses to bytes) to memory or to a number, with the
loops of its aarch64 body as they divide the bytes: blocks, words, tail. The widths are
constants. `AsmCalls` makes one call on every input of a bounded set, with and without NEON, and
compares with a definition that has no loops. `Overread` is the answer of the header search for
a text of less than three bytes, whose bound wraps so that it depends on what lies behind the
text; `HighByte` is a character from 0xE0 on, for which the decoding table of base64 has no row
and reads 0.

### Stream

`file` is the descriptor table. A listener thread reads the number in `ListenerChecks`, enters
`accept` in `AcceptBegins` and returns from it in `Accepts`; the manager may close the number in
between. A connection thread goes through `stream_select_backend`, `stream_tcp_connect_backend`,
`ConnectDone` or `ConnectFails`, the two forwards, and a cleanup in two steps. `inbox`,
`outbox`, `eof` and `count` are the kernel's side of a socket: what has arrived, what its peer
received, whether it ended, how much it sent. A send may wait for a peer that does not read
(`blocked`), since the socket is made blocking again, and a send to a peer that is gone ends the
process (`SendSignals`).

### Push

A handler thread goes through `RequestArrives` (the check of the limit), `push_client_create`,
`push_send_sse_headers`, `ClientLinked` and `WelcomeSent`, with an action for each way out. No
function takes a client out of the list but `push_manager_free`.

## 3. Runs

| run | instance | shows | result |
|---|---|---|---|
| `Upstream` | 1 thread, 3 servers, 4 strategies, 1 connection each, 2 failures, window of 2 ticks; 2 groups with checks, rise 1, fall 2, history of 2, 3 starts | mutex, counters, fail budget, strategies, termination; stop returns, no thread left, history, failing goes down | holds, 493 443 states |
| `LB_lap` | 1 thread, 2 servers, 1 failure each | `OneLap` | **violated** |
| `Cache_calls` | 2 threads, 2 keys in one slot, 2 cells, 2 sizes | shape of the table, counters, refinement of `CacheMap` | holds, 107 004 |
| `Cache_expired` | 1 thread, 1 key | `NoSelfDeadlock` | **violated** |
| `Cache_listed` | 1 thread, 2 keys, puts only | `EntriesListed` | **violated** |
| `Worker_serve` | 2 clients that may stop, close, reset; 1 slot; 1 or 2 descriptors; 1 accept in a round | backlog served, slots recycled | holds, 720 072 |
| `Worker_silent` | 1 client, 1 request | `RequestsAnswered` | **violated** |
| `Health_shared` | 2 groups, 2 starts | `FaultyRemoved` | **violated** |
| `Requests` | vectors of 4 and blocks of 8 bytes, texts up to 6 pieces; 2 pools, 1 request, both builds; 2 groups, 3 servers; 3 configurations of server blocks, 2 requests; chunk 3, bucket 2, rate 2 per 3 ticks | assembly, pools, weights, routes, the HTTPS handler, bandwidth | holds, 1 520 266 |
| `Pool_validate` | 2 pools, 1 request of 2 blocks | `ListsValid` | **violated** |
| `Services` | 1 listener, 2 clients, 3 descriptors, 2 messages; 3 threads, limit of 2; 3 workers, 2 signals; 3 keys, 2 sizes, 2 entries, every method | descriptors, order, proxies end; push within its limit; master reaps all; limits, sizes, LRU, refinement of `CacheMap` | holds, 200 040 |
| `Master_signal` | 2 workers, 1 signal | `SignalEnds` | **violated** |

Where `CHECK_DEADLOCK FALSE` stands the system really may stop: a cache thread that waits for
itself, a call or request that is the last one, services that are idle, processes that have
ended, and a last health-check manager stopped.

### Bounds

* `Upstream`: three servers are the fewest for which the round-robin index can differ from the
  place of the server that was taken, and in which least-connection ties and draws have choices.
  `MaxConns` 1 makes a server full with one connection in flight, `MaxFails` 2 tells a reset of
  the count from a decrement. A worker has one thread, so `LockInv` can only fail here by a way
  out of a selection that keeps the mutex; that two threads exclude one another is proved
  (section 5). A history of two makes the ring go round; two groups are the fewest that share
  the counters; three starts give a replaced manager and one more in another group.
* `LB_lap`: with one failure each, both servers are out after two requests.
* `Cache_calls`: two keys in one slot give chains, two cells let a key be there twice and memory
  run out, `MaxSize` 3 with contents of size 1 and 2 lets either limit be reached. Hash slots do
  not interact; one is enough.
* `Worker_serve`: one slot and one or two descriptors make each of them run out first;
  `MaxAccept` 1 with two clients lets a round end at its bound while a client waits, and
  `MaxEvents` 2 lets the other bound end it. `BufCap` 1 fills a buffer.
* `Requests`, assembly: only the order and divisibility of the widths matter to the loops;
  `MaxMove` 19 is two blocks, a vector less one byte and every tail, at all offsets and
  overlaps. Pools: two types are the fewest in which a block changes pools, three blocks per
  request is more than a list holds, two blocks in a mapping give one with a neighbour above and
  one without, and `GcThreshold` 3 is passed after two requests. One request at a time is what a
  worker has; any number is proved. Groups: the configurations have an address twice, a weight
  of 0 and a name twice, and weights that make rounds of up to six picks. HTTPS: no server
  block, none for the port, and locations that overlap or are equal; two requests and one change
  of a file, so that what is cached for the first would be there for the second. Bandwidth: the
  chunk is larger than the bucket, so the second acquire can never be granted; `Usec` 3 with
  `Rate` 2 makes refills round off.
* `Services`, stream: with two clients on three descriptors, one of them the listener's, the
  table runs full and every number is reused by a socket of another kind; the peers of one
  client talk, and the other client is there to open and close. Push: three threads pass the
  check of a limit of two. Master: three workers give a first, a middle and a last one. Rust
  cache: `MaxListed` bounds `lru_list`, which the code does not; 4 is two more than the entries
  the store may hold, so duplicates occur.

### Fairness

* `LoadBalancer`: the scheduler runs each thread, sockets time out, and time passes: weak
  fairness of a thread's steps and of `Tick`. Nothing makes a backend fail or recover.
* `Worker`: weak fairness of the worker and of time; clients do as they like.
* `RustCache`: weak fairness of the thread inside `put`.
* `HealthCheck`: weak fairness of each thread. Strong fairness of `Checks` and of the stopping
  thread: whoever waits for a manager's mutex gets it, since the thread sleeps 100 ms with it
  free in every round; and an interval always ends.
* `Master`: weak fairness of the master; workers, signals and failures of `fork` are not forced.
* `Stream`: weak fairness of each connection's thread, as far as it has a step to take: a send
  that waits for its peer need not return. Peers, clients and the manager do as they like. The
  wait for a backend is not endless, since `select` has a timeout there.
* `UpstreamGroup`, `Https`, `Mempool`, `AsmCalls`, `Push`, `Bandwidth`: none, and no liveness.

## 4. Properties

One type invariant per module is stated and proved where there is a proof module, and not listed
with the runs.

Load balancer: `ConnsExact` (a server's `current_connections` is the number of requests that
hold a connection to it), `FreshBudget` (a server that comes back after its window has a full
budget of failures), `PicksAsMeant` (in one thread least connections compares zeros and picks
the first available server, and a draw is always found in the second walk), `LockInv`; liveness:
`SelectionEnds`. `OneLap` (a walk ends back where it began) is what the code says and does not
do.

C cache: `NoDangling`, `CountsExact` (and the limits), `MutexHeldInside`, and `TableIsMap`:
while no key is stored twice, every step is the step of `CacheMap` that its caller asked for,
under the caller's key. `EntriesListed` (every stored entry is in the LRU list) and
`NoSelfDeadlock` fail. `cache_put` does not replace an entry of the same key, and removing the
newer one brings the older one back, so the condition is needed.

Rust cache: `StoreAccounted` (entries stay evictable, sizes cover what is stored, the limits
hold); `LeastRecentEvicted` and `PutEnds` hold while no key is listed twice, which `put` on a
stored key makes happen; `ImplementsMap` holds without a condition.

Worker: `BacklogServed`, up to what the code cannot promise: a round of accepts that ends with
clients waiting strands them (`Stranding`), a leaking worker runs out of descriptors, and a dead
one serves nobody; `SlotsRecycled`. Bandwidth: `ChargedWithinRate`, `OverrunBounded`. Health
checks: `NoThreadLeft`, `HistoryIsRecent` (the ring lists exactly the last results in order),
`StopReturns`, `FailingGoesDown`. Master: `WorkersKnown`, `NobodyLeft`, `ZombiesReaped`,
`SignalWhileWaiting`.

Assembly: `BytesRight` and `HttpRight`, in which the exceptions the code has are spelled out:
`strncpy` pads one byte past `n` when the string is shorter, `strrchr` does not find the NUL, a
search may answer the first match at a multiple of four instead of the first, the search for a
header end is right from three bytes on only, base64 reads a character from 0xE0 on as an "A"
where any other foreign one refuses the text, the fast method detection does not know DELETE,
and `asm_opt_simd_url_decode` leaves plus signs in the vectors it copies and answers nothing for
a text shorter than one.

Pools: `BlocksInOnePlace` (no interleaving hands a block out twice, although blocks wander to
the first pool, change their type and drop out of lists that are cut) and `UsageBalanced` (each
pool miscounts, but modulo 2^64 their sum is what the requests hold, up to the first time the
header of a block in use is wiped). `ListsValid` (what `mempool_validate` checks) fails. Groups:
`WeightsRespected`.

HTTPS: `RoutedBest`, `RequestSettled` (each of the ways out logs once, releases all but a
compression context and a copied header, and says when a client can get two heads, whatever
writes are refused or cut) and `LengthHonest` (the lengths head and body were written with agree
unless the file changed after it was looked at, and then only if it is not compressed).

Stream: `DescriptorsOwned`, `ReceivedInOrder`, `ProxyEnds` (when an end has ended, the thread
ends, unless a send does not return or the process has gone). Push: `ClientsAccounted` (the
limit may be exceeded by as many threads as passed the check, and by no more).

### Findings

1. `cache_get` of an expired entry calls `cache_remove` with the mutex held (`cache.c:340`): the
   thread waits for itself (`Cache_expired`). The same happens in `cache_cleanup_expired` and in
   the eviction of `cache_put`.
2. A request that arrives in one piece is read into the slot and then waited for once more
   (`net.c:238`, `http.c:261`): no answer (`Worker_silent`).
3. The counters of consecutive failures and successes are static variables
   (`health_check.c:682`, `694`), shared by all servers: a server that always fails can stay UP
   (`Health_shared`).
4. A signal during the fork loop is lost for the workers not yet forked (`main.c:45-54`): the
   server goes on with those (`Master_signal`).
5. A round robin over servers that are all unavailable does not give up after a lap, though the
   code behind the loop and its caller ("No available server in upstream") expect it: server and
   index advance by different rules and never meet again where they started
   (`load_balancer.c:456-459`). The walk goes on with the mutex held (`LB_lap`); with two or
   more servers it can never answer NULL (`SelectionNeverGivesUp`).
6. `cache_move_to_head` unlinks an entry that is in no list, which empties the list
   (`cache.c:288`): only the entry stored last is in it (`Cache_listed`, and
   `ListHoldsAtMostOne` for any cache), so nothing is evicted by age and the eviction of a full
   cache finds no tail.
7. The clearing of a reused block on aarch64 runs over the header of the next one
   (`asm_mempool.c:240`): `mempool_validate` fails (`Pool_validate`), lists are cut, and a later
   free may abort.

## 5. Proofs

All are safety, for every value of the constants that the named assumptions allow, which say no
more than that sizes are natural numbers, that sets of servers, types and keys are finite, that
there is a server (`N` is positive), a positive chunk, rate and burst, and positive widths of
word, vector and block. Three theorems of the load balancer have `OneThread` as a hypothesis,
one of them also that no health-check thread runs: that is the worker as it ships, and with more
threads the counters, which have no lock, are not exact.

* **LoadBalancer_proofs**. `IInv` is the type invariant, the lock invariant, the fact that a
  thread past its selection has a server (`ServerChosen`), and `WalkInv`, which says where in
  its lap a circular walk is. `NeverGivesUp`, stated in the proof module, is about one step, but
  is not inductive: the exit test compares the server *and* the index with where they started,
  and only the relation between the two over the whole lap (the index runs ahead of the server
  by one after each passage over NULL) shows that it stays false. `LockInv` likewise needs the
  types. `ConnsExact` is proved from `ConnInv`, which adds what the register holds between the
  load and the store of a counter. `FreshBudget` is inductive with the types. `PicksAsMeant`
  rests on `LookInv`: the least-connections walk has passed over nothing that it would have
  taken; the first walk of `lb_random` has counted no more servers than are available behind it,
  and the second still has more available servers ahead than it will skip. `LockInv` is proved
  for any number of threads. Theorems: `TypeCorrect`, `MutexHeldByWalker`,
  `SelectionNeverGivesUp`, `ConnectionsCounted`, `BudgetFresh`, `StrategiesPick`.
* **Cache_proofs**. `ListHoldsAtMostOne`: the list has at most one entry in every reachable
  state. The invariant `ListInv` adds that no cell has a link at all; the lemmas say what
  unlinking and moving to the head do to such a list. `MutexWithThreadInside`: the mutex is held
  by the thread inside a function and by no other; it rests on the type of the thread records
  only (`MutexInv`). `TableInv` puts the two together with the calls under way (`CallInv`), the
  place of each entry (`InPlace`: once in one chain, that of its key), the counters, and
  `Linked`, which has to leave out the time between the first free of a clear and its reset.
  From it follow `CountersAreExact` and `NothingDangles`. `TableActsAsMap` is the refinement: a
  put adds in front of a chain, a removal takes the first entry of the key out, an expiry takes
  it from the contents without a step of the table, and each of these is what `CacheMap` does to
  the key, as long as no key hangs twice. That it is the caller's key comes from `CallInv`: the
  arguments of a call do not change while it is under way, and each answer names them.
* **RustCache_proofs**. `AccountInv` is `StoreAccounted` with the types and the finiteness of
  the store: `StoreIsAccounted`. `ImplementsTheMap` takes each method to the step of `CacheMap`
  with the same answer, the clock included. `EvictionIsLru` needs `RecentInv`: of two stored
  keys, the one used later has its last place in `lru_list` behind every place of the other;
  that is inductive although keys are listed twice, and says who is evicted once none is.
* **HealthCheck_proofs**. `IInv` is the type invariant, `NoThreadLeft` and `HistoryIsRecent`.
  The last is arithmetic: `Remainder`, `PlaceIs` and `NextIs` say where an index is after it
  wraps, and `AddToPart` and `AddToFull` what adding a result does before and after the first
  lap. Theorems: `TypeCorrect`, `ThreadsHaveManagers`, `RingListsLastResults`.
* **Requests_proofs**, Bandwidth. `SendInv` adds `Paid`: the bytes sent without tokens, together
  with those about to be, were paid for with sleeping time. `OverrunBounded` alone is not
  inductive, since a sender about to send has already slept. Theorems: `BucketTypeCorrect`,
  `GrantsWithinRate`, `OverrunWithinSleeps`.
* **Requests_proofs**, Https. `HttpsInv` says for each point of the handler what it has got
  through to the client, logged and still holds (`BeforeInv`, `FileInv`, `StoreInv`, `EndInv`),
  with the type of the request's fields; `Opens` says what a refused or cut write may leave of a
  head, and both loops of the relay keep what the first one has sent. `RequestSettled` and
  `LengthHonest` speak of one point each and are read off it. `RoutedBest` is a property of
  `find_route`: the greatest length among the matches is attained, and the first location with
  it is the one chosen. Theorems: `RequestsAreSettled`, `LengthsAreHonest`, `RouteIsBest`.
* **Requests_proofs**, UpstreamGroup. `GroupInv` has, for each group, that counts and list agree
  (`MembersOk`), for the loader that no group is listed twice, and `RoundOk`, the reason why
  smooth weighted round robin is fair: after *n* of the *W* picks of a round, the current weight
  of a server is *n* times its weight less *W* times its picks, and no server was picked more
  often than it weighs. That the next pick keeps the second half is the core of the proof: the
  raised weights add up to *W*, so the greatest is positive, so its server has been picked less
  than it weighs. That a draw is fair too is a count of the points between two partial sums.
  Theorem: `WeightsAreRespected`.
* **Requests_proofs**, Mempool, both builds. `PoolInv` is the type invariant and `OnePlace`,
  which is `BlocksInOnePlace` over the lists, the heap and what requests hold. A step is taken
  apart into movements (`FromList`, `FromHand`, `FromHeap`, `IntoHand`, `IntoList`, `Collect`,
  and `Cut` for a list whose link is wiped): between two of them a block is `Nowhere`. Lists are
  compared by position, so that a block listed twice would show; a collection keeps a suffix and
  releases what is before it. `UsageBalanced` is proved from `CountInv`: the counters of all
  pools together are a whole number of times 2^64 away from the size of what is held, whichever
  pool a step charges, as long as no block in use has lost its header (`CountsOk`). It needs
  that a block is held once (`OnePlace`), that a request between two of its own holds none
  (`IdleOk`), and that only the aarch64 build wipes (`BuildOk`). Theorems:
  `OnePlaceForEveryBlock`, `UsageIsBalanced`.
* **AsmCalls_proofs**. The routines are functions, so each has a theorem of its own that says
  what it returns for every memory or text and for every width of word, vector and block that
  `AsmMemory` assumes (positive, a word even and no longer than a vector, a block several whole
  vectors). `BytesAreRight` and `HttpIsRight`, the two invariants of the run, then take each
  call of `CallNext` to its theorem. The arguments, by kind of routine:
  * *Moves and fills* (`MemcpyIsMove`, `MemmoveIsMove`, `BufferCopyIsMove`, `MemsetIsFill`,
    `ZeroBufferIsFill`, `StrcpyIsMove`, `StrncpyIsMoveAndFill`): a loop is a fold over units.
    After *b* units the memory is the original one moved by *b* units, because the next unit
    reads places no unit before has written; that is what the hypotheses on overlap and the
    direction `memmove` takes are for.
  * *Scans* (`MemcmpIsFirstDiff`, `StrlenIsLength`, `StrchrIsFirst`, `StrrchrIsLast`,
    `StrcmpIsOrder`, `StrncmpIsOrder`, `SumArrayIsSum`, `MaxArrayIsMax`): the first unit with a
    hit holds the first hit, whatever the unit holds behind the end.
  * *Searches* (`BufferFindIsMatch`, `StrstrIsMatch`, `HeaderEndIsMatch`): what is reported is
    the first match or, by the vector loop, the first at a multiple of four, and nothing is
    reported only if there is none; a header end is one of the ends, in a text of three bytes or
    more.
  * *Texts* (`HeaderLineIsCut`, `LengthIsWritten`, `StatusIsWritten`, `WriteFits`,
    `MethodIsIndex`, `SwappedTwice`): digits written from the last to the first read back as the
    number; a header is cut and trimmed whatever blanks it has.
  * *Base64* (`EncodeIsBase64`, `DecodeUndoesEncode`, `ForeignIsRefused`): both sides are
    related to one predicate, `Encodes`, which names the sextets of each triple and the padding
    of what is left. The decoder undoes whatever satisfies it, so the blocks of the encoder and
    those of the decoder need not agree.
  * *Escapes* (`UrlIsDecoded`): cutting the text at a whole vector without "%" cuts no escape,
    so the copied part and the decoded part are the decoding of the whole, if there is no "+"
    (which the copied part keeps and the other turns into a space).

  Recursive definitions (the lanes, the sextets, the digits, the characters) are recursive
  *functions*; `Collections` shows once that a function defined by course of values exists, is
  unique and unfolds (`CourseOfValues`, `SolutionUnique`, `StepByStep`), so that each proof
  argues by the least place at which a claim would fail.
* **Services_proofs**, Stream. `StreamInv` has two halves. `OwnInv` says who holds which number:
  a listener its socket, a connection its two, a client just accepted exactly one thread.
  `FlowInv` says, by where a connection's thread is, that what was sent on and what waits on a
  socket are together what the peer sent, and that a socket not yet or no longer in use is
  empty. `ReceivedInOrder` alone is not inductive: it needs the order of what waits, and, since
  `stream_tcp_forward_data` knows numbers only, that the two numbers are the connection's own.
  Theorems: `DescriptorsAreOwned`, `ReceivedAsSent`.
* **Services_proofs**, Push. `PushInv` adds to the list the clients on their way to it, so that
  a client is linked once and none is lost between its creation and the list. Theorem:
  `ClientsAreAccounted`.
* **Services_proofs**, Master. `MasterInv` ties the loop index to the phase, to the workers that
  exist, and to the number of workers that are gone (a cardinality, so that reaping in any order
  counts). Theorems: `MasterTypeCorrect`, `HandlerKnowsAll`, `MasterOutlivesWorkers`.

Each invariance proof is a lemma per part of the invariant, with one step per action.

**Collections** has what these proofs need of the community modules: the sum of a function over
a finite set, when one value changes, an element comes or goes, or one function is below
another; and what `RemoveFirst`, `RemoveAt`, `Append` and `Tail` do to places, to order and to
repetitions. The folds behind these operators are defined by `CHOOSE` over functions on subsets,
and the library's induction theorems take an operator that the provers cannot instantiate; so
the lemmas show that such a function exists and is the only one, and argue by the least set or
number (`SmallestSet`, `LeastNumber`) for which a fact would fail.

**Only model-checked**: everything under fairness (`SelectionEnds`, `BacklogServed`,
`SlotsRecycled`, `PutEnds`, `StopReturns`, `FailingGoesDown`, `ProxyEnds`, `ZombiesReaped`,
`SignalWhileWaiting`), because the prover does not reason about ENABLED and liveness. Every
other property of a passing run is stated by a theorem, and so is every invariant. That a step
of the C code is the instruction the model says it is remains a matter of reading.

## 6. Simplifications, by module

* `LoadBalancer`: session persistence is left out (nothing in the configuration code turns it
  on), and so are failures of `calloc` and the write-only `connection_pool_size`. Clocks are
  monotonic.
* `UpstreamGroup`: whether a server is available changes by itself, since `LoadBalancer` has the
  reasons; the random number of the weighted draw is any number below the total.
* `Https`: a file is its size, a compressed body the size of the file it was made from; paths
  are sequences of which only prefixes matter; header parsing is an outcome. The compressed
  length of a file that `stat` never saw is unknown. A backend's head fits the buffer it is
  collected in, which the code does not check. SIGPIPE may stop the process after any step,
  which a behaviour of the specification may do anyway; so in `LoadBalancer` and `Push`.
* `Mempool`: a request takes any of the types; what it stores fits behind the header; a pool's
  other counters are left out. What lies above the last block of a mapping is another mapping,
  other memory, or nothing.
* `AsmMemory`, `AsmHttp`: an instruction is what it does to bytes. Not modelled: hashes, CRC32,
  the JSON escaper, the ASCII check, the cycle counter, the stubs for AES and SHA, the socket
  calls and the token bucket in assembly.
* `Stream`: a message is one `recv` and one `send`; UDP is a stub in the code; which backend is
  selected is left open. A connection leaves the model when its thread cannot be created (its
  descriptor stays open, `stream.c:402`).
* `Push`: channels, the server's own socket and the content of messages are left out.
* `Cache`: statistics and the conditional part of `cache_get` are left out; a content's
  cacheability is the caller's affair.
* `RustCache`: whether a content is cacheable is left open (`PutRejects`).
* `Worker`: one plain listening socket, one worker, the setup after `accept` never fails. What
  the kernel closes when the worker dies is not followed. `http.c` as committed refers to names
  that do not exist (`proxy_pass`); it is modelled as it reads.
* `HealthCheck`: one server per group (with more, the thread indexes a list as an array,
  `health_check.c:626`); the configuration outlives the manager, although `core.c:206` may free
  it; the manager's own consecutive counters are only logged. One thread starts and stops
  managers: the group's mutex makes it so.
* `Bandwidth`: one controller, one thread; a `usleep` lasts at least as asked.
* `Master`: a handler runs at once; SIGKILL ends a process at once; wait and waitpid are
  restarted after the handler.

## 7. Hazards without a property

`PROJECT.json` lists them with their lines. The main ones: the worker leaks a descriptor
whenever a client ends its connection (`net.c:79`), which is why `BacklogServed` excludes a
worker that runs out of them; more than `MAX_ACCEPT_PER_ROUND` pending clients are stranded
until the next connect (`net.c:147`), which it excepts as well; SIGPIPE ends a worker that
answers a client which is gone (`http.c:428`); a send to a peer that does not read is retried
without end (`bandwidth.c:276`); a long path is stored past its block (`http.c:102`) and the
129th worker past `worker_pids` (`main.c:607`), writes whose outcomes have no small set; a start
of the stream manager that fails half way leaves listeners that no stop reaches (`stream.c:96`);
the temporary health-check configuration is freed under its thread (`core.c:206`). Three more
are in the models as the code has them, without a promise to hold them against: the rotation of
round robin is uneven when a server is out (`load_balancer.c:456`), a server that refuses
connections is never counted as failing (`lb_proxy.c:57`), and the pools' collection frees
blocks that were mapped (`asm_mempool.c:380`).

## 8. Not modelled, and what is left

* `config.c`, `log.c`, `health_api.c`, `headers.c`, `chunked.c`, `compress.c` and the Rust
  parsers, options and bindings: parsing and formatting without a state that outlives a call, or
  code without a caller.
* The HTTPS branch of the worker loop: `handle_https_request` frees the SSL object that the slot
  goes on using (`https.c:668`, `net.c`), and a use of freed memory has no outcomes to model.
* Health checks of groups with several servers (`health_check.c:626` indexes a list as an
  array), for the same reason.

Next would be safety invariants of `Worker`, which has only liveness so far, and a composition
of `Master` with `HealthCheck` and `LoadBalancer` that shows which threads survive the fork.
