---------------------------- MODULE LoadBalancer ----------------------------
(***************************************************************************)
(* An upstream group (src/src/proxy/load_balancer.c) and the requests that *)
(* handle_lb_proxy_request (src/src/proxy/lb_proxy.c) sends through it:    *)
(* select a server, connect, send, forward the answer, update the          *)
(* statistics, close.                                                      *)
(*                                                                         *)
(* Servers are named by their place 0 .. N-1 in the group's linked list;   *)
(* N itself stands for the NULL after the last one.  A worker process is   *)
(* single-threaded and has its own copy of the group, so one thread is the *)
(* program as it ships; several threads are the use its mutex is for.  The *)
(* mutex covers the selection only: the counters of a server are read and  *)
(* written without it, so each read-modify-write is two steps here.        *)
(*                                                                         *)
(* Nobody ignores SIGPIPE: a send to a peer that is gone may end the       *)
(* process, which is a behaviour that stops after any step.                *)
(***************************************************************************)
EXTENDS Integers, FiniteSets

CONSTANTS
    N,              \* server_count of the group
    Threads,        \* the threads that handle requests
    Strategies,     \* the strategies core.c may give the group
    MaxConns,       \* max_conns of every server, 0 for no limit
    MaxFails,       \* max_fails of every server
    FailTimeout,    \* fail_timeout of every server, in clock ticks
    None            \* no thread, no server

Pos == 0 .. N - 1
NULL == N

ASSUME LBAssumption ==
    /\ N \in Nat \ {0}
    /\ Strategies \subseteq {"round_robin", "ip_hash", "least_conn", "random"}
    /\ MaxConns \in Nat
    /\ MaxFails \in Nat
    /\ FailTimeout \in Nat
    /\ None \notin Threads
    /\ None \notin Pos

VARIABLES
    strategy,   \* group->strategy, set when the configuration is read
    checked,    \* the servers that a health-check thread of this process checks
    mutex,      \* holder of group->mutex
    csi,        \* group->current_server_index
    status, conns, fails,  \* status, current_connections, consecutive_failures
    since,      \* ticks since last_failure_time, counted up to FailTimeout
    pos, idx, start,       \* the walk: server, current_index, where it started
    best, acc,             \* the walk: best server, min_connections or a count
    pc, srv, reg           \* of each thread: where it is, its server, a register

groupVars == <<csi, status, conns, fails, since>>
walkVars == <<pos, idx, start, best, acc>>
threadVars == <<pc, srv, reg>>
setup == <<strategy, checked>>
vars == <<setup, mutex, groupVars, walkVars, threadVars>>

Circular == strategy \in {"round_robin", "ip_hash"}
Walking == {"walk", "pick"}

(***************************************************************************)
(* upstream_server_is_available, in two parts: what it answers, and the    *)
(* failure count it resets on the way when the failure window is over.     *)
(***************************************************************************)
\* Mutant: a spent failure window is never looked at again.
AvailableNoExpiry(s) ==
    /\ status[s] # "DOWN"
    /\ MaxConns > 0 => conns[s] < MaxConns
    /\ fails[s] < MaxFails

Available(s) ==
    /\ status[s] # "DOWN"
    /\ MaxConns > 0 => conns[s] < MaxConns
    /\ fails[s] >= MaxFails => since[s] >= FailTimeout

\* Mutant: the failure count outlives its window.
NoForgiving(s) == fails' = fails

Forgive(s) ==
    fails' = IF Available(s) /\ fails[s] >= MaxFails
             THEN [fails EXCEPT ![s] = 0] ELSE fails

------------------------------------------------------------------------------
\* The servers as the configuration makes them; the first health check comes an
\* interval later, after the workers were forked.
Init ==
    /\ strategy \in Strategies
    /\ checked \in SUBSET Pos
    /\ mutex = None
    /\ csi = 0
    /\ status = [s \in Pos |-> "UNKNOWN"]
    /\ conns = [s \in Pos |-> 0]
    /\ fails = [s \in Pos |-> 0]
    /\ since = [s \in Pos |-> FailTimeout]
    /\ pos = 0 /\ idx = 0 /\ start = <<0, 0>> /\ best = None /\ acc = 0
    /\ pc = [t \in Threads |-> "idle"]
    /\ srv = [t \in Threads |-> None]
    /\ reg = [t \in Threads |-> 0]

Goto(t, from, to) == pc[t] = from /\ pc' = [pc EXCEPT ![t] = to]

\* A request for this group reaches the thread.
Request(t) ==
    /\ Goto(t, "idle", "want")
    /\ UNCHANGED <<setup, mutex, groupVars, walkVars, srv, reg>>

\* Takes group->mutex and places the walk: at current_server_index, at the
\* hash of the client's address, or at the head of the list.
Lock(t) ==
    /\ Goto(t, "want", "walk")
    /\ mutex = None
    /\ mutex' = t
    /\ \E at \in Pos :
        /\ strategy = "round_robin" => at = csi
        /\ ~Circular => at = 0
        /\ pos' = at /\ idx' = at /\ start' = <<at, at>>
    /\ best' = None
    /\ acc' = 0
    /\ UNCHANGED <<setup, groupVars, srv, reg>>

\* The locals of a selection function are gone.
EndWalk == pos' = 0 /\ idx' = 0 /\ start' = <<0, 0>> /\ best' = None /\ acc' = 0

\* Mutant: the early return of the search leaves the mutex locked.
KeepLocked(t, s) ==
    /\ EndWalk
    /\ mutex' = IF s = None THEN None ELSE mutex
    /\ pc' = [pc EXCEPT ![t] = IF s = None THEN "idle" ELSE "check"]
    /\ srv' = [srv EXCEPT ![t] = s]

\* The walk is over: unlock and return s, or NULL when s is None, which ends
\* the request with "No available server in upstream".
Return(t, s) ==
    /\ EndWalk
    /\ mutex' = None
    /\ pc' = [pc EXCEPT ![t] = IF s = None THEN "idle" ELSE "check"]
    /\ srv' = [srv EXCEPT ![t] = s]

------------------------------------------------------------------------------
(* lb_round_robin and lb_ip_hash: one pass of their do-while loop a step.  *)

NextPos == IF pos = NULL THEN 0 ELSE pos + 1

NextIdx == IF NextPos = NULL THEN 0 ELSE (idx + 1) % N

CircularTakes(t) ==
    /\ pc[t] = "walk" /\ Circular
    /\ pos # NULL /\ Available(pos)
    /\ Forgive(pos)
    /\ csi' = IF strategy = "round_robin" THEN (idx + 1) % N ELSE csi
    /\ Return(t, pos)
    /\ UNCHANGED <<status, conns, since, reg>>

CircularMoves(t) ==
    /\ pc[t] = "walk" /\ Circular
    /\ pos # NULL => ~Available(pos)
    /\ IF <<NextPos, NextIdx>> = start
       THEN Return(t, None)
       ELSE /\ pos' = NextPos
            /\ idx' = NextIdx
            /\ UNCHANGED <<mutex, pc, srv, start, best, acc>>
    /\ UNCHANGED <<groupVars, reg>>

------------------------------------------------------------------------------
(* lb_least_connections: one server a step, then the best one.             *)

LeastLooks(t) ==
    /\ pc[t] = "walk" /\ strategy = "least_conn" /\ pos # NULL
    /\ Forgive(pos)
    /\ pos' = pos + 1
    /\ IF Available(pos) /\ (best = None \/ conns[pos] < acc)
       THEN best' = pos /\ acc' = conns[pos]
       ELSE UNCHANGED <<best, acc>>
    /\ UNCHANGED <<mutex, csi, status, conns, since, idx, start, threadVars>>

LeastReturns(t) ==
    /\ pc[t] = "walk" /\ strategy = "least_conn" /\ pos = NULL
    /\ Return(t, best)
    /\ UNCHANGED <<groupVars, reg>>

------------------------------------------------------------------------------
(* lb_random: count the available servers, draw one, walk again to it.     *)

RandomCounts(t) ==
    /\ pc[t] = "walk" /\ strategy = "random" /\ pos # NULL
    /\ Forgive(pos)
    /\ pos' = pos + 1
    /\ acc' = IF Available(pos) THEN acc + 1 ELSE acc
    /\ UNCHANGED <<mutex, csi, status, conns, since, idx, start, best, threadVars>>

\* Mutant: the draw is taken among all servers, not the available ones.
RandomDrawsAll(t) ==
    /\ pc[t] = "walk" /\ strategy = "random" /\ pos = NULL
    /\ IF acc = 0
       THEN Return(t, None)
       ELSE /\ pos' = 0
            /\ acc' \in Pos
            /\ pc' = [pc EXCEPT ![t] = "pick"]
            /\ UNCHANGED <<mutex, srv, idx, start, best>>
    /\ UNCHANGED <<groupVars, reg>>

RandomDraws(t) ==
    /\ pc[t] = "walk" /\ strategy = "random" /\ pos = NULL
    /\ IF acc = 0
       THEN Return(t, None)
       ELSE /\ pos' = 0
            /\ acc' \in 0 .. acc - 1
            /\ pc' = [pc EXCEPT ![t] = "pick"]
            /\ UNCHANGED <<mutex, srv, idx, start, best>>
    /\ UNCHANGED <<groupVars, reg>>

RandomSkips(t) ==
    /\ pc[t] = "pick" /\ strategy = "random" /\ pos # NULL
    /\ Available(pos) => acc # 0
    /\ Forgive(pos)
    /\ pos' = pos + 1
    /\ acc' = IF Available(pos) THEN acc - 1 ELSE acc
    /\ UNCHANGED <<mutex, csi, status, conns, since, idx, start, best, threadVars>>

RandomTakes(t) ==
    /\ pc[t] = "pick" /\ strategy = "random"
    /\ \/ /\ pos # NULL /\ Available(pos) /\ acc = 0
          /\ Forgive(pos)
          /\ Return(t, pos)
       \/ /\ pos = NULL   \* the servers counted became unavailable meanwhile
          /\ UNCHANGED fails
          /\ Return(t, None)
    /\ UNCHANGED <<csi, status, conns, since, reg>>

------------------------------------------------------------------------------
(* The rest of handle_lb_proxy_request, which holds no lock.               *)

\* The handler returns; its locals are gone.
End(t, from) == Goto(t, from, "idle") /\ srv' = [srv EXCEPT ![t] = None]

\* lb_connect_to_server asks once more whether the server is available.
Check(t) ==
    /\ pc[t] = "check"
    /\ Forgive(srv[t])
    /\ IF Available(srv[t])
       THEN Goto(t, "check", "connect") /\ UNCHANGED srv
       ELSE End(t, "check")
    /\ UNCHANGED <<mutex, csi, status, conns, since, walkVars, reg>>

\* connect, or the name resolution before it, fails: -1, and nothing is recorded.
ConnectFails(t) ==
    /\ End(t, "connect")
    /\ UNCHANGED <<mutex, groupVars, walkVars, reg>>

\* lb_update_connection_count(server, 1): load here, store in CountUp.
ConnectSucceeds(t) ==
    /\ Goto(t, "connect", "counting")
    /\ reg' = [reg EXCEPT ![t] = conns[srv[t]]]
    /\ UNCHANGED <<mutex, groupVars, walkVars, srv>>

CountUp(t) ==
    /\ Goto(t, "counting", "send")
    /\ conns' = [conns EXCEPT ![srv[t]] = reg[t] + 1]
    /\ reg' = [reg EXCEPT ![t] = 0]
    /\ UNCHANGED <<mutex, csi, status, fails, since, walkVars, srv>>

\* Mutant: the error path of send forgets to give the connection back.
SendFailsNoClose(t) ==
    /\ End(t, "send")
    /\ UNCHANGED <<mutex, groupVars, walkVars, reg>>

\* build_lb_proxy_request or send fails: close, without touching the statistics.
SendFails(t) ==
    /\ Goto(t, "send", "close")
    /\ UNCHANGED <<mutex, groupVars, walkVars, srv, reg>>

SendSucceeds(t) ==
    /\ Goto(t, "send", "forward")
    /\ UNCHANGED <<mutex, groupVars, walkVars, srv, reg>>

\* forward_lb_response returns the bytes it passed on; lb_update_stats(.., 1, ..).
ForwardSucceeds(t) ==
    /\ Goto(t, "forward", "close")
    /\ fails' = [fails EXCEPT ![srv[t]] = 0]
    /\ UNCHANGED <<mutex, csi, status, conns, since, walkVars, srv, reg>>

\* The server's answer cannot be read or the client's socket not be written;
\* lb_update_stats(.., 0, ..): load here, store in Blame.
ForwardFails(t) ==
    /\ Goto(t, "forward", "blame")
    /\ reg' = [reg EXCEPT ![t] = fails[srv[t]]]
    /\ UNCHANGED <<mutex, groupVars, walkVars, srv>>

Blame(t) ==
    /\ Goto(t, "blame", "close")
    /\ fails' = [fails EXCEPT ![srv[t]] = reg[t] + 1]
    /\ since' = [since EXCEPT ![srv[t]] = 0]
    /\ reg' = [reg EXCEPT ![t] = 0]
    /\ UNCHANGED <<mutex, csi, status, conns, walkVars, srv>>

\* lb_close_connection and its lb_update_connection_count(server, -1).
Close(t) ==
    /\ Goto(t, "close", "uncounting")
    /\ reg' = [reg EXCEPT ![t] = conns[srv[t]]]
    /\ UNCHANGED <<mutex, groupVars, walkVars, srv>>

CountDown(t) ==
    /\ End(t, "uncounting")
    /\ conns' = [conns EXCEPT ![srv[t]] = IF reg[t] > 0 THEN reg[t] - 1 ELSE 0]
    /\ reg' = [reg EXCEPT ![t] = 0]
    /\ UNCHANGED <<mutex, csi, status, fails, since, walkVars>>

------------------------------------------------------------------------------
\* A second of time(NULL).
Tick ==
    /\ \E s \in Pos : since[s] < FailTimeout
    /\ since' = [s \in Pos |-> IF since[s] < FailTimeout THEN since[s] + 1 ELSE since[s]]
    /\ UNCHANGED <<setup, mutex, csi, status, conns, fails, walkVars, threadVars>>

\* health_check_update_server_status, in a health-check thread of this process;
\* the threads of the program are the master's, a worker has none.
SetStatus(s) ==
    /\ s \in checked
    /\ status' = [status EXCEPT ![s] = IF @ = "UP" THEN "DOWN" ELSE "UP"]
    /\ UNCHANGED <<setup, mutex, csi, conns, fails, since, walkVars, threadVars>>

Select(t) ==
    /\ \/ CircularTakes(t) \/ CircularMoves(t)
       \/ LeastLooks(t) \/ LeastReturns(t)
       \/ RandomCounts(t) \/ RandomDraws(t) \/ RandomSkips(t) \/ RandomTakes(t)
    /\ UNCHANGED setup

Proxy(t) ==
    /\ \/ Check(t)
       \/ ConnectFails(t) \/ ConnectSucceeds(t) \/ CountUp(t)
       \/ SendFails(t) \/ SendSucceeds(t)
       \/ ForwardSucceeds(t) \/ ForwardFails(t) \/ Blame(t)
       \/ Close(t) \/ CountDown(t)
    /\ UNCHANGED setup

Next ==
    \/ \E t \in Threads : Request(t) \/ Lock(t) \/ Select(t) \/ Proxy(t)
    \/ Tick
    \/ \E s \in Pos : SetStatus(s)

Spec == Init /\ [][Next]_vars

\* The scheduler runs every thread, the sockets time out (SO_RCVTIMEO and
\* SO_SNDTIMEO, 30 s), and time passes.  Nothing makes a backend fail or recover.
Fairness ==
    /\ WF_vars(Tick)
    /\ \A t \in Threads : WF_vars(Select(t)) /\ WF_vars(Proxy(t)) /\ WF_vars(Lock(t))

FairSpec == Spec /\ Fairness

------------------------------------------------------------------------------
(* Properties.                                                             *)

Counted == {"send", "forward", "blame", "close", "uncounting"}

GroupTypeOK ==
    /\ csi \in Pos
    /\ status \in [Pos -> {"UP", "DOWN", "UNKNOWN"}]
    /\ conns \in [Pos -> Nat]
    /\ fails \in [Pos -> Nat]
    /\ since \in [Pos -> 0 .. FailTimeout]

WalkTypeOK ==
    /\ pos \in 0 .. N
    /\ idx \in Pos
    /\ start \in Pos \X Pos
    /\ best \in Pos \cup {None}
    /\ acc \in Nat

ThreadTypeOK ==
    /\ strategy \in Strategies
    /\ mutex \in Threads \cup {None}
    /\ pc \in [Threads -> {"idle", "want", "walk", "pick", "check", "connect",
                           "counting"} \cup Counted]
    /\ srv \in [Threads -> Pos \cup {None}]
    /\ reg \in [Threads -> Nat]

\* The type invariant: current_server_index and the walk stay within the group,
\* the counters never go below zero.
TypeOK == GroupTypeOK /\ WalkTypeOK /\ ThreadTypeOK

\* The group's mutex is held by exactly the thread that is walking its list:
\* every return of the four selection functions unlocks it, and none unlocks
\* it for another thread.
LockInv == \A t \in Threads : mutex = t <=> pc[t] \in Walking

\* Every thread past the second check works with a server.
ServerChosen == \A t \in Threads : pc[t] \notin {"idle", "want", "walk", "pick"} => srv[t] \in Pos

\* current_connections is the number of connections open to the server, on
\* every path out of handle_lb_proxy_request (one thread).
ConnsExact ==
    \A s \in Pos : conns[s] = Cardinality({t \in Threads : srv[t] = s /\ pc[t] \in Counted})

\* A server that is being used has not used up its failures: the two checks
\* reset consecutive_failures before a window is tried again (one thread).
FreshBudget ==
    MaxFails > 0 => \A t \in Threads :
        pc[t] \in {"connect", "counting", "send", "forward", "blame"}
            => fails[srv[t]] < MaxFails

\* What a strategy picks in a process of one thread, a worker.  least_conn compares zeros
\* and takes the first available server of the list each time (or passes over
\* one whose failure window ends during the walk).  The server lb_random drew
\* among the available ones is still found by its second walk: time only makes
\* servers available.
PicksAsMeant ==
    [][checked = {} => \A t \in Threads :
        /\ strategy = "least_conn" /\ pc[t] = "walk" /\ pc'[t] = "check" =>
            \A s \in Pos : s < srv'[t] /\ Available(s) => fails[s] >= MaxFails
        /\ pc[t] = "pick" => pc'[t] \in {"pick", "check"}]_vars

\* A walk looks for an available server from the current position on; back at the
\* server where it began it has seen them all and ends ("No available server in
\* upstream").
OneLap ==
    [][\A t \in Threads :
        checked = {} /\ pc[t] = "walk" /\ pc'[t] = "walk" /\ pos' # pos => pos' # start[1]]_vars

\* A selection comes to an end unless a server is DOWN or full: a walk that
\* finds every server failing goes round until a failure window is over.
SelectionEnds ==
    \A t \in Threads :
        pc[t] = "walk" ~> \/ pc[t] # "walk"
                         \/ \E s \in Pos : \/ status[s] = "DOWN"
                                           \/ MaxConns > 0 /\ conns[s] >= MaxConns
=============================================================================
