---------------------------- MODULE HealthCheck ----------------------------
(***************************************************************************)
(* The health-check managers of the upstream groups: start and stop in     *)
(* src/src/proxy/load_balancer.c, the manager, its thread and its history  *)
(* in src/src/proxy/health_check.c.                                        *)
(*                                                                         *)
(* One thread of the program starts and stops managers; every manager has  *)
(* a thread that checks the servers of its group.  The counters that rise  *)
(* and fall are compared with are function-static, so all threads share    *)
(* them, without a lock: an update is a load and a store.                  *)
(*                                                                         *)
(* A group has one server, which the group is named by: the thread indexes *)
(* the linked list of servers as an array, which only then is defined.     *)
(* The configuration outlives the manager.                                 *)
(***************************************************************************)
EXTENDS Integers, SequencesExt

CONSTANTS
    Groups,
    Rise, Fall,     \* config->rise, config->fall
    Capacity,       \* history->capacity (100)
    MaxStarts       \* how often managers are started in all

ASSUME HealthAssumption ==
    /\ Rise \in Nat \ {0} /\ Fall \in Nat \ {0}
    /\ Capacity \in Nat \ {0} /\ MaxStarts \in Nat

VARIABLES
    serverStatus,         \* server->status
    ups, downs,     \* the static consecutive_successes, consecutive_failures
    manager,        \* of each group: whether it has a manager
    running,        \* manager->running
    held,           \* whether manager->mutex is held over more than one step
    ring, index, count,     \* history->results, index, count
    thread, result, loaded,    \* of each thread: where it is, its last result, a register
    caller,         \* what the starting and stopping thread is doing
    starts,
    past            \* history: the last Capacity results, oldest first

staticVars == <<ups, downs>>
historyVars == <<ring, index, count, past>>
managerVars == <<manager, running, held>>
checkVars == <<thread, result, loaded>>
callVars == <<caller, starts>>
healthVars == <<serverStatus, staticVars, historyVars, managerVars, checkVars, callVars>>

Idle == [op |-> "idle"]

HealthInit ==
    /\ serverStatus = [g \in Groups |-> "UNKNOWN"]
    /\ ups = 0 /\ downs = 0
    /\ manager = [g \in Groups |-> FALSE]
    /\ running = [g \in Groups |-> FALSE]
    /\ held = [g \in Groups |-> FALSE]
    /\ ring = [g \in Groups |-> [i \in 0 .. Capacity - 1 |-> "none"]]
    /\ index = [g \in Groups |-> 0] /\ count = [g \in Groups |-> 0]
    /\ past = [g \in Groups |-> <<>>]
    /\ thread = [g \in Groups |-> "none"]
    /\ result = [g \in Groups |-> "none"]
    /\ loaded = [g \in Groups |-> 0]
    /\ caller = Idle /\ starts = 0

------------------------------------------------------------------------------
(* lb_start_health_check_manager and lb_stop_health_check_manager, which    *)
(* hold the group's mutex from one end to the other.                        *)

\* health_check_manager_create and _start.
Create(g) ==
    /\ manager' = [manager EXCEPT ![g] = TRUE]
    /\ running' = [running EXCEPT ![g] = TRUE]
    /\ ring' = [ring EXCEPT ![g] = [i \in 0 .. Capacity - 1 |-> "none"]]
    /\ index' = [index EXCEPT ![g] = 0]
    /\ count' = [count EXCEPT ![g] = 0]
    /\ past' = [past EXCEPT ![g] = <<>>]
    /\ thread' = [thread EXCEPT ![g] = "head"]
    /\ result' = [result EXCEPT ![g] = "none"]
    /\ caller' = Idle
    /\ UNCHANGED <<serverStatus, staticVars, held, loaded, starts>>

Start(g) ==
    /\ caller = Idle /\ starts < MaxStarts
    /\ caller' = IF manager[g] THEN [op |-> "stop", group |-> g, again |-> TRUE]
                 ELSE [op |-> "create", group |-> g]
    /\ starts' = starts + 1
    /\ UNCHANGED <<serverStatus, staticVars, historyVars, managerVars, checkVars>>

CreateFirst ==
    /\ caller.op = "create"
    /\ Create(caller.group)

\* pthread_create fails: the new manager is freed again.
CreateFails ==
    /\ caller.op = "create"
    /\ caller' = Idle
    /\ UNCHANGED <<serverStatus, staticVars, historyVars, managerVars, checkVars, starts>>

Stop(g) ==
    /\ caller = Idle /\ manager[g]
    /\ caller' = [op |-> "stop", group |-> g, again |-> FALSE]
    /\ UNCHANGED <<serverStatus, staticVars, historyVars, managerVars, checkVars, starts>>

\* Mutant: the thread is joined with the manager's mutex held.
TellToStopLocked ==
    /\ caller.op = "stop" /\ ~held[caller.group]
    /\ running' = [running EXCEPT ![caller.group] = FALSE]
    /\ held' = [held EXCEPT ![caller.group] = TRUE]
    /\ caller' = [caller EXCEPT !.op = "join"]
    /\ UNCHANGED <<serverStatus, staticVars, historyVars, manager, checkVars, starts>>

\* health_check_manager_stop up to pthread_join; it waits for the mutex.
TellToStop ==
    /\ caller.op = "stop" /\ ~held[caller.group]
    /\ running' = [running EXCEPT ![caller.group] = FALSE]
    /\ caller' = [caller EXCEPT !.op = "join"]
    /\ UNCHANGED <<serverStatus, staticVars, historyVars, manager, held, checkVars, starts>>

\* Mutant: the manager is freed without waiting for its thread.
JoinedAtOnce ==
    /\ caller.op = "join"
    /\ manager' = [manager EXCEPT ![caller.group] = FALSE]
    /\ caller' = IF caller.again THEN [op |-> "create", group |-> caller.group] ELSE Idle
    /\ UNCHANGED <<serverStatus, staticVars, historyVars, running, held, checkVars, starts>>

\* pthread_join, and health_check_manager_free, whose own stop finds nothing
\* to do.
Joined ==
    /\ caller.op = "join" /\ thread[caller.group] = "done"
    /\ manager' = [manager EXCEPT ![caller.group] = FALSE]
    /\ thread' = [thread EXCEPT ![caller.group] = "none"]
    /\ caller' = IF caller.again THEN [op |-> "create", group |-> caller.group] ELSE Idle
    /\ UNCHANGED <<serverStatus, staticVars, historyVars, running, held, result, loaded, starts>>

------------------------------------------------------------------------------
(* health_check_thread_worker.                                              *)

\* The loop's condition, health_check_manager_is_running.
Look(g) ==
    /\ thread[g] = "head" /\ ~held[g]
    /\ thread' = [thread EXCEPT ![g] = IF running[g] THEN "due" ELSE "done"]
    /\ UNCHANGED <<serverStatus, staticVars, historyVars, managerVars, result, loaded, callVars>>

\* It is not time for a check: 100 ms of sleep.
NotYet(g) ==
    /\ thread[g] = "due" /\ ~held[g]
    /\ thread' = [thread EXCEPT ![g] = "head"]
    /\ UNCHANGED <<serverStatus, staticVars, historyVars, managerVars, result, loaded, callVars>>

\* Whether a result counts for or against the server in its present status.
Rises(g, r) == r = "healthy" /\ serverStatus[g] \in {"DOWN", "UNKNOWN"}
Falls(g, r) == r = "unhealthy" /\ serverStatus[g] = "UP"

\* The mutex is taken, the server checked, and a counter loaded.
CheckServer(g, r) ==
    /\ thread[g] = "due" /\ ~held[g]
    /\ held' = [held EXCEPT ![g] = TRUE]
    /\ result' = [result EXCEPT ![g] = r]
    /\ loaded' = [loaded EXCEPT ![g] = IF Rises(g, r) THEN ups ELSE IF Falls(g, r) THEN downs ELSE 0]
    /\ thread' = [thread EXCEPT ![g] = IF Rises(g, r) \/ Falls(g, r) THEN "count" ELSE "add"]
    /\ UNCHANGED <<serverStatus, staticVars, historyVars, manager, running, callVars>>

\* health_check_update_server_status, the counter loaded: one more success.
CountSuccess(g) ==
    /\ thread[g] = "count" /\ result[g] = "healthy"
    /\ IF loaded[g] + 1 >= Rise
       THEN ups' = 0 /\ serverStatus' = [serverStatus EXCEPT ![g] = "UP"]
       ELSE ups' = loaded[g] + 1 /\ UNCHANGED serverStatus
    /\ thread' = [thread EXCEPT ![g] = "add"]
    /\ UNCHANGED <<downs, historyVars, managerVars, result, loaded, callVars>>

\* Mutant: the counter starts anew with every failure.
CountFailureAnew(g) ==
    /\ thread[g] = "count" /\ result[g] = "unhealthy"
    /\ downs' = 0
    /\ serverStatus' = [serverStatus EXCEPT ![g] = IF 1 >= Fall THEN "DOWN" ELSE @]
    /\ thread' = [thread EXCEPT ![g] = "add"]
    /\ UNCHANGED <<ups, historyVars, managerVars, result, loaded, callVars>>

\* One more failure.
CountFailure(g) ==
    /\ thread[g] = "count" /\ result[g] = "unhealthy"
    /\ IF loaded[g] + 1 >= Fall
       THEN downs' = 0 /\ serverStatus' = [serverStatus EXCEPT ![g] = "DOWN"]
       ELSE downs' = loaded[g] + 1 /\ UNCHANGED serverStatus
    /\ thread' = [thread EXCEPT ![g] = "add"]
    /\ UNCHANGED <<ups, historyVars, managerVars, result, loaded, callVars>>

\* Mutant: the index stops at the last place.
NextIndexStops(g) == IF index[g] < Capacity - 1 THEN index[g] + 1 ELSE index[g]

NextIndex(g) == (index[g] + 1) % Capacity

LastOf(s) == IF Len(s) <= Capacity THEN s ELSE Tail(s)

\* health_check_history_add, and the end of the round.
Add(g) ==
    /\ thread[g] = "add"
    /\ ring' = [ring EXCEPT ![g][index[g]] = result[g]]
    /\ index' = [index EXCEPT ![g] = NextIndex(g)]
    /\ count' = [count EXCEPT ![g] = IF @ < Capacity THEN @ + 1 ELSE @]
    /\ past' = [past EXCEPT ![g] = LastOf(Append(@, result[g]))]
    /\ held' = [held EXCEPT ![g] = FALSE]
    /\ thread' = [thread EXCEPT ![g] = "head"]
    /\ UNCHANGED <<serverStatus, staticVars, manager, running, result, loaded, callVars>>

------------------------------------------------------------------------------
Checks(g) == \E r \in {"healthy", "unhealthy"} : CheckServer(g, r)

ThreadStep(g) ==
    \/ Look(g) \/ NotYet(g) \/ Checks(g)
    \/ CountSuccess(g) \/ CountFailure(g) \/ Add(g)

CallerStep == CreateFirst \/ CreateFails \/ TellToStop \/ Joined

HealthNext ==
    \/ \E g \in Groups : Start(g) \/ Stop(g) \/ ThreadStep(g)
    \/ CallerStep

HealthSpec == HealthInit /\ [][HealthNext]_healthVars

\* Every thread runs and checks fall due.  The thread sleeps with its mutex free
\* in every round, so whoever waits for the mutex gets it.
HealthFairness ==
    /\ SF_healthVars(CallerStep)
    /\ \A g \in Groups : WF_healthVars(ThreadStep(g)) /\ SF_healthVars(Checks(g))

HealthFairSpec == HealthSpec /\ HealthFairness

------------------------------------------------------------------------------
(* Properties.                                                             *)

Results == {"healthy", "unhealthy", "none"}
Places == 0 .. Capacity - 1

\* The type invariant: the shared counters stay below rise and fall.
HealthTypeOK ==
    /\ serverStatus \in [Groups -> {"UP", "DOWN", "UNKNOWN"}]
    /\ ups \in 0 .. Rise - 1 /\ downs \in 0 .. Fall - 1
    /\ manager \in [Groups -> BOOLEAN] /\ running \in [Groups -> BOOLEAN]
    /\ held \in [Groups -> BOOLEAN]
    /\ ring \in [Groups -> [Places -> Results]]
    /\ index \in [Groups -> Places] /\ count \in [Groups -> 0 .. Capacity]
    /\ past \in [Groups -> Seq(Results)]
    /\ thread \in [Groups -> {"none", "head", "due", "count", "add", "done"}]
    /\ result \in [Groups -> Results]
    /\ loaded \in [Groups -> 0 .. Rise + Fall]
    /\ caller \in {Idle} \cup [op : {"create"}, group : Groups]
                         \cup [op : {"stop", "join"}, group : Groups, again : BOOLEAN]
    /\ starts \in 0 .. MaxStarts

\* A manager that has been freed is not used: its thread is gone, whenever the
\* manager was stopped or replaced.
NoThreadLeft == \A g \in Groups : thread[g] # "none" => manager[g]

\* health_check_history_get_all lists the last results, oldest first, however
\* often the ring has gone round.
HistoryIsRecent ==
    \A g \in Groups : past[g] = [i \in 1 .. count[g] |->
        ring[g][(index[g] - count[g] + i - 1 + Capacity) % Capacity]]

\* A stop returns: it gets the manager's mutex and the thread it joins ends.
StopReturns == caller.op \in {"stop", "join"} ~> caller.op \notin {"stop", "join"}

LastResult(g) == IF past[g] = <<>> THEN "none" ELSE Last(past[g])

\* From some time on, the manager of g runs and all its checks fail.
FailsForGood(g) == <>[](manager[g] /\ LastResult(g) = "unhealthy")

\* A server that fails every check from some time on does not stay UP, if the
\* checks of the other groups succeed from some time on.
FailingGoesDown ==
    \A g \in Groups :
        FailsForGood(g) /\ (\A h \in Groups \ {g} : <>[](LastResult(h) # "unhealthy"))
            => <>[](serverStatus[g] # "UP")

\* A server that fails every check from some time on does not stay UP.
FaultyRemoved == \A g \in Groups : FailsForGood(g) => <>[](serverStatus[g] # "UP")
=============================================================================
