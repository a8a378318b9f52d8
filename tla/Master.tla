------------------------------- MODULE Master -------------------------------
(***************************************************************************)
(* The processes of the server: main of src/src/core/main.c forks the      *)
(* workers, waits for as many of them to end, and cleans up.               *)
(*                                                                         *)
(* SIGINT and SIGTERM run signal_handler, which kills the workers that the *)
(* process knows of.  A worker inherits the handler together with the      *)
(* master's memory: worker w was forked when workers 0 .. w-1 had been     *)
(* counted, so those are the ones it knows.  The handler interrupts wait   *)
(* and waitpid, which go on afterwards (SA_RESTART, by _GNU_SOURCE), and   *)
(* nothing else that matters here.  SIGKILL ends a process at once.        *)
(*                                                                         *)
(* worker_pids has 128 places and nothing compares worker_processes with   *)
(* that: with more workers Record writes behind it, which is not modelled. *)
(***************************************************************************)
EXTENDS Integers

MaxPids == 128      \* the places of worker_pids

CONSTANTS
    W,              \* worker_processes
    Paths,          \* how the server is started: "cli" (--port ...) or "config" (-c)
    MaxSignals      \* how many signals are sent

ASSUME MasterAssumption ==
    /\ W \in 0 .. MaxPids
    /\ Paths \subseteq {"cli", "config"}
    /\ MaxSignals \in Nat

Workers == 0 .. W - 1

VARIABLES
    path,
    pc, at,         \* the master: where it is, the index of its loop
    spawned,        \* num_workers_spawned; worker_pids holds 0 .. spawned - 1
    worker,         \* of each worker: "none", "alive", "zombie" or "gone"
    signals,        \* how many signals were sent
    asked           \* history: what the master was doing at the last signal

vars == <<path, pc, at, spawned, worker, signals, asked>>

Ended == {"exited", "failed", "aborted"}

Init ==
    /\ path \in Paths
    /\ pc = "fork" /\ at = 0
    /\ spawned = 0
    /\ worker = [w \in Workers |-> "none"]
    /\ signals = 0 /\ asked = "none"

\* A process that ends is a zombie until the master waits for it, and is gone at
\* once when there is no master.
Dead == IF pc \in Ended THEN "gone" ELSE "zombie"

\* The workers in K are killed; what is dead stays as it is.
Kill(K) == [w \in Workers |-> IF w \in K /\ worker[w] = "alive" THEN Dead ELSE worker[w]]

------------------------------------------------------------------------------
(* Signals, and workers that end by themselves.                            *)

\* Mutant: the handler stops before the last worker.
KnownButLast(n) == 0 .. n - 2

\* The workers a process knows of that has counted n of them.
Known(n) == 0 .. n - 1

\* signal_handler in the master.
MasterSignal ==
    /\ pc \notin Ended
    /\ signals < MaxSignals
    /\ signals' = signals + 1
    /\ worker' = Kill(Known(spawned))
    /\ asked' = pc
    /\ UNCHANGED <<path, pc, at, spawned>>

\* signal_handler in worker w, which goes on with its loop.
WorkerSignal(w) ==
    /\ worker[w] = "alive"
    /\ signals < MaxSignals
    /\ signals' = signals + 1
    /\ worker' = Kill(Known(w))
    /\ UNCHANGED <<path, pc, at, spawned, asked>>

\* A worker crashes, or returns from worker_loop because it cannot set it up.
WorkerEnds(w) ==
    /\ worker[w] = "alive"
    /\ worker' = Kill({w})
    /\ UNCHANGED <<path, pc, at, spawned, signals, asked>>

------------------------------------------------------------------------------
(* The master.                                                             *)

Fork ==
    /\ pc = "fork" /\ at < W
    /\ worker' = [worker EXCEPT ![at] = "alive"]
    /\ pc' = "record"
    /\ UNCHANGED <<path, at, spawned, signals, asked>>

\* Mutant: the worker is not counted.
RecordPidOnly ==
    /\ pc = "record"
    /\ pc' = "fork"
    /\ at' = at + 1
    /\ UNCHANGED <<path, spawned, worker, signals, asked>>

\* fork has returned: worker_pids[i] = pid, num_workers_spawned++.
Record ==
    /\ pc = "record"
    /\ pc' = "fork"
    /\ spawned' = spawned + 1
    /\ at' = at + 1
    /\ UNCHANGED <<path, worker, signals, asked>>

\* Started from the command line the master exits; otherwise it cleans up first.
ForkFails ==
    /\ pc = "fork" /\ at < W
    /\ pc' = IF path = "cli" THEN "failed" ELSE "terminate"
    /\ at' = 0
    /\ UNCHANGED <<path, spawned, worker, signals, asked>>

AllForked ==
    /\ pc = "fork" /\ at = W
    /\ pc' = "wait"
    /\ at' = 0
    /\ UNCHANGED <<path, spawned, worker, signals, asked>>

\* Mutant: the master waits for its workers in turn.
ReapInTurn ==
    /\ pc = "wait" /\ at < W
    /\ worker[at] = "zombie"
    /\ worker' = [worker EXCEPT ![at] = "gone"]
    /\ at' = at + 1
    /\ UNCHANGED <<path, pc, spawned, signals, asked>>

\* wait(NULL) takes one that has ended.
Reap ==
    /\ pc = "wait" /\ at < W
    /\ \E w \in Workers :
        /\ worker[w] = "zombie"
        /\ worker' = [worker EXCEPT ![w] = "gone"]
    /\ at' = at + 1
    /\ UNCHANGED <<path, pc, spawned, signals, asked>>

\* Mutant: the loop waits for one worker too few.
AllReapedEarly ==
    /\ pc = "wait" /\ at >= W - 1
    /\ pc' = IF path = "cli" THEN "exited" ELSE "terminate"
    /\ at' = 0
    /\ UNCHANGED <<path, spawned, worker, signals, asked>>

AllReaped ==
    /\ pc = "wait" /\ at = W
    /\ pc' = IF path = "cli" THEN "exited" ELSE "terminate"
    /\ at' = 0
    /\ UNCHANGED <<path, spawned, worker, signals, asked>>

\* cleanup_resources: SIGTERM, which runs the handler of a worker that lives.
Terminate ==
    /\ pc = "terminate" /\ at < spawned
    /\ worker' = IF worker[at] = "alive" THEN Kill(Known(at)) ELSE worker
    /\ pc' = "waitpid"
    /\ UNCHANGED <<path, at, spawned, signals, asked>>

\* waitpid returns when the worker has ended, or at once if it was waited for.
Waitpid ==
    /\ pc = "waitpid"
    /\ worker[at] # "alive"
    /\ worker' = [worker EXCEPT ![at] = "gone"]
    /\ pc' = "terminate"
    /\ at' = at + 1
    /\ UNCHANGED <<path, spawned, signals, asked>>

\* free(worker_pids) of a static array is undefined: the C library aborts, or
\* the rest of the cleanup runs.
FreePids ==
    /\ pc = "terminate" /\ at = spawned
    /\ pc' \in {"aborted", "exited"}
    /\ UNCHANGED <<path, at, spawned, worker, signals, asked>>

Run ==
    \/ Fork \/ Record \/ AllForked
    \/ Reap \/ AllReaped
    \/ Terminate \/ Waitpid \/ FreePids

Next ==
    \/ Run \/ ForkFails
    \/ MasterSignal
    \/ \E w \in Workers : WorkerSignal(w) \/ WorkerEnds(w)

Spec == Init /\ [][Next]_vars

\* The master runs; workers, signals and fork do as they like.
FairSpec == Spec /\ WF_vars(Run)

------------------------------------------------------------------------------
(* Properties.                                                             *)

\* The type invariant.
TypeOK ==
    /\ path \in Paths
    /\ pc \in {"fork", "record", "wait", "terminate", "waitpid"} \cup Ended
    /\ at \in 0 .. W /\ spawned \in 0 .. W
    /\ worker \in [Workers -> {"none", "alive", "zombie", "gone"}]
    /\ signals \in 0 .. MaxSignals
    /\ asked \in {"none", "fork", "record", "wait", "terminate", "waitpid"}

\* Unless fork has just returned, the handler knows every worker that was forked
\* and no other: one signal reaches them all.
WorkersKnown ==
    pc # "record" => \A w \in Workers : worker[w] # "none" <=> w \in Known(spawned)

\* A master that has come past its wait loop, or has cleaned up after a failed
\* fork, leaves no worker behind, whoever killed the workers and in what order.
NobodyLeft == pc \in {"exited", "aborted"} => \A w \in Workers : worker[w] \in {"none", "gone"}

\* A worker that has ended is waited for, however long the others go on (unless
\* the master hangs in the cleanup after a failed fork).
ZombiesReaped ==
    \A w \in Workers : worker[w] = "zombie" ~> worker[w] = "gone" \/ pc \in {"waitpid", "failed"}

\* A signal that reaches the master when all its workers run ends the server.
SignalWhileWaiting == asked = "wait" ~> pc \in Ended

\* A signal that reaches the master ends the server.
SignalEnds == asked # "none" ~> pc \in Ended

=============================================================================
