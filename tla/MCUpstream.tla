----------------------------- MODULE MCUpstream -----------------------------
\* What belongs to an upstream group: the requests that a worker sends to its
\* servers and the health checks, which run in the master.  The two processes
\* share no state, so one of them moves in a behaviour and the other stays in
\* its initial state, where none of its fair actions is enabled.
EXTENDS LoadBalancer, HealthCheck

VARIABLE part

allVars == <<part, vars, healthVars>>

\* No server has health checks in this process, or the first one has.
MCInit ==
    /\ part \in {"requests", "checks"}
    /\ Init /\ HealthInit
    /\ checked \in {{}, {0}}
    /\ checked = {0} => strategy \in {"round_robin", "random"}
    /\ part = "checks" => checked = {} /\ strategy = "round_robin"

MCNext ==
    /\ UNCHANGED part
    /\ \/ part = "requests" /\ Next /\ UNCHANGED healthVars
       \/ part = "checks" /\ HealthNext /\ UNCHANGED vars

MCSpec == MCInit /\ [][MCNext]_allVars /\ Fairness /\ HealthFairness
=============================================================================
