----------------------------- MODULE MCServices -----------------------------
\* What lives for as long as the server does: the master and its workers, the
\* stream proxy, the event push and the Rust cache.  They share no state, so one
\* of them moves in a behaviour and the others stay in their initial states.
EXTENDS Stream, Push, Master, RustCache

CONSTANTS c1, c2, small, large

VARIABLE part

MCListeners == <<"l">>
MCTalkers == {ClientSocket(c1), BackendSocket(c1)}

MCSizeOf == [v \in Values |-> IF v = large THEN 2 ELSE 1]

allVars == <<part, streamVars, pushVars, vars, rustVars>>

MCInit ==
  /\ part \in {"stream", "push", "master", "cache"}
  /\ StreamInit /\ PushInit /\ Init /\ RustInit
  /\ part # "master" => path = "config"

MCNext ==
  /\ UNCHANGED part
  /\ \/ part = "stream" /\ StreamNext /\ UNCHANGED <<pushVars, vars, rustVars>>
     \/ part = "push" /\ PushNext /\ UNCHANGED <<streamVars, vars, rustVars>>
     \/ part = "master" /\ Next /\ UNCHANGED <<streamVars, pushVars, rustVars>>
     \/ part = "cache" /\ RustNext /\ UNCHANGED <<streamVars, pushVars, vars>>

\* The fairness of StreamSpec, of FairSpec in Master and of RustFairSpec; no
\* proxy and no put has a step to take while another part moves
MCSpec ==
  /\ MCInit /\ [][MCNext]_allVars
  /\ \A c \in Clients : WF_streamVars(ProxyRuns(c))
  /\ WF_vars(part = "master" /\ Run)
  /\ WF_rustVars(PutStep)
=============================================================================
