--------------------------- MODULE UpstreamGroup ---------------------------
(***************************************************************************)
(* The upstream groups of src/src/proxy/load_balancer.c: how               *)
(* create_core_config loads them from the configuration, how servers are   *)
(* added and removed, and the two strategies that look at weights.         *)
(*                                                                         *)
(* Every function here holds the mutex of the group, or of the list of     *)
(* groups, from its first access to its last, so each is one step.  What   *)
(* makes a server available is the subject of LoadBalancer; here it comes  *)
(* and goes.                                                               *)
(***************************************************************************)
EXTENDS Integers, SequencesExt, FiniteSetsExt

CONSTANTS Configurations, \* each a sequence of upstream blocks [name, servers]
          GroupNames, Addresses,
          Weights,        \* of the servers in a block
          MaxChanges      \* bound on what is done to the members once loaded

UpstreamBlock == [name : GroupNames, servers : Seq(Addresses \X Weights)]

ASSUME UpstreamAssumption ==
  /\ IsFiniteSet(Addresses)
  /\ Weights \subseteq Nat /\ MaxChanges \in Nat
  /\ Configurations \subseteq Seq(UpstreamBlock)

VARIABLES
  blocks,   \* the upstream blocks create_core_config has still to load
  loading,  \* [name, servers]: what is left of the block it is at
  groups,   \* config->groups, the latest first, and its group_count
  group_count,
  group,    \* [servers, server_count, total_weight] of each, the latest server first
  server,   \* [weight, current_weight, effective_weight, available]
  picks,    \* how often each server was picked in this round, if it is a round
  changes

groupVars == <<blocks, loading, groups, group_count, group, server, picks, changes>>
loaderVars == <<blocks, loading, groups, group_count>>

NoBlock == [name |-> "none", servers |-> <<>>]
NoServer == [weight |-> 0, current_weight |-> 0, effective_weight |-> 0, available |-> FALSE]
NoGroup == [servers |-> <<>>, server_count |-> 0, total_weight |-> 0]
NoPicks == [s \in Addresses |-> 0]
Broken == [s \in Addresses |-> -1]

Members(g) == ToSet(group[g].servers)
Usable(g) == {s \in Members(g) : server[g][s].available}

GroupInit ==
  /\ blocks \in Configurations
  /\ loading = NoBlock
  /\ groups = <<>> /\ group_count = 0
  /\ group = [g \in GroupNames |-> NoGroup]
  /\ server = [g \in GroupNames |-> [s \in Addresses |-> NoServer]]
  /\ picks = [g \in GroupNames |-> NoPicks]
  /\ changes = 0

\* A round starts when every current weight is 0, and a change of the members
\* or of who is available breaks it off
RoundBreaks(g) ==
  picks' = [picks EXCEPT ![g] = IF \A s \in Members(g) : server[g][s].current_weight = 0
                                THEN NoPicks ELSE Broken]

-----------------------------------------------------------------------------
\* create_core_config goes through the blocks.  A name that is in the list
\* already is refused, and the whole block with it.
lb_config_add_group ==
  /\ loading = NoBlock /\ blocks # <<>>
  /\ blocks' = Tail(blocks)
  /\ IF Contains(groups, Head(blocks).name)
     THEN UNCHANGED <<loading, groups, group_count>>
     ELSE /\ loading' = Head(blocks)
          /\ groups' = <<Head(blocks).name>> \o groups
          /\ group_count' = group_count + 1
  /\ UNCHANGED <<group, server, picks, changes>>

\* An address that is in the list is refused, and so is a weight of 0
upstream_group_add_server(g, s, weight) ==
  IF weight = 0 \/ s \in Members(g) THEN UNCHANGED <<group, server, picks>>
  ELSE /\ group' = [group EXCEPT ![g] =
                      [servers |-> <<s>> \o @.servers, server_count |-> @.server_count + 1,
                       total_weight |-> @.total_weight + weight]]
       /\ server' = [server EXCEPT ![g][s] = [weight |-> weight, current_weight |-> 0,
                                              effective_weight |-> weight, available |-> TRUE]]
       /\ RoundBreaks(g)

LoadServer ==
  /\ loading.servers # <<>>
  /\ loading' = [loading EXCEPT !.servers = Tail(@)]
  /\ upstream_group_add_server(loading.name, Head(loading.servers)[1], Head(loading.servers)[2])
  /\ UNCHANGED <<blocks, groups, group_count, changes>>

GroupLoaded ==
  /\ loading # NoBlock /\ loading.servers = <<>>
  /\ loading' = NoBlock
  /\ UNCHANGED <<blocks, groups, group_count, group, server, picks, changes>>

\* What is done with the groups afterwards
Loaded == blocks = <<>> /\ loading = NoBlock

upstream_group_remove_server(g, s) ==
  /\ Loaded /\ Contains(groups, g) /\ s \in Members(g)
  /\ changes < MaxChanges
  /\ changes' = changes + 1
  /\ group' = [group EXCEPT ![g] = [servers |-> RemoveFirst(@.servers, s),
                                    server_count |-> @.server_count - 1,
                                    total_weight |-> @.total_weight - server[g][s].weight]]
  /\ server' = [server EXCEPT ![g][s] = NoServer]
  /\ RoundBreaks(g)
  /\ UNCHANGED loaderVars

AddLater(g, s, weight) ==
  /\ Loaded /\ Contains(groups, g) /\ s \notin Members(g)
  /\ changes < MaxChanges
  /\ changes' = changes + 1
  /\ upstream_group_add_server(g, s, weight)
  /\ UNCHANGED loaderVars

\* A status, a connection or a failure: see LoadBalancer
AvailabilityChanges(g, s) ==
  /\ Loaded /\ s \in Members(g)
  /\ changes < MaxChanges
  /\ changes' = changes + 1
  /\ server' = [server EXCEPT ![g][s].available = ~@]
  /\ RoundBreaks(g)
  /\ UNCHANGED <<loaderVars, group>>

-----------------------------------------------------------------------------
\* Selection by weight

\* Mutant: the server's own weight is taken off, not the total
PickedOwnWeight(g, best, total) ==
  [s \in Addresses |->
     LET old == server[g][s] IN
     IF s \notin Usable(g) THEN old
     ELSE [old EXCEPT !.current_weight =
             @ + old.effective_weight - IF s = best THEN old.effective_weight ELSE 0]]

\* The current weights after a pick; the effective weight moves one step back
\* to the configured one if it is below
Picked(g, best, total) ==
  [s \in Addresses |->
     LET old == server[g][s] IN
     IF s \notin Usable(g) THEN old
     ELSE [old EXCEPT !.current_weight =
                        @ + old.effective_weight - (IF s = best THEN total ELSE 0),
                      !.effective_weight = IF @ < old.weight THEN @ + 1 ELSE @]]

\* lb_weighted_round_robin takes the first of the servers whose current weight
\* is highest, each having gained its effective weight
Raised(g, s) == server[g][s].current_weight + server[g][s].effective_weight
Heaviest(g, s) == s \in Usable(g) /\ \A t \in Usable(g) : Raised(g, s) >= Raised(g, t)
Best(g) == LET list == group[g].servers
           IN list[SelectInSeq(list, LAMBDA s : Heaviest(g, s))]

\* A round is over when it has total_weight picks
PicksAfter(g, best) ==
  LET now == [picks[g] EXCEPT ![best] = @ + 1] IN
  IF picks[g] = Broken \/ Usable(g) # Members(g) THEN Broken
  ELSE IF SumFunction(now) = group[g].total_weight THEN NoPicks ELSE now

lb_weighted_round_robin(g) ==
  /\ Loaded /\ Contains(groups, g) /\ Usable(g) # {}
  /\ LET best == Best(g)
         total == SumFunction([s \in Usable(g) |-> server[g][s].effective_weight])
     IN /\ server' = [server EXCEPT ![g] = Picked(g, best, total)]
        /\ picks' = [picks EXCEPT ![g] = PicksAfter(g, best)]
  /\ UNCHANGED <<loaderVars, group, changes>>

\* lb_weighted_random: the first server at which the weights summed up so far
\* exceed the drawn number
WeightAt(g) == [i \in DOMAIN group[g].servers |->
                  LET s == group[g].servers[i]
                  IN IF s \in Usable(g) THEN server[g][s].weight ELSE 0]
SummedUp(g, i) == SumFunctionOnSet(WeightAt(g), 1 .. i)

lb_weighted_random(g, point) ==
  LET list == group[g].servers
  IN list[Min({i \in DOMAIN list : SummedUp(g, i) > point})]

lb_config_free ==
  /\ Loaded /\ groups # <<>>
  /\ groups' = <<>> /\ group_count' = 0
  /\ group' = [g \in GroupNames |-> NoGroup]
  /\ server' = [g \in GroupNames |-> [s \in Addresses |-> NoServer]]
  /\ picks' = [g \in GroupNames |-> NoPicks]
  /\ UNCHANGED <<blocks, loading, changes>>

GroupNext ==
  \/ lb_config_add_group \/ LoadServer \/ GroupLoaded \/ lb_config_free
  \/ \E g \in GroupNames :
       \/ lb_weighted_round_robin(g)
       \/ \E s \in Addresses :
            \/ upstream_group_remove_server(g, s) \/ AvailabilityChanges(g, s)
            \/ \E weight \in Weights : AddLater(g, s, weight)

GroupSpec == GroupInit /\ [][GroupNext]_groupVars

-----------------------------------------------------------------------------
\* What the group says of its servers agrees with its list
GroupAccounts ==
  /\ IsInjective(groups) /\ group_count = Len(groups)
  /\ \A g \in GroupNames :
       /\ IsInjective(group[g].servers)
       /\ group[g].server_count = Len(group[g].servers)
       /\ group[g].total_weight = SumFunction([s \in Members(g) |-> server[g][s].weight])

\* After any sequence of additions, refusals and removals the counts of a group
\* agree with its list.  Weighted round robin gives each server no more than its weight in a round
\* of total_weight picks, so all of them exactly that, and leaves every
\* current weight at 0.  Of the numbers lb_weighted_random may draw, exactly
\* its weight lead to a server.
WeightsRespected ==
  GroupAccounts /\ \A g \in GroupNames :
    /\ picks[g] # Broken =>
         /\ \A s \in Members(g) : picks[g][s] <= server[g][s].weight
         /\ picks[g] = NoPicks => \A s \in Members(g) : server[g][s].current_weight = 0
    /\ LET total == SummedUp(g, Len(group[g].servers)) IN
       \A s \in Usable(g) :
         Cardinality({p \in 0 .. total - 1 : lb_weighted_random(g, p) = s}) = server[g][s].weight
=============================================================================
