---------------------------- MODULE MCRequests ----------------------------
\* What a request goes through: the assembly routines, the memory pools, the
\* upstream groups, the HTTPS handler and the sending at a limited rate.  They
\* share no state, so one of them moves in a behaviour and the others stay in
\* an initial state.
EXTENDS AsmCalls, Mempool, UpstreamGroup, Https, Bandwidth

CONSTANTS s1, s2, s3

VARIABLE part

Block8(n, servers) == [name |-> n, servers |-> servers]
Loc(p, proxied) == [path |-> p, proxy |-> proxied]
Srv(p, n, l) == [port |-> p, name |-> n, locations |-> l]

\* An address twice in a block, a weight of 0 and a name that is taken
MCConfigurations ==
  { <<Block8("g", <<<<s1, a>>, <<s2, b>>, <<s1, 1>>, <<s3, c>>>>),
      Block8("g", <<<<s2, 1>>>>), Block8("h", <<<<s1, 1>>>>)>> : a \in 1 .. 2, b \in {0, 1, 3}, c \in 1 .. 2 }

\* No server block, none for the port, and several with locations that overlap
MCServerBlocks ==
  { <<>>,
    <<Srv(80, "h1", <<Loc(<<"a">>, FALSE)>>)>>,
    <<Srv(80, "h2", <<>>),
      Srv(8443, "h1", <<Loc(<<>>, TRUE), Loc(<<"a">>, FALSE),
                        Loc(<<"a", "b">>, TRUE), Loc(<<"a">>, TRUE)>>),
      Srv(8443, "h2", <<Loc(<<"a">>, TRUE)>>)>> }
MCUris == {<<"a">>, <<"a", "b">>, <<"404">>}
MCNotFoundPage == <<"404">>

allVars == <<part, call, poolVars, groupVars, httpsVars, vars>>

MCInit ==
  /\ part \in {"asm", "pool", "group", "https", "bandwidth"}
  /\ CallInit /\ PoolInit /\ GroupInit /\ HttpsInit /\ Init
  /\ part # "pool" => aarch64
  /\ part # "group" => blocks = CHOOSE b \in Configurations : TRUE
  /\ part # "https" => /\ config = CHOOSE c \in [servers : ServerBlocks, cache : BOOLEAN,
                                                 compress : BOOLEAN] : TRUE
                       /\ files = [u \in Uris |-> 0]

MCNext ==
  /\ UNCHANGED part
  /\ \/ part = "asm" /\ CallNext /\ UNCHANGED <<poolVars, groupVars, httpsVars, vars>>
     \/ part = "pool" /\ PoolNext /\ UNCHANGED <<call, groupVars, httpsVars, vars>>
     \/ part = "group" /\ GroupNext /\ UNCHANGED <<call, poolVars, httpsVars, vars>>
     \/ part = "https" /\ HttpsNext /\ UNCHANGED <<call, poolVars, groupVars, vars>>
     \/ part = "bandwidth" /\ Next /\ UNCHANGED <<call, poolVars, groupVars, httpsVars>>

MCSpec == MCInit /\ [][MCNext]_allVars
=============================================================================
