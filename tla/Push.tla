-------------------------------- MODULE Push --------------------------------
(***************************************************************************)
(* The event push service, src/src/stream/push.c: its manager and the      *)
(* handling of an event stream request, push_handle_sse_request, which any *)
(* number of threads may run at once.  The limit on clients is checked in  *)
(* one critical section of clients_mutex and the client is linked in       *)
(* another, after its headers have been sent.                              *)
(*                                                                         *)
(* No function of the file takes a client out of the list when its         *)
(* connection ends: only push_manager_free does, for all of them.          *)
(* Nor does anybody ignore SIGPIPE: a send to a client that is gone may    *)
(* end the process, which is a behaviour that stops after any step.        *)
(***************************************************************************)
EXTENDS Integers, Sequences, FiniteSets

CONSTANTS Handlers,   \* the threads that handle requests
          PushClients, \* the clients that can be created
          MaxClients  \* config->max_clients

ASSUME PushAssumption ==
  /\ IsFiniteSet(Handlers) /\ Handlers # {}
  /\ MaxClients \in Nat \ {0}

VARIABLES
  pushRunning,      \* manager->running
  freed,            \* push_manager_free has run
  clients,          \* manager->clients, the latest first
  client_count,     \* manager->client_count
  total_connections,
  handler,          \* [pc, client] of each thread
  socket            \* of each client: "none", "open" or "closed"

pushVars == <<pushRunning, freed, clients, client_count, total_connections, handler, socket>>
lists == <<clients, client_count, total_connections>>

NoClient == "no client"
InFlight == {h \in Handlers : handler[h].pc \in {"create", "headers", "link"}}

PushInit ==
  /\ pushRunning = FALSE /\ freed = FALSE
  /\ clients = <<>> /\ client_count = 0 /\ total_connections = 0
  /\ handler = [h \in Handlers |-> [pc |-> "idle", client |-> NoClient]]
  /\ socket = [k \in PushClients |-> "none"]

Return(h) == handler' = [handler EXCEPT ![h] = [pc |-> "idle", client |-> NoClient]]

\* Mutant: the limit is compared with > instead of >=
RequestArrivesLate(h) ==
  /\ ~freed /\ handler[h].pc = "idle"
  /\ client_count <= MaxClients
  /\ handler' = [handler EXCEPT ![h].pc = "create"]
  /\ UNCHANGED <<pushRunning, freed, lists, socket>>

\* The first critical section of push_handle_sse_request; at the limit the
\* request is answered 503 and the thread is where it was
RequestArrives(h) ==
  /\ ~freed /\ handler[h].pc = "idle"
  /\ client_count < MaxClients
  /\ handler' = [handler EXCEPT ![h].pc = "create"]
  /\ UNCHANGED <<pushRunning, freed, lists, socket>>

push_client_create(h, k) ==
  /\ handler[h].pc = "create" /\ socket[k] = "none"
  /\ handler' = [handler EXCEPT ![h] = [pc |-> "headers", client |-> k]]
  /\ socket' = [socket EXCEPT ![k] = "open"]
  /\ UNCHANGED <<pushRunning, freed, lists>>

\* Without memory for the client the caller keeps its socket
CreateFails(h) ==
  /\ handler[h].pc = "create"
  /\ Return(h)
  /\ UNCHANGED <<pushRunning, freed, lists, socket>>

push_send_sse_headers(h) ==
  /\ handler[h].pc = "headers"
  /\ handler' = [handler EXCEPT ![h].pc = "link"]
  /\ UNCHANGED <<pushRunning, freed, lists, socket>>

\* push_client_free closes the socket; the client was never linked
HeadersFail(h) ==
  /\ handler[h].pc = "headers"
  /\ socket' = [socket EXCEPT ![handler[h].client] = "closed"]
  /\ Return(h)
  /\ UNCHANGED <<pushRunning, freed, lists>>

\* The second critical section
ClientLinked(h) ==
  /\ handler[h].pc = "link"
  /\ clients' = <<handler[h].client>> \o clients
  /\ client_count' = client_count + 1
  /\ total_connections' = total_connections + 1
  /\ handler' = [handler EXCEPT ![h].pc = "welcome"]
  /\ UNCHANGED <<pushRunning, freed, socket>>

\* push_send_sse_message; whether it succeeds changes only counters of the
\* client, and the client stays linked
WelcomeSent(h) ==
  /\ handler[h].pc = "welcome"
  /\ Return(h)
  /\ UNCHANGED <<pushRunning, freed, lists, socket>>

\* A start that fails leaves running as it was, and so does one with the
\* service disabled, which returns 0
push_manager_start ==
  /\ ~freed /\ ~pushRunning
  /\ pushRunning' = TRUE
  /\ UNCHANGED <<freed, lists, handler, socket>>

push_manager_stop ==
  /\ ~freed /\ pushRunning
  /\ pushRunning' = FALSE
  /\ UNCHANGED <<freed, lists, handler, socket>>

\* Stops a running manager and frees the linked clients.  Its caller must
\* have no handler left: the manager itself goes.
push_manager_free ==
  /\ ~freed /\ \A h \in Handlers : handler[h].pc = "idle"
  /\ freed' = TRUE /\ pushRunning' = FALSE
  /\ socket' = [k \in PushClients |->
                  IF \E i \in DOMAIN clients : clients[i] = k THEN "closed" ELSE socket[k]]
  /\ clients' = <<>>
  /\ UNCHANGED <<client_count, total_connections, handler>>

PushNext ==
  \/ \E h \in Handlers :
       \/ RequestArrives(h) \/ CreateFails(h) \/ push_send_sse_headers(h) \/ HeadersFail(h)
       \/ ClientLinked(h) \/ WelcomeSent(h)
       \/ \E k \in PushClients : push_client_create(h, k)
  \/ push_manager_start \/ push_manager_stop \/ push_manager_free

PushSpec == PushInit /\ [][PushNext]_pushVars

-----------------------------------------------------------------------------
\* The list and the clients on their way to it
ClientsBounded ==
  /\ client_count + Cardinality(InFlight) <= MaxClients + Cardinality(Handlers) - 1
  /\ ~freed => client_count = Len(clients)

\* Linked clients have open sockets and are linked once
ClientsKept ==
  /\ \A i \in DOMAIN clients : /\ socket[clients[i]] = "open"
                               /\ \A j \in DOMAIN clients : clients[i] = clients[j] => i = j
  /\ freed => \A k \in PushClients : socket[k] # "open"

\* The list never holds more clients than the limit and, because the limit is
\* checked before the client is linked, one for every other thread; with the
\* clients on their way it does not either.  Whatever was opened for a client
\* is closed once the manager is gone: no path loses a client between its
\* creation and the list.
ClientsAccounted == ClientsBounded /\ ClientsKept
=============================================================================
