--------------------------- MODULE Services_proofs ---------------------------
(***************************************************************************)
(* Theorems of what runs for as long as the server does: Stream, Push and  *)
(* Master, for every number of clients, listeners, connections, keys and   *)
(* workers.                                                                *)
(***************************************************************************)
EXTENDS Stream, Push, Master, FiniteSetTheorems, TLAPS

------------------------------------------------------------------------------
(***************************************************************************)
(* Stream: descriptors and bytes                                           *)
(***************************************************************************)

Pcs == {"ended", "accepted", "select", "lost", "connecting", "forward", "down",
        "blocked", "cleanup", "cleanup2"}
MaybeFd == Fds \cup {NoFd}

StreamTypes ==
  /\ DOMAIN file = Fds
  /\ conn \in [Clients -> [pc : Pcs, client_fd : MaybeFd, backend_fd : MaybeFd]]
  /\ listener \in [ListenerNames -> [active : BOOLEAN, socket_fd : MaybeFd, starts : Nat]]
  /\ DOMAIN lthread = ListenerThreads
  /\ \A t \in ListenerThreads :
       lthread[t] = [pc |-> lthread[t].pc, fd |-> lthread[t].fd, client |-> lthread[t].client]

\* An active listener's number is that of its socket, so stopping it closes
\* nothing else
ListenOwned ==
  \A l \in ListenerNames : listener[l].active =>
    listener[l].socket_fd \in Fds /\ file[listener[l].socket_fd] = ListenSocket(l)

\* A connection has no backend before it connects, and no client in the
\* second half of the cleanup
PhaseInv ==
  \A c \in Clients :
    /\ conn[c].pc \in {"accepted", "select", "lost"} => conn[c].backend_fd = NoFd
    /\ conn[c].pc = "cleanup2" => conn[c].client_fd = NoFd

\* A client that was accepted is in the hands of one thread
CreateInv ==
  /\ \A t \in ListenerThreads : lthread[t].pc = "create" =>
       lthread[t].client \in Clients /\ conn[lthread[t].client].pc = "accepted"
  /\ \A t, u \in ListenerThreads :
       lthread[t].pc = "create" /\ lthread[u].pc = "create"
         /\ lthread[t].client = lthread[u].client => t = u

\* The manager is at one of its listeners or behind the last one
ManagerType == manager \in [op : {"idle", "start", "stop"}, at : Nat \ {0}]

OwnInv == StreamTypes /\ DescriptorsOwned /\ ListenOwned /\ PhaseInv /\ CreateInv

\* What has been forwarded from s to d, and what waits at s, is what the peer
\* of s has sent
Flow(s, d) ==
  /\ Len(outbox[d]) + Len(inbox[s]) = count[s]
  /\ \A i \in 1 .. Len(inbox[s]) : inbox[s][i] = <<s, Len(outbox[d]) + i>>

Quiet(s) == inbox[s] = <<>> /\ outbox[s] = <<>> /\ count[s] = 0

NetTypes ==
  /\ DOMAIN inbox = Ends /\ DOMAIN outbox = Ends
  /\ \A s \in Ends : inbox[s] \in Seq(Ends \X Nat) /\ outbox[s] \in Seq(Ends \X Nat)
  /\ count \in [Ends -> Nat]

Received(s, d) == \A i \in DOMAIN outbox[d] : outbox[d][i] = <<s, i>>

\* What the sockets of a connection hold, by where its thread is; a thread
\* that forwards has both descriptors
FlowOf(c) ==
  /\ Received(ClientSocket(c), BackendSocket(c)) /\ Received(BackendSocket(c), ClientSocket(c))
  /\ conn[c].pc \in {"forward", "down"} =>
       Flow(ClientSocket(c), BackendSocket(c)) /\ Flow(BackendSocket(c), ClientSocket(c))
  /\ conn[c].pc \notin {"forward", "down", "blocked", "cleanup"} => Quiet(ClientSocket(c))
  /\ conn[c].pc \notin {"forward", "down", "blocked", "cleanup", "cleanup2"} =>
       Quiet(BackendSocket(c))
  /\ conn[c].pc \in {"accepted", "select", "connecting", "forward", "down"} =>
       conn[c].client_fd \in Fds
  /\ conn[c].pc \in {"connecting", "forward", "down"} => conn[c].backend_fd \in Fds

FlowInv == \A c \in Clients : FlowOf(c)

StreamInv == ManagerType /\ OwnInv /\ NetTypes /\ FlowInv

-----------------------------------------------------------------------------
\* The sockets are told apart by what they are and whose they are
LEMMA SocketsDiffer ==
  /\ \A c, d : ClientSocket(c) = ClientSocket(d) => c = d
  /\ \A c, d : BackendSocket(c) = BackendSocket(d) => c = d
  /\ \A c, d : ListenSocket(c) = ListenSocket(d) => c = d
  /\ \A c, d : /\ ClientSocket(c) # BackendSocket(d)
               /\ ClientSocket(c) # ListenSocket(d)
               /\ BackendSocket(c) # ListenSocket(d)
               /\ ClientSocket(c) # Closed /\ BackendSocket(c) # Closed /\ ListenSocket(c) # Closed
BY DEF ClientSocket, BackendSocket, ListenSocket, Closed

LEMMA NoFdIsNone == NoFd \notin Fds
BY StreamAssumption DEF NoFd

LEMMA OwnInit == StreamInit => OwnInv
<1> SUFFICES ASSUME StreamInit PROVE OwnInv
  OBVIOUS
<1>1. /\ DOMAIN file = Fds
      /\ conn \in [Clients -> [pc : Pcs, client_fd : MaybeFd, backend_fd : MaybeFd]]
  BY DEF StreamInit, Pcs, MaybeFd
<1>2. listener \in [ListenerNames -> [active : BOOLEAN, socket_fd : MaybeFd, starts : Nat]]
  BY DEF StreamInit, MaybeFd
<1>3. /\ DOMAIN lthread = ListenerThreads
      /\ \A t \in ListenerThreads :
           lthread[t] = [pc |-> lthread[t].pc, fd |-> lthread[t].fd, client |-> lthread[t].client]
  BY DEF StreamInit
<1>4. DescriptorsOwned
  BY SocketsDiffer DEF StreamInit, DescriptorsOwned
<1>5. ListenOwned /\ PhaseInv /\ CreateInv
  BY DEF StreamInit, ListenOwned, PhaseInv, CreateInv
<1>6. QED
  BY <1>1, <1>2, <1>3, <1>4, <1>5 DEF OwnInv, StreamTypes

\* What the two proofs below say of the connection c alone
Own(c) ==
  /\ conn[c].client_fd # NoFd => file[conn[c].client_fd] = ClientSocket(c)
  /\ conn[c].backend_fd # NoFd => file[conn[c].backend_fd] = BackendSocket(c)
  /\ conn[c].pc = "ended" => conn[c].client_fd = NoFd /\ conn[c].backend_fd = NoFd
  /\ \A f \in Fds : /\ file[f] = ClientSocket(c) => conn[c].client_fd = f
                    /\ file[f] = BackendSocket(c) => conn[c].backend_fd = f

LEMMA OwnEach == DescriptorsOwned <=> \A c \in Clients : Own(c)
BY DEF DescriptorsOwned, Own

\* A descriptor that is no socket of the connection, before and after
LEMMA OwnApart ==
    ASSUME OwnInv, NEW c \in Clients, NEW fd \in Fds, UNCHANGED conn,
           \A f \in Fds : f # fd => file'[f] = file[f],
           file[fd] \notin {ClientSocket(c), BackendSocket(c)},
           file'[fd] \notin {ClientSocket(c), BackendSocket(c)}
    PROVE  Own(c)'
<1>1. Own(c) /\ conn[c].client_fd \in MaybeFd /\ conn[c].backend_fd \in MaybeFd
  BY OwnEach DEF OwnInv, StreamTypes
<1>2. conn'[c] = conn[c]
  OBVIOUS
<1>3. QED
  BY <1>1, <1>2 DEF Own, MaybeFd

\* A step that changes no descriptor and no connection
LEMMA OwnKept ==
    ASSUME OwnInv, UNCHANGED <<file, conn>>,
           StreamTypes', ListenOwned', CreateInv'
    PROVE  OwnInv'
BY DEF OwnInv, DescriptorsOwned, PhaseInv

LEMMA ManagerTyped == ManagerType /\ ManagerStep => ManagerType'
<1> SUFFICES ASSUME ManagerType, ManagerStep PROVE ManagerType'
  OBVIOUS
<1>1. \/ manager' \in {[op |-> "start", at |-> 1], [op |-> "stop", at |-> 1], [op |-> "idle", at |-> 1]}
      \/ manager' = [manager EXCEPT !.at = @ + 1]
  BY DEF ManagerStep, stream_manager_start, StartDone, stream_manager_stop, StopDone,
         stream_listener_start, ListenerStarts, ListenerFails, stream_listener_stop
<1>2. QED
  BY <1>1 DEF ManagerType

\* The manager's steps
LEMMA OwnManager == ManagerType /\ OwnInv /\ ManagerStep => OwnInv'
<1> SUFFICES ASSUME ManagerType, OwnInv, ManagerStep PROVE OwnInv'
  OBVIOUS
<1> USE DEF mgrVars, netVars
<1>1. CASE UNCHANGED <<file, listener, lthread, conn>>
  BY <1>1 DEF OwnInv, StreamTypes, DescriptorsOwned, ListenOwned, PhaseInv, CreateInv
<1>2. ASSUME NEW l \in ListenerNames, ListenerFails(l) PROVE OwnInv'
  <2>1. UNCHANGED <<file, conn, lthread>>
    BY <1>2 DEF ListenerFails
  <2>2. \/ UNCHANGED listener
        \/ /\ ~listener[l].active
           /\ \E fd \in MaybeFd : listener' = [listener EXCEPT ![l].socket_fd = fd]
    BY <1>2 DEF ListenerFails, MaybeFd
  <2>3. StreamTypes' /\ ListenOwned'
    <3>1. CASE UNCHANGED listener
      BY <2>1, <3>1 DEF OwnInv, StreamTypes, ListenOwned
    <3>2. CASE ~UNCHANGED listener
      <4>1. PICK fd \in MaybeFd : /\ ~listener[l].active
                                 /\ listener' = [listener EXCEPT ![l].socket_fd = fd]
        BY <2>2, <3>2
      <4>2. StreamTypes'
        BY <2>1, <4>1 DEF OwnInv, StreamTypes
      <4>3. ASSUME NEW k \in ListenerNames
            PROVE  /\ listener'[k].active = listener[k].active
                   /\ listener'[k].active => listener'[k] = listener[k]
        BY <4>1 DEF OwnInv, StreamTypes
      <4>4. ListenOwned'
        BY <2>1, <4>3 DEF OwnInv, ListenOwned
      <4>5. QED
        BY <4>2, <4>4
    <3>3. QED
      BY <3>1, <3>2
  <2>4. CreateInv'
    BY <2>1 DEF OwnInv, CreateInv
  <2>5. QED
    BY <2>1, <2>3, <2>4, OwnKept
<1>3. ASSUME NEW l \in ListenerNames, ListenerStarts(l) PROVE OwnInv'
  <2>1. PICK fd \in Fds : /\ file[fd] = Closed
                          /\ file' = [file EXCEPT ![fd] = ListenSocket(l)]
                          /\ listener' = [listener EXCEPT ![l] =
                               [active |-> TRUE, socket_fd |-> fd, starts |-> @.starts + 1]]
    BY <1>3 DEF ListenerStarts, Lowest
  <2>2. UNCHANGED conn /\ lthread' = [lthread EXCEPT ![<<l, listener[l].starts + 1>>].pc = "check"]
    BY <1>3 DEF ListenerStarts
  <2>3. StreamTypes'
    <3>1. listener' \in [ListenerNames -> [active : BOOLEAN, socket_fd : MaybeFd, starts : Nat]]
      <4>1. listener[l].starts + 1 \in Nat
        BY DEF OwnInv, StreamTypes
      <4>2. [active |-> TRUE, socket_fd |-> fd, starts |-> listener[l].starts + 1]
              \in [active : BOOLEAN, socket_fd : MaybeFd, starts : Nat]
        BY <4>1 DEF MaybeFd
      <4>3. QED
        BY <2>1, <4>2 DEF OwnInv, StreamTypes
    <3>2. QED
      BY <2>1, <2>2, <3>1 DEF OwnInv, StreamTypes
  <2>4. ASSUME NEW d \in Clients PROVE Own(d)'
    <3>1. /\ \A f \in Fds : f # fd => file'[f] = file[f]
          /\ file'[fd] = ListenSocket(l)
      BY <2>1 DEF OwnInv, StreamTypes
    <3>2. QED
      BY <2>1, <2>2, <3>1, OwnApart, SocketsDiffer
  <2>5. ListenOwned'
    BY <2>1, SocketsDiffer DEF OwnInv, StreamTypes, ListenOwned
  <2>6. PhaseInv' /\ CreateInv'
    BY <2>2 DEF OwnInv, StreamTypes, PhaseInv, CreateInv
  <2>7. QED
    BY <2>3, <2>4, <2>5, <2>6, OwnEach DEF OwnInv, DescriptorsOwned, Own
<1>4. CASE stream_listener_stop
  <2>1. PICK l \in ListenerNames :
             IF listener[l].active
             THEN /\ file' = Close(listener[l].socket_fd)
                  /\ listener' = [listener EXCEPT ![l].active = FALSE, ![l].socket_fd = NoFd]
             ELSE UNCHANGED <<file, listener>>
    <3>1. manager.at \in DOMAIN Listeners
      BY <1>4, StreamAssumption DEF stream_listener_stop, ManagerType
    <3>2. Listeners[manager.at] \in ListenerNames
      BY <3>1 DEF ListenerNames
    <3>3. QED
      BY <1>4, <3>2 DEF stream_listener_stop
  <2>2. UNCHANGED <<lthread, conn>>
    BY <1>4 DEF stream_listener_stop
  <2>3. CASE ~listener[l].active
    BY <2>1, <2>2, <2>3, <1>1
  <2>4. CASE listener[l].active
    <3> DEFINE fd == listener[l].socket_fd
    <3>1. fd \in Fds /\ file[fd] = ListenSocket(l)
      BY <2>4 DEF OwnInv, ListenOwned
    <3>2. /\ file' = [file EXCEPT ![fd] = Closed]
          /\ listener' = [listener EXCEPT ![l].active = FALSE, ![l].socket_fd = NoFd]
      BY <2>1, <2>4, <3>1 DEF Close
    <3> HIDE DEF fd
    <3>3. StreamTypes'
      <4>1. /\ listener \in [ListenerNames -> [active : BOOLEAN, socket_fd : MaybeFd, starts : Nat]]
            /\ FALSE \in BOOLEAN /\ NoFd \in MaybeFd
        BY DEF OwnInv, StreamTypes, MaybeFd
      <4>2. listener' \in [ListenerNames -> [active : BOOLEAN, socket_fd : MaybeFd, starts : Nat]]
        BY <3>2, <4>1
      <4>3. DOMAIN file' = Fds
        BY <3>2 DEF OwnInv, StreamTypes
      <4>4. QED
        BY <2>2, <4>2, <4>3 DEF OwnInv, StreamTypes
    <3>4. ASSUME NEW d \in Clients PROVE Own(d)'
      <4>1. /\ \A f \in Fds : f # fd => file'[f] = file[f]
            /\ file'[fd] = Closed
        BY <3>1, <3>2 DEF OwnInv, StreamTypes
      <4>2. QED
        BY <2>2, <3>1, <4>1, OwnApart, SocketsDiffer
    <3>5. ListenOwned'
      BY <3>1, <3>2, SocketsDiffer DEF OwnInv, StreamTypes, ListenOwned
    <3>6. PhaseInv' /\ CreateInv'
      BY <2>2 DEF OwnInv, PhaseInv, CreateInv
    <3>7. QED
      BY <3>3, <3>4, <3>5, <3>6, OwnEach DEF OwnInv, DescriptorsOwned, Own
  <2>5. QED
    BY <2>3, <2>4
<1>5. CASE stream_listener_start
  <2>1. PICK l \in ListenerNames : ListenerStarts(l) \/ ListenerFails(l)
    BY <1>5, StreamAssumption DEF stream_listener_start, ListenerNames, ManagerType
  <2>2. QED
    BY <2>1, <1>2, <1>3
<1>6. CASE stream_manager_start \/ StartDone \/ stream_manager_stop \/ StopDone
  BY <1>6, <1>1 DEF stream_manager_start, StartDone, stream_manager_stop, StopDone
<1>7. QED
  BY <1>4, <1>5, <1>6 DEF ManagerStep

\* The listener threads' steps
LEMMA OwnListener ==
    ASSUME NEW t \in ListenerThreads, OwnInv, ListenerStep(t)
    PROVE  OwnInv'
<1> USE DEF mgrVars, netVars
<1>1. ASSUME UNCHANGED <<file, listener, conn>>,
             NEW to \in {"accept", "ended", "blocked", "check"}, NEW fd,
             lthread' = [lthread EXCEPT ![t].pc = to, ![t].fd = fd]
      PROVE  OwnInv'
  <2>1. StreamTypes'
    BY <1>1 DEF OwnInv, StreamTypes
  <2>2. ListenOwned' /\ CreateInv'
    BY <1>1 DEF OwnInv, StreamTypes, ListenOwned, CreateInv
  <2>3. QED
    BY <1>1, <2>1, <2>2, OwnKept
<1>2. CASE ListenerChecks(t)
  <2>1. PICK to \in {"accept", "ended"} :
             lthread' = [lthread EXCEPT ![t].pc = to, ![t].fd = listener[t[1]].socket_fd]
    BY <1>2 DEF ListenerChecks
  <2>2. UNCHANGED <<file, listener, conn>>
    BY <1>2 DEF ListenerChecks
  <2>3. QED
    BY <1>1, <2>1, <2>2
<1>3. ASSUME NEW to \in {"accept", "ended", "blocked", "check"}, Step(t, to),
             UNCHANGED <<file, listener, conn>>
      PROVE  OwnInv'
  <2>1. lthread' = [lthread EXCEPT ![t].pc = to, ![t].fd = lthread[t].fd]
    BY <1>3 DEF Step, OwnInv, StreamTypes
  <2>2. QED
    BY <1>1, <1>3, <2>1
<1>4. CASE AcceptBegins(t)
  <2>1. Step(t, "blocked") \/ Step(t, "check")
    BY <1>4 DEF AcceptBegins
  <2>2. UNCHANGED <<file, listener, conn>>
    BY <1>4 DEF AcceptBegins
  <2>3. QED
    BY <1>3, <2>1, <2>2
<1>5. CASE AcceptFails(t)
  BY <1>3, <1>5 DEF AcceptFails
<1>6. ASSUME NEW c \in Clients, Accepts(t, c) PROVE OwnInv'
  <2>1. PICK fd \in Fds :
             /\ file[fd] = Closed
             /\ file' = [file EXCEPT ![fd] = ClientSocket(c)]
             /\ conn' = [conn EXCEPT ![c] = [pc |-> "accepted", client_fd |-> fd,
                                            backend_fd |-> NoFd]]
    BY <1>6 DEF Accepts, Lowest
  <2>2. /\ conn[c].pc = "ended" /\ lthread[t].pc = "blocked"
        /\ lthread' = [lthread EXCEPT ![t].pc = "create", ![t].client = c]
        /\ UNCHANGED listener
    BY <1>6 DEF Accepts
  <2>3. StreamTypes'
    BY <2>1, <2>2 DEF OwnInv, StreamTypes, MaybeFd, Pcs
  <2>4. conn[c].client_fd = NoFd /\ conn[c].backend_fd = NoFd
    BY <2>2 DEF OwnInv, DescriptorsOwned
  <2>5. \A d \in Clients : Own(d)'
    <3>1. Own(c)'
      BY <2>1, <2>4, SocketsDiffer, NoFdIsNone DEF OwnInv, StreamTypes, DescriptorsOwned, Own, MaybeFd
    <3>2. ASSUME NEW d \in Clients, d # c PROVE Own(d)'
      BY <2>1, <3>2, SocketsDiffer, NoFdIsNone DEF OwnInv, StreamTypes, DescriptorsOwned, Own, MaybeFd
    <3>3. QED
      BY <3>1, <3>2
  <2>6. ListenOwned'
    BY <2>1, <2>2, SocketsDiffer DEF OwnInv, StreamTypes, ListenOwned
  <2>7. PhaseInv'
    BY <2>1 DEF OwnInv, StreamTypes, PhaseInv
  <2>8. CreateInv'
    BY <2>1, <2>2 DEF OwnInv, StreamTypes, CreateInv
  <2>9. QED
    BY <2>3, <2>5, <2>6, <2>7, <2>8, OwnEach DEF OwnInv, DescriptorsOwned, Own
<1>7. CASE stream_connection_create(t)
  <2>1. PICK c \in Clients : c = lthread[t].client /\ conn[c].pc = "accepted"
    BY <1>7 DEF stream_connection_create, OwnInv, CreateInv
  <2>2. /\ lthread[t].pc = "create"
        /\ lthread' = [lthread EXCEPT ![t].pc = "check"]
        /\ UNCHANGED listener
    BY <1>7 DEF stream_connection_create, Step
  <2>3. conn[c].backend_fd = NoFd
    BY <2>1 DEF OwnInv, PhaseInv
  <2>4. ASSUME NEW to \in {"select", "lost"}, UNCHANGED file,
               conn' = [conn EXCEPT ![c].pc = to]
        PROVE  OwnInv'
    <3>1. StreamTypes'
      BY <2>2, <2>4 DEF OwnInv, StreamTypes, Pcs
    <3>2. DescriptorsOwned'
      BY <2>4 DEF OwnInv, StreamTypes, DescriptorsOwned
    <3>3. ListenOwned' /\ PhaseInv'
      BY <2>2, <2>3, <2>4 DEF OwnInv, StreamTypes, ListenOwned, PhaseInv
    <3>4. CreateInv'
      BY <2>1, <2>2, <2>4 DEF OwnInv, StreamTypes, CreateInv
    <3>5. QED
      BY <3>1, <3>2, <3>3, <3>4 DEF OwnInv
  <2>5. ASSUME ConnectionRefused(t, c) PROVE OwnInv'
    <3> DEFINE fd == conn[c].client_fd
    <3>1. /\ file' = IF fd \in Fds THEN [file EXCEPT ![fd] = Closed] ELSE file
          /\ conn' = [conn EXCEPT ![c] = [pc |-> "ended", client_fd |-> NoFd,
                                         backend_fd |-> NoFd]]
      BY <2>5 DEF ConnectionRefused, Close
    <3>2. fd \in Fds => file[fd] = ClientSocket(c)
      BY NoFdIsNone DEF OwnInv, DescriptorsOwned
    <3>3. StreamTypes'
      BY <2>2, <3>1 DEF OwnInv, StreamTypes, Pcs, MaybeFd
    <3>4. \A d \in Clients : Own(d)'
      <4>1. Own(c)'
        BY <2>3, <3>1, <3>2, SocketsDiffer, NoFdIsNone
        DEF OwnInv, StreamTypes, DescriptorsOwned, Own, MaybeFd
      <4>2. ASSUME NEW d \in Clients, d # c PROVE Own(d)'
        BY <3>1, <3>2, <4>2, SocketsDiffer, NoFdIsNone
        DEF OwnInv, StreamTypes, DescriptorsOwned, Own, MaybeFd
      <4>3. QED
        BY <4>1, <4>2
    <3>5. ListenOwned'
      BY <2>2, <3>1, <3>2, SocketsDiffer DEF OwnInv, StreamTypes, ListenOwned
    <3>6. PhaseInv'
      BY <3>1 DEF OwnInv, StreamTypes, PhaseInv
    <3>7. CreateInv'
      BY <2>1, <2>2, <3>1 DEF OwnInv, StreamTypes, CreateInv
    <3>8. QED
      BY <3>3, <3>4, <3>5, <3>6, <3>7, OwnEach DEF OwnInv, DescriptorsOwned, Own
  <2>6. \/ \E to \in {"select", "lost"} : ConnectionCreated(t, c, to)
        \/ ConnectionRefused(t, c)
    BY <1>7, <2>1 DEF stream_connection_create
  <2>7. QED
    BY <2>4, <2>5, <2>6 DEF ConnectionCreated
<1>8. QED
  BY <1>2, <1>4, <1>5, <1>6, <1>7 DEF ListenerStep

ConnTypes == conn \in [Clients -> [pc : Pcs, client_fd : MaybeFd, backend_fd : MaybeFd]]

LEMMA TwoFields ==
    ASSUME NEW c \in Clients, ConnTypes, NEW to \in Pcs, NEW fd \in MaybeFd,
           \/ conn' = [conn EXCEPT ![c].pc = to, ![c].client_fd = fd]
           \/ conn' = [conn EXCEPT ![c].pc = to, ![c].backend_fd = fd]
    PROVE  ConnTypes'
<1> DEFINE C == [Clients -> [pc : Pcs, client_fd : MaybeFd, backend_fd : MaybeFd]]
           one == [conn EXCEPT ![c].pc = to]
<1>1. one \in C
  BY DEF ConnTypes
<1>2. conn' = [one EXCEPT ![c].client_fd = fd] \/ conn' = [one EXCEPT ![c].backend_fd = fd]
  OBVIOUS
<1> HIDE DEF one
<1>3. QED
  BY <1>1, <1>2 DEF ConnTypes

LEMMA FdTypes == NoFd \in MaybeFd /\ Fds \subseteq MaybeFd
BY DEF MaybeFd

LEMMA PcTypes == {"connecting", "cleanup", "cleanup2", "ended"} \subseteq Pcs
BY DEF Pcs

\* A step of a connection's thread changes that connection, which no listener
\* thread has in its hands
LEMMA PhaseStep ==
    ASSUME NEW c \in Clients, OwnInv, UNCHANGED lthread, ConnTypes',
           \A d \in Clients : d # c => conn'[d] = conn[d],
           conn[c].pc \notin {"accepted", "ended", "lost"},
           conn'[c].pc \notin {"accepted", "select", "lost"},
           conn'[c].pc = "cleanup2" => conn'[c].client_fd = NoFd
    PROVE  PhaseInv' /\ CreateInv'
<1>1. PhaseInv'
  BY DEF OwnInv, PhaseInv
<1>2. CreateInv'
  BY DEF OwnInv, CreateInv
<1>3. QED
  BY <1>1, <1>2

\* Only the place in the program changes
LEMMA OwnGoto ==
    ASSUME NEW c \in Clients, OwnInv, UNCHANGED <<file, listener, lthread>>,
           NEW to \in {"forward", "down", "blocked", "cleanup"}, Goto(c, to),
           conn[c].pc \in {"select", "connecting", "forward", "down", "blocked"}
    PROVE  OwnInv'
<1>1. /\ conn'[c].pc = to
      /\ conn'[c].client_fd = conn[c].client_fd /\ conn'[c].backend_fd = conn[c].backend_fd
      /\ \A d \in Clients : d # c => conn'[d] = conn[d]
  BY DEF Goto, OwnInv, StreamTypes
<1>2. ConnTypes'
  BY DEF Goto, OwnInv, StreamTypes, ConnTypes, Pcs
<1>3. PhaseInv' /\ CreateInv'
  BY <1>1, <1>2, PhaseStep
<1>4. StreamTypes' /\ ListenOwned'
  BY <1>2 DEF OwnInv, StreamTypes, ConnTypes, ListenOwned
<1>5. \A d \in Clients : Own(d)'
  BY <1>1, OwnEach DEF OwnInv, Own
<1>6. QED
  BY <1>3, <1>4, <1>5, OwnEach DEF OwnInv, DescriptorsOwned, Own

\* A descriptor of the connection is closed, if it has it
LEMMA OwnClose ==
    ASSUME NEW c \in Clients, OwnInv, UNCHANGED <<listener, lthread>>, ConnTypes',
           \A d \in Clients : d # c => conn'[d] = conn[d],
           conn[c].pc \notin {"accepted", "ended", "lost"},
           conn'[c].pc \notin {"accepted", "select", "lost"},
           conn'[c].pc = "cleanup2" => conn'[c].client_fd = NoFd,
           conn'[c].pc = "ended" => conn'[c].client_fd = NoFd /\ conn'[c].backend_fd = NoFd,
           NEW fd \in MaybeFd, file' = Close(fd),
           \/ /\ fd = conn[c].client_fd
              /\ conn'[c].client_fd = NoFd /\ conn'[c].backend_fd = conn[c].backend_fd
           \/ /\ fd = conn[c].backend_fd
              /\ conn'[c].backend_fd = NoFd /\ conn'[c].client_fd = conn[c].client_fd
    PROVE  OwnInv'
<1>1. PhaseInv' /\ CreateInv'
  BY PhaseStep
<1>2. /\ DOMAIN file' = Fds
      /\ \A f \in Fds : f # fd => file'[f] = file[f]
      /\ fd \in Fds => file'[fd] = Closed
  BY DEF Close, OwnInv, StreamTypes
<1>3. StreamTypes'
  BY <1>2 DEF OwnInv, StreamTypes, ConnTypes
<1>4. Own(c) /\ conn[c].client_fd \in MaybeFd /\ conn[c].backend_fd \in MaybeFd
  BY OwnEach DEF OwnInv, StreamTypes
<1>5. fd \in Fds => file[fd] \in {ClientSocket(c), BackendSocket(c)}
  BY <1>4, NoFdIsNone DEF Own
<1>6. Own(c)'
  <2>1. \A f \in Fds : file'[f] # Closed => f # fd /\ file'[f] = file[f]
    BY <1>2
  <2>2. conn'[c].client_fd # NoFd => file'[conn'[c].client_fd] = ClientSocket(c)
    BY <1>2, <1>4, SocketsDiffer DEF Own, MaybeFd
  <2>3. conn'[c].backend_fd # NoFd => file'[conn'[c].backend_fd] = BackendSocket(c)
    BY <1>2, <1>4, SocketsDiffer DEF Own, MaybeFd
  <2>4. ASSUME NEW f \in Fds, file'[f] = ClientSocket(c) PROVE conn'[c].client_fd = f
    <3>1. file[f] = ClientSocket(c) /\ f # fd
      BY <2>1, <2>4, SocketsDiffer
    <3>2. QED
      BY <3>1, <1>4 DEF Own
  <2>5. ASSUME NEW f \in Fds, file'[f] = BackendSocket(c) PROVE conn'[c].backend_fd = f
    <3>1. file[f] = BackendSocket(c) /\ f # fd
      BY <2>1, <2>5, SocketsDiffer
    <3>2. QED
      BY <3>1, <1>4 DEF Own
  <2>6. QED
    BY <2>2, <2>3, <2>4, <2>5 DEF Own
<1>7. ASSUME NEW d \in Clients, d # c PROVE Own(d)'
  <2>1. conn'[d] = conn[d] /\ Own(d) /\ conn[d].client_fd \in MaybeFd
          /\ conn[d].backend_fd \in MaybeFd
    BY <1>7, OwnEach DEF OwnInv, StreamTypes
  <2>2. fd \in Fds => file[fd] # ClientSocket(d) /\ file[fd] # BackendSocket(d)
    BY <1>5, <1>7, SocketsDiffer
  <2>3. QED
    BY <1>2, <2>1, <2>2, SocketsDiffer DEF Own, MaybeFd
<1>8. ListenOwned'
  <2>1. ASSUME NEW l \in ListenerNames, listener[l].active
        PROVE  /\ listener[l].socket_fd \in Fds
               /\ file'[listener[l].socket_fd] = ListenSocket(l)
    <3>1. listener[l].socket_fd \in Fds /\ file[listener[l].socket_fd] = ListenSocket(l)
      BY <2>1 DEF OwnInv, ListenOwned
    <3>2. listener[l].socket_fd # fd
      BY <3>1, <1>5, SocketsDiffer
    <3>3. QED
      BY <3>1, <3>2, <1>2
  <2>2. QED
    BY <2>1 DEF ListenOwned
<1>9. QED
  BY <1>1, <1>3, <1>6, <1>7, <1>8, OwnEach DEF OwnInv, DescriptorsOwned, Own

\* The backend's socket is opened
LEMMA OwnConnect ==
    ASSUME NEW c \in Clients, OwnInv, stream_tcp_connect_backend(c)
    PROVE  OwnInv'
<1>1. PICK fd \in Fds :
           /\ file[fd] = Closed
           /\ file' = [file EXCEPT ![fd] = BackendSocket(c)]
           /\ conn' = [conn EXCEPT ![c].pc = "connecting", ![c].backend_fd = fd]
  BY DEF stream_tcp_connect_backend, Lowest
<1>2. conn[c].pc = "select" /\ UNCHANGED <<listener, lthread>>
  BY DEF stream_tcp_connect_backend, mgrVars
<1>3. conn[c].backend_fd = NoFd
  BY <1>2 DEF OwnInv, PhaseInv
<1>4. /\ conn'[c].pc = "connecting" /\ conn'[c].backend_fd = fd
      /\ conn'[c].client_fd = conn[c].client_fd
      /\ \A d \in Clients : d # c => conn'[d] = conn[d]
  BY <1>1 DEF OwnInv, StreamTypes
<1>5. ConnTypes'
  BY <1>1, TwoFields, FdTypes, PcTypes DEF OwnInv, StreamTypes, ConnTypes
<1>6. PhaseInv' /\ CreateInv'
  BY <1>2, <1>4, <1>5, PhaseStep
<1>7. /\ DOMAIN file' = Fds
      /\ \A f \in Fds : f # fd => file'[f] = file[f]
      /\ file'[fd] = BackendSocket(c)
  BY <1>1 DEF OwnInv, StreamTypes
<1>8. StreamTypes'
  BY <1>2, <1>5, <1>7 DEF OwnInv, StreamTypes, ConnTypes
<1>9. Own(c)'
  <2>1. Own(c) /\ conn[c].client_fd \in MaybeFd
    BY OwnEach DEF OwnInv, StreamTypes
  <2>2. conn[c].client_fd # NoFd => conn[c].client_fd # fd
    BY <1>1, <2>1, SocketsDiffer DEF Own
  <2>3. conn[c].client_fd # NoFd => file'[conn[c].client_fd] = ClientSocket(c)
    BY <1>7, <2>1, <2>2 DEF Own, MaybeFd
  <2>4. \A f \in Fds : file'[f] = ClientSocket(c) => conn[c].client_fd = f
    BY <1>7, <2>1, SocketsDiffer DEF Own
  <2>5. \A f \in Fds : file'[f] = BackendSocket(c) => fd = f
    BY <1>3, <1>7, <2>1, NoFdIsNone DEF Own
  <2>6. QED
    BY <1>1, <1>4, <1>7, <2>3, <2>4, <2>5, NoFdIsNone DEF Own
<1>10. ASSUME NEW d \in Clients, d # c PROVE Own(d)'
  <2>1. conn'[d] = conn[d] /\ Own(d) /\ conn[d].client_fd \in MaybeFd
          /\ conn[d].backend_fd \in MaybeFd
    BY <1>4, <1>10, OwnEach DEF OwnInv, StreamTypes
  <2>2. file[fd] = Closed /\ file'[fd] # ClientSocket(d) /\ file'[fd] # BackendSocket(d)
    BY <1>1, <1>7, <1>10, SocketsDiffer
  <2>3. QED
    BY <1>7, <2>1, <2>2, SocketsDiffer DEF Own, MaybeFd
<1>11. ListenOwned'
  <2>1. ASSUME NEW l \in ListenerNames, listener[l].active
        PROVE  /\ listener[l].socket_fd \in Fds
               /\ file'[listener[l].socket_fd] = ListenSocket(l)
    <3>1. listener[l].socket_fd \in Fds /\ file[listener[l].socket_fd] = ListenSocket(l)
      BY <2>1 DEF OwnInv, ListenOwned
    <3>2. listener[l].socket_fd # fd
      BY <3>1, <1>1, SocketsDiffer
    <3>3. QED
      BY <3>1, <3>2, <1>7
  <2>2. QED
    BY <1>2, <2>1 DEF ListenOwned
<1>12. QED
  BY <1>6, <1>8, <1>9, <1>10, <1>11, OwnEach DEF OwnInv, DescriptorsOwned, Own

\* The steps of a connection's thread
LEMMA OwnProxy ==
    ASSUME NEW c \in Clients, OwnInv, ProxyStep(c)
    PROVE  OwnInv'
<1> USE DEF mgrVars, netVars
<1>0. conn[c].client_fd \in MaybeFd /\ conn[c].backend_fd \in MaybeFd
  BY DEF OwnInv, StreamTypes
<1>1. CASE stream_select_backend(c) \/ ConnectDone(c)
  BY <1>1, OwnGoto DEF stream_select_backend, ConnectDone
<1>2. CASE ForwardUp(c) \/ ForwardDown(c) \/ SendFails(c)
  <2>1. Goto(c, "forward") \/ Goto(c, "down") \/ Goto(c, "cleanup") \/ Goto(c, "blocked")
    BY <1>2 DEF ForwardUp, ForwardDown, SendFails
  <2>2. conn[c].pc \in {"forward", "down"} /\ UNCHANGED <<file, listener, lthread>>
    BY <1>2 DEF ForwardUp, ForwardDown, SendFails
  <2>3. QED
    BY <2>1, <2>2, OwnGoto
<1>3. CASE ConnectFails(c)
  <2>1. /\ conn[c].pc = "connecting" /\ file' = Close(conn[c].backend_fd)
        /\ conn' = [conn EXCEPT ![c].pc = "cleanup", ![c].backend_fd = NoFd]
        /\ UNCHANGED <<listener, lthread>>
    BY <1>3 DEF ConnectFails
  <2>2. /\ conn'[c].pc = "cleanup" /\ conn'[c].backend_fd = NoFd
        /\ conn'[c].client_fd = conn[c].client_fd
        /\ \A d \in Clients : d # c => conn'[d] = conn[d]
    BY <2>1 DEF OwnInv, StreamTypes
  <2>3. ConnTypes'
    BY <2>1, TwoFields, FdTypes, PcTypes DEF OwnInv, StreamTypes, ConnTypes
  <2>4. QED
    BY <1>0, <2>1, <2>2, <2>3, OwnClose
<1>4. CASE CleanupClient(c)
  <2>1. /\ conn[c].pc = "cleanup" /\ file' = Close(conn[c].client_fd)
        /\ conn' = [conn EXCEPT ![c].pc = "cleanup2", ![c].client_fd = NoFd]
        /\ UNCHANGED <<listener, lthread>>
    BY <1>4 DEF CleanupClient
  <2>2. /\ conn'[c].pc = "cleanup2" /\ conn'[c].client_fd = NoFd
        /\ conn'[c].backend_fd = conn[c].backend_fd
        /\ \A d \in Clients : d # c => conn'[d] = conn[d]
    BY <2>1 DEF OwnInv, StreamTypes
  <2>3. ConnTypes'
    BY <2>1, TwoFields, FdTypes, PcTypes DEF OwnInv, StreamTypes, ConnTypes
  <2>4. QED
    BY <1>0, <2>1, <2>2, <2>3, OwnClose
<1>5. CASE CleanupBackend(c)
  <2>1. /\ conn[c].pc = "cleanup2" /\ file' = Close(conn[c].backend_fd)
        /\ conn' = [conn EXCEPT ![c].pc = "ended", ![c].backend_fd = NoFd]
        /\ UNCHANGED <<listener, lthread>>
    BY <1>5 DEF CleanupBackend
  <2>2. conn[c].client_fd = NoFd
    BY <2>1 DEF OwnInv, PhaseInv
  <2>3. /\ conn'[c].pc = "ended" /\ conn'[c].backend_fd = NoFd
        /\ conn'[c].client_fd = conn[c].client_fd
        /\ \A d \in Clients : d # c => conn'[d] = conn[d]
    BY <2>1 DEF OwnInv, StreamTypes
  <2>4. ConnTypes'
    BY <2>1, TwoFields, FdTypes, PcTypes DEF OwnInv, StreamTypes, ConnTypes
  <2>5. QED
    BY <1>0, <2>1, <2>2, <2>3, <2>4, OwnClose
<1>6. CASE stream_tcp_connect_backend(c)
  BY <1>6, OwnConnect
<1>7. QED
  BY <1>1, <1>2, <1>3, <1>4, <1>5, <1>6 DEF ProxyStep

\* Every step keeps the descriptors with their owners
LEMMA OwnStep == ManagerType /\ OwnInv /\ [StreamNext]_streamVars => ManagerType' /\ OwnInv'
<1> SUFFICES ASSUME ManagerType, OwnInv, [StreamNext]_streamVars PROVE ManagerType' /\ OwnInv'
  OBVIOUS
<1>1. CASE ManagerStep
  BY <1>1, ManagerTyped, OwnManager
<1>2. ASSUME NEW t \in ListenerThreads, ListenerStep(t) PROVE ManagerType' /\ OwnInv'
  <2>1. UNCHANGED manager
    BY <1>2 DEF ListenerStep, ListenerChecks, AcceptBegins, AcceptFails,
                stream_connection_create, Accepts, mgrVars
  <2>2. QED
    BY <1>2, <2>1, OwnListener DEF ManagerType
<1>3. ASSUME NEW c \in Clients, ProxyStep(c) PROVE ManagerType' /\ OwnInv'
  <2>1. UNCHANGED manager
    BY <1>3 DEF ProxyStep, stream_select_backend, stream_tcp_connect_backend, ConnectDone,
                ConnectFails, ForwardUp, ForwardDown, SendFails, CleanupClient, CleanupBackend,
                mgrVars
  <2>2. QED
    BY <1>3, <2>1, OwnProxy DEF ManagerType
<1>4. ASSUME NEW c \in Clients, BlockedSendFails(c) PROVE ManagerType' /\ OwnInv'
  BY <1>4, OwnGoto DEF BlockedSendFails, ManagerType, mgrVars
<1>5. CASE PeerStep \/ (\E c \in Clients : SendSignals(c)) \/ UNCHANGED streamVars
  <2>1. UNCHANGED <<manager, file, listener, lthread, conn>>
    BY <1>5 DEF PeerStep, PeerSends, PeerEnds, SendSignals, streamVars, mgrVars
  <2>2. QED
    BY <2>1 DEF ManagerType, OwnInv, StreamTypes, DescriptorsOwned, ListenOwned, PhaseInv, CreateInv
<1>6. QED
  BY <1>1, <1>2, <1>3, <1>4, <1>5 DEF StreamNext

-----------------------------------------------------------------------------
LEMMA EndsOf == \A c \in Clients : ClientSocket(c) \in Ends /\ BackendSocket(c) \in Ends
BY DEF Ends

LEMMA FlowInit == StreamInit => NetTypes /\ FlowInv
<1> SUFFICES ASSUME StreamInit PROVE NetTypes /\ FlowInv
  OBVIOUS
<1>1. NetTypes
  BY DEF StreamInit, NetTypes
<1>2. ASSUME NEW c \in Clients PROVE FlowOf(c)
  BY <1>2, EndsOf DEF StreamInit, FlowOf, Received, Quiet
<1>3. QED
  BY <1>1, <1>2 DEF FlowInv

\* A connection whose sockets a step leaves alone
LEMMA FlowApart ==
    ASSUME NEW c \in Clients, FlowOf(c), conn'[c] = conn[c],
           \A s \in {ClientSocket(c), BackendSocket(c)} :
             inbox'[s] = inbox[s] /\ outbox'[s] = outbox[s] /\ count'[s] = count[s]
    PROVE  FlowOf(c)'
BY DEF FlowOf, Received, Flow, Quiet

\* Sending on what waits at s keeps the order and loses nothing
LEMMA FlowSent ==
    ASSUME NetTypes, NEW s \in Ends, NEW d \in Ends, s # d, Received(s, d), Flow(s, d),
           inbox[s] # <<>>, count' = count,
           outbox' = [outbox EXCEPT ![d] = Append(@, Head(inbox[s]))],
           inbox' = [inbox EXCEPT ![s] = Tail(@)]
    PROVE  /\ NetTypes' /\ Received(s, d)' /\ Flow(s, d)'
           /\ \A e \in Ends : /\ e # d => outbox'[e] = outbox[e]
                              /\ e # s => inbox'[e] = inbox[e]
<1>1. /\ inbox[s] \in Seq(Ends \X Nat) /\ outbox[d] \in Seq(Ends \X Nat)
      /\ DOMAIN inbox = Ends /\ DOMAIN outbox = Ends
  BY DEF NetTypes
<1>2. /\ inbox'[s] = Tail(inbox[s]) /\ outbox'[d] = Append(outbox[d], Head(inbox[s]))
      /\ \A e \in Ends : /\ e # d => outbox'[e] = outbox[e]
                         /\ e # s => inbox'[e] = inbox[e]
  BY <1>1
<1> DEFINE in == inbox[s]
           o == outbox[d]
<1>3. in \in Seq(Ends \X Nat) /\ o \in Seq(Ends \X Nat) /\ in # <<>>
  BY <1>1
<1>4. Head(in) = <<s, Len(o) + 1>> /\ Len(in) \in Nat \ {0} /\ Len(o) \in Nat
  BY <1>3 DEF Flow
<1>5. /\ Tail(in) \in Seq(Ends \X Nat) /\ Len(Tail(in)) = Len(in) - 1
      /\ \A i \in 1 .. Len(in) - 1 : Tail(in)[i] = in[i + 1]
  BY <1>3
<1>6. /\ Append(o, Head(in)) \in Seq(Ends \X Nat) /\ Len(Append(o, Head(in))) = Len(o) + 1
      /\ \A i \in 1 .. Len(o) : Append(o, Head(in))[i] = o[i]
      /\ Append(o, Head(in))[Len(o) + 1] = Head(in)
      /\ DOMAIN Append(o, Head(in)) = 1 .. Len(o) + 1 /\ DOMAIN o = 1 .. Len(o)
  BY <1>3, <1>4
<1>7. Received(s, d)'
  <2>1. \A i \in 1 .. Len(o) : o[i] = <<s, i>>
    BY <1>6 DEF Received
  <2>2. \A i \in 1 .. Len(o) + 1 : i \in 1 .. Len(o) \/ i = Len(o) + 1
    BY <1>4
  <2>3. QED
    BY <1>2, <1>4, <1>6, <2>1, <2>2 DEF Received
<1>8. Flow(s, d)'
  <2>1. Len(o) + Len(in) = count[s] /\ \A i \in 1 .. Len(in) : in[i] = <<s, Len(o) + i>>
    BY DEF Flow
  <2>2. Len(inbox'[s]) = Len(in) - 1 /\ Len(outbox'[d]) = Len(o) + 1
    BY <1>2, <1>5, <1>6
  <2>3. PICK m \in Nat \ {0}, n \in Nat : m = Len(in) /\ n = Len(o)
    BY <1>4
  <2>4. ASSUME NEW i \in 1 .. m - 1 PROVE inbox'[s][i] = <<s, (n + 1) + i>>
    <3>1. i + 1 \in 1 .. m /\ n + (i + 1) = (n + 1) + i
      OBVIOUS
    <3>2. inbox'[s][i] = in[i + 1]
      BY <1>2, <1>5, <2>3
    <3>3. in[i + 1] = <<s, n + (i + 1)>>
      BY <2>1, <2>3, <3>1
    <3>4. QED
      BY <3>1, <3>2, <3>3
  <2>5. (n + 1) + (m - 1) = n + m
    OBVIOUS
  <2>6. QED
    BY <2>1, <2>2, <2>3, <2>4, <2>5 DEF Flow
<1>9. NetTypes'
  BY <1>1, <1>2, <1>5, <1>6 DEF NetTypes
<1>10. QED
  BY <1>2, <1>7, <1>8, <1>9

\* Other connections have other sockets
LEMMA OtherSockets ==
    ASSUME NEW c \in Clients, NEW d \in Clients, d # c
    PROVE  {ClientSocket(d), BackendSocket(d)} \cap {ClientSocket(c), BackendSocket(c)} = {}
BY SocketsDiffer

\* Forwarding, in one direction: s is the side it reads and d the side it writes
TwoEnds(c, s, d) ==
    \/ s = ClientSocket(c) /\ d = BackendSocket(c)
    \/ s = BackendSocket(c) /\ d = ClientSocket(c)

ForwardStep(c, s, d) ==
    \/ /\ inbox[s] # <<>>
       /\ outbox' = [outbox EXCEPT ![d] = Append(@, Head(inbox[s]))]
       /\ inbox' = [inbox EXCEPT ![s] = Tail(@)]
       /\ Goto(c, "forward") \/ Goto(c, "down")
    \/ UNCHANGED <<inbox, outbox>> /\ Goto(c, "cleanup")

LEMMA FlowForward ==
    ASSUME StreamInv, NEW c \in Clients, conn[c].pc \in {"forward", "down"},
           NEW s, NEW d, TwoEnds(c, s, d), ForwardStep(c, s, d), UNCHANGED count
    PROVE  NetTypes' /\ FlowInv'
<1> USE DEF TwoEnds, ForwardStep
<1>1. s \in Ends /\ d \in Ends /\ s # d
  BY EndsOf, SocketsDiffer
<1>2. /\ FlowOf(c) /\ Received(s, d) /\ Received(d, s) /\ Flow(s, d) /\ Flow(d, s)
  BY DEF StreamInv, FlowInv, FlowOf
<1>3. \A e \in Clients : e # c => conn'[e] = conn[e]
  BY DEF Goto, StreamInv, OwnInv, StreamTypes
<1>4. /\ conn'[c].pc \in {"forward", "down", "cleanup"}
      /\ conn'[c].client_fd = conn[c].client_fd /\ conn'[c].backend_fd = conn[c].backend_fd
  BY DEF Goto, StreamInv, OwnInv, StreamTypes
<1>5. conn[c].client_fd \in Fds /\ conn[c].backend_fd \in Fds
  BY <1>2 DEF FlowOf
<1>6. CASE UNCHANGED <<inbox, outbox>> /\ Goto(c, "cleanup")
  <2>1. NetTypes'
    BY <1>6 DEF StreamInv, NetTypes
  <2>2. conn'[c].pc = "cleanup"
    BY <1>6 DEF Goto, StreamInv, OwnInv, StreamTypes
  <2>3. FlowOf(c)'
    BY <1>2, <1>6, <2>2 DEF FlowOf, Received
  <2>4. ASSUME NEW e \in Clients, e # c PROVE FlowOf(e)'
    BY <1>3, <1>6, <2>4, FlowApart DEF StreamInv, FlowInv
  <2>5. QED
    BY <2>1, <2>3, <2>4 DEF FlowInv
<1>7. CASE /\ inbox[s] # <<>>
           /\ outbox' = [outbox EXCEPT ![d] = Append(@, Head(inbox[s]))]
           /\ inbox' = [inbox EXCEPT ![s] = Tail(@)]
  <2>1. /\ NetTypes' /\ Received(s, d)' /\ Flow(s, d)'
        /\ \A e \in Ends : /\ e # d => outbox'[e] = outbox[e]
                           /\ e # s => inbox'[e] = inbox[e]
    BY <1>1, <1>2, <1>7, FlowSent DEF StreamInv
  <2>2. Received(d, s)' /\ Flow(d, s)'
    BY <1>1, <1>2, <2>1 DEF Received, Flow
  <2>3. FlowOf(c)'
    BY <1>4, <1>5, <2>1, <2>2 DEF FlowOf
  <2>4. ASSUME NEW e \in Clients, e # c PROVE FlowOf(e)'
    <3>1. {ClientSocket(e), BackendSocket(e)} \cap {s, d} = {}
      BY <2>4, OtherSockets
    <3>2. QED
      BY <1>3, <2>1, <2>4, <3>1, EndsOf, FlowApart DEF StreamInv, FlowInv
  <2>5. QED
    BY <2>1, <2>3, <2>4 DEF FlowInv
<1>8. QED
  BY <1>6, <1>7

\* A step that moves one connection and no byte, before its thread forwards
LEMMA FlowEarly ==
    ASSUME StreamInv, NEW c \in Clients, UNCHANGED <<inbox, outbox, count>>,
           \A d \in Clients : d # c => conn'[d] = conn[d],
           conn[c].pc \notin {"forward", "down", "blocked", "cleanup", "cleanup2"},
           conn'[c].pc \in {"accepted", "select", "connecting", "forward", "down"} =>
             conn'[c].client_fd \in Fds,
           conn'[c].pc \in {"connecting", "forward", "down"} => conn'[c].backend_fd \in Fds
    PROVE  NetTypes' /\ FlowInv'
<1>1. /\ Received(ClientSocket(c), BackendSocket(c)) /\ Received(BackendSocket(c), ClientSocket(c))
      /\ Quiet(ClientSocket(c)) /\ Quiet(BackendSocket(c))
  BY DEF StreamInv, FlowInv, FlowOf
<1>2. Flow(ClientSocket(c), BackendSocket(c)) /\ Flow(BackendSocket(c), ClientSocket(c))
  BY <1>1 DEF Flow, Quiet
<1>3. FlowOf(c)'
  BY <1>1, <1>2 DEF FlowOf, Received, Quiet, Flow
<1>4. ASSUME NEW d \in Clients, d # c PROVE FlowOf(d)'
  BY <1>4, FlowApart DEF StreamInv, FlowInv
<1>5. QED
  BY <1>3, <1>4 DEF StreamInv, NetTypes, FlowInv

\* A socket of the connection is closed in the cleanup
LEMMA FlowDropped ==
    ASSUME StreamInv, NEW c \in Clients, NEW s \in {ClientSocket(c), BackendSocket(c)}, Dropped(s),
           \A d \in Clients : d # c => conn'[d] = conn[d],
           \/ /\ s = ClientSocket(c)
              /\ conn[c].pc = "cleanup" /\ conn'[c].pc = "cleanup2"
           \/ /\ s = BackendSocket(c)
              /\ conn[c].pc = "cleanup2" /\ conn'[c].pc = "ended"
    PROVE  NetTypes' /\ FlowInv'
<1>1. s \in Ends /\ DOMAIN inbox = Ends /\ DOMAIN outbox = Ends /\ count \in [Ends -> Nat]
  BY EndsOf DEF StreamInv, NetTypes
<1>2. /\ inbox'[s] = <<>> /\ outbox'[s] = <<>> /\ count'[s] = 0
      /\ \A e \in Ends : e # s =>
           inbox'[e] = inbox[e] /\ outbox'[e] = outbox[e] /\ count'[e] = count[e]
  BY <1>1 DEF Dropped
<1>3. NetTypes'
  BY <1>1, <1>2 DEF Dropped, StreamInv, NetTypes
<1>4. FlowOf(c)
  BY DEF StreamInv, FlowInv
<1>5. Quiet(s)' /\ Received(ClientSocket(c), BackendSocket(c))'
        /\ Received(BackendSocket(c), ClientSocket(c))'
  BY <1>2, <1>4, EndsOf DEF Quiet, FlowOf, Received
<1>6. s = BackendSocket(c) => Quiet(ClientSocket(c))'
  BY <1>2, <1>4, EndsOf, SocketsDiffer DEF Quiet, FlowOf
<1>7. FlowOf(c)'
  BY <1>5, <1>6 DEF FlowOf
<1>8. ASSUME NEW d \in Clients, d # c PROVE FlowOf(d)'
  <2>1. s \notin {ClientSocket(d), BackendSocket(d)}
    BY <1>8, OtherSockets
  <2>2. QED
    BY <1>2, <1>8, <2>1, EndsOf, FlowApart DEF StreamInv, FlowInv
<1>9. QED
  BY <1>3, <1>7, <1>8 DEF FlowInv

\* The listener threads move connections that no thread forwards for
LEMMA FlowListener ==
    ASSUME StreamInv, NEW t \in ListenerThreads, ListenerStep(t)
    PROVE  NetTypes' /\ FlowInv'
<1>1. UNCHANGED <<inbox, outbox, count>>
  BY DEF ListenerStep, ListenerChecks, AcceptBegins, AcceptFails, stream_connection_create,
         Accepts, netVars
<1>2. CASE UNCHANGED conn
  BY <1>1, <1>2 DEF StreamInv, NetTypes, FlowInv, FlowOf, Received, Flow, Quiet
<1>3. ASSUME NEW c \in Clients, Accepts(t, c) PROVE NetTypes' /\ FlowInv'
  <2>1. PICK fd \in Fds :
             conn' = [conn EXCEPT ![c] = [pc |-> "accepted", client_fd |-> fd,
                                          backend_fd |-> NoFd]]
    BY <1>3 DEF Accepts
  <2>2. conn[c].pc = "ended"
    BY <1>3 DEF Accepts
  <2>3. /\ \A d \in Clients : d # c => conn'[d] = conn[d]
        /\ conn'[c] = [pc |-> "accepted", client_fd |-> fd, backend_fd |-> NoFd]
    BY <2>1 DEF StreamInv, OwnInv, StreamTypes
  <2>4. QED
    BY <1>1, <2>2, <2>3, FlowEarly
<1>4. CASE stream_connection_create(t)
  <2>1. PICK c \in Clients : c = lthread[t].client /\ conn[c].pc = "accepted"
    BY <1>4 DEF stream_connection_create, StreamInv, OwnInv, CreateInv
  <2>2. conn[c].client_fd \in Fds
    BY <2>1 DEF StreamInv, FlowInv, FlowOf
  <2>3. ASSUME NEW to \in {"select", "lost"}, ConnectionCreated(t, c, to)
        PROVE  NetTypes' /\ FlowInv'
    <3>1. /\ \A d \in Clients : d # c => conn'[d] = conn[d]
          /\ conn'[c].pc = to /\ conn'[c].client_fd = conn[c].client_fd
      BY <2>3 DEF ConnectionCreated, StreamInv, OwnInv, StreamTypes
    <3>2. QED
      BY <1>1, <2>1, <2>2, <3>1, FlowEarly
  <2>4. ASSUME ConnectionRefused(t, c) PROVE NetTypes' /\ FlowInv'
    <3>1. (\A d \in Clients : d # c => conn'[d] = conn[d]) /\ conn'[c].pc = "ended"
      BY <2>4 DEF ConnectionRefused, StreamInv, OwnInv, StreamTypes
    <3>2. QED
      BY <1>1, <2>1, <3>1, FlowEarly
  <2>5. QED
    BY <1>4, <2>1, <2>3, <2>4 DEF stream_connection_create
<1>5. QED
  BY <1>2, <1>3, <1>4 DEF ListenerStep, ListenerChecks, AcceptBegins, AcceptFails

\* The descriptors of a thread that forwards are its connection's sockets
LEMMA ForwardsItsOwn ==
    ASSUME StreamInv, NEW c \in Clients, conn[c].pc \in {"forward", "down"}
    PROVE  file[conn[c].client_fd] = ClientSocket(c) /\ file[conn[c].backend_fd] = BackendSocket(c)
BY NoFdIsNone DEF StreamInv, FlowInv, FlowOf, OwnInv, DescriptorsOwned

\* A message is lost, and with it the connection
LEMMA FlowLost ==
    ASSUME StreamInv, NEW c \in Clients, SendFails(c)
    PROVE  NetTypes' /\ FlowInv'
<1>1. conn[c].pc \in {"forward", "down"} /\ UNCHANGED <<outbox, count>>
  BY DEF SendFails
<1>2. PICK s \in {ClientSocket(c), BackendSocket(c)} :
           inbox[s] # <<>> /\ inbox' = [inbox EXCEPT ![s] = Tail(@)]
  BY <1>1, ForwardsItsOwn DEF SendFails, CanForward
<1>3. (\A d \in Clients : d # c => conn'[d] = conn[d]) /\ conn'[c].pc \in {"cleanup", "blocked"}
  BY DEF SendFails, Goto, StreamInv, OwnInv, StreamTypes
<1>4. NetTypes'
  <2>1. Tail(inbox[s]) \in Seq(Ends \X Nat)
    BY <1>2, EndsOf DEF StreamInv, NetTypes
  <2>2. QED
    BY <1>1, <1>2, <2>1 DEF StreamInv, NetTypes
<1>5. FlowOf(c)'
  BY <1>1, <1>3 DEF StreamInv, FlowInv, FlowOf, Received
<1>6. ASSUME NEW d \in Clients, d # c PROVE FlowOf(d)'
  <2>1. s \notin {ClientSocket(d), BackendSocket(d)}
    BY <1>6, OtherSockets
  <2>2. \A e \in {ClientSocket(d), BackendSocket(d)} : inbox'[e] = inbox[e]
    BY <1>2, <2>1, EndsOf DEF StreamInv, NetTypes
  <2>3. QED
    BY <1>1, <1>3, <1>6, <2>2, FlowApart DEF StreamInv, FlowInv
<1>7. QED
  BY <1>4, <1>5, <1>6 DEF FlowInv

\* A thread comes back from a send that was blocked
LEMMA FlowBlocked ==
    ASSUME StreamInv, NEW c \in Clients, BlockedSendFails(c)
    PROVE  NetTypes' /\ FlowInv'
<1>1. conn[c].pc = "blocked" /\ UNCHANGED <<inbox, outbox, count>>
  BY DEF BlockedSendFails, netVars
<1>2. (\A d \in Clients : d # c => conn'[d] = conn[d]) /\ conn'[c].pc = "cleanup"
  BY DEF BlockedSendFails, Goto, StreamInv, OwnInv, StreamTypes
<1>3. FlowOf(c)'
  BY <1>1, <1>2 DEF StreamInv, FlowInv, FlowOf, Received
<1>4. ASSUME NEW d \in Clients, d # c PROVE FlowOf(d)'
  BY <1>1, <1>2, <1>4, FlowApart DEF StreamInv, FlowInv
<1>5. QED
  BY <1>1, <1>3, <1>4 DEF StreamInv, NetTypes, FlowInv

\* The steps of a connection's thread
LEMMA FlowProxy ==
    ASSUME StreamInv, NEW c \in Clients, ProxyStep(c)
    PROVE  NetTypes' /\ FlowInv'
<1> USE DEF netVars
<1>0. /\ conn \in [Clients -> [pc : Pcs, client_fd : MaybeFd, backend_fd : MaybeFd]]
      /\ FlowOf(c)
  BY DEF StreamInv, OwnInv, StreamTypes, FlowInv
<1>1. CASE stream_select_backend(c)
  <2>1. /\ conn[c].pc = "select" /\ conn' = [conn EXCEPT ![c].pc = "cleanup"]
        /\ UNCHANGED <<inbox, outbox, count>>
    BY <1>1 DEF stream_select_backend, Goto
  <2>2. (\A d \in Clients : d # c => conn'[d] = conn[d]) /\ conn'[c].pc = "cleanup"
    BY <1>0, <2>1
  <2>3. QED
    BY <2>1, <2>2, FlowEarly
<1>2. CASE stream_tcp_connect_backend(c)
  <2>1. PICK fd \in Fds :
             conn' = [conn EXCEPT ![c].pc = "connecting", ![c].backend_fd = fd]
    BY <1>2 DEF stream_tcp_connect_backend
  <2>2. conn[c].pc = "select" /\ UNCHANGED <<inbox, outbox, count>>
    BY <1>2 DEF stream_tcp_connect_backend
  <2>3. /\ \A d \in Clients : d # c => conn'[d] = conn[d]
        /\ conn'[c].pc = "connecting" /\ conn'[c].backend_fd = fd
        /\ conn'[c].client_fd = conn[c].client_fd
    BY <1>0, <2>1
  <2>4. conn[c].client_fd \in Fds
    BY <1>0, <2>2 DEF FlowOf
  <2>5. QED
    BY <2>2, <2>3, <2>4, FlowEarly
<1>3. CASE ConnectDone(c)
  <2>1. /\ conn[c].pc = "connecting" /\ conn' = [conn EXCEPT ![c].pc = "forward"]
        /\ UNCHANGED <<inbox, outbox, count>>
    BY <1>3 DEF ConnectDone, Goto
  <2>2. /\ \A d \in Clients : d # c => conn'[d] = conn[d]
        /\ conn'[c].client_fd = conn[c].client_fd /\ conn'[c].backend_fd = conn[c].backend_fd
    BY <1>0, <2>1
  <2>3. conn[c].client_fd \in Fds /\ conn[c].backend_fd \in Fds
    BY <1>0, <2>1 DEF FlowOf
  <2>4. QED
    BY <2>1, <2>2, <2>3, FlowEarly
<1>4. CASE ConnectFails(c)
  <2>1. /\ conn[c].pc = "connecting" /\ UNCHANGED <<inbox, outbox, count>>
        /\ conn' = [conn EXCEPT ![c].pc = "cleanup", ![c].backend_fd = NoFd]
    BY <1>4 DEF ConnectFails
  <2>2. (\A d \in Clients : d # c => conn'[d] = conn[d]) /\ conn'[c].pc = "cleanup"
    BY <1>0, <2>1
  <2>3. QED
    BY <2>1, <2>2, FlowEarly
<1>5. CASE ForwardUp(c)
  <2>1. /\ conn[c].pc \in {"forward", "down"} /\ UNCHANGED count
    BY <1>5 DEF ForwardUp
  <2>2. \/ /\ ForwardSent(conn[c].client_fd, conn[c].backend_fd)
           /\ Goto(c, "forward") \/ Goto(c, "down")
        \/ UNCHANGED <<inbox, outbox>> /\ Goto(c, "cleanup")
    BY <1>5 DEF ForwardUp
  <2>3. PICK s, d : s = ClientSocket(c) /\ d = BackendSocket(c)
    OBVIOUS
  <2>4. ForwardStep(c, s, d)
    BY <2>1, <2>2, <2>3, ForwardsItsOwn DEF ForwardSent, CanForward, ForwardStep
  <2>5. TwoEnds(c, s, d)
    BY <2>3 DEF TwoEnds
  <2>6. QED
    BY <2>1, <2>4, <2>5, FlowForward
<1>6. CASE ForwardDown(c)
  <2>1. /\ conn[c].pc \in {"forward", "down"} /\ UNCHANGED count
    BY <1>6 DEF ForwardDown
  <2>2. \/ ForwardSent(conn[c].backend_fd, conn[c].client_fd) /\ Goto(c, "forward")
        \/ UNCHANGED <<inbox, outbox>> /\ Goto(c, "cleanup")
    BY <1>6 DEF ForwardDown
  <2>3. PICK s, d : s = BackendSocket(c) /\ d = ClientSocket(c)
    OBVIOUS
  <2>4. ForwardStep(c, s, d)
    BY <2>1, <2>2, <2>3, ForwardsItsOwn DEF ForwardSent, CanForward, ForwardStep
  <2>5. TwoEnds(c, s, d)
    BY <2>3 DEF TwoEnds
  <2>6. QED
    BY <2>1, <2>4, <2>5, FlowForward
<1>7. CASE CleanupClient(c)
  <2>1. /\ conn[c].pc = "cleanup" /\ Dropped(ClientSocket(c))
        /\ conn' = [conn EXCEPT ![c].pc = "cleanup2", ![c].client_fd = NoFd]
    BY <1>7 DEF CleanupClient
  <2>2. (\A d \in Clients : d # c => conn'[d] = conn[d]) /\ conn'[c].pc = "cleanup2"
    BY <1>0, <2>1
  <2>3. QED
    BY <2>1, <2>2, FlowDropped
<1>8. CASE CleanupBackend(c)
  <2>1. /\ conn[c].pc = "cleanup2" /\ Dropped(BackendSocket(c))
        /\ conn' = [conn EXCEPT ![c].pc = "ended", ![c].backend_fd = NoFd]
    BY <1>8 DEF CleanupBackend
  <2>2. (\A d \in Clients : d # c => conn'[d] = conn[d]) /\ conn'[c].pc = "ended"
    BY <1>0, <2>1
  <2>3. QED
    BY <2>1, <2>2, FlowDropped
<1>9. QED
  BY <1>1, <1>2, <1>3, <1>4, <1>5, <1>6, <1>7, <1>8, FlowLost DEF ProxyStep

\* A peer sends the next thing to the thread that forwards for it, or that is
\* blocked and will not read it
LEMMA FlowPeer ==
    ASSUME StreamInv, NEW s \in Ends, PeerSends(s)
    PROVE  NetTypes' /\ FlowInv'
<1>1. PICK c \in Clients : s \in {ClientSocket(c), BackendSocket(c)}
  BY DEF Ends
<1> DEFINE forwards == conn[c].pc \in {"forward", "down"}
<1>2. conn[c].pc \in {"forward", "down", "blocked"} /\ UNCHANGED <<conn, outbox>>
  BY <1>1 DEF PeerSends, Connected, ClientSocket, BackendSocket
<1>3. PICK d \in {ClientSocket(c), BackendSocket(c)} :
           /\ d # s /\ Received(s, d) /\ Received(d, s)
           /\ forwards => Flow(s, d) /\ Flow(d, s)
  BY <1>1, <1>2, SocketsDiffer DEF StreamInv, FlowInv, FlowOf
<1>4. /\ inbox' = [inbox EXCEPT ![s] = Append(@, <<s, count[s] + 1>>)]
      /\ count' = [count EXCEPT ![s] = @ + 1]
  BY DEF PeerSends
<1>5. /\ inbox[s] \in Seq(Ends \X Nat) /\ outbox[d] \in Seq(Ends \X Nat)
      /\ DOMAIN inbox = Ends /\ count \in [Ends -> Nat]
  BY <1>3, EndsOf DEF StreamInv, NetTypes
<1>6. /\ inbox'[s] = Append(inbox[s], <<s, count[s] + 1>>) /\ count'[s] = count[s] + 1
      /\ \A e \in Ends : e # s => inbox'[e] = inbox[e] /\ count'[e] = count[e]
  BY <1>4, <1>5
<1>7. NetTypes'
  <2>1. <<s, count[s] + 1>> \in Ends \X Nat
    BY <1>5
  <2>2. inbox'[s] \in Seq(Ends \X Nat)
    BY <1>5, <1>6, <2>1
  <2>3. DOMAIN inbox' = Ends /\ count' \in [Ends -> Nat]
    BY <1>4, <1>5
  <2>4. QED
    BY <1>2, <1>6, <2>2, <2>3 DEF StreamInv, NetTypes
<1>8. ASSUME forwards PROVE Flow(s, d)'
  <2>1. PICK m \in Nat, n \in Nat : m = Len(inbox[s]) /\ n = Len(outbox[d])
    BY <1>5
  <2>2. n + m = count[s] /\ \A i \in 1 .. m : inbox[s][i] = <<s, n + i>>
    BY <1>3, <1>8, <2>1 DEF Flow
  <2>3. Len(inbox'[s]) = m + 1 /\ (\A i \in 1 .. m : inbox'[s][i] = inbox[s][i])
          /\ inbox'[s][m + 1] = <<s, n + m + 1>>
    BY <1>5, <1>6, <2>1, <2>2
  <2>4. ASSUME NEW i \in 1 .. m + 1 PROVE inbox'[s][i] = <<s, n + i>>
    <3>1. CASE i \in 1 .. m
      BY <2>2, <2>3, <3>1
    <3>2. CASE i = m + 1
      <4>1. n + m + 1 = n + (m + 1)
        OBVIOUS
      <4>2. QED
        BY <2>3, <3>2, <4>1
    <3>3. i \in 1 .. m \/ i = m + 1
      OBVIOUS
    <3>4. QED
      BY <3>1, <3>2, <3>3
  <2>5. n + (m + 1) = count'[s] /\ Len(outbox'[d]) = n
    <3>1. n + (m + 1) = (n + m) + 1
      OBVIOUS
    <3>2. QED
      BY <1>2, <1>6, <2>1, <2>2, <3>1
  <2>6. QED
    BY <2>3, <2>4, <2>5 DEF Flow
<1>9. (forwards => Flow(d, s)') /\ Received(s, d)' /\ Received(d, s)'
  BY <1>2, <1>3, <1>6, EndsOf DEF Flow, Received
<1>10. FlowOf(c)'
  BY <1>1, <1>2, <1>3, <1>8, <1>9, SocketsDiffer DEF StreamInv, FlowInv, FlowOf
<1>11. ASSUME NEW e \in Clients, e # c PROVE FlowOf(e)'
  <2>1. s \notin {ClientSocket(e), BackendSocket(e)}
    BY <1>1, <1>11, OtherSockets
  <2>2. QED
    BY <1>2, <1>6, <1>11, <2>1, EndsOf, FlowApart DEF StreamInv, FlowInv
<1>12. QED
  BY <1>7, <1>10, <1>11 DEF FlowInv

LEMMA StreamInitInv == StreamInit => StreamInv
<1>1. StreamInit => ManagerType
  BY DEF StreamInit, ManagerType
<1>2. QED
  BY <1>1, OwnInit, FlowInit DEF StreamInv

LEMMA StreamNextInv == StreamInv /\ [StreamNext]_streamVars => StreamInv'
<1> SUFFICES ASSUME StreamInv, [StreamNext]_streamVars PROVE StreamInv'
  OBVIOUS
<1>1. ManagerType' /\ OwnInv'
  BY OwnStep DEF StreamInv
<1>2. ASSUME UNCHANGED <<inbox, outbox, count, conn>> PROVE NetTypes' /\ FlowInv'
  <2>1. \A c \in Clients : FlowOf(c)'
    BY <1>2, FlowApart DEF StreamInv, FlowInv
  <2>2. QED
    BY <1>2, <2>1 DEF StreamInv, NetTypes, FlowInv
<1>3. ManagerStep => NetTypes' /\ FlowInv'
  BY <1>2 DEF ManagerStep, stream_manager_start, stream_listener_start, ListenerStarts,
     ListenerFails, StartDone, stream_manager_stop, stream_listener_stop, StopDone, netVars
<1>4. PeerStep => NetTypes' /\ FlowInv'
  BY <1>2, FlowPeer DEF PeerStep, PeerEnds
<1>5. (\E c \in Clients : SendSignals(c)) => NetTypes' /\ FlowInv'
  BY <1>2 DEF SendSignals, netVars
<1>6. NetTypes' /\ FlowInv'
  BY <1>2, <1>3, <1>4, <1>5, FlowListener, FlowProxy, FlowBlocked
  DEF StreamNext, streamVars, StreamInv
<1>7. QED
  BY <1>1, <1>6 DEF StreamInv

\* The invariant of the TCP proxy: where the manager, the listener threads and
\* the connection threads of stream.c are decides which descriptors each holds
\* and what may wait on its sockets.
THEOREM StreamInvariance == StreamSpec => []StreamInv
<1>1. StreamSpec => StreamInit /\ [][StreamNext]_streamVars
  BY PTL DEF StreamSpec
<1>2. QED
  BY <1>1, StreamInitInv, StreamNextInv, PTL

\* However often numbers are closed and given out again, a number in a
\* connection of stream.c refers to that connection's socket, so each of the
\* closes of stream_connection_cleanup, stream_tcp_connect_backend and
\* stream_listener_stop hits the socket it is meant for.
THEOREM DescriptorsAreOwned == StreamSpec => []DescriptorsOwned
<1>1. StreamInv => DescriptorsOwned
  BY DEF StreamInv, OwnInv
<1>2. QED
  BY <1>1, StreamInvariance, PTL

\* What stream_tcp_forward_data sends on to one end of a connection is what
\* the other end sent, in order and without a hole, for any number of clients,
\* descriptors and messages.
THEOREM ReceivedAsSent == StreamSpec => []ReceivedInOrder
<1>1. StreamInv => ReceivedInOrder
  BY DEF StreamInv, FlowInv, FlowOf, Received, ReceivedInOrder
<1>2. QED
  BY <1>1, StreamInvariance, PTL

------------------------------------------------------------------------------
(***************************************************************************)
(* Push: clients and subscriptions                                         *)
(***************************************************************************)

\* The handler has a client that is not linked yet
OnTheWay(h) == handler[h].pc \in {"headers", "link"}

Linked(k) == \E i \in DOMAIN clients : clients[i] = k

PushTypes ==
  /\ freed \in BOOLEAN
  /\ clients \in Seq(PushClients)
  /\ client_count \in Nat
  /\ handler \in [Handlers -> [pc : {"idle", "create", "headers", "link", "welcome"},
                               client : PushClients \cup {NoClient}]]
  /\ socket \in [PushClients -> {"none", "open", "closed"}]

\* What a handler holds is an open client of its own that nobody can see yet
WayInv ==
  /\ \A h \in Handlers : OnTheWay(h) =>
       /\ handler[h].client \in PushClients
       /\ socket[handler[h].client] = "open"
       /\ ~Linked(handler[h].client)
  /\ \A g, h \in Handlers :
       OnTheWay(g) /\ OnTheWay(h) /\ handler[g].client = handler[h].client => g = h
  /\ freed => clients = <<>> /\ \A h \in Handlers : handler[h].pc = "idle"

\* An open client is linked or held
OpenInv ==
  \A k \in PushClients : socket[k] = "open" =>
    Linked(k) \/ \E h \in Handlers : OnTheWay(h) /\ handler[h].client = k

\* A linked client is open and linked once
ListInv ==
  \A i \in DOMAIN clients : /\ socket[clients[i]] = "open"
                            /\ \A j \in DOMAIN clients : clients[i] = clients[j] => i = j

PushInv == PushTypes /\ ClientsBounded /\ WayInv /\ OpenInv /\ ListInv

-----------------------------------------------------------------------------
\* Linking a client in front of a list
LEMMA Prepended ==
    ASSUME NEW S, NEW s \in Seq(S), NEW x \in S
    PROVE  /\ <<x>> \o s \in Seq(S)
           /\ Len(<<x>> \o s) = Len(s) + 1
           /\ DOMAIN (<<x>> \o s) = 1 .. Len(s) + 1
           /\ (<<x>> \o s)[1] = x
           /\ \A i \in 1 .. Len(s) : (<<x>> \o s)[i + 1] = s[i]
OBVIOUS

\* The clients on their way are no more than the handlers
LEMMA InFlightFinite ==
    /\ IsFiniteSet(InFlight)
    /\ Cardinality(InFlight) \in Nat
    /\ Cardinality(Handlers) \in Nat
    /\ Cardinality(InFlight) <= Cardinality(Handlers)
<1>1. InFlight \subseteq Handlers
  BY DEF InFlight
<1>2. QED
  BY <1>1, PushAssumption, FS_Subset, FS_CardinalityType

\* A handler that leaves the critical part of the way makes it one less
LEMMA LeavesFlight ==
    ASSUME NEW h \in InFlight, InFlight' = InFlight \ {h}
    PROVE  Cardinality(InFlight') = Cardinality(InFlight) - 1
BY InFlightFinite, FS_RemoveElement

LEMMA PushInitInv == PushInit => PushInv
<1> SUFFICES ASSUME PushInit PROVE PushInv
  OBVIOUS
<1>1. PushTypes
  <2>1. clients \in Seq(PushClients)
    BY DEF PushInit
  <2>2. handler \in [Handlers -> [pc : {"idle", "create", "headers", "link", "welcome"},
                                 client : PushClients \cup {NoClient}]]
    BY DEF PushInit
  <2>3. socket \in [PushClients -> {"none", "open", "closed"}]
    BY DEF PushInit
  <2>4. QED
    BY <2>1, <2>2, <2>3 DEF PushInit, PushTypes
<1>7. WayInv /\ OpenInv /\ ListInv
  BY DEF PushInit, WayInv, OpenInv, ListInv, OnTheWay, Linked
<1>2. InFlight = {}
  BY DEF PushInit, InFlight
<1>3. Cardinality(InFlight) = 0
  BY <1>2, FS_EmptySet
<1>4. Cardinality(Handlers) \in Nat /\ Cardinality(Handlers) >= 1
  BY PushAssumption, FS_EmptySet, FS_CardinalityType
<1>5. ClientsBounded
  BY <1>3, <1>4, PushAssumption DEF PushInit, ClientsBounded
<1>6. QED
  BY <1>1, <1>5, <1>7 DEF PushInv

LEMMA StepTypes == PushInv /\ [PushNext]_pushVars => PushTypes'
<1> SUFFICES ASSUME PushInv, [PushNext]_pushVars PROVE PushTypes'
  OBVIOUS
<1> USE DEF PushInv, PushTypes, lists
<1>1. CASE UNCHANGED pushVars
  BY <1>1 DEF pushVars
<1>2. ASSUME NEW h \in Handlers, ClientLinked(h) PROVE PushTypes'
  <2>1. handler[h].client \in PushClients
    BY <1>2 DEF ClientLinked, WayInv, OnTheWay
  <2>2. clients' \in Seq(PushClients)
    BY <1>2, <2>1, Prepended DEF ClientLinked
  <2>3. QED
    BY <1>2, <2>2 DEF ClientLinked
<1>3. ASSUME NEW h \in Handlers,
             \/ RequestArrives(h) \/ CreateFails(h) \/ push_send_sse_headers(h)
             \/ HeadersFail(h) \/ WelcomeSent(h)
             \/ \E k \in PushClients : push_client_create(h, k)
      PROVE  PushTypes'
  BY <1>3 DEF RequestArrives, CreateFails, push_send_sse_headers, HeadersFail, WelcomeSent,
              push_client_create, Return
<1>4. CASE push_manager_start \/ push_manager_stop
  BY <1>4 DEF push_manager_start, push_manager_stop
<1>5. CASE push_manager_free
  <2>1. clients' \in Seq(PushClients)
    BY <1>5 DEF push_manager_free
  <2>2. socket' \in [PushClients -> {"none", "open", "closed"}]
    BY <1>5 DEF push_manager_free
  <2>3. QED
    BY <1>5, <2>1, <2>2 DEF push_manager_free
<1>6. QED
  BY <1>1, <1>2, <1>3, <1>4, <1>5 DEF PushNext

\* The bound: a request that starts finds a list below the limit, and only the
\* other handlers can be on their way before it.
LEMMA StepBounded == PushInv /\ [PushNext]_pushVars => ClientsBounded'
<1> SUFFICES ASSUME PushInv, [PushNext]_pushVars PROVE ClientsBounded'
  OBVIOUS
<1> USE DEF PushInv, PushTypes, ClientsBounded, lists
<1>f. /\ Cardinality(InFlight) \in Nat /\ Cardinality(Handlers) \in Nat
      /\ MaxClients \in Nat
  BY InFlightFinite, PushAssumption
<1>1. ASSUME UNCHANGED <<clients, client_count, freed>>, InFlight' = InFlight
      PROVE  ClientsBounded'
  BY <1>1
<1>2. CASE UNCHANGED pushVars
  BY <1>1, <1>2 DEF pushVars, InFlight
<1>3. ASSUME NEW h \in Handlers, RequestArrives(h) PROVE ClientsBounded'
  <2>1. Cardinality(InFlight') \in Nat /\ Cardinality(InFlight') <= Cardinality(Handlers)
    <3>1. InFlight' \subseteq Handlers
      BY DEF InFlight
    <3>2. QED
      BY <3>1, PushAssumption, FS_Subset, FS_CardinalityType
  <2>2. QED
    BY <1>3, <1>f, <2>1 DEF RequestArrives
<1>4. ASSUME NEW h \in Handlers,
             push_send_sse_headers(h) \/ \E k \in PushClients : push_client_create(h, k)
      PROVE  ClientsBounded'
  BY <1>4, <1>1 DEF push_send_sse_headers, push_client_create, InFlight
<1>5. ASSUME NEW h \in Handlers, CreateFails(h) \/ HeadersFail(h) PROVE ClientsBounded'
  <2>1. h \in InFlight /\ InFlight' = InFlight \ {h}
    BY <1>5 DEF CreateFails, HeadersFail, Return, InFlight
  <2>2. Cardinality(InFlight') = Cardinality(InFlight) - 1
    BY <2>1, LeavesFlight
  <2>3. UNCHANGED <<clients, client_count, freed>>
    BY <1>5 DEF CreateFails, HeadersFail
  <2>4. QED
    BY <1>f, <2>2, <2>3
<1>6. ASSUME NEW h \in Handlers, ClientLinked(h) PROVE ClientsBounded'
  <2>1. h \in InFlight /\ InFlight' = InFlight \ {h}
    BY <1>6 DEF ClientLinked, InFlight
  <2>2. handler[h].client \in PushClients
    BY <1>6 DEF ClientLinked, WayInv, OnTheWay
  <2>3. Len(clients') = Len(clients) + 1
    BY <1>6, <2>2, Prepended DEF ClientLinked
  <2>4. Cardinality(InFlight') = Cardinality(InFlight) - 1
    BY <2>1, LeavesFlight
  <2>5. client_count' = client_count + 1 /\ UNCHANGED freed
    BY <1>6 DEF ClientLinked
  <2>6. QED
    BY <1>f, <2>3, <2>4, <2>5
<1>7. ASSUME NEW h \in Handlers, WelcomeSent(h) PROVE ClientsBounded'
  BY <1>7, <1>1 DEF WelcomeSent, Return, InFlight
<1>8. CASE push_manager_start \/ push_manager_stop
  BY <1>8, <1>1 DEF push_manager_start, push_manager_stop, InFlight
<1>9. CASE push_manager_free
  <2>1. InFlight' = InFlight
    BY <1>9 DEF push_manager_free, InFlight
  <2>2. QED
    BY <1>9, <1>f, <2>1 DEF push_manager_free
<1>10. QED
  BY <1>2, <1>3, <1>4, <1>5, <1>6, <1>7, <1>8, <1>9 DEF PushNext

\* A client is on its way, then linked, then closed, and never two of these.
LEMMA StepKept == PushInv /\ [PushNext]_pushVars => WayInv' /\ OpenInv' /\ ListInv'
<1> SUFFICES ASSUME PushInv, [PushNext]_pushVars PROVE WayInv' /\ OpenInv' /\ ListInv'
  OBVIOUS
<1> USE DEF PushInv, PushTypes, lists, OnTheWay
<1>1. CASE UNCHANGED pushVars
  BY <1>1 DEF pushVars, WayInv, OpenInv, ListInv, Linked
<1>2. ASSUME NEW h \in Handlers,
             RequestArrives(h) \/ CreateFails(h) \/ push_send_sse_headers(h) \/ WelcomeSent(h)
      PROVE  WayInv' /\ OpenInv' /\ ListInv'
  <2>1. /\ UNCHANGED <<clients, socket, freed>>
        /\ \A g \in Handlers : /\ OnTheWay(g)' <=> OnTheWay(g)
                               /\ OnTheWay(g) => handler'[g].client = handler[g].client
    BY <1>2 DEF RequestArrives, CreateFails, push_send_sse_headers, WelcomeSent, Return
  <2>2. freed => freed' /\ \A g \in Handlers : handler'[g].pc = "idle"
    BY <1>2 DEF RequestArrives, CreateFails, push_send_sse_headers, WelcomeSent, Return, WayInv
  <2>3. QED
    BY <2>1, <2>2 DEF WayInv, OpenInv, ListInv, Linked
<1>3. ASSUME NEW h \in Handlers, NEW k \in PushClients, push_client_create(h, k)
      PROVE  WayInv' /\ OpenInv' /\ ListInv'
  <2>1. ~Linked(k) /\ \A g \in Handlers : OnTheWay(g) => handler[g].client # k
    BY <1>3 DEF push_client_create, WayInv, ListInv, Linked
  <2>2. /\ UNCHANGED <<clients, freed>> /\ ~freed
        /\ socket' = [socket EXCEPT ![k] = "open"]
        /\ handler'[h] = [pc |-> "headers", client |-> k]
        /\ \A g \in Handlers : g # h => handler'[g] = handler[g]
        /\ ~OnTheWay(h)
    BY <1>3 DEF push_client_create, WayInv
  <2>3. WayInv'
    BY <2>1, <2>2 DEF WayInv, Linked
  <2>4. OpenInv'
    <3>1. OnTheWay(h)' /\ handler'[h].client = k
      BY <2>2
    <3>2. ASSUME NEW j \in PushClients, j # k, socket'[j] = "open"
          PROVE  Linked(j)' \/ \E g \in Handlers : OnTheWay(g)' /\ handler'[g].client = j
      <4>1. socket[j] = "open"
        BY <2>2, <3>2
      <4>2. CASE Linked(j)
        BY <4>2, <2>2 DEF Linked
      <4>3. ASSUME NEW g \in Handlers, OnTheWay(g), handler[g].client = j
            PROVE  OnTheWay(g)' /\ handler'[g].client = j
        BY <4>3, <2>2
      <4>4. QED
        BY <4>1, <4>2, <4>3 DEF OpenInv
    <3>3. QED
      BY <3>1, <3>2 DEF OpenInv
  <2>5. ListInv'
    BY <2>1, <2>2 DEF ListInv, Linked
  <2>6. QED
    BY <2>3, <2>4, <2>5
<1>4. ASSUME NEW h \in Handlers, HeadersFail(h) PROVE WayInv' /\ OpenInv' /\ ListInv'
  <2>k. PICK k \in PushClients : k = handler[h].client
    BY <1>4 DEF HeadersFail, WayInv
  <2>1. /\ OnTheWay(h) /\ ~Linked(k)
        /\ \A g \in Handlers : OnTheWay(g) /\ g # h => handler[g].client # k
    BY <1>4, <2>k DEF HeadersFail, WayInv
  <2>2. /\ UNCHANGED <<clients, freed>> /\ ~freed
        /\ socket' = [socket EXCEPT ![k] = "closed"]
        /\ handler'[h].pc = "idle"
        /\ \A g \in Handlers : g # h => handler'[g] = handler[g]
    BY <1>4, <2>k DEF HeadersFail, Return, WayInv
  <2>3. WayInv'
    BY <2>1, <2>2 DEF WayInv, Linked
  <2>4. OpenInv'
    BY <2>1, <2>2, <2>k DEF OpenInv, Linked
  <2>5. ListInv'
    BY <2>1, <2>2 DEF ListInv, Linked
  <2>6. QED
    BY <2>3, <2>4, <2>5
<1>5. ASSUME NEW h \in Handlers, ClientLinked(h) PROVE WayInv' /\ OpenInv' /\ ListInv'
  <2>k. PICK k \in PushClients : k = handler[h].client
    BY <1>5 DEF ClientLinked, WayInv
  <2>1. /\ OnTheWay(h) /\ ~Linked(k) /\ socket[k] = "open"
        /\ \A g \in Handlers : OnTheWay(g) /\ g # h => handler[g].client # k
    BY <1>5, <2>k DEF ClientLinked, WayInv
  <2>2. /\ UNCHANGED <<socket, freed>> /\ ~freed
        /\ clients' = <<k>> \o clients
        /\ handler'[h].pc = "welcome"
        /\ \A g \in Handlers : g # h => handler'[g] = handler[g]
    BY <1>5, <2>k DEF ClientLinked, WayInv
  <2>3. /\ DOMAIN clients' = 1 .. Len(clients) + 1
        /\ clients'[1] = k
        /\ \A i \in 1 .. Len(clients) : clients'[i + 1] = clients[i]
    BY <2>1, <2>2, Prepended
  <2>4. /\ DOMAIN clients = 1 .. Len(clients) /\ Len(clients) \in Nat
    OBVIOUS
  <2>5. \A j \in PushClients : Linked(j)' <=> Linked(j) \/ j = k
    <3>1. ASSUME NEW j \in PushClients, Linked(j) PROVE Linked(j)'
      <4>1. PICK i \in 1 .. Len(clients) : clients[i] = j
        BY <3>1, <2>4 DEF Linked
      <4>2. i + 1 \in DOMAIN clients' /\ clients'[i + 1] = j
        BY <4>1, <2>3, <2>4
      <4>3. QED
        BY <4>2 DEF Linked
    <3>2. Linked(k)'
      BY <2>3, <2>4 DEF Linked
    <3>3. ASSUME NEW j \in PushClients, Linked(j)', j # k PROVE Linked(j)
      <4>1. PICK i \in 1 .. Len(clients) + 1 : clients'[i] = j
        BY <3>3, <2>3 DEF Linked
      <4>2. i # 1 /\ i - 1 \in 1 .. Len(clients) /\ (i - 1) + 1 = i
        BY <4>1, <3>3, <2>3, <2>4
      <4>3. clients[i - 1] = j
        BY <4>1, <4>2, <2>3
      <4>4. QED
        BY <4>2, <4>3, <2>4 DEF Linked
    <3>4. QED
      BY <3>1, <3>2, <3>3
  <2>6. WayInv'
    <3>1. ASSUME NEW g \in Handlers, OnTheWay(g)'
          PROVE  g # h /\ OnTheWay(g) /\ handler'[g] = handler[g]
      BY <2>2, <3>1 DEF OnTheWay
    <3>2. ASSUME NEW g \in Handlers, OnTheWay(g)'
          PROVE  /\ handler[g].client \in PushClients /\ socket[handler[g].client] = "open"
                 /\ ~Linked(handler[g].client) /\ handler[g].client # k
      BY <2>1, <3>1, <3>2 DEF WayInv
    <3>3. ASSUME NEW g \in Handlers, OnTheWay(g)'
          PROVE  /\ handler'[g].client \in PushClients /\ socket'[handler'[g].client] = "open"
                 /\ ~(Linked(handler[g].client)') /\ handler'[g].client = handler[g].client
      BY <2>2, <2>5, <3>1, <3>2, <3>3
    <3>4. QED
      BY <2>2, <3>1, <3>3 DEF WayInv, Linked
  <2>7. OpenInv'
    BY <2>2, <2>5, <2>k DEF OpenInv
  <2>8. ListInv'
    <3>1. \A i \in DOMAIN clients : clients[i] # k
      BY <2>1 DEF Linked
    <3>2. \A i \in DOMAIN clients' : i = 1 \/ (/\ i - 1 \in DOMAIN clients
                                               /\ clients'[i] = clients[i - 1])
      <4>1. ASSUME NEW i \in 1 .. Len(clients) + 1, i # 1
            PROVE  i - 1 \in 1 .. Len(clients) /\ clients'[(i - 1) + 1] = clients[i - 1]
        BY <4>1, <2>3, <2>4
      <4>2. QED
        BY <4>1, <2>3, <2>4
    <3>3. QED
      BY <2>1, <2>2, <2>3, <3>1, <3>2 DEF ListInv
  <2>9. QED
    BY <2>6, <2>7, <2>8
<1>6. CASE push_manager_start \/ push_manager_stop
  BY <1>6 DEF push_manager_start, push_manager_stop, WayInv, OpenInv, ListInv, Linked
<1>7. CASE push_manager_free
  BY <1>7 DEF push_manager_free, WayInv, OpenInv, ListInv, Linked
<1>8. QED
  BY <1>1, <1>2, <1>3, <1>4, <1>5, <1>6, <1>7 DEF PushNext

\* The inductive invariant of the service: what is in the list, what is on its
\* way to it and what is open.
THEOREM PushInvariance == PushSpec => []PushInv
<1>1. PushInv /\ [PushNext]_pushVars => PushInv'
  BY StepTypes, StepBounded, StepKept DEF PushInv
<1>2. QED
  BY PushInitInv, <1>1, PTL DEF PushSpec

\* The list of the event stream service stays within max_clients and one for
\* each other handler (push.c:425 checks, push.c:482 links), its count is
\* right, and a freed manager leaves no client open.
THEOREM ClientsAreAccounted == PushSpec => []ClientsAccounted
<1>1. PushInv => ClientsAccounted
  <2> SUFFICES ASSUME PushInv PROVE ClientsAccounted
    OBVIOUS
  <2>1. ASSUME freed, NEW k \in PushClients PROVE socket[k] # "open"
    BY <2>1 DEF PushInv, WayInv, OpenInv, Linked, OnTheWay
  <2>2. QED
    BY <2>1 DEF PushInv, ListInv, ClientsAccounted, ClientsKept
<1>2. QED
  BY PushInvariance, <1>1, PTL

------------------------------------------------------------------------------
(***************************************************************************)
(* Master: workers and signals                                             *)
(***************************************************************************)

Gone == {w \in Workers : worker[w] = "gone"}

\* What spawned and at are in each phase of main.
PhaseOK ==
    /\ pc = "fork" => spawned = at
    /\ pc = "record" => spawned = at /\ at < W
    /\ pc = "wait" => spawned = W
    /\ pc = "terminate" => at <= spawned
    /\ pc = "waitpid" => at < spawned

\* Workers 0 .. spawned - 1 were forked, and one more just after fork.
ForkedOK ==
    \A w \in Workers :
        worker[w] # "none" <=> w < spawned \/ (pc = "record" /\ w = spawned)

\* Who has been waited for: nobody yet, as many as the wait loop has counted, or
\* those the cleanup is past.
GoneOK ==
    /\ pc \in {"fork", "record"} => Gone = {}
    /\ pc = "wait" => Cardinality(Gone) = at
    /\ pc \in {"terminate", "waitpid"} => \A w \in Workers : w < at => worker[w] = "gone"

MasterInv == TypeOK /\ PhaseOK /\ ForkedOK /\ GoneOK /\ NobodyLeft

\* Killing changes only workers that live, which become zombies or are gone.
LEMMA KillOK ==
    ASSUME TypeOK, NEW K
    PROVE  /\ Kill(K) \in [Workers -> {"none", "alive", "zombie", "gone"}]
           /\ \A w \in Workers : Kill(K)[w] = "none" <=> worker[w] = "none"
           /\ \A w \in Workers : worker[w] # "alive" => Kill(K)[w] = worker[w]
           /\ pc \notin Ended => \A w \in Workers : Kill(K)[w] = "gone" <=> worker[w] = "gone"
BY DEF Kill, Dead, TypeOK

\* A step that only kills keeps the invariant.
LEMMA KillStep ==
    ASSUME MasterInv, NEW K, worker' = Kill(K),
           UNCHANGED <<path, pc, at, spawned>>,
           signals' \in 0 .. MaxSignals,
           asked' \in {"none", "fork", "record", "wait", "terminate", "waitpid"}
    PROVE  MasterInv'
<1>1. TypeOK'
  BY KillOK DEF MasterInv, TypeOK
<1>2. PhaseOK'
  BY DEF MasterInv, PhaseOK
<1>3. ForkedOK'
  BY KillOK DEF MasterInv, ForkedOK
<1>4. GoneOK'
  <2>1. pc \notin Ended => Gone' = Gone
    BY KillOK DEF MasterInv, Gone
  <2>2. \A w \in Workers : worker[w] = "gone" => worker'[w] = "gone"
    BY KillOK DEF MasterInv
  <2>3. QED
    BY <2>1, <2>2 DEF MasterInv, GoneOK, Ended
<1>5. NobodyLeft'
  BY KillOK DEF MasterInv, NobodyLeft
<1>6. QED
  BY <1>1, <1>2, <1>3, <1>4, <1>5 DEF MasterInv

\* The invariant holds at the start.
LEMMA MasterInitInv == Init => MasterInv
<1> SUFFICES ASSUME Init PROVE MasterInv
  OBVIOUS
<1>1. TypeOK /\ PhaseOK /\ NobodyLeft
  BY MasterAssumption DEF Init, TypeOK, PhaseOK, NobodyLeft, Ended
<1>2. ForkedOK
  BY MasterAssumption DEF Init, ForkedOK, Workers
<1>3. GoneOK
  BY DEF Init, GoneOK, Gone
<1>4. QED
  BY <1>1, <1>2, <1>3 DEF MasterInv

\* The wait loop is over: as many workers are gone as there are, so all are.
LEMMA AllGone ==
    ASSUME MasterInv, pc = "wait", at = W
    PROVE  \A w \in Workers : worker[w] = "gone"
<1>1. IsFiniteSet(Workers) /\ Cardinality(Workers) = W
  <2>1. 0 \in Int /\ W - 1 \in Int
    BY MasterAssumption
  <2>2. QED
    BY <2>1, FS_Interval, MasterAssumption DEF Workers
<1>2. Gone \subseteq Workers /\ Cardinality(Gone) = W
  BY DEF MasterInv, GoneOK, Gone
<1>3. Gone = Workers
  BY <1>1, <1>2, FS_Subset
<1>4. QED
  BY <1>3 DEF Gone

\* One more worker is waited for.
LEMMA ReapCounts ==
    ASSUME MasterInv, Reap
    PROVE  Cardinality(Gone') = at + 1
<1>1. PICK w \in Workers : worker[w] = "zombie" /\ worker' = [worker EXCEPT ![w] = "gone"]
  BY DEF Reap
<1>2. Gone' = Gone \cup {w} /\ w \notin Gone
  BY <1>1 DEF Gone, MasterInv, TypeOK
<1>3. IsFiniteSet(Gone)
  <2>1. 0 \in Int /\ W - 1 \in Int
    BY MasterAssumption
  <2>2. IsFiniteSet(Workers)
    BY <2>1, FS_Interval DEF Workers
  <2>3. QED
    BY <2>2, FS_Subset DEF Gone
<1>4. Cardinality(Gone') = Cardinality(Gone) + 1
  BY <1>2, <1>3, FS_AddElement
<1>5. QED
  BY <1>4 DEF MasterInv, GoneOK, Reap

\* Every step keeps the invariant.
LEMMA MasterNextInv == MasterInv /\ [Next]_vars => MasterInv'
<1> SUFFICES ASSUME MasterInv, [Next]_vars PROVE MasterInv'
  OBVIOUS
<1> USE MasterAssumption
<1>1. CASE Fork
  <2>1. TypeOK' /\ PhaseOK' /\ NobodyLeft'
    BY <1>1 DEF Fork, MasterInv, TypeOK, PhaseOK, NobodyLeft, Ended
  <2>2. ForkedOK'
    BY <1>1 DEF Fork, MasterInv, TypeOK, PhaseOK, ForkedOK, Workers
  <2>3. GoneOK'
    BY <1>1 DEF Fork, MasterInv, TypeOK, GoneOK, Gone
  <2>4. QED
    BY <2>1, <2>2, <2>3 DEF MasterInv
<1>2. CASE Record
  <2>1. TypeOK' /\ PhaseOK' /\ NobodyLeft'
    BY <1>2 DEF Record, MasterInv, TypeOK, PhaseOK, NobodyLeft, Ended
  <2>2. ForkedOK'
    BY <1>2 DEF Record, MasterInv, TypeOK, PhaseOK, ForkedOK, Workers
  <2>3. GoneOK'
    BY <1>2 DEF Record, MasterInv, GoneOK, Gone
  <2>4. QED
    BY <2>1, <2>2, <2>3 DEF MasterInv
<1>3. CASE AllForked
  <2>1. TypeOK' /\ PhaseOK' /\ NobodyLeft'
    BY <1>3 DEF AllForked, MasterInv, TypeOK, PhaseOK, NobodyLeft, Ended
  <2>2. ForkedOK'
    BY <1>3 DEF AllForked, MasterInv, ForkedOK
  <2>3. Gone' = {}
    BY <1>3 DEF AllForked, MasterInv, GoneOK, Gone
  <2>4. GoneOK'
    BY <1>3, <2>3, FS_EmptySet DEF AllForked, GoneOK
  <2>5. QED
    BY <2>1, <2>2, <2>4 DEF MasterInv
<1>4. CASE Reap
  <2>1. TypeOK' /\ PhaseOK' /\ NobodyLeft'
    BY <1>4 DEF Reap, MasterInv, TypeOK, PhaseOK, NobodyLeft, Ended
  <2>2. ForkedOK'
    BY <1>4 DEF Reap, MasterInv, TypeOK, ForkedOK
  <2>3. GoneOK'
    BY <1>4, ReapCounts DEF Reap, GoneOK
  <2>4. QED
    BY <2>1, <2>2, <2>3 DEF MasterInv
<1>5. CASE AllReaped
  <2>1. \A w \in Workers : worker[w] = "gone"
    BY <1>5, AllGone DEF AllReaped
  <2>2. TypeOK' /\ PhaseOK'
    BY <1>5 DEF AllReaped, MasterInv, TypeOK, PhaseOK, Ended
  <2>3. NobodyLeft'
    BY <1>5, <2>1 DEF AllReaped, NobodyLeft
  <2>4. ForkedOK'
    BY <1>5 DEF AllReaped, MasterInv, ForkedOK
  <2>5. GoneOK'
    BY <1>5, <2>1 DEF AllReaped, GoneOK
  <2>6. QED
    BY <2>2, <2>3, <2>4, <2>5 DEF MasterInv
<1>6. CASE Terminate
  <2> DEFINE K == IF worker[at] = "alive" THEN Known(at) ELSE {}
  <2>1. worker' = Kill(K)
    BY <1>6 DEF Terminate, Kill, MasterInv, TypeOK
  <2> HIDE DEF K
  <2>2. TypeOK'
    BY <1>6, <2>1, KillOK DEF Terminate, MasterInv, TypeOK
  <2>3. PhaseOK' /\ NobodyLeft'
    BY <1>6 DEF Terminate, MasterInv, TypeOK, PhaseOK, NobodyLeft, Ended
  <2>4. ForkedOK'
    BY <1>6, <2>1, KillOK DEF Terminate, MasterInv, ForkedOK
  <2>5. GoneOK'
    BY <1>6, <2>1, KillOK DEF Terminate, MasterInv, GoneOK, Ended
  <2>6. QED
    BY <2>2, <2>3, <2>4, <2>5 DEF MasterInv
<1>7. CASE Waitpid
  <2>1. at \in Workers
    BY <1>7 DEF Waitpid, MasterInv, TypeOK, PhaseOK, Workers
  <2>2. TypeOK' /\ PhaseOK' /\ NobodyLeft'
    BY <1>7, <2>1 DEF Waitpid, MasterInv, TypeOK, PhaseOK, NobodyLeft, Ended, Workers
  <2>3. ForkedOK'
    BY <1>7, <2>1 DEF Waitpid, MasterInv, TypeOK, PhaseOK, ForkedOK, Workers
  <2>4. GoneOK'
    BY <1>7, <2>1 DEF Waitpid, MasterInv, TypeOK, GoneOK, Workers
  <2>5. QED
    BY <2>2, <2>3, <2>4 DEF MasterInv
<1>8. CASE FreePids
  <2>1. TypeOK' /\ PhaseOK'
    BY <1>8 DEF FreePids, MasterInv, TypeOK, PhaseOK, Ended
  <2>2. ForkedOK'
    BY <1>8 DEF FreePids, MasterInv, ForkedOK
  <2>3. NobodyLeft'
    BY <1>8 DEF FreePids, MasterInv, TypeOK, PhaseOK, ForkedOK, GoneOK, NobodyLeft, Workers
  <2>4. GoneOK'
    BY <1>8 DEF FreePids, GoneOK
  <2>5. QED
    BY <2>1, <2>2, <2>3, <2>4 DEF MasterInv
<1>9. CASE ForkFails
  <2>1. TypeOK' /\ PhaseOK' /\ NobodyLeft'
    BY <1>9 DEF ForkFails, MasterInv, TypeOK, PhaseOK, NobodyLeft, Ended
  <2>2. ForkedOK'
    BY <1>9 DEF ForkFails, MasterInv, ForkedOK
  <2>3. GoneOK'
    BY <1>9 DEF ForkFails, GoneOK, Workers
  <2>4. QED
    BY <2>1, <2>2, <2>3 DEF MasterInv
<1>10. CASE MasterSignal
  BY <1>10, KillStep DEF MasterSignal, MasterInv, TypeOK, Ended
<1>11. ASSUME NEW w \in Workers, WorkerSignal(w) PROVE MasterInv'
  BY <1>11, KillStep DEF WorkerSignal, MasterInv, TypeOK
<1>12. ASSUME NEW w \in Workers, WorkerEnds(w) PROVE MasterInv'
  BY <1>12, KillStep DEF WorkerEnds, MasterInv, TypeOK
<1>13. CASE UNCHANGED vars
  BY <1>13 DEF vars, MasterInv, TypeOK, PhaseOK, ForkedOK, GoneOK, Gone, NobodyLeft
<1>14. QED
  BY <1>1, <1>2, <1>3, <1>4, <1>5, <1>6, <1>7, <1>8, <1>9, <1>10, <1>11, <1>12, <1>13
     DEF Next, Run

\* The master's phase, the pids it holds and the fate of the workers agree in
\* every reachable state.
THEOREM MasterInvariance == Spec => []MasterInv
BY MasterInitInv, MasterNextInv, PTL DEF Spec

\* Type correctness.
THEOREM MasterTypeCorrect == Spec => []TypeOK
<1>1. MasterInv => TypeOK
  BY DEF MasterInv
<1>2. QED
  BY <1>1, MasterInvariance, PTL

\* Except between fork and the two stores after it, worker_pids names every
\* worker that was forked: what signal_handler kills is all of them.
THEOREM HandlerKnowsAll == Spec => []WorkersKnown
<1>1. MasterInv => WorkersKnown
  BY MasterAssumption DEF MasterInv, TypeOK, ForkedOK, WorkersKnown, Known, Workers
<1>2. QED
  BY <1>1, MasterInvariance, PTL

\* A master that ends, other than by a failed fork on the command-line path, has
\* outlived all its workers.
THEOREM MasterOutlivesWorkers == Spec => []NobodyLeft
<1>1. MasterInv => NobodyLeft
  BY DEF MasterInv
<1>2. QED
  BY <1>1, MasterInvariance, PTL
==============================================================================
