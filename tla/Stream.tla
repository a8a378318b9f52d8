------------------------------- MODULE Stream -------------------------------
(***************************************************************************)
(* The TCP stream proxy, src/src/stream/stream.c: a manager that starts    *)
(* and stops listeners, a thread per listener that accepts clients, and a  *)
(* detached thread per client that connects to a backend and forwards in   *)
(* both directions until one side ends.                                    *)
(*                                                                         *)
(* All of them share the descriptor table of the process, where the number *)
(* a close gives back is the first one the next socket gets.  The table is *)
(* modelled for that reason: a thread names its sockets by numbers only.   *)
(***************************************************************************)
EXTENDS Integers, Sequences, FiniteSetsExt

CONSTANTS Listeners,   \* config->listeners, as a sequence
          Clients,     \* each one connects again when its connection has ended
          Fds,         \* the numbers a process may use, RLIMIT_NOFILE
          MaxStarts,   \* bound on the starts of one listener
          Talkers,     \* the ends that send something and end
          MaxMsgs      \* bound on what the open connections have sent, together

ASSUME StreamAssumption ==
  /\ Listeners \in Seq(STRING)
  /\ Fds \subseteq Nat
  /\ MaxStarts \in Nat /\ MaxMsgs \in Nat

VARIABLES
  file,     \* the descriptor table: what each number refers to
  running,  \* manager->running
  manager,  \* what the manager's caller is doing: [op, at]
  listener, \* [active, socket_fd, starts] of each listener
  lthread,  \* [pc, fd, client] of each listener thread
  conn,     \* [pc, client_fd, backend_fd] of each client's connection
  inbox,    \* bytes that have arrived on a socket and are not read
  outbox,   \* bytes that were sent on a socket, as its peer receives them
  eof,      \* sockets whose peer will send no more
  count,    \* how much the peer of a socket has sent
  alive     \* the process; nobody ignores SIGPIPE

netVars == <<inbox, outbox, eof, count>>
mgrVars == <<running, manager, listener>>
streamVars == <<file, running, manager, listener, lthread, conn, inbox, outbox, eof, count, alive>>

Closed == <<"closed">>
NoFd == -1
ListenSocket(l) == <<"listen", l>>
ClientSocket(c) == <<"client", c>>
BackendSocket(c) == <<"backend", c>>
Ends == {ClientSocket(c) : c \in Clients} \cup {BackendSocket(c) : c \in Clients}
ListenerNames == {Listeners[i] : i \in DOMAIN Listeners}
ListenerThreads == ListenerNames \X (1 .. MaxStarts)
Nobody == "nobody"

\* socket() and accept() return the lowest number that is free
Lowest(f) == /\ file[f] = Closed
             /\ \A g \in Fds : file[g] = Closed => f <= g
Full == \A f \in Fds : file[f] # Closed
Close(fd) == IF fd \in Fds THEN [file EXCEPT ![fd] = Closed] ELSE file

StreamInit ==
  /\ file = [f \in Fds |-> Closed]
  /\ running = FALSE
  /\ manager = [op |-> "idle", at |-> 1]
  /\ listener = [l \in ListenerNames |-> [active |-> FALSE, socket_fd |-> NoFd, starts |-> 0]]
  /\ lthread = [t \in ListenerThreads |-> [pc |-> "none", fd |-> NoFd, client |-> Nobody]]
  /\ conn = [c \in Clients |-> [pc |-> "ended", client_fd |-> NoFd, backend_fd |-> NoFd]]
  /\ inbox = [s \in Ends |-> <<>>]
  /\ outbox = [s \in Ends |-> <<>>]
  /\ eof = {}
  /\ count = [s \in Ends |-> 0]
  /\ alive = TRUE

-----------------------------------------------------------------------------
\* The manager.  A start that fails half way returns with the listeners before
\* it active and running still false, so a later stop refuses.

stream_manager_start ==
  /\ manager.op = "idle" /\ ~running
  /\ manager' = [op |-> "start", at |-> 1]
  /\ UNCHANGED <<file, running, listener, lthread, conn, netVars>>

StartDone ==
  /\ manager.op = "start" /\ manager.at > Len(Listeners)
  /\ running' = TRUE
  /\ manager' = [op |-> "idle", at |-> 1]
  /\ UNCHANGED <<file, listener, lthread, conn, netVars>>

\* stream_listener_start returns -1: the listener is active already, socket
\* fails, or a later step fails, which closes the socket and leaves its number
ListenerFails(l) ==
  /\ manager' = [op |-> "idle", at |-> 1]
  /\ IF listener[l].active \/ listener[l].starts = MaxStarts THEN UNCHANGED listener
     ELSE \E fd \in Fds \cup {NoFd} :
            /\ fd # NoFd => Lowest(fd)
            /\ listener' = [listener EXCEPT ![l].socket_fd = fd]
  /\ UNCHANGED <<file, running, lthread, conn, netVars>>

ListenerStarts(l) ==
  /\ ~listener[l].active /\ listener[l].starts < MaxStarts
  /\ \E fd \in Fds :
       /\ Lowest(fd)
       /\ file' = [file EXCEPT ![fd] = ListenSocket(l)]
       /\ listener' = [listener EXCEPT ![l] =
                         [active |-> TRUE, socket_fd |-> fd, starts |-> @.starts + 1]]
  /\ lthread' = [lthread EXCEPT ![<<l, listener[l].starts + 1>>].pc = "check"]
  /\ manager' = [manager EXCEPT !.at = @ + 1]
  /\ UNCHANGED <<running, conn, netVars>>

stream_listener_start ==
  /\ manager.op = "start" /\ manager.at <= Len(Listeners)
  /\ ListenerStarts(Listeners[manager.at]) \/ ListenerFails(Listeners[manager.at])

stream_manager_stop ==
  /\ manager.op = "idle" /\ running
  /\ running' = FALSE
  /\ manager' = [op |-> "stop", at |-> 1]
  /\ UNCHANGED <<file, listener, lthread, conn, netVars>>

StopDone ==
  /\ manager.op = "stop" /\ manager.at > Len(Listeners)
  /\ manager' = [op |-> "idle", at |-> 1]
  /\ UNCHANGED <<file, running, listener, lthread, conn, netVars>>

stream_listener_stop ==
  /\ manager.op = "stop" /\ manager.at <= Len(Listeners)
  /\ manager' = [manager EXCEPT !.at = @ + 1]
  /\ LET l == Listeners[manager.at] IN
     IF listener[l].active
     THEN /\ file' = Close(listener[l].socket_fd)
          /\ listener' = [listener EXCEPT ![l].active = FALSE, ![l].socket_fd = NoFd]
     ELSE UNCHANGED <<file, listener>>
  /\ UNCHANGED <<running, lthread, conn, netVars>>

-----------------------------------------------------------------------------
\* A listener thread.  It reads the descriptor out of the listener, which the
\* manager may close and whose number a proxy thread may get before accept
\* is entered; a thread that is blocked in accept keeps its socket alive.

Step(t, pc) == lthread' = [lthread EXCEPT ![t].pc = pc]

ListenerChecks(t) ==
  /\ lthread[t].pc = "check"
  /\ LET l == listener[t[1]] IN
     lthread' = [lthread EXCEPT ![t].pc = IF l.active THEN "accept" ELSE "ended",
                                ![t].fd = l.socket_fd]
  /\ UNCHANGED <<file, mgrVars, conn, netVars>>

AcceptBegins(t) ==
  /\ lthread[t].pc = "accept"
  /\ LET fd == lthread[t].fd IN
     Step(t, IF fd \in Fds /\ \E l \in ListenerNames : file[fd] = ListenSocket(l)
             THEN "blocked" ELSE "check")
  /\ UNCHANGED <<file, mgrVars, conn, netVars>>

\* accept returns a client, or fails for want of a descriptor
Accepts(t, c) ==
  /\ lthread[t].pc = "blocked"
  /\ conn[c].pc = "ended"
  /\ \E fd \in Fds :
       /\ Lowest(fd)
       /\ file' = [file EXCEPT ![fd] = ClientSocket(c)]
       /\ conn' = [conn EXCEPT ![c] = [pc |-> "accepted", client_fd |-> fd, backend_fd |-> NoFd]]
  /\ lthread' = [lthread EXCEPT ![t].pc = "create", ![t].client = c]
  /\ UNCHANGED <<mgrVars, netVars>>

AcceptFails(t) ==
  /\ lthread[t].pc = "blocked" /\ Full
  /\ Step(t, "check")
  /\ UNCHANGED <<file, mgrVars, conn, netVars>>

\* The connection and its thread: without memory the client is closed, without
\* a thread the connection is freed and its descriptor is never closed
ConnectionCreated(t, c, pc) ==
  /\ conn' = [conn EXCEPT ![c].pc = pc]
  /\ UNCHANGED file

ConnectionRefused(t, c) ==
  /\ file' = Close(conn[c].client_fd)
  /\ conn' = [conn EXCEPT ![c] = [pc |-> "ended", client_fd |-> NoFd, backend_fd |-> NoFd]]

stream_connection_create(t) ==
  /\ lthread[t].pc = "create"
  /\ LET c == lthread[t].client IN
     ConnectionCreated(t, c, "select") \/ ConnectionCreated(t, c, "lost") \/ ConnectionRefused(t, c)
  /\ Step(t, "check")
  /\ UNCHANGED <<mgrVars, netVars>>

-----------------------------------------------------------------------------
\* The thread of a connection

Goto(c, pc) == conn' = [conn EXCEPT ![c].pc = pc]

\* No server is available, or socket() fails
stream_select_backend(c) ==
  /\ conn[c].pc = "select"
  /\ Goto(c, "cleanup")
  /\ UNCHANGED <<file, mgrVars, lthread, netVars>>

\* socket() for the backend, in non-blocking mode
stream_tcp_connect_backend(c) ==
  /\ conn[c].pc = "select"
  /\ \E fd \in Fds :
       /\ Lowest(fd)
       /\ file' = [file EXCEPT ![fd] = BackendSocket(c)]
       /\ conn' = [conn EXCEPT ![c].pc = "connecting", ![c].backend_fd = fd]
  /\ UNCHANGED <<mgrVars, lthread, netVars>>

ConnectDone(c) ==
  /\ conn[c].pc = "connecting"
  /\ Goto(c, "forward")
  /\ UNCHANGED <<file, mgrVars, lthread, netVars>>

\* Mutant: the number of the closed socket stays in the connection
ConnectFailsKeepingFd(c) ==
  /\ conn[c].pc = "connecting"
  /\ file' = Close(conn[c].backend_fd)
  /\ Goto(c, "cleanup")
  /\ UNCHANGED <<mgrVars, lthread, netVars>>

\* A bad address, a refusal, the timeout or SO_ERROR
ConnectFails(c) ==
  /\ conn[c].pc = "connecting"
  /\ file' = Close(conn[c].backend_fd)
  /\ conn' = [conn EXCEPT ![c].pc = "cleanup", ![c].backend_fd = NoFd]
  /\ UNCHANGED <<mgrVars, lthread, netVars>>

\* What a descriptor is ready for reading, by what it refers to now
Readable(fd) == LET s == file[fd] IN s \in Ends /\ (inbox[s] # <<>> \/ s \in eof)

\* stream_tcp_forward_data: one recv and one send
CanForward(src) == inbox[file[src]] # <<>>
ForwardSent(src, dst) ==
  /\ CanForward(src) /\ file[dst] \in Ends
  /\ outbox' = [outbox EXCEPT ![file[dst]] = Append(@, Head(inbox[file[src]]))]
  /\ inbox' = [inbox EXCEPT ![file[src]] = Tail(@)]

\* Mutant: what the backend sends is forwarded to the backend
DownToBackend(c) ==
  LET cfd == conn[c].client_fd  bfd == conn[c].backend_fd IN
  /\ conn[c].pc = "forward" /\ Readable(bfd)
  /\ \/ ForwardSent(bfd, bfd) /\ UNCHANGED conn
     \/ ~CanForward(bfd) /\ Goto(c, "cleanup") /\ UNCHANGED <<inbox, outbox>>
  /\ UNCHANGED <<file, mgrVars, lthread, eof, count>>

\* Mutant: recv returning 0 is taken for "nothing yet"
ForwardUpForEver(c) ==
  LET cfd == conn[c].client_fd  bfd == conn[c].backend_fd IN
  /\ conn[c].pc = "forward" /\ Readable(cfd)
  /\ ForwardSent(cfd, bfd)
  /\ Goto(c, IF Readable(bfd) THEN "down" ELSE "forward")
  /\ UNCHANGED <<file, mgrVars, lthread, eof, count>>

\* One turn of the loop in stream_tcp_proxy_start, the client's side first.
\* recv returning 0, or a send that fails or is cut short, ends the loop with
\* what the other side still had to deliver.
ForwardUp(c) ==
  LET cfd == conn[c].client_fd  bfd == conn[c].backend_fd IN
  /\ conn[c].pc = "forward" /\ Readable(cfd)
  /\ \/ /\ ForwardSent(cfd, bfd)
        /\ Goto(c, IF Readable(bfd) THEN "down" ELSE "forward")
     \/ ~CanForward(cfd) /\ Goto(c, "cleanup") /\ UNCHANGED <<inbox, outbox>>
  /\ UNCHANGED <<file, mgrVars, lthread, eof, count>>

ForwardDown(c) ==
  LET cfd == conn[c].client_fd  bfd == conn[c].backend_fd IN
  /\ \/ conn[c].pc = "down"
     \/ conn[c].pc = "forward" /\ ~Readable(cfd) /\ Readable(bfd)
  /\ \/ ForwardSent(bfd, cfd) /\ Goto(c, "forward")
     \/ ~CanForward(bfd) /\ Goto(c, "cleanup") /\ UNCHANGED <<inbox, outbox>>
  /\ UNCHANGED <<file, mgrVars, lthread, eof, count>>

\* A send on the destination that does not take all there is: it fails or is cut
\* short, or its peer reads nothing, and it does not return.  (The sockets are in
\* blocking mode.  A send that returns late is a ForwardSent that comes late.)
SendFails(c) ==
  LET cfd == conn[c].client_fd  bfd == conn[c].backend_fd IN
  /\ conn[c].pc \in {"forward", "down"}
  /\ \E s \in {cfd, bfd} : Readable(s) /\ CanForward(s)
                          /\ inbox' = [inbox EXCEPT ![file[s]] = Tail(@)]
  /\ Goto(c, "cleanup") \/ Goto(c, "blocked")
  /\ UNCHANGED <<file, mgrVars, lthread, outbox, eof, count>>

\* A send that was blocked returns an error after all
BlockedSendFails(c) ==
  /\ conn[c].pc = "blocked"
  /\ Goto(c, "cleanup")
  /\ UNCHANGED <<file, mgrVars, lthread, netVars>>

\* A send to a peer that is gone: the signal ends the process
SendSignals(c) ==
  LET cfd == conn[c].client_fd  bfd == conn[c].backend_fd IN
  /\ conn[c].pc \in {"forward", "down", "blocked"}
  /\ \/ Readable(cfd) /\ CanForward(cfd) /\ file[bfd] \in eof
     \/ Readable(bfd) /\ CanForward(bfd) /\ file[cfd] \in eof
  /\ alive' = FALSE
  /\ UNCHANGED <<file, mgrVars, lthread, conn, netVars>>

\* The kernel drops what is unread on a socket that is closed, and what its
\* peer has exchanged with it is over
Dropped(s) == /\ inbox' = [inbox EXCEPT ![s] = <<>>]
              /\ outbox' = [outbox EXCEPT ![s] = <<>>]
              /\ count' = [count EXCEPT ![s] = 0]
              /\ eof' = eof \ {s}

\* stream_connection_cleanup closes one descriptor after the other
CleanupClient(c) ==
  /\ conn[c].pc = "cleanup"
  /\ file' = Close(conn[c].client_fd)
  /\ conn' = [conn EXCEPT ![c].pc = "cleanup2", ![c].client_fd = NoFd]
  /\ Dropped(ClientSocket(c))
  /\ UNCHANGED <<mgrVars, lthread>>

CleanupBackend(c) ==
  /\ conn[c].pc = "cleanup2"
  /\ file' = Close(conn[c].backend_fd)
  /\ conn' = [conn EXCEPT ![c].pc = "ended", ![c].backend_fd = NoFd]
  /\ Dropped(BackendSocket(c))
  /\ UNCHANGED <<mgrVars, lthread>>

-----------------------------------------------------------------------------
\* The peers: the client of a connection and the server behind it.  What a
\* client sends before its proxy forwards is not looked at until then, so it
\* may as well arrive then.

Connected(s) == conn[s[2]].pc \in {"forward", "down", "blocked"}

PeerSends(s) ==
  /\ Connected(s) /\ s \in Talkers \ eof
  /\ MapThenSumSet(LAMBDA e : count[e], Ends) < MaxMsgs
  /\ inbox' = [inbox EXCEPT ![s] = Append(@, <<s, count[s] + 1>>)]
  /\ count' = [count EXCEPT ![s] = @ + 1]
  /\ UNCHANGED <<file, mgrVars, lthread, conn, outbox, eof>>

PeerEnds(s) ==
  /\ Connected(s) /\ s \in Talkers \ eof
  /\ eof' = eof \cup {s}
  /\ UNCHANGED <<file, mgrVars, lthread, conn, inbox, outbox, count>>

ManagerStep == \/ stream_manager_start \/ stream_listener_start \/ StartDone
               \/ stream_manager_stop \/ stream_listener_stop \/ StopDone

ListenerStep(t) == \/ ListenerChecks(t) \/ AcceptBegins(t) \/ AcceptFails(t)
                   \/ stream_connection_create(t)
                   \/ \E c \in Clients : Accepts(t, c)

ProxyStep(c) == \/ stream_select_backend(c) \/ stream_tcp_connect_backend(c)
                \/ ConnectDone(c) \/ ConnectFails(c)
                \/ ForwardUp(c) \/ ForwardDown(c) \/ SendFails(c)
                \/ CleanupClient(c) \/ CleanupBackend(c)

PeerStep == \E s \in Ends : PeerSends(s) \/ PeerEnds(s)

StreamNext ==
  /\ alive
  /\ \/ /\ UNCHANGED alive
        /\ \/ ManagerStep
           \/ \E t \in ListenerThreads : ListenerStep(t)
           \/ \E c \in Clients : ProxyStep(c) \/ BlockedSendFails(c)
           \/ PeerStep
     \/ \E c \in Clients : SendSignals(c)

\* A thread that has a step to take takes one; no peer has to read
ProxyRuns(c) == alive /\ UNCHANGED alive /\ ProxyStep(c)

StreamSpec == /\ StreamInit /\ [][StreamNext]_streamVars
              /\ \A c \in Clients : WF_streamVars(ProxyRuns(c))

-----------------------------------------------------------------------------
\* A number that a connection holds refers to that connection's own socket,
\* and an open socket is held by its own connection, whatever the other
\* threads open and close in between: nothing is closed twice, since the
\* second close would hit the thread that got the number meanwhile, and
\* nothing stays open but the client of a thread that could not be created.
DescriptorsOwned ==
  /\ \A c \in Clients :
       /\ conn[c].client_fd # NoFd => file[conn[c].client_fd] = ClientSocket(c)
       /\ conn[c].backend_fd # NoFd => file[conn[c].backend_fd] = BackendSocket(c)
       /\ conn[c].pc = "ended" => conn[c].client_fd = NoFd /\ conn[c].backend_fd = NoFd
  /\ \A f \in Fds : \A c \in Clients :
       /\ file[f] = ClientSocket(c) => conn[c].client_fd = f
       /\ file[f] = BackendSocket(c) => conn[c].backend_fd = f

\* What one end of a connection receives is what its other end sent, in that
\* order, without a hole and without a byte of another connection.
ReceivedInOrder ==
  \A c \in Clients :
    /\ \A i \in DOMAIN outbox[BackendSocket(c)] :
         outbox[BackendSocket(c)][i] = <<ClientSocket(c), i>>
    /\ \A i \in DOMAIN outbox[ClientSocket(c)] :
         outbox[ClientSocket(c)][i] = <<BackendSocket(c), i>>

\* When the client or the backend of a running proxy has ended, its thread
\* ends, both descriptors closed, unless one of its sends does not return or
\* ends the process.
ProxyEnds ==
  \A c \in Clients :
    (/\ conn[c].pc \in {"forward", "down"}
     /\ {ClientSocket(c), BackendSocket(c)} \cap eof # {})
       ~> conn[c].pc \in {"ended", "blocked"} \/ ~alive
=============================================================================
