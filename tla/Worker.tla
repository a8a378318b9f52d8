------------------------------- MODULE Worker -------------------------------
(***************************************************************************)
(* One worker process: worker_loop of src/src/core/net.c with its pool of  *)
(* connection slots, and the part of handle_http_request in                *)
(* src/src/http/http.c that touches the connection.                        *)
(*                                                                         *)
(* The kernel's side is modelled as the code uses it: descriptors are the  *)
(* lowest free numbers, a registration in epoll is edge triggered, keeps   *)
(* the pointer to a slot it was made with and ends when the descriptor is  *)
(* closed, and recv takes what has arrived.  Each step of the worker is a  *)
(* system call and what the code does up to the next one; clients act in   *)
(* between.  A request reaches the server in pieces, the last of which     *)
(* ends its headers.                                                       *)
(***************************************************************************)
EXTENDS Naturals, FiniteSets, SequencesExt

CONSTANTS
    Clients,        \* the connections that may be made, each once
    SlotCount,      \* connection_pool_capacity
    FDCounts,       \* how many descriptors the process may have for clients
    Listen,         \* the listening socket
    MaxAccept,      \* MAX_ACCEPT_PER_ROUND
    MaxEvents,      \* MAX_EVENTS
    BufCap,         \* pieces that fit into the buffer of a slot
    MaxPieces,      \* pieces a client sends in all
    IdleLimit,      \* ticks after which a slot counts as idle (300 s)
    Habits,         \* what clients may do besides sending whole requests
    None

Slots == 1 .. SlotCount

ASSUME WorkerAssumption ==
    /\ SlotCount \in Nat /\ FDCounts \subseteq Nat
    /\ MaxAccept \in Nat \ {0} /\ MaxEvents \in Nat \ {0} /\ BufCap \in Nat \ {0}
    /\ MaxPieces \in Nat /\ IdleLimit \in Nat \ {0}
    /\ Habits \subseteq {"part", "finish", "abort", "idle"}
    /\ Listen \notin Clients /\ None \notin Clients \cup {Listen} \cup Nat

VARIABLES
    conn,       \* of each client: "away", "backlog", "open" or "closed"
    rx,         \* pieces that arrived and were not read
    fin, hup,   \* whether the client closed its side, or reset the connection
    sent,       \* pieces it sent
    answered,   \* whether it was sent an answer
    backlog,    \* of the listening socket
    owner,      \* of each descriptor: the client it is the connection of
    reg,        \* of each client: the slot its epoll registration points at
    ready,      \* epoll's ready list
    fd, buf, age,       \* of each slot: fd, pieces buffered, ticks since last_activity
    batch,      \* the events of this epoll_wait that are still to be handled
    index,      \* i of worker_loop: the place of the event in its batch
    tries, accepted,    \* of this round of accepts: all, and those that were kept
    due,        \* whether 30 s have passed since the last cleanup
    pc

clientVars == <<conn, rx, fin, hup, sent, answered>>
kernelVars == <<backlog, owner, reg, ready>>
slotVars == <<fd, buf, age>>
loopVars == <<batch, index, tries, accepted, due, pc>>
vars == <<clientVars, kernelVars, slotVars, loopVars>>

\* The descriptors the process may have for clients.
FDs == DOMAIN owner

Lowest(S) == CHOOSE x \in S : \A y \in S : x <= y

Init ==
    /\ conn = [c \in Clients |-> "away"]
    /\ rx = [c \in Clients |-> <<>>]
    /\ fin = [c \in Clients |-> FALSE]
    /\ hup = [c \in Clients |-> FALSE]
    /\ sent = [c \in Clients |-> 0]
    /\ answered = [c \in Clients |-> FALSE]
    /\ backlog = <<>> /\ ready = <<>> /\ batch = <<>>
    /\ \E n \in FDCounts : owner = [f \in 1 .. n |-> None]
    /\ reg = [c \in Clients |-> None]
    /\ fd = [s \in Slots |-> None]
    /\ buf = [s \in Slots |-> 0]
    /\ age = [s \in Slots |-> 0]
    /\ index = 0 /\ tries = 0 /\ accepted = 0 /\ due = FALSE /\ pc = "wait"

------------------------------------------------------------------------------
(* Clients and the kernel.                                                 *)

\* epoll puts an item at the end of its ready list unless it is there.
Notify(item) == ready' = IF Contains(ready, item) THEN ready ELSE Append(ready, item)

NotifyClient(c) == IF reg[c] = None THEN UNCHANGED ready ELSE Notify(c)

Connect(c) ==
    /\ conn[c] = "away"
    /\ conn' = [conn EXCEPT ![c] = "backlog"]
    /\ backlog' = Append(backlog, c)
    /\ Notify(Listen)
    /\ UNCHANGED <<rx, fin, hup, sent, answered, owner, reg, slotVars, loopVars>>

Connected(c) == conn[c] \in {"backlog", "open"} /\ ~hup[c]

\* A client sends a piece of a request, or the end of one.
Send(c, piece) ==
    /\ Connected(c) /\ ~fin[c] /\ sent[c] < MaxPieces
    /\ sent' = [sent EXCEPT ![c] = @ + 1]
    /\ rx' = [rx EXCEPT ![c] = Append(@, piece)]
    /\ NotifyClient(c)
    /\ UNCHANGED <<conn, fin, hup, answered, backlog, owner, reg, slotVars, loopVars>>

Finish(c) ==
    /\ "finish" \in Habits
    /\ Connected(c) /\ ~fin[c]
    /\ fin' = [fin EXCEPT ![c] = TRUE]
    /\ NotifyClient(c)
    /\ UNCHANGED <<conn, rx, hup, sent, answered, backlog, owner, reg, slotVars, loopVars>>

\* A reset: what has not been read is lost.
Abort(c) ==
    /\ "abort" \in Habits
    /\ Connected(c)
    /\ hup' = [hup EXCEPT ![c] = TRUE]
    /\ rx' = [rx EXCEPT ![c] = <<>>]
    /\ NotifyClient(c)
    /\ UNCHANGED <<conn, fin, sent, answered, backlog, owner, reg, slotVars, loopVars>>

\* More than 30 s pass.
Tick ==
    /\ "idle" \in Habits
    /\ ~due \/ \E s \in Slots : age[s] < IdleLimit
    /\ due' = TRUE
    /\ age' = [s \in Slots |-> IF age[s] < IdleLimit THEN age[s] + 1 ELSE age[s]]
    /\ UNCHANGED <<clientVars, kernelVars, fd, buf, batch, index, tries, accepted, pc>>

ClientStep(c) ==
    \/ Connect(c) \/ Finish(c) \/ Abort(c)
    \/ \E piece \in {"end"} \cup (Habits \cap {"part"}) : Send(c, piece)

------------------------------------------------------------------------------
(* The loop: epoll_wait, one event after another, the cleanup.             *)

Readable(item) ==
    IF item = Listen THEN backlog # <<>> ELSE rx[item] # <<>> \/ fin[item] \/ hup[item]

\* An event carries the pointer of the registration and says whether
\* EPOLLERR or EPOLLHUP is set.
EventOf(item) ==
    [who |-> item,
     slot |-> IF item = Listen THEN None ELSE reg[item],
     bad |-> item # Listen /\ hup[item]]

\* epoll_wait takes MAX_EVENTS items at most; the others stay ready.
Wait ==
    /\ pc = "wait"
    /\ LET items == SelectSeq(ready, Readable)
           taken == IF Len(items) <= MaxEvents THEN items ELSE SubSeq(items, 1, MaxEvents) IN
        /\ batch' = [i \in DOMAIN taken |-> EventOf(taken[i])]
        /\ ready' = SubSeq(items, Len(taken) + 1, Len(items))
        /\ pc' = IF items = <<>> THEN "tidy" ELSE "event"
    /\ UNCHANGED <<clientVars, backlog, owner, reg, slotVars, index, tries, accepted, due>>

NextEvent ==
    /\ batch' = Tail(batch)
    /\ pc' = IF Len(batch) = 1 THEN "tidy" ELSE "event"
    /\ index' = IF Len(batch) = 1 THEN 0 ELSE index + 1

Event == Head(batch)

\* free_connection: the slot is free; its descriptor is not closed.
FreeSlot(s) == fd' = [fd EXCEPT ![s] = None]

\* EPOLLERR or EPOLLHUP.
Hangup ==
    /\ pc = "event" /\ Event.bad
    /\ FreeSlot(Event.slot)
    /\ NextEvent
    /\ UNCHANGED <<clientVars, kernelVars, buf, age, tries, accepted, due>>

StartAccepting ==
    /\ pc = "event" /\ Event.who = Listen
    /\ pc' = "accept"
    /\ UNCHANGED <<clientVars, kernelVars, slotVars, batch, index, tries, accepted, due>>

FreeFDs == {f \in FDs : owner[f] = None}

\* get_free_connection takes the lowest of these.
FreeSlots == {s \in Slots : fd[s] = None}

\* Mutant: the round ends one accept early.
MayAcceptButOne == tries + 1 < MaxAccept /\ accepted < MaxEvents - index

MayAccept == tries < MaxAccept /\ accepted < MaxEvents - index

\* accept answers EAGAIN, or the round is over.
StopAccepting ==
    /\ pc = "accept"
    /\ backlog = <<>> \/ ~MayAccept
    /\ NextEvent
    /\ tries' = 0 /\ accepted' = 0
    /\ UNCHANGED <<clientVars, kernelVars, slotVars, due>>

\* accept fails for want of a descriptor (EMFILE); the loop goes on.
AcceptFails ==
    /\ pc = "accept" /\ backlog # <<>> /\ MayAccept
    /\ FreeFDs = {}
    /\ tries' = tries + 1
    /\ UNCHANGED <<clientVars, kernelVars, slotVars, batch, index, accepted, due, pc>>

\* The pool is full: the connection is closed.
AcceptRefuses ==
    /\ pc = "accept" /\ backlog # <<>> /\ MayAccept
    /\ FreeFDs # {}
    /\ FreeSlots = {}
    /\ conn' = [conn EXCEPT ![Head(backlog)] = "closed"]
    /\ rx' = [rx EXCEPT ![Head(backlog)] = <<>>]
    /\ backlog' = Tail(backlog)
    /\ tries' = tries + 1
    /\ UNCHANGED <<fin, hup, sent, answered, owner, reg, ready, slotVars,
                   batch, index, accepted, due, pc>>

Accept ==
    /\ pc = "accept" /\ backlog # <<>> /\ MayAccept
    /\ FreeFDs # {} /\ FreeSlots # {}
    /\ LET c == Head(backlog)  f == Lowest(FreeFDs)  s == Lowest(FreeSlots) IN
        /\ conn' = [conn EXCEPT ![c] = "open"]
        /\ owner' = [owner EXCEPT ![f] = c]
        /\ reg' = [reg EXCEPT ![c] = s]
        /\ fd' = [fd EXCEPT ![s] = f]
        /\ buf' = [buf EXCEPT ![s] = 0]
        /\ age' = [age EXCEPT ![s] = 0]
        /\ IF Readable(c) THEN Notify(c) ELSE UNCHANGED ready
    /\ backlog' = Tail(backlog)
    /\ tries' = tries + 1 /\ accepted' = accepted + 1
    /\ UNCHANGED <<rx, fin, hup, sent, answered, batch, index, due, pc>>

------------------------------------------------------------------------------
(* handle_http_request_optimized and handle_http_request.                  *)

\* The slot of an event for a client, and whose connection its descriptor is.
Slot == Event.slot
Peer == IF fd[Slot] = None THEN None ELSE owner[fd[Slot]]

ClientEvent == pc = "event" /\ Event.who # Listen /\ ~Event.bad

Room == BufCap - buf[Slot]
Received == IF Len(rx[Peer]) <= Room THEN rx[Peer] ELSE SubSeq(rx[Peer], 1, Room)

\* recv takes nothing: no descriptor, a closed one, nothing there (EAGAIN), the
\* end of the stream, or a full buffer.  free_connection, and in worker_loop an
\* EPOLL_CTL_DEL of descriptor -1, which fails, and free_connection again.
ReadNothing ==
    /\ ClientEvent
    /\ Peer # None => Received = <<>>
    /\ FreeSlot(Slot)
    /\ NextEvent
    /\ UNCHANGED <<clientVars, kernelVars, buf, age, tries, accepted, due>>

TakePieces ==
    /\ ClientEvent /\ Peer # None
    /\ Received # <<>>
    /\ rx' = [rx EXCEPT ![Peer] = SubSeq(@, Len(Received) + 1, Len(@))]
    /\ age' = [age EXCEPT ![Slot] = 0]

ReadPart ==
    /\ TakePieces
    /\ ~Contains(Received, "end")
    /\ buf' = [buf EXCEPT ![Slot] = @ + Len(Received)]
    /\ NextEvent
    /\ UNCHANGED <<conn, fin, hup, sent, answered, kernelVars, fd, tries, accepted, due>>

\* The request is complete; handle_http_request will read the socket itself.
ReadRequest ==
    /\ TakePieces
    /\ Contains(Received, "end")
    /\ pc' = "handle"
    /\ UNCHANGED <<conn, fin, hup, sent, answered, kernelVars, fd, buf, batch, index,
                   tries, accepted, due>>

\* close: the connection, its registration and what epoll has ready are gone.
CloseDescriptor(f) ==
    /\ conn' = [conn EXCEPT ![owner[f]] = "closed"]
    /\ reg' = [reg EXCEPT ![owner[f]] = None]
    /\ ready' = SelectSeq(ready, LAMBDA item : item # owner[f])
    /\ rx' = [rx EXCEPT ![owner[f]] = <<>>]
    /\ owner' = [owner EXCEPT ![f] = None]

\* handle_http_request receives from the socket itself, once more.
ReceivesMore == rx[Peer] # <<>>

\* Back in handle_http_request_optimized: the slot is kept for the next request
\* or, after "Connection: close", freed.
KeepOrFree(keep_alive) ==
    IF keep_alive THEN buf' = [buf EXCEPT ![Slot] = 0] /\ UNCHANGED fd
    ELSE FreeSlot(Slot) /\ UNCHANGED buf

\* What it received is answered if it was a request; the socket is closed.
Handle ==
    /\ pc = "handle"
    /\ \/ ReceivesMore /\ answered' = [answered EXCEPT ![Peer] = TRUE]
       \/ UNCHANGED answered   \* nothing there, or no request line in it
    /\ CloseDescriptor(fd[Slot])
    /\ \E keep_alive \in BOOLEAN : KeepOrFree(keep_alive)
    /\ NextEvent
    /\ UNCHANGED <<fin, hup, sent, backlog, age, tries, accepted, due>>

\* A write to a client that is gone raises SIGPIPE, which nobody ignores, and the
\* memory pool may abort (see Mempool): the worker ends, and no other is forked.
\* What the kernel closes then is not followed any more.
Dies ==
    /\ pc = "handle" /\ ReceivesMore
    /\ pc' = "dead"
    /\ UNCHANGED <<clientVars, kernelVars, slotVars, batch, index, tries, accepted, due>>

------------------------------------------------------------------------------
\* Mutant: the cleanup takes slots without a descriptor for idle ones.
IdleUnused == {s \in Slots : fd[s] = None /\ age[s] = IdleLimit}

\* The slots that have been idle for too long.
Idle == {s \in Slots : fd[s] # None /\ age[s] = IdleLimit}

\* The end of a round: every 30 s the idle slots are freed.
Tidy ==
    /\ pc = "tidy"
    /\ pc' = "wait"
    /\ due' = FALSE
    /\ fd' = [s \in Slots |-> IF due /\ s \in Idle THEN None ELSE fd[s]]
    /\ UNCHANGED <<clientVars, kernelVars, buf, age, batch, index, tries, accepted>>

WorkerStep ==
    \/ Wait \/ Hangup \/ Tidy
    \/ StartAccepting \/ StopAccepting \/ AcceptFails \/ AcceptRefuses \/ Accept
    \/ ReadNothing \/ ReadPart \/ ReadRequest \/ Handle

Next == WorkerStep \/ Dies \/ Tick \/ \E c \in Clients : ClientStep(c)

Spec == Init /\ [][Next]_vars

\* The worker runs and time passes; clients do as they like.
FairSpec == Spec /\ WF_vars(WorkerStep) /\ WF_vars(Tick)

------------------------------------------------------------------------------
(* Properties.                                                             *)

\* A round of accepts ends at one of its bounds with clients left in the backlog,
\* and epoll has no news of the listening socket: they wait for another to come.
Stranding ==
    /\ pc = "accept" /\ backlog # <<>> /\ ~Contains(ready, Listen)
    /\ tries >= MaxAccept \/ accepted >= MaxEvents - index

\* A client in the backlog is accepted or refused in the end, whatever arrives
\* while the worker is accepting or handling others (edge-triggered listening),
\* in a run where no round of accepts strands clients, no accept fails for want
\* of a descriptor and the worker lives.
BacklogServed ==
    []~Stranding /\ []~(pc = "accept" /\ backlog # <<>> /\ FreeFDs = {}) /\ []~(pc = "dead")
        => \A c \in Clients : conn[c] = "backlog" ~> conn[c] # "backlog"

\* Every slot is free again and again as long as the worker lives: what a
\* keep-alive connection, a lost event or a vanished client leaves behind is
\* found by the idle cleanup.
SlotsRecycled == \A s \in Slots : []<>(fd[s] = None \/ pc = "dead")

\* A client whose whole request has arrived gets an answer, as long as the
\* worker lives.
RequestsAnswered == \A c \in Clients : Contains(rx[c], "end") ~> answered[c] \/ pc = "dead"
=============================================================================
