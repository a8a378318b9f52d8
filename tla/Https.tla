-------------------------------- MODULE Https --------------------------------
(***************************************************************************)
(* handle_https_request of src/src/http/https.c with what it calls to find *)
(* its route, src/src/core/core.c, and to relay to a backend named in the  *)
(* configuration, src/src/proxy/proxy.c.                                   *)
(*                                                                         *)
(* A worker handles one request at a time.  Files change under it: what    *)
(* stat said of a file and what a read returns later may differ.  The      *)
(* response cache is the set of paths that are stored; Cache has the rest. *)
(* The client's socket never waits and nobody but the relay looks at what  *)
(* SSL_write returns: what is written may arrive, in part or not at all.   *)
(* Nobody ignores SIGPIPE either, so that writing to a client that is gone *)
(* may end the process: the behaviour then stops, after any step.          *)
(***************************************************************************)
EXTENDS Integers, SequencesExt, FiniteSetsExt

CONSTANTS ServerBlocks,  \* the sequences of server blocks a configuration may have
          Hosts, Uris,   \* uris and paths are sequences, of which prefixes matter
          Port,
          NotFoundPage,  \* the file 404.html, one of the uris
          FileSizes,         \* of a file; 0 means that there is none
          MinLength,     \* from which on a file is compressed
          MaxRequests, MaxFileChanges

Location == [path : Seq(STRING), proxy : BOOLEAN]
ServerBlock == [port : Nat, name : STRING, locations : Seq(Location)]

ASSUME HttpsAssumption ==
  /\ FileSizes \subseteq Nat /\ 0 \in FileSizes
  /\ MinLength \in Nat /\ MaxRequests \in Nat /\ MaxFileChanges \in Nat
  /\ NotFoundPage \in Uris
  /\ ServerBlocks \subseteq Seq(ServerBlock)

VARIABLES
  config,   \* [servers, cache, compress], as read at the start
  files,    \* the size of the file behind a uri
  cached,   \* the uris in the response cache
  req,      \* the request and what the handler knows of it
  held,     \* what it has still to release
  out,      \* what has reached the client, at least in part: heads and bodies
  logged,   \* the statuses in the access log for this request
  requests, fileChanges

httpsVars == <<config, files, cached, req, held, out, logged, requests, fileChanges>>
world == <<config, files, cached, requests, fileChanges>>

Idle == [pc |-> "idle"]
Raw(n) == <<"raw", n>>
Gzip(n) == <<"gzip", n>>
Unknown == <<"unknown", 0>>   \* file_stat was never filled in: not the file's size
HeadOf(status, length) == [kind |-> "head", status |-> status, length |-> length, whole |-> TRUE]
BodyOf(length) == [kind |-> "body", length |-> length, whole |-> TRUE]
Short(part) == [part EXCEPT !.whole = FALSE]
Arrives(part) == {<<>>, <<part>>, <<Short(part)>>}
Enter(pc) == req' = [req EXCEPT !.pc = pc]
Write(part) == \E got \in Arrives(part) : out' = out \o got

HttpsInit ==
  /\ config \in [servers : ServerBlocks, cache : BOOLEAN, compress : BOOLEAN]
  /\ files \in [Uris -> {0, 1}]
  /\ cached = {}
  /\ req = Idle /\ held = {} /\ out = <<>> /\ logged = <<>>
  /\ requests = 0 /\ fileChanges = 0

-----------------------------------------------------------------------------
\* find_route: the first server block that listens on the port and has the
\* name, else the first that listens on it, else the first of all; of its
\* locations the one with the longest path that is a prefix of the uri.

Listening(servers) == {i \in DOMAIN servers : servers[i].port = Port}
Named(servers, host) == {i \in Listening(servers) : servers[i].name = host}

ServerFor(servers, host) ==
  IF Named(servers, host) # {} THEN Min(Named(servers, host))
  ELSE IF Listening(servers) # {} THEN Min(Listening(servers)) ELSE 1

\* Mutant: a path of the same length takes the place of the first one
LocationForLast(locations, uri) ==
  FoldLeft(LAMBDA best, l :
             IF IsPrefix(l.path, uri) /\ (best = <<>> \/ Len(l.path) >= Len(best[1].path))
             THEN <<l>> ELSE best, <<>>, locations)

\* <<>> or the location; a path of length 0 is never better than none
LocationFor(locations, uri) ==
  FoldLeft(LAMBDA best, l :
             IF /\ IsPrefix(l.path, uri)
                /\ Len(l.path) > (IF best = <<>> THEN 0 ELSE Len(best[1].path))
             THEN <<l>> ELSE best, <<>>, locations)

find_route(servers, host, uri) == LocationFor(servers[ServerFor(servers, host)].locations, uri)

-----------------------------------------------------------------------------
\* A request is read.  The string copies that are made of its headers and the
\* log entry are released together, and so is the connection.
Copies == {"strings", "entry", "ssl"}

RequestArrives(host, uri, get, gzip) ==
  /\ req = Idle /\ requests < MaxRequests
  /\ requests' = requests + 1
  /\ req' = [pc |-> "route", host |-> host, uri |-> uri, get |-> get, gzip |-> gzip,
             status |-> 200, file |-> uri, length |-> Raw(0), size |-> Raw(0), fresh |-> TRUE]
  /\ held' = Copies /\ out' = <<>> /\ logged' = <<>>
  /\ UNCHANGED <<config, files, cached, fileChanges>>

\* SSL_read returns nothing: no log entry is made
ReadFails ==
  /\ req = Idle /\ requests < MaxRequests
  /\ requests' = requests + 1
  /\ out' = <<>> /\ logged' = <<>>
  /\ UNCHANGED <<config, files, cached, fileChanges, req, held>>

\* Without a method or a path the request is logged and not answered
BadRequest ==
  /\ req = Idle /\ requests < MaxRequests
  /\ requests' = requests + 1
  /\ out' = <<>> /\ logged' = <<400>>
  /\ UNCHANGED <<config, files, cached, fileChanges, req, held>>

Log(status) == logged' = Append(logged, status)
Release(things) == held' = held \ things

NoServerBlock ==
  /\ req.pc = "route" /\ config.servers = <<>>
  /\ Write(HeadOf(500, Raw(0)))
  /\ Log(500) /\ Release(Copies)
  /\ Enter("end")
  /\ UNCHANGED world

Route ==
  /\ req.pc = "route" /\ config.servers # <<>>
  /\ LET location == find_route(config.servers, req.host, req.uri) IN
     Enter(IF location # <<>> /\ location[1].proxy THEN "proxy" ELSE "stat")
  /\ UNCHANGED <<world, held, out, logged>>

-----------------------------------------------------------------------------
\* handle_https_proxy_request, one read of the backend at a time.  The upstream
\* groups' handle_lb_https_proxy_request, see LoadBalancer, writes the same.

ProxyConnects ==
  /\ req.pc = "proxy"
  /\ held' = held \cup {"backend", "proxy_request"}
  /\ Enter("relay head")
  /\ UNCHANGED <<world, out, logged>>

\* The url, the name, connect or send fails
ProxyFails ==
  /\ req.pc = "proxy"
  /\ Enter("bad gateway")
  /\ UNCHANGED <<world, held, out, logged>>

Theirs == 0   \* the status, whichever it is, of a backend's answer
BackendHead == HeadOf(Theirs, Unknown)
BackendBody == BodyOf(Unknown)

\* A read brings the end of the headers.  What else it brings is the first part
\* of the body.
HeadRelayed ==
  /\ req.pc = "relay head"
  /\ out' = Append(out, BackendHead)
  /\ Enter("relay body")
  /\ UNCHANGED <<world, held, logged>>

\* No single read has brought it when a read brings nothing or fails: what was
\* read is dropped and the loop over the body reads again
HeadMissed ==
  /\ req.pc = "relay head"
  /\ Enter("relay body")
  /\ UNCHANGED <<world, held, out, logged>>

\* All parts of the body count as one
BodyRelayed ==
  /\ req.pc = "relay body" /\ \A i \in DOMAIN out : out[i].kind # "body"
  /\ out' = Append(out, BackendBody)
  /\ UNCHANGED <<world, req, held, logged>>

\* The backend has closed
Relayed ==
  /\ req.pc = "relay body"
  /\ Release({"backend", "proxy_request"})
  /\ Enter("relayed")
  /\ UNCHANGED <<world, out, logged>>

\* A write that fails may have got a part through
Interrupted == {<<>>, <<Short(IF req.pc = "relay head" THEN BackendHead ELSE BackendBody)>>}

\* Mutant: the request to the backend is freed, its descriptor stays open
RelayBreaksOpen ==
  /\ req.pc \in {"relay head", "relay body"}
  /\ \E got \in Interrupted : out' = out \o got
  /\ Release({"proxy_request"})
  /\ Enter("bad gateway")
  /\ UNCHANGED <<world, logged>>

\* A write fails, or a read of the body; or a body of 2^31 bytes has turned the
\* count that is returned negative
RelayBreaks ==
  /\ req.pc \in {"relay head", "relay body"}
  /\ \E got \in Interrupted : out' = out \o got
  /\ Release({"backend", "proxy_request"})
  /\ Enter("bad gateway")
  /\ UNCHANGED <<world, logged>>

ProxyLogged ==
  /\ req.pc = "relayed"
  /\ Log(200) /\ Release(Copies)
  /\ Enter("end")
  /\ UNCHANGED <<world, out>>

\* The 502 is written whatever has been relayed, its body of 11 bytes with it
BadGateway ==
  /\ req.pc = "bad gateway"
  /\ Log(502) /\ Release(Copies)
  /\ Write(HeadOf(502, Raw(15)))
  /\ Enter("end")
  /\ UNCHANGED world

-----------------------------------------------------------------------------
\* A file.  For "/" the handler tries the index files; the uri stands for the
\* one it settles on.  The copy of the Accept-Encoding header is never freed.

Stat ==
  /\ req.pc = "stat"
  /\ LET found == files[req.uri] > 0
         file == IF found THEN req.uri ELSE NotFoundPage
         size == IF files[file] > 0 THEN Raw(files[file]) ELSE Unknown
     IN req' = [req EXCEPT !.pc = "open", !.status = IF found THEN 200 ELSE 404,
                           !.file = file, !.size = size, !.length = size, !.fresh = TRUE]
  /\ held' = IF req.gzip THEN held \cup {"accept_encoding"} ELSE held
  /\ UNCHANGED <<world, out, logged>>

\* open may fail for other reasons than that the file is gone
Open ==
  /\ req.pc = "open"
  /\ \/ files[req.file] > 0 /\ held' = held \cup {"file_fd"}
     \/ UNCHANGED held
  /\ Enter("compress")
  /\ UNCHANGED <<world, out, logged>>

\* Mutant: the length the head announces stays that of the file
CompressUnannounced ==
  /\ req.pc = "compress"
  /\ config.compress /\ req.gzip /\ "file_fd" \in held
  /\ req.size = Unknown \/ req.size[2] >= MinLength
  /\ \/ held' = held \cup {"context", "compressed_data"}
     \/ held' = held \cup {"context"}
  /\ Enter("cache")
  /\ UNCHANGED <<world, out, logged>>

\* As many bytes as stat said are read and deflated in one call, also of a file
\* that has grown; of one that has shrunk there are too few.  The context that is
\* made for it is never freed.
Compress ==
  /\ req.pc = "compress"
  /\ config.compress /\ req.gzip /\ "file_fd" \in held
  /\ req.size = Unknown \/ req.size[2] >= MinLength
  /\ \/ /\ held' = held \cup {"context", "compressed_data"}
        /\ req' = [req EXCEPT !.pc = "cache", !.length = Gzip(req.size[2])]
     \/ /\ held' = held \cup {"context"}
        /\ Enter("cache")
  /\ UNCHANGED <<world, out, logged>>

\* Not wanted, or there is no memory for the context
NotCompressed ==
  /\ req.pc = "compress"
  /\ Enter("cache")
  /\ UNCHANGED <<world, held, out, logged>>

\* A cached answer releases neither the file nor the compressed copy of it
CachedAnswers ==
  {<<304, head>> : head \in Arrives(HeadOf(304, Raw(0)))} \cup
  {<<200, head \o body>> : head \in Arrives(HeadOf(200, Gzip(1))), body \in Arrives(BodyOf(Gzip(1)))}

CacheLookup ==
  /\ req.pc = "cache"
  /\ IF config.cache /\ req.get /\ req.uri \in cached
     THEN /\ \E answer \in CachedAnswers : out' = out \o answer[2] /\ Log(answer[1])
          /\ Release(Copies)
          /\ Enter("end")
     ELSE Enter("head") /\ UNCHANGED <<held, out, logged>>
  /\ UNCHANGED world

SendHead ==
  /\ req.pc = "head"
  /\ Write(HeadOf(req.status, req.length))
  /\ Enter("body")
  /\ UNCHANGED <<world, held, logged>>

\* Of a file that has changed there may be any number of bytes to read: one that
\* was taken away is still there for who has it open
Readable == IF req.fresh THEN {files[req.file]} ELSE FileSizes

\* Without the file, which the head has already promised, a body of its own
\* goes out; the file is closed before its content is wanted for the cache
SendBody ==
  /\ req.pc = "body"
  /\ IF "file_fd" \in held
     THEN /\ \E size \in Readable :
               Write(BodyOf(IF "compressed_data" \in held THEN Gzip(req.size[2]) ELSE Raw(size)))
          /\ Enter("store")
     ELSE /\ Write(BodyOf(Raw(21)))
          /\ req' = [req EXCEPT !.pc = "store", !.status = 500]
  /\ Release({"compressed_data", "file_fd"})
  /\ UNCHANGED <<world, logged>>

\* The content is read again, from file_fd, and stored if the read succeeds
StoreInCache ==
  /\ req.pc = "store"
  /\ cached' = IF config.cache /\ req.get /\ req.status = 200 /\ "file_fd" \in held
               THEN cached \cup {req.uri} ELSE cached
  /\ Log(req.status) /\ Release(Copies)
  /\ Enter("end")
  /\ UNCHANGED <<config, files, requests, fileChanges, out>>

RequestEnds ==
  /\ req.pc = "end"
  /\ req' = Idle /\ held' = {} /\ out' = <<>> /\ logged' = <<>>
  /\ UNCHANGED world

-----------------------------------------------------------------------------
\* Somebody writes a file, or takes it away
FileChanges(uri, size) ==
  /\ fileChanges < MaxFileChanges /\ files[uri] # size
  /\ fileChanges' = fileChanges + 1
  /\ files' = [files EXCEPT ![uri] = size]
  /\ req' = IF req # Idle /\ req.file = uri THEN [req EXCEPT !.fresh = FALSE] ELSE req
  /\ UNCHANGED <<config, cached, held, out, logged, requests>>

HttpsNext ==
  \/ \E host \in Hosts, uri \in Uris, get, gzip \in BOOLEAN : RequestArrives(host, uri, get, gzip)
  \/ ReadFails \/ BadRequest \/ NoServerBlock \/ Route
  \/ ProxyConnects \/ ProxyFails \/ HeadRelayed \/ HeadMissed \/ BodyRelayed \/ Relayed
  \/ RelayBreaks \/ ProxyLogged \/ BadGateway
  \/ Stat \/ Open \/ Compress \/ NotCompressed \/ CacheLookup \/ SendHead \/ SendBody
  \/ StoreInCache \/ RequestEnds
  \/ \E uri \in Uris, size \in FileSizes : FileChanges(uri, size)

HttpsSpec == HttpsInit /\ [][HttpsNext]_httpsVars

-----------------------------------------------------------------------------
\* The location is one of the server block's that serves the host; its path is
\* the longest that the uri begins with, and of locations with that path it is
\* the first.  Without one, no path that is not empty matches.
RoutedBest ==
  req.pc = "route" /\ config.servers # <<>> =>
    LET locations == config.servers[ServerFor(config.servers, req.host)].locations
        matches == {i \in DOMAIN locations : /\ locations[i].path # <<>>
                                            /\ IsPrefix(locations[i].path, req.uri)}
        best == find_route(config.servers, req.host, req.uri)
    IN IF best = <<>> THEN matches = {}
       ELSE \E i \in matches :
              /\ best = <<locations[i]>>
              /\ \A j \in matches :
                   \/ Len(locations[j].path) < Len(locations[i].path)
                   \/ Len(locations[j].path) = Len(locations[i].path) /\ i <= j

\* The places of the heads in what the client got
Heads == {i \in DOMAIN out : out[i].kind = "head"}

\* However a request ends and whatever the client's socket refuses, it is logged
\* once and everything it held has been released but the compression context and
\* the copy of a header; in particular no request ends with its file open, because
\* none is answered from the cache.  A client gets no second head but the 502 after
\* a backend's, when a relay breaks.  The status of a head is the one that is
\* logged, but for a backend's and for one that has promised a file which could
\* not be opened.
RequestSettled ==
  req.pc = "end" =>
    /\ Len(logged) = 1
    /\ held \subseteq {"context", "accept_encoding"}
    /\ \A i, j \in Heads : i < j => out[i].status = Theirs /\ out[j].status = 502
    /\ \A i \in Heads :
         IF out[i].status = Theirs THEN logged[1] \in {200, 502}
         ELSE logged[1] \in {out[i].status, 500}

\* What is written as the body of a file has the length its head announced, as
\* long as the file is what it was when the handler looked at it, and if it is
\* compressed even when it has changed since.  As much or less arrives of it.
LengthHonest ==
  req.pc = "store" /\ req.status # 500 =>
    \A head \in Heads, body \in DOMAIN out \ Heads :
      \/ out[head].length = out[body].length
      \/ ~req.fresh /\ out[body].length[1] = "raw"
=============================================================================
