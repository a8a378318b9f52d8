--------------------------- MODULE Requests_proofs ---------------------------
(***************************************************************************)
(* Theorems of what a request goes through: Bandwidth, for every rate,     *)
(* burst, chunk and sleep; Https, for every configuration, set of uris and *)
(* number of requests and of changes of the files; UpstreamGroup, for      *)
(* every configuration, weight and sequence of changes; and Mempool, for   *)
(* any number of requests, types, blocks and slots.  The invariants are    *)
(* SendInv, HttpsInv, GroupInv and CountInv.                               *)
(***************************************************************************)
EXTENDS Bandwidth, UpstreamGroup, Https, Mempool, Collections, SequenceTheorems

------------------------------------------------------------------------------
(***************************************************************************)
(* Bandwidth: what the bucket grants and how far the sender runs ahead     *)
(***************************************************************************)

\* The bytes that may still be sent without another acquire.
Pending == IF pc = "send" THEN ToSend ELSE 0

\* OverrunBounded made inductive: a chunk under way counts as sent, and while
\* the sender sleeps the sleep that will pay for the next chunk is still owed.
Paid ==
    /\ MinSleep * (sent + Pending - charged) <= Chunk * now
    /\ pc = "sleep" => MinSleep * (sent - charged) <= Chunk * (until - MinSleep)

SendInv == TypeOK /\ ChargedWithinRate /\ Paid

\* Division rounds towards zero and never up.
LEMMA Quotient ==
    ASSUME NEW a \in Nat, NEW b \in Nat \ {0}
    PROVE  a \div b \in Nat /\ b * (a \div b) <= a
BY Z3

\* Products of naturals, and their order.
LEMMA Product ==
    /\ \A a, b \in Nat : a * b \in Nat
    /\ \A a \in Nat : \A b, c \in Int : b <= c => a * b <= a * c
    /\ \A a, b, c \in Int : a * (b + c) = a * b + a * c
BY Z3

\* What a refill adds is paid for by the time since the last one.
LEMMA RefillPaid ==
    ASSUME TypeOK, ChargedWithinRate
    PROVE  /\ Refilled \in 0 .. Burst
           /\ Usec * (charged + Refilled) <= Usec * Burst + Rate * now
<1> DEFINE d == now - last
           new == (Rate * d) \div Usec
<1>1. d \in Nat /\ last \in Nat /\ now \in Nat /\ now = last + d
  BY DEF TypeOK
<1>2. Rate * d \in Nat
  BY <1>1, Product, BandwidthAssumption
<1>3. new \in Nat /\ Usec * new <= Rate * d
  BY <1>2, Quotient, BandwidthAssumption
<1>4. Refilled \in 0 .. Burst /\ Refilled <= tokens + new
  <2> HIDE DEF new
  <2>1. Refilled = Lesser(Burst, tokens + new)
    BY DEF Refilled, new
  <2>2. QED
    BY <2>1, <1>3, BandwidthAssumption DEF Lesser, TypeOK
<1>5. Usec * (charged + Refilled) <= Usec * (charged + tokens) + Usec * new
  <2> HIDE DEF new
  <2>1. charged + Refilled <= (charged + tokens) + new
    BY <1>3, <1>4 DEF TypeOK
  <2>2. charged \in Nat /\ tokens \in Nat /\ Refilled \in Nat /\ Usec \in Nat
    BY <1>4, BandwidthAssumption DEF TypeOK
  <2>3. Usec * (charged + Refilled) <= Usec * ((charged + tokens) + new)
    BY <2>1, <2>2, <1>3, Product
  <2>4. QED
    BY <2>2, <2>3, <1>3, Product
<1>6. Rate * now = Rate * last + Rate * d
  BY <1>1, Product, BandwidthAssumption
<1>7. QED
  <2> HIDE DEF new, d
  <2>1. /\ Usec * (charged + tokens) \in Int /\ Usec * (charged + Refilled) \in Int
        /\ Usec * new \in Int /\ Rate * d \in Int /\ Rate * last \in Int /\ Usec * Burst \in Int
    BY <1>1, <1>2, <1>3, <1>4, Product, BandwidthAssumption DEF TypeOK
  <2>2. QED
    BY <2>1, <1>3, <1>4, <1>5, <1>6 DEF ChargedWithinRate

\* acquire asks for a wait of at least MIN_SLEEP_USEC.
LEMMA WaitLongEnough ==
    ASSUME NEW needed \in Nat
    PROVE  WaitFor(needed) \in Nat /\ MinSleep <= WaitFor(needed)
<1>1. needed * Usec \in Nat /\ Rate \in Nat \ {0}
  BY Product, BandwidthAssumption
<1> DEFINE w == (needed * Usec) \div Rate
<1>2. w \in Nat
  BY <1>1, Quotient
<1> HIDE DEF w
<1>3. WaitFor(needed) = Lesser(MaxSleep, Greater(MinSleep, w))
  BY DEF WaitFor, w
<1>4. QED
  BY <1>2, <1>3, BandwidthAssumption DEF Lesser, Greater

\* A chunk is between one byte and chunk_size while there is something left.
LEMMA ChunkSize ==
    ASSUME TypeOK
    PROVE  ToSend \in Nat /\ ToSend <= Chunk
BY BandwidthAssumption DEF TypeOK, ToSend, Lesser

\* The initial state satisfies the inductive invariant.
LEMMA SendInitInv == Init => SendInv
<1> SUFFICES ASSUME Init PROVE SendInv
  OBVIOUS
<1>1. TypeOK
  BY BandwidthAssumption DEF Init, TypeOK
<1>2. ChargedWithinRate
  BY Product, BandwidthAssumption DEF Init, ChargedWithinRate
<1>3. Paid
  BY Product, BandwidthAssumption DEF Init, Paid, Pending
<1>4. QED
  BY <1>1, <1>2, <1>3 DEF SendInv

\* A granted acquire keeps the bucket's part of the invariant.
LEMMA GrantStep ==
    ASSUME TypeOK, ChargedWithinRate, NEW bytes \in Nat, Grant(bytes)
    PROVE  /\ tokens' \in 0 .. Burst /\ charged' \in Nat /\ last' = now
           /\ charged' = charged + bytes
           /\ Usec * (charged' + tokens') <= Usec * Burst + Rate * last'
<1>1. charged' + tokens' = charged + Refilled
  BY RefillPaid DEF Grant, TypeOK
<1>2. tokens' \in 0 .. Burst /\ charged' \in Nat /\ last' = now
  BY RefillPaid, BandwidthAssumption DEF Grant, TypeOK
<1>3. QED
  BY <1>1, <1>2, RefillPaid DEF Grant

\* So does one that is not granted.
LEMMA DenyStep ==
    ASSUME TypeOK, ChargedWithinRate, NEW bytes \in Nat, Deny(bytes)
    PROVE  /\ tokens' \in 0 .. Burst /\ charged' = charged /\ last' = now
           /\ bytes - Refilled \in Nat
           /\ Usec * (charged' + tokens') <= Usec * Burst + Rate * last'
BY RefillPaid DEF Deny

\* Every step keeps the types; the bucket never goes below zero or above Burst.
LEMMA TypeStep == TypeOK /\ ChargedWithinRate /\ [Next]_vars => TypeOK'
<1> SUFFICES ASSUME TypeOK, ChargedWithinRate, [Next]_vars PROVE TypeOK'
  OBVIOUS
<1> USE BandwidthAssumption DEF TypeOK
<1>1. CASE Call
  BY <1>1 DEF Call, Goto, bucketVars
<1>2. CASE Acquire
  BY <1>2, GrantStep, ChunkSize DEF Acquire, Goto, boundVars
<1>3. CASE AcquireDenied
  <2>1. UNCHANGED <<now, sent, left, boundVars>> /\ pc' = "sleep" /\ Deny(ToSend)
    BY <1>3 DEF AcquireDenied, Goto
  <2>2. tokens' \in 0 .. Burst /\ charged' = charged /\ last' = now
    BY <2>1, DenyStep, ChunkSize
  <2>3. ToSend - Refilled \in Nat
    BY <2>1, DenyStep, ChunkSize
  <2>4. until' \in Nat
    BY <1>3, <2>3, WaitLongEnough DEF AcquireDenied
  <2>5. QED
    BY <2>1, <2>2, <2>4 DEF boundVars
<1>4. CASE Again
  BY <1>4, GrantStep, DenyStep, ChunkSize DEF Again, Goto, boundVars
<1>5. CASE SendSome
  BY <1>5 DEF SendSome, ToSend, Lesser, bucketVars, boundVars
<1>6. CASE SendBlocks
  BY <1>6 DEF SendBlocks, Goto, bucketVars
<1>7. CASE Resume
  BY <1>7 DEF Resume, Goto, bucketVars, boundVars
<1>8. CASE SendFails
  BY <1>8 DEF SendFails, Goto, bucketVars, boundVars
<1>9. CASE Pass
  BY <1>9 DEF Pass, bucketVars
<1>10. CASE UNCHANGED vars
  BY <1>10 DEF vars, bucketVars, boundVars
<1>11. QED
  BY <1>1, <1>2, <1>3, <1>4, <1>5, <1>6, <1>7, <1>8, <1>9, <1>10 DEF Next, Sender

\* Every step keeps what is granted within the rate: only acquire touches it.
LEMMA ChargedStep == TypeOK /\ ChargedWithinRate /\ [Next]_vars => ChargedWithinRate'
<1> SUFFICES ASSUME TypeOK, ChargedWithinRate, [Next]_vars PROVE ChargedWithinRate'
  OBVIOUS
<1>1. CASE Grant(ToSend)
  BY <1>1, GrantStep, ChunkSize DEF ChargedWithinRate
<1>2. CASE Deny(ToSend)
  BY <1>2, DenyStep, ChunkSize DEF ChargedWithinRate
<1>3. CASE UNCHANGED bucketVars
  BY <1>3 DEF bucketVars, ChargedWithinRate
<1>4. QED
  BY <1>1, <1>2, <1>3 DEF Next, Sender, Call, Acquire, AcquireDenied, Again, SendSome,
     SendBlocks, Resume, SendFails, Pass, vars

\* The overrun grows no further when less, or nothing more, has been sent.
LEMMA NoMoreOverrun ==
    ASSUME NEW a \in Int, NEW b \in Int, a <= b, MinSleep * b <= Chunk * now,
           NEW later \in Nat, TypeOK, now <= later
    PROVE  MinSleep * a <= Chunk * later
<1>1. MinSleep * a <= MinSleep * b /\ Chunk * now <= Chunk * later
  BY Product, BandwidthAssumption DEF TypeOK
<1>2. /\ MinSleep * a \in Int /\ MinSleep * b \in Int
      /\ Chunk * now \in Int /\ Chunk * later \in Int
  BY BandwidthAssumption DEF TypeOK
<1>3. QED
  BY <1>1, <1>2

\* A chunk that is sent without its tokens is paid for by the sleep before it.
LEMMA SleepPays ==
    ASSUME TypeOK, Paid, Again
    PROVE  MinSleep * (sent + ToSend - charged) <= Chunk * now
<1>1. ToSend \in Nat /\ ToSend <= Chunk
  BY ChunkSize
<1>2. MinSleep * (sent - charged) <= Chunk * (until - MinSleep) /\ until <= now
  BY DEF Again, Goto, Paid, TypeOK
<1>3. sent + ToSend - charged = (sent - charged) + ToSend
  BY <1>1 DEF TypeOK
<1>4. MinSleep * (sent + ToSend - charged) = MinSleep * (sent - charged) + MinSleep * ToSend
  BY <1>1, <1>3, Product, BandwidthAssumption DEF TypeOK
<1>5. MinSleep * ToSend <= MinSleep * Chunk
  BY <1>1, Product, BandwidthAssumption
<1>6. Chunk * now >= Chunk * (until - MinSleep) + MinSleep * Chunk
  <2>1. Chunk * until = Chunk * (until - MinSleep) + Chunk * MinSleep
    BY Product, BandwidthAssumption DEF TypeOK
  <2>2. Chunk * until <= Chunk * now
    BY <1>2, Product, BandwidthAssumption DEF TypeOK
  <2>3. Chunk * MinSleep = MinSleep * Chunk
    BY BandwidthAssumption
  <2>4. /\ Chunk * until \in Int /\ Chunk * now \in Int
        /\ Chunk * (until - MinSleep) \in Int /\ MinSleep * Chunk \in Int
    BY BandwidthAssumption DEF TypeOK
  <2>5. QED
    BY <2>1, <2>2, <2>3, <2>4
<1>7. /\ MinSleep * (sent - charged) \in Int /\ MinSleep * ToSend \in Int
      /\ Chunk * now \in Int /\ Chunk * (until - MinSleep) \in Int /\ MinSleep * Chunk \in Int
  BY <1>1, BandwidthAssumption DEF TypeOK
<1>8. QED
  BY <1>2, <1>4, <1>5, <1>6, <1>7

\* Every step keeps the overrun paid for by sleeps.
LEMMA PaidStep == TypeOK /\ TypeOK' /\ ChargedWithinRate /\ Paid /\ [Next]_vars => Paid'
<1> SUFFICES ASSUME TypeOK, TypeOK', ChargedWithinRate, Paid, [Next]_vars PROVE Paid'
  OBVIOUS
<1> DEFINE over == sent + Pending - charged
<1>1. ToSend \in Nat /\ Pending \in Nat /\ over \in Int /\ MinSleep * over <= Chunk * now
  BY ChunkSize DEF Paid, Pending, TypeOK
<1>2. Pending' \in Nat /\ now \in Nat /\ now' \in Nat /\ now <= now'
  <2>1. ToSend' \in Nat
    BY BandwidthAssumption DEF ToSend, Lesser, TypeOK
  <2>2. now <= now'
    BY DEF TypeOK, Next, Sender, Call, Acquire, AcquireDenied, Again, SendSome, SendBlocks,
       Resume, SendFails, Pass, vars
  <2>3. QED
    BY <2>1, <2>2 DEF Pending, TypeOK
<1>3. ASSUME over' <= over PROVE MinSleep * over' <= Chunk * now'
  <2>1. over' \in Int
    BY <1>2 DEF TypeOK
  <2> HIDE DEF over
  <2>2. QED
    BY <1>1, <1>2, <1>3, <2>1, NoMoreOverrun
<1>4. CASE AcquireDenied
  <2>1. over' = over /\ pc' = "sleep" /\ UNCHANGED <<sent, charged, now>> /\ over = sent - charged
    BY <1>4, ChunkSize DEF AcquireDenied, Goto, Pending, Deny, TypeOK
  <2>2. now <= until' - MinSleep /\ until' - MinSleep \in Nat
    <3>1. ToSend - Refilled \in Nat
      BY <1>4, <1>1, DenyStep DEF AcquireDenied
    <3>2. QED
      BY <1>4, <3>1, WaitLongEnough, BandwidthAssumption DEF AcquireDenied, TypeOK
  <2>3. MinSleep * (sent - charged) <= Chunk * (until' - MinSleep)
    BY <1>1, <2>1, <2>2, NoMoreOverrun DEF TypeOK
  <2>4. QED
    BY <1>3, <2>1, <2>3, <1>1 DEF Paid
<1>5. CASE Again
  <2>1. pc' = "send" /\ sent' = sent /\ now' = now /\ ToSend' = ToSend
    BY <1>5 DEF Again, Goto, ToSend
  <2>2. CASE Deny(ToSend)
    BY <2>1, <2>2, <1>5, SleepPays DEF Deny, Paid, Pending
  <2>3. CASE Grant(ToSend)
    <3>1. over' = over
      BY <1>1, <1>5, <2>1, <2>3 DEF Grant, Pending, Again, Goto, TypeOK
    <3>2. QED
      BY <1>1, <1>3, <2>1, <3>1 DEF Paid
  <2>4. QED
    BY <1>5, <2>2, <2>3 DEF Again
<1>6. ASSUME over' <= over, pc' = "sleep" => UNCHANGED <<sent, charged, until, pc>> PROVE Paid'
  BY <1>3, <1>6 DEF Paid
<1>7. CASE Acquire
  <2>1. pc = "acquire" /\ pc' = "send" /\ sent' = sent /\ ToSend' = ToSend /\ charged' = charged + ToSend
    BY <1>7 DEF Acquire, Goto, ToSend, Grant
  <2>2. over' = over
    BY <1>1, <2>1 DEF Pending, TypeOK
  <2>3. QED
    BY <1>1, <1>6, <2>1, <2>2
<1>8. CASE SendSome
  <2>1. pc = "send" /\ pc' \in {"idle", "acquire"} /\ charged' = charged
    BY <1>8 DEF SendSome, bucketVars
  <2>2. PICK n \in 1 .. ToSend : sent' = sent + n
    BY <1>8 DEF SendSome
  <2>3. over' <= over
    BY <1>1, <2>1, <2>2 DEF Pending, TypeOK
  <2>4. QED
    BY <1>6, <2>1, <2>3
<1>9. CASE Call \/ SendBlocks \/ Resume \/ SendFails
  <2>1. pc' \notin {"sleep", "send"} /\ sent' = sent /\ charged' = charged
    BY <1>9 DEF Call, SendBlocks, Resume, SendFails, Goto, bucketVars
  <2>2. over' <= over
    BY <1>1, <2>1 DEF Pending, TypeOK
  <2>3. QED
    BY <1>6, <2>1, <2>2
<1>10. CASE Pass \/ UNCHANGED vars
  <2>1. UNCHANGED <<sent, charged, until, pc, left>>
    BY <1>10 DEF Pass, vars, bucketVars
  <2>2. over' = over
    BY <2>1 DEF Pending, ToSend
  <2>3. QED
    BY <1>1, <1>6, <2>1, <2>2
<1>11. QED
  BY <1>4, <1>5, <1>7, <1>8, <1>9, <1>10 DEF Next, Sender

\* The inductive invariant holds in every reachable state.
THEOREM BandwidthInvariance == Spec => []SendInv
<1>1. SendInv /\ [Next]_vars => SendInv'
  BY TypeStep, ChargedStep, PaidStep DEF SendInv
<1>2. QED
  BY SendInitInv, <1>1, PTL DEF Spec

\* The bucket stays between nothing and burst_size.
THEOREM BucketTypeCorrect == Spec => []TypeOK
BY BandwidthInvariance, PTL DEF SendInv

\* However the sender is scheduled, the bytes that acquire grants stay within
\* one burst and the rate times the time of the last refill.
THEOREM GrantsWithinRate == Spec => []ChargedWithinRate
BY BandwidthInvariance, PTL DEF SendInv

\* The bytes sent without tokens are at most a chunk for each MIN_SLEEP_USEC:
\* every one of those chunks has a usleep of its own before it.
THEOREM OverrunWithinSleeps == Spec => []OverrunBounded
<1>1. SendInv => OverrunBounded
  <2> SUFFICES ASSUME TypeOK, Paid PROVE OverrunBounded
    BY DEF SendInv
  <2>1. Pending \in Nat
    BY ChunkSize DEF Pending
  <2>2. MinSleep * (sent + Pending - charged) <= Chunk * now
    BY DEF Paid
  <2>3. MinSleep * (sent - charged) <= Chunk * now
    BY <2>1, <2>2, NoMoreOverrun DEF TypeOK
  <2>4. QED
    BY <2>3 DEF OverrunBounded
<1>2. QED
  BY BandwidthInvariance, <1>1, PTL

------------------------------------------------------------------------------
(***************************************************************************)
(* Https: what a request holds, writes and logs                            *)
(***************************************************************************)

FileStatuses == {200, 404}
SizeOf(file) == IF files[file] > 0 THEN Raw(files[file]) ELSE Unknown

\* A request has all its fields from its arrival on
RequestFields ==
  req # Idle =>
    /\ req.uri \in Uris /\ req.file \in Uris
    /\ req = [pc |-> req.pc, host |-> req.host, uri |-> req.uri, get |-> req.get,
              gzip |-> req.gzip, status |-> req.status, file |-> req.file, length |-> req.length,
              size |-> req.size, fresh |-> req.fresh]

\* At most one head, the first of what has arrived, with this status
Opens(status) ==
  /\ \E S : out \in Seq(S)
  /\ \A i \in Heads : i = 1 /\ out[i].status = status

\* Before a file is looked at, and while a backend's answer is relayed
BeforeInv ==
  /\ req.pc \in {"route", "proxy", "stat"} => held = Copies /\ out = <<>> /\ logged = <<>>
  /\ req.pc = "relay head" => /\ held = Copies \cup {"backend", "proxy_request"}
                              /\ out = <<>> /\ logged = <<>>
  /\ req.pc = "relay body" => /\ held = Copies \cup {"backend", "proxy_request"}
                              /\ Opens(Theirs) /\ logged = <<>>
  /\ req.pc \in {"relayed", "bad gateway"} => held = Copies /\ Opens(Theirs) /\ logged = <<>>

\* What the handler knows of the file: its size as long as it has not changed,
\* that it is open only if there is one, and the length it will announce
FilePcs == {"open", "compress", "cache", "head", "body"}
StatusInv == req.pc \in FilePcs => logged = <<>> /\ req.status \in FileStatuses
FreshInv ==
  req.pc \in FilePcs /\ req.fresh =>
    req.size = SizeOf(req.file) /\ ("file_fd" \in held => files[req.file] > 0)
LengthInv ==
  req.pc \in FilePcs =>
    /\ "compressed_data" \in held => req.length = Gzip(req.size[2])
    /\ "compressed_data" \notin held => req.length = req.size
SizeInv == StatusInv /\ FreshInv /\ LengthInv

FileInv ==
  /\ SizeInv
  /\ req.pc = "open" => held \subseteq Copies \cup {"accept_encoding"} /\ out = <<>>
  /\ req.pc = "compress" => held \subseteq Copies \cup {"accept_encoding", "file_fd"} /\ out = <<>>
  /\ req.pc \in {"cache", "head", "body"} =>
       held \subseteq Copies \cup {"accept_encoding", "file_fd", "context", "compressed_data"}
  /\ req.pc \in {"cache", "head"} => out = <<>>
  /\ req.pc = "body" => out \in Arrives(HeadOf(req.status, req.length))

\* The file is closed before its content would be read for the cache, so
\* nothing is ever stored
StoreInv ==
  /\ cached = {}
  /\ req.pc = "store" =>
       /\ held \subseteq Copies \cup {"accept_encoding", "context"} /\ logged = <<>>
       /\ \E status \in FileStatuses : Opens(status) /\ req.status \in {status, 500}
  /\ LengthHonest

EndInv == RequestSettled

HttpsInv == files \in [Uris -> FileSizes \cup {0, 1}] /\ RequestFields /\ BeforeInv /\ FileInv /\ StoreInv /\ EndInv

------------------------------------------------------------------------------
\* The pc changes and nothing else of the request
LEMMA Entered ==
    ASSUME RequestFields, req # Idle, NEW v, v # "idle", Enter(v)
    PROVE  /\ RequestFields' /\ req'.pc = v /\ req'.uri = req.uri /\ req'.status = req.status
           /\ req'.file = req.file /\ req'.length = req.length /\ req'.size = req.size
           /\ req'.fresh = req.fresh
BY DEF RequestFields, Enter, Idle

LEMMA NotIdle == req.pc # "idle" => req # Idle
BY DEF Idle

\* What has arrived is known from what had and from what was written
Grown(part) ==
  \/ out' = out
  \/ \E p \in {part, Short(part)} :
       /\ DOMAIN out = 1 .. Len(out) /\ Len(out) \in Nat
       /\ DOMAIN out' = 1 .. Len(out) + 1
       /\ \A i \in 1 .. Len(out) : out'[i] = out[i]
       /\ out'[Len(out) + 1] = p

LEMMA Grows ==
    ASSUME NEW S, out \in Seq(S), NEW part, NEW p \in {part, Short(part)}, out' = Append(out, p)
    PROVE  (\E T : out' \in Seq(T)) /\ Grown(part)
<1>1. out \in Seq(S \cup {p}) /\ p \in S \cup {p}
  OBVIOUS
<1>2. /\ out' \in Seq(S \cup {p}) /\ Len(out') = Len(out) + 1
      /\ \A i \in 1 .. Len(out) : out'[i] = out[i]
      /\ out'[Len(out) + 1] = p
  BY <1>1
<1>3. DOMAIN out = 1 .. Len(out) /\ Len(out) \in Nat /\ DOMAIN out' = 1 .. Len(out')
  BY <1>2
<1>4. Grown(part)
  BY <1>2, <1>3 DEF Grown
<1>5. QED
  BY <1>2, <1>4

LEMMA Received ==
    ASSUME NEW S, out \in Seq(S), NEW part, NEW got \in Arrives(part), out' = out \o got
    PROVE  (\E T : out' \in Seq(T)) /\ Grown(part)
<1>1. CASE got = <<>>
  <2>1. out' = out
    BY <1>1, ConcatEmptySeq
  <2>2. QED
    BY <2>1 DEF Grown
<1>2. CASE got # <<>>
  <2>1. PICK p \in {part, Short(part)} : got = <<p>>
    BY <1>2 DEF Arrives
  <2>2. out \in Seq(S \cup {p}) /\ <<p>> \in Seq(S \cup {p})
    OBVIOUS
  <2>3. out' = Append(out, p)
    BY <2>1, <2>2
  <2>4. QED
    BY <2>3, Grows
<1>3. QED
  BY <1>1, <1>2

\* The parts of an answer
LEMMA PartIs ==
    ASSUME NEW length, NEW status
    PROVE  /\ \A p \in {HeadOf(status, length), Short(HeadOf(status, length))} :
                p.kind = "head" /\ p.status = status /\ p.length = length
           /\ \A p \in {BodyOf(length), Short(BodyOf(length))} : p.kind = "body" /\ p.length = length
BY DEF HeadOf, BodyOf, Short

\* A body opens nothing, and a head that is the first
LEMMA BodyOpens ==
    ASSUME NEW status, NEW length, Opens(status), Grown(BodyOf(length)), \E T : out' \in Seq(T)
    PROVE  Opens(status)'
<1>1. CASE out' = out
  BY <1>1 DEF Opens, Heads
<1>2. CASE out' # out
  <2>1. PICK p \in {BodyOf(length), Short(BodyOf(length))} :
          /\ DOMAIN out = 1 .. Len(out) /\ Len(out) \in Nat
          /\ DOMAIN out' = 1 .. Len(out) + 1
          /\ \A i \in 1 .. Len(out) : out'[i] = out[i]
          /\ out'[Len(out) + 1] = p
    BY <1>2 DEF Grown
  <2>2. p.kind = "body"
    BY PartIs
  <2>3. ASSUME NEW i \in Heads' PROVE i \in Heads /\ out'[i] = out[i]
    <3>1. i \in 1 .. Len(out) + 1 /\ i # Len(out) + 1
      BY <2>1, <2>2, <2>3 DEF Heads
    <3>2. i \in 1 .. Len(out)
      BY <2>1, <3>1
    <3>3. QED
      BY <2>1, <2>3, <3>2 DEF Heads
  <2>4. \A i \in Heads' : i = 1 /\ out'[i].status = status
    BY <2>3 DEF Opens
  <2>5. QED
    BY <2>4 DEF Opens
<1>3. QED
  BY <1>1, <1>2

LEMMA HeadOpens ==
    ASSUME NEW status, NEW length, NEW got \in Arrives(HeadOf(status, length)),
           out = <<>>, out' = out \o got
    PROVE  out' = got /\ Opens(status)'
<1> DEFINE P == {HeadOf(status, length), Short(HeadOf(status, length))}
<1>2. got \in Seq(P)
  <2>1. \A p \in P : <<p>> \in Seq(P)
    <3> HIDE DEF P
    <3>1. QED
      OBVIOUS
  <2>2. got = <<>> \/ \E p \in P : got = <<p>>
    BY DEF Arrives
  <2> HIDE DEF P
  <2>3. <<>> \in Seq(P)
    OBVIOUS
  <2>4. QED
    BY <2>1, <2>2, <2>3
<1>1. out' = got
  BY <1>2, ConcatEmptySeq
<1> HIDE DEF P
<1>3. ASSUME NEW i \in Heads' PROVE i = 1 /\ got[i].status = status
  <2>1. i \in DOMAIN got
    BY <1>1, <1>3 DEF Heads
  <2>2. PICK p \in {HeadOf(status, length), Short(HeadOf(status, length))} : got = <<p>>
    BY <2>1 DEF Arrives
  <2>3. i = 1 /\ got[1] = p
    BY <2>1, <2>2
  <2>4. QED
    BY <2>3, PartIs
<1>4. QED
  BY <1>1, <1>2, <1>3 DEF Opens

LEMMA SameOut ==
    ASSUME out' = out
    PROVE  Heads' = Heads /\ \A status : Opens(status)' <=> Opens(status)
BY DEF Heads, Opens

LEMMA NothingOpens == ASSUME NEW status, out = <<>> PROVE Opens(status)
BY DEF Opens, Heads

\* What is known of the file stays so while the file and the request do
LEMMA SizeKept ==
    ASSUME SizeInv, req.pc \in FilePcs, UNCHANGED <<files, logged>>, LengthInv',
           req'.status = req.status, req'.file = req.file, req'.size = req.size,
           req'.fresh = req.fresh,
           "file_fd" \in held' => "file_fd" \in held \/ files[req.file] > 0
    PROVE  SizeInv'
<1>1. StatusInv'
  BY DEF SizeInv, StatusInv
<1>2. SizeOf(req.file)' = SizeOf(req.file) /\ files'[req'.file] = files[req.file]
  BY DEF SizeOf
<1>3. FreshInv'
  BY <1>2 DEF SizeInv, FreshInv
<1>4. QED
  BY <1>1, <1>3 DEF SizeInv

\* Elsewhere there is nothing to know
LEMMA SizeElsewhere == req.pc \notin FilePcs => SizeInv
BY DEF SizeInv, StatusInv, FreshInv, LengthInv

LEMMA HttpsInitInv == HttpsInit => HttpsInv
BY DEF HttpsInit, HttpsInv, RequestFields, BeforeInv, SizeInv, StatusInv, FreshInv, LengthInv, FilePcs,
       FileInv, StoreInv, EndInv, LengthHonest, RequestSettled, Idle

LEMMA StepArrives ==
    ASSUME HttpsInv, NEW host, NEW uri \in Uris, NEW get, NEW gzip,
           RequestArrives(host, uri, get, gzip)
    PROVE  HttpsInv'
BY DEF HttpsInv, RequestArrives, RequestFields, BeforeInv, SizeInv, StatusInv, FreshInv, LengthInv, FilePcs,
       FileInv, StoreInv, EndInv, LengthHonest, RequestSettled, Idle

LEMMA StepIdle == HttpsInv /\ (ReadFails \/ BadRequest \/ RequestEnds) => HttpsInv'
<1> SUFFICES ASSUME HttpsInv, ReadFails \/ BadRequest \/ RequestEnds PROVE HttpsInv'
  OBVIOUS
<1>1. req' = Idle /\ UNCHANGED <<cached, files>>
  BY DEF ReadFails, BadRequest, RequestEnds, world
<1>2. QED
  BY <1>1 DEF HttpsInv, RequestFields, BeforeInv, SizeInv, StatusInv, FreshInv, LengthInv, FilePcs,
       FileInv, StoreInv, EndInv, LengthHonest, RequestSettled, Idle

LEMMA StepRoute == HttpsInv /\ (NoServerBlock \/ Route) => HttpsInv'
<1>1. ASSUME HttpsInv, Route PROVE HttpsInv'
  <2>1. req.pc = "route" /\ req # Idle
    BY <1>1, NotIdle DEF Route
  <2>2. PICK v \in {"proxy", "stat"} : Enter(v)
    BY <1>1 DEF Route
  <2>3. RequestFields' /\ req'.pc = v
    BY <1>1, <2>1, <2>2, Entered DEF HttpsInv
  <2>4. UNCHANGED <<held, out, logged, cached, files>>
    BY <1>1 DEF Route, world
  <2>5. QED
    BY <1>1, <2>1, <2>2, <2>3, <2>4 DEF HttpsInv, BeforeInv, SizeInv, StatusInv, FreshInv, LengthInv, FilePcs,
       FileInv, StoreInv, EndInv, LengthHonest, RequestSettled
<1>2. ASSUME HttpsInv, NoServerBlock PROVE HttpsInv'
  <2>1. req.pc = "route" /\ req # Idle
    BY <1>2, NotIdle DEF NoServerBlock
  <2>2. RequestFields' /\ req'.pc = "end"
    BY <1>2, <2>1, Entered DEF HttpsInv, NoServerBlock
  <2>3. /\ out = <<>> /\ logged = <<>> /\ logged' = Append(logged, 500)
        /\ held = Copies /\ held' = held \ Copies
    BY <1>2, <2>1 DEF HttpsInv, BeforeInv, NoServerBlock, Log, Release
  <2>4. PICK got \in Arrives(HeadOf(500, Raw(0))) : out' = out \o got
    BY <1>2 DEF NoServerBlock, Write
  <2>8. Opens(500)' /\ logged' = <<500>> /\ held' = {}
    BY <2>3, <2>4, HeadOpens
  <2>5. EndInv'
    BY <2>8 DEF EndInv, RequestSettled, Opens, Theirs
  <2>6. UNCHANGED <<cached, files>>
    BY <1>2 DEF NoServerBlock, world
  <2>7. QED
    BY <1>2, <2>2, <2>5, <2>6 DEF HttpsInv, BeforeInv, SizeInv, StatusInv, FreshInv, LengthInv, FilePcs,
       FileInv, StoreInv, LengthHonest
<1>3. QED
  BY <1>1, <1>2

\* Relaying to a backend of the configuration
LEMMA StepProxy ==
    /\ HttpsInv
    /\ ProxyConnects \/ ProxyFails \/ HeadRelayed \/ HeadMissed \/ Relayed \/ RelayBreaks
    => HttpsInv'
<1> USE DEF HttpsInv
<1> SUFFICES ASSUME HttpsInv, ProxyConnects \/ ProxyFails \/ HeadRelayed \/ HeadMissed \/ Relayed \/ RelayBreaks
             PROVE  HttpsInv'
  OBVIOUS
<1>1. /\ req.pc \in {"proxy", "relay head", "relay body"} /\ req # Idle
      /\ UNCHANGED <<cached, files, logged>>
  BY NotIdle DEF ProxyConnects, ProxyFails, HeadRelayed, HeadMissed, Relayed, RelayBreaks, world
<1>2. RequestFields' /\ req'.pc \in {"relay head", "relay body", "relayed", "bad gateway"}
  <2>1. PICK v \in {"relay head", "relay body", "relayed", "bad gateway"} : Enter(v)
    BY DEF ProxyConnects, ProxyFails, HeadRelayed, HeadMissed, Relayed, RelayBreaks
  <2>2. QED
    BY <1>1, <2>1, Entered
<1>3. BeforeInv'
  <2>1. CASE ProxyConnects
    <3>1. req'.pc = "relay head" /\ req.pc = "proxy"
      BY <1>1, <2>1, Entered DEF ProxyConnects
    <3>2. QED
      BY <1>1, <2>1, <3>1 DEF ProxyConnects, BeforeInv
  <2>2. CASE ProxyFails
    <3>1. req'.pc = "bad gateway" /\ req.pc = "proxy" /\ UNCHANGED <<held, out>>
      BY <1>1, <2>2, Entered DEF ProxyFails
    <3>2. held = Copies /\ out' = <<>> /\ logged' = <<>>
      BY <1>1, <3>1 DEF BeforeInv
    <3>3. Opens(Theirs)'
      BY <3>2 DEF Opens, Heads
    <3>4. QED
      BY <3>1, <3>2, <3>3 DEF BeforeInv
  <2>3. CASE HeadRelayed \/ HeadMissed
    <3>1. req'.pc = "relay body" /\ req.pc = "relay head" /\ held' = held
      BY <1>1, <2>3, Entered DEF HeadRelayed, HeadMissed
    <3>2. out = <<>> /\ out' \in {<<>>, Append(out, BackendHead)}
      BY <2>3, <3>1 DEF HeadRelayed, HeadMissed, BeforeInv
    <3>3. out' \in {<<>>, <<BackendHead>>}
      BY <3>2
    <3>4. Opens(Theirs)'
      <4>1. out' \in Seq({BackendHead})
        <5>1. PICK b : b = BackendHead
          OBVIOUS
        <5>2. <<b>> \in Seq({b}) /\ <<>> \in Seq({b})
          OBVIOUS
        <5>3. QED
          BY <3>3, <5>1, <5>2
      <4>2. \A i \in DOMAIN out' : i = 1 /\ out'[i] = BackendHead
        BY <3>3
      <4>3. BackendHead.status = Theirs
        BY DEF BackendHead, HeadOf
      <4>4. QED
        BY <4>1, <4>2, <4>3 DEF Opens, Heads
    <3>5. QED
      BY <1>1, <3>1, <3>4 DEF BeforeInv
  <2>4. CASE Relayed \/ RelayBreaks
    <3>1. /\ req'.pc \in {"relayed", "bad gateway"} /\ req.pc \in {"relay head", "relay body"}
          /\ held' = held \ {"backend", "proxy_request"}
      BY <1>1, <2>4, Entered DEF Relayed, RelayBreaks, Release
    <3>2. held' = Copies
      BY <3>1 DEF BeforeInv, Copies
    <3>3. Opens(Theirs) /\ logged = <<>> /\ (req.pc = "relay head" => out = <<>>)
      BY <3>1, NothingOpens DEF BeforeInv
    <3>4. Opens(Theirs)'
      <4>1. CASE out' = out
        BY <3>3, <4>1 DEF Opens, Heads
      <4>2. CASE RelayBreaks
        <5>1. PICK got \in Interrupted : out' = out \o got
          BY <4>2 DEF RelayBreaks
        <5>2. CASE req.pc = "relay head"
          <6>1. got \in Arrives(HeadOf(Theirs, Unknown))
            BY <5>1, <5>2 DEF Interrupted, Arrives, BackendHead
          <6>2. QED
            BY <3>3, <5>1, <5>2, <6>1, HeadOpens
        <5>3. CASE req.pc # "relay head"
          <6>1. got \in Arrives(BodyOf(Unknown))
            BY <5>1, <5>3 DEF Interrupted, Arrives, BackendBody
          <6>2. PICK S : out \in Seq(S)
            BY <3>3 DEF Opens
          <6>3. QED
            BY <3>3, <5>1, <6>1, <6>2, Received, BodyOpens
        <5>4. QED
          BY <5>2, <5>3
      <4>3. QED
        BY <2>4, <4>1, <4>2 DEF Relayed
    <3>5. QED
      BY <1>1, <3>1, <3>2, <3>3, <3>4 DEF BeforeInv
  <2>5. QED
    BY <2>1, <2>2, <2>3, <2>4
<1>4. QED
  BY <1>1, <1>2, <1>3 DEF SizeInv, StatusInv, FreshInv, LengthInv, FilePcs, FileInv, StoreInv, EndInv,
     LengthHonest, RequestSettled

LEMMA StepRelays == HttpsInv /\ BodyRelayed => HttpsInv'
<1> USE DEF HttpsInv
<1> SUFFICES ASSUME HttpsInv, BodyRelayed PROVE HttpsInv'
  OBVIOUS
<1>1. /\ req.pc = "relay body" /\ UNCHANGED <<cached, files, logged, req, held>>
      /\ out' = Append(out, BodyOf(Unknown))
  BY DEF BodyRelayed, world, BackendBody
<1>2. Opens(Theirs)
  BY <1>1 DEF BeforeInv
<1>3. PICK S : out \in Seq(S)
  BY <1>2 DEF Opens
<1>4. Opens(Theirs)'
  BY <1>1, <1>2, <1>3, Grows, BodyOpens
<1>5. RequestFields'
  BY <1>1 DEF RequestFields
<1>6. QED
  BY <1>1, <1>4, <1>5 DEF BeforeInv, SizeInv, StatusInv, FreshInv, LengthInv, FilePcs, FileInv, StoreInv,
     EndInv, LengthHonest, RequestSettled

LEMMA StepProxyEnds == HttpsInv /\ (ProxyLogged \/ BadGateway) => HttpsInv'
<1> USE DEF HttpsInv
<1> SUFFICES ASSUME HttpsInv, ProxyLogged \/ BadGateway PROVE HttpsInv'
  OBVIOUS
<1>1. /\ req.pc \in {"relayed", "bad gateway"} /\ req # Idle /\ Enter("end")
      /\ held' = held \ Copies
      /\ UNCHANGED <<cached, files>>
  BY NotIdle DEF ProxyLogged, BadGateway, Release, world
<1>2. RequestFields' /\ req'.pc = "end"
  BY <1>1, Entered
<1>3. logged = <<>> /\ Opens(Theirs) /\ held' = {}
  BY <1>1 DEF BeforeInv
<1>4. EndInv'
  <2>1. CASE ProxyLogged
    <3>1. out' = out /\ logged' = <<200>>
      BY <1>3, <2>1 DEF ProxyLogged, Log
    <3>2. Opens(Theirs)'
      BY <1>3, <3>1 DEF Opens, Heads
    <3>3. QED
      BY <1>3, <3>1, <3>2 DEF EndInv, RequestSettled, Opens
  <2>2. CASE BadGateway
    <3>1. logged' = <<502>>
      <4>1. logged' = Append(<<>>, 502)
        BY <1>3, <2>2 DEF BadGateway, Log
      <4>2. QED
        BY <4>1
    <3>2. PICK got \in Arrives(HeadOf(502, Raw(15))) : out' = out \o got
      BY <2>2 DEF BadGateway, Write
    <3>3. Grown(HeadOf(502, Raw(15)))
      BY <1>3, <3>2, Received DEF Opens
    <3>4. \A i \in Heads' : \/ i = 1 /\ out'[i].status = Theirs
                            \/ /\ out'[i].status = 502
                               /\ \A j \in DOMAIN out' : j <= i
      <4>1. CASE out' = out
        BY <1>3, <4>1 DEF Opens, Heads
      <4>2. CASE out' # out
        <5>1. PICK p \in {HeadOf(502, Raw(15)), Short(HeadOf(502, Raw(15)))} :
                /\ DOMAIN out = 1 .. Len(out) /\ Len(out) \in Nat
                /\ DOMAIN out' = 1 .. Len(out) + 1
                /\ \A i \in 1 .. Len(out) : out'[i] = out[i]
                /\ out'[Len(out) + 1] = p
          BY <3>3, <4>2 DEF Grown
        <5>2. p.status = 502
          BY PartIs
        <5>3. ASSUME NEW i \in Heads', i # Len(out) + 1 PROVE i = 1 /\ out'[i].status = Theirs
          <6>1. i \in 1 .. Len(out)
            BY <5>1, <5>3 DEF Heads
          <6>2. i \in Heads /\ out'[i] = out[i]
            BY <5>1, <5>3, <6>1 DEF Heads
          <6>3. QED
            BY <1>3, <6>2 DEF Opens
        <5>4. \A j \in DOMAIN out' : j <= Len(out) + 1
          BY <5>1
        <5>5. QED
          BY <5>1, <5>2, <5>3, <5>4
      <4>3. QED
        BY <4>1, <4>2
    <3>5. \E T : out' \in Seq(T)
      BY <1>3, <3>2, Received DEF Opens
    <3>6. DOMAIN out' \subseteq Nat \ {0}
      BY <3>5
    <3>7. ASSUME NEW i \in Heads', NEW j \in Heads', i < j
          PROVE  out'[i].status = Theirs /\ out'[j].status = 502
      <4>1. i \in DOMAIN out' /\ j \in DOMAIN out' /\ i \in Nat \ {0} /\ j \in Nat \ {0}
        BY <3>6 DEF Heads
      <4>2. j # 1 /\ ~(j <= i)
        BY <3>7, <4>1
      <4>3. QED
        BY <3>4, <4>1, <4>2
    <3>8. ASSUME NEW i \in Heads'
          PROVE  IF out'[i].status = Theirs THEN logged'[1] \in {200, 502}
                 ELSE logged'[1] \in {out'[i].status, 500}
      <4>1. out'[i].status = Theirs \/ out'[i].status = 502
        BY <3>4
      <4>2. QED
        BY <3>1, <4>1
    <3>9. Len(logged') = 1
      BY <3>1
    <3>10. QED
      BY <1>3, <3>7, <3>8, <3>9 DEF EndInv, RequestSettled
  <2>3. QED
    BY <2>1, <2>2
<1>5. QED
  BY <1>1, <1>2, <1>4 DEF BeforeInv, SizeInv, StatusInv, FreshInv, LengthInv, FilePcs, FileInv, StoreInv,
     LengthHonest

\* A file is looked at, opened and compressed
LEMMA StepStat == HttpsInv /\ Stat => HttpsInv'
<1> USE DEF HttpsInv
<1> SUFFICES ASSUME HttpsInv, Stat PROVE HttpsInv'
  OBVIOUS
<1>1. /\ req.pc = "stat" /\ req # Idle /\ req.uri \in Uris
      /\ UNCHANGED <<cached, files, out, logged>>
  BY NotIdle DEF Stat, world, RequestFields
<1>2. PICK file \in Uris, status \in FileStatuses :
        req' = [req EXCEPT !.pc = "open", !.status = status, !.file = file, !.size = SizeOf(file),
                           !.length = SizeOf(file), !.fresh = TRUE]
  <2> DEFINE f == IF files[req.uri] > 0 THEN req.uri ELSE NotFoundPage
             st == IF files[req.uri] > 0 THEN 200 ELSE 404
  <2>1. req' = [req EXCEPT !.pc = "open", !.status = st, !.file = f, !.size = SizeOf(f),
                           !.length = SizeOf(f), !.fresh = TRUE]
    BY Zenon DEF Stat, SizeOf
  <2>2. f \in Uris /\ st \in FileStatuses
    BY <1>1, HttpsAssumption DEF FileStatuses
  <2> HIDE DEF f, st
  <2>3. QED
    BY <2>1, <2>2
<1>3. /\ RequestFields' /\ req'.pc = "open" /\ req'.status = status /\ req'.file = file
      /\ req'.size = SizeOf(file) /\ req'.length = SizeOf(file) /\ req'.uri = req.uri
  BY <1>1, <1>2 DEF RequestFields
<1>4. held' \subseteq Copies \cup {"accept_encoding"} /\ out' = <<>> /\ logged' = <<>>
  BY <1>1 DEF Stat, BeforeInv
<1>5. "compressed_data" \notin held' /\ "file_fd" \notin held'
  BY <1>4 DEF Copies
<1>6. SizeOf(file)' = SizeOf(file)
  BY <1>1 DEF SizeOf
<1>7. SizeInv'
  BY <1>1, <1>3, <1>4, <1>5, <1>6 DEF SizeInv, StatusInv, FreshInv, LengthInv
<1>8. QED
  BY <1>1, <1>3, <1>4, <1>7 DEF BeforeInv, FileInv, StoreInv, EndInv, LengthHonest, RequestSettled

LEMMA StepOpen == HttpsInv /\ Open => HttpsInv'
<1> USE DEF HttpsInv
<1> SUFFICES ASSUME HttpsInv, Open PROVE HttpsInv'
  OBVIOUS
<1>1. /\ req.pc = "open" /\ req # Idle /\ Enter("compress")
      /\ UNCHANGED <<cached, files, out, logged>>
  BY NotIdle DEF Open, world
<1>2. /\ RequestFields' /\ req'.pc = "compress" /\ req'.uri = req.uri /\ req'.status = req.status
      /\ req'.file = req.file /\ req'.length = req.length /\ req'.size = req.size
      /\ req'.fresh = req.fresh
  BY <1>1, Entered
<1>3. /\ held' \subseteq Copies \cup {"accept_encoding", "file_fd"}
      /\ "compressed_data" \notin held /\ "compressed_data" \notin held'
      /\ "file_fd" \in held' => files[req.file] > 0
  BY <1>1 DEF Open, FileInv, Copies
<1>4. req.pc \in FilePcs /\ SizeInv
  BY <1>1 DEF FilePcs, FileInv
<1>5. LengthInv'
  BY <1>2, <1>3, <1>4 DEF SizeInv, LengthInv
<1>6. SizeInv'
  BY <1>1, <1>2, <1>3, <1>4, <1>5, SizeKept
<1>7. QED
  BY <1>1, <1>2, <1>3, <1>6 DEF BeforeInv, FileInv, StoreInv, EndInv, LengthHonest, RequestSettled

LEMMA StepCompress == HttpsInv /\ (Compress \/ NotCompressed) => HttpsInv'
<1> USE DEF HttpsInv
<1> SUFFICES ASSUME HttpsInv, Compress \/ NotCompressed PROVE HttpsInv'
  OBVIOUS
<1>1. /\ req.pc = "compress" /\ req # Idle
      /\ UNCHANGED <<cached, files, out, logged>>
      /\ held \subseteq Copies \cup {"accept_encoding", "file_fd"}
      /\ "compressed_data" \notin held
      /\ out = <<>>
  BY NotIdle DEF Compress, NotCompressed, world, FileInv, Copies
<1>2. /\ RequestFields' /\ req'.pc = "cache" /\ req'.status = req.status
      /\ req'.file = req.file /\ req'.size = req.size /\ req'.fresh = req.fresh
      /\ held' \subseteq Copies \cup {"accept_encoding", "file_fd", "context", "compressed_data"}
      /\ "file_fd" \in held' => "file_fd" \in held
      /\ "compressed_data" \in held' => req'.length = Gzip(req.size[2])
      /\ "compressed_data" \notin held' => req'.length = req.size
  <2>0. req.length = req.size
    BY <1>1 DEF FileInv, SizeInv, LengthInv, FilePcs
  <2>1. CASE Enter("cache") /\ held' \in {held, held \cup {"context"}}
    <3>1. /\ RequestFields' /\ req'.pc = "cache" /\ req'.status = req.status
          /\ req'.file = req.file /\ req'.size = req.size /\ req'.fresh = req.fresh
          /\ req'.length = req.length
      BY <1>1, <2>1, Entered
    <3>2. "compressed_data" \notin held'
      BY <1>1, <2>1
    <3>3. QED
      BY <1>1, <2>0, <2>1, <3>1, <3>2
  <2>2. CASE /\ held' = held \cup {"context", "compressed_data"}
             /\ req' = [req EXCEPT !.pc = "cache", !.length = Gzip(req.size[2])]
    BY <1>1, <2>2 DEF RequestFields, Idle
  <2>3. QED
    BY <2>1, <2>2 DEF Compress, NotCompressed
<1>3. req.pc \in FilePcs /\ SizeInv
  BY <1>1 DEF FilePcs, FileInv
<1>4. LengthInv'
  BY <1>2 DEF LengthInv
<1>5. SizeInv'
  BY <1>1, <1>2, <1>3, <1>4, SizeKept
<1>6. QED
  BY <1>1, <1>2, <1>5 DEF BeforeInv, FileInv, StoreInv, EndInv, LengthHonest, RequestSettled

\* Nothing is in the cache, so the file is sent
LEMMA StepSend == HttpsInv /\ (CacheLookup \/ SendHead) => HttpsInv'
<1> USE DEF HttpsInv
<1> SUFFICES ASSUME HttpsInv, CacheLookup \/ SendHead PROVE HttpsInv'
  OBVIOUS
<1>1. /\ req.pc \in {"cache", "head"} /\ req # Idle /\ UNCHANGED <<cached, files, held, logged>>
  BY NotIdle DEF CacheLookup, SendHead, world, StoreInv
<1>2. \/ req.pc = "cache" /\ Enter("head") /\ out' = out
      \/ /\ req.pc = "head" /\ Enter("body")
         /\ \E got \in Arrives(HeadOf(req.status, req.length)) : out' = out \o got
  BY DEF CacheLookup, SendHead, StoreInv, Write
<1>3. PICK v \in {"head", "body"} : Enter(v) /\ (v = "body" <=> req.pc = "head")
  BY <1>2
<1>4. /\ RequestFields' /\ req'.pc = v /\ req'.status = req.status
      /\ req'.file = req.file /\ req'.length = req.length /\ req'.size = req.size
      /\ req'.fresh = req.fresh
  BY <1>1, <1>3, Entered
<1>5. /\ v = "head" => out' = <<>>
      /\ v = "body" => out' \in Arrives(HeadOf(req.status, req.length))
  <2>1. out = <<>>
    BY <1>1 DEF FileInv
  <2>2. QED
    BY <1>1, <1>2, <1>3, <2>1, HeadOpens
<1>6. req.pc \in FilePcs /\ SizeInv
  BY <1>1 DEF FilePcs, FileInv
<1>7. LengthInv'
  BY <1>1, <1>4, <1>6 DEF SizeInv, LengthInv
<1>8. SizeInv'
  BY <1>1, <1>4, <1>6, <1>7, SizeKept
<1>9. QED
  BY <1>1, <1>4, <1>5, <1>8 DEF BeforeInv, FileInv, StoreInv, EndInv, LengthHonest, RequestSettled

LEMMA StepBody == HttpsInv /\ SendBody => HttpsInv'
<1> USE DEF HttpsInv
<1> SUFFICES ASSUME HttpsInv, SendBody PROVE HttpsInv'
  OBVIOUS
<1>1. /\ req.pc = "body" /\ req # Idle /\ UNCHANGED <<cached, files, logged>>
      /\ held' = held \ {"compressed_data", "file_fd"}
      /\ out \in Arrives(HeadOf(req.status, req.length)) /\ logged = <<>>
      /\ req.status \in FileStatuses
  BY NotIdle DEF SendBody, world, Release, FileInv, SizeInv, StatusInv, FilePcs
<1>2. held' \subseteq Copies \cup {"accept_encoding", "context"}
  BY <1>1 DEF FileInv, Copies
<1>3. /\ Opens(req.status)
      /\ \A i \in DOMAIN out : i \in Heads /\ out[i].length = req.length
  <2>1. CASE out = <<>>
    BY <2>1, NothingOpens
  <2>2. CASE out # <<>>
    <3>1. PICK p \in {HeadOf(req.status, req.length), Short(HeadOf(req.status, req.length))} : out = <<p>>
      BY <1>1, <2>2 DEF Arrives
    <3>2. p.kind = "head" /\ p.status = req.status /\ p.length = req.length
      BY PartIs
    <3>3. DOMAIN out = {1} /\ out[1] = p /\ out \in Seq({p})
      BY <3>1
    <3>4. QED
      BY <3>2, <3>3 DEF Opens, Heads
  <2>3. QED
    BY <2>1, <2>2
<1>4. PICK body : /\ \E got \in Arrives(BodyOf(body)) : out' = out \o got
                  /\ \/ /\ Enter("store") /\ "file_fd" \in held
                        /\ req.length = body \/ (~req.fresh /\ body[1] = "raw")
                     \/ req' = [req EXCEPT !.pc = "store", !.status = 500]
  <2>1. CASE "file_fd" \in held
    <3>1. PICK size \in Readable :
            Write(BodyOf(IF "compressed_data" \in held THEN Gzip(req.size[2]) ELSE Raw(size)))
      BY <2>1 DEF SendBody
    <3> DEFINE b == IF "compressed_data" \in held THEN Gzip(req.size[2]) ELSE Raw(size)
    <3>2. req.length = b \/ (~req.fresh /\ b[1] = "raw")
      <4>1. CASE "compressed_data" \in held
        BY <1>1, <4>1 DEF FileInv, SizeInv, LengthInv, FilePcs
      <4>2. CASE "compressed_data" \notin held /\ req.fresh
        <5>1. req.length = SizeOf(req.file) /\ files[req.file] > 0
          BY <1>1, <2>1, <4>2 DEF FileInv, SizeInv, FreshInv, LengthInv, FilePcs
        <5>2. size = files[req.file]
          BY <4>2 DEF Readable
        <5>3. QED
          BY <4>2, <5>1, <5>2 DEF SizeOf
      <4>3. CASE "compressed_data" \notin held /\ ~req.fresh
        BY <4>3 DEF Raw
      <4>4. QED
        BY <4>1, <4>2, <4>3
    <3>3. Enter("store")
      BY <2>1 DEF SendBody
    <3>4. Write(BodyOf(b))
      BY <3>1
    <3> HIDE DEF b
    <3>5. QED
      BY <2>1, <3>2, <3>3, <3>4 DEF Write
  <2>2. CASE "file_fd" \notin held
    BY <2>2 DEF SendBody, Write
  <2>3. QED
    BY <2>1, <2>2
<1>5. Grown(BodyOf(body)) /\ \E T : out' \in Seq(T)
  BY <1>3, <1>4, Received DEF Opens
<1>7. /\ RequestFields' /\ req'.pc = "store" /\ req'.fresh = req.fresh
      /\ \/ /\ req'.status = req.status
            /\ req.length = body \/ (~req.fresh /\ body[1] = "raw")
         \/ req'.status = 500
  <2>1. CASE /\ Enter("store") /\ "file_fd" \in held
             /\ req.length = body \/ (~req.fresh /\ body[1] = "raw")
    BY <1>1, <2>1, Entered
  <2>2. CASE req' = [req EXCEPT !.pc = "store", !.status = 500]
    <3>1. req'.pc = "store" /\ req'.status = 500 /\ req'.fresh = req.fresh /\ req' # Idle
      BY <1>1, <2>2 DEF RequestFields, Idle
    <3>2. RequestFields'
      BY <1>1, <2>2, <3>1 DEF RequestFields
    <3>3. QED
      BY <3>1, <3>2
  <2>3. QED
    BY <1>4, <2>1, <2>2
<1>8. LengthHonest'
  <2> SUFFICES ASSUME req'.status # 500, NEW head \in Heads', NEW b \in DOMAIN out', b \notin Heads'
               PROVE  out'[head].length = out'[b].length \/ (~req'.fresh /\ out'[b].length[1] = "raw")
    BY DEF LengthHonest
  <2>1. CASE out' = out
    BY <1>3, <2>1 DEF Heads
  <2>2. CASE out' # out
    <3>1. PICK p \in {BodyOf(body), Short(BodyOf(body))} :
            /\ DOMAIN out = 1 .. Len(out) /\ Len(out) \in Nat
            /\ DOMAIN out' = 1 .. Len(out) + 1
            /\ \A i \in 1 .. Len(out) : out'[i] = out[i]
            /\ out'[Len(out) + 1] = p
      BY <1>5, <2>2 DEF Grown
    <3>2. p.kind = "body" /\ p.length = body
      BY PartIs
    <3>3. head \in DOMAIN out /\ out'[head] = out[head]
      <4>1. head \in 1 .. Len(out) + 1 /\ head # Len(out) + 1
        BY <3>1, <3>2 DEF Heads
      <4>2. QED
        BY <3>1, <4>1
    <3>4. b = Len(out) + 1
      <4>1. b \notin 1 .. Len(out)
        BY <1>3, <3>1 DEF Heads
      <4>2. QED
        BY <3>1, <4>1
    <3>5. out'[head].length = req.length /\ out'[b].length = body
      BY <1>3, <3>1, <3>2, <3>3, <3>4
    <3>6. QED
      BY <1>7, <3>5
  <2>3. QED
    BY <2>1, <2>2
<1>9. StoreInv'
  <2>1. PICK st : st = req.status /\ st \in FileStatuses
    BY <1>1
  <2>2. Opens(st)'
    <3>1. Opens(st)
      BY <1>3, <2>1
    <3>2. QED
      BY <1>5, <3>1, BodyOpens
  <2>3. req'.status \in {st, 500}
    BY <1>7, <2>1
  <2>4. cached' = {} /\ logged' = <<>>
    BY <1>1 DEF StoreInv
  <2>5. QED
    BY <1>2, <1>8, <2>1, <2>2, <2>3, <2>4 DEF StoreInv
<1>10. QED
  BY <1>1, <1>7, <1>9 DEF BeforeInv, SizeInv, StatusInv, FreshInv, LengthInv, FilePcs, FileInv, EndInv,
     RequestSettled

LEMMA StepStore == HttpsInv /\ StoreInCache => HttpsInv'
<1> USE DEF HttpsInv
<1> SUFFICES ASSUME HttpsInv, StoreInCache PROVE HttpsInv'
  OBVIOUS
<1>1. /\ req.pc = "store" /\ req # Idle /\ Enter("end")
      /\ held' = held \ Copies
      /\ UNCHANGED <<files, out>>
  BY NotIdle DEF StoreInCache, Release
<1>2. RequestFields' /\ req'.pc = "end"
  BY <1>1, Entered
<1>3. "file_fd" \notin held /\ held' \subseteq {"context", "accept_encoding"}
  BY <1>1 DEF StoreInv, Copies
<1>4. cached' = {} /\ logged' = <<req.status>>
  <2>1. cached' = cached /\ logged' = Append(logged, req.status)
    BY <1>3 DEF StoreInCache, Log
  <2>2. QED
    BY <1>1, <2>1 DEF StoreInv
<1>5. EndInv'
  <2>1. PICK status \in FileStatuses : Opens(status) /\ req.status \in {status, 500}
    BY <1>1 DEF StoreInv
  <2>2. \A i \in Heads' : i = 1 /\ out'[i].status = status
    BY <1>1, <2>1 DEF Opens, Heads
  <2>3. logged'[1] \in {status, 500} /\ Len(logged') = 1
    BY <1>4, <2>1
  <2>4. QED
    BY <1>3, <2>2, <2>3 DEF EndInv, RequestSettled, FileStatuses, Theirs
<1>6. QED
  BY <1>1, <1>2, <1>4, <1>5 DEF BeforeInv, SizeInv, StatusInv, FreshInv, LengthInv, FilePcs, FileInv, StoreInv,
     LengthHonest

LEMMA StepFile == HttpsInv /\ (\E uri \in Uris, size \in FileSizes : FileChanges(uri, size)) => HttpsInv'
<1> USE DEF HttpsInv
<1> SUFFICES ASSUME HttpsInv, NEW uri \in Uris, NEW size \in FileSizes, FileChanges(uri, size)
             PROVE  HttpsInv'
  OBVIOUS
<1>1. UNCHANGED <<cached, out, logged, held>> /\ files' = [files EXCEPT ![uri] = size]
  BY DEF FileChanges
<1>2. CASE UNCHANGED req /\ (req = Idle \/ req.file # uri)
  <2>1. req # Idle => files'[req.file] = files[req.file]
    BY <1>1, <1>2 DEF RequestFields
  <2>2. RequestFields'
    BY <1>2 DEF RequestFields
  <2>3. SizeInv'
    <3>1. CASE req.pc \in FilePcs
      <4>1. SizeInv /\ files'[req.file] = files[req.file]
        BY <2>1, <3>1, NotIdle DEF FileInv, FilePcs
      <4>2. StatusInv' /\ LengthInv'
        BY <1>1, <1>2, <4>1 DEF SizeInv, StatusInv, LengthInv
      <4>3. SizeOf(req.file)' = SizeOf(req.file)
        BY <1>2, <4>1 DEF SizeOf
      <4>4. FreshInv'
        BY <1>1, <1>2, <4>1, <4>3 DEF SizeInv, FreshInv
      <4>5. QED
        BY <4>2, <4>4 DEF SizeInv
    <3>2. CASE req.pc \notin FilePcs
      BY <1>2, <3>2 DEF SizeInv, StatusInv, FreshInv, LengthInv
    <3>3. QED
      BY <3>1, <3>2
  <2>4. BeforeInv' /\ EndInv'
    <3>1. BeforeInv'
      BY <1>1, <1>2, SameOut DEF BeforeInv
    <3>2. EndInv'
      BY <1>1, <1>2, SameOut DEF EndInv, RequestSettled
    <3>3. QED
      BY <3>1, <3>2
  <2>5. FileInv'
    BY <1>1, <1>2, <2>3 DEF FileInv
  <2>6. StoreInv'
    BY <1>1, <1>2, SameOut DEF StoreInv, LengthHonest
  <2>7. files' \in [Uris -> FileSizes \cup {0, 1}]
    BY <1>1
  <2>8. QED
    BY <2>2, <2>4, <2>5, <2>6, <2>7
<1>3. CASE req # Idle /\ req' = [req EXCEPT !.fresh = FALSE]
  <2>1. /\ RequestFields' /\ req'.pc = req.pc /\ req'.status = req.status
        /\ req'.length = req.length /\ req'.size = req.size /\ ~req'.fresh
    BY <1>3 DEF RequestFields, Idle
  <2>2. SizeInv'
    BY <1>1, <2>1 DEF FileInv, SizeInv, StatusInv, FreshInv, LengthInv
  <2>3. BeforeInv' /\ EndInv'
    <3>1. BeforeInv'
      BY <1>1, <2>1, SameOut DEF BeforeInv
    <3>2. EndInv'
      BY <1>1, <2>1, SameOut DEF EndInv, RequestSettled
    <3>3. QED
      BY <3>1, <3>2
  <2>4. FileInv'
    BY <1>1, <2>1, <2>2 DEF FileInv
  <2>5. StoreInv'
    <3>1. LengthHonest'
      BY <1>1, <2>1, SameOut DEF StoreInv, LengthHonest
    <3>2. QED
      BY <1>1, <2>1, <3>1, SameOut DEF StoreInv
  <2>6. files' \in [Uris -> FileSizes \cup {0, 1}]
    BY <1>1
  <2>7. QED
    BY <2>1, <2>3, <2>4, <2>5, <2>6
<1>4. QED
  BY <1>2, <1>3 DEF FileChanges

\* The inductive invariant holds in every reachable state.
THEOREM HttpsInvariance == HttpsSpec => []HttpsInv
<1>1. HttpsInv /\ UNCHANGED httpsVars => HttpsInv'
  <2> SUFFICES ASSUME HttpsInv, UNCHANGED httpsVars PROVE HttpsInv'
    OBVIOUS
  <2>1. UNCHANGED <<files, cached, req, held, out, logged>>
    BY DEF httpsVars
  <2>2. \A file : SizeOf(file)' = SizeOf(file)
    BY <2>1 DEF SizeOf
  <2>3. SizeInv'
    BY <2>1, <2>2 DEF HttpsInv, FileInv, SizeInv, StatusInv, FreshInv, LengthInv
  <2>4. RequestFields' /\ BeforeInv' /\ StoreInv' /\ EndInv'
    <3>1. RequestFields' /\ BeforeInv'
      BY <2>1, SameOut DEF HttpsInv, RequestFields, BeforeInv
    <3>2. StoreInv'
      BY <2>1, SameOut DEF HttpsInv, StoreInv, LengthHonest
    <3>3. EndInv'
      BY <2>1, SameOut DEF HttpsInv, EndInv, RequestSettled
    <3>4. QED
      BY <3>1, <3>2, <3>3
  <2>5. QED
    BY <2>1, <2>3, <2>4 DEF HttpsInv, FileInv
<1>2. HttpsInv /\ HttpsNext => HttpsInv'
  BY StepArrives, StepIdle, StepRoute, StepProxy, StepRelays, StepProxyEnds, StepStat, StepOpen, StepCompress,
     StepSend, StepBody, StepStore, StepFile DEF HttpsNext
<1>3. QED
  BY HttpsInitInv, <1>1, <1>2, PTL DEF HttpsSpec

\* For every configuration, any changes of the files and whatever the client's
\* socket refuses, a request is logged once with the status the client was told,
\* releases what it held but the two leaks of handle_https_request, and gets a
\* second head only when a relay breaks after the backend's.
THEOREM RequestsAreSettled == HttpsSpec => []RequestSettled
<1>1. HttpsInv => RequestSettled
  BY DEF HttpsInv, EndInv
<1>2. QED
  BY HttpsInvariance, <1>1, PTL

\* For every file and any changes of it what is written as its body has the
\* length the head announced, unless the file has changed and is sent as it is.
THEOREM LengthsAreHonest == HttpsSpec => []LengthHonest
<1>1. HttpsInv => LengthHonest
  BY DEF HttpsInv, StoreInv
<1>2. QED
  BY HttpsInvariance, <1>1, PTL

------------------------------------------------------------------------------
\* find_route goes through the locations once; what it has found among the
\* first of them is the best of those.

Fits(locations, uri, i) == locations[i].path # <<>> /\ IsPrefix(locations[i].path, uri)
Beats(locations, i, j) ==
  \/ Len(locations[j].path) < Len(locations[i].path)
  \/ Len(locations[j].path) = Len(locations[i].path) /\ i <= j
IsBest(best, locations, uri, s) ==
  /\ best = <<>> => \A i \in s : ~Fits(locations, uri, i)
  /\ best # <<>> =>
       \E i \in s : /\ Fits(locations, uri, i) /\ best = <<locations[i]>>
                    /\ \A j \in s : Fits(locations, uri, j) => Beats(locations, i, j)
Better(best, l, uri) ==
  IF /\ IsPrefix(l.path, uri)
     /\ Len(l.path) > (IF best = <<>> THEN 0 ELSE Len(best[1].path))
  THEN <<l>> ELSE best

\* A location that comes after the others
LEMMA BetterIsBest ==
    ASSUME NEW locations \in Seq(Location), NEW uri, NEW s \in SUBSET DOMAIN locations, NEW m \in s,
           \A i \in s : i <= m, NEW best, IsBest(best, locations, uri, s \ {m})
    PROVE  IsBest(Better(best, locations[m], uri), locations, uri, s)
<1> DEFINE len(i) == Len(locations[i].path)
           fits(i) == Fits(locations, uri, i)
           b == Better(best, locations[m], uri)
<1>1. \A i \in s : i \in Nat /\ len(i) \in Nat /\ (fits(i) <=> len(i) > 0 /\ IsPrefix(locations[i].path, uri))
  <2> SUFFICES ASSUME NEW i \in s
               PROVE  i \in Nat /\ len(i) \in Nat /\ (fits(i) <=> len(i) > 0 /\ IsPrefix(locations[i].path, uri))
    OBVIOUS
  <2>1. i \in Nat /\ locations[i] \in Location
    OBVIOUS
  <2>2. locations[i].path \in Seq(STRING)
    BY <2>1 DEF Location
  <2>3. len(i) \in Nat /\ (locations[i].path # <<>> <=> len(i) > 0)
    BY <2>2
  <2>4. QED
    BY <2>1, <2>3 DEF Fits
<1>2. \A i, j \in s : Beats(locations, i, j) <=> (len(j) < len(i) \/ (len(j) = len(i) /\ i <= j))
  BY DEF Beats
<1>3. CASE best = <<>>
  <2>1. \A i \in s \ {m} : ~fits(i)
    BY <1>3 DEF IsBest
  <2>2. CASE fits(m)
    <3>1. b = <<locations[m]>>
      BY <1>1, <1>3, <2>2 DEF Better
    <3>2. \A j \in s : fits(j) => Beats(locations, m, j)
      BY <1>1, <1>2, <2>1
    <3>3. b # <<>>
      BY <3>1
    <3>4. QED
      BY <2>2, <3>1, <3>2, <3>3 DEF IsBest
  <2>3. CASE ~fits(m)
    <3>1. b = <<>>
      BY <1>1, <1>3, <2>3 DEF Better
    <3>2. QED
      BY <2>1, <2>3, <3>1 DEF IsBest
  <2>4. QED
    BY <2>2, <2>3
<1>4. CASE best # <<>>
  <2>1. PICK i \in s \ {m} :
          /\ fits(i) /\ best = <<locations[i]>>
          /\ \A j \in s \ {m} : fits(j) => Beats(locations, i, j)
    BY <1>4 DEF IsBest
  <2>2. best[1].path = locations[i].path
    BY <2>1
  <2>3. CASE fits(m) /\ len(m) > len(i)
    <3>1. b = <<locations[m]>>
      BY <1>1, <1>4, <2>2, <2>3 DEF Better
    <3>2. ASSUME NEW j \in s, fits(j) PROVE Beats(locations, m, j)
      <4>1. CASE j = m
        BY <1>1, <1>2, <4>1
      <4>2. CASE j # m
        <5>1. len(j) < len(i) \/ len(j) = len(i)
          BY <1>2, <2>1, <3>2, <4>2
        <5>2. QED
          BY <1>1, <1>2, <2>3, <5>1
      <4>3. QED
        BY <4>1, <4>2
    <3>3. b # <<>>
      BY <3>1
    <3>4. QED
      BY <2>3, <3>1, <3>2, <3>3 DEF IsBest
  <2>4. CASE ~(fits(m) /\ len(m) > len(i))
    <3>1. b = best
      <4>1. ~(IsPrefix(locations[m].path, uri) /\ len(m) > len(i))
        BY <1>1, <2>1, <2>4
      <4>2. QED
        BY <1>4, <2>2, <4>1 DEF Better
    <3>2. ASSUME NEW j \in s, fits(j) PROVE Beats(locations, i, j)
      <4>1. CASE j = m
        BY <1>1, <1>2, <2>4, <3>2, <4>1
      <4>2. CASE j # m
        BY <2>1, <3>2, <4>2
      <4>3. QED
        BY <4>1, <4>2
    <3>3. QED
      BY <1>4, <2>1, <3>1, <3>2 DEF IsBest
  <2>5. QED
    BY <2>3, <2>4
<1>5. QED
  BY <1>3, <1>4

\* There is only one best
LEMMA BestIsOne ==
    ASSUME NEW locations \in Seq(Location), NEW uri, NEW s \in SUBSET DOMAIN locations,
           NEW b, NEW c, IsBest(b, locations, uri, s), IsBest(c, locations, uri, s)
    PROVE  b = c
<1>1. CASE b = <<>> \/ c = <<>>
  BY <1>1 DEF IsBest
<1>2. CASE b # <<>> /\ c # <<>>
  <2>1. PICK i \in s : /\ Fits(locations, uri, i) /\ b = <<locations[i]>>
                       /\ \A j \in s : Fits(locations, uri, j) => Beats(locations, i, j)
    BY <1>2 DEF IsBest
  <2>2. PICK k \in s : /\ Fits(locations, uri, k) /\ c = <<locations[k]>>
                       /\ \A j \in s : Fits(locations, uri, j) => Beats(locations, k, j)
    BY <1>2 DEF IsBest
  <2>3. Beats(locations, i, k) /\ Beats(locations, k, i)
    BY <2>1, <2>2
  <2>4. /\ i \in Nat /\ k \in Nat
        /\ Len(locations[i].path) \in Nat /\ Len(locations[k].path) \in Nat
    <3>1. locations[i].path \in Seq(STRING) /\ locations[k].path \in Seq(STRING)
      <4>1. locations[i] \in Location /\ locations[k] \in Location
        OBVIOUS
      <4>2. QED
        BY <4>1 DEF Location
    <3>2. QED
      BY <3>1
  <2>5. i = k
    BY <2>3, <2>4 DEF Beats
  <2>6. QED
    BY <2>1, <2>2, <2>5
<1>3. QED
  BY <1>1, <1>2

\* The greatest place in a set of places
LEMMA LastPlace ==
    ASSUME NEW n \in Nat, NEW s \in SUBSET (1 .. n), s # {}
    PROVE  Max(s) \in s /\ \A i \in s : i <= Max(s)
<1> DEFINE T == {n - i : i \in s}
<1>1. T \in SUBSET Nat /\ T # {}
  <2>1. ASSUME NEW i \in s PROVE n - i \in Nat
    OBVIOUS
  <2>2. QED
    BY <2>1
<1>2. PICK t \in T : \A u \in T : t <= u
  BY <1>1, LeastNumber
<1>3. PICK m \in s : t = n - m
  OBVIOUS
<1>4. \A i \in s : i <= m
  <2> SUFFICES ASSUME NEW i \in s PROVE i <= m
    OBVIOUS
  <2>1. n - m <= n - i
    BY <1>2, <1>3
  <2>2. QED
    BY <2>1
<1>5. \E x \in s : \A y \in s : x >= y
  BY <1>4
<1>6. QED
  BY <1>5 DEF Max

\* The function by which the fold goes through sets of places
Goes(g, locations, uri) ==
  g = [s \in SUBSET DOMAIN locations |->
         IF s = {} THEN <<>> ELSE Better(g[s \ {Max(s)}], locations[Max(s)], uri)]

LEMMA GoesIs ==
    ASSUME NEW g, NEW locations, NEW uri, Goes(g, locations, uri), NEW s \in SUBSET DOMAIN locations
    PROVE  g[s] = IF s = {} THEN <<>> ELSE Better(g[s \ {Max(s)}], locations[Max(s)], uri)
BY DEF Goes

LEMMA LastLocation ==
    ASSUME NEW locations \in Seq(Location), NEW s \in SUBSET DOMAIN locations, s # {}
    PROVE  /\ Max(s) \in s /\ \A i \in s : i <= Max(s)
           /\ s \ {Max(s)} \in SUBSET DOMAIN locations /\ s \ {Max(s)} # s
           /\ IsFiniteSet(s)
<1>1. DOMAIN locations = 1 .. Len(locations) /\ Len(locations) \in Nat
  OBVIOUS
<1>2. IsFiniteSet(s)
  <2>1. IsFiniteSet(1 .. Len(locations))
    BY <1>1, FS_Interval
  <2>2. QED
    BY <1>1, <2>1, FS_Subset
<1>3. QED
  BY <1>1, <1>2, LastPlace

LEMMA BestExists ==
    ASSUME NEW locations \in Seq(Location), NEW uri, NEW s \in SUBSET DOMAIN locations
    PROVE  \E b : IsBest(b, locations, uri, s)
<1> DEFINE C == {u \in SUBSET DOMAIN locations : ~\E b : IsBest(b, locations, uri, u)}
<1> SUFFICES ASSUME C # {} PROVE FALSE
  OBVIOUS
<1>1. {} \notin C
  <2>1. IsBest(<<>>, locations, uri, {})
    BY DEF IsBest
  <2>2. QED
    BY <2>1
<1>2. \A u \in C : IsFiniteSet(u)
  BY <1>1, LastLocation
<1>3. PICK u \in C : \A t \in C : ~(t \subseteq u /\ t # u)
  <2> HIDE DEF C
  <2>1. QED
    BY <1>2, SmallestSet
<1>4. /\ Max(u) \in u /\ \A i \in u : i <= Max(u)
      /\ u \ {Max(u)} \in SUBSET DOMAIN locations /\ u \ {Max(u)} # u
  BY <1>1, LastLocation
<1>5. PICK b : IsBest(b, locations, uri, u \ {Max(u)})
  BY <1>3, <1>4
<1>6. IsBest(Better(b, locations[Max(u)], uri), locations, uri, u)
  BY <1>4, <1>5, BetterIsBest
<1>7. QED
  BY <1>6

\* There is such a function, and it finds the best of every set.
LEMMA GoesExists ==
    ASSUME NEW locations \in Seq(Location), NEW uri
    PROVE  \E g : Goes(g, locations, uri)
<1> DEFINE B(s) == CHOOSE b : IsBest(b, locations, uri, s)
           g == [s \in SUBSET DOMAIN locations |-> B(s)]
<1>1. ASSUME NEW s \in SUBSET DOMAIN locations PROVE IsBest(B(s), locations, uri, s)
  BY BestExists
<1>2. ASSUME NEW s \in SUBSET DOMAIN locations, s # {}
      PROVE  B(s) = Better(B(s \ {Max(s)}), locations[Max(s)], uri)
  <2> HIDE DEF B
  <2>1. /\ Max(s) \in s /\ \A i \in s : i <= Max(s)
        /\ s \ {Max(s)} \in SUBSET DOMAIN locations
    BY <1>2, LastLocation
  <2>2. IsBest(B(s \ {Max(s)}), locations, uri, s \ {Max(s)})
    BY <1>1, <2>1
  <2>3. IsBest(Better(B(s \ {Max(s)}), locations[Max(s)], uri), locations, uri, s)
    BY <2>1, <2>2, BetterIsBest
  <2>4. QED
    BY <1>1, <2>3, BestIsOne
<1>3. B({}) = <<>>
  <2> HIDE DEF B
  <2>1. IsBest(<<>>, locations, uri, {})
    BY DEF IsBest
  <2>2. QED
    BY <1>1, <2>1, BestIsOne
<1> HIDE DEF B
<1>4. ASSUME NEW s \in SUBSET DOMAIN locations, s # {}
      PROVE  g[s \ {Max(s)}] = B(s \ {Max(s)})
  OBVIOUS
<1>5. g = [s \in SUBSET DOMAIN locations |->
             IF s = {} THEN <<>> ELSE Better(g[s \ {Max(s)}], locations[Max(s)], uri)]
  BY <1>2, <1>3, <1>4
<1>6. QED
  BY <1>5 DEF Goes

LEMMA GoesToBest ==
    ASSUME NEW locations \in Seq(Location), NEW uri, NEW g, Goes(g, locations, uri),
           NEW s \in SUBSET DOMAIN locations
    PROVE  IsBest(g[s], locations, uri, s)
<1> DEFINE C == {u \in SUBSET DOMAIN locations : ~IsBest(g[u], locations, uri, u)}
<1> SUFFICES ASSUME C # {} PROVE FALSE
  OBVIOUS
<1>1. {} \notin C
  <2>1. g[{}] = <<>>
    BY GoesIs
  <2>2. QED
    BY <2>1 DEF IsBest
<1>2. \A u \in C : IsFiniteSet(u)
  BY <1>1, LastLocation
<1>3. PICK u \in C : \A t \in C : ~(t \subseteq u /\ t # u)
  <2> HIDE DEF C
  <2>1. QED
    BY <1>2, SmallestSet
<1>4. /\ Max(u) \in u /\ \A i \in u : i <= Max(u) /\ u # {}
      /\ u \ {Max(u)} \in SUBSET DOMAIN locations /\ u \ {Max(u)} # u
  BY <1>1, LastLocation
<1>5. IsBest(g[u \ {Max(u)}], locations, uri, u \ {Max(u)})
  BY <1>3, <1>4
<1>6. g[u] = Better(g[u \ {Max(u)}], locations[Max(u)], uri)
  <2>1. u \in SUBSET DOMAIN locations
    OBVIOUS
  <2> HIDE DEF C
  <2>2. g[u] = IF u = {} THEN <<>> ELSE Better(g[u \ {Max(u)}], locations[Max(u)], uri)
    BY <2>1, GoesIs
  <2>3. QED
    BY <1>4, <2>2
<1>7. QED
  BY <1>4, <1>5, <1>6, BetterIsBest

LEMMA LocationIsBest ==
    ASSUME NEW locations \in Seq(Location), NEW uri
    PROVE  IsBest(LocationFor(locations, uri), locations, uri, DOMAIN locations)
<1> DEFINE g == CHOOSE g : Goes(g, locations, uri)
<1>1. Goes(g, locations, uri)
  BY GoesExists
<1>2. LocationFor(locations, uri) = g[DOMAIN locations]
  BY DEF LocationFor, FoldLeft, MapThenFoldSet, Goes, Better
<1>3. QED
  BY <1>1, <1>2, GoesToBest

\* The server block is one of the configuration's
LEMMA ServerIsThere ==
    ASSUME NEW servers \in Seq(ServerBlock), servers # <<>>, NEW host
    PROVE  ServerFor(servers, host) \in DOMAIN servers
<1>1. ASSUME NEW s \in SUBSET DOMAIN servers, s # {} PROVE Min(s) \in s
  <2>1. s \in SUBSET Nat
    OBVIOUS
  <2>2. \E x \in s : \A y \in s : x <= y
    BY <1>1, <2>1, LeastNumber
  <2>3. QED
    BY <2>2 DEF Min
<1>2. Named(servers, host) \in SUBSET DOMAIN servers /\ Listening(servers) \in SUBSET DOMAIN servers
  BY DEF Named, Listening
<1>3. 1 \in DOMAIN servers
  OBVIOUS
<1>4. QED
  BY <1>1, <1>2, <1>3 DEF ServerFor

\* The configuration is one of those it may be, and does not change.
ConfigInv == config \in [servers : ServerBlocks, cache : BOOLEAN, compress : BOOLEAN]

LEMMA ConfigInvariance == HttpsSpec => []ConfigInv
<1>1. HttpsInit => ConfigInv
  BY DEF HttpsInit, ConfigInv
<1>2. ConfigInv /\ [HttpsNext]_httpsVars => ConfigInv'
  <2>1. [HttpsNext]_httpsVars => UNCHANGED config
    BY DEF HttpsNext, httpsVars, RequestArrives, ReadFails, BadRequest, NoServerBlock, Route,
           ProxyConnects, ProxyFails, HeadRelayed, HeadMissed, BodyRelayed, Relayed,
           RelayBreaks, ProxyLogged, BadGateway, Stat, Open, Compress, NotCompressed, CacheLookup,
           SendHead, SendBody, StoreInCache, RequestEnds, FileChanges, world
  <2>2. QED
    BY <2>1 DEF ConfigInv
<1>3. QED
  BY <1>1, <1>2, PTL DEF HttpsSpec

\* In every configuration, with any number of server blocks and locations, a
\* request gets the first of the longest locations that its uri begins with,
\* and none only if no location with a path fits.
THEOREM RouteIsBest == HttpsSpec => []RoutedBest
<1>1. ConfigInv => RoutedBest
  <2> SUFFICES ASSUME ConfigInv, config.servers # <<>> PROVE RoutedBest
    BY DEF RoutedBest
  <2> DEFINE locations == config.servers[ServerFor(config.servers, req.host)].locations
             matches == {i \in DOMAIN locations : /\ locations[i].path # <<>>
                                                 /\ IsPrefix(locations[i].path, req.uri)}
             best == find_route(config.servers, req.host, req.uri)
  <2>1. config.servers \in Seq(ServerBlock)
    BY HttpsAssumption DEF ConfigInv
  <2>2. config.servers[ServerFor(config.servers, req.host)] \in ServerBlock
    BY <2>1, ServerIsThere
  <2>3. locations \in Seq(Location)
    BY <2>2 DEF ServerBlock
  <2>4. best = LocationFor(locations, req.uri)
    BY DEF find_route
  <2>5. matches = {i \in DOMAIN locations : Fits(locations, req.uri, i)}
    BY DEF Fits
  <2>6. IsBest(best, locations, req.uri, DOMAIN locations)
    <3> HIDE DEF locations, best
    <3>1. QED
      BY <2>3, <2>4, LocationIsBest
  <2>7. IF best = <<>> THEN matches = {}
        ELSE \E i \in matches :
               /\ best = <<locations[i]>>
               /\ \A j \in matches :
                    \/ Len(locations[j].path) < Len(locations[i].path)
                    \/ Len(locations[j].path) = Len(locations[i].path) /\ i <= j
    <3> HIDE DEF locations, best, matches
    <3>1. CASE best = <<>>
      BY <2>5, <2>6, <3>1 DEF IsBest
    <3>2. CASE best # <<>>
      <4>1. PICK i \in DOMAIN locations :
              /\ Fits(locations, req.uri, i) /\ best = <<locations[i]>>
              /\ \A j \in DOMAIN locations :
                   Fits(locations, req.uri, j) => Beats(locations, i, j)
        BY <2>6, <3>2 DEF IsBest
      <4>2. i \in matches /\ \A j \in matches : Beats(locations, i, j)
        BY <2>5, <4>1
      <4>3. QED
        BY <3>2, <4>1, <4>2 DEF Beats
    <3>3. QED
      BY <3>1, <3>2
  <2>8. QED
    BY <2>7, Zenon DEF RoutedBest
<1>2. QED
  BY ConfigInvariance, <1>1, PTL

------------------------------------------------------------------------------
(***************************************************************************)
(* UpstreamGroup: weights                                                  *)
(***************************************************************************)

ServerRecord == [weight : Nat, current_weight : Int, effective_weight : Nat, available : BOOLEAN]
WeightsOf(V) == [s \in Addresses |-> V[s].weight]
Total(f) == SumFunctionOnSet(f, Addresses)

\* A group G and its servers V: the list and the counts agree, and what is not
\* in the list weighs nothing
MembersOk(G, V) ==
  /\ G.servers \in Seq(Addresses) /\ NoRepeats(G.servers)
  /\ G.server_count = Len(G.servers)
  /\ G.total_weight = Total(WeightsOf(V))
  /\ V \in [Addresses -> ServerRecord]
  /\ \A s \in ToSet(G.servers) : V[s].weight > 0 /\ V[s].effective_weight = V[s].weight
  /\ \A s \in Addresses \ ToSet(G.servers) : V[s] = NoServer

\* After n of the total_weight picks of a round a current weight is n times the
\* weight less the total for each time the server was picked, and no server
\* was picked more often than it weighs
RoundOk(G, V, P) ==
  P # Broken =>
    /\ P \in [Addresses -> Nat]
    /\ Total(P) = 0 \/ Total(P) < G.total_weight
    /\ \A s \in Addresses :
         /\ V[s].current_weight = Total(P) * V[s].weight - G.total_weight * P[s]
         /\ P[s] <= V[s].weight

GroupRecord == [servers : Seq(Addresses), server_count : Nat, total_weight : Nat]

OneGroup(G, V, P) ==
  /\ MembersOk(G, V) /\ RoundOk(G, V, P)
  /\ G \in GroupRecord /\ P \in [Addresses -> Int]

AllGroups(G, V, P) ==
  /\ G \in [GroupNames -> GroupRecord]
  /\ V \in [GroupNames -> [Addresses -> ServerRecord]]
  /\ P \in [GroupNames -> [Addresses -> Int]]
  /\ \A g \in GroupNames : OneGroup(G[g], V[g], P[g])

LoaderInv ==
  /\ blocks \in Seq(UpstreamBlock)
  /\ loading = NoBlock \/ loading \in UpstreamBlock
  /\ groups \in Seq(GroupNames) /\ NoRepeats(groups) /\ group_count = Len(groups)

GroupInv == LoaderInv /\ AllGroups(group, server, picks)

\* A group with one server more
Longer(G, s, weight) ==
  [servers |-> <<s>> \o G.servers, server_count |-> G.server_count + 1,
   total_weight |-> G.total_weight + weight]
Changed(V, s, R) == [V EXCEPT ![s] = R]

LEMMA MembersAdd ==
    ASSUME NEW G, NEW V, MembersOk(G, V), NEW s \in Addresses, s \notin ToSet(G.servers),
           NEW weight \in Nat, weight # 0,
           NEW R \in ServerRecord, R.weight = weight, R.effective_weight = weight, NEW G2, NEW V2,
           G2 = Longer(G, s, weight), V2 = Changed(V, s, R)
    PROVE  MembersOk(G2, V2) /\ G2 \in GroupRecord
<1> DEFINE list == G.servers
           longer == <<s>> \o list
<1>0. /\ G2 = [servers |-> <<s>> \o G.servers, server_count |-> G.server_count + 1,
               total_weight |-> G.total_weight + weight]
      /\ V2 = [V EXCEPT ![s] = R]
  BY DEF Longer, Changed
<1>1. list \in Seq(Addresses) /\ NoRepeats(list) /\ s \notin ToSet(list)
  BY DEF MembersOk
<1>2. /\ longer \in Seq(Addresses) /\ Len(longer) = Len(list) + 1 /\ Len(list) \in Nat
      /\ ToSet(longer) = ToSet(list) \cup {s} /\ NoRepeats(longer)
  <2> HIDE DEF list
  <2>1. QED
    BY <1>1, ConsIs
<1>3. G2.servers = longer /\ G2.server_count = Len(longer)
  BY <1>0, <1>2 DEF MembersOk
<1>4. V2 \in [Addresses -> ServerRecord] /\ V \in [Addresses -> ServerRecord]
  BY <1>0 DEF MembersOk, ServerRecord
<1>5. V[s] = NoServer
  BY <1>1 DEF MembersOk
<1>6. /\ Total(WeightsOf(V2)) + 0 = Total(WeightsOf(V)) + weight
      /\ Total(WeightsOf(V2)) \in Nat /\ Total(WeightsOf(V)) \in Nat
  <2>1. /\ \A t \in Addresses : WeightsOf(V)[t] \in Nat /\ WeightsOf(V2)[t] \in Nat
        /\ \A t \in Addresses \ {s} : WeightsOf(V2)[t] = WeightsOf(V)[t]
        /\ WeightsOf(V)[s] = 0 /\ WeightsOf(V2)[s] = weight
    BY <1>0, <1>4, <1>5 DEF WeightsOf, ServerRecord, NoServer
  <2> DEFINE f == WeightsOf(V)
             h == WeightsOf(V2)
  <2> HIDE DEF f, h
  <2>2. /\ Total(h) + f[s] = Total(f) + h[s] /\ Total(f) \in Nat /\ Total(h) \in Nat
    <3>1. /\ \A t \in Addresses : f[t] \in Nat /\ h[t] \in Nat
          /\ \A t \in Addresses \ {s} : h[t] = f[t]
      BY <2>1 DEF f, h
    <3>2. QED
      BY <3>1, SumChange, UpstreamAssumption DEF Total
  <2>3. QED
    BY <2>1, <2>2 DEF f, h
<1>7. G2.total_weight = Total(WeightsOf(V2)) /\ G2.total_weight \in Nat
  BY <1>0, <1>6 DEF MembersOk
<1>8. ASSUME NEW t \in ToSet(longer) PROVE V2[t].weight > 0 /\ V2[t].effective_weight = V2[t].weight
  <2>1. t \in Addresses
    BY <1>2 DEF ToSet
  <2>2. CASE t = s
    BY <1>0, <1>4, <2>2 DEF MembersOk
  <2>3. CASE t # s
    <3>1. V2[t] = V[t] /\ t \in ToSet(list)
      BY <1>0, <1>2, <1>4, <1>8, <2>1, <2>3
    <3>2. QED
      BY <3>1 DEF MembersOk
  <2>4. QED
    BY <2>2, <2>3
<1>9. ASSUME NEW t \in Addresses \ ToSet(longer) PROVE V2[t] = NoServer
  <2>1. t # s /\ t \in Addresses \ ToSet(list) /\ V2[t] = V[t]
    BY <1>0, <1>2, <1>4, <1>9
  <2>2. QED
    BY <2>1 DEF MembersOk
<1>10. G2 \in GroupRecord
  <2>1. G2.server_count \in Nat
    BY <1>2, <1>3
  <2>2. QED
    BY <1>0, <1>2, <1>7, <2>1 DEF GroupRecord
<1> HIDE DEF longer
<1>11. QED
  BY <1>2, <1>3, <1>4, <1>7, <1>8, <1>9, <1>10 DEF MembersOk

LEMMA MembersRemove ==
    ASSUME NEW G, NEW V, MembersOk(G, V), NEW s \in ToSet(G.servers), NEW G2, NEW V2,
           G2 = [servers |-> RemoveFirst(G.servers, s), server_count |-> G.server_count - 1,
                 total_weight |-> G.total_weight - V[s].weight],
           V2 = [V EXCEPT ![s] = NoServer]
    PROVE  MembersOk(G2, V2) /\ G2 \in GroupRecord
<1> DEFINE list == G.servers
           shorter == RemoveFirst(list, s)
<1>1. list \in Seq(Addresses) /\ NoRepeats(list) /\ s \in ToSet(list) /\ s \in Addresses
  BY DEF MembersOk, ToSet
<1>2. /\ shorter \in Seq(Addresses) /\ Len(shorter) = Len(list) - 1
      /\ ToSet(shorter) = ToSet(list) \ {s} /\ NoRepeats(shorter)
  <2> HIDE DEF list
  <2>1. shorter \in Seq(Addresses) /\ Len(shorter) = Len(list) - 1
    BY <1>1, RemoveFirstAt
  <2>2. ToSet(shorter) \subseteq ToSet(list) /\ ToSet(list) \subseteq ToSet(shorter) \cup {s}
    BY <1>1, RemoveFirstIs
  <2>3. NoRepeats(shorter) /\ s \notin ToSet(shorter)
    BY <1>1, RepeatsRemove
  <2>4. QED
    BY <2>1, <2>2, <2>3
<1>3. G2.servers = shorter /\ G2.server_count = Len(shorter) /\ Len(shorter) \in Nat
  BY <1>2 DEF MembersOk
<1>4. V2 \in [Addresses -> ServerRecord] /\ V \in [Addresses -> ServerRecord]
  BY <1>1 DEF MembersOk, ServerRecord, NoServer
<1>5. /\ Total(WeightsOf(V2)) + V[s].weight = Total(WeightsOf(V)) + 0
      /\ Total(WeightsOf(V2)) \in Nat /\ Total(WeightsOf(V)) \in Nat
  <2>1. /\ \A t \in Addresses : WeightsOf(V)[t] \in Nat /\ WeightsOf(V2)[t] \in Nat
        /\ \A t \in Addresses \ {s} : WeightsOf(V2)[t] = WeightsOf(V)[t]
        /\ WeightsOf(V)[s] = V[s].weight /\ WeightsOf(V2)[s] = 0
    BY <1>1, <1>4 DEF WeightsOf, ServerRecord, NoServer
  <2> DEFINE f == WeightsOf(V)
             h == WeightsOf(V2)
  <2> HIDE DEF f, h
  <2>2. /\ Total(h) + f[s] = Total(f) + h[s] /\ Total(f) \in Nat /\ Total(h) \in Nat
    <3>1. /\ \A t \in Addresses : f[t] \in Nat /\ h[t] \in Nat
          /\ \A t \in Addresses \ {s} : h[t] = f[t]
      BY <2>1 DEF f, h
    <3>2. QED
      BY <1>1, <3>1, SumChange, UpstreamAssumption DEF Total
  <2>3. QED
    BY <2>1, <2>2 DEF f, h
<1>6. G2.total_weight = Total(WeightsOf(V2)) /\ G2.total_weight \in Nat
  <2>1. V[s].weight \in Nat
    BY <1>1, <1>4 DEF ServerRecord
  <2>2. QED
    BY <1>5, <2>1 DEF MembersOk
<1>7. ASSUME NEW t \in ToSet(shorter) PROVE V2[t].weight > 0 /\ V2[t].effective_weight = V2[t].weight
  <2>1. t \in ToSet(list) /\ t # s /\ t \in Addresses
    BY <1>1, <1>2, <1>7 DEF ToSet
  <2>2. V2[t] = V[t]
    BY <1>4, <2>1
  <2>3. QED
    BY <2>1, <2>2 DEF MembersOk
<1>8. ASSUME NEW t \in Addresses \ ToSet(shorter) PROVE V2[t] = NoServer
  <2>1. CASE t = s
    BY <1>1, <1>4, <2>1 DEF MembersOk
  <2>2. CASE t # s
    <3>1. t \in Addresses \ ToSet(list) /\ V2[t] = V[t]
      BY <1>2, <1>4, <1>8, <2>2
    <3>2. QED
      BY <3>1 DEF MembersOk
  <2>3. QED
    BY <2>1, <2>2
<1> HIDE DEF shorter
<1>9. QED
  BY <1>2, <1>3, <1>4, <1>6, <1>7, <1>8 DEF MembersOk, GroupRecord

\* A round starts, or is broken off.
LEMMA RoundStarts ==
    ASSUME NEW G, NEW V, MembersOk(G, V), G.total_weight \in Nat,
           \A s \in ToSet(G.servers) : V[s].current_weight = 0
    PROVE  RoundOk(G, V, NoPicks) /\ NoPicks \in [Addresses -> Int]
<1>1. NoPicks \in [Addresses -> Nat] /\ \A s \in Addresses : NoPicks[s] = 0
  BY DEF NoPicks
<1>2. Total(NoPicks) = 0
  BY <1>1, SumZero, UpstreamAssumption DEF Total
<1>3. ASSUME NEW s \in Addresses
      PROVE  /\ V[s].current_weight = Total(NoPicks) * V[s].weight - G.total_weight * NoPicks[s]
             /\ NoPicks[s] <= V[s].weight
  <2>1. V[s].current_weight = 0 /\ V[s].weight \in Nat
    <3>1. CASE s \in ToSet(G.servers)
      BY <3>1 DEF MembersOk, ServerRecord
    <3>2. CASE s \notin ToSet(G.servers)
      BY <3>2 DEF MembersOk, NoServer
    <3>3. QED
      BY <3>1, <3>2
  <2>2. NoPicks[s] = 0
    BY <1>1
  <2>3. 0 * V[s].weight = 0 /\ G.total_weight * 0 = 0
    BY <2>1
  <2>4. QED
    BY <1>2, <2>1, <2>2, <2>3
<1>4. QED
  BY <1>1, <1>2, <1>3 DEF RoundOk

\* The weights and the gains do not change with a pick.
LEMMA MembersPick ==
    ASSUME NEW G, NEW V, MembersOk(G, V), NEW V2 \in [Addresses -> ServerRecord],
           \A s \in Addresses : V2[s].weight = V[s].weight,
           \A s \in ToSet(G.servers) : V2[s].effective_weight = V[s].effective_weight,
           \A s \in Addresses \ ToSet(G.servers) : V2[s] = V[s]
    PROVE  MembersOk(G, V2)
<1>1. WeightsOf(V2) = WeightsOf(V)
  BY DEF WeightsOf
<1>2. \A s \in ToSet(G.servers) : s \in Addresses
  BY DEF MembersOk, ToSet
<1>3. QED
  BY <1>1, <1>2 DEF MembersOk

\* One pick more, and picks that reach every weight
LEMMA PickCounted ==
    ASSUME NEW P \in [Addresses -> Nat], NEW best \in Addresses, NEW after \in [Addresses -> Nat],
           after[best] = P[best] + 1, \A y \in Addresses \ {best} : after[y] = P[y]
    PROVE  Total(after) = Total(P) + 1
<1>1. /\ \A y \in Addresses : P[y] \in Nat /\ after[y] \in Nat
      /\ \A y \in Addresses \ {best} : after[y] = P[y]
      /\ after[best] = P[best] + 1 /\ P[best] \in Nat
  OBVIOUS
<1>2. /\ SumFunctionOnSet(after, Addresses) + P[best] = SumFunctionOnSet(P, Addresses) + after[best]
      /\ SumFunctionOnSet(P, Addresses) \in Nat /\ SumFunctionOnSet(after, Addresses) \in Nat
  <2>1. IsFiniteSet(Addresses)
    BY UpstreamAssumption
  <2>2. QED
    BY <1>1, <2>1, SumChange
<1>3. QED
  BY <1>1, <1>2 DEF Total

LEMMA TotalScaled ==
    ASSUME NEW f, NEW g, NEW c \in Nat, \A y \in Addresses : f[y] \in Nat /\ g[y] = c * f[y]
    PROVE  Total(g) = c * Total(f)
BY SumScale, UpstreamAssumption DEF Total

LEMMA PicksReachWeights ==
    ASSUME NEW P, NEW W, \A y \in Addresses : P[y] \in Nat /\ W[y] \in Nat /\ P[y] <= W[y],
           Total(P) = Total(W)
    PROVE  \A s \in Addresses : P[s] = W[s]
<1>1. IsFiniteSet(Addresses)
  BY UpstreamAssumption
<1>2. SumFunctionOnSet(P, Addresses) = SumFunctionOnSet(W, Addresses)
  BY DEF Total
<1>3. QED
  BY <1>1, <1>2, SumTight

\* A pick of the server that has gained most.  If none had gained anything
\* this round's picks would weigh more than the total.
LEMMA RoundGoesOn ==
    ASSUME NEW G, NEW V, NEW P, MembersOk(G, V), G.total_weight \in Nat, RoundOk(G, V, P), P # Broken,
           NEW best \in ToSet(G.servers),
           \A t \in ToSet(G.servers) : V[best].current_weight + V[best].effective_weight
                                        >= V[t].current_weight + V[t].effective_weight,
           NEW V2, MembersOk(G, V2),
           \A s \in ToSet(G.servers) :
             /\ V2[s].weight = V[s].weight
             /\ V2[s].current_weight = (V[s].current_weight + V[s].effective_weight)
                                       - (IF s = best THEN G.total_weight ELSE 0),
           NEW after \in [Addresses -> Nat],
           after[best] = P[best] + 1, \A s \in Addresses \ {best} : after[s] = P[s]
    PROVE  /\ Total(after) = G.total_weight => RoundOk(G, V2, NoPicks)
           /\ Total(after) # G.total_weight => RoundOk(G, V2, after)
           /\ after \in [Addresses -> Int]
<1> DEFINE W == WeightsOf(V)
           T == G.total_weight
           n == Total(P)
<1>1. /\ P \in [Addresses -> Nat] /\ best \in Addresses
      /\ \A s \in ToSet(G.servers) : s \in Addresses
      /\ n = 0 \/ n < T
      /\ \A s \in Addresses : V[s].current_weight = n * V[s].weight - T * P[s] /\ P[s] <= V[s].weight
  BY DEF RoundOk, MembersOk, ToSet
<1>2. /\ \A s \in Addresses : W[s] = V[s].weight /\ W[s] \in Nat
      /\ \A s \in ToSet(G.servers) : V[s].effective_weight = W[s] /\ W[s] > 0
      /\ \A s \in Addresses \ ToSet(G.servers) : W[s] = 0
      /\ T = Total(W)
  BY <1>1 DEF MembersOk, WeightsOf, ServerRecord, NoServer
<1>3. n \in Nat
  BY <1>1, SumNat, UpstreamAssumption DEF Total
<1>4. /\ \A s \in Addresses : V[s].current_weight = n * W[s] - T * P[s] /\ P[s] <= W[s]
      /\ \A s \in ToSet(G.servers) : V[s].effective_weight = W[s]
  BY <1>1, <1>2
<1> HIDE DEF W, n
<1>5. T > 0
  <2>1. Total(W) = W[best] + SumFunctionOnSet(W, Addresses \ {best})
    <3>1. IsFiniteSet(Addresses) /\ best \in Addresses /\ \A s \in Addresses : W[s] \in Nat
      BY <1>1, <1>2, UpstreamAssumption
    <3>2. QED
      BY <3>1, SumRemove DEF Total
  <2>2. SumFunctionOnSet(W, Addresses \ {best}) \in Nat
    <3>1. IsFiniteSet(Addresses \ {best}) /\ \A s \in Addresses \ {best} : W[s] \in Nat
      BY <1>2, FS_Subset, UpstreamAssumption
    <3>2. QED
      BY <3>1, SumNat
  <2>3. W[best] \in Nat /\ W[best] > 0
    BY <1>1, <1>2
  <2> HIDE DEF T
  <2>4. QED
    BY <1>2, <2>1, <2>2, <2>3
<1>6. n < T /\ n + 1 \in Nat
  BY <1>1, <1>3, <1>5
<1>7. \A s \in Addresses : /\ n * W[s] \in Nat /\ T * P[s] \in Nat /\ (n + 1) * W[s] \in Nat
                           /\ (n + 1) * W[s] = n * W[s] + W[s]
  <2> SUFFICES ASSUME NEW s \in Addresses
               PROVE  /\ n * W[s] \in Nat /\ T * P[s] \in Nat /\ (n + 1) * W[s] \in Nat
                      /\ (n + 1) * W[s] = n * W[s] + W[s]
    OBVIOUS
  <2>1. W[s] \in Nat /\ P[s] \in Nat
    BY <1>1, <1>2
  <2>2. n * W[s] \in Nat /\ T * P[s] \in Nat /\ (n + 1) * W[s] \in Nat
    BY <1>3, <1>6, <2>1, Product
  <2>3. W[s] * (n + 1) = W[s] * n + W[s]
    <3>1. W[s] * (n + 1) = W[s] * n + W[s] * 1
      BY <1>3, <2>1, Product
    <3>2. QED
      BY <2>1, <3>1
  <2>4. (n + 1) * W[s] = W[s] * (n + 1) /\ n * W[s] = W[s] * n
    BY <1>3, <2>1
  <2>5. QED
    BY <2>2, <2>3, <2>4
<1>8. (n + 1) * W[best] > T * P[best]
  <2> SUFFICES ASSUME (n + 1) * W[best] <= T * P[best] PROVE FALSE
    BY <1>1, <1>7
  <2>1. ASSUME NEW s \in Addresses PROVE (n + 1) * W[s] <= T * P[s]
    <3>1. CASE s \in ToSet(G.servers)
      <4> DEFINE a == n * W[s]
                 b == T * P[s]
                 c == n * W[best]
                 d == T * P[best]
      <4>1. a \in Nat /\ b \in Nat /\ c \in Nat /\ d \in Nat /\ W[s] \in Nat /\ W[best] \in Nat
        BY <1>1, <1>2, <1>7
      <4>2. (c - d) + W[best] >= (a - b) + W[s]
        BY <1>1, <1>4, <3>1
      <4>3. c + W[best] <= d
        BY <1>1, <1>7
      <4>4. (n + 1) * W[s] = a + W[s]
        BY <1>7
      <4> HIDE DEF a, b, c, d
      <4>5. a + W[s] <= b
        BY <4>1, <4>2, <4>3
      <4>6. QED
        BY <4>4, <4>5 DEF b
    <3>2. CASE s \notin ToSet(G.servers)
      <4>1. W[s] = 0 /\ (n + 1) * 0 = 0 /\ T * P[s] \in Nat
        BY <1>2, <1>6, <1>7, <3>2
      <4>2. QED
        BY <4>1
    <3>3. QED
      BY <3>1, <3>2
  <2> DEFINE f == [s \in Addresses |-> (n + 1) * W[s]]
             h == [s \in Addresses |-> T * P[s]]
  <2>2. /\ \A s \in Addresses : f[s] \in Nat /\ h[s] \in Nat /\ f[s] <= h[s]
        /\ \A s \in Addresses : W[s] \in Nat /\ f[s] = (n + 1) * W[s]
        /\ \A s \in Addresses : P[s] \in Nat /\ h[s] = T * P[s]
    BY <1>1, <1>2, <1>7, <2>1
  <2> HIDE DEF f, h
  <2>3. Total(f) <= Total(h)
    BY <2>2, SumLess, UpstreamAssumption DEF Total
  <2>4. Total(f) = (n + 1) * Total(W)
    BY <1>6, <2>2, TotalScaled
  <2>5. Total(h) = T * Total(P)
    BY <2>2, TotalScaled
  <2>6. (n + 1) * T <= T * n
    BY <1>2, <2>3, <2>4, <2>5 DEF n
  <2> HIDE DEF T
  <2>7. T * (n + 1) = T * n + T /\ T * n \in Nat /\ T \in Nat
    <3>1. T \in Nat
      BY DEF T
    <3>2. T * (n + 1) = T * n + T * 1
      BY <1>3, <3>1, Product
    <3>3. QED
      BY <1>3, <3>1, <3>2, Product
  <2>8. (n + 1) * T = T * (n + 1)
    BY <1>3, <2>7
  <2>9. QED
    BY <1>5, <2>6, <2>7, <2>8
<1>9. P[best] + 1 <= W[best]
  <2>1. P[best] \in Nat /\ W[best] \in Nat
    BY <1>1, <1>2
  <2>2. W[best] * (n + 1) <= W[best] * T
    BY <1>3, <1>6, <2>1, Product
  <2>3. (n + 1) * W[best] = W[best] * (n + 1) /\ T * W[best] = W[best] * T
    BY <1>3, <2>1
  <2>4. T * P[best] < T * W[best]
    <3> HIDE DEF T
    <3>1. /\ T * P[best] \in Nat /\ T * W[best] \in Nat /\ (n + 1) * W[best] \in Nat
      <4>1. T \in Nat
        BY DEF T
      <4>2. QED
        BY <1>6, <2>1, <4>1, Product
    <3>2. QED
      BY <1>8, <2>2, <2>3, <3>1
  <2>5. ~(W[best] <= P[best])
    <3> SUFFICES ASSUME W[best] <= P[best] PROVE FALSE
      OBVIOUS
    <3>1. T * W[best] <= T * P[best]
      BY <2>1, Product
    <3>2. T * P[best] \in Nat /\ T * W[best] \in Nat
      BY <2>1, Product
    <3>3. QED
      BY <2>4, <3>1, <3>2
  <2>6. QED
    BY <2>1, <2>5
<1>10. /\ after \in [Addresses -> Nat] /\ after[best] = P[best] + 1
       /\ \A s \in Addresses \ {best} : after[s] = P[s]
  BY <1>1
<1>11. Total(after) = n + 1
  BY <1>1, <1>10, PickCounted DEF n
<1>12. ASSUME NEW s \in Addresses
       PROVE  /\ V2[s].weight = W[s] /\ after[s] <= W[s]
              /\ V2[s].current_weight = (n + 1) * W[s] - T * after[s]
  <2>1. CASE s \in ToSet(G.servers)
    <3>1. after[s] <= W[s]
      BY <1>4, <1>9, <1>10
    <3>2. V2[s].weight = W[s]
      BY <1>2, <2>1
    <3>3. V2[s].current_weight = ((n * W[s] - T * P[s]) + W[s]) - (IF s = best THEN T ELSE 0)
      <4>1. V2[s].current_weight = (V[s].current_weight + V[s].effective_weight)
                                   - (IF s = best THEN T ELSE 0)
        BY <2>1, Zenon DEF T
      <4>2. V[s].effective_weight = W[s] /\ V[s].current_weight = n * W[s] - T * P[s]
        BY <1>4, <2>1
      <4> HIDE DEF T
      <4>3. QED
        BY <4>1, <4>2
    <3>4. T * after[s] = T * P[s] + (IF s = best THEN T ELSE 0)
      <4>1. CASE s = best
        <5>1. T * (P[s] + 1) = T * P[s] + T * 1
          <6>1. T \in Int /\ P[s] \in Int /\ 1 \in Int
            BY <1>1
          <6> HIDE DEF T
          <6>2. QED
            BY <6>1, Product
        <5>2. QED
          BY <1>10, <4>1, <5>1
      <4>2. CASE s # best
        <5>1. after[s] = P[s] /\ T * P[s] \in Nat
          BY <1>7, <1>10, <4>2
        <5>2. QED
          BY <4>2, <5>1
      <4>3. QED
        BY <4>1, <4>2
    <3> DEFINE a == n * W[s]
               b == T * P[s]
               c == T * after[s]
               t == IF s = best THEN T ELSE 0
               d == (n + 1) * W[s]
    <3>5. d = a + W[s] /\ a \in Nat /\ b \in Nat /\ W[s] \in Nat /\ t \in Nat /\ c = b + t
      BY <1>2, <1>7, <3>4
    <3>6. V2[s].current_weight = ((a - b) + W[s]) - t
      BY <3>3
    <3> HIDE DEF a, b, c, d, t
    <3>7. V2[s].current_weight = d - c
      BY <3>5, <3>6
    <3>8. QED
      BY <3>1, <3>2, <3>7 DEF c, d
  <2>2. CASE s \notin ToSet(G.servers)
    <3>1. V2[s] = NoServer /\ W[s] = 0 /\ P[s] = 0 /\ after[s] = P[s]
      <4>1. V2[s] = NoServer /\ s # best /\ W[s] = 0
        BY <1>2, <2>2 DEF MembersOk
      <4>2. P[s] \in Nat /\ P[s] <= 0
        BY <1>1, <1>4, <4>1
      <4>3. QED
        BY <1>10, <4>1, <4>2
    <3>2. (n + 1) * 0 = 0 /\ T * 0 = 0
      BY <1>6
    <3>3. QED
      BY <3>1, <3>2 DEF NoServer
  <2>3. QED
    BY <2>1, <2>2
<1>13. CASE Total(after) = T
  <2>1. \A s \in Addresses : after[s] = W[s]
    <3>1. \A s \in Addresses : after[s] \in Nat /\ W[s] \in Nat /\ after[s] <= W[s]
      BY <1>2, <1>10, <1>12
    <3>2. Total(after) = Total(W)
      BY <1>2, <1>13
    <3>3. QED
      BY <3>1, <3>2, PicksReachWeights
  <2>2. ASSUME NEW s \in ToSet(G.servers) PROVE V2[s].current_weight = 0
    <3>1. s \in Addresses /\ after[s] = W[s] /\ n + 1 = T
      BY <1>1, <1>11, <1>13, <2>1
    <3>2. V2[s].current_weight = T * W[s] - T * W[s] /\ T * W[s] \in Nat
      BY <1>2, <1>12, <3>1, Product
    <3>3. QED
      BY <3>2
  <2>3. RoundOk(G, V2, NoPicks)
    BY <2>2, RoundStarts
  <2>4. QED
    BY <1>10, <1>13, <2>3
<1>14. CASE Total(after) # T
  <2>1. n + 1 < T
    BY <1>3, <1>6, <1>11, <1>14
  <2>2. \A s \in Addresses :
          /\ V2[s].current_weight = Total(after) * V2[s].weight - T * after[s]
          /\ after[s] <= V2[s].weight
    BY <1>11, <1>12
  <2>3. RoundOk(G, V2, after)
    BY <1>10, <1>11, <2>1, <2>2 DEF RoundOk
  <2>4. QED
    BY <1>10, <1>14, <2>3
<1>15. QED
  BY <1>13, <1>14

\* The same for the group another is taken from
LEMMA OneChanges ==
    ASSUME NEW G, NEW V, NEW P, AllGroups(G, V, P), NEW g \in GroupNames,
           NEW G2, NEW V2, NEW P2, OneGroup(G2, V2, P2), NEW G3, NEW V3, NEW P3,
           G3 = [G EXCEPT ![g] = G2], V3 = [V EXCEPT ![g] = V2], P3 = [P EXCEPT ![g] = P2]
    PROVE  AllGroups(G3, V3, P3)
<1>1. G2 \in GroupRecord /\ V2 \in [Addresses -> ServerRecord] /\ P2 \in [Addresses -> Int]
  BY DEF OneGroup, MembersOk
<1>2. /\ G3 \in [GroupNames -> GroupRecord]
      /\ V3 \in [GroupNames -> [Addresses -> ServerRecord]]
      /\ P3 \in [GroupNames -> [Addresses -> Int]]
  BY <1>1 DEF AllGroups
<1>3. ASSUME NEW h \in GroupNames PROVE OneGroup(G3[h], V3[h], P3[h])
  <2>1. CASE h = g
    <3>1. G3[h] = G2 /\ V3[h] = V2 /\ P3[h] = P2
      BY <2>1 DEF AllGroups
    <3>2. QED
      BY <3>1
  <2>2. CASE h # g
    <3>1. G3[h] = G[h] /\ V3[h] = V[h] /\ P3[h] = P[h]
      BY <2>2 DEF AllGroups
    <3>2. QED
      BY <3>1 DEF AllGroups
  <2>3. QED
    BY <2>1, <2>2
<1>4. QED
  BY <1>2, <1>3 DEF AllGroups

\* What RoundBreaks makes of the picks
LEMMA RoundBroken ==
    ASSUME NEW G, NEW V, MembersOk(G, V), G \in GroupRecord, NEW P,
           P = NoPicks \/ P = Broken,
           P = NoPicks => \A s \in ToSet(G.servers) : V[s].current_weight = 0
    PROVE  OneGroup(G, V, P)
<1>1. CASE P = Broken
  BY <1>1 DEF OneGroup, RoundOk, Broken
<1>2. CASE P = NoPicks
  <2>1. G.total_weight \in Nat
    BY DEF GroupRecord
  <2>2. RoundOk(G, V, NoPicks) /\ NoPicks \in [Addresses -> Int]
    BY <1>2, <2>1, RoundStarts
  <2>3. QED
    BY <1>2, <2>2 DEF OneGroup
<1>3. QED
  BY <1>1, <1>2

\* Before anything is loaded
LEMMA NothingLoaded ==
    AllGroups([g \in GroupNames |-> NoGroup], [g \in GroupNames |-> [s \in Addresses |-> NoServer]],
              [g \in GroupNames |-> NoPicks])
<1> DEFINE V == [s \in Addresses |-> NoServer]
<1>1. Total(WeightsOf(V)) = 0
  <2>1. \A s \in Addresses : WeightsOf(V)[s] = 0
    BY DEF WeightsOf, NoServer
  <2> HIDE DEF V
  <2>2. QED
    BY <2>1, SumZero, UpstreamAssumption DEF Total
<1>2. NoGroup \in GroupRecord /\ ToSet(NoGroup.servers) = {} /\ NoRepeats(NoGroup.servers)
  BY DEF NoGroup, GroupRecord, ToSet, NoRepeats
<1>3. V \in [Addresses -> ServerRecord]
  BY DEF NoServer, ServerRecord
<1>4. MembersOk(NoGroup, V)
  <2>1. \A s \in Addresses : V[s] = NoServer
    OBVIOUS
  <2>2. NoGroup.servers = <<>> /\ NoGroup.server_count = 0 /\ NoGroup.total_weight = 0
    BY DEF NoGroup
  <2> HIDE DEF V
  <2>3. QED
    BY <1>1, <1>2, <1>3, <2>1, <2>2 DEF MembersOk
<1>5. OneGroup(NoGroup, V, NoPicks)
  <2>1. \A s \in ToSet(NoGroup.servers) : V[s].current_weight = 0
    BY <1>2
  <2> HIDE DEF V
  <2>2. QED
    BY <1>2, <1>4, <2>1, RoundBroken
<1>6. NoPicks \in [Addresses -> Int]
  BY DEF NoPicks
<1>7. QED
  BY <1>2, <1>3, <1>5, <1>6 DEF AllGroups

\* A server is added, or refused.
LEMMA AddStep ==
    ASSUME AllGroups(group, server, picks), NEW g \in GroupNames, NEW s \in Addresses,
           NEW weight \in Nat, upstream_group_add_server(g, s, weight)
    PROVE  AllGroups(group', server', picks')
<1>1. CASE weight = 0 \/ s \in Members(g)
  <2>1. group' = group /\ server' = server /\ picks' = picks
    BY <1>1 DEF upstream_group_add_server
  <2>2. QED
    BY <2>1
<1>2. CASE weight # 0 /\ s \notin Members(g)
  <2> DEFINE G == group[g]
             V == server[g]
             G2 == [servers |-> <<s>> \o G.servers, server_count |-> G.server_count + 1,
                    total_weight |-> G.total_weight + weight]
             R == [weight |-> weight, current_weight |-> 0, effective_weight |-> weight,
                   available |-> TRUE]
             V2 == [V EXCEPT ![s] = R]
             P2 == IF \A t \in Members(g) : V[t].current_weight = 0 THEN NoPicks ELSE Broken
  <2>1. /\ group' = [group EXCEPT ![g] = G2]
        /\ server' = [server EXCEPT ![g] = V2]
        /\ picks' = [picks EXCEPT ![g] = P2]
    BY <1>2 DEF upstream_group_add_server, RoundBreaks
  <2>2. MembersOk(G, V) /\ s \notin ToSet(G.servers) /\ weight # 0
    BY <1>2 DEF AllGroups, OneGroup, Members
  <2>3. MembersOk(G2, V2) /\ G2 \in GroupRecord
    <3>1. G2 = Longer(G, s, weight) /\ V2 = Changed(V, s, R)
      BY DEF Longer, Changed
    <3>2. R \in ServerRecord /\ R.weight = weight /\ R.effective_weight = weight
      BY DEF ServerRecord
    <3> HIDE DEF G, V, G2, V2, R
    <3>3. QED
      BY <1>2, <2>2, <3>1, <3>2, MembersAdd
  <2>4. P2 = NoPicks => \A t \in ToSet(G2.servers) : V2[t].current_weight = 0
    <3> SUFFICES ASSUME P2 = NoPicks, NEW t \in ToSet(G2.servers) PROVE V2[t].current_weight = 0
      OBVIOUS
    <3>1. NoPicks # Broken
      BY DEF NoPicks, Broken
    <3>2. \A u \in ToSet(G.servers) : V[u].current_weight = 0
      BY <3>1 DEF Members
    <3>3. ToSet(G2.servers) = {s} \cup ToSet(G.servers)
      <4>1. G.servers \in Seq(Addresses)
        BY <2>2 DEF MembersOk
      <4>2. QED
        BY <4>1, ConsIs
    <3>4. V \in [Addresses -> ServerRecord] /\ V2 \in [Addresses -> ServerRecord]
      BY <2>2, <2>3 DEF MembersOk
    <3>5. QED
      BY <3>2, <3>3, <3>4
  <2>5. P2 = NoPicks \/ P2 = Broken
    OBVIOUS
  <2> HIDE DEF G, V, G2, V2, P2
  <2>6. OneGroup(G2, V2, P2)
    BY <2>3, <2>4, <2>5, RoundBroken
  <2>7. QED
    BY <2>1, <2>6, OneChanges
<1>3. QED
  BY <1>1, <1>2

LEMMA RemoveStep ==
    ASSUME AllGroups(group, server, picks), NEW g \in GroupNames, NEW s \in Addresses,
           upstream_group_remove_server(g, s)
    PROVE  AllGroups(group', server', picks')
<1> DEFINE G == group[g]
           V == server[g]
           G2 == [servers |-> RemoveFirst(G.servers, s), server_count |-> G.server_count - 1,
                  total_weight |-> G.total_weight - V[s].weight]
           V2 == [V EXCEPT ![s] = NoServer]
           P2 == IF \A t \in Members(g) : V[t].current_weight = 0 THEN NoPicks ELSE Broken
<1>1. /\ group' = [group EXCEPT ![g] = G2]
      /\ server' = [server EXCEPT ![g] = V2]
      /\ picks' = [picks EXCEPT ![g] = P2]
  BY DEF upstream_group_remove_server, RoundBreaks
<1>2. MembersOk(G, V) /\ s \in ToSet(G.servers)
  BY DEF AllGroups, OneGroup, Members, upstream_group_remove_server
<1>3. MembersOk(G2, V2) /\ G2 \in GroupRecord
  <2> HIDE DEF G, V
  <2>1. QED
    BY <1>2, MembersRemove
<1>4. P2 = NoPicks => \A t \in ToSet(G2.servers) : V2[t].current_weight = 0
  <2> SUFFICES ASSUME P2 = NoPicks, NEW t \in ToSet(G2.servers) PROVE V2[t].current_weight = 0
    OBVIOUS
  <2>1. NoPicks # Broken
    BY DEF NoPicks, Broken
  <2>2. \A u \in ToSet(G.servers) : V[u].current_weight = 0
    BY <2>1 DEF Members
  <2>3. ToSet(G2.servers) \subseteq ToSet(G.servers)
    <3>1. G.servers \in Seq(Addresses)
      BY <1>2 DEF MembersOk
    <3>2. QED
      BY <3>1, RemoveFirstIs
  <2>4. V \in [Addresses -> ServerRecord]
    BY <1>2 DEF MembersOk
  <2>5. V2[t] = V[t] \/ V2[t] = NoServer
    BY <2>4
  <2>6. QED
    BY <2>2, <2>3, <2>5 DEF NoServer
<1>5. P2 = NoPicks \/ P2 = Broken
  OBVIOUS
<1> HIDE DEF G, V, G2, V2, P2
<1>6. OneGroup(G2, V2, P2)
  BY <1>3, <1>4, <1>5, RoundBroken
<1>7. QED
  BY <1>1, <1>6, OneChanges

LEMMA AvailabilityStep ==
    ASSUME AllGroups(group, server, picks), NEW g \in GroupNames, NEW s \in Addresses,
           AvailabilityChanges(g, s)
    PROVE  AllGroups(group', server', picks')
<1> DEFINE G == group[g]
           V == server[g]
           V2 == [V EXCEPT ![s].available = ~@]
           P2 == IF \A t \in Members(g) : V[t].current_weight = 0 THEN NoPicks ELSE Broken
<1>1. /\ group' = [group EXCEPT ![g] = G]
      /\ server' = [server EXCEPT ![g] = V2]
      /\ picks' = [picks EXCEPT ![g] = P2]
  BY DEF AvailabilityChanges, RoundBreaks, AllGroups
<1>2. MembersOk(G, V) /\ s \in ToSet(G.servers) /\ G \in GroupRecord
  BY DEF AllGroups, OneGroup, Members, AvailabilityChanges
<1>3. /\ V2 \in [Addresses -> ServerRecord]
      /\ \A t \in Addresses : /\ V2[t].weight = V[t].weight
                              /\ V2[t].effective_weight = V[t].effective_weight
                              /\ V2[t].current_weight = V[t].current_weight
      /\ \A t \in Addresses \ {s} : V2[t] = V[t]
  <2>1. V \in [Addresses -> ServerRecord]
    BY <1>2 DEF MembersOk
  <2> HIDE DEF V
  <2>2. QED
    BY <2>1 DEF ServerRecord
<1>4. \A t \in ToSet(G.servers) : t \in Addresses
  BY <1>2 DEF MembersOk, ToSet
<1>5. P2 = NoPicks => \A t \in ToSet(G.servers) : V2[t].current_weight = 0
  <2>1. NoPicks # Broken
    BY DEF NoPicks, Broken
  <2>2. P2 = NoPicks => \A u \in ToSet(G.servers) : V[u].current_weight = 0
    BY <2>1 DEF Members
  <2> HIDE DEF V2, P2, V
  <2>3. QED
    BY <1>3, <1>4, <2>2
<1>6. P2 = NoPicks \/ P2 = Broken
  OBVIOUS
<1> HIDE DEF G, V, V2, P2
<1>7. MembersOk(G, V2)
  BY <1>2, <1>3, <1>4, MembersPick
<1>8. OneGroup(G, V2, P2)
  BY <1>2, <1>5, <1>6, <1>7, RoundBroken
<1>9. QED
  BY <1>1, <1>8, OneChanges

\* What is summed over the members is summed over all addresses.
LEMMA MembersTotal ==
    ASSUME NEW G, NEW V, MembersOk(G, V), NEW f,
           \A s \in ToSet(G.servers) : f[s] = V[s].weight
    PROVE  SumFunctionOnSet(f, ToSet(G.servers)) = G.total_weight
<1> DEFINE M == ToSet(G.servers)
           W == WeightsOf(V)
<1>1. M \in SUBSET Addresses /\ IsFiniteSet(Addresses) /\ IsFiniteSet(M) /\ IsFiniteSet(Addresses \ M)
  <2>1. M \in SUBSET Addresses
    BY DEF MembersOk, ToSet
  <2>2. QED
    BY <2>1, FS_Subset, UpstreamAssumption
<1>2. /\ \A s \in Addresses : W[s] \in Nat /\ W[s] = V[s].weight
      /\ \A s \in Addresses \ M : W[s] = 0
  BY DEF MembersOk, WeightsOf, ServerRecord, NoServer
<1>3. G.total_weight = SumFunctionOnSet(W, Addresses)
  BY DEF MembersOk, Total
<1>4. \A s \in M : f[s] = W[s]
  BY <1>1, <1>2
<1> HIDE DEF M, W
<1>5. SumFunctionOnSet(f, M) = SumFunctionOnSet(W, M)
  BY <1>1, <1>4, SumSame
<1>6. SumFunctionOnSet(W, Addresses \ M) = 0
  BY <1>1, <1>2, SumZero
<1>7. SumFunctionOnSet(W, Addresses) = SumFunctionOnSet(W, M) + SumFunctionOnSet(W, Addresses \ M)
  BY <1>1, <1>2, SumPart
<1>8. SumFunctionOnSet(W, M) \in Nat
  BY <1>1, <1>2, SumNat
<1>9. QED
  BY <1>3, <1>5, <1>6, <1>7, <1>8 DEF M

\* The server Best takes is a usable one that has gained as much as any.
LEMMA BestIs ==
    ASSUME AllGroups(group, server, picks), NEW g \in GroupNames, Usable(g) # {}
    PROVE  Best(g) \in Usable(g) /\ \A t \in Usable(g) : Raised(g, Best(g)) >= Raised(g, t)
<1> DEFINE list == group[g].servers
           U == Usable(g)
           f == [s \in U |-> Raised(g, s)]
           I == {i \in 1 .. Len(list) : Heaviest(g, list[i])}
<1>1. /\ list \in Seq(Addresses) /\ server[g] \in [Addresses -> ServerRecord]
      /\ U \subseteq Addresses /\ U \subseteq ToSet(list)
  <2>1. MembersOk(group[g], server[g])
    BY DEF AllGroups, OneGroup
  <2>2. list \in Seq(Addresses) /\ server[g] \in [Addresses -> ServerRecord]
    BY <2>1 DEF MembersOk
  <2>3. ToSet(list) \subseteq Addresses
    BY <2>2 DEF ToSet
  <2>4. QED
    BY <2>2, <2>3 DEF Usable, Members
<1>2. IsFiniteSet(U)
  BY <1>1, FS_Subset, UpstreamAssumption
<1>3. \A s \in U : f[s] \in Int /\ f[s] = Raised(g, s)
  BY <1>1 DEF Raised, ServerRecord
<1>4. PICK m \in U : \A s \in U : f[m] >= f[s]
  <2> HIDE DEF U, f
  <2>1. U # {}
    BY DEF U
  <2>2. QED
    BY <1>2, <1>3, <2>1, GreatestValue
<1>5. Heaviest(g, m)
  BY <1>3, <1>4 DEF Heaviest
<1>6. PICK k \in DOMAIN list : list[k] = m
  BY <1>1, <1>4 DEF ToSet
<1>7. I \in SUBSET Nat /\ I # {}
  <2>1. DOMAIN list = 1 .. Len(list)
    BY <1>1
  <2>2. k \in I
    BY <1>5, <1>6, <2>1
  <2>3. QED
    BY <2>2
<1> HIDE DEF I
<1>8. Min(I) \in I
  <2>1. \E i \in I : \A j \in I : i <= j
    BY <1>7, LeastNumber
  <2>2. QED
    BY <2>1 DEF Min
<1>9. Best(g) = list[Min(I)]
  BY <1>7 DEF Best, SelectInSeq, I
<1>10. Heaviest(g, Best(g))
  BY <1>8, <1>9 DEF I
<1>11. QED
  BY <1>10 DEF Heaviest

\* A pick by weighted round robin
LEMMA RoundRobinStep ==
    ASSUME AllGroups(group, server, picks), NEW g \in GroupNames, lb_weighted_round_robin(g)
    PROVE  AllGroups(group', server', picks')
<1> DEFINE G == group[g]
           V == server[g]
           P == picks[g]
           best == Best(g)
           eff == [s \in Usable(g) |-> server[g][s].effective_weight]
           total == SumFunction(eff)
           V2 == Picked(g, best, total)
           P2 == PicksAfter(g, best)
<1>1. /\ group' = [group EXCEPT ![g] = G]
      /\ server' = [server EXCEPT ![g] = V2]
      /\ picks' = [picks EXCEPT ![g] = P2]
      /\ Usable(g) # {}
  BY DEF lb_weighted_round_robin, AllGroups
<1>2. /\ MembersOk(G, V) /\ RoundOk(G, V, P) /\ G \in GroupRecord /\ G.total_weight \in Nat
      /\ P \in [Addresses -> Int] /\ V \in [Addresses -> ServerRecord]
  BY DEF AllGroups, OneGroup, GroupRecord, MembersOk
<1>3. best \in Usable(g) /\ \A t \in Usable(g) : Raised(g, best) >= Raised(g, t)
  BY <1>1, BestIs
<1>4. /\ Usable(g) \subseteq ToSet(G.servers) /\ ToSet(G.servers) \subseteq Addresses
      /\ Members(g) = ToSet(G.servers)
  BY <1>2 DEF Usable, Members, MembersOk, ToSet
<1>5. \A s \in Usable(g) : eff[s] = V[s].effective_weight /\ eff[s] = V[s].weight /\ eff[s] \in Nat
  BY <1>2, <1>4 DEF MembersOk, ServerRecord
<1>6. total = SumFunctionOnSet(eff, Usable(g)) /\ total \in Nat
  <2>1. IsFiniteSet(Usable(g))
    BY <1>4, FS_Subset, UpstreamAssumption
  <2>2. DOMAIN eff = Usable(g)
    OBVIOUS
  <2> HIDE DEF eff
  <2>3. QED
    BY <1>5, <2>1, <2>2, SumFunctionIs, SumNat
<1> HIDE DEF eff, total
<1>7. \A s \in Usable(g) :
        V2[s] = [V[s] EXCEPT !.current_weight = @ + V[s].effective_weight
                                                - (IF s = best THEN total ELSE 0),
                             !.effective_weight = IF @ < V[s].weight THEN @ + 1 ELSE @]
  BY <1>4 DEF Picked
<1>8. \A s \in Addresses \ Usable(g) : V2[s] = V[s]
  BY DEF Picked
<1> HIDE DEF V2, V, G, P, best
<1>9. ASSUME NEW s \in Usable(g)
      PROVE  /\ V2[s].weight = V[s].weight /\ V2[s].effective_weight = V[s].effective_weight
             /\ V2[s].current_weight = (V[s].current_weight + V[s].effective_weight)
                                       - (IF s = best THEN total ELSE 0)
             /\ V2[s] \in ServerRecord
  <2>1. s \in Addresses /\ s \in ToSet(G.servers)
    BY <1>4
  <2>2. V[s] \in ServerRecord /\ V[s].effective_weight = V[s].weight
    BY <1>2, <2>1 DEF MembersOk
  <2>3. V[s].current_weight \in Int /\ V[s].effective_weight \in Nat
    BY <2>2 DEF ServerRecord
  <2>4. (IF s = best THEN total ELSE 0) \in Int
    BY <1>6
  <2> DEFINE t == IF s = best THEN total ELSE 0
  <2> HIDE DEF t
  <2>5. V2[s] = [V[s] EXCEPT !.current_weight = (V[s].current_weight + V[s].effective_weight) - t]
    <3>1. ~(V[s].effective_weight < V[s].weight)
      BY <2>2, <2>3
    <3>2. V2[s] = [V[s] EXCEPT !.current_weight = @ + V[s].effective_weight - t,
                               !.effective_weight = IF @ < V[s].weight THEN @ + 1 ELSE @]
      BY <1>7 DEF t
    <3>3. V2[s] = [V[s] EXCEPT !.current_weight = @ + V[s].effective_weight - t]
      BY <2>2, <3>1, <3>2 DEF ServerRecord
    <3>4. V[s].current_weight + V[s].effective_weight - t
            = (V[s].current_weight + V[s].effective_weight) - t
      BY <2>3, <2>4 DEF t
    <3>5. QED
      BY <3>3, <3>4
  <2>6. (V[s].current_weight + V[s].effective_weight) - t \in Int
    BY <2>3, <2>4 DEF t
  <2>7. QED
    BY <2>2, <2>5, <2>6 DEF ServerRecord, t
<1>10. /\ \A s \in Addresses : V2[s].weight = V[s].weight /\ V2[s] \in ServerRecord
       /\ \A s \in ToSet(G.servers) : V2[s].effective_weight = V[s].effective_weight
       /\ \A s \in Addresses \ ToSet(G.servers) : V2[s] = V[s]
  BY <1>2, <1>4, <1>8, <1>9
<1>11. V2 \in [Addresses -> ServerRecord]
  <2>1. V2 = [s \in Addresses |-> V2[s]]
    BY DEF V2, Picked
  <2>2. QED
    BY <1>10, <2>1
<1>12. MembersOk(G, V2)
  BY <1>2, <1>10, <1>11, MembersPick
<1>13. OneGroup(G, V2, P2)
  <2>1. CASE P = Broken \/ Usable(g) # Members(g)
    <3>1. P2 = Broken
      BY <2>1 DEF PicksAfter, P
    <3>2. Broken \in [Addresses -> Int]
      BY DEF Broken
    <3>3. QED
      BY <1>2, <1>12, <3>1, <3>2 DEF OneGroup, RoundOk
  <2>2. CASE P # Broken /\ Usable(g) = Members(g)
    <3> DEFINE after == [P EXCEPT ![best] = @ + 1]
    <3>1. P \in [Addresses -> Nat] /\ best \in Addresses /\ best \in ToSet(G.servers)
      BY <1>2, <1>3, <1>4, <2>2 DEF RoundOk
    <3>2. /\ after \in [Addresses -> Nat] /\ DOMAIN after = Addresses
          /\ after[best] = P[best] + 1 /\ \A s \in Addresses \ {best} : after[s] = P[s]
      BY <3>1
    <3>3. P2 = IF SumFunction(after) = G.total_weight THEN NoPicks ELSE after
      BY <2>2 DEF PicksAfter, P, G
    <3> HIDE DEF after
    <3>4. SumFunction(after) = Total(after)
      BY <3>2, SumFunctionIs DEF Total
    <3>5. total = G.total_weight
      <4>1. \A s \in ToSet(G.servers) : eff[s] = V[s].weight
        BY <1>4, <1>5, <2>2
      <4>2. SumFunctionOnSet(eff, ToSet(G.servers)) = G.total_weight
        BY <1>2, <4>1, MembersTotal
      <4>3. QED
        BY <1>4, <1>6, <2>2, <4>2
    <3>6. \A s \in ToSet(G.servers) :
            /\ V2[s].weight = V[s].weight
            /\ V2[s].current_weight = (V[s].current_weight + V[s].effective_weight)
                                      - (IF s = best THEN G.total_weight ELSE 0)
      BY <1>4, <1>9, <2>2, <3>5
    <3>7. \A t \in ToSet(G.servers) : V[best].current_weight + V[best].effective_weight
                                       >= V[t].current_weight + V[t].effective_weight
      BY <1>3, <1>4, <2>2 DEF Raised, V
    <3>8. /\ Total(after) = G.total_weight => RoundOk(G, V2, NoPicks)
          /\ Total(after) # G.total_weight => RoundOk(G, V2, after)
      BY <1>2, <1>12, <2>2, <3>1, <3>2, <3>6, <3>7, RoundGoesOn
    <3>9. RoundOk(G, V2, P2) /\ P2 \in [Addresses -> Int]
      BY <3>2, <3>3, <3>4, <3>8 DEF NoPicks
    <3>10. QED
      BY <1>2, <1>12, <3>9 DEF OneGroup
  <2>3. QED
    BY <2>1, <2>2
<1> HIDE DEF P2
<1>14. QED
  BY <1>1, <1>13, OneChanges

LEMMA GroupInitInv == ASSUME GroupInit PROVE GroupInv
<1>1. LoaderInv
  <2>1. blocks \in Seq(UpstreamBlock)
    BY UpstreamAssumption DEF GroupInit
  <2>2. <<>> \in Seq(GroupNames) /\ NoRepeats(<<>>) /\ Len(<<>>) = 0
    BY DEF NoRepeats
  <2>3. QED
    BY <2>1, <2>2 DEF LoaderInv, GroupInit
<1>2. AllGroups(group, server, picks)
  BY NothingLoaded DEF GroupInit
<1>3. QED
  BY <1>1, <1>2 DEF GroupInv

LEMMA AddGroupStep ==
    ASSUME LoaderInv, lb_config_add_group
    PROVE  LoaderInv'
<1>1. Head(blocks) \in UpstreamBlock /\ Tail(blocks) \in Seq(UpstreamBlock) /\ blocks' = Tail(blocks)
  <2>1. blocks \in Seq(UpstreamBlock) /\ blocks # <<>>
    BY DEF LoaderInv, lb_config_add_group
  <2>2. QED
    BY <2>1 DEF lb_config_add_group
<1>2. groups \in Seq(GroupNames) /\ NoRepeats(groups) /\ group_count = Len(groups)
  BY DEF LoaderInv
<1>3. CASE Contains(groups, Head(blocks).name)
  <2>1. UNCHANGED <<loading, groups, group_count>>
    BY <1>3 DEF lb_config_add_group
  <2>2. QED
    BY <1>1, <2>1 DEF LoaderInv
<1>4. CASE ~Contains(groups, Head(blocks).name)
  <2> DEFINE name == Head(blocks).name
             longer == <<name>> \o groups
  <2>1. name \in GroupNames
    BY <1>1 DEF UpstreamBlock
  <2>2. name \notin ToSet(groups)
    BY <1>2, <1>4 DEF Contains, ToSet
  <2>3. loading' = Head(blocks) /\ groups' = longer /\ group_count' = group_count + 1
    BY <1>4 DEF lb_config_add_group
  <2> HIDE DEF name
  <2>4. longer \in Seq(GroupNames) /\ Len(longer) = Len(groups) + 1 /\ NoRepeats(longer)
    BY <1>2, <2>1, <2>2, ConsIs
  <2> HIDE DEF longer
  <2>5. QED
    BY <1>1, <1>2, <2>3, <2>4 DEF LoaderInv
<1>5. QED
  BY <1>3, <1>4

\* The next server of the block that is being loaded
LEMMA LoadStep ==
    ASSUME GroupInv, LoadServer
    PROVE  GroupInv'
<1>1. loading \in UpstreamBlock /\ loading.servers # <<>>
  BY DEF GroupInv, LoaderInv, LoadServer, NoBlock
<1>2. /\ loading.name \in GroupNames
      /\ loading.servers \in Seq(Addresses \X Weights)
  BY <1>1 DEF UpstreamBlock
<1>3. /\ Head(loading.servers) \in Addresses \X Weights
      /\ Tail(loading.servers) \in Seq(Addresses \X Weights)
  BY <1>1, <1>2
<1>4. Head(loading.servers)[1] \in Addresses /\ Head(loading.servers)[2] \in Nat
  BY <1>3, UpstreamAssumption
<1>5. AllGroups(group', server', picks')
  BY <1>2, <1>4, AddStep DEF GroupInv, LoadServer
<1>6. loading' \in UpstreamBlock
  BY <1>1, <1>3 DEF LoadServer, UpstreamBlock
<1>7. LoaderInv'
  BY <1>6 DEF GroupInv, LoaderInv, LoadServer
<1>8. QED
  BY <1>5, <1>7 DEF GroupInv

LEMMA GroupStep ==
    ASSUME GroupInv, [GroupNext]_groupVars
    PROVE  GroupInv'
<1>1. LoaderInv /\ AllGroups(group, server, picks)
  BY DEF GroupInv
<1>2. UNCHANGED loaderVars => LoaderInv'
  BY <1>1 DEF LoaderInv, loaderVars
<1>3. CASE lb_config_add_group
  <2>1. AllGroups(group', server', picks')
    BY <1>1, <1>3 DEF lb_config_add_group
  <2>2. QED
    BY <1>1, <1>3, <2>1, AddGroupStep DEF GroupInv
<1>4. CASE LoadServer
  BY <1>4, LoadStep
<1>5. CASE GroupLoaded
  <2>1. AllGroups(group', server', picks')
    BY <1>1, <1>5 DEF GroupLoaded
  <2>2. LoaderInv'
    BY <1>1, <1>5 DEF GroupLoaded, LoaderInv
  <2>3. QED
    BY <2>1, <2>2 DEF GroupInv
<1>6. CASE lb_config_free
  <2>1. AllGroups(group', server', picks')
    BY <1>6, NothingLoaded DEF lb_config_free
  <2>2. <<>> \in Seq(GroupNames) /\ NoRepeats(<<>>) /\ Len(<<>>) = 0
    BY DEF NoRepeats
  <2>3. LoaderInv'
    BY <1>1, <1>6, <2>2 DEF lb_config_free, LoaderInv
  <2>4. QED
    BY <2>1, <2>3 DEF GroupInv
<1>7. ASSUME NEW g \in GroupNames, lb_weighted_round_robin(g) PROVE GroupInv'
  BY <1>1, <1>2, <1>7, RoundRobinStep DEF GroupInv, lb_weighted_round_robin
<1>8. ASSUME NEW g \in GroupNames, NEW s \in Addresses, upstream_group_remove_server(g, s)
      PROVE  GroupInv'
  BY <1>1, <1>2, <1>8, RemoveStep DEF GroupInv, upstream_group_remove_server
<1>9. ASSUME NEW g \in GroupNames, NEW s \in Addresses, AvailabilityChanges(g, s)
      PROVE  GroupInv'
  BY <1>1, <1>2, <1>9, AvailabilityStep DEF GroupInv, AvailabilityChanges
<1>10. ASSUME NEW g \in GroupNames, NEW s \in Addresses, NEW weight \in Weights, AddLater(g, s, weight)
       PROVE  GroupInv'
  <2>1. weight \in Nat
    BY UpstreamAssumption
  <2>2. AllGroups(group', server', picks')
    BY <1>1, <1>10, <2>1, AddStep DEF AddLater
  <2>3. QED
    BY <1>2, <1>10, <2>2 DEF GroupInv, AddLater
<1>11. CASE UNCHANGED groupVars
  BY <1>1, <1>2, <1>11 DEF GroupInv, groupVars, loaderVars
<1>12. QED
  BY <1>3, <1>4, <1>5, <1>6, <1>7, <1>8, <1>9, <1>10, <1>11 DEF GroupNext

\* The list, the counts and the weights of every group agree, whatever the
\* configuration lists and however servers come, go and become unavailable,
\* and in every round of weighted round robin the current weights follow from
\* the picks.
THEOREM GroupInvariance == GroupSpec => []GroupInv
<1>1. GroupInit => GroupInv
  BY GroupInitInv
<1>2. GroupInv /\ [GroupNext]_groupVars => GroupInv'
  BY GroupStep
<1>3. QED
  BY <1>1, <1>2, PTL DEF GroupSpec

\* The weights summed up along a list
Sum(w, i) == SumFunctionOnSet(w, 1 .. i)

LEMMA SumUp ==
    ASSUME NEW N \in Nat, NEW w, \A i \in 1 .. N : w[i] \in Nat
    PROVE  /\ Sum(w, 0) = 0
           /\ \A i \in 0 .. N : Sum(w, i) \in Nat
           /\ \A i \in 1 .. N : Sum(w, i) = Sum(w, i - 1) + w[i]
           /\ \A i, j \in 0 .. N : i <= j => Sum(w, i) <= Sum(w, j)
<1>1. Sum(w, 0) = 0
  <2>1. 1 .. 0 = {}
    OBVIOUS
  <2>2. QED
    BY <2>1, SumEmpty DEF Sum
<1>2. ASSUME NEW i \in 0 .. N
      PROVE  IsFiniteSet(1 .. i) /\ (\A j \in 1 .. i : w[j] \in Nat) /\ Sum(w, i) \in Nat
  <2>1. IsFiniteSet(1 .. i) /\ \A j \in 1 .. i : w[j] \in Nat
    BY FS_Interval
  <2>2. QED
    BY <2>1, SumNat DEF Sum
<1>3. ASSUME NEW i \in 1 .. N PROVE Sum(w, i) = Sum(w, i - 1) + w[i]
  <2>1. i \in 1 .. i /\ (1 .. i) \ {i} = 1 .. (i - 1) /\ i \in 0 .. N /\ i - 1 \in 0 .. N
    OBVIOUS
  <2>2. SumFunctionOnSet(w, 1 .. i) = w[i] + SumFunctionOnSet(w, (1 .. i) \ {i})
    <3>1. IsFiniteSet(1 .. i) /\ \A y \in 1 .. i : w[y] \in Nat
      BY <1>2, <2>1
    <3>2. i \in 1 .. i
      BY <2>1
    <3>3. QED
      BY <3>1, <3>2, SumRemove
  <2>3. Sum(w, i - 1) \in Nat /\ w[i] \in Nat
    BY <1>2, <2>1
  <2>4. Sum(w, i) = w[i] + Sum(w, i - 1)
    BY <2>1, <2>2 DEF Sum
  <2>5. QED
    BY <2>3, <2>4
<1>4. ASSUME NEW i \in 0 .. N, NEW j \in 0 .. N, i <= j PROVE Sum(w, i) <= Sum(w, j)
  <2>1. 1 .. i \in SUBSET (1 .. j)
    BY <1>4
  <2>2. SumFunctionOnSet(w, 1 .. j)
          = SumFunctionOnSet(w, 1 .. i) + SumFunctionOnSet(w, (1 .. j) \ (1 .. i))
    <3>1. IsFiniteSet(1 .. j) /\ \A y \in 1 .. j : w[y] \in Nat
      BY <1>2
    <3>2. QED
      BY <2>1, <3>1, SumPart
  <2>3. SumFunctionOnSet(w, (1 .. j) \ (1 .. i)) \in Nat
    <3>1. IsFiniteSet((1 .. j) \ (1 .. i)) /\ \A n \in (1 .. j) \ (1 .. i) : w[n] \in Nat
      BY <1>2, FS_Subset
    <3>2. QED
      BY <3>1, SumNat
  <2>4. SumFunctionOnSet(w, 1 .. i) \in Nat
    BY <1>2 DEF Sum
  <2>5. QED
    BY <2>2, <2>3, <2>4 DEF Sum
<1>5. QED
  BY <1>1, <1>2, <1>3, <1>4

\* The first place where the sum exceeds a number is k for as many of them as
\* k weighs.
FirstAbove(w, N, p) == Min({i \in 1 .. N : Sum(w, i) > p})

LEMMA FirstIs ==
    ASSUME NEW N \in Nat, NEW w, \A i \in 1 .. N : w[i] \in Nat,
           NEW p \in Nat, p < Sum(w, N), NEW k \in 1 .. N
    PROVE  /\ FirstAbove(w, N, p) \in 1 .. N
           /\ FirstAbove(w, N, p) = k <=> Sum(w, k - 1) <= p /\ p < Sum(w, k)
<1> DEFINE I == {i \in 1 .. N : Sum(w, i) > p}
<1>1. /\ Sum(w, 0) = 0
      /\ \A i \in 0 .. N : Sum(w, i) \in Nat
      /\ \A i, j \in 0 .. N : i <= j => Sum(w, i) <= Sum(w, j)
  BY SumUp
<1>2. N \in I
  <2>1. N # 0 /\ Sum(w, N) \in Nat
    BY <1>1
  <2>2. QED
    BY <2>1
<1>3. I \in SUBSET Nat /\ I # {}
  BY <1>2
<1>4. PICK m \in I : \A n \in I : m <= n
  <2> HIDE DEF I
  <2>1. QED
    BY <1>3, LeastNumber
<1>5. FirstAbove(w, N, p) \in I /\ \A n \in I : FirstAbove(w, N, p) <= n
  <2> HIDE DEF I
  <2>1. Min(I) \in I /\ \A n \in I : Min(I) <= n
    BY <1>4 DEF Min
  <2>2. QED
    BY <2>1 DEF FirstAbove, I
<1> DEFINE f == FirstAbove(w, N, p)
<1> HIDE DEF f
<1>6. f \in 1 .. N /\ Sum(w, f) > p /\ \A n \in 1 .. N : Sum(w, n) > p => f <= n
  BY <1>5 DEF f
<1>7. Sum(w, f - 1) <= p
  <2>1. CASE f = 1
    BY <1>1, <2>1
  <2>2. CASE f # 1
    <3>1. f - 1 \in 1 .. N /\ f - 1 \in 0 .. N
      BY <1>6, <2>2
    <3>2. ~(Sum(w, f - 1) > p)
      BY <1>6, <3>1
    <3>3. Sum(w, f - 1) \in Nat
      BY <1>1, <3>1
    <3>4. QED
      BY <3>2, <3>3
  <2>3. QED
    BY <2>1, <2>2
<1>8. ASSUME Sum(w, k - 1) <= p, p < Sum(w, k) PROVE f = k
  <2>1. f <= k
    <3>1. Sum(w, k) \in Nat
      BY <1>1
    <3>2. QED
      BY <1>6, <1>8, <3>1
  <2>2. ~(f <= k - 1)
    <3> SUFFICES ASSUME f <= k - 1 PROVE FALSE
      OBVIOUS
    <3>1. f \in 0 .. N /\ k - 1 \in 0 .. N
      BY <1>6
    <3>2. Sum(w, f) <= Sum(w, k - 1) /\ Sum(w, f) \in Nat /\ Sum(w, k - 1) \in Nat
      BY <1>1, <3>1
    <3>3. QED
      BY <1>6, <1>8, <3>2
  <2>3. QED
    BY <1>6, <2>1, <2>2
<1>9. ASSUME f = k PROVE Sum(w, k - 1) <= p /\ p < Sum(w, k)
  <2>1. Sum(w, k) \in Nat
    BY <1>1
  <2>2. QED
    BY <1>6, <1>7, <1>9, <2>1
<1>10. QED
  BY <1>6, <1>8, <1>9 DEF f

LEMMA RandomPoints ==
    ASSUME NEW N \in Nat, NEW w, \A i \in 1 .. N : w[i] \in Nat, NEW k \in 1 .. N
    PROVE  Cardinality({p \in 0 .. Sum(w, N) - 1 : FirstAbove(w, N, p) = k}) = w[k]
<1> DEFINE a == Sum(w, k - 1)
           b == Sum(w, k)
           t == Sum(w, N)
<1>1. a \in Nat /\ b \in Nat /\ t \in Nat /\ b = a + w[k] /\ b <= t /\ w[k] \in Nat
  <2>1. k \in 0 .. N /\ N \in 0 .. N /\ k - 1 \in 0 .. N /\ k <= N
    OBVIOUS
  <2>2. QED
    BY <2>1, SumUp
<1>2. \A p \in 0 .. t - 1 : FirstAbove(w, N, p) = k <=> a <= p /\ p < b
  <2> SUFFICES ASSUME NEW p \in 0 .. t - 1
               PROVE  FirstAbove(w, N, p) = k <=> a <= p /\ p < b
    OBVIOUS
  <2>1. p \in Nat /\ p < Sum(w, N)
    BY <1>1
  <2>2. QED
    BY <2>1, FirstIs
<1> HIDE DEF a, b, t
<1>3. {p \in 0 .. t - 1 : FirstAbove(w, N, p) = k} = a .. (b - 1)
  BY <1>1, <1>2
<1>4. Cardinality(a .. (b - 1)) = w[k]
  <2>1. Cardinality(a .. (b - 1)) = IF a > b - 1 THEN 0 ELSE (b - 1) - a + 1
    <3>1. a \in Int /\ b - 1 \in Int
      BY <1>1
    <3>2. QED
      BY <3>1, FS_Interval
  <2>2. QED
    BY <1>1, <2>1
<1>5. QED
  BY <1>3, <1>4 DEF t

\* Of the numbers lb_weighted_random may draw as many lead to a server as it
\* weighs.
LEMMA RandomByWeight ==
    ASSUME AllGroups(group, server, picks), NEW g \in GroupNames, NEW s \in Usable(g)
    PROVE  Cardinality({p \in 0 .. SummedUp(g, Len(group[g].servers)) - 1 :
                          lb_weighted_random(g, p) = s}) = server[g][s].weight
<1> DEFINE list == group[g].servers
           N == Len(list)
           w == WeightAt(g)
<1>1. /\ list \in Seq(Addresses) /\ NoRepeats(list) /\ N \in Nat /\ DOMAIN list = 1 .. N
      /\ server[g] \in [Addresses -> ServerRecord]
  <2>1. MembersOk(group[g], server[g])
    BY DEF AllGroups, OneGroup
  <2>2. list \in Seq(Addresses) /\ NoRepeats(list) /\ server[g] \in [Addresses -> ServerRecord]
    BY <2>1 DEF MembersOk
  <2>3. QED
    BY <2>2
<1>2. PICK k \in 1 .. N : list[k] = s
  BY <1>1 DEF Usable, Members, ToSet
<1>3. /\ \A i \in 1 .. N : w[i] \in Nat
      /\ w[k] = server[g][s].weight
  <2>1. ASSUME NEW i \in 1 .. N PROVE w[i] \in Nat
    <3>1. list[i] \in Addresses
      BY <1>1
    <3>2. server[g][list[i]].weight \in Nat
      BY <1>1, <3>1 DEF ServerRecord
    <3>3. QED
      BY <1>1, <3>2 DEF WeightAt
  <2>2. QED
    BY <1>1, <1>2, <2>1 DEF WeightAt
<1>4. \A i : SummedUp(g, i) = Sum(w, i)
  BY DEF SummedUp, Sum
<1> DEFINE t == Sum(w, N)
<1>5. \A p : lb_weighted_random(g, p) = list[FirstAbove(w, N, p)]
  <2> SUFFICES ASSUME NEW p PROVE lb_weighted_random(g, p) = list[FirstAbove(w, N, p)]
    OBVIOUS
  <2>1. {i \in DOMAIN list : SummedUp(g, i) > p} = {i \in 1 .. N : Sum(w, i) > p}
    BY <1>1, <1>4
  <2>2. lb_weighted_random(g, p) = list[Min({i \in DOMAIN list : SummedUp(g, i) > p})]
    BY DEF lb_weighted_random
  <2>3. QED
    BY <2>1, <2>2 DEF FirstAbove
<1> HIDE DEF w, N, list
<1>6. \A p \in 0 .. t - 1 : lb_weighted_random(g, p) = s <=> FirstAbove(w, N, p) = k
  <2> SUFFICES ASSUME NEW p \in 0 .. t - 1
               PROVE  lb_weighted_random(g, p) = s <=> FirstAbove(w, N, p) = k
    OBVIOUS
  <2>1. p \in Nat /\ p < Sum(w, N)
    <3>1. t \in Nat
      <4>1. N \in 0 .. N
        BY <1>1
      <4>2. QED
        BY <1>1, <1>3, <4>1, SumUp
    <3>2. QED
      BY <3>1
  <2>2. FirstAbove(w, N, p) \in 1 .. N
    BY <1>1, <1>3, <2>1, FirstIs
  <2>3. QED
    BY <1>1, <1>2, <1>5, <2>2 DEF NoRepeats
<1>7. {p \in 0 .. t - 1 : lb_weighted_random(g, p) = s}
        = {p \in 0 .. t - 1 : FirstAbove(w, N, p) = k}
  BY <1>6
<1>8. Cardinality({p \in 0 .. t - 1 : FirstAbove(w, N, p) = k}) = w[k]
  BY <1>1, <1>3, RandomPoints
<1>9. SummedUp(g, Len(group[g].servers)) = t
  BY <1>4 DEF N, list
<1>10. QED
  BY <1>3, <1>7, <1>8, <1>9

\* The accounts of a group follow from the invariant.
LEMMA AccountsHold == ASSUME GroupInv PROVE GroupAccounts
<1>1. IsInjective(groups) /\ group_count = Len(groups)
  BY DEF GroupInv, LoaderInv, NoRepeats, IsInjective
<1>2. ASSUME NEW g \in GroupNames
      PROVE  /\ IsInjective(group[g].servers)
             /\ group[g].server_count = Len(group[g].servers)
             /\ group[g].total_weight = SumFunction([s \in Members(g) |-> server[g][s].weight])
  <2> DEFINE G == group[g]
             V == server[g]
             f == [s \in Members(g) |-> V[s].weight]
  <2>1. MembersOk(G, V)
    BY DEF GroupInv, AllGroups, OneGroup
  <2>2. Members(g) = ToSet(G.servers) /\ DOMAIN f = ToSet(G.servers)
    BY DEF Members
  <2>3. \A s \in ToSet(G.servers) : f[s] = V[s].weight
    BY <2>2
  <2> HIDE DEF f
  <2>4. SumFunction(f) = G.total_weight
    BY <2>1, <2>2, <2>3, MembersTotal, SumFunctionIs
  <2>5. IsInjective(G.servers) /\ G.server_count = Len(G.servers)
    BY <2>1 DEF MembersOk, NoRepeats, IsInjective
  <2>6. QED
    BY <2>4, <2>5 DEF f
<1>3. QED
  BY <1>1, <1>2 DEF GroupAccounts

\* The counts agree with the lists; weighted round robin gives no server more
\* than its weight in a round of total_weight picks and leaves every current
\* weight at 0; lb_weighted_random draws each in proportion to its weight.
THEOREM WeightsAreRespected == GroupSpec => []WeightsRespected
<1>1. GroupInv => WeightsRespected
  <2> SUFFICES ASSUME GroupInv PROVE WeightsRespected
    OBVIOUS
  <2>1. AllGroups(group, server, picks)
    BY DEF GroupInv
  <2>2. ASSUME NEW g \in GroupNames, picks[g] # Broken
        PROVE  /\ \A s \in Members(g) : picks[g][s] <= server[g][s].weight
               /\ picks[g] = NoPicks => \A s \in Members(g) : server[g][s].current_weight = 0
    <3> DEFINE G == group[g]
               V == server[g]
               P == picks[g]
    <3>1. MembersOk(G, V) /\ RoundOk(G, V, P) /\ G.total_weight \in Nat
      BY <2>1 DEF AllGroups, OneGroup, GroupRecord
    <3>2. Members(g) \subseteq Addresses
      BY <3>1 DEF MembersOk, Members, ToSet
    <3>3. \A s \in Members(g) : P[s] <= V[s].weight
      BY <2>2, <3>1, <3>2 DEF RoundOk
    <3>4. ASSUME P = NoPicks, NEW s \in Members(g) PROVE V[s].current_weight = 0
      <4>1. V[s].current_weight = Total(P) * V[s].weight - G.total_weight * P[s]
        BY <2>2, <3>1, <3>2 DEF RoundOk
      <4>2. P[s] = 0 /\ Total(P) = 0
        <5>1. \A a \in Addresses : NoPicks[a] = 0
          BY DEF NoPicks
        <5>2. SumFunctionOnSet(NoPicks, Addresses) = 0
          BY <5>1, SumZero, UpstreamAssumption
        <5>3. QED
          BY <3>2, <3>4, <5>1, <5>2 DEF Total
      <4>3. V[s].weight \in Nat
        BY <3>1, <3>2 DEF MembersOk, ServerRecord
      <4> HIDE DEF G, V, P
      <4>4. 0 * V[s].weight = 0 /\ G.total_weight * 0 = 0
        BY <3>1, <4>3
      <4>5. QED
        BY <4>1, <4>2, <4>4
    <3>5. QED
      BY <3>3, <3>4
  <2>3. ASSUME NEW g \in GroupNames, NEW s \in Usable(g)
        PROVE  Cardinality({p \in 0 .. SummedUp(g, Len(group[g].servers)) - 1 :
                              lb_weighted_random(g, p) = s}) = server[g][s].weight
    BY <2>1, RandomByWeight
  <2>4. QED
    BY <2>2, <2>3, AccountsHold DEF WeightsRespected
<1>2. QED
  BY <1>1, GroupInvariance, PTL

------------------------------------------------------------------------------
(***************************************************************************)
(* Mempool: a block is in one place, whichever pool it wanders to, and the *)
(* usage counters of the pools together count what the requests hold.      *)
(*                                                                         *)
(* The proof takes a step apart into movements: a block is taken from a    *)
(* list, from a request or from the heap, is nowhere then, and is put into *)
(* the hands of a request or into a list.                                  *)
(***************************************************************************)

Serials == (1 .. Preblocks) \cup HeapBlocks
Blocks == {<<kind, t, p, i>> : kind \in {"map", "heap"}, t \in Types, p \in Types \cup {0},
                               i \in Serials}
Hands == [Requests -> Seq(Blocks \cup {Null})]
Lists == [Types -> [Types -> Seq(Blocks)]]

InHand(H, b) == \E r \in Requests : \E i \in DOMAIN H[r] : H[r][i] = b
InList(F, b) == \E p, t \in Types : \E i \in DOMAIN F[p][t] : F[p][t][i] = b

\* The hands of the requests, the lists and the heap share no block, and none
\* of them has a block twice
OnePlace(H, F, hp) ==
  /\ \A r, q \in Requests : \A i \in DOMAIN H[r], j \in DOMAIN H[q] :
       H[r][i] = H[q][j] /\ H[r][i] # Null => r = q /\ i = j
  /\ \A p, q, t, u \in Types : \A i \in DOMAIN F[p][t], j \in DOMAIN F[q][u] :
       F[p][t][i] = F[q][u][j] => p = q /\ t = u /\ i = j
  /\ \A p, t \in Types : \A i \in DOMAIN F[p][t] : F[p][t][i] \notin hp /\ ~InHand(H, F[p][t][i])
  /\ \A r \in Requests : \A i \in DOMAIN H[r] : H[r][i] # Null => H[r][i] \notin hp

Nowhere(H, F, hp, b) == ~InHand(H, b) /\ ~InList(F, b) /\ b \notin hp

\* What mempool_gc leaves of a list
Kept(s) == SubSeq(s, Len(s) - Len(s) \div 2 + 1, Len(s))

HeldBy == [r \in Requests |-> request[r].held]

Pcs == {"idle", "parse", "allocate", "clear", "cleanup", "freed"}

Request == [pc : Pcs, held : Seq(Blocks \cup {Null}), want : Types]

PoolTypes ==
  /\ free \in Lists
  /\ heap \subseteq Blocks
  /\ request \in [Requests -> Request]

PoolInv == PoolTypes /\ OnePlace(HeldBy, free, heap)

-----------------------------------------------------------------------------
\* Blocks have a type, Null has none
LEMMA BlockTyped == /\ \A b \in Blocks : TypeOf(b) \in Types /\ b # Null
                    /\ First \in Types
<1>1. \A b \in Blocks : b[2] \in Types
  BY DEF Blocks
<1>2. 0 \notin Types /\ 1 \in Types
  BY MempoolAssumption
<1>3. Null[2] = 0
  BY DEF Null
<1>4. QED
  BY <1>1, <1>2, <1>3 DEF First, TypeOf, Small

LEMMA TailIs ==
    ASSUME NEW S, NEW s \in Seq(S), s # <<>>
    PROVE  /\ Tail(s) \in Seq(S) /\ Head(s) \in S
           /\ 1 \in DOMAIN s /\ s[1] = Head(s)
           /\ \A i \in DOMAIN Tail(s) : i + 1 \in DOMAIN s /\ Tail(s)[i] = s[i + 1]
                                        /\ i \in Nat /\ i # 0
<1>1. Len(s) \in Nat \ {0} /\ DOMAIN s = 1 .. Len(s)
  OBVIOUS
<1>2. Tail(s) \in Seq(S) /\ Len(Tail(s)) = Len(s) - 1 /\ DOMAIN Tail(s) = 1 .. Len(s) - 1
  BY <1>1
<1>3. \A i \in 1 .. Len(s) - 1 : Tail(s)[i] = s[i + 1]
  BY <1>1
<1>4. Head(s) \in S /\ 1 \in DOMAIN s /\ s[1] = Head(s)
  BY <1>1
<1>5. \A i \in 1 .. Len(s) - 1 : i + 1 \in 1 .. Len(s) /\ i \in Nat /\ i # 0
  BY <1>1
<1>6. QED
  BY <1>1, <1>2, <1>3, <1>4, <1>5

LEMMA AppendIs ==
    ASSUME NEW S, NEW s \in Seq(S), NEW b \in S
    PROVE  /\ Append(s, b) \in Seq(S)
           /\ \A i \in DOMAIN Append(s, b) : \/ i \in DOMAIN s /\ Append(s, b)[i] = s[i]
                                             \/ i = Len(s) + 1 /\ Append(s, b)[i] = b
<1>1. Len(s) \in Nat /\ DOMAIN s = 1 .. Len(s)
  OBVIOUS
<1>2. Append(s, b) \in Seq(S) /\ Len(Append(s, b)) = Len(s) + 1
        /\ DOMAIN Append(s, b) = 1 .. Len(s) + 1
  BY <1>1
<1>3. (\A i \in 1 .. Len(s) : Append(s, b)[i] = s[i]) /\ Append(s, b)[Len(s) + 1] = b
  BY <1>1
<1>4. \A i \in 1 .. Len(s) + 1 : i \in 1 .. Len(s) \/ i = Len(s) + 1
  BY <1>1
<1>5. QED
  BY <1>1, <1>2, <1>3, <1>4

LEMMA PrependIs ==
    ASSUME NEW S, NEW s \in Seq(S), NEW b \in S
    PROVE  /\ <<b>> \o s \in Seq(S)
           /\ \A i \in DOMAIN (<<b>> \o s) :
                \/ i = 1 /\ (<<b>> \o s)[i] = b
                \/ i - 1 \in DOMAIN s /\ (<<b>> \o s)[i] = s[i - 1] /\ i \in Nat
<1>1. Len(s) \in Nat /\ DOMAIN s = 1 .. Len(s)
  OBVIOUS
<1>2. <<b>> \in Seq(S) /\ Len(<<b>>) = 1 /\ <<b>>[1] = b
  OBVIOUS
<1>3. <<b>> \o s \in Seq(S) /\ Len(<<b>> \o s) = 1 + Len(s)
  BY <1>1, <1>2
<1>4. DOMAIN (<<b>> \o s) = 1 .. 1 + Len(s)
  BY <1>3
<1>5. \A i \in 1 .. 1 + Len(s) : (<<b>> \o s)[i] = IF i <= 1 THEN <<b>>[i] ELSE s[i - 1]
  BY <1>1, <1>2
<1>6. \A i \in 1 .. 1 + Len(s) : i = 1 \/ (i - 1 \in 1 .. Len(s) /\ i \in Nat /\ ~(i <= 1))
  BY <1>1
<1>7. QED
  BY <1>1, <1>2, <1>3, <1>4, <1>5, <1>6

-----------------------------------------------------------------------------
\* The head of a list is taken
LEMMA FromList ==
    ASSUME NEW H \in Hands, NEW F \in Lists, NEW hp, OnePlace(H, F, hp),
           NEW p \in Types, NEW t \in Types, F[p][t] # <<>>
    PROVE  LET G == [F EXCEPT ![p][t] = Tail(@)]
               b == Head(F[p][t])
           IN G \in Lists /\ OnePlace(H, G, hp) /\ Nowhere(H, G, hp, b) /\ b \in Blocks
<1>0. \A q, v, u, w \in Types : \A k \in DOMAIN F[q][u], l \in DOMAIN F[v][w] :
        F[q][u][k] = F[v][w][l] => q = v /\ u = w /\ k = l
  BY DEF OnePlace
<1> DEFINE G == [F EXCEPT ![p][t] = Tail(@)]
           b == Head(F[p][t])
<1>1. F[p][t] \in Seq(Blocks)
  BY DEF Lists
<1>2. /\ Tail(F[p][t]) \in Seq(Blocks) /\ b \in Blocks
      /\ 1 \in DOMAIN F[p][t] /\ F[p][t][1] = b
      /\ \A i \in DOMAIN Tail(F[p][t]) :
           i + 1 \in DOMAIN F[p][t] /\ Tail(F[p][t])[i] = F[p][t][i + 1] /\ i \in Nat /\ i # 0
  BY <1>1, TailIs
<1>3. G \in Lists
  BY <1>2 DEF Lists
<1>4. /\ G[p][t] = Tail(F[p][t])
      /\ \A q, u \in Types : q # p \/ u # t => G[q][u] = F[q][u]
  BY DEF Lists
<1> HIDE DEF G, b
<1>5. \A q, u \in Types : \A i \in DOMAIN G[q][u] :
        \/ q = p /\ u = t /\ i \in Nat /\ i # 0 /\ i + 1 \in DOMAIN F[q][u]
             /\ G[q][u][i] = F[q][u][i + 1]
        \/ ~(q = p /\ u = t) /\ i \in DOMAIN F[q][u] /\ G[q][u][i] = F[q][u][i]
  <2> SUFFICES ASSUME NEW q \in Types, NEW u \in Types, NEW i \in DOMAIN G[q][u]
               PROVE  \/ /\ q = p /\ u = t /\ i \in Nat /\ i # 0 /\ i + 1 \in DOMAIN F[q][u]
                         /\ G[q][u][i] = F[q][u][i + 1]
                      \/ ~(q = p /\ u = t) /\ i \in DOMAIN F[q][u] /\ G[q][u][i] = F[q][u][i]
    OBVIOUS
  <2>1. CASE q = p /\ u = t
    <3>1. i \in DOMAIN Tail(F[p][t]) /\ G[q][u][i] = Tail(F[p][t])[i]
      BY <1>4, <2>1
    <3>2. QED
      BY <1>2, <2>1, <3>1
  <2>2. CASE ~(q = p /\ u = t)
    <3>1. G[q][u] = F[q][u]
      BY <1>4, <2>2
    <3>2. QED
      BY <2>2, <3>1
  <2>3. QED
    BY <2>1, <2>2
<1>6. ASSUME NEW q \in Types, NEW v \in Types, NEW u \in Types, NEW w \in Types,
             NEW i \in DOMAIN G[q][u], NEW j \in DOMAIN G[v][w], G[q][u][i] = G[v][w][j]
      PROVE  q = v /\ u = w /\ i = j
  <2>1. PICK k \in DOMAIN F[q][u] :
          /\ G[q][u][i] = F[q][u][k]
          /\ IF q = p /\ u = t THEN i \in Nat /\ k = i + 1 ELSE k = i
    BY <1>5, <1>6
  <2>2. PICK l \in DOMAIN F[v][w] :
          /\ G[v][w][j] = F[v][w][l]
          /\ IF v = p /\ w = t THEN j \in Nat /\ l = j + 1 ELSE l = j
    BY <1>5, <1>6
  <2>3. q = v /\ u = w /\ k = l
    <3>1. F[q][u][k] = F[v][w][l]
      BY <1>6, <2>1, <2>2
    <3>2. QED
      BY <1>0, <3>1
  <2>4. CASE q = p /\ u = t
    <3>1. i \in Nat /\ j \in Nat /\ i + 1 = j + 1
      BY <2>1, <2>2, <2>3, <2>4
    <3>2. QED
      BY <2>3, <3>1
  <2>5. QED
    BY <2>1, <2>2, <2>3, <2>4
<1>7. \A q, u \in Types : \A i \in DOMAIN G[q][u] : InList(F, G[q][u][i])
  BY <1>5 DEF InList
<1>8. \A x : InList(F, x) => x \notin hp /\ ~InHand(H, x)
  BY DEF InList, OnePlace
<1>9. OnePlace(H, G, hp)
  BY <1>6, <1>7, <1>8 DEF OnePlace
<1>10. ~InList(G, b)
  <2>1. ASSUME NEW q \in Types, NEW u \in Types, NEW i \in DOMAIN G[q][u], G[q][u][i] = b
        PROVE  FALSE
    BY <1>2, <1>5, <2>1 DEF OnePlace
  <2>2. QED
    BY <2>1 DEF InList
<1>11. Nowhere(H, G, hp, b)
  BY <1>2, <1>8, <1>10 DEF Nowhere, InList
<1>12. QED
  BY <1>2, <1>3, <1>9, <1>11 DEF G, b

\* A block that is nowhere is put at the head of a list
LEMMA IntoList ==
    ASSUME NEW H \in Hands, NEW F \in Lists, NEW hp, OnePlace(H, F, hp),
           NEW b \in Blocks, Nowhere(H, F, hp, b), NEW p \in Types, NEW t \in Types
    PROVE  LET G == [F EXCEPT ![p][t] = <<b>> \o @] IN G \in Lists /\ OnePlace(H, G, hp)
<1>0. \A q, v, u, w \in Types : \A k \in DOMAIN F[q][u], l \in DOMAIN F[v][w] :
        F[q][u][k] = F[v][w][l] => q = v /\ u = w /\ k = l
  BY DEF OnePlace
<1> DEFINE G == [F EXCEPT ![p][t] = <<b>> \o @]
<1>1. F[p][t] \in Seq(Blocks)
  BY DEF Lists
<1>2. /\ <<b>> \o F[p][t] \in Seq(Blocks)
      /\ \A i \in DOMAIN (<<b>> \o F[p][t]) :
           \/ i = 1 /\ (<<b>> \o F[p][t])[i] = b
           \/ i - 1 \in DOMAIN F[p][t] /\ (<<b>> \o F[p][t])[i] = F[p][t][i - 1] /\ i \in Nat
  BY <1>1, PrependIs
<1>3. G \in Lists
  BY <1>2 DEF Lists
<1>4. /\ G[p][t] = <<b>> \o F[p][t]
      /\ \A q, u \in Types : q # p \/ u # t => G[q][u] = F[q][u]
  BY DEF Lists
<1> HIDE DEF G
<1>5. \A q, u \in Types : \A i \in DOMAIN G[q][u] :
        \/ q = p /\ u = t /\ i = 1 /\ G[q][u][i] = b
        \/ q = p /\ u = t /\ i \in Nat /\ i - 1 \in DOMAIN F[q][u] /\ G[q][u][i] = F[q][u][i - 1]
        \/ ~(q = p /\ u = t) /\ i \in DOMAIN F[q][u] /\ G[q][u][i] = F[q][u][i]
  <2> SUFFICES ASSUME NEW q \in Types, NEW u \in Types, NEW i \in DOMAIN G[q][u]
               PROVE  \/ q = p /\ u = t /\ i = 1 /\ G[q][u][i] = b
                      \/ /\ q = p /\ u = t /\ i \in Nat /\ i - 1 \in DOMAIN F[q][u]
                         /\ G[q][u][i] = F[q][u][i - 1]
                      \/ ~(q = p /\ u = t) /\ i \in DOMAIN F[q][u] /\ G[q][u][i] = F[q][u][i]
    OBVIOUS
  <2>1. CASE q = p /\ u = t
    <3>1. i \in DOMAIN (<<b>> \o F[p][t]) /\ G[q][u][i] = (<<b>> \o F[p][t])[i]
      BY <1>4, <2>1
    <3>2. QED
      BY <1>2, <2>1, <3>1
  <2>2. CASE ~(q = p /\ u = t)
    <3>1. G[q][u] = F[q][u]
      BY <1>4, <2>2
    <3>2. QED
      BY <2>2, <3>1
  <2>3. QED
    BY <2>1, <2>2
<1>6. \A q, u \in Types : \A i \in DOMAIN F[q][u] : F[q][u][i] # b
  BY DEF Nowhere, InList
<1>7. ASSUME NEW q \in Types, NEW v \in Types, NEW u \in Types, NEW w \in Types,
             NEW i \in DOMAIN G[q][u], NEW j \in DOMAIN G[v][w], G[q][u][i] = G[v][w][j]
      PROVE  q = v /\ u = w /\ i = j
  <2>1. CASE G[q][u][i] = b
    <3>1. \A x, y \in Types : \A k \in DOMAIN G[x][y] : G[x][y][k] = b => x = p /\ y = t /\ k = 1
      BY <1>5, <1>6
    <3>2. QED
      BY <1>7, <2>1, <3>1
  <2>2. CASE G[q][u][i] # b
    <3>1. PICK k \in DOMAIN F[q][u] :
            /\ G[q][u][i] = F[q][u][k]
            /\ IF q = p /\ u = t THEN i \in Nat /\ k = i - 1 ELSE k = i
      BY <1>5, <1>7, <2>2
    <3>2. PICK l \in DOMAIN F[v][w] :
            /\ G[v][w][j] = F[v][w][l]
            /\ IF v = p /\ w = t THEN j \in Nat /\ l = j - 1 ELSE l = j
      BY <1>5, <1>7, <2>2
    <3>3. q = v /\ u = w /\ k = l
      <4>1. F[q][u][k] = F[v][w][l]
        BY <1>7, <3>1, <3>2
      <4>2. QED
        BY <1>0, <4>1
    <3>4. CASE q = p /\ u = t
      <4>1. i \in Nat /\ j \in Nat /\ i - 1 = j - 1
        BY <3>1, <3>2, <3>3, <3>4
      <4>2. QED
        BY <3>3, <4>1
    <3>5. QED
      BY <3>1, <3>2, <3>3, <3>4
  <2>3. QED
    BY <2>1, <2>2
<1>8. \A q, u \in Types : \A i \in DOMAIN G[q][u] : G[q][u][i] = b \/ InList(F, G[q][u][i])
  BY <1>5 DEF InList
<1>9. \A x : InList(F, x) \/ x = b => x \notin hp /\ ~InHand(H, x)
  BY DEF InList, OnePlace, Nowhere
<1>10. OnePlace(H, G, hp)
  BY <1>7, <1>8, <1>9 DEF OnePlace
<1>11. QED
  BY <1>3, <1>10 DEF G

\* A request takes a block that is nowhere, or Null
LEMMA IntoHand ==
    ASSUME NEW H \in Hands, NEW F \in Lists, NEW hp, OnePlace(H, F, hp),
           NEW b \in Blocks \cup {Null}, b = Null \/ Nowhere(H, F, hp, b), NEW r \in Requests
    PROVE  LET J == [H EXCEPT ![r] = Append(@, b)] IN J \in Hands /\ OnePlace(J, F, hp)
<1> DEFINE J == [H EXCEPT ![r] = Append(@, b)]
<1>1. H[r] \in Seq(Blocks \cup {Null})
  BY DEF Hands
<1>2. /\ Append(H[r], b) \in Seq(Blocks \cup {Null})
      /\ \A i \in DOMAIN Append(H[r], b) :
           \/ i \in DOMAIN H[r] /\ Append(H[r], b)[i] = H[r][i]
           \/ i = Len(H[r]) + 1 /\ Append(H[r], b)[i] = b
  BY <1>1, AppendIs
<1>3. J \in Hands
  BY <1>2 DEF Hands
<1>4. J[r] = Append(H[r], b) /\ \A q \in Requests : q # r => J[q] = H[q]
  BY DEF Hands
<1> HIDE DEF J
<1>5. \A q \in Requests : \A i \in DOMAIN J[q] :
        \/ i \in DOMAIN H[q] /\ J[q][i] = H[q][i]
        \/ q = r /\ i = Len(H[r]) + 1 /\ J[q][i] = b
  BY <1>2, <1>4
<1>6. ASSUME NEW q \in Requests, NEW v \in Requests, NEW i \in DOMAIN J[q], NEW j \in DOMAIN J[v],
             J[q][i] = J[v][j], J[q][i] # Null
      PROVE  q = v /\ i = j
  BY <1>5, <1>6 DEF OnePlace, Nowhere, InHand
<1>7. \A x : InHand(J, x) => InHand(H, x) \/ x = b
  BY <1>5 DEF InHand
<1>8. ASSUME NEW q \in Types, NEW u \in Types, NEW i \in DOMAIN F[q][u]
      PROVE  F[q][u][i] \notin hp /\ ~InHand(J, F[q][u][i])
  <2>1. F[q][u][i] \in Blocks
    BY DEF Lists
  <2>2. F[q][u][i] # b
    BY <2>1, BlockTyped DEF Nowhere, InList
  <2>3. QED
    BY <1>7, <2>2 DEF OnePlace
<1>9. \A q \in Requests : \A i \in DOMAIN J[q] : J[q][i] # Null => J[q][i] \notin hp
  BY <1>5 DEF OnePlace, Nowhere
<1>10. OnePlace(J, F, hp)
  BY <1>6, <1>8, <1>9 DEF OnePlace
<1>11. QED
  BY <1>3, <1>10 DEF J

\* A request gives up its first block
LEMMA FromHand ==
    ASSUME NEW H \in Hands, NEW F \in Lists, NEW hp, OnePlace(H, F, hp),
           NEW r \in Requests, H[r] # <<>>
    PROVE  LET J == [H EXCEPT ![r] = Tail(@)]
               b == Head(H[r])
           IN /\ J \in Hands /\ OnePlace(J, F, hp) /\ b \in Blocks \cup {Null}
              /\ b # Null => Nowhere(J, F, hp, b)
<1> DEFINE J == [H EXCEPT ![r] = Tail(@)]
           b == Head(H[r])
<1>1. H[r] \in Seq(Blocks \cup {Null})
  BY DEF Hands
<1>2. /\ Tail(H[r]) \in Seq(Blocks \cup {Null}) /\ b \in Blocks \cup {Null}
      /\ 1 \in DOMAIN H[r] /\ H[r][1] = b
      /\ \A i \in DOMAIN Tail(H[r]) :
           i + 1 \in DOMAIN H[r] /\ Tail(H[r])[i] = H[r][i + 1] /\ i \in Nat /\ i # 0
  BY <1>1, TailIs
<1>3. J \in Hands
  BY <1>2 DEF Hands
<1>4. J[r] = Tail(H[r]) /\ \A q \in Requests : q # r => J[q] = H[q]
  BY DEF Hands
<1> HIDE DEF J, b
<1>5. \A q \in Requests : \A i \in DOMAIN J[q] :
        \/ q = r /\ i \in Nat /\ i # 0 /\ i + 1 \in DOMAIN H[q] /\ J[q][i] = H[q][i + 1]
        \/ q # r /\ i \in DOMAIN H[q] /\ J[q][i] = H[q][i]
  BY <1>2, <1>4
<1>6. ASSUME NEW q \in Requests, NEW v \in Requests, NEW i \in DOMAIN J[q], NEW j \in DOMAIN J[v],
             J[q][i] = J[v][j], J[q][i] # Null
      PROVE  q = v /\ i = j
  BY <1>5, <1>6 DEF OnePlace
<1>7. \A x : InHand(J, x) => InHand(H, x)
  BY <1>5 DEF InHand
<1>8. \A q \in Requests : \A i \in DOMAIN J[q] : J[q][i] # Null => J[q][i] \notin hp
  BY <1>5 DEF OnePlace
<1>9. OnePlace(J, F, hp)
  BY <1>6, <1>7, <1>8 DEF OnePlace
<1>10. ASSUME b # Null PROVE Nowhere(J, F, hp, b)
  <2>1. ASSUME NEW q \in Requests, NEW i \in DOMAIN J[q], J[q][i] = b PROVE FALSE
    BY <1>2, <1>5, <1>10, <2>1 DEF OnePlace
  <2>2. InHand(H, b) /\ b \notin hp
    BY <1>2, <1>10 DEF InHand, OnePlace
  <2>3. ~InList(F, b)
    BY <2>2 DEF InList, OnePlace
  <2>4. QED
    BY <2>1, <2>2, <2>3 DEF Nowhere, InHand
<1>11. QED
  BY <1>2, <1>3, <1>9, <1>10 DEF J, b

\* A block is taken from the heap
LEMMA FromHeap ==
    ASSUME NEW H \in Hands, NEW F \in Lists, NEW hp \in SUBSET Blocks, OnePlace(H, F, hp),
           NEW b \in hp
    PROVE  OnePlace(H, F, hp \ {b}) /\ Nowhere(H, F, hp \ {b}, b)
<1>1. OnePlace(H, F, hp \ {b})
  BY DEF OnePlace
<1>2. b # Null
  BY BlockTyped
<1>3. Nowhere(H, F, hp \ {b}, b)
  BY <1>2 DEF OnePlace, Nowhere, InHand, InList
<1>4. QED
  BY <1>1, <1>3

\* The released blocks of every list of the first pool go to the heap and the
\* rest of the list stays
LEMMA SuffixIs ==
    ASSUME NEW S, NEW s \in Seq(S)
    PROVE  /\ Kept(s) \in Seq(S)
           /\ \A i \in DOMAIN Kept(s) : \E k \in DOMAIN s :
                /\ Kept(s)[i] = s[k] /\ i \in Int /\ i >= 1
                /\ k = i + (Len(s) - Len(s) \div 2)
           /\ \A x \in Released(s) : \E k \in 1 .. Len(s) - Len(s) \div 2 :
                k \in DOMAIN s /\ x = s[k]
<1> DEFINE n == Len(s) - Len(s) \div 2
<1>1. Len(s) \in Nat /\ DOMAIN s = 1 .. Len(s)
  OBVIOUS
<1>2. n \in 0 .. Len(s)
  BY <1>1
<1>3. Kept(s) = SubSeq(s, n + 1, Len(s))
  BY DEF Kept
<1> HIDE DEF n
<1>4. /\ SubSeq(s, n + 1, Len(s)) \in Seq(S)
      /\ DOMAIN SubSeq(s, n + 1, Len(s)) = 1 .. Len(s) - n
      /\ \A i \in 1 .. Len(s) - n : SubSeq(s, n + 1, Len(s))[i] = s[i + n]
  <2>1. \A i \in n + 1 .. Len(s) : i \in 1 .. Len(s)
    BY <1>1, <1>2
  <2>2. \A i \in n + 1 .. Len(s) : s[i] \in S
    BY <1>1, <2>1
  <2>3. /\ SubSeq(s, n + 1, Len(s)) \in Seq(S)
        /\ Len(SubSeq(s, n + 1, Len(s))) = IF n + 1 <= Len(s) THEN Len(s) - (n + 1) + 1 ELSE 0
        /\ \A i \in 1 .. Len(s) - (n + 1) + 1 :
             SubSeq(s, n + 1, Len(s))[i] = s[n + 1 + i - 1]
    BY <1>1, <1>2, <2>1, <2>2, SubSeqProperties
  <2>4. Len(SubSeq(s, n + 1, Len(s))) = Len(s) - n
    <3>1. CASE n + 1 <= Len(s)
      <4>1. Len(s) - (n + 1) + 1 = Len(s) - n
        BY <1>1, <1>2
      <4>2. QED
        BY <2>3, <3>1, <4>1
    <3>2. CASE n = Len(s)
      <4>1. ~(n + 1 <= Len(s)) /\ Len(s) - n = 0
        BY <1>1, <3>2
      <4>2. QED
        BY <2>3, <4>1
    <3>3. n + 1 <= Len(s) \/ n = Len(s)
      <4> DEFINE m == Len(s)
      <4>1. m \in Nat /\ n \in 0 .. m
        BY <1>1, <1>2
      <4> HIDE DEF m
      <4>2. n + 1 <= m \/ n = m
        BY <4>1
      <4>3. QED
        BY <4>2 DEF m
    <3>4. QED
      BY <3>1, <3>2, <3>3
  <2>5. \A i \in 1 .. Len(s) - n : n + 1 + i - 1 = i + n /\ i \in 1 .. Len(s) - (n + 1) + 1
    BY <1>1, <1>2
  <2>6. DOMAIN SubSeq(s, n + 1, Len(s)) = 1 .. Len(s) - n
    BY <2>3, <2>4
  <2>7. QED
    BY <2>3, <2>5, <2>6
<1>5. \A i \in 1 .. Len(s) - n : i + n \in 1 .. Len(s) /\ i \in Int /\ i >= 1
  BY <1>1, <1>2
<1>6. \A x \in Released(s) : \E k \in 1 .. n : k \in DOMAIN s /\ x = s[k]
  BY <1>1, <1>2 DEF Released, n
<1>7. QED
  BY <1>1, <1>3, <1>4, <1>5, <1>6 DEF n

\* A collection moves the blocks it releases from the first pool to the heap
LEMMA Collect ==
    ASSUME NEW H \in Hands, NEW F \in Lists, NEW hp \in SUBSET Blocks, OnePlace(H, F, hp)
    PROVE  LET G == [F EXCEPT ![First] = [t \in Types |-> Kept(F[First][t])]]
               hq == hp \cup UNION {Released(F[First][t]) : t \in Types}
           IN G \in Lists /\ hq \in SUBSET Blocks /\ OnePlace(H, G, hq)
<1> DEFINE G == [F EXCEPT ![First] = [t \in Types |-> Kept(F[First][t])]]
           R == UNION {Released(F[First][t]) : t \in Types}
           Cut(t) == Len(F[First][t]) - Len(F[First][t]) \div 2
<1>0. \A q, v, u, w \in Types : \A k \in DOMAIN F[q][u], l \in DOMAIN F[v][w] :
        F[q][u][k] = F[v][w][l] => q = v /\ u = w /\ k = l
  BY DEF OnePlace
<1>1. First \in Types /\ \A p, t \in Types : F[p][t] \in Seq(Blocks)
  BY BlockTyped DEF Lists
<1>2. \A t \in Types : Cut(t) \in Nat
  <2>1. ASSUME NEW t \in Types PROVE Cut(t) \in Nat
    <3>1. Len(F[First][t]) \in Nat
      BY <1>1
    <3> DEFINE m == Len(F[First][t])
    <3>2. m \in Nat
      BY <3>1
    <3> HIDE DEF m
    <3>3. m - m \div 2 \in Nat
      BY <3>2
    <3>4. QED
      BY <3>3 DEF m
  <2>2. QED
    BY <2>1
<1>3. \A t \in Types :
        /\ Kept(F[First][t]) \in Seq(Blocks)
        /\ \A i \in DOMAIN Kept(F[First][t]) : \E k \in DOMAIN F[First][t] :
             /\ Kept(F[First][t])[i] = F[First][t][k] /\ i \in Int /\ i >= 1
             /\ k = i + Cut(t)
        /\ \A x \in Released(F[First][t]) : \E k \in 1 .. Cut(t) :
             k \in DOMAIN F[First][t] /\ x = F[First][t][k]
  BY <1>1, SuffixIs
<1>4. G \in Lists
  BY <1>1, <1>3 DEF Lists
<1>5. /\ \A t \in Types : G[First][t] = Kept(F[First][t])
      /\ \A q, t \in Types : q # First => G[q][t] = F[q][t]
  BY <1>1 DEF Lists
<1>6. \A x \in R : \E u \in Types : \E k \in DOMAIN F[First][u] :
        k \in 1 .. Cut(u) /\ x = F[First][u][k]
  <2>1. ASSUME NEW x \in R
        PROVE  \E u \in Types : \E k \in DOMAIN F[First][u] :
                 k \in 1 .. Cut(u) /\ x = F[First][u][k]
    <3>1. PICK u \in Types : x \in Released(F[First][u])
      OBVIOUS
    <3>2. \E k \in 1 .. Cut(u) : k \in DOMAIN F[First][u] /\ x = F[First][u][k]
      BY <1>3, <3>1
    <3>3. QED
      BY <3>2
  <2>2. QED
    BY <2>1
<1> HIDE DEF G, R, Cut
<1>7. ASSUME NEW q \in Types, NEW u \in Types, NEW i \in DOMAIN G[q][u]
      PROVE  \E k \in DOMAIN F[q][u] :
               /\ G[q][u][i] = F[q][u][k]
               /\ \/ q = First /\ i \in Int /\ i >= 1 /\ k = i + Cut(u)
                  \/ q # First /\ k = i
  <2>1. CASE q = First
    BY <1>3, <1>5, <2>1
  <2>2. CASE q # First
    BY <1>5, <2>2
  <2>3. QED
    BY <2>1, <2>2
<1>8. ASSUME NEW q \in Types, NEW v \in Types, NEW u \in Types, NEW w \in Types,
             NEW i \in DOMAIN G[q][u], NEW j \in DOMAIN G[v][w], G[q][u][i] = G[v][w][j]
      PROVE  q = v /\ u = w /\ i = j
  <2>1. PICK k \in DOMAIN F[q][u] :
          /\ G[q][u][i] = F[q][u][k]
          /\ \/ q = First /\ i \in Int /\ i >= 1 /\ k = i + Cut(u)
             \/ q # First /\ k = i
    BY <1>7
  <2>2. PICK l \in DOMAIN F[v][w] :
          /\ G[v][w][j] = F[v][w][l]
          /\ \/ v = First /\ j \in Int /\ j >= 1 /\ l = j + Cut(w)
             \/ v # First /\ l = j
    BY <1>7
  <2>3. F[q][u][k] = F[v][w][l]
    BY <1>8, <2>1, <2>2
  <2>4. q = v /\ u = w /\ k = l
    BY <1>0, <2>3
  <2>5. CASE q = First
    BY <1>2, <2>1, <2>2, <2>4, <2>5
  <2>6. CASE q # First
    BY <2>1, <2>2, <2>4, <2>6
  <2>7. QED
    BY <2>4, <2>5, <2>6
<1>9. ASSUME NEW q \in Types, NEW u \in Types, NEW i \in DOMAIN G[q][u]
      PROVE  G[q][u][i] \notin hp \cup R /\ ~InHand(H, G[q][u][i])
  <2>1. PICK k \in DOMAIN F[q][u] :
          /\ G[q][u][i] = F[q][u][k]
          /\ \/ q = First /\ i \in Int /\ i >= 1 /\ k = i + Cut(u)
             \/ q # First /\ k = i
    BY <1>7
  <2>2. G[q][u][i] \notin hp /\ ~InHand(H, G[q][u][i])
    BY <2>1 DEF OnePlace
  <2>3. ASSUME G[q][u][i] \in R PROVE FALSE
    <3>1. PICK w \in Types : \E l \in DOMAIN F[First][w] :
            l \in 1 .. Cut(w) /\ G[q][u][i] = F[First][w][l]
      BY <1>6, <2>3
    <3>2. PICK l \in DOMAIN F[First][w] : l \in 1 .. Cut(w) /\ G[q][u][i] = F[First][w][l]
      BY <3>1
    <3>3. F[q][u][k] = F[First][w][l]
      BY <2>1, <3>2
    <3>4. q = First /\ u = w /\ k = l
      BY <1>0, <1>1, <3>3
    <3>5. i \in Int /\ i >= 1 /\ l = i + Cut(w) /\ l \in 1 .. Cut(w) /\ Cut(w) \in Nat
      BY <1>2, <2>1, <3>2, <3>4
    <3>6. QED
      BY <3>5
  <2>4. QED
    BY <2>2, <2>3
<1>10. ASSUME NEW x \in R PROVE x \in Blocks /\ ~InHand(H, x)
  <2>1. PICK u \in Types : \E k \in DOMAIN F[First][u] : x = F[First][u][k]
    BY <1>6
  <2>2. PICK k \in DOMAIN F[First][u] : x = F[First][u][k]
    BY <2>1
  <2>3. x \in Blocks
    BY <1>1, <2>2
  <2>4. QED
    BY <1>1, <2>2, <2>3 DEF OnePlace
<1>11. \A r \in Requests : \A i \in DOMAIN H[r] : H[r][i] # Null => H[r][i] \notin hp \cup R
  BY <1>10 DEF OnePlace, InHand
<1>12. OnePlace(H, G, hp \cup R)
  BY <1>8, <1>9, <1>11 DEF OnePlace
<1>13. QED
  BY <1>4, <1>10, <1>12 DEF G, R

\* A collection may forget some of the blocks it releases
LEMMA Forget ==
    ASSUME NEW H, NEW F, NEW hp, OnePlace(H, F, hp), NEW hq, hq \subseteq hp
    PROVE  OnePlace(H, F, hq)
BY DEF OnePlace

\* A list that is cut is the beginning of what it was
LEMMA CutIs ==
    ASSUME NEW S, NEW s \in Seq(S), NEW b
    PROVE  /\ CutBehind(s, b) \in Seq(S)
           /\ \A i \in DOMAIN CutBehind(s, b) : i \in DOMAIN s /\ CutBehind(s, b)[i] = s[i]
<1>1. Len(s) \in Nat /\ DOMAIN s = 1 .. Len(s)
  OBVIOUS
<1>2. CASE \E i \in DOMAIN s : s[i] = b
  <2>1. PICK n \in 1 .. Len(s) : CutBehind(s, b) = SubSeq(s, 1, n)
    BY <1>1, <1>2 DEF CutBehind
  <2>2. \A i \in 1 .. n : i \in 1 .. Len(s) /\ s[i] \in S
    BY <1>1
  <2>3. /\ SubSeq(s, 1, n) \in Seq(S) /\ DOMAIN SubSeq(s, 1, n) = 1 .. n
        /\ \A i \in 1 .. n : SubSeq(s, 1, n)[i] = s[i]
    BY <1>1, <2>2
  <2>4. QED
    BY <1>1, <2>1, <2>2, <2>3
<1>3. CASE ~ \E i \in DOMAIN s : s[i] = b
  BY <1>3 DEF CutBehind
<1>4. QED
  BY <1>2, <1>3

\* Lists that are cut share no block and have none twice
Cuts(F, b) == [p \in Types |-> [t \in Types |-> CutBehind(F[p][t], b)]]

LEMMA Cut ==
    ASSUME NEW H, NEW F \in Lists, NEW hp, OnePlace(H, F, hp), NEW b
    PROVE  Cuts(F, b) \in Lists /\ OnePlace(H, Cuts(F, b), hp)
<1> DEFINE G == Cuts(F, b)
<1>1. ASSUME NEW p \in Types, NEW t \in Types
      PROVE  /\ G[p][t] \in Seq(Blocks)
             /\ \A i \in DOMAIN G[p][t] : i \in DOMAIN F[p][t] /\ G[p][t][i] = F[p][t][i]
  <2>1. F[p][t] \in Seq(Blocks) /\ G[p][t] = CutBehind(F[p][t], b)
    BY DEF Lists, Cuts
  <2>2. QED
    BY <2>1, CutIs
<1>2. G \in Lists
  BY <1>1 DEF Lists, Cuts
<1> HIDE DEF G
<1>3. ASSUME NEW q \in Types, NEW v \in Types, NEW u \in Types, NEW w \in Types,
             NEW i \in DOMAIN G[q][u], NEW j \in DOMAIN G[v][w], G[q][u][i] = G[v][w][j]
      PROVE  q = v /\ u = w /\ i = j
  <2>1. /\ i \in DOMAIN F[q][u] /\ G[q][u][i] = F[q][u][i]
        /\ j \in DOMAIN F[v][w] /\ G[v][w][j] = F[v][w][j]
    BY <1>1
  <2>2. F[q][u][i] = F[v][w][j]
    BY <1>3, <2>1
  <2>3. QED
    BY <2>1, <2>2 DEF OnePlace
<1>4. ASSUME NEW p \in Types, NEW t \in Types, NEW i \in DOMAIN G[p][t]
      PROVE  G[p][t][i] \notin hp /\ ~InHand(H, G[p][t][i])
  BY <1>1 DEF OnePlace
<1>5. OnePlace(H, G, hp)
  BY <1>3, <1>4 DEF OnePlace
<1>6. QED
  BY <1>2, <1>5 DEF G

-----------------------------------------------------------------------------
LEMMA Initially == PoolInit => PoolInv
<1> SUFFICES ASSUME PoolInit PROVE PoolInv
  OBVIOUS
<1>1. Preblocks \in Nat /\ Types # {} /\ 1 \in Types
  BY MempoolAssumption
<1>2. ASSUME NEW p \in Types, NEW t \in Types
      PROVE  /\ free[p][t] \in Seq(Blocks) /\ DOMAIN free[p][t] = 1 .. Preblocks
             /\ \A i \in 1 .. Preblocks : free[p][t][i] = <<"map", t, p, Preblocks + 1 - i>>
  <2>1. free[p][t] = [i \in 1 .. Preblocks |-> <<"map", t, p, Preblocks + 1 - i>>]
    BY DEF PoolInit
  <2>2. \A i \in 1 .. Preblocks : Preblocks + 1 - i \in 1 .. Preblocks
    BY <1>1
  <2>3. \A i \in 1 .. Preblocks : <<"map", t, p, Preblocks + 1 - i>> \in Blocks
    <3>1. \A i \in 1 .. Preblocks : Preblocks + 1 - i \in Serials
      BY <2>2 DEF Serials
    <3>2. QED
      BY <3>1 DEF Blocks
  <2>4. free[p][t] \in Seq(Blocks)
    <3>1. free[p][t] \in [1 .. Preblocks -> Blocks]
      BY <2>1, <2>3
    <3>2. QED
      BY <1>1, <3>1, SeqDef
  <2>5. QED
    BY <2>1, <2>4
<1>3. free \in Lists
  BY <1>2 DEF PoolInit, Lists
<1>4. heap \subseteq Blocks
  <2>1. \A t \in Types : \A i \in HeapBlocks : <<"heap", t, 0, i>> \in Blocks
    <3>1. \A t \in Types : \A p \in Types \cup {0} : \A i \in HeapBlocks :
            <<"heap", t, p, i>> \in Blocks
      <4>1. HeapBlocks \subseteq Serials
        BY DEF Serials
      <4>2. QED
        BY <4>1 DEF Blocks
    <3>2. QED
      BY <3>1, Zenon
  <2>2. QED
    BY <2>1 DEF PoolInit, Heap
<1>5. request \in [Requests -> Request]
  <2>1. <<>> \in Seq(Blocks \cup {Null})
    OBVIOUS
  <2>2. [pc |-> "idle", held |-> <<>>, want |-> 1] \in Request
    <3>1. \A h \in Seq(Blocks \cup {Null}) : \A w \in Types :
            [pc |-> "idle", held |-> h, want |-> w] \in Request
      BY DEF Pcs, Request
    <3>2. QED
      BY <1>1, <2>1, <3>1, Zenon
  <2>3. QED
    BY <2>2 DEF PoolInit
<1>6. \A r \in Requests : HeldBy[r] = <<>>
  BY DEF PoolInit, HeldBy
<1>7. \A r \in Requests : DOMAIN HeldBy[r] = {}
  BY <1>6
<1>8. \A q, v, u, w \in Types : \A i \in DOMAIN free[q][u], j \in DOMAIN free[v][w] :
        free[q][u][i] = free[v][w][j] => q = v /\ u = w /\ i = j
  <2>1. \A i, j \in 1 .. Preblocks : Preblocks + 1 - i = Preblocks + 1 - j => i = j
    BY <1>1
  <2>2. ASSUME NEW q \in Types, NEW v \in Types, NEW u \in Types, NEW w \in Types,
               NEW i \in DOMAIN free[q][u], NEW j \in DOMAIN free[v][w],
               free[q][u][i] = free[v][w][j]
        PROVE  q = v /\ u = w /\ i = j
    <3>1. i \in 1 .. Preblocks /\ j \in 1 .. Preblocks
      BY <1>2
    <3>2. <<"map", u, q, Preblocks + 1 - i>> = <<"map", w, v, Preblocks + 1 - j>>
      <4>1. free[q][u][i] = <<"map", u, q, Preblocks + 1 - i>>
        BY <1>2, <3>1
      <4>2. free[v][w][j] = <<"map", w, v, Preblocks + 1 - j>>
        BY <1>2, <3>1
      <4>3. QED
        BY <2>2, <4>1, <4>2
    <3>3. u = w /\ q = v /\ Preblocks + 1 - i = Preblocks + 1 - j
      BY <3>2
    <3>4. QED
      BY <2>1, <3>1, <3>3
  <2>3. QED
    BY <2>2
<1>9. \A p, t \in Types : \A i \in DOMAIN free[p][t] : free[p][t][i] \notin heap
  BY <1>2 DEF PoolInit, Heap
<1>10. OnePlace(HeldBy, free, heap)
  BY <1>7, <1>8, <1>9 DEF OnePlace, InHand
<1>11. QED
  BY <1>3, <1>4, <1>5, <1>10 DEF PoolInv, PoolTypes

-----------------------------------------------------------------------------
LEMMA HeldTyped == PoolTypes => HeldBy \in Hands
<1> SUFFICES ASSUME PoolTypes PROVE HeldBy \in Hands
  OBVIOUS
<1>1. \A r \in Requests : request[r].held \in Seq(Blocks \cup {Null})
  BY DEF PoolTypes, Request
<1>2. QED
  BY <1>1 DEF HeldBy, Hands

\* What a step of one request makes of what it holds
LEMMA RequestSteps ==
    ASSUME NEW r \in Requests, PoolTypes,
           NEW c \in Pcs, NEW s \in Seq(Blocks \cup {Null}), NEW w \in Types,
           request' = [request EXCEPT ![r] = [pc |-> c, held |-> s, want |-> w]]
    PROVE  request' \in [Requests -> Request] /\ HeldBy' = [HeldBy EXCEPT ![r] = s]
<1>1. request \in [Requests -> Request]
  BY DEF PoolTypes
<1>2. [pc |-> c, held |-> s, want |-> w] \in Request
  BY DEF Request
<1>3. request' \in [Requests -> Request]
  BY <1>1, <1>2
<1>4. \A q \in Requests : request'[q].held = IF q = r THEN s ELSE request[q].held
  BY <1>1
<1>5. QED
  BY <1>3, <1>4 DEF HeldBy

LEMMA TakeIs ==
    ASSUME NEW r \in Requests, PoolTypes, NEW b \in Blocks \cup {Null}, NEW c \in Pcs,
           Take(r, b, c)
    PROVE  request' \in [Requests -> Request]
           /\ HeldBy' = [HeldBy EXCEPT ![r] = Append(@, b)]
<1> DEFINE s == Append(request[r].held, b)
<1>1. request \in [Requests -> Request]
  BY DEF PoolTypes
<1>2. request[r].held \in Seq(Blocks \cup {Null})
  BY <1>1 DEF Request
<1>3. s \in Seq(Blocks \cup {Null})
  BY <1>2, AppendIs
<1>4. request' = [request EXCEPT ![r].held = s, ![r].pc = c]
  BY DEF Take
<1> HIDE DEF s
<1>5. request' \in [Requests -> Request]
  BY <1>1, <1>3, <1>4 DEF Request
<1>6. \A q \in Requests : request'[q].held = IF q = r THEN s ELSE request[q].held
  BY <1>1, <1>4 DEF Request
<1>7. QED
  BY <1>5, <1>6 DEF HeldBy, s

LEMMA DropIs ==
    ASSUME NEW r \in Requests, PoolTypes, request[r].held # <<>>, NEW c \in Pcs,
           request' = [request EXCEPT ![r].held = Tail(@), ![r].pc = c]
    PROVE  request' \in [Requests -> Request] /\ HeldBy' = [HeldBy EXCEPT ![r] = Tail(@)]
<1> DEFINE s == Tail(request[r].held)
<1>1. request \in [Requests -> Request]
  BY DEF PoolTypes
<1>2. request[r].held \in Seq(Blocks \cup {Null})
  BY <1>1 DEF Request
<1>3. s \in Seq(Blocks \cup {Null})
  BY <1>2, TailIs
<1>4. request' = [request EXCEPT ![r].held = s, ![r].pc = c]
  OBVIOUS
<1> HIDE DEF s
<1>5. request' \in [Requests -> Request]
  <2>1. [request[r] EXCEPT !.held = s, !.pc = c] \in Request
    BY <1>1, <1>3 DEF Request
  <2>2. request' = [request EXCEPT ![r] = [request[r] EXCEPT !.held = s, !.pc = c]]
    BY <1>4
  <2>3. QED
    BY <1>1, <2>1, <2>2
<1>6. /\ request'[r].held = s
      /\ \A q \in Requests : q # r => request'[q].held = request[q].held
  <2>1. ASSUME NEW q \in Requests, q # r PROVE request'[q].held = request[q].held
    BY <1>1, <1>4, <2>1
  <2>2. request[r] \in Request /\ request'[r] = [request[r] EXCEPT !.held = s, !.pc = c]
    BY <1>1, <1>4
  <2>3. request'[r].held = s
    BY <2>2 DEF Request
  <2>4. QED
    BY <2>1, <2>3
<1>7. QED
  BY <1>5, <1>6 DEF HeldBy, s

LEMMA KeepIs ==
    ASSUME NEW r \in Requests, PoolTypes, NEW c \in Pcs, NEW w \in Types,
           request' = [request EXCEPT ![r].pc = c, ![r].want = w]
    PROVE  request' \in [Requests -> Request] /\ HeldBy' = HeldBy
<1>1. request \in [Requests -> Request]
  BY DEF PoolTypes
<1>2. request' \in [Requests -> Request]
  BY <1>1 DEF Request
<1>3. \A q \in Requests : request'[q].held = request[q].held
  BY <1>1 DEF Request
<1>4. QED
  BY <1>2, <1>3 DEF HeldBy

LEMMA PcIs ==
    ASSUME NEW r \in Requests, PoolTypes, NEW c \in Pcs,
           request' = [request EXCEPT ![r].pc = c]
    PROVE  request' \in [Requests -> Request] /\ HeldBy' = HeldBy
<1>1. request \in [Requests -> Request]
  BY DEF PoolTypes
<1>2. request' \in [Requests -> Request]
  BY <1>1 DEF Request
<1>3. \A q \in Requests : request'[q].held = request[q].held
  BY <1>1 DEF Request
<1>4. QED
  BY <1>2, <1>3 DEF HeldBy

-----------------------------------------------------------------------------
LEMMA AllocHitStep ==
    ASSUME PoolInv, NEW r \in Requests, NEW t \in Types, AllocHit(r, t)
    PROVE  PoolInv'
<1> DEFINE b == Head(free[t][t])
<1>1. free \in Lists /\ HeldBy \in Hands /\ OnePlace(HeldBy, free, heap) /\ PoolTypes
  BY HeldTyped DEF PoolInv, PoolTypes
<1>2. /\ free[t][t] # <<>> /\ free' = [free EXCEPT ![t][t] = Tail(@)]
      /\ heap' = heap
  BY DEF AllocHit
<1>3. /\ free' \in Lists /\ OnePlace(HeldBy, free', heap)
      /\ Nowhere(HeldBy, free', heap, b) /\ b \in Blocks
  BY <1>1, <1>2, FromList
<1>4. request' \in [Requests -> Request] /\ HeldBy' = [HeldBy EXCEPT ![r] = Append(@, b)]
  <2>1. PICK c \in {"clear", "parse"} : Take(r, b, c)
    BY DEF AllocHit
  <2>2. c \in Pcs
    BY <2>1 DEF Pcs
  <2> HIDE DEF b
  <2>3. QED
    BY <1>1, <1>3, <2>1, <2>2, TakeIs
<1> HIDE DEF b
<1>5. OnePlace(HeldBy', free', heap')
  BY <1>1, <1>2, <1>3, <1>4, IntoHand
<1>6. heap' \subseteq Blocks
  BY <1>1, <1>2 DEF PoolTypes
<1>7. QED
  BY <1>3, <1>4, <1>5, <1>6 DEF PoolInv, PoolTypes

LEMMA AllocNewStep ==
    ASSUME PoolInv, NEW r \in Requests, AllocNew(r)
    PROVE  PoolInv'
<1>1. /\ free \in Lists /\ HeldBy \in Hands /\ OnePlace(HeldBy, free, heap) /\ PoolTypes
      /\ heap \in SUBSET Blocks
  BY HeldTyped DEF PoolInv, PoolTypes
<1>2. PICK b \in heap : heap' = heap \ {b} /\ Take(r, b, "parse") /\ free' = free
  BY DEF AllocNew
<1>3. OnePlace(HeldBy, free, heap \ {b}) /\ Nowhere(HeldBy, free, heap \ {b}, b) /\ b \in Blocks
  BY <1>1, FromHeap
<1>4. request' \in [Requests -> Request] /\ HeldBy' = [HeldBy EXCEPT ![r] = Append(@, b)]
  BY <1>1, <1>2, <1>3, TakeIs DEF Pcs
<1>5. OnePlace(HeldBy', free', heap')
  BY <1>1, <1>2, <1>3, <1>4, IntoHand
<1>6. QED
  BY <1>1, <1>2, <1>4, <1>5 DEF PoolInv, PoolTypes

LEMMA AllocFailsStep ==
    ASSUME PoolInv, NEW r \in Requests, AllocFails(r)
    PROVE  PoolInv'
<1>1. free \in Lists /\ HeldBy \in Hands /\ OnePlace(HeldBy, free, heap) /\ PoolTypes
  BY HeldTyped DEF PoolInv, PoolTypes
<1>2. Take(r, Null, "parse") /\ free' = free /\ heap' = heap
  BY DEF AllocFails
<1>3. request' \in [Requests -> Request] /\ HeldBy' = [HeldBy EXCEPT ![r] = Append(@, Null)]
  BY <1>1, <1>2, TakeIs DEF Pcs
<1>4. OnePlace(HeldBy', free', heap')
  BY <1>1, <1>2, <1>3, IntoHand
<1>5. QED
  BY <1>1, <1>2, <1>3, <1>4 DEF PoolInv, PoolTypes

\* The step gives a block up and the list of its type in the first pool takes it
LEMMA FreeBlockStep ==
    ASSUME PoolInv, NEW r \in Requests, FreeBlock(r)
    PROVE  PoolInv'
<1> DEFINE b == Head(request[r].held)
           J == [HeldBy EXCEPT ![r] = Tail(@)]
<1>1. free \in Lists /\ HeldBy \in Hands /\ OnePlace(HeldBy, free, heap) /\ PoolTypes
  BY HeldTyped DEF PoolInv, PoolTypes
<1>2. HeldBy[r] = request[r].held /\ HeldBy[r] # <<>>
  BY DEF HeldBy, FreeBlock
<1>3. /\ J \in Hands /\ OnePlace(J, free, heap) /\ b \in Blocks \cup {Null}
      /\ b # Null => Nowhere(J, free, heap, b)
  BY <1>1, <1>2, FromHand
<1>4. heap' = heap
  BY DEF FreeBlock
<1>5. CASE b = Null
  <2>1. request[r].pc = "cleanup" /\ "cleanup" \in Pcs
    BY DEF FreeBlock, Pcs
  <2>2. request' = [request EXCEPT ![r].held = Tail(@), ![r].pc = "cleanup"]
    <3>1. request' = [request EXCEPT ![r].held = Tail(@)] /\ request \in [Requests -> Request]
      BY <1>1, <1>5 DEF FreeBlock, PoolTypes
    <3>2. QED
      BY <2>1, <3>1 DEF Request
  <2>3. free' = free
    BY <1>5 DEF FreeBlock
  <2>4. request' \in [Requests -> Request] /\ HeldBy' = J
    BY <1>1, <1>2, <2>1, <2>2, DropIs
  <2>5. QED
    BY <1>1, <1>3, <1>4, <2>3, <2>4 DEF PoolInv, PoolTypes
<1>6. CASE b # Null /\ b \in broken
  <2>1. free' = free /\ request' = request
    BY <1>6 DEF FreeBlock
  <2>2. HeldBy' = HeldBy
    BY <2>1 DEF HeldBy
  <2>3. QED
    BY <1>1, <1>4, <2>1, <2>2 DEF PoolInv, PoolTypes
<1>7. CASE b # Null /\ b \notin broken
  <2>1. /\ free' = [free EXCEPT ![First][TypeOf(b)] = <<b>> \o @]
        /\ request' = [request EXCEPT ![r].held = Tail(@), ![r].pc = "freed"]
    BY <1>7 DEF FreeBlock
  <2>2. "freed" \in Pcs
    BY DEF Pcs
  <2>3. request' \in [Requests -> Request] /\ HeldBy' = J
    BY <1>1, <1>2, <2>1, <2>2, DropIs
  <2>4. b \in Blocks /\ TypeOf(b) \in Types /\ First \in Types
    BY <1>3, <1>7, BlockTyped
  <2> HIDE DEF b, J
  <2>5. free' \in Lists /\ OnePlace(J, free', heap)
    BY <1>1, <1>3, <1>7, <2>1, <2>4, IntoList
  <2>6. QED
    BY <1>1, <1>4, <2>3, <2>5 DEF PoolInv, PoolTypes
<1>8. QED
  BY <1>5, <1>6, <1>7

\* The header of the block above is wiped, and with it the rest of a list
LEMMA ClearBlockStep ==
    ASSUME PoolInv, NEW r \in Requests, ClearBlock(r)
    PROVE  PoolInv'
<1>1. free \in Lists /\ OnePlace(HeldBy, free, heap) /\ PoolTypes
  BY DEF PoolInv, PoolTypes
<1>2. request' = [request EXCEPT ![r].pc = "parse"] /\ heap' = heap
  BY DEF ClearBlock
<1>3. request' \in [Requests -> Request] /\ HeldBy' = HeldBy
  BY <1>1, <1>2, PcIs DEF Pcs
<1>4. free' = free \/ \E x : free' = Cuts(free, x)
  BY DEF ClearBlock, Cuts
<1>5. free' \in Lists /\ OnePlace(HeldBy, free', heap)
  BY <1>1, <1>4, Cut
<1>6. QED
  BY <1>1, <1>2, <1>3, <1>5 DEF PoolInv, PoolTypes

LEMMA GcStep ==
    ASSUME PoolInv, NEW r \in Requests, mempool_gc(r)
    PROVE  PoolInv'
<1>1. /\ free \in Lists /\ HeldBy \in Hands /\ OnePlace(HeldBy, free, heap) /\ PoolTypes
      /\ heap \in SUBSET Blocks
  BY HeldTyped DEF PoolInv, PoolTypes
<1>2. CASE \E b \in Collected \ broken : Mapped(b)
  <2>1. free' = free /\ heap' = heap /\ request' = request
    BY <1>2 DEF mempool_gc
  <2>2. HeldBy' = HeldBy
    BY <2>1 DEF HeldBy
  <2>3. QED
    BY <1>1, <2>1, <2>2 DEF PoolInv, PoolTypes
<1>3. CASE ~ \E b \in Collected \ broken : Mapped(b)
  <2>1. /\ free' = [free EXCEPT ![First] = [t \in Types |-> Kept(free[First][t])]]
        /\ heap' = heap \cup (Collected \ broken)
        /\ request' = [request EXCEPT ![r].pc = "cleanup"]
    BY <1>3 DEF mempool_gc, Kept
  <2>2. free' \in Lists /\ heap' \in SUBSET Blocks /\ OnePlace(HeldBy, free', heap')
    <3> DEFINE hq == heap \cup UNION {Released(free[First][t]) : t \in Types}
    <3>1. free' \in Lists /\ hq \in SUBSET Blocks /\ OnePlace(HeldBy, free', hq)
      BY <1>1, <2>1, Collect
    <3>2. heap' \subseteq hq
      BY <2>1 DEF Collected
    <3> HIDE DEF hq
    <3>3. QED
      BY <3>1, <3>2, Forget
  <2>3. request' \in [Requests -> Request] /\ HeldBy' = HeldBy
    BY <1>1, <2>1, PcIs DEF Pcs
  <2>4. QED
    BY <2>2, <2>3 DEF PoolInv, PoolTypes
<1>4. QED
  BY <1>2, <1>3

LEMMA Inductive == PoolInv /\ [PoolNext]_poolVars => PoolInv'
<1> SUFFICES ASSUME PoolInv, [PoolNext]_poolVars PROVE PoolInv'
  OBVIOUS
<1>1. PoolTypes /\ free \in Lists /\ heap \subseteq Blocks /\ OnePlace(HeldBy, free, heap)
  BY DEF PoolInv, PoolTypes
<1>2. ASSUME free' = free, heap' = heap, HeldBy' = HeldBy, request' \in [Requests -> Request]
      PROVE  PoolInv'
  BY <1>1, <1>2 DEF PoolInv, PoolTypes
<1>3. {"idle", "parse", "allocate", "clear", "cleanup", "freed"} \subseteq Pcs
  BY DEF Pcs
<1>4. ASSUME NEW r \in Requests, ParseBegins(r) PROVE PoolInv'
  <2> DEFINE J == [HeldBy EXCEPT ![r] = <<>>]
  <2>1. /\ free' = free /\ heap' = heap
        /\ request' = [request EXCEPT ![r] = [pc |-> "parse", held |-> <<>>, want |-> 1]]
    BY <1>4 DEF ParseBegins
  <2>2. <<>> \in Seq(Blocks \cup {Null}) /\ 1 \in Types
    BY MempoolAssumption
  <2>3. request' \in [Requests -> Request] /\ HeldBy' = J
    BY <1>1, <1>3, <2>1, <2>2, RequestSteps
  <2>4. J[r] = <<>> /\ \A q \in Requests : q # r => J[q] = HeldBy[q]
    BY DEF HeldBy
  <2> HIDE DEF J
  <2>5. \A q \in Requests : \A i \in DOMAIN J[q] : q # r /\ i \in DOMAIN HeldBy[q] /\ J[q][i] = HeldBy[q][i]
    BY <2>4
  <2>6. OnePlace(J, free, heap)
    BY <1>1, <2>5 DEF OnePlace, InHand
  <2>7. QED
    BY <1>1, <2>1, <2>3, <2>6 DEF PoolInv, PoolTypes
<1>5. ASSUME NEW r \in Requests, ParseDone(r) \/ RequestDone(r) \/ NoCollection(r) PROVE PoolInv'
  <2>1. free' = free /\ heap' = heap
    BY <1>5 DEF ParseDone, RequestDone, NoCollection
  <2>2. PICK c \in Pcs : request' = [request EXCEPT ![r].pc = c]
    BY <1>3, <1>5 DEF ParseDone, RequestDone, NoCollection
  <2>3. QED
    BY <1>1, <1>2, <2>1, <2>2, PcIs
<1>6. ASSUME NEW r \in Requests, NEW t \in Types, AllocMisses(r, t) PROVE PoolInv'
  <2>1. /\ free' = free /\ heap' = heap
        /\ request' = [request EXCEPT ![r].pc = "allocate", ![r].want = t]
    BY <1>6 DEF AllocMisses
  <2>2. QED
    BY <1>1, <1>2, <1>3, <2>1, KeepIs
<1>7. ASSUME \/ mempool_manager_destroy \/ UNCHANGED poolVars
             \/ \E r \in Requests : AllocFaults(r)
      PROVE  PoolInv'
  <2>1. free' = free /\ heap' = heap /\ request' = request
    BY <1>7 DEF mempool_manager_destroy, AllocFaults, poolVars
  <2>2. HeldBy' = HeldBy /\ request' \in [Requests -> Request]
    BY <1>1, <2>1 DEF HeldBy, PoolTypes
  <2>3. QED
    BY <1>2, <2>1, <2>2
<1>8. QED
  BY <1>4, <1>5, <1>6, <1>7, AllocHitStep, AllocNewStep, AllocFailsStep, FreeBlockStep,
     ClearBlockStep, GcStep
  DEF PoolNext

\* What requests hold, what is listed and the heap, as the pool's own
\* definitions name them
LEMMA Places == PoolInv => BlocksInOnePlace
<1> SUFFICES ASSUME PoolInv PROVE BlocksInOnePlace
  OBVIOUS
<1>1. OnePlace(HeldBy, free, heap)
  BY DEF PoolInv
<1>2. \A r \in Requests : HeldBy[r] = request[r].held
  BY DEF HeldBy
<1>3. \A r, q \in Requests : \A i \in DOMAIN request[r].held, j \in DOMAIN request[q].held :
        request[r].held[i] = request[q].held[j] /\ request[r].held[i] # Null => r = q /\ i = j
  BY <1>1, <1>2 DEF OnePlace
<1>4. \A x \in Held : x # Null /\ InHand(HeldBy, x)
  <2>1. ASSUME NEW x \in Held PROVE x # Null /\ InHand(HeldBy, x)
    <3>1. x # Null /\ \E r \in Requests : x \in {request[r].held[i] : i \in DOMAIN request[r].held}
      BY DEF Held
    <3>2. PICK r \in Requests : \E i \in DOMAIN request[r].held : x = request[r].held[i]
      BY <3>1
    <3>3. QED
      BY <1>2, <3>1, <3>2 DEF InHand
  <2>2. QED
    BY <2>1
<1>5. \A p, t \in Types : Listed(p, t) \cap (Held \cup heap) = {}
  BY <1>1, <1>4 DEF OnePlace, Listed
<1>6. Held \cap heap = {}
  BY <1>1, <1>4 DEF OnePlace, InHand
<1>7. \A p, q, t, u \in Types : \A i \in DOMAIN free[p][t], j \in DOMAIN free[q][u] :
        free[p][t][i] = free[q][u][j] => p = q /\ t = u /\ i = j
  BY <1>1 DEF OnePlace
<1>8. QED
  BY <1>3, <1>5, <1>6, <1>7 DEF BlocksInOnePlace

-----------------------------------------------------------------------------
\* Every value of the pool's variables keeps its type and every block its one
\* place, whatever requests do between the two locked parts of
\* mempool_alloc_asm (asm_mempool.c:215-289), when they free (:301-333) and
\* when the first pool is collected (:345-398)
THEOREM PoolInvariance == PoolSpec => []PoolInv
<1>1. PoolInit => PoolInv
  BY Initially
<1>2. PoolInv /\ [PoolNext]_poolVars => PoolInv'
  BY Inductive
<1>3. QED
  BY <1>1, <1>2, PTL DEF PoolSpec

\* No block is given to two requests, listed twice, listed while a request
\* holds it, or given back to the C library while a list or a request has it:
\* the invariant of mempool_alloc_asm, mempool_free_asm and mempool_gc, for any
\* number of requests although a block changes its pool
THEOREM OnePlaceForEveryBlock == PoolSpec => []BlocksInOnePlace
<1>1. PoolInv => BlocksInOnePlace
  BY Places
<1>2. QED
  BY <1>1, PoolInvariance, PTL

-----------------------------------------------------------------------------
(***************************************************************************)
(* What the pools count                                                    *)
(***************************************************************************)

HandSet(H) == {b \in Blocks : InHand(H, b)}
SizeIn(Z, b) == IF b \in Z THEN 0 ELSE BlockSize(b)
SizesIn(Z) == [b \in Blocks |-> SizeIn(Z, b)]
HeldSize(H, Z) == SumFunctionOnSet(SizesIn(Z), HandSet(H))

\* Up to the first wiped header of a block that is held, the counters together
\* are a whole number of times Wrap away from the size of what is held
Balanced(H, U, Z) == \E k \in Int : SumFunctionOnSet(U, Types) = HeldSize(H, Z) + Wrap * k

CountsOk(H, U, Z, B) ==
  /\ U \in [Types -> 0 .. Wrap - 1]
  /\ IsFiniteSet(HandSet(H))
  /\ HandSet(H) \cap B = {} => Balanced(H, U, Z)

\* A counter after a step, and the hands of the requests
Counted(U, p, n) == [U EXCEPT ![p] = (@ + n) % Wrap]
Gets(H, r, b) == [H EXCEPT ![r] = Append(@, b)]
Gives(H, r) == [H EXCEPT ![r] = Tail(@)]

IdleOk == \A r \in Requests : request[r].pc = "idle" => request[r].held = <<>>

\* Only the aarch64 build clears blocks
BuildOk == ~aarch64 => zeroed = {} /\ \A r \in Requests : request[r].pc # "clear"

CountInv == PoolInv /\ IdleOk /\ BuildOk /\ CountsOk(HeldBy, usage, zeroed, broken)

\* Division with remainder, and multiples
LEMMA DivMod ==
    ASSUME NEW x \in Int, NEW W \in Nat \ {0}
    PROVE  x \div W \in Int /\ x % W \in 0 .. W - 1 /\ x = (W * (x \div W)) + (x % W)
BY Z3

LEMMA Linear ==
    /\ \A a, b \in Int : a * b \in Int
    /\ \A a, b, c \in Int : a * (b + c) = a * b + a * c
    /\ \A a, b, c \in Int : a * (b - c) = a * b - a * c
    /\ \A a \in Nat \ {0} : \A b \in Int : a * b > - a /\ a * b < a => b = 0
<1>1. /\ \A a, b \in Int : a * b \in Int
      /\ \A a, b, c \in Int : a * (b + c) = a * b + a * c
      /\ \A a, b, c \in Int : a * (b - c) = a * b - a * c
  BY Z3
<1>2. ASSUME NEW a \in Nat \ {0}, NEW b \in Int, a * b > - a, a * b < a PROVE b = 0
  BY <1>2, Z3
<1>3. QED
  BY <1>1, <1>2

LEMMA Congruent ==
    ASSUME NEW x \in Int, NEW y \in Int, NEW k \in Int, NEW W \in Nat \ {0}, x = y + W * k
    PROVE  x % W = y % W
<1> DEFINE a == x \div W
           b == y \div W
           r == x % W
           s == y % W
<1>1. /\ a \in Int /\ r \in 0 .. W - 1 /\ x = (W * a) + r
      /\ b \in Int /\ s \in 0 .. W - 1 /\ y = (W * b) + s
  BY DivMod
<1> HIDE DEF a, b, r, s
<1> DEFINE m == (b + k) - a
<1>2. W * m = (W * b + W * k) - W * a
  <2>1. W \in Int /\ b + k \in Int
    BY <1>1
  <2>2. W * m = W * (b + k) - W * a
    BY <1>1, <2>1, Linear
  <2>3. W * (b + k) = W * b + W * k
    BY <1>1, <2>1, Linear
  <2>4. QED
    BY <2>2, <2>3
<1>3. W * a \in Int /\ W * b \in Int /\ W * k \in Int /\ m \in Int /\ W * m \in Int
  <2>1. W \in Int /\ m \in Int
    BY <1>1
  <2>2. QED
    BY <1>1, <2>1, Linear
<1>4. r - s = W * m
  BY <1>1, <1>2, <1>3
<1> HIDE DEF m
<1>5. W * m > - W /\ W * m < W
  BY <1>1, <1>3, <1>4
<1>6. m = 0
  BY <1>3, <1>5, Linear
<1>7. W * 0 = 0
  OBVIOUS
<1>8. QED
  BY <1>1, <1>4, <1>6, <1>7 DEF r, s

\* One counter changes by n, modulo Wrap, and so does the size of what is held.
LEMMA CountsMove ==
    ASSUME NEW U \in [Types -> 0 .. Wrap - 1], NEW p \in Types, NEW n \in Int,
           NEW U2 \in [Types -> 0 .. Wrap - 1],
           U2[p] = (U[p] + n) % Wrap, \A t \in Types \ {p} : U2[t] = U[t],
           NEW x \in Int, NEW k \in Int, SumFunctionOnSet(U, Types) = x + Wrap * k
    PROVE  \E l \in Int : SumFunctionOnSet(U2, Types) = (x + n) + Wrap * l
<1>1. Wrap \in Nat \ {0} /\ Wrap \in Int
  BY MempoolAssumption
<1>2. U[p] \in Nat /\ U[p] \in Int
  BY <1>1
<1>3. PICK q \in Int : U[p] + n = (Wrap * q) + U2[p]
  <2>1. U[p] + n \in Int
    BY <1>2
  <2>2. U[p] + n = (Wrap * ((U[p] + n) \div Wrap)) + ((U[p] + n) % Wrap)
        /\ (U[p] + n) \div Wrap \in Int
    BY <1>1, <2>1, DivMod
  <2>3. QED
    BY <2>2
<1>4. \A t \in Types : U[t] \in Nat /\ U2[t] \in Nat
  BY <1>1
<1>5. SumFunctionOnSet(U2, Types) + U[p] = SumFunctionOnSet(U, Types) + U2[p]
      /\ SumFunctionOnSet(U, Types) \in Nat /\ SumFunctionOnSet(U2, Types) \in Nat
  <2>1. IsFiniteSet(Types)
    BY MempoolAssumption
  <2>2. QED
    BY <1>4, <2>1, SumChange
<1>6. Wrap * (k - q) = Wrap * k - Wrap * q /\ Wrap * k \in Int /\ Wrap * q \in Int /\ k - q \in Int
  BY <1>1, <1>3, Linear
<1>7. U2[p] \in Nat
  BY <1>4
<1>8. SumFunctionOnSet(U2, Types) = (x + n) + Wrap * (k - q)
  BY <1>2, <1>3, <1>5, <1>6, <1>7
<1>9. QED
  BY <1>6, <1>8

\* A block more in a hand, and one less
LEMMA HandGets ==
    ASSUME NEW H \in Hands, NEW r \in Requests, NEW b \in Blocks \cup {Null},
           NEW J, J = Gets(H, r, b)
    PROVE  HandSet(J) = HandSet(H) \cup ({b} \ {Null})
<1>1. H[r] \in Seq(Blocks \cup {Null})
  BY DEF Hands
<1>2. /\ \A i \in DOMAIN Append(H[r], b) : \/ i \in DOMAIN H[r] /\ Append(H[r], b)[i] = H[r][i]
                                           \/ i = Len(H[r]) + 1 /\ Append(H[r], b)[i] = b
      /\ \A i \in DOMAIN H[r] : i \in DOMAIN Append(H[r], b) /\ Append(H[r], b)[i] = H[r][i]
      /\ \E i \in DOMAIN Append(H[r], b) : Append(H[r], b)[i] = b
  <2>1. DOMAIN Append(H[r], b) = 1 .. Len(H[r]) + 1 /\ DOMAIN H[r] = 1 .. Len(H[r])
        /\ Len(H[r]) \in Nat /\ Append(H[r], b)[Len(H[r]) + 1] = b
    BY <1>1
  <2>2. \A i \in DOMAIN H[r] : Append(H[r], b)[i] = H[r][i]
    BY <1>1
  <2>3. QED
    BY <2>1, <2>2
<1>3. J[r] = Append(H[r], b) /\ \A q \in Requests : q # r => J[q] = H[q]
  BY DEF Hands, Gets
<1>4. \A c \in Blocks : c # Null
  BY BlockTyped
<1>5. ASSUME NEW c \in Blocks PROVE InHand(J, c) <=> InHand(H, c) \/ c = b
  <2>1. ASSUME InHand(J, c) PROVE InHand(H, c) \/ c = b
    <3>1. PICK q \in Requests : \E i \in DOMAIN J[q] : J[q][i] = c
      BY <2>1 DEF InHand
    <3>2. PICK i \in DOMAIN J[q] : J[q][i] = c
      BY <3>1
    <3>3. CASE q = r
      BY <1>2, <1>3, <3>2, <3>3 DEF InHand
    <3>4. CASE q # r
      BY <1>3, <3>2, <3>4 DEF InHand
    <3>5. QED
      BY <3>3, <3>4
  <2>2. ASSUME InHand(H, c) PROVE InHand(J, c)
    <3>1. PICK q \in Requests : \E i \in DOMAIN H[q] : H[q][i] = c
      BY <2>2 DEF InHand
    <3>2. PICK i \in DOMAIN H[q] : H[q][i] = c
      BY <3>1
    <3>3. i \in DOMAIN J[q] /\ J[q][i] = c
      BY <1>2, <1>3, <3>2
    <3>4. QED
      BY <3>3 DEF InHand
  <2>3. ASSUME c = b PROVE InHand(J, c)
    BY <1>2, <1>3, <2>3 DEF InHand
  <2>4. QED
    BY <2>1, <2>2, <2>3
<1>6. QED
  BY <1>4, <1>5 DEF HandSet

LEMMA HandGives ==
    ASSUME NEW H \in Hands, NEW r \in Requests, H[r] # <<>>, NEW b, b = Head(H[r]),
           NEW J, J = Gives(H, r)
    PROVE  HandSet(J) \subseteq HandSet(H) /\ HandSet(H) \subseteq HandSet(J) \cup {b}
           /\ (b \in Blocks => b \in HandSet(H))
<1>1. H[r] \in Seq(Blocks \cup {Null})
  BY DEF Hands
<1>2. /\ 1 \in DOMAIN H[r] /\ H[r][1] = b
      /\ \A i \in DOMAIN Tail(H[r]) : i + 1 \in DOMAIN H[r] /\ Tail(H[r])[i] = H[r][i + 1]
  BY <1>1, TailIs
<1>3. \A i \in DOMAIN H[r] : i = 1 \/ (i - 1 \in DOMAIN Tail(H[r]) /\ Tail(H[r])[i - 1] = H[r][i])
  <2>1. Len(H[r]) \in Nat /\ DOMAIN H[r] = 1 .. Len(H[r]) /\ DOMAIN Tail(H[r]) = 1 .. Len(H[r]) - 1
    BY <1>1
  <2> SUFFICES ASSUME NEW i \in DOMAIN H[r], i # 1
               PROVE  i - 1 \in DOMAIN Tail(H[r]) /\ Tail(H[r])[i - 1] = H[r][i]
    OBVIOUS
  <2>2. i - 1 \in DOMAIN Tail(H[r]) /\ (i - 1) + 1 = i
    BY <2>1
  <2>3. QED
    BY <1>2, <2>2
<1>4. J[r] = Tail(H[r]) /\ \A q \in Requests : q # r => J[q] = H[q]
  BY DEF Hands, Gives
<1>5. ASSUME NEW c \in Blocks, InHand(J, c) PROVE InHand(H, c)
  <2>1. PICK q \in Requests : \E i \in DOMAIN J[q] : J[q][i] = c
    BY <1>5 DEF InHand
  <2>2. PICK i \in DOMAIN J[q] : J[q][i] = c
    BY <2>1
  <2>3. CASE q = r
    BY <1>2, <1>4, <2>2, <2>3 DEF InHand
  <2>4. CASE q # r
    BY <1>4, <2>2, <2>4 DEF InHand
  <2>5. QED
    BY <2>3, <2>4
<1>6. ASSUME NEW c \in Blocks, InHand(H, c), c # b PROVE InHand(J, c)
  <2>1. PICK q \in Requests : \E i \in DOMAIN H[q] : H[q][i] = c
    BY <1>6 DEF InHand
  <2>2. PICK i \in DOMAIN H[q] : H[q][i] = c
    BY <2>1
  <2>3. CASE q = r
    <3>1. i # 1
      BY <1>2, <1>6, <2>2, <2>3
    <3>2. i - 1 \in DOMAIN J[r] /\ J[r][i - 1] = c
      BY <1>3, <1>4, <2>2, <2>3, <3>1
    <3>3. QED
      BY <3>2 DEF InHand
  <2>4. CASE q # r
    BY <1>4, <2>2, <2>4 DEF InHand
  <2>5. QED
    BY <2>3, <2>4
<1>7. b \in Blocks => InHand(H, b)
  BY <1>2 DEF InHand
<1>8. QED
  BY <1>5, <1>6, <1>7 DEF HandSet

\* The counter of a pool changes by as much as the size of what is held.
LEMMA CountsFollow ==
    ASSUME NEW U \in [Types -> 0 .. Wrap - 1], NEW p \in Types, NEW n \in Int,
           NEW U2, U2 = Counted(U, p, n)
    PROVE  /\ U2 \in [Types -> 0 .. Wrap - 1]
           /\ \A H, J, Z : Balanced(H, U, Z) /\ HeldSize(H, Z) \in Int
                             /\ HeldSize(J, Z) = HeldSize(H, Z) + n
                            => Balanced(J, U2, Z)
<1>1. Wrap \in Nat \ {0}
  BY MempoolAssumption
<1>2. U[p] \in Int /\ (U[p] + n) % Wrap \in 0 .. Wrap - 1
  <2>1. U[p] \in Int /\ U[p] + n \in Int
    BY <1>1
  <2>2. QED
    BY <1>1, <2>1, DivMod
<1>3. /\ U2 \in [Types -> 0 .. Wrap - 1]
      /\ U2[p] = (U[p] + n) % Wrap /\ \A t \in Types \ {p} : U2[t] = U[t]
  BY <1>1, <1>2 DEF Counted
<1>4. ASSUME NEW H, NEW J, NEW Z, Balanced(H, U, Z), HeldSize(H, Z) \in Int,
             HeldSize(J, Z) = HeldSize(H, Z) + n
      PROVE  Balanced(J, U2, Z)
  <2>1. PICK k \in Int : SumFunctionOnSet(U, Types) = HeldSize(H, Z) + Wrap * k
    BY <1>4 DEF Balanced
  <2>2. PICK x \in Int : x = HeldSize(H, Z)
    BY <1>4
  <2>3. SumFunctionOnSet(U, Types) = x + Wrap * k
    BY <2>1, <2>2
  <2>4. U2[p] = (U[p] + n) % Wrap /\ \A t \in Types \ {p} : U2[t] = U[t]
    BY <1>3
  <2>5. U2 \in [Types -> 0 .. Wrap - 1]
    BY <1>3
  <2>6. \E l \in Int : SumFunctionOnSet(U2, Types) = (x + n) + Wrap * l
    BY <2>3, <2>4, <2>5, CountsMove
  <2>7. QED
    BY <1>4, <2>2, <2>6 DEF Balanced
<1>5. QED
  BY <1>3, <1>4

LEMMA SizeTyped ==
    ASSUME NEW b \in Blocks
    PROVE  b[2] \in Types /\ b[2] \in Nat /\ 0 \in Nat /\ b # Null
           /\ \A Z : SizeIn(Z, b) \in Nat /\ - SizeIn(Z, b) \in Int /\ SizeIn(Z, b) \in Int
<1>1. b # Null
  BY BlockTyped
<1>2. b[2] \in Types
  BY DEF Blocks
<1>3. \A t \in Types : t \in Nat
  BY MempoolAssumption
<1>4. \A Z : SizeIn(Z, b) \in Nat
  BY <1>2, <1>3 DEF SizeIn, BlockSize
<1>5. \A n \in Nat : - n \in Int /\ n \in Int
  OBVIOUS
<1>6. QED
  BY <1>1, <1>2, <1>3, <1>4, <1>5

\* The size of what is held, with a block more and with one less
LEMMA SizeIs ==
    ASSUME NEW H, IsFiniteSet(HandSet(H)), NEW Z
    PROVE  HeldSize(H, Z) \in Int /\ \A b \in HandSet(H) : SizesIn(Z)[b] \in Nat
<1>1. \A b \in HandSet(H) : SizesIn(Z)[b] \in Nat
  BY SizeTyped DEF HandSet, SizesIn
<1>2. HeldSize(H, Z) \in Nat
  BY <1>1, SumNat DEF HeldSize
<1>3. QED
  BY <1>1, <1>2

LEMMA SizeGrows ==
    ASSUME NEW H, IsFiniteSet(HandSet(H)), NEW b \in Blocks, b \notin HandSet(H),
           NEW J, HandSet(J) = HandSet(H) \cup {b}, NEW Z
    PROVE  /\ IsFiniteSet(HandSet(J)) /\ HeldSize(H, Z) \in Int
           /\ HeldSize(J, Z) = HeldSize(H, Z) + SizeIn(Z, b)
<1>1. IsFiniteSet(HandSet(J))
  BY FS_AddElement
<1>2. HeldSize(H, Z) \in Int /\ \A c \in HandSet(J) : SizesIn(Z)[c] \in Nat
  BY <1>1, SizeIs
<1>3. SizesIn(Z)[b] = SizeIn(Z, b) /\ SizeIn(Z, b) \in Nat
  BY SizeTyped DEF SizesIn
<1>4. SumFunctionOnSet(SizesIn(Z), HandSet(H) \cup {b})
        = SizesIn(Z)[b] + SumFunctionOnSet(SizesIn(Z), HandSet(H))
  <2>1. \A y \in HandSet(H) \cup {b} : SizesIn(Z)[y] \in Nat
    BY <1>2
  <2>2. QED
    BY <2>1, SumAdd
<1>5. QED
  BY <1>1, <1>2, <1>3, <1>4 DEF HeldSize

LEMMA SizeShrinks ==
    ASSUME NEW H, IsFiniteSet(HandSet(H)), NEW b \in Blocks, b \in HandSet(H),
           NEW J, HandSet(J) = HandSet(H) \ {b}, NEW Z
    PROVE  /\ IsFiniteSet(HandSet(J)) /\ HeldSize(H, Z) \in Int
           /\ HeldSize(J, Z) = HeldSize(H, Z) + (- SizeIn(Z, b))
<1>1. IsFiniteSet(HandSet(J))
  BY FS_Subset
<1>2. b \notin HandSet(J) /\ HandSet(H) = HandSet(J) \cup {b}
  OBVIOUS
<1>3. HeldSize(J, Z) \in Int /\ HeldSize(H, Z) = HeldSize(J, Z) + SizeIn(Z, b)
  BY <1>1, <1>2, SizeGrows
<1>4. SizeIn(Z, b) \in Int
  BY SizeTyped
<1>5. QED
  BY <1>1, <1>3, <1>4

\* Taking a block, from a list or from the heap; its magic number is written
LEMMA CountsTake ==
    ASSUME NEW H \in Hands, NEW U, NEW Z, NEW B, CountsOk(H, U, Z, B), NEW r \in Requests,
           NEW b \in Blocks, ~InHand(H, b), NEW p \in Types,
           NEW J, J = Gets(H, r, b), NEW U2, U2 = Counted(U, p, SizeIn(Z, b))
    PROVE  CountsOk(J, U2, Z, B \ {b})
<1>1. HandSet(J) = HandSet(H) \cup ({b} \ {Null})
  <2>1. b \in Blocks \cup {Null}
    OBVIOUS
  <2>2. QED
    BY <2>1, HandGets
<1>2. b # Null /\ b \notin HandSet(H) /\ SizeIn(Z, b) \in Int
  BY SizeTyped DEF HandSet
<1>3. HandSet(J) = HandSet(H) \cup {b} /\ IsFiniteSet(HandSet(H)) /\ U \in [Types -> 0 .. Wrap - 1]
  BY <1>1, <1>2 DEF CountsOk
<1>4. /\ IsFiniteSet(HandSet(J)) /\ HeldSize(H, Z) \in Int
      /\ HeldSize(J, Z) = HeldSize(H, Z) + SizeIn(Z, b)
  BY <1>2, <1>3, SizeGrows
<1>5. U2 \in [Types -> 0 .. Wrap - 1] /\ (Balanced(H, U, Z) => Balanced(J, U2, Z))
  BY <1>2, <1>3, <1>4, CountsFollow
<1>6. HandSet(J) \cap (B \ {b}) = {} => HandSet(H) \cap B = {}
  BY <1>2, <1>3
<1>7. QED
  BY <1>4, <1>5, <1>6 DEF CountsOk

\* Nothing that is counted changes.
LEMMA CountsStay ==
    ASSUME NEW H, NEW U, NEW Z, NEW B, CountsOk(H, U, Z, B), NEW J, HandSet(J) = HandSet(H)
    PROVE  CountsOk(J, U, Z, B)
BY DEF CountsOk, Balanced, HeldSize

\* A header is wiped: of a block that is held, or of one that is not counted
LEMMA CountsWipe ==
    ASSUME NEW H, NEW U, NEW Z, NEW B, CountsOk(H, U, Z, B), NEW x
    PROVE  CountsOk(H, U, Z \cup {x}, B \cup {x})
<1>1. ASSUME x \notin HandSet(H) PROVE HeldSize(H, Z \cup {x}) = HeldSize(H, Z)
  <2>1. \A b \in HandSet(H) : SizesIn(Z \cup {x})[b] = SizesIn(Z)[b]
    BY <1>1 DEF SizesIn, SizeIn, HandSet
  <2>2. IsFiniteSet(HandSet(H))
    BY DEF CountsOk
  <2>3. QED
    BY <2>1, <2>2, SumSame DEF HeldSize
<1>2. QED
  BY <1>1 DEF CountsOk, Balanced

-----------------------------------------------------------------------------
LEMMA IdleSteps ==
    ASSUME CountInv, [PoolNext]_poolVars, PoolInv'
    PROVE  IdleOk'
<1>1. request \in [Requests -> Request] /\ IdleOk
  BY DEF CountInv, PoolInv, PoolTypes
<1>2. ASSUME NEW r \in Requests, NEW R, request' = [request EXCEPT ![r] = R],
             R.pc = "idle" => R.held = <<>>
      PROVE  IdleOk'
  BY <1>1, <1>2 DEF IdleOk
<1>3. ASSUME NEW r \in Requests, ParseBegins(r) PROVE IdleOk'
  BY <1>2, <1>3 DEF ParseBegins
<1>4. ASSUME NEW r \in Requests, NEW R, request' = [request EXCEPT ![r] = R], R.pc # "idle"
      PROVE  IdleOk'
  BY <1>2, <1>4
<1>5. ASSUME NEW r \in Requests, ParseDone(r) \/ NoCollection(r) PROVE IdleOk'
  <2>1. PICK c \in {"cleanup"} : request' = [request EXCEPT ![r].pc = c]
    BY <1>5 DEF ParseDone, NoCollection
  <2>2. [request[r] EXCEPT !.pc = c].pc # "idle"
    BY <1>1, <2>1 DEF Request
  <2>3. QED
    BY <1>4, <2>1, <2>2
<1>6. ASSUME NEW r \in Requests, RequestDone(r) PROVE IdleOk'
  <2>1. request' = [request EXCEPT ![r].pc = "idle"] /\ request[r].held = <<>>
    BY <1>6 DEF RequestDone
  <2>2. [request[r] EXCEPT !.pc = "idle"].held = <<>>
    BY <1>1, <2>1 DEF Request
  <2>3. QED
    BY <1>2, <2>1, <2>2
<1>7. ASSUME NEW r \in Requests, NEW b, NEW c, c # "idle", Take(r, b, c) PROVE IdleOk'
  <2> DEFINE R == [request[r] EXCEPT !.held = Append(@, b), !.pc = c]
  <2>1. request' = [request EXCEPT ![r] = R]
    BY <1>7 DEF Take
  <2>2. R.pc # "idle"
    BY <1>1, <1>7 DEF Request
  <2> HIDE DEF R
  <2>3. QED
    BY <1>4, <2>1, <2>2
<1>8. ASSUME NEW r \in Requests, NEW t \in Types, AllocMisses(r, t) PROVE IdleOk'
  <2> DEFINE R == [request[r] EXCEPT !.pc = "allocate", !.want = t]
  <2>1. request' = [request EXCEPT ![r] = R]
    BY <1>8 DEF AllocMisses
  <2>2. R.pc = "allocate"
    BY <1>1 DEF Request
  <2> HIDE DEF R
  <2>3. QED
    BY <1>4, <2>1, <2>2
<1>9. ASSUME NEW r \in Requests, FreeBlock(r) PROVE IdleOk'
  <2>1. request[r].pc = "cleanup"
    BY <1>9 DEF FreeBlock
  <2>2. \/ request' = [request EXCEPT ![r].held = Tail(@)]
        \/ request' = [request EXCEPT ![r].held = Tail(@), ![r].pc = "freed"]
        \/ request' = request
    BY <1>9 DEF FreeBlock
  <2>3. /\ [request[r] EXCEPT !.held = Tail(@)].pc # "idle"
        /\ [request[r] EXCEPT !.held = Tail(@), !.pc = "freed"].pc # "idle"
    BY <1>1, <2>1 DEF Request
  <2>4. CASE request' = [request EXCEPT ![r].held = Tail(@)]
    BY <1>4, <2>3, <2>4
  <2>5. CASE request' = [request EXCEPT ![r].held = Tail(@), ![r].pc = "freed"]
    BY <1>4, <2>3, <2>5
  <2>6. CASE request' = request
    BY <1>1, <2>6 DEF IdleOk
  <2>7. QED
    BY <2>2, <2>4, <2>5, <2>6
<1>10. ASSUME NEW r \in Requests, mempool_gc(r) PROVE IdleOk'
  <2>1. request' = request \/ request' = [request EXCEPT ![r].pc = "cleanup"]
    BY <1>10 DEF mempool_gc
  <2>2. [request[r] EXCEPT !.pc = "cleanup"].pc # "idle"
    BY <1>1 DEF Request
  <2>3. CASE request' = request
    BY <1>1, <2>3 DEF IdleOk
  <2>4. CASE request' = [request EXCEPT ![r].pc = "cleanup"]
    BY <1>4, <2>2, <2>4
  <2>5. QED
    BY <2>1, <2>3, <2>4
<1>11. ASSUME \/ mempool_manager_destroy \/ UNCHANGED poolVars
              \/ \E r \in Requests : AllocFaults(r)
       PROVE  IdleOk'
  BY <1>1, <1>11 DEF mempool_manager_destroy, AllocFaults, poolVars, IdleOk
<1>12. ASSUME NEW r \in Requests, AllocNew(r) \/ AllocFails(r) PROVE IdleOk'
  <2>1. \E b : Take(r, b, "parse")
    BY <1>12 DEF AllocNew, AllocFails
  <2>2. QED
    BY <1>7, <2>1
<1>13. ASSUME NEW r \in Requests, NEW t \in Types, AllocHit(r, t) PROVE IdleOk'
  <2>1. \E b : \E c \in {"clear", "parse"} : Take(r, b, c)
    BY <1>13 DEF AllocHit
  <2>2. QED
    BY <1>7, <2>1
<1>14. ASSUME NEW r \in Requests, ClearBlock(r) PROVE IdleOk'
  <2>1. PICK c \in {"parse"} : request' = [request EXCEPT ![r].pc = c]
    BY <1>14 DEF ClearBlock
  <2>2. [request[r] EXCEPT !.pc = c].pc # "idle"
    BY <1>1, <2>1 DEF Request
  <2>3. QED
    BY <1>4, <2>1, <2>2
<1>15. QED
  BY <1>3, <1>5, <1>6, <1>8, <1>9, <1>10, <1>11, <1>12, <1>13, <1>14 DEF PoolNext

\* Without the clearing of blocks no header is wiped
LEMMA BuildSteps ==
    ASSUME CountInv, [PoolNext]_poolVars
    PROVE  BuildOk'
<1>1. request \in [Requests -> Request] /\ BuildOk
  BY DEF CountInv, PoolInv, PoolTypes
<1>2. aarch64' = aarch64
  BY DEF PoolNext, poolVars, headers, ParseBegins, ParseDone, RequestDone, ClearBlock, AllocNew,
         AllocFails, AllocFaults, FreeBlock, NoCollection, mempool_gc, AllocHit, AllocMisses,
         mempool_manager_destroy
<1> SUFFICES ASSUME ~aarch64 PROVE zeroed' = {} /\ \A q \in Requests : request'[q].pc # "clear"
  BY <1>2 DEF BuildOk
<1>3. zeroed = {} /\ \A q \in Requests : request[q].pc # "clear"
  BY <1>1 DEF BuildOk
<1>4. zeroed' = zeroed
  BY <1>3 DEF PoolNext, poolVars, headers, ParseBegins, ParseDone, RequestDone, ClearBlock, AllocNew,
         AllocFails, AllocFaults, FreeBlock, NoCollection, mempool_gc, AllocHit, AllocMisses,
         mempool_manager_destroy
<1>5. ASSUME NEW q \in Requests PROVE request'[q].pc # "clear"
  <2>1. ASSUME NEW r \in Requests, NEW R, request' = [request EXCEPT ![r] = R], R.pc # "clear"
        PROVE  request'[q].pc # "clear"
    BY <1>1, <1>3, <2>1
  <2>2. ASSUME NEW r \in Requests, NEW c \in {"idle", "parse", "cleanup"},
               request' = [request EXCEPT ![r].pc = c]
        PROVE  request'[q].pc # "clear"
    <3>1. [request[r] EXCEPT !.pc = c].pc # "clear"
      BY <1>1 DEF Request
    <3>2. QED
      BY <2>1, <2>2, <3>1
  <2>3. ASSUME NEW r \in Requests, NEW b, Take(r, b, "parse") PROVE request'[q].pc # "clear"
    <3> DEFINE R == [request[r] EXCEPT !.held = Append(@, b), !.pc = "parse"]
    <3>1. request' = [request EXCEPT ![r] = R]
      BY <2>3 DEF Take
    <3>2. R.pc # "clear"
      BY <1>1 DEF Request
    <3> HIDE DEF R
    <3>3. QED
      BY <2>1, <3>1, <3>2
  <2>4. request' = request => request'[q].pc # "clear"
    BY <1>3
  <2>5. ASSUME NEW r \in Requests, ParseBegins(r) PROVE request'[q].pc # "clear"
    <3>1. PICK R : R = [pc |-> "parse", held |-> <<>>, want |-> 1]
      OBVIOUS
    <3>2. request' = [request EXCEPT ![r] = R] /\ R.pc # "clear"
      BY <2>5, <3>1 DEF ParseBegins
    <3>3. QED
      BY <2>1, <3>2
  <2>6. ASSUME NEW r \in Requests,
               ParseDone(r) \/ RequestDone(r) \/ NoCollection(r) \/ ClearBlock(r) \/ mempool_gc(r)
        PROVE  request'[q].pc # "clear"
    BY <2>2, <2>4, <2>6 DEF ParseDone, RequestDone, NoCollection, ClearBlock, mempool_gc
  <2>7. ASSUME NEW r \in Requests,
               AllocNew(r) \/ AllocFails(r) \/ \E t \in Types : AllocHit(r, t)
        PROVE  request'[q].pc # "clear"
    <3>1. \E b : Take(r, b, "parse")
      BY <2>7 DEF AllocNew, AllocFails, AllocHit
    <3>2. QED
      BY <2>3, <3>1
  <2>8. ASSUME NEW r \in Requests, NEW t \in Types, AllocMisses(r, t) PROVE request'[q].pc # "clear"
    <3> DEFINE R == [request[r] EXCEPT !.pc = "allocate", !.want = t]
    <3>1. request' = [request EXCEPT ![r] = R]
      BY <2>8 DEF AllocMisses
    <3>2. R.pc # "clear"
      BY <1>1 DEF Request
    <3> HIDE DEF R
    <3>3. QED
      BY <2>1, <3>1, <3>2
  <2>9. ASSUME NEW r \in Requests, FreeBlock(r) PROVE request'[q].pc # "clear"
    <3> DEFINE R == [request[r] EXCEPT !.held = Tail(@)]
               Q == [request[r] EXCEPT !.held = Tail(@), !.pc = "freed"]
    <3>1. \/ request' = [request EXCEPT ![r] = R] \/ request' = [request EXCEPT ![r] = Q]
          \/ request' = request
      BY <2>9 DEF FreeBlock
    <3>2. R.pc # "clear" /\ Q.pc # "clear"
      BY <1>1, <1>3 DEF Request
    <3> HIDE DEF R, Q
    <3>3. QED
      BY <2>1, <2>4, <3>1, <3>2
  <2>10. (\E r \in Requests : AllocFaults(r)) \/ mempool_manager_destroy \/ UNCHANGED poolVars
           => request' = request
    BY DEF AllocFaults, mempool_manager_destroy, poolVars
  <2>11. QED
    BY <2>4, <2>5, <2>6, <2>7, <2>8, <2>9, <2>10 DEF PoolNext
<1>6. QED
  BY <1>3, <1>4, <1>5

-----------------------------------------------------------------------------
\* What the pools count after each step
CountsNext == CountsOk(HeldBy, usage, zeroed, broken)'

LEMMA CountHit ==
    ASSUME CountInv, NEW r \in Requests, NEW t \in Types, AllocHit(r, t)
    PROVE  CountsNext
<1> DEFINE b == Head(free[t][t])
<1>1. /\ free \in Lists /\ HeldBy \in Hands /\ OnePlace(HeldBy, free, heap) /\ PoolTypes
      /\ CountsOk(HeldBy, usage, zeroed, broken)
  BY HeldTyped DEF CountInv, PoolInv, PoolTypes
<1>2. /\ free[t][t] # <<>> /\ free' = [free EXCEPT ![t][t] = Tail(@)]
      /\ usage' = Counted(usage, t, SizeIn(zeroed, b))
      /\ zeroed' = zeroed /\ broken' = broken \ {b}
  BY DEF AllocHit, Add, Counted, Size, SizeIn
<1>3. Nowhere(HeldBy, free', heap, b) /\ b \in Blocks
  BY <1>1, <1>2, FromList
<1>4. HeldBy' = Gets(HeldBy, r, b)
  <2>1. PICK c \in {"clear", "parse"} : Take(r, b, c)
    BY DEF AllocHit
  <2>2. c \in Pcs
    BY <2>1 DEF Pcs
  <2> HIDE DEF b
  <2>3. QED
    BY <1>1, <1>3, <2>1, <2>2, TakeIs DEF Gets
<1> HIDE DEF b
<1>5. ~InHand(HeldBy, b)
  BY <1>3 DEF Nowhere
<1>6. PICK J, U2 : J = HeldBy' /\ U2 = usage'
  OBVIOUS
<1>7. CountsOk(J, U2, zeroed, broken \ {b})
  BY <1>1, <1>2, <1>3, <1>4, <1>5, <1>6, CountsTake
<1>8. QED
  BY <1>2, <1>6, <1>7 DEF CountsNext

LEMMA CountNew ==
    ASSUME CountInv, NEW r \in Requests, AllocNew(r)
    PROVE  CountsNext
<1>1. /\ free \in Lists /\ HeldBy \in Hands /\ OnePlace(HeldBy, free, heap) /\ PoolTypes
      /\ heap \in SUBSET Blocks /\ CountsOk(HeldBy, usage, zeroed, broken)
  BY HeldTyped DEF CountInv, PoolInv, PoolTypes
<1>2. PICK b \in heap : Take(r, b, "parse") /\ b[2] = request[r].want
  BY DEF AllocNew
<1>3. zeroed = {} /\ zeroed' = zeroed /\ broken' = broken
  BY DEF AllocNew, CountInv, BuildOk, headers
<1>4. usage' = Counted(usage, b[2], SizeIn(zeroed, b))
  BY <1>2, <1>3 DEF AllocNew, Add, Counted, SizeIn, BlockSize
<1>5. Nowhere(HeldBy, free, heap \ {b}, b) /\ b \in Blocks
  BY <1>1, FromHeap
<1>6. HeldBy' = Gets(HeldBy, r, b)
  BY <1>1, <1>2, <1>5, TakeIs DEF Gets, Pcs
<1>7. ~InHand(HeldBy, b) /\ b[2] \in Types
  BY <1>5, SizeTyped DEF Nowhere
<1>8. PICK J, U2 : J = HeldBy' /\ U2 = usage'
  OBVIOUS
<1>9. CountsOk(J, U2, zeroed, broken \ {b})
  BY <1>1, <1>4, <1>5, <1>6, <1>7, <1>8, CountsTake
<1>10. HandSet(J) \cap broken = {} => HandSet(J) \cap (broken \ {b}) = {}
  OBVIOUS
<1>11. CountsOk(J, U2, zeroed, broken)
  BY <1>9, <1>10 DEF CountsOk
<1>12. QED
  BY <1>3, <1>8, <1>11 DEF CountsNext

LEMMA CountFails ==
    ASSUME CountInv, NEW r \in Requests, AllocFails(r)
    PROVE  CountsNext
<1>1. HeldBy \in Hands /\ PoolTypes /\ CountsOk(HeldBy, usage, zeroed, broken)
  BY HeldTyped DEF CountInv, PoolInv
<1>2. Take(r, Null, "parse") /\ UNCHANGED <<usage, zeroed, broken>>
  BY DEF AllocFails, headers
<1>3. HeldBy' = Gets(HeldBy, r, Null)
  BY <1>1, <1>2, TakeIs DEF Gets, Pcs
<1>4. HandSet(HeldBy') = HandSet(HeldBy)
  <2>1. HandSet(HeldBy') = HandSet(HeldBy) \cup ({Null} \ {Null})
    BY <1>1, <1>3, HandGets
  <2>2. QED
    BY <2>1
<1>5. QED
  BY <1>1, <1>2, <1>4, CountsStay DEF CountsNext

\* The block goes to the first pool, whichever pool counted it.
LEMMA CountFree ==
    ASSUME CountInv, NEW r \in Requests, FreeBlock(r)
    PROVE  CountsNext
<1> DEFINE b == Head(request[r].held)
           J == Gives(HeldBy, r)
<1>1. /\ free \in Lists /\ HeldBy \in Hands /\ OnePlace(HeldBy, free, heap) /\ PoolTypes
      /\ CountsOk(HeldBy, usage, zeroed, broken)
  BY HeldTyped DEF CountInv, PoolInv, PoolTypes
<1>2. HeldBy[r] = request[r].held /\ HeldBy[r] # <<>> /\ b = Head(HeldBy[r])
  BY DEF HeldBy, FreeBlock
<1>3. /\ b \in Blocks \cup {Null}
      /\ b # Null => ~InHand(J, b)
  BY <1>1, <1>2, FromHand DEF Nowhere, Gives
<1>4. zeroed' = zeroed /\ broken' = broken
  BY DEF FreeBlock, headers
<1>5. /\ HandSet(J) \subseteq HandSet(HeldBy) /\ HandSet(HeldBy) \subseteq HandSet(J) \cup {b}
      /\ b \in Blocks => b \in HandSet(HeldBy)
  BY <1>1, <1>2, HandGives
<1>6. CASE b = Null
  <2>1. request[r].pc = "cleanup" /\ "cleanup" \in Pcs
    BY DEF FreeBlock, Pcs
  <2>2. request' = [request EXCEPT ![r].held = Tail(@), ![r].pc = "cleanup"]
    <3>1. request' = [request EXCEPT ![r].held = Tail(@)] /\ request \in [Requests -> Request]
      BY <1>1, <1>6 DEF FreeBlock, PoolTypes
    <3>2. QED
      BY <2>1, <3>1 DEF Request
  <2>3. HeldBy' = J
    BY <1>1, <1>2, <2>1, <2>2, DropIs DEF Gives
  <2>4. HandSet(J) = HandSet(HeldBy)
    <3>1. b \notin Blocks
      BY <1>6, BlockTyped
    <3>2. QED
      BY <1>5, <3>1 DEF HandSet
  <2>5. usage' = usage
    BY <1>6 DEF FreeBlock
  <2>6. QED
    BY <1>1, <1>4, <2>3, <2>4, <2>5, CountsStay DEF CountsNext
<1>7. CASE b # Null /\ b \in broken
  <2>1. request' = request /\ usage' = usage
    BY <1>7 DEF FreeBlock
  <2>2. HeldBy' = HeldBy
    BY <2>1 DEF HeldBy
  <2>3. QED
    BY <1>1, <1>4, <2>1, <2>2 DEF CountsNext
<1>8. CASE b # Null /\ b \notin broken
  <2>1. "freed" \in Pcs /\ request' = [request EXCEPT ![r].held = Tail(@), ![r].pc = "freed"]
    BY <1>8 DEF FreeBlock, Pcs
  <2>2. HeldBy' = J
    BY <1>1, <1>2, <2>1, DropIs DEF Gives
  <2>3. usage' = Counted(usage, First, - SizeIn(zeroed, b))
    BY <1>8 DEF FreeBlock, Add, Counted, Size, SizeIn
  <2>4. b \in Blocks /\ First \in Types /\ - SizeIn(zeroed, b) \in Int
    BY <1>3, <1>8, BlockTyped, SizeTyped
  <2>5. b \notin HandSet(J) /\ b \in HandSet(HeldBy) /\ HandSet(J) = HandSet(HeldBy) \ {b}
    <3>1. b \notin HandSet(J)
      BY <1>3, <1>8 DEF HandSet
    <3>2. b \in HandSet(HeldBy)
      BY <1>5, <2>4
    <3>3. QED
      BY <1>5, <3>1, <3>2
  <2> HIDE DEF b, J
  <2>6. IsFiniteSet(HandSet(HeldBy)) /\ usage \in [Types -> 0 .. Wrap - 1]
    BY <1>1 DEF CountsOk
  <2>7. /\ IsFiniteSet(HandSet(J)) /\ HeldSize(HeldBy, zeroed) \in Int
        /\ HeldSize(J, zeroed) = HeldSize(HeldBy, zeroed) + (- SizeIn(zeroed, b))
    BY <2>4, <2>5, <2>6, SizeShrinks
  <2>8. PICK U2 : U2 = usage'
    OBVIOUS
  <2>9. /\ U2 \in [Types -> 0 .. Wrap - 1]
        /\ Balanced(HeldBy, usage, zeroed) => Balanced(J, U2, zeroed)
    BY <2>3, <2>4, <2>6, <2>7, <2>8, CountsFollow
  <2>10. HandSet(J) \cap broken = {} => HandSet(HeldBy) \cap broken = {}
    BY <1>8, <2>5
  <2>11. CountsOk(J, U2, zeroed, broken)
    BY <1>1, <2>7, <2>9, <2>10 DEF CountsOk
  <2>12. QED
    BY <1>4, <2>2, <2>8, <2>11 DEF CountsNext
<1>9. QED
  BY <1>6, <1>7, <1>8

LEMMA CountClear ==
    ASSUME CountInv, NEW r \in Requests, ClearBlock(r)
    PROVE  CountsNext
<1>1. PoolTypes /\ CountsOk(HeldBy, usage, zeroed, broken)
  BY DEF CountInv, PoolInv
<1>2. HeldBy' = HeldBy
  BY <1>1, PcIs DEF ClearBlock, Pcs
<1>3. /\ usage' = usage
      /\ \/ zeroed' = zeroed /\ broken' = broken
         \/ \E x : zeroed' = zeroed \cup {x} /\ broken' = broken \cup {x}
  BY DEF ClearBlock
<1>4. CASE zeroed' = zeroed /\ broken' = broken
  BY <1>1, <1>2, <1>3, <1>4 DEF CountsNext
<1>5. ASSUME NEW x, zeroed' = zeroed \cup {x}, broken' = broken \cup {x} PROVE CountsNext
  <2>1. CountsOk(HeldBy, usage, zeroed \cup {x}, broken \cup {x})
    BY <1>1, CountsWipe
  <2>2. QED
    BY <1>2, <1>3, <1>5, <2>1 DEF CountsNext
<1>6. QED
  BY <1>3, <1>4, <1>5

LEMMA CountInductive == CountInv /\ [PoolNext]_poolVars => CountInv'
<1> SUFFICES ASSUME CountInv, [PoolNext]_poolVars PROVE CountInv'
  OBVIOUS
<1>1. PoolInv /\ PoolTypes /\ CountsOk(HeldBy, usage, zeroed, broken)
  BY DEF CountInv, PoolInv
<1>2. PoolInv' /\ IdleOk' /\ BuildOk'
  BY <1>1, Inductive, IdleSteps, BuildSteps
<1>3. ASSUME HeldBy' = HeldBy, UNCHANGED <<usage, zeroed, broken>> PROVE CountsNext
  BY <1>1, <1>3 DEF CountsNext
<1>4. ASSUME NEW r \in Requests, ParseBegins(r) PROVE CountsNext
  <2>1. UNCHANGED <<usage, zeroed, broken>>
    BY <1>4 DEF ParseBegins, headers
  <2>2. /\ request[r].held = <<>> /\ <<>> \in Seq(Blocks \cup {Null}) /\ 1 \in Types
        /\ request' = [request EXCEPT ![r] = [pc |-> "parse", held |-> <<>>, want |-> 1]]
    BY <1>4, MempoolAssumption DEF ParseBegins, CountInv, IdleOk
  <2>3. HeldBy' = [HeldBy EXCEPT ![r] = <<>>]
    BY <1>1, <2>2, RequestSteps DEF Pcs
  <2>4. HeldBy' = HeldBy
    BY <2>2, <2>3 DEF HeldBy
  <2>5. QED
    BY <1>3, <2>1, <2>4
<1>5. ASSUME NEW r \in Requests, ParseDone(r) \/ RequestDone(r) \/ NoCollection(r)
      PROVE  CountsNext
  <2>1. UNCHANGED <<usage, zeroed, broken>>
    BY <1>5 DEF ParseDone, RequestDone, NoCollection, headers
  <2>2. PICK c \in Pcs : request' = [request EXCEPT ![r].pc = c]
    BY <1>5 DEF ParseDone, RequestDone, NoCollection, Pcs
  <2>3. HeldBy' = HeldBy
    BY <1>1, <2>2, PcIs
  <2>4. QED
    BY <1>3, <2>1, <2>3
<1>6. ASSUME NEW r \in Requests, NEW t \in Types, AllocMisses(r, t) PROVE CountsNext
  <2>1. /\ UNCHANGED <<usage, zeroed, broken>>
        /\ request' = [request EXCEPT ![r].pc = "allocate", ![r].want = t]
    BY <1>6 DEF AllocMisses, headers
  <2>2. HeldBy' = HeldBy
    BY <1>1, <2>1, KeepIs DEF Pcs
  <2>3. QED
    BY <1>3, <2>1, <2>2
<1>7. ASSUME \/ mempool_manager_destroy \/ UNCHANGED poolVars
             \/ \E r \in Requests : AllocFaults(r)
      PROVE  CountsNext
  <2>1. HeldBy' = HeldBy /\ UNCHANGED <<usage, zeroed, broken>>
    BY <1>7 DEF mempool_manager_destroy, AllocFaults, poolVars, headers, HeldBy
  <2>2. QED
    BY <1>3, <2>1
<1>8. ASSUME NEW r \in Requests, mempool_gc(r) PROVE CountsNext
  <2>1. /\ UNCHANGED <<usage, zeroed, broken>>
        /\ request' = request \/ request' = [request EXCEPT ![r].pc = "cleanup"]
    BY <1>8 DEF mempool_gc, headers
  <2>2. request' = request => HeldBy' = HeldBy
    BY DEF HeldBy
  <2>3. request' = [request EXCEPT ![r].pc = "cleanup"] => HeldBy' = HeldBy
    BY <1>1, PcIs DEF Pcs
  <2>4. QED
    BY <1>3, <2>1, <2>2, <2>3
<1>9. CountsNext
  BY <1>4, <1>5, <1>6, <1>7, <1>8, CountHit, CountNew, CountFails, CountFree, CountClear
  DEF PoolNext
<1>10. QED
  BY <1>2, <1>9 DEF CountInv, CountsNext

LEMMA CountInitially == PoolInit => CountInv
<1> SUFFICES ASSUME PoolInit PROVE CountInv
  OBVIOUS
<1>1. \A r \in Requests : request[r].held = <<>> /\ HeldBy[r] = <<>>
  BY DEF PoolInit, HeldBy
<1>2. HandSet(HeldBy) = {}
  <2>1. \A b \in Blocks : ~InHand(HeldBy, b)
    BY <1>1 DEF InHand
  <2>2. QED
    BY <2>1 DEF HandSet
<1>3. IsFiniteSet(HandSet(HeldBy)) /\ HeldSize(HeldBy, zeroed) = 0
  BY <1>2, FS_EmptySet, SumEmpty DEF HeldSize
<1>4. usage \in [Types -> 0 .. Wrap - 1] /\ \A p \in Types : usage[p] = 0
  BY MempoolAssumption DEF PoolInit
<1>5. SumFunctionOnSet(usage, Types) = 0
  BY <1>4, SumZero, MempoolAssumption
<1>6. SumFunctionOnSet(usage, Types) = HeldSize(HeldBy, zeroed) + Wrap * 0 /\ 0 \in Int
  BY <1>3, <1>5, MempoolAssumption
<1>7. CountsOk(HeldBy, usage, zeroed, broken)
  BY <1>3, <1>4, <1>6 DEF CountsOk, Balanced
<1>8. IdleOk
  BY <1>1 DEF IdleOk
<1>9. BuildOk
  BY DEF PoolInit, BuildOk
<1>10. QED
  BY <1>7, <1>8, <1>9, Initially DEF CountInv

\* Every pool alone miscounts, because mempool_manager_free gives every block
\* to the first one, but the counters together are, modulo their width, the
\* size of what the requests hold: for any number of requests, whatever they do
\* between the locked parts of an allocation (asm_mempool.c:215-289), and up to
\* the first time that a clearing wipes the header of a block that is held.
THEOREM UsageIsBalanced == PoolSpec => []UsageBalanced
<1>1. CountInv => UsageBalanced
  <2> SUFFICES ASSUME CountInv PROVE UsageBalanced
    OBVIOUS
  <2> SUFFICES ASSUME Held \cap broken = {}
               PROVE  SumFunction(usage) % Wrap = SumFunction([b \in Held |-> Size(b)]) % Wrap
    BY DEF UsageBalanced
  <2>1. /\ usage \in [Types -> 0 .. Wrap - 1] /\ IsFiniteSet(HandSet(HeldBy))
        /\ PoolTypes /\ Wrap \in Nat \ {0}
    BY MempoolAssumption DEF CountInv, PoolInv, CountsOk
  <2>2. Held = HandSet(HeldBy)
    <3>1. ASSUME NEW b PROVE b \in Held <=> b # Null /\ InHand(HeldBy, b)
      BY DEF Held, InHand, HeldBy
    <3>2. ASSUME NEW b, InHand(HeldBy, b), b # Null PROVE b \in Blocks
      BY <2>1, <3>2, HeldTyped DEF InHand, Hands
    <3>3. \A b \in Blocks : b # Null
      BY BlockTyped
    <3>4. QED
      BY <3>1, <3>2, <3>3 DEF HandSet
  <2>3. SumFunction(usage) = SumFunctionOnSet(usage, Types)
    <3>1. DOMAIN usage = Types
      BY <2>1
    <3>2. QED
      BY <3>1, SumFunctionIs
  <2>4. PICK k \in Int : SumFunctionOnSet(usage, Types) = HeldSize(HeldBy, zeroed) + Wrap * k
    BY <2>2 DEF CountInv, CountsOk, Balanced
  <2> DEFINE f == [b \in Held |-> Size(b)]
  <2>5. DOMAIN f = Held /\ \A b \in Held : f[b] = SizesIn(zeroed)[b]
    BY <2>2 DEF SizesIn, SizeIn, Size, HandSet
  <2> HIDE DEF f
  <2>6. SumFunction(f) = HeldSize(HeldBy, zeroed)
    <3>1. SumFunction(f) = SumFunctionOnSet(f, Held)
      BY <2>5, SumFunctionIs
    <3>2. SumFunctionOnSet(f, Held) = SumFunctionOnSet(SizesIn(zeroed), Held)
      BY <2>1, <2>2, <2>5, SumSame
    <3>3. QED
      BY <2>2, <3>1, <3>2 DEF HeldSize
  <2>7. HeldSize(HeldBy, zeroed) \in Int
    BY <2>1, SizeIs
  <2>8. SumFunctionOnSet(usage, Types) \in Int
    <3>1. \A p \in Types : usage[p] \in Nat
      BY <2>1
    <3>2. IsFiniteSet(Types)
      BY MempoolAssumption
    <3>3. SumFunctionOnSet(usage, Types) \in Nat
      BY <3>1, <3>2, SumNat
    <3>4. QED
      BY <3>3
  <2>9. SumFunctionOnSet(usage, Types) % Wrap = HeldSize(HeldBy, zeroed) % Wrap
    BY <2>1, <2>4, <2>7, <2>8, Congruent
  <2>10. QED
    BY <2>3, <2>6, <2>9 DEF f
<1>2. PoolSpec => []CountInv
  BY CountInitially, CountInductive, PTL DEF PoolSpec
<1>3. QED
  BY <1>1, <1>2, PTL
=============================================================================
