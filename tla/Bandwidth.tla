------------------------------ MODULE Bandwidth ------------------------------
(***************************************************************************)
(* The bandwidth controller of src/src/utils/bandwidth.c: a token bucket   *)
(* (bandwidth_controller_t) and the loop that bandwidth_controlled_send,   *)
(* _sendfile and _ssl_send share, which differ in the chunk they send at   *)
(* a time.  One connection has one controller and one thread.              *)
(*                                                                         *)
(* Time is a clock that ticks in units of the program's microsecond; a     *)
(* usleep lasts at least as long as it was asked to.                       *)
(***************************************************************************)
EXTENDS Integers

CONSTANTS
    Usec,               \* ticks in a second (1000000)
    Rate, Burst,        \* controller->rate_limit, burst_size
    Chunk,              \* chunk_size of the sender (8192, 65536 for sendfile)
    MinSleep, MaxSleep, \* MIN_SLEEP_USEC, MAX_SLEEP_USEC
    BlockedSleep,       \* the pause after EAGAIN (1000)
    Sizes,              \* the sizes of the data handed to the sender
    MaxCalls,           \* how often it is called
    MaxBlocked,         \* how often the socket is full
    MaxLate             \* ticks that pass outside of a usleep or after it

ASSUME BandwidthAssumption ==
    /\ Usec \in Nat \ {0} /\ Rate \in Nat \ {0}
    /\ Burst \in Nat \ {0} /\ Chunk \in Nat \ {0}
    /\ MinSleep \in Nat \ {0} /\ MaxSleep \in Nat /\ MinSleep <= MaxSleep
    /\ BlockedSleep \in Nat
    /\ Sizes \subseteq Nat \ {0}
    /\ MaxCalls \in Nat /\ MaxBlocked \in Nat /\ MaxLate \in Nat

VARIABLES
    now,        \* gettimeofday, since the controller was initialised
    tokens,     \* controller->tokens
    last,       \* controller->last_update
    charged,    \* controller->bytes_sent: what acquire granted
    sent,       \* bytes that send accepted
    left,       \* size - total_sent
    until,      \* when the usleep under way has lasted long enough
    calls, blocked, late,   \* what was used of MaxCalls, MaxBlocked, MaxLate
    pc

bucketVars == <<tokens, last, charged>>
boundVars == <<calls, blocked, late>>
vars == <<now, bucketVars, sent, left, until, boundVars, pc>>

Lesser(a, b) == IF a < b THEN a ELSE b
Greater(a, b) == IF a > b THEN a ELSE b

\* bandwidth_controller_init: the bucket is full.
Init ==
    /\ now = 0 /\ last = 0
    /\ tokens = Burst
    /\ charged = 0 /\ sent = 0 /\ left = 0 /\ until = 0
    /\ calls = 0 /\ blocked = 0 /\ late = 0
    /\ pc = "idle"

------------------------------------------------------------------------------
(* The bucket.                                                             *)

\* bandwidth_controller_update_tokens; the fraction of a token is lost.
Refilled == Lesser(Burst, tokens + (Rate * (now - last)) \div Usec)

\* Mutant: a short wait is slept as it is.
WaitUnclamped(needed) == Lesser(MaxSleep, (needed * Usec) \div Rate)

\* How long acquire asks its caller to wait for the tokens it lacks.
WaitFor(needed) == Lesser(MaxSleep, Greater(MinSleep, (needed * Usec) \div Rate))

\* Mutant: what is granted stays in the bucket.
GrantKeeps(bytes) ==
    /\ Refilled >= bytes
    /\ tokens' = Refilled
    /\ charged' = charged + bytes
    /\ last' = now

\* bandwidth_controller_acquire, granted or not.
Grant(bytes) ==
    /\ Refilled >= bytes
    /\ tokens' = Refilled - bytes
    /\ charged' = charged + bytes
    /\ last' = now

Deny(bytes) ==
    /\ Refilled < bytes
    /\ tokens' = Refilled
    /\ last' = now
    /\ UNCHANGED charged

------------------------------------------------------------------------------
(* The sender.                                                             *)

ToSend == Lesser(left, Chunk)

Goto(from, to) == pc = from /\ pc' = to

Call ==
    /\ Goto("idle", "acquire")
    /\ calls < MaxCalls
    /\ calls' = calls + 1
    /\ left' \in Sizes
    /\ UNCHANGED <<now, bucketVars, sent, until, blocked, late>>

Acquire ==
    /\ Goto("acquire", "send")
    /\ Grant(ToSend)
    /\ UNCHANGED <<now, sent, left, until, boundVars>>

AcquireDenied ==
    /\ Goto("acquire", "sleep")
    /\ Deny(ToSend)
    /\ until' = now + WaitFor(ToSend - Refilled)
    /\ UNCHANGED <<now, sent, left, boundVars>>

\* After the usleep acquire is called again; its answer is not looked at.
Again ==
    /\ Goto("sleep", "send")
    /\ now >= until
    /\ Grant(ToSend) \/ Deny(ToSend)
    /\ UNCHANGED <<now, sent, left, until, boundVars>>

\* send takes some of the chunk; what is left of it is acquired anew.
SendSome ==
    /\ pc = "send"
    /\ \E n \in 1 .. ToSend :
        /\ sent' = sent + n
        /\ left' = left - n
        /\ pc' = IF n = left THEN "idle" ELSE "acquire"
    /\ UNCHANGED <<now, bucketVars, until, boundVars>>

\* EAGAIN: a pause, and the chunk is acquired anew as well.  The code does this
\* without limit: a client that reads no more keeps the sender for ever.
SendBlocks ==
    /\ Goto("send", "pause")
    /\ blocked < MaxBlocked
    /\ blocked' = blocked + 1
    /\ until' = now + BlockedSleep
    /\ UNCHANGED <<now, bucketVars, sent, left, calls, late>>

Resume ==
    /\ Goto("pause", "acquire")
    /\ now >= until
    /\ UNCHANGED <<now, bucketVars, sent, left, until, boundVars>>

SendFails ==
    /\ Goto("send", "idle")
    /\ left' = 0
    /\ UNCHANGED <<now, bucketVars, sent, until, boundVars>>

\* A tick of the clock: one that a usleep waits for, or one more.
Pass ==
    /\ now' = now + 1
    /\ \/ pc \in {"sleep", "pause"} /\ now < until /\ UNCHANGED late
       \/ late < MaxLate /\ late' = late + 1
    /\ UNCHANGED <<bucketVars, sent, left, until, calls, blocked, pc>>

Sender == Acquire \/ AcquireDenied \/ Again \/ SendSome \/ SendBlocks \/ Resume \/ SendFails

Next == Call \/ Sender \/ Pass

Spec == Init /\ [][Next]_vars

------------------------------------------------------------------------------
(* Properties.                                                             *)

\* The type invariant: the bucket holds between nothing and burst_size, which
\* is what keeps the unsigned tokens - bytes from wrapping round.
TypeOK ==
    /\ now \in Nat /\ last \in 0 .. now
    /\ tokens \in 0 .. Burst
    /\ charged \in Nat /\ sent \in Nat /\ left \in Nat /\ until \in Nat
    /\ calls \in 0 .. MaxCalls /\ blocked \in 0 .. MaxBlocked /\ late \in 0 .. MaxLate
    /\ pc \in {"idle", "acquire", "sleep", "send", "pause"}

\* The bytes granted never exceed one burst plus the rate times the time that
\* passed, whatever the refills round off and however often they happen.
ChargedWithinRate == Usec * (charged + tokens) <= Usec * Burst + Rate * last

\* Bytes sent beyond the bytes granted: at most a chunk for each shortest sleep.
\* A chunk is sent without its tokens only after a usleep.
OverrunBounded == MinSleep * (sent - charged) <= Chunk * now
=============================================================================
