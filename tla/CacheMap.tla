------------------------------ MODULE CacheMap ------------------------------
(***************************************************************************)
(* What the functions of src/src/utils/cache.h promise to the threads that *)
(* call them: a map from keys to contents that live TTL ticks.  A call     *)
(* takes effect at one instant, when its answer appears, and the answer    *)
(* names the call it is of: a step of the map is the one that the caller   *)
(* asked for, under the key that the caller gave.                          *)
(*                                                                         *)
(* A get answers with what is stored under its key, whether that is a      *)
(* content or nothing.  It may fail where no copy can be made for the      *)
(* caller, and it answers with nothing while the map is switched off.  The *)
(* map may refuse a content.  Only where MayForget, and only while a call  *)
(* is under way, does it drop contents to make room: the cache of          *)
(* src/src/rust_modules/cache/mod.rs evicts and can be switched off.       *)
(***************************************************************************)
EXTENDS Naturals

CONSTANTS Threads, Keys, Values, TTL, MayForget, Null

VARIABLES store, on, ans

mapVars == <<store, on, ans>>

Missing == [val |-> Null, left |-> 0]

GetOf(k) == [op |-> "get", key |-> k]
PutOf(k, v) == [op |-> "put", key |-> k, val |-> v]
RemoveOf(k) == [op |-> "remove", key |-> k]
ClearOf == [op |-> "clear"]
CleanupOf == [op |-> "cleanup"]

Init ==
    /\ store = [k \in Keys |-> Missing]
    /\ on = TRUE
    /\ ans = [t \in Threads |-> Null]

\* The answer a to the call.
Answer(t, call, a) == ans' = [ans EXCEPT ![t] = [to |-> call, is |-> a]] /\ UNCHANGED on

\* A call begins: the answer of the one before is gone.
Ask(t) == ans' = [ans EXCEPT ![t] = Null] /\ UNCHANGED <<store, on>>

Get(t, k) ==
    /\ on
    /\ Answer(t, GetOf(k), IF store[k] = Missing THEN "miss" ELSE store[k].val)
    /\ UNCHANGED store

GetFails(t, k) == store[k] # Missing /\ Answer(t, GetOf(k), "failed") /\ UNCHANGED store

Withhold(t, k) == ~on /\ Answer(t, GetOf(k), "miss") /\ UNCHANGED store

Put(t, k, v) ==
    /\ store' = [store EXCEPT ![k] = [val |-> v, left |-> TTL]]
    /\ Answer(t, PutOf(k, v), "stored")

Refuse(t, k, v) == Answer(t, PutOf(k, v), "failed") /\ UNCHANGED store

Delete(t, k) ==
    /\ store' = [store EXCEPT ![k] = Missing]
    /\ Answer(t, RemoveOf(k), "removed")

DeleteNothing(t, k) ==
    /\ store[k] = Missing
    /\ Answer(t, RemoveOf(k), "absent")
    /\ UNCHANGED store

Clear(t) ==
    /\ store' = [k \in Keys |-> Missing]
    /\ Answer(t, ClearOf, "done")

Cleanup(t) == Answer(t, CleanupOf, "done") /\ UNCHANGED store

\* A content makes room for another.
Forget(t, k) ==
    /\ MayForget /\ ans[t] = Null
    /\ store' = [store EXCEPT ![k] = Missing]
    /\ UNCHANGED <<on, ans>>

Switch == on' = ~on /\ UNCHANGED <<store, ans>>

\* A tick of the clock; a content whose time is over is missing.
Age ==
    /\ store' = [k \in Keys |-> IF store[k].left <= 1 THEN Missing
                                ELSE [store[k] EXCEPT !.left = @ - 1]]
    /\ UNCHANGED <<on, ans>>

Next ==
    \/ \E t \in Threads :
        \/ Ask(t) \/ Clear(t) \/ Cleanup(t)
        \/ \E k \in Keys :
            \/ Get(t, k) \/ GetFails(t, k) \/ Withhold(t, k)
            \/ Delete(t, k) \/ DeleteNothing(t, k) \/ Forget(t, k)
        \/ \E k \in Keys, v \in Values : Put(t, k, v) \/ Refuse(t, k, v)
    \/ Switch
    \/ Age

Spec == Init /\ [][Next]_mapVars
=============================================================================
