----------------------------- MODULE KeyedMutex -----------------------------
(***************************************************************************)
(* The per-key promise mutex of server/src/utils/keyed-mutex.js, the lock  *)
(* under the hedge engine (one key per hedge) and under every change of    *)
(* leverage on Hyperliquid (one key per account and asset).                *)
(*                                                                         *)
(* A call of runExclusive is an element of Calls and its promise `next` is *)
(* identified with it.  The event loop runs one block between two awaits   *)
(* at a time, so each action below is one such block.                      *)
(***************************************************************************)
EXTENDS Naturals, FiniteSets

CONSTANTS
    Calls,      \* the calls of runExclusive, each made at most once
    Keys,       \* the keys of the Map
    NoCall      \* "no promise": an absent Map entry, Promise.resolve()

ASSUME NoCallAssumption == NoCall \notin Calls

VARIABLES
    pc,         \* [Calls -> stage of the call]
    key,        \* [Calls -> Keys]: the key a call was made with
    locks,      \* [Keys -> Calls or NoCall]: the Map this._locks
    prev,       \* [Calls -> Calls or NoCall]: the promise a call awaits
    arrival,    \* [Calls -> Nat]: history, the turn a call was made in
    clock       \* history, the number of calls made so far

vars == <<pc, key, locks, prev, arrival, clock>>

Stages == {"idle", "waiting", "inside", "done"}

TypeOK ==
    /\ pc \in [Calls -> Stages]
    /\ key \in [Calls -> Keys]
    /\ locks \in [Keys -> Calls \cup {NoCall}]
    /\ prev \in [Calls -> Calls \cup {NoCall}]
    /\ arrival \in [Calls -> Nat]
    /\ clock \in Nat

-----------------------------------------------------------------------------

Init ==
    /\ pc = [c \in Calls |-> "idle"]
    /\ key \in [Calls -> Keys]
    /\ locks = [k \in Keys |-> NoCall]
    /\ prev = [c \in Calls |-> NoCall]
    /\ arrival = [c \in Calls |-> 0]
    /\ clock = 0

\* The promise `prev` of a call has been resolved.
Resolved(p) == p \in Calls => pc[p] = "done"

\* Variant: the finally block deletes the entry without looking whose it is.
EntryAfterReleaseUnguarded(c) == [locks EXCEPT ![key[c]] = NoCall]

\* The Map after the finally block of c.
EntryAfterRelease(c) ==
    IF locks[key[c]] = c
    THEN [locks EXCEPT ![key[c]] = NoCall]
    ELSE locks

\* runExclusive up to `await prev`.
Enqueue(c) ==
    /\ pc[c] = "idle"
    /\ pc' = [pc EXCEPT ![c] = "waiting"]
    /\ prev' = [prev EXCEPT ![c] = locks[key[c]]]
    /\ locks' = [locks EXCEPT ![key[c]] = c]
    /\ arrival' = [arrival EXCEPT ![c] = clock]
    /\ clock' = clock + 1
    /\ UNCHANGED key

\* Variant: fn is called without awaiting the previous promise.
EnterAtOnce(c) ==
    /\ pc[c] = "waiting"
    /\ pc' = [pc EXCEPT ![c] = "inside"]
    /\ UNCHANGED <<key, locks, prev, arrival, clock>>

\* The await returns and fn is called.
Enter(c) ==
    /\ pc[c] = "waiting"
    /\ Resolved(prev[c])
    /\ pc' = [pc EXCEPT ![c] = "inside"]
    /\ UNCHANGED <<key, locks, prev, arrival, clock>>

\* Variant: releaseFn is left out when a later call has replaced the entry.
ReleaseForgotten(c) ==
    /\ pc[c] = "inside"
    /\ locks[key[c]] = c
    /\ locks' = EntryAfterRelease(c)
    /\ pc' = [pc EXCEPT ![c] = "done"]
    /\ UNCHANGED <<key, prev, arrival, clock>>

\* fn has returned or thrown: the finally block, the same in both cases.
Release(c) ==
    /\ pc[c] = "inside"
    /\ locks' = EntryAfterRelease(c)
    /\ pc' = [pc EXCEPT ![c] = "done"]
    /\ UNCHANGED <<key, prev, arrival, clock>>

\* Every call has been made and has ended.
Finished ==
    /\ \A c \in Calls : pc[c] = "done"
    /\ UNCHANGED vars

Next ==
    \/ \E c \in Calls : Enqueue(c) \/ Enter(c) \/ Release(c)
    \/ Finished

Spec == Init /\ [][Next]_vars

\* Promise reactions are run by the event loop, and fn is assumed to settle.
Fairness == \A c \in Calls : WF_vars(Enter(c)) /\ WF_vars(Release(c))

FairSpec == Spec /\ Fairness

-----------------------------------------------------------------------------

Active(c) == pc[c] \in {"waiting", "inside"}

\* Two distinct calls made and not ended, on the same key.
Rivals(c, d) == c # d /\ Active(c) /\ Active(d) /\ key[c] = key[d]

\* At most one fn runs at a time on a key.
MutualExclusion ==
    \A c, d \in Calls :
        Rivals(c, d) => ~(pc[c] = "inside" /\ pc[d] = "inside")

\* Calls on one key are served in the order they were made: fills of a hedge
\* are handled in the order the exchange reported them.
FirstComeFirstServed ==
    \A c, d \in Calls :
        Rivals(c, d) /\ arrival[c] < arrival[d] => pc[d] # "inside"

\* The Map forgets a key once nobody uses it: with a key per hedge, entries
\* left behind would accumulate for the life of the process.
NoLeakedEntry ==
    \A k \in Keys :
        locks[k] # NoCall => \E c \in Calls : Active(c) /\ key[c] = k

\* Nobody is forgotten: each call gets its turn.
EveryCallServed == \A c \in Calls : pc[c] = "waiting" ~> pc[c] = "inside"

\* The lock seen from outside: which calls are inside, per key.
Holders == [k \in Keys |-> {c \in Calls : pc[c] = "inside" /\ key[c] = k}]

Abstract == INSTANCE MutualExclusionSpec WITH holders <- Holders

\* The promise chain implements a per-key lock.
ImplementsLock == Abstract!Spec

-----------------------------------------------------------------------------
(* The inductive invariant behind MutualExclusion.                         *)

\* The Map entry of a key is its latest active call.
TailIsLatest ==
    /\ \A k \in Keys :
         locks[k] # NoCall => Active(locks[k]) /\ key[locks[k]] = k
    /\ \A c \in Calls : Active(c) => locks[key[c]] # NoCall
    /\ \A c, d \in Calls :
         Rivals(c, d) /\ locks[key[c]] = c => arrival[d] < arrival[c]

\* A call awaits the rival made just before it.
PrevIsPredecessor ==
    \A c, d \in Calls :
        Rivals(c, d) /\ arrival[d] < arrival[c] =>
            /\ prev[c] # NoCall
            /\ arrival[d] <= arrival[prev[c]]

PrevIsEarlier ==
    \A c \in Calls :
        Active(c) /\ prev[c] # NoCall =>
            /\ pc[prev[c]] # "idle"
            /\ key[prev[c]] = key[c]
            /\ arrival[prev[c]] < arrival[c]

\* A call whose awaited promise is resolved is older than all its rivals.
ResolvedIsFirst ==
    \A c, d \in Calls :
        Rivals(c, d) /\ Resolved(prev[c]) => arrival[c] < arrival[d]

ArrivalsDiffer ==
    /\ \A c \in Calls : Active(c) => arrival[c] < clock
    /\ \A c, d \in Calls : Rivals(c, d) => arrival[c] # arrival[d]

InsideIsResolved ==
    \A c \in Calls : pc[c] = "inside" => Resolved(prev[c])

IInv ==
    /\ TypeOK
    /\ TailIsLatest
    /\ PrevIsPredecessor
    /\ PrevIsEarlier
    /\ ResolvedIsFirst
    /\ ArrivalsDiffer
    /\ InsideIsResolved
=============================================================================
