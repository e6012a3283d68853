---------------------------- MODULE KeyedLimiter ----------------------------
(***************************************************************************)
(* The limiter of server/src/utils/keyed-limiter.js, under the evaluations *)
(* of the delta-neutral protections: at most Max tasks run at a time, at   *)
(* most one per key (the Hyperliquid account), first come first served,    *)
(* and a task that waits for its key lets later ones pass.                 *)
(*                                                                         *)
(* _pump starts tasks in one block, and the function of a task that starts *)
(* may call run or idle again before the loop goes on.  Each turn of the   *)
(* loop is an action, and while `pumping` only such calls come between.    *)
(***************************************************************************)
EXTENDS Naturals, FiniteSets

CONSTANTS
    Tasks,      \* the calls of run, each made at most once
    Keys,
    Max,        \* maxConcurrent
    Waiters     \* the calls of idle

ASSUME MaxAssumption == Max \in Nat \ {0}

VARIABLES
    pc,         \* [Tasks -> stage of the task]
    key,        \* [Tasks -> Keys]: the key a task is run with
    arrival,    \* [Tasks -> Nat]: the place of a task in the queue
    clock,      \* the number of calls of run so far
    activeKeys, \* this._activeKeys
    pumping,    \* the loop of _pump is under way
    waiter      \* [Waiters -> stage of the promise that idle returned]

vars == <<pc, key, arrival, clock, activeKeys, pumping, waiter>>

TypeOK ==
    /\ pc \in [Tasks -> {"new", "queued", "running", "done"}]
    /\ key \in [Tasks -> Keys]
    /\ arrival \in [Tasks -> Nat]
    /\ clock \in Nat
    /\ activeKeys \subseteq Keys
    /\ pumping \in BOOLEAN
    /\ waiter \in [Waiters -> {"new", "waiting", "resolved"}]

Queued(t) == pc[t] = "queued"
Running(t) == pc[t] = "running"

\* this.size is 0.
Empty == activeKeys = {} /\ \A t \in Tasks : ~Queued(t)

-----------------------------------------------------------------------------

Init ==
    /\ pc = [t \in Tasks |-> "new"]
    /\ key \in [Tasks -> Keys]
    /\ arrival = [t \in Tasks |-> 0]
    /\ clock = 0
    /\ activeKeys = {}
    /\ pumping = FALSE
    /\ waiter = [w \in Waiters |-> "new"]

\* run: the task is queued and _pump is called.
Run(t) ==
    /\ pc[t] = "new"
    /\ pc' = [pc EXCEPT ![t] = "queued"]
    /\ arrival' = [arrival EXCEPT ![t] = clock]
    /\ clock' = clock + 1
    /\ pumping' = TRUE
    /\ UNCHANGED <<key, activeKeys, waiter>>

\* A task the loop may start, were it the first such in the queue.
Startable(t) == Queued(t) /\ key[t] \notin activeKeys

\* Variant: the head of the queue, which nobody may pass.
FirstInQueueStrict(t) ==
    /\ Startable(t)
    /\ \A s \in Tasks : Queued(s) => arrival[t] <= arrival[s]

\* Variant: the keys under way are not looked at.
FirstInQueueAnyKey(t) ==
    /\ Queued(t)
    /\ \A s \in Tasks : Queued(s) => arrival[t] <= arrival[s]

\* queue.findIndex
FirstInQueue(t) ==
    /\ Startable(t)
    /\ \A s \in Tasks : Startable(s) => arrival[t] <= arrival[s]

\* Variant: one task too many.
RoomOffByOne == Cardinality(activeKeys) <= Max

Room == Cardinality(activeKeys) < Max

\* A turn of the loop: the task leaves the queue and its function is called.
Start(t) ==
    /\ pumping
    /\ Room
    /\ FirstInQueue(t)
    /\ pc' = [pc EXCEPT ![t] = "running"]
    /\ activeKeys' = activeKeys \cup {key[t]}
    /\ UNCHANGED <<key, arrival, clock, pumping, waiter>>

\* Variant: those who wait for idle are not told.
PumpEndsUntold ==
    /\ pumping
    /\ ~Room \/ \A t \in Tasks : ~FirstInQueue(t)
    /\ pumping' = FALSE
    /\ UNCHANGED <<pc, key, arrival, clock, activeKeys, waiter>>

\* The loop ends: it is full, or no task may start.  If nothing is left, those
\* who wait for idle are told.
PumpEnds ==
    /\ pumping
    /\ ~Room \/ \A t \in Tasks : ~FirstInQueue(t)
    /\ pumping' = FALSE
    /\ waiter' = [w \in Waiters |->
                    IF Empty /\ waiter[w] = "waiting" THEN "resolved" ELSE waiter[w]]
    /\ UNCHANGED <<pc, key, arrival, clock, activeKeys>>

\* Variant: the slot is free but nobody looks for the next task.
FinishUnpumped(t) ==
    /\ ~pumping
    /\ Running(t)
    /\ pc' = [pc EXCEPT ![t] = "done"]
    /\ activeKeys' = activeKeys \ {key[t]}
    /\ UNCHANGED <<key, arrival, clock, pumping, waiter>>

\* The promise of the function settles, one way or the other: release.
Finish(t) ==
    /\ ~pumping
    /\ Running(t)
    /\ pc' = [pc EXCEPT ![t] = "done"]
    /\ activeKeys' = activeKeys \ {key[t]}
    /\ pumping' = TRUE
    /\ UNCHANGED <<key, arrival, clock, waiter>>

\* idle
Idle(w) ==
    /\ waiter[w] = "new"
    /\ waiter' = [waiter EXCEPT ![w] = IF Empty THEN "resolved" ELSE "waiting"]
    /\ UNCHANGED <<pc, key, arrival, clock, activeKeys, pumping>>

\* Nothing is left to call, to run or to tell.
Finished ==
    /\ ~pumping
    /\ \A t \in Tasks : pc[t] = "done"
    /\ \A w \in Waiters : waiter[w] = "resolved"
    /\ UNCHANGED vars

Next ==
    \/ \E t \in Tasks : Run(t) \/ Start(t) \/ Finish(t)
    \/ PumpEnds
    \/ \E w \in Waiters : Idle(w)
    \/ Finished

Spec == Init /\ [][Next]_vars

\* The loop is a block of its own, and the functions are assumed to settle.
Fairness ==
    /\ WF_vars(PumpEnds)
    /\ \A t \in Tasks : WF_vars(Start(t)) /\ WF_vars(Finish(t))

FairSpec == Spec /\ Fairness

-----------------------------------------------------------------------------
(* Properties.                                                             *)

\* As many tasks run as keys are active, and never more than Max: a key that
\* is released is that of no other task.
Bounded ==
    /\ IsFiniteSet(activeKeys)
    /\ Cardinality(activeKeys) <= Max
    /\ \A k \in Keys : k \in activeKeys <=> \E t \in Tasks : Running(t) /\ key[t] = k
    /\ \A s, t \in Tasks : Running(s) /\ Running(t) /\ key[s] = key[t] => s = t

\* The tasks of a key run in the order they came, each after the one before
\* has settled: evaluations of an account never work with the margin of an
\* older one.
InOrderPerKey ==
    \A s, t \in Tasks :
        /\ key[s] = key[t]
        /\ arrival[s] < arrival[t]
        /\ pc[s] # "new"
        /\ pc[t] \in {"running", "done"}
        => pc[s] = "done"

\* No slot is left unused: between two blocks the limiter is full, or each
\* task that waits waits for its own key.
WorkConserving ==
    ~pumping => \/ Cardinality(activeKeys) >= Max
                \/ \A t \in Tasks : Queued(t) => key[t] \in activeKeys

\* drain waits for idle at shutdown: who waits is told once nothing is left.
IdleTold == Empty /\ ~pumping => \A w \in Waiters : waiter[w] # "waiting"

\* Every task that is queued starts.
EveryTaskStarts == \A t \in Tasks : Queued(t) ~> Running(t)

\* The limiter seen from outside is a lock per key.
Holders == [k \in Keys |-> {t \in Tasks : Running(t) /\ key[t] = k}]

Abstract == INSTANCE MutualExclusionSpec WITH Calls <- Tasks, holders <- Holders

\* The queue and the set of active keys implement a per-key lock.
ImplementsLock == Abstract!Spec

-----------------------------------------------------------------------------
(* The inductive invariant behind Bounded and InOrderPerKey.               *)

\* A call has its place as soon as it is made, and no two share one.
PlacesDiffer ==
    /\ \A t \in Tasks : pc[t] # "new" => arrival[t] < clock
    /\ \A s, t \in Tasks :
         s # t /\ pc[s] # "new" /\ pc[t] # "new" => arrival[s] # arrival[t]

IInv ==
    /\ TypeOK
    /\ Bounded
    /\ PlacesDiffer
    /\ InOrderPerKey
=============================================================================
