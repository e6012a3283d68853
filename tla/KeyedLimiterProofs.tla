------------------------- MODULE KeyedLimiterProofs -------------------------
(***************************************************************************)
(* Proofs about the limiter, for any tasks, keys and maximum.              *)
(***************************************************************************)
EXTENDS KeyedLimiter, TLAPS, FiniteSetTheorems, WellFoundedInduction

LEMMA TypeInit == Init => TypeOK
<1> SUFFICES ASSUME Init PROVE TypeOK
  OBVIOUS
<1>1. key \in [Tasks -> Keys] /\ activeKeys \subseteq Keys
  BY DEF Init
<1>2. /\ pc \in [Tasks -> {"new", "queued", "running", "done"}]
      /\ arrival \in [Tasks -> Nat]
      /\ waiter \in [Waiters -> {"new", "waiting", "resolved"}]
  BY DEF Init
<1>3. clock \in Nat /\ pumping \in BOOLEAN
  BY DEF Init
<1> QED
  BY <1>1, <1>2, <1>3 DEF TypeOK

LEMMA TypeStep == TypeOK /\ [Next]_vars => TypeOK'
<1> SUFFICES ASSUME TypeOK, [Next]_vars PROVE TypeOK'
  OBVIOUS
<1> USE DEF TypeOK
<1>1. ASSUME NEW t \in Tasks, Run(t) PROVE TypeOK'
  BY <1>1 DEF Run
<1>2. ASSUME NEW t \in Tasks, Start(t) PROVE TypeOK'
  BY <1>2 DEF Start
<1>3. ASSUME NEW t \in Tasks, Finish(t) PROVE TypeOK'
  BY <1>3 DEF Finish
<1>4. CASE PumpEnds
  BY <1>4 DEF PumpEnds
<1>5. ASSUME NEW w \in Waiters, Idle(w) PROVE TypeOK'
  BY <1>5 DEF Idle
<1>6. CASE UNCHANGED vars
  BY <1>6 DEF vars
<1> QED
  BY <1>1, <1>2, <1>3, <1>4, <1>5, <1>6 DEF Next, Finished

\* Type correctness of the limiter.
THEOREM LimiterTypes == Spec => []TypeOK
  BY TypeInit, TypeStep, PTL DEF Spec

-----------------------------------------------------------------------------

LEMMA IInvInit == Init => IInv
<1> SUFFICES ASSUME Init PROVE IInv
  OBVIOUS
<1>1. TypeOK
  BY TypeInit
<1>2. Bounded
  BY FS_EmptySet, MaxAssumption DEF Init, Bounded, Running
<1>3. PlacesDiffer /\ InOrderPerKey
  BY DEF Init, PlacesDiffer, InOrderPerKey
<1> QED
  BY <1>1, <1>2, <1>3 DEF IInv

\* A new task takes the last place.
LEMMA RunKeepsIInv ==
  ASSUME NEW t \in Tasks, IInv, Run(t), TypeOK'
  PROVE  IInv'
<1> USE DEF IInv, TypeOK
<1>1. /\ \A u \in Tasks : u # t => pc'[u] = pc[u] /\ arrival'[u] = arrival[u]
      /\ pc[t] = "new" /\ pc'[t] = "queued"
      /\ arrival'[t] = clock /\ clock' = clock + 1
      /\ UNCHANGED <<key, activeKeys>>
  BY DEF Run
<1>2. Bounded'
  BY <1>1 DEF Bounded, Running
<1>3. PlacesDiffer'
  BY <1>1 DEF PlacesDiffer
<1>4. InOrderPerKey'
  BY <1>1 DEF InOrderPerKey, PlacesDiffer
<1> QED
  BY <1>2, <1>3, <1>4

\* The task that starts is the first of those whose key is free, hence the
\* first of its own key, and there is room for it.
LEMMA StartKeepsIInv ==
  ASSUME NEW t \in Tasks, IInv, Start(t), TypeOK'
  PROVE  IInv'
<1> USE DEF IInv, TypeOK
<1>1. /\ \A u \in Tasks : u # t => pc'[u] = pc[u]
      /\ pc[t] = "queued" /\ pc'[t] = "running"
      /\ activeKeys' = activeKeys \cup {key[t]}
      /\ key[t] \notin activeKeys
      /\ UNCHANGED <<key, arrival, clock>>
  BY DEF Start, FirstInQueue, Startable, Queued
<1>2. Bounded'
  <2>1. IsFiniteSet(activeKeys') /\ Cardinality(activeKeys') <= Max
    <3>1. IsFiniteSet(activeKeys) /\ Cardinality(activeKeys) < Max
      BY DEF Bounded, Start, Room
    <3>2. /\ IsFiniteSet(activeKeys')
          /\ Cardinality(activeKeys') = Cardinality(activeKeys) + 1
      BY <3>1, <1>1, FS_AddElement
    <3>3. Cardinality(activeKeys) \in Nat
      BY <3>1, FS_CardinalityType
    <3> HIDE DEF IInv, TypeOK
    <3> QED BY <3>1, <3>2, <3>3, MaxAssumption
  <2>2. \A k \in Keys :
          k \in activeKeys' <=> \E u \in Tasks : Running(u)' /\ key'[u] = k
    BY <1>1 DEF Bounded, Running
  <2>3. \A r, u \in Tasks :
          Running(r)' /\ Running(u)' /\ key'[r] = key'[u] => r = u
    BY <1>1 DEF Bounded, Running
  <2> QED BY <2>1, <2>2, <2>3 DEF Bounded
<1>3. PlacesDiffer'
  BY <1>1 DEF PlacesDiffer
<1>4. InOrderPerKey'
  <2> SUFFICES ASSUME NEW s \in Tasks, NEW u \in Tasks, key[s] = key[u],
                      arrival[s] < arrival[u], pc'[s] # "new",
                      pc'[u] \in {"running", "done"}
               PROVE  pc'[s] = "done"
    BY <1>1 DEF InOrderPerKey
  <2>1. CASE u # t
    BY <2>1, <1>1 DEF InOrderPerKey
  <2>2. CASE u = t
    <3>1. s # t
      BY <2>2
    <3>2. pc[s] # "queued"
      <4> SUFFICES ASSUME pc[s] = "queued" PROVE FALSE
        OBVIOUS
      <4>1. Startable(s)
        BY <2>2, <1>1 DEF Startable, Queued
      <4>2. arrival[t] <= arrival[s]
        BY <4>1 DEF Start, FirstInQueue
      <4> QED BY <4>2, <2>2
    <3>3. pc[s] # "running"
      BY <2>2, <1>1 DEF Bounded, Running
    <3> QED BY <3>1, <3>2, <3>3, <1>1
  <2> QED BY <2>1, <2>2
<1> QED
  BY <1>2, <1>3, <1>4

\* The key a task releases is its own alone.
LEMMA FinishKeepsIInv ==
  ASSUME NEW t \in Tasks, IInv, Finish(t), TypeOK'
  PROVE  IInv'
<1> USE DEF IInv, TypeOK
<1>1. /\ \A u \in Tasks : u # t => pc'[u] = pc[u]
      /\ pc[t] = "running" /\ pc'[t] = "done"
      /\ activeKeys' = activeKeys \ {key[t]}
      /\ UNCHANGED <<key, arrival, clock>>
  BY DEF Finish, Running
<1>2. Bounded'
  <2>1. IsFiniteSet(activeKeys') /\ Cardinality(activeKeys') <= Max
    <3>1. /\ IsFiniteSet(activeKeys) /\ Cardinality(activeKeys) <= Max
          /\ key[t] \in activeKeys
      BY <1>1 DEF Bounded, Running
    <3>2. /\ IsFiniteSet(activeKeys')
          /\ Cardinality(activeKeys') = Cardinality(activeKeys) - 1
      BY <3>1, <1>1, FS_RemoveElement
    <3>3. Cardinality(activeKeys) \in Nat
      BY <3>1, FS_CardinalityType
    <3> HIDE DEF IInv, TypeOK
    <3> QED BY <3>1, <3>2, <3>3, MaxAssumption
  <2>2. \A k \in Keys :
          k \in activeKeys' <=> \E u \in Tasks : Running(u)' /\ key'[u] = k
    BY <1>1 DEF Bounded, Running
  <2>3. \A r, u \in Tasks :
          Running(r)' /\ Running(u)' /\ key'[r] = key'[u] => r = u
    BY <1>1 DEF Bounded, Running
  <2> QED BY <2>1, <2>2, <2>3 DEF Bounded
<1>3. PlacesDiffer'
  BY <1>1 DEF PlacesDiffer
<1>4. InOrderPerKey'
  BY <1>1 DEF InOrderPerKey
<1> QED
  BY <1>2, <1>3, <1>4

LEMMA IInvStep == IInv /\ [Next]_vars => IInv'
<1> SUFFICES ASSUME IInv, [Next]_vars PROVE IInv'
  OBVIOUS
<1>1. TypeOK'
  BY TypeStep DEF IInv
<1>2. CASE UNCHANGED <<pc, key, arrival, clock, activeKeys>>
  BY <1>1, <1>2 DEF IInv, Bounded, PlacesDiffer, InOrderPerKey, Running
<1> QED
  BY <1>1, <1>2, RunKeepsIInv, StartKeepsIInv, FinishKeepsIInv
  DEF Next, Finished, PumpEnds, Idle, vars

\* The places in the queue, the keys under way and the tasks that run agree.
THEOREM LimiterIInv == Spec => []IInv
  BY IInvInit, IInvStep, PTL DEF Spec

\* No more than Max tasks run, and one per key.
THEOREM LimiterBounded == Spec => []Bounded
  BY LimiterIInv, PTL DEF IInv

\* The tasks of a key run in the order they came.
THEOREM LimiterInOrder == Spec => []InOrderPerKey
  BY LimiterIInv, PTL DEF IInv

-----------------------------------------------------------------------------
(* No slot is left unused.  The scan of _pump finds a task whenever there  *)
(* is one to find, because a set of places has a least one.                *)

LessThan == {ss \in Nat \X Nat : ss[1] < ss[2]}

LEMMA LessThanIsWellFounded == IsWellFoundedOn(LessThan, Nat)
  BY NatLessThanWellFounded, Zenon DEF OpToRel, LessThan

LEMMA InLessThan ==
  ASSUME NEW x \in Nat, NEW y \in Nat, y < x
  PROVE  <<y, x>> \in LessThan
<1>1. <<y, x>> \in Nat \X Nat
  OBVIOUS
<1>2. <<y, x>>[1] < <<y, x>>[2]
  OBVIOUS
<1> QED
  BY <1>1, <1>2, Zenon DEF LessThan

\* A set of natural numbers that is not empty has a least element.
LEMMA LeastExists ==
  ASSUME NEW P, P \subseteq Nat, P # {}
  PROVE  \E x \in P : \A y \in P : x <= y
<1>1. PICK x \in P : \A y \in P : ~(<<y, x>> \in LessThan)
  BY LessThanIsWellFounded, WFMin, Zenon
<1>2. ASSUME NEW y \in P PROVE x <= y
  <2>1. x \in Nat /\ y \in Nat
    BY <1>2
  <2>2. ~(y < x)
    BY <2>1, <1>1, <1>2, InLessThan, Zenon
  <2> QED BY <2>1, <2>2
<1> QED
  BY <1>2

LEMMA FirstExists ==
  ASSUME TypeOK, NEW t \in Tasks, Startable(t)
  PROVE  \E u \in Tasks : FirstInQueue(u)
<1> DEFINE P == {arrival[u] : u \in {v \in Tasks : Startable(v)}}
<1>1. P \subseteq Nat /\ P # {}
  BY DEF TypeOK
<1>2. PICK x \in P : \A y \in P : x <= y
  <2> HIDE DEF P
  <2> QED BY <1>1, LeastExists
<1>3. PICK u \in Tasks : Startable(u) /\ arrival[u] = x
  OBVIOUS
<1>4. FirstInQueue(u)
  BY <1>2, <1>3 DEF FirstInQueue
<1> QED
  BY <1>3, <1>4

LEMMA WorkConservingStep ==
  IInv /\ WorkConserving /\ [Next]_vars => WorkConserving'
<1> SUFFICES ASSUME IInv, WorkConserving, [Next]_vars, ~pumping'
             PROVE  \/ Cardinality(activeKeys') >= Max
                    \/ \A t \in Tasks : Queued(t)' => key'[t] \in activeKeys'
  BY DEF WorkConserving
<1>1. CASE PumpEnds
  <2>1. UNCHANGED <<pc, key, activeKeys>>
    BY <1>1 DEF PumpEnds
  <2>2. CASE ~Room
    <3>1. Cardinality(activeKeys) \in Nat
      BY FS_CardinalityType DEF IInv, Bounded
    <3> QED BY <2>1, <2>2, <3>1, MaxAssumption DEF Room
  <2>3. CASE Room
    <3>1. \A t \in Tasks : ~Startable(t)
      BY <1>1, <2>3, FirstExists DEF PumpEnds, IInv
    <3> QED BY <2>1, <3>1 DEF Startable, Queued
  <2> QED BY <2>2, <2>3
<1>2. CASE UNCHANGED <<pc, key, activeKeys, pumping>>
  BY <1>2 DEF WorkConserving, Queued
<1> QED
  BY <1>1, <1>2 DEF Next, Run, Start, Finish, Finished, Idle, vars

LEMMA WorkConservingInit == Init => WorkConserving
  BY DEF Init, WorkConserving, Queued

\* Between two blocks the limiter is full, or each task that waits does so
\* for its own key.
THEOREM LimiterWorkConserving == Spec => []WorkConserving
<1>1. IInv /\ WorkConserving /\ [Next]_vars => WorkConserving'
  BY WorkConservingStep
<1> QED
  BY <1>1, LimiterIInv, WorkConservingInit, PTL DEF Spec

LEMMA IdleToldStep == IInv /\ IdleTold /\ [Next]_vars => IdleTold'
<1> SUFFICES ASSUME IInv, IdleTold, [Next]_vars, Empty', ~pumping'
             PROVE  \A w \in Waiters : waiter'[w] # "waiting"
  BY DEF IdleTold
<1>1. CASE PumpEnds
  BY <1>1 DEF PumpEnds, Empty, Queued, IInv, TypeOK
<1>2. ASSUME NEW w \in Waiters, Idle(w)
      PROVE  \A v \in Waiters : waiter'[v] # "waiting"
  BY <1>2 DEF Idle, Empty, Queued, IdleTold, IInv, TypeOK
<1>3. CASE UNCHANGED vars
  BY <1>3 DEF IdleTold, Empty, Queued, vars
<1> QED
  BY <1>1, <1>2, <1>3 DEF Next, Run, Start, Finish, Finished

LEMMA IdleToldInit == Init => IdleTold
  BY DEF Init, IdleTold

\* Who waits for the limiter to be idle is told when it is.
THEOREM LimiterIdleTold == Spec => []IdleTold
<1>1. IInv /\ IdleTold /\ [Next]_vars => IdleTold'
  BY IdleToldStep
<1> QED
  BY <1>1, LimiterIInv, IdleToldInit, PTL DEF Spec

-----------------------------------------------------------------------------

LEMMA RefinementInit == Init => Abstract!Init
  BY DEF Init, Abstract!Init, Holders, Running

\* A Start is an Acquire, a Finish is a Free, the rest is invisible.
LEMMA RefinementStep == IInv /\ [Next]_vars => [Abstract!Next]_Holders
<1> SUFFICES ASSUME IInv, [Next]_vars PROVE [Abstract!Next]_Holders
  OBVIOUS
<1>0. \A t \in Tasks : key[t] \in Keys
  BY DEF IInv, TypeOK
<1>1. ASSUME NEW t \in Tasks, Run(t) PROVE UNCHANGED Holders
  BY <1>1 DEF Run, Holders, Running, IInv, TypeOK
<1>2. ASSUME NEW t \in Tasks, Start(t) PROVE Abstract!Next
  <2>1. \A u \in Tasks : Running(u) => key[u] # key[t]
    BY <1>0, <1>2 DEF Start, FirstInQueue, Startable, IInv, Bounded
  <2>2. \A u \in Tasks : Running(u)' <=> Running(u) \/ u = t
    BY <1>2 DEF Start, Running, IInv, TypeOK
  <2>3. Holders[key[t]] = {}
    BY <1>0, <2>1 DEF Holders
  <2>4. Holders' = [Holders EXCEPT ![key[t]] = {t}]
    BY <1>0, <1>2, <2>1, <2>2 DEF Start, Holders
  <2>5. Abstract!Acquire(t, key[t])
    BY <2>3, <2>4 DEF Abstract!Acquire
  <2> QED BY <2>5, <1>0 DEF Abstract!Next
<1>3. ASSUME NEW t \in Tasks, Finish(t) PROVE Abstract!Next
  <2>1. \A u \in Tasks : u # t /\ Running(u) => key[u] # key[t]
    BY <1>3 DEF Finish, IInv, Bounded
  <2>2. Abstract!Free(t, key[t])
    BY <1>3, <2>1 DEF Finish, Abstract!Free, Holders, Running, IInv, TypeOK
  <2> QED BY <2>2, <1>0 DEF Abstract!Next
<1>4. CASE UNCHANGED <<pc, key>>
  BY <1>4 DEF Holders, Running
<1> QED
  BY <1>1, <1>2, <1>3, <1>4 DEF Next, Finished, PumpEnds, Idle, vars

\* The queue and the set of active keys implement the abstract lock.
THEOREM LimiterImplements == Spec => ImplementsLock
  BY LimiterIInv, RefinementInit, RefinementStep, PTL
  DEF Spec, ImplementsLock, Abstract!Spec
=============================================================================
