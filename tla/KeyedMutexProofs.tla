-------------------------- MODULE KeyedMutexProofs --------------------------
(***************************************************************************)
(* Proofs about the per-key mutex, for any set of calls and of keys.       *)
(***************************************************************************)
EXTENDS KeyedMutex, TLAPS

\* The types hold from the start and every block preserves them.
LEMMA TypeInit == Init => TypeOK
  BY DEF Init, TypeOK, Stages

LEMMA TypeStep == TypeOK /\ [Next]_vars => TypeOK'
<1> SUFFICES ASSUME TypeOK, [Next]_vars PROVE TypeOK'
  OBVIOUS
<1> USE DEF TypeOK, Stages
<1>1. ASSUME NEW c \in Calls, Enqueue(c) PROVE TypeOK'
  BY <1>1 DEF Enqueue
<1>2. ASSUME NEW c \in Calls, Enter(c) PROVE TypeOK'
  BY <1>2 DEF Enter
<1>3. ASSUME NEW c \in Calls, Release(c) PROVE TypeOK'
  BY <1>3 DEF Release, EntryAfterRelease
<1>4. CASE UNCHANGED vars
  BY <1>4 DEF vars
<1> QED
  BY <1>1, <1>2, <1>3, <1>4 DEF Next, Finished

\* Type correctness: the promise chain and the Map keep their shape.
THEOREM TypeCorrect == Spec => []TypeOK
  BY TypeInit, TypeStep, PTL DEF Spec

-----------------------------------------------------------------------------

LEMMA IInvInit == Init => IInv
  BY NoCallAssumption, TypeInit
  DEF Init, IInv, TailIsLatest, PrevIsPredecessor, PrevIsEarlier,
      ResolvedIsFirst, ArrivalsDiffer, InsideIsResolved, Active, Rivals

\* A new call becomes the tail of its key and awaits the former tail.
LEMMA EnqueueKeepsIInv ==
  ASSUME NEW c \in Calls, IInv, Enqueue(c), TypeOK'
  PROVE  IInv'
<1> USE NoCallAssumption DEF IInv, TypeOK, Active, Rivals, Stages
<1>1. /\ \A d \in Calls : d # c => pc'[d] = pc[d] /\ prev'[d] = prev[d]
                                 /\ arrival'[d] = arrival[d]
      /\ pc'[c] = "waiting" /\ pc[c] = "idle"
      /\ prev'[c] = locks[key[c]] /\ arrival'[c] = clock
      /\ key' = key /\ clock' = clock + 1
      /\ \A k \in Keys : locks'[k] = IF k = key[c] THEN c ELSE locks[k]
  BY DEF Enqueue
<1>2. TailIsLatest'
  BY <1>1 DEF TailIsLatest, ArrivalsDiffer
<1>3. PrevIsPredecessor'
  <2> SUFFICES ASSUME NEW x \in Calls, NEW d \in Calls,
                      Rivals(x, d)', arrival'[d] < arrival'[x]
               PROVE  prev'[x] # NoCall /\ arrival'[d] <= arrival'[prev'[x]]
    BY DEF PrevIsPredecessor
  <2>1. CASE x = c
    BY <2>1, <1>1 DEF TailIsLatest
  <2>2. CASE x # c
    BY <2>2, <1>1 DEF PrevIsPredecessor, ArrivalsDiffer, PrevIsEarlier
  <2> QED BY <2>1, <2>2
<1>4. PrevIsEarlier'
  BY <1>1 DEF PrevIsEarlier, TailIsLatest, ArrivalsDiffer
<1>5. ResolvedIsFirst'
  <2> SUFFICES ASSUME NEW x \in Calls, NEW d \in Calls,
                      Rivals(x, d)', Resolved(prev[x])'
               PROVE  arrival'[x] < arrival'[d]
    BY DEF ResolvedIsFirst
  <2>1. CASE x = c
    BY <2>1, <1>1 DEF TailIsLatest, Resolved
  <2>2. CASE x # c
    BY <2>2, <1>1 DEF ResolvedIsFirst, ArrivalsDiffer, Resolved
  <2> QED BY <2>1, <2>2
<1>6. ArrivalsDiffer'
  BY <1>1 DEF ArrivalsDiffer
<1>7. InsideIsResolved'
  BY <1>1 DEF InsideIsResolved, Resolved
<1> QED
  BY <1>2, <1>3, <1>4, <1>5, <1>6, <1>7

LEMMA EnterKeepsIInv ==
  ASSUME NEW c \in Calls, IInv, Enter(c), TypeOK'
  PROVE  IInv'
<1> USE DEF IInv, TypeOK, Stages
<1>1. /\ \A d \in Calls : Active(d)' <=> Active(d)
      /\ \A d \in Calls : (pc'[d] = "done" <=> pc[d] = "done")
                          /\ (pc'[d] = "idle" <=> pc[d] = "idle")
                          /\ (pc'[d] = "inside" <=> pc[d] = "inside" \/ d = c)
      /\ UNCHANGED <<key, locks, prev, arrival, clock>>
      /\ Resolved(prev[c])
  BY DEF Enter, Active
<1>2. \A d, e \in Calls : Rivals(d, e)' <=> Rivals(d, e)
  BY <1>1 DEF Rivals
<1>3. \A d \in Calls : Resolved(prev[d])' <=> Resolved(prev[d])
  BY <1>1, NoCallAssumption DEF Resolved
<1>4. TailIsLatest'
  BY <1>1, <1>2, NoCallAssumption DEF TailIsLatest, Active
<1>5. PrevIsPredecessor' /\ ResolvedIsFirst' /\ ArrivalsDiffer'
  BY <1>1, <1>2, <1>3 DEF PrevIsPredecessor, ResolvedIsFirst, ArrivalsDiffer
<1>6. PrevIsEarlier'
  BY <1>1, NoCallAssumption DEF PrevIsEarlier
<1>7. InsideIsResolved'
  BY <1>1, <1>3 DEF InsideIsResolved
<1> QED
  BY <1>4, <1>5, <1>6, <1>7

\* Ending a call resolves the promise of its successor alone, and the Map
\* entry goes only with the last call of the key.
LEMMA ReleaseKeepsIInv ==
  ASSUME NEW c \in Calls, IInv, Release(c), TypeOK'
  PROVE  IInv'
<1> USE NoCallAssumption DEF IInv, TypeOK, Active, Rivals, Stages
<1>1. /\ pc[c] = "inside" /\ pc'[c] = "done"
      /\ \A d \in Calls : d # c => pc'[d] = pc[d]
      /\ UNCHANGED <<key, prev, arrival, clock>>
      /\ \A k \in Keys : locks'[k] = IF k = key[c] /\ locks[k] = c
                                     THEN NoCall ELSE locks[k]
  BY DEF Release, EntryAfterRelease
<1>2. \A d \in Calls : Rivals(c, d) => arrival[c] < arrival[d]
  BY <1>1 DEF ResolvedIsFirst, InsideIsResolved
<1>3. TailIsLatest'
  BY <1>1, <1>2 DEF TailIsLatest
<1>4. PrevIsPredecessor'
  BY <1>1 DEF PrevIsPredecessor
<1>5. PrevIsEarlier'
  BY <1>1 DEF PrevIsEarlier
<1>6. ResolvedIsFirst'
  <2> SUFFICES ASSUME NEW x \in Calls, NEW d \in Calls,
                      Rivals(x, d)', Resolved(prev[x])'
               PROVE  arrival[x] < arrival[d]
    BY <1>1 DEF ResolvedIsFirst
  <2>1. Rivals(x, d) /\ x # c /\ d # c
    BY <1>1
  <2>2. CASE prev[x] = c
    <3>1. Rivals(c, d)
      BY <2>1, <2>2, <1>1 DEF PrevIsEarlier
    <3>2. ~(arrival[d] < arrival[x])
      BY <2>1, <2>2, <3>1, <1>2 DEF PrevIsPredecessor
    <3>3. arrival[x] # arrival[d] /\ arrival[x] \in Nat /\ arrival[d] \in Nat
      BY <2>1 DEF ArrivalsDiffer
    <3> HIDE DEF IInv, TypeOK, Active, Rivals, Stages
    <3> QED BY <3>2, <3>3
  <2>3. CASE prev[x] # c
    BY <2>1, <2>3, <1>1 DEF ResolvedIsFirst, Resolved
  <2> QED BY <2>2, <2>3
<1>7. ArrivalsDiffer'
  BY <1>1 DEF ArrivalsDiffer
<1>8. InsideIsResolved'
  BY <1>1 DEF InsideIsResolved, Resolved
<1> QED
  BY <1>3, <1>4, <1>5, <1>6, <1>7, <1>8

LEMMA IInvStep == IInv /\ [Next]_vars => IInv'
<1> SUFFICES ASSUME IInv, [Next]_vars PROVE IInv'
  OBVIOUS
<1>1. TypeOK'
  BY TypeStep DEF IInv
<1>2. CASE UNCHANGED vars
  BY <1>2 DEF vars, IInv, TypeOK, TailIsLatest, PrevIsPredecessor,
     PrevIsEarlier, ResolvedIsFirst, ArrivalsDiffer, InsideIsResolved,
     Active, Rivals, Resolved
<1> QED
  BY <1>1, <1>2, EnqueueKeepsIInv, EnterKeepsIInv, ReleaseKeepsIInv
  DEF Next, Finished

\* The strengthened invariant, which relates the Map, the awaited promises
\* and the order of arrival, is inductive.
THEOREM IInvHolds == Spec => []IInv
  BY IInvInit, IInvStep, PTL DEF Spec

\* The strengthened invariant excludes two calls inside on one key, and makes
\* the one inside the oldest.
LEMMA IInvImpliesSafety == IInv => MutualExclusion /\ FirstComeFirstServed
<1> SUFFICES ASSUME IInv, NEW c \in Calls, NEW d \in Calls, Rivals(c, d)
             PROVE  /\ ~(pc[c] = "inside" /\ pc[d] = "inside")
                    /\ arrival[c] < arrival[d] => pc[d] # "inside"
  BY DEF MutualExclusion, FirstComeFirstServed
<1>1. Rivals(d, c) /\ arrival[c] \in Nat /\ arrival[d] \in Nat
  BY DEF Rivals, IInv, TypeOK
<1> QED
  BY <1>1 DEF IInv, ResolvedIsFirst, InsideIsResolved

\* Mutual exclusion of the functions run on one key, which every update of a
\* hedge relies on.
THEOREM MutexSafe == Spec => []MutualExclusion
  BY IInvHolds, IInvImpliesSafety, PTL

\* An entry of the Map is that of a call that has not ended: a key nobody uses
\* has none.
THEOREM MutexLeakFree == Spec => []NoLeakedEntry
<1>1. IInv => NoLeakedEntry
  BY NoCallAssumption DEF IInv, TypeOK, TailIsLatest, NoLeakedEntry
<1> QED
  BY <1>1, IInvHolds, PTL

\* Calls on one key are served first come, first served.
THEOREM MutexFair == Spec => []FirstComeFirstServed
  BY IInvHolds, IInvImpliesSafety, PTL

-----------------------------------------------------------------------------

LEMMA RefinementInit == Init => Abstract!Init
  BY DEF Init, Abstract!Init, Holders

\* An Enter is an Acquire, a Release is a Free, an Enqueue is invisible.
LEMMA RefinementStep ==
  IInv /\ [Next]_vars => [Abstract!Next]_Holders
<1> SUFFICES ASSUME IInv, [Next]_vars
             PROVE  [Abstract!Next]_Holders
  OBVIOUS
<1> USE DEF IInv, TypeOK, Holders
<1>0. \A c \in Calls : key[c] \in Keys
  OBVIOUS
<1>1. ASSUME NEW c \in Calls, Enqueue(c) PROVE UNCHANGED Holders
  BY <1>1 DEF Enqueue
<1>2. ASSUME NEW c \in Calls, Enter(c) PROVE Abstract!Next
  <2>1. \A d \in Calls : pc[d] = "inside" => key[d] # key[c]
    BY <1>2 DEF Enter, Rivals, Active, ResolvedIsFirst, InsideIsResolved
  <2>2. Abstract!Acquire(c, key[c])
    BY <1>2, <2>1 DEF Enter, Abstract!Acquire
  <2>3. key[c] \in Keys
    BY <1>0
  <2> HIDE DEF IInv, TypeOK, Holders
  <2> QED BY <2>2, <2>3 DEF Abstract!Next
<1>3. ASSUME NEW c \in Calls, Release(c) PROVE Abstract!Next
  <2>1. \A d \in Calls : d # c /\ pc[d] = "inside" => key[d] # key[c]
    BY <1>3, IInvImpliesSafety DEF Release, Rivals, Active, MutualExclusion
  <2>2. Abstract!Free(c, key[c])
    BY <1>3, <2>1 DEF Release, Abstract!Free
  <2>3. key[c] \in Keys
    BY <1>0
  <2> HIDE DEF IInv, TypeOK, Holders
  <2> QED BY <2>2, <2>3 DEF Abstract!Next
<1>4. CASE UNCHANGED vars
  BY <1>4 DEF vars
<1> QED
  BY <1>1, <1>2, <1>3, <1>4 DEF Next, Finished

\* The promise chain implements the abstract lock.
THEOREM MutexImplements == Spec => ImplementsLock
  BY IInvHolds, RefinementInit, RefinementStep, PTL
  DEF Spec, ImplementsLock, Abstract!Spec
=============================================================================
