--------------------- MODULE DeltaNeutralProtectionProofs ---------------------
(***************************************************************************)
(* Proofs about the hedge of one liquidity position, for any sizes, any    *)
(* number of segments and of calls that end it: the short is bounded, the  *)
(* signal of a new segment is kept, and a protection that becomes inactive *)
(* with its short open has an excuse.                                      *)
(***************************************************************************)
EXTENDS DeltaNeutralProtection, TLAPS

State == [pending : BOOLEAN, force : BOOLEAN, qty : Nat, miss : Nat]
EvPCs == {"idle", "observe", "decide", "reread", "ioc", "twap", "emergency", "answered", "closing"}
EndPCs == {"idle", "mark", "observe", "close", "book", "verify", "retire"}
Excuses == {"overlap", "unread"}

TypeInv ==
    /\ protection \in [active : BOOLEAN, state : State, lp : Nat]
    /\ short \in Nat
    /\ ev \in [pc : EvPCs, force : BOOLEAN, state : State, lp : Nat, actual : Nat,
               sure : BOOLEAN, goal : Nat, done : Nat, cancel : BOOLEAN, ok : BOOLEAN]
    /\ reset \in [pc : {"idle", "wait", "write"}, state : State]
    /\ end \in [Enders -> [pc : EndPCs, state : State, actual : Nat]]
    /\ bound \in [segments : Nat, ends : Nat]
    /\ seen \in [peak : Nat, lost : BOOLEAN, owed : BOOLEAN, excuse : SUBSET Excuses]

-----------------------------------------------------------------------------
(* The short is bounded.                                                    *)

\* An order that may be counted twice: the slice whose answer was lost.
Slack == IF seen.lost THEN 1 ELSE 0

\* Nobody aims at more than the largest LP so far needs, and an order in
\* progress that opens has not ordered more than what is missing.
AimInv ==
    /\ protection.lp <= seen.peak
    /\ ev.pc \in {"observe", "decide"} => ev.lp <= seen.peak
    /\ ev.pc \in {"reread", "ioc", "twap", "emergency"} => ev.goal <= seen.peak
    /\ ev.pc = "reread" => ev.done = 0
OrderInv ==
    ev.pc \in {"ioc", "twap", "emergency"} =>
        /\ ev.done <= Drift
        /\ ev.goal > ev.actual =>
              short <= ev.actual + ev.done + (IF ev.pc = "emergency" THEN Slack ELSE 0)
BoundInv == TypeInv /\ AimInv /\ OrderInv /\ ShortBounded

-----------------------------------------------------------------------------
(* The signal of a segment is kept.                                         *)

\* Before any ending is asked for, no closing runs and no state read or written
\* has one pending; the evaluation and a reset exclude each other, and an
\* evaluation that closes does nothing else; a signal that is owed is in the row
\* and in what the evaluation has read.
QuietInv ==
    bound.ends = 0 =>
        /\ protection.active /\ ~protection.state.pending
        /\ ev.pc # "idle" => ~ev.state.pending
        /\ reset.pc = "write" => ~reset.state.pending
        /\ \A k \in Enders : end[k].pc = "idle"
LockInv ==
    /\ reset.pc = "write" => ev.pc = "idle"
    /\ end["eval"].pc # "idle" => ev.pc = "closing"
SignalInv ==
    bound.ends = 0 /\ seen.owed =>
        /\ protection.state.force
        /\ ev.pc # "idle" => ev.state.force
        /\ ev.pc \in {"observe", "decide"} => ev.force
KeptInv == TypeInv /\ QuietInv /\ LockInv /\ SignalInv

-----------------------------------------------------------------------------
(* A protection becomes inactive with its short closed, or an excuse.       *)

\* Whoever is about to retire the row found the short closed, or has an excuse,
\* and so it stays once the row is retired.
GoneInv ==
    ~protection.active \/ (\E k \in Enders : end[k].pc = "retire") =>
        short = 0 \/ seen.excuse # {}
ClosedInv == TypeInv /\ LockInv /\ GoneInv

-----------------------------------------------------------------------------
(* Types.                                                                   *)

EvState == [pc : EvPCs, force : BOOLEAN, state : State, lp : Nat, actual : Nat,
            sure : BOOLEAN, goal : Nat, done : Nat, cancel : BOOLEAN, ok : BOOLEAN]
EndState == [pc : EndPCs, state : State, actual : Nat]

LEMMA MinOfTwo ==
  ASSUME NEW a \in Nat, NEW b \in Nat
  PROVE  Min({a, b}) \in {a, b} /\ Min({a, b}) <= a /\ Min({a, b}) <= b
<1>1. \E x \in {a, b} : \A y \in {a, b} : x =< y
  <2>1. CASE a <= b
    BY <2>1
  <2>2. CASE b <= a
    BY <2>2
  <2> QED
    BY <2>1, <2>2
<1>2. Min({a, b}) \in {a, b} /\ \A y \in {a, b} : Min({a, b}) =< y
  BY <1>1 DEF Min
<1> QED
  BY <1>2

LEMMA MaxOfTwo ==
  ASSUME NEW a \in Int, NEW b \in Int
  PROVE  Max({a, b}) \in {a, b} /\ Max({a, b}) >= a /\ Max({a, b}) >= b
<1>1. \E x \in {a, b} : \A y \in {a, b} : x >= y
  <2>1. CASE a >= b
    BY <2>1
  <2>2. CASE b >= a
    BY <2>2
  <2> QED
    BY <2>1, <2>2
<1>2. Max({a, b}) \in {a, b} /\ \A y \in {a, b} : Max({a, b}) >= y
  BY <1>1 DEF Max
<1> QED
  BY <1>2

LEMMA Constants ==
  /\ NewState \in State /\ NoEval \in EvState /\ NoEnd \in EndState
  /\ NoReset \in [pc : {"idle", "wait", "write"}, state : State]
<1>1. NewState \in State
  BY DEF NewState, State
<1> QED
  BY <1>1 DEF NoEval, EvState, EvPCs, NoEnd, EndState, EndPCs, NoReset

LEMMA StateUpdates ==
  ASSUME NEW s \in State, NEW b \in BOOLEAN, NEW c \in BOOLEAN, NEW q \in Nat, NEW m \in Nat
  PROVE  /\ [s EXCEPT !.pending = b] \in State /\ [s EXCEPT !.force = b] \in State
         /\ [s EXCEPT !.qty = q] \in State
         /\ [s EXCEPT !.pending = b, !.force = c] \in State
         /\ [s EXCEPT !.pending = b, !.qty = q] \in State
         /\ [s EXCEPT !.qty = q, !.miss = m] \in State
         /\ [s EXCEPT !.force = b, !.miss = m] \in State
  BY DEF State

LEMMA ObservationType ==
  ASSUME TypeInv, NEW s \in State, NEW o \in Observations(s)
  PROVE  o.actual \in Nat /\ o.miss \in Nat /\ o.sure \in BOOLEAN
<1>1. Missing(s) \in Nat
  <2>1. s.miss + 1 \in Nat
    BY DEF State
  <2> QED
    BY <2>1, MinOfTwo DEF Missing
<1>2. short \in Nat /\ s.qty \in Nat
  BY DEF TypeInv, State
<1>3. \/ o = [actual |-> short, miss |-> 0, sure |-> TRUE]
      \/ o = [actual |-> 0, miss |-> Missing(s), sure |-> TRUE]
      \/ o = [actual |-> IF Missing(s) = 2 THEN 0 ELSE s.qty, miss |-> Missing(s),
              sure |-> Missing(s) = 2]
  BY DEF Observations
<1>4. CASE o = [actual |-> short, miss |-> 0, sure |-> TRUE]
  BY <1>2, <1>4
<1>5. CASE o = [actual |-> 0, miss |-> Missing(s), sure |-> TRUE]
  BY <1>1, <1>5
<1>6. CASE o = [actual |-> IF Missing(s) = 2 THEN 0 ELSE s.qty, miss |-> Missing(s),
                sure |-> Missing(s) = 2]
  <2>1. o.miss = Missing(s) /\ o.actual = (IF Missing(s) = 2 THEN 0 ELSE s.qty)
    BY <1>6
  <2>2. o.sure = (Missing(s) = 2)
    BY <1>6, Zenon
  <2>3. o.sure \in BOOLEAN
    BY <2>2, Zenon
  <2> QED
    BY <1>1, <1>2, <2>1, <2>3
<1> QED
  BY <1>3, <1>4, <1>5, <1>6

LEMMA WriteType ==
  ASSUME TypeInv, NEW s \in State, Write(s)
  PROVE  /\ protection' \in [active : BOOLEAN, state : State, lp : Nat]
         /\ protection'.state = s /\ protection'.active = protection.active
         /\ protection'.lp = protection.lp
  BY DEF TypeInv, Write

LEMMA TypeInit == ProtectionInit => TypeInv
<1> SUFFICES ASSUME ProtectionInit PROVE TypeInv
  OBVIOUS
<1>1. PICK q \in Sizes : /\ protection = [active |-> TRUE, state |-> NewState, lp |-> q]
                         /\ seen = [peak |-> q, lost |-> FALSE, owed |-> FALSE, excuse |-> {}]
  BY DEF ProtectionInit
<1>2. q \in Nat
  BY ProtectionAssumption
<1> QED
  BY <1>1, <1>2, Constants DEF ProtectionInit, TypeInv, EvState, EndState

LEMMA EvalType ==
  ASSUME TypeInv,
         \/ \E forced \in BOOLEAN : EvalBegins(forced)
         \/ EvalFails \/ EvalLeavesEarly \/ EvalObserves \/ EvalPauses \/ EvalWaits
         \/ EvalSettles \/ EvalGoes
  PROVE  TypeInv'
<1>0. ev \in EvState /\ ev.state \in State /\ ev.lp \in Nat /\ ev.actual \in Nat
      /\ ev.force \in BOOLEAN /\ ev.state.force \in BOOLEAN /\ ev.state.pending \in BOOLEAN
      /\ NoEval \in EvState
  BY Constants DEF TypeInv, EvState, State
<1>1. ASSUME NEW forced \in BOOLEAN, EvalBegins(forced) PROVE TypeInv'
  <2>1. protection.state \in State /\ protection.lp \in Nat /\ protection.state.force \in BOOLEAN
    BY DEF TypeInv, State
  <2>2. ev' \in EvState
    BY <1>1, <2>1, Constants DEF EvalBegins, EvState, EvPCs
  <2> QED
    BY <1>1, <2>2 DEF EvalBegins, TypeInv, EvState
<1>2. CASE EvalFails
  BY <1>0, <1>2 DEF EvalFails, TypeInv, EvState
<1>3. CASE EvalLeavesEarly
  <2>1. PICK b \in BOOLEAN : Write([ev.state EXCEPT !.pending = b, !.force = ev.force])
    BY <1>0, <1>3 DEF EvalLeavesEarly
  <2> QED
    BY <1>0, <1>3, <2>1, StateUpdates, WriteType DEF EvalLeavesEarly, TypeInv, EvState
<1>4. CASE EvalObserves
  <2>1. PICK o \in Observations(ev.state) :
          ev' = [ev EXCEPT !.pc = "decide", !.actual = o.actual, !.sure = o.sure,
                           !.state.qty = o.actual, !.state.miss = o.miss]
    BY <1>4 DEF EvalObserves
  <2>2. o.actual \in Nat /\ o.miss \in Nat /\ o.sure \in BOOLEAN
    BY <1>0, ObservationType
  <2>3. ev' \in EvState
    BY <1>0, <2>1, <2>2 DEF EvState, State, EvPCs
  <2> QED
    BY <1>4, <2>3 DEF EvalObserves, TypeInv, EvState
<1>5. CASE EvalPauses
  BY <1>0, <1>5, StateUpdates, WriteType DEF EvalPauses, TypeInv, EvState
<1>6. CASE EvalWaits
  BY <1>0, <1>6, StateUpdates, WriteType DEF EvalWaits, TypeInv, EvState
<1>7. CASE EvalSettles
  <2>1. seen' \in [peak : Nat, lost : BOOLEAN, owed : BOOLEAN, excuse : SUBSET Excuses]
    BY <1>0, <1>7 DEF EvalSettles, Discharged, TypeInv
  <2> QED
    BY <1>0, <1>7, <2>1, StateUpdates, WriteType DEF EvalSettles, TypeInv, EvState
<1>8. CASE EvalGoes
  <2>1. PICK q \in 0..ev.lp :
          ev' = [NoEval EXCEPT !.pc = "reread", !.state = ev.state,
                               !.actual = ev.actual, !.goal = q]
    BY <1>8 DEF EvalGoes
  <2>2. ev' \in EvState
    <3>1. q \in Nat /\ "reread" \in EvPCs
      BY <1>0 DEF EvPCs
    <3> QED
      BY <1>0, <2>1, <3>1 DEF EvState
  <2> QED
    BY <1>0, <1>8, <2>2, WriteType DEF EvalGoes, TypeInv, EvState
<1> QED
  BY <1>1, <1>2, <1>3, <1>4, <1>5, <1>6, <1>7, <1>8

\* A move of the short, up or down by k, towards the goal.
LEMMA MovesFacts ==
  ASSUME TypeInv, NEW k \in Nat, Moves(k), ev'.ok \in BOOLEAN
  PROVE  /\ short' \in Nat
         /\ seen' \in [peak : Nat, lost : BOOLEAN, owed : BOOLEAN, excuse : SUBSET Excuses]
         /\ ev.goal > ev.actual => short' = short + k
         /\ ~(ev.goal > ev.actual) => short' <= short
         /\ seen'.peak = seen.peak /\ seen'.owed = seen.owed
         /\ seen'.lost = (seen.lost \/ (ev.pc = "twap" /\ k > 0 /\ ~ev'.ok))
         /\ seen.excuse \subseteq seen'.excuse
         /\ (~protection.active \/ \E e \in {"request", "force"} : end[e].pc = "retire")
               /\ short' > short => seen'.excuse # {}
<1> DEFINE after == IF ev.goal > ev.actual THEN short + k ELSE Max({short - k, 0})
           late == ~protection.active \/ \E e \in {"request", "force"} : end[e].pc = "retire"
<1>1. short \in Nat /\ ev.goal \in Nat /\ ev.actual \in Nat
  BY DEF TypeInv
<1>2. Max({short - k, 0}) \in Nat /\ Max({short - k, 0}) <= short
  <2>1. short - k \in Int /\ 0 \in Int
    BY <1>1
  <2>2. Max({short - k, 0}) \in {short - k, 0} /\ Max({short - k, 0}) >= 0
    BY <2>1, MaxOfTwo
  <2> QED
    BY <1>1, <2>2
<1>3. short' = after
  BY DEF Moves
<1>4. seen' = [seen EXCEPT !.excuse = @ \cup (IF late /\ after > short THEN {"overlap"} ELSE {}),
                           !.lost = @ \/ (ev.pc = "twap" /\ k > 0 /\ ~ev'.ok)]
  BY DEF Moves
<1>5. after \in Nat /\ (ev.goal > ev.actual => after = short + k)
      /\ (~(ev.goal > ev.actual) => after <= short)
  BY <1>1, <1>2
<1> DEFINE lostNow == ev.pc = "twap" /\ k > 0 /\ ~ev'.ok
<1>6. lostNow \in BOOLEAN
  OBVIOUS
<1> HIDE DEF after, late, lostNow
<1>7. seen' \in [peak : Nat, lost : BOOLEAN, owed : BOOLEAN, excuse : SUBSET Excuses]
      /\ seen'.peak = seen.peak /\ seen'.owed = seen.owed
      /\ seen'.excuse = seen.excuse \cup (IF late /\ after > short THEN {"overlap"} ELSE {})
  BY <1>4, <1>6 DEF TypeInv, Excuses, lostNow
<1>8. seen'.lost = (seen.lost \/ lostNow)
  BY <1>4 DEF TypeInv, lostNow
<1> QED
  BY <1>3, <1>5, <1>7, <1>8 DEF late, lostNow

\* What is left to order.
LEMMA DriftFacts ==
  ASSUME TypeInv
  PROVE  Drift \in Nat /\ Left \in Int
  BY DEF TypeInv, Drift, Left

\* An order executes or not, and the evaluation goes on.
LEMMA OrderType ==
  ASSUME TypeInv, EvalExecutes \/ EvalOrders \/ EvalSlices \/ EvalAnswered
  PROVE  TypeInv'
<1>0. ev \in EvState /\ ev.state \in State /\ ev.actual \in Nat /\ ev.done \in Nat
      /\ NoEval \in EvState /\ short \in Nat
  BY Constants DEF TypeInv, EvState
<1>1. CASE EvalExecutes
  <2>1. CASE ev' = NoEval /\ UNCHANGED <<protection, seen>>
    BY <1>0, <1>1, <2>1 DEF EvalExecutes, TypeInv, EvState
  <2>2. CASE /\ Write([ev.state EXCEPT !.force = FALSE]) /\ Discharged
             /\ \E pc \in {"ioc", "twap"} :
                   ev' = [ev EXCEPT !.pc = pc, !.actual = Read, !.state.force = FALSE]
    <3>1. ev' \in EvState
      <4> DEFINE s == [ev.state EXCEPT !.force = FALSE]
      <4>1. PICK pc \in {"ioc", "twap"} : ev' = [ev EXCEPT !.pc = pc, !.actual = short, !.state = s]
        BY <2>2 DEF Read
      <4>2. s \in State /\ pc \in EvPCs
        BY <1>0, StateUpdates DEF EvPCs
      <4> HIDE DEF s
      <4> QED
        BY <1>0, <4>1, <4>2 DEF EvState
    <3>2. seen' \in [peak : Nat, lost : BOOLEAN, owed : BOOLEAN, excuse : SUBSET Excuses]
      BY <1>0, <2>2 DEF Discharged, TypeInv
    <3> QED
      BY <1>0, <1>1, <2>2, <3>1, <3>2, StateUpdates, WriteType DEF EvalExecutes, TypeInv, EvState
  <2> QED
    BY <1>1, <2>1, <2>2 DEF EvalExecutes
<1>2. CASE EvalOrders
  <2>1. PICK k \in 0..Left, ok \in BOOLEAN :
          /\ ev' = [NoEval EXCEPT !.pc = "answered", !.state = ev.state,
                                  !.ok = ok \/ ev.pc = "emergency"]
          /\ Moves(k)
    BY <1>2 DEF EvalOrders
  <2> DEFINE answered == ok \/ ev.pc = "emergency"
  <2>2. answered \in BOOLEAN /\ k \in Nat
    BY DriftFacts
  <2> HIDE DEF answered
  <2>3. ev' = [NoEval EXCEPT !.pc = "answered", !.state = ev.state, !.ok = answered]
    BY <2>1 DEF answered
  <2>4. ev' \in EvState
    BY <1>0, <2>2, <2>3 DEF EvState, EvPCs
  <2>5. ev'.ok \in BOOLEAN
    BY <2>4 DEF EvState
  <2>6. short' \in Nat /\ seen' \in [peak : Nat, lost : BOOLEAN, owed : BOOLEAN, excuse : SUBSET Excuses]
    BY <2>1, <2>2, <2>5, MovesFacts
  <2> QED
    BY <1>2, <2>4, <2>6 DEF EvalOrders, TypeInv, EvState
<1>3. CASE EvalSlices
  <2>1. CASE ev' = [NoEval EXCEPT !.pc = "answered", !.state = ev.state, !.ok = TRUE]
             /\ UNCHANGED <<short, seen>>
    <3>1. ev' \in EvState
      BY <1>0, <2>1 DEF EvState, EvPCs
    <3> QED
      BY <1>3, <2>1, <3>1 DEF EvalSlices, TypeInv, EvState
  <2>2. CASE ev' = [ev EXCEPT !.pc = "emergency"] /\ UNCHANGED <<short, seen>>
    <3>1. ev' \in EvState
      BY <1>0, <2>2 DEF EvState, EvPCs
    <3> QED
      BY <1>3, <2>2, <3>1 DEF EvalSlices, TypeInv, EvState
  <2>3. ASSUME NEW k \in {0, 1}, NEW ok \in BOOLEAN, Moves(k),
               ev' = IF ok THEN [ev EXCEPT !.done = @ + 1, !.ok = TRUE]
                     ELSE [ev EXCEPT !.pc = "emergency", !.ok = FALSE]
        PROVE  TypeInv'
    <3>1. ev' \in EvState
      <4>1. CASE ok
        <5>1. ev.done + 1 \in Nat
          BY <1>0
        <5>2. ev' = [ev EXCEPT !.done = ev.done + 1, !.ok = TRUE]
          BY <2>3, <4>1
        <5> QED
          BY <1>0, <5>1, <5>2 DEF EvState
      <4>2. CASE ~ok
        BY <1>0, <2>3, <4>2 DEF EvState, EvPCs
      <4> QED
        BY <4>1, <4>2
    <3>2. ev'.ok \in BOOLEAN /\ k \in Nat
      BY <3>1 DEF EvState
    <3>3. short' \in Nat /\ seen' \in [peak : Nat, lost : BOOLEAN, owed : BOOLEAN, excuse : SUBSET Excuses]
      BY <2>3, <3>2, MovesFacts
    <3> QED
      BY <1>3, <3>1, <3>3 DEF EvalSlices, TypeInv, EvState
  <2> QED
    BY <1>3, <2>1, <2>2, <2>3 DEF EvalSlices
<1>4. CASE EvalAnswered
  <2>1. PICK read \in {short, 0} : Write([ev.state EXCEPT !.qty = IF ev.ok THEN read ELSE @])
    BY <1>4 DEF EvalAnswered
  <2>2. (IF ev.ok THEN read ELSE ev.state.qty) \in Nat
    BY <1>0 DEF State
  <2>3. protection' \in [active : BOOLEAN, state : State, lp : Nat]
    BY <1>0, <2>1, <2>2, StateUpdates, WriteType
  <2> QED
    BY <1>0, <1>4, <2>3 DEF EvalAnswered, TypeInv, EvState
<1> QED
  BY <1>1, <1>2, <1>3, <1>4

LEMMA SegmentType ==
  ASSUME TypeInv, (\E q \in Sizes : OpenSegment(q)) \/ ResetReads \/ ResetWrites \/ ResetFails
  PROVE  TypeInv'
<1>1. ASSUME NEW q \in Sizes, OpenSegment(q) PROVE TypeInv'
  <2>1. q \in Nat /\ seen.peak \in Nat
    BY ProtectionAssumption DEF TypeInv
  <2>2. Max({seen.peak, q}) \in Nat
    <3>1. q \in Int /\ seen.peak \in Int
      BY <2>1
    <3> QED
      BY <2>1, <3>1, MaxOfTwo
  <2> QED
    BY <1>1, <2>1, <2>2 DEF OpenSegment, TypeInv
<1>2. CASE ResetReads
  BY <1>2 DEF ResetReads, TypeInv
<1>3. CASE ResetWrites
  <2>1. [reset.state EXCEPT !.force = TRUE, !.miss = 0] \in State
    BY StateUpdates DEF TypeInv
  <2> QED
    BY <1>3, <2>1, WriteType, Constants DEF ResetWrites, TypeInv
<1>4. CASE ResetFails
  BY <1>4, Constants DEF ResetFails, TypeInv
<1> QED
  BY <1>1, <1>2, <1>3, <1>4

LEMMA EndOverType ==
  ASSUME TypeInv, NEW k \in Enders, EndOver(k)
  PROVE  /\ ev' \in EvState /\ end' \in [Enders -> EndState]
         /\ ev' = (IF k = "eval" THEN NoEval ELSE ev)
         /\ end' = [end EXCEPT ![k] = NoEnd]
  BY Constants DEF EndOver, TypeInv, EvState, EndState

LEMMA TryAgainType ==
  ASSUME TypeInv, NEW k \in Enders, NEW qty \in Nat, TryAgain(k, qty)
  PROVE  /\ protection' \in [active : BOOLEAN, state : State, lp : Nat]
         /\ protection'.active = protection.active /\ protection'.lp = protection.lp
         /\ EndOver(k)
<1>1. end[k].state \in State
  BY DEF TypeInv
<1> QED
  BY <1>1, StateUpdates, WriteType DEF TryAgain, TypeInv

LEMMA ClosesType ==
  ASSUME TypeInv, NEW k \in Enders, NEW s \in State, NEW q \in Nat, Closes(k, s, q)
  PROVE  /\ end' \in [Enders -> EndState]
         /\ end'[k].pc \in {"retire", "close"} /\ (end'[k].pc = "retire" => q = 0)
         /\ \A e \in Enders : e # k => end'[e] = end[e]
         /\ seen' \in [peak : Nat, lost : BOOLEAN, owed : BOOLEAN, excuse : SUBSET Excuses]
         /\ seen'.peak = seen.peak /\ seen'.owed = seen.owed /\ seen'.lost = seen.lost
         /\ seen.excuse \subseteq seen'.excuse
         /\ q = 0 /\ short > 0 => seen'.excuse # {}
<1> DEFINE new == [pc |-> IF q = 0 THEN "retire" ELSE "close", state |-> s, actual |-> q]
           why == IF q > 0 \/ short = 0 THEN {}
                  ELSE IF k = "eval" \/ ev.pc = "idle" THEN {"unread"} ELSE {"overlap"}
<1>1. new \in EndState /\ new.pc \in {"retire", "close"} /\ (new.pc = "retire" => q = 0)
  BY DEF EndState, EndPCs
<1>2. why \subseteq Excuses /\ (q = 0 /\ short > 0 => why # {})
  BY DEF Excuses, TypeInv
<1>3. end' = [end EXCEPT ![k] = new] /\ seen' = [seen EXCEPT !.excuse = @ \cup why]
  BY DEF Closes
<1> HIDE DEF new, why
<1>4. end' \in [Enders -> EndState] /\ end'[k] = new /\ \A e \in Enders : e # k => end'[e] = end[e]
  BY <1>1, <1>3 DEF TypeInv, EndState
<1>5. seen' \in [peak : Nat, lost : BOOLEAN, owed : BOOLEAN, excuse : SUBSET Excuses]
      /\ seen'.peak = seen.peak /\ seen'.owed = seen.owed /\ seen'.lost = seen.lost
      /\ seen'.excuse = seen.excuse \cup why
  BY <1>2, <1>3 DEF TypeInv
<1> QED
  BY <1>1, <1>2, <1>4, <1>5

LEMMA EndType ==
  ASSUME TypeInv,
         \/ EvalCloses \/ Request \/ RequestMarks \/ RequestObserves \/ ForceClose
         \/ \E k \in Enders : EndCloses(k) \/ EndBooks(k) \/ EndVerifies(k) \/ EndRetires(k)
         \/ Crash
  PROVE  TypeInv'
<1>0. /\ ev \in EvState /\ ev.state \in State /\ ev.actual \in Nat /\ NoEval \in EvState
      /\ end \in [Enders -> EndState] /\ NoEnd \in EndState /\ short \in Nat
      /\ protection.state \in State
      /\ "eval" \in Enders /\ "request" \in Enders /\ "force" \in Enders
  BY Constants DEF TypeInv, EvState, EndState, Enders
<1>a. Asked => bound' \in [segments : Nat, ends : Nat]
  BY DEF Asked, TypeInv
<1>1. CASE EvalCloses
  <2>1. ev' = [NoEval EXCEPT !.pc = "closing"] /\ Closes("eval", ev.state, ev.actual)
        /\ UNCHANGED <<protection, short, reset, bound>>
    BY <1>1 DEF EvalCloses
  <2>2. ev' \in EvState
    BY <1>0, <2>1 DEF EvState, EvPCs
  <2>3. end' \in [Enders -> EndState]
        /\ seen' \in [peak : Nat, lost : BOOLEAN, owed : BOOLEAN, excuse : SUBSET Excuses]
    BY <1>0, <2>1, ClosesType
  <2> QED
    BY <2>1, <2>2, <2>3 DEF TypeInv, EvState, EndState
<1>2. CASE Request
  <2>1. [pc |-> "mark", state |-> protection.state, actual |-> 0] \in EndState
    BY <1>0 DEF EndState, EndPCs
  <2>2. end' \in [Enders -> EndState]
    BY <1>0, <1>2, <2>1 DEF Request
  <2> QED
    BY <1>a, <1>2, <2>2 DEF Request, TypeInv, EndState
<1>3. CASE RequestMarks
  <2>1. end["request"].state \in State
    BY <1>0 DEF EndState
  <2>2. protection' \in [active : BOOLEAN, state : State, lp : Nat]
    BY <1>3, <2>1, StateUpdates, WriteType DEF RequestMarks
  <2> DEFINE cancels == ev.pc = "twap"
             s == [end["request"].state EXCEPT !.pending = FALSE]
  <2>3. cancels \in BOOLEAN /\ s \in State /\ "observe" \in EndPCs
    BY <2>1, StateUpdates DEF EndPCs
  <2>4. ev' = [ev EXCEPT !.cancel = cancels]
        /\ end' = [end EXCEPT !["request"] = [@ EXCEPT !.pc = "observe", !.state = s]]
    BY <1>3 DEF RequestMarks
  <2> HIDE DEF cancels, s
  <2>5. ev' \in EvState
    BY <1>0, <2>3, <2>4 DEF EvState
  <2>6. [end["request"] EXCEPT !.pc = "observe", !.state = s] \in EndState
    BY <1>0, <2>3 DEF EndState
  <2>7. end' \in [Enders -> EndState]
    BY <1>0, <2>4, <2>6
  <2> QED
    BY <1>3, <2>2, <2>5, <2>7 DEF RequestMarks, TypeInv, EvState, EndState
<1>4. CASE RequestObserves
  <2>1. end["request"].state \in State
    BY <1>0 DEF EndState
  <2>2. PICK o \in Observations(end["request"].state) :
          \/ TryAgain("request", end["request"].state.qty) /\ UNCHANGED seen
          \/ Closes("request", end["request"].state, o.actual) /\ UNCHANGED <<protection, ev>>
    BY <1>4 DEF RequestObserves
  <2>3. end["request"].state.qty \in Nat /\ o.actual \in Nat
    BY <2>1, ObservationType DEF State
  <2>4. CASE TryAgain("request", end["request"].state.qty) /\ UNCHANGED seen
    BY <1>0, <1>4, <2>3, <2>4, TryAgainType, EndOverType DEF RequestObserves, TypeInv, EvState, EndState
  <2>5. CASE Closes("request", end["request"].state, o.actual) /\ UNCHANGED <<protection, ev>>
    BY <1>0, <1>4, <2>1, <2>3, <2>5, ClosesType DEF RequestObserves, TypeInv, EndState
  <2> QED
    BY <2>2, <2>4, <2>5
<1>5. CASE ForceClose
  BY <1>0, <1>a, <1>5, ClosesType DEF ForceClose, TypeInv, EndState
<1>6. ASSUME NEW k \in Enders, EndCloses(k) PROVE TypeInv'
  <2>1. end[k] \in EndState /\ end[k].actual \in Nat /\ end[k].state \in State
        /\ end[k].state.qty \in Nat
    BY <1>0 DEF EndState, State
  <2>2. PICK q \in 0..Min({end[k].actual, short}), ok \in BOOLEAN :
          /\ short' = short - q
          /\ IF ok THEN end' = [end EXCEPT ![k].pc = "book"] /\ UNCHANGED <<protection, ev>>
             ELSE TryAgain(k, end[k].state.qty)
    BY <1>6 DEF EndCloses
  <2>3. short' \in Nat
    <3>1. Min({end[k].actual, short}) \in Nat /\ Min({end[k].actual, short}) <= short
      BY <1>0, <2>1, MinOfTwo
    <3> QED
      BY <1>0, <2>2, <3>1
  <2>4. CASE end' = [end EXCEPT ![k].pc = "book"] /\ UNCHANGED <<protection, ev>>
    <3>1. end' \in [Enders -> EndState]
      BY <1>0, <2>1, <2>4 DEF EndState, EndPCs
    <3> QED
      BY <1>6, <2>3, <2>4, <3>1 DEF EndCloses, TypeInv, EndState
  <2>5. CASE TryAgain(k, end[k].state.qty)
    BY <1>6, <2>1, <2>3, <2>5, TryAgainType, EndOverType DEF EndCloses, TypeInv, EvState, EndState
  <2> QED
    BY <2>2, <2>4, <2>5
<1>7. ASSUME NEW k \in Enders, EndBooks(k) PROVE TypeInv'
  <2>1. end[k] \in EndState /\ end[k].state \in State
    BY <1>0 DEF EndState
  <2>2. end' \in [Enders -> EndState]
    BY <1>0, <1>7, <2>1 DEF EndBooks, EndState, EndPCs
  <2>3. protection' \in [active : BOOLEAN, state : State, lp : Nat]
    <3>1. CASE UNCHANGED protection
      BY <3>1 DEF TypeInv
    <3>2. CASE Write([end[k].state EXCEPT !.qty = 0])
      BY <2>1, <3>2, StateUpdates, WriteType
    <3> QED
      BY <1>7, <3>1, <3>2 DEF EndBooks
  <2> QED
    BY <1>7, <2>2, <2>3 DEF EndBooks, TypeInv, EndState
<1>8. ASSUME NEW k \in Enders, EndVerifies(k) PROVE TypeInv'
  <2>1. end[k] \in EndState /\ end[k].actual \in Nat
    BY <1>0 DEF EndState
  <2>2. CASE end' = [end EXCEPT ![k].pc = "retire"] /\ UNCHANGED <<protection, ev>>
    <3>1. end' \in [Enders -> EndState]
      BY <1>0, <2>1, <2>2 DEF EndState, EndPCs
    <3> QED
      BY <1>8, <2>2, <3>1 DEF EndVerifies, TypeInv, EndState
  <2>3. ASSUME NEW read \in BOOLEAN, TryAgain(k, IF read THEN short ELSE end[k].actual)
        PROVE  TypeInv'
    <3>1. (IF read THEN short ELSE end[k].actual) \in Nat
      BY <1>0, <2>1
    <3> QED
      BY <1>8, <2>3, <3>1, TryAgainType, EndOverType DEF EndVerifies, TypeInv, EvState, EndState
  <2> QED
    BY <1>8, <2>2, <2>3 DEF EndVerifies
<1>9. ASSUME NEW k \in Enders, EndRetires(k) PROVE TypeInv'
  <2> DEFINE flat == [end[k].state EXCEPT !.pending = FALSE, !.qty = 0]
  <2>1. end[k] \in EndState /\ end[k].state \in State /\ end[k].state.qty \in Nat
    BY <1>0 DEF EndState, State
  <2>2. flat \in State
    BY <2>1, StateUpdates
  <2>3. CASE /\ protection' \in {protection, [protection EXCEPT !.active = FALSE, !.state = flat]}
             /\ EndOver(k)
    <3> HIDE DEF flat
    <3>1. protection' \in [active : BOOLEAN, state : State, lp : Nat]
      BY <2>2, <2>3 DEF TypeInv
    <3> QED
      BY <1>9, <2>3, <3>1, EndOverType DEF EndRetires, TypeInv, EvState, EndState
  <2>4. CASE protection' = [protection EXCEPT !.active = FALSE] /\ EndOver(k)
    <3>1. protection' \in [active : BOOLEAN, state : State, lp : Nat]
      BY <2>4 DEF TypeInv
    <3> QED
      BY <1>9, <2>4, <3>1, EndOverType DEF EndRetires, TypeInv, EvState, EndState
  <2>5. CASE TryAgain(k, end[k].state.qty)
    BY <1>9, <2>1, <2>5, TryAgainType, EndOverType DEF EndRetires, TypeInv, EvState, EndState
  <2>6. ASSUME NEW s \in {protection.state, flat}, NEW active \in {protection.active, FALSE},
               protection' = [protection EXCEPT !.active = active, !.state = s], EndOver(k)
        PROVE  TypeInv'
    <3>1. s \in State /\ active \in BOOLEAN
      BY <1>0, <2>2 DEF TypeInv
    <3>2. protection' \in [active : BOOLEAN, state : State, lp : Nat]
      BY <2>6, <3>1 DEF TypeInv
    <3> QED
      BY <1>9, <2>6, <3>2, EndOverType DEF EndRetires, TypeInv, EvState, EndState
  <2> QED
    BY <1>9, <2>3, <2>4, <2>5, <2>6 DEF EndRetires
<1>10. CASE Crash
  BY <1>0, <1>10, Constants DEF Crash, TypeInv, EvState, EndState
<1> QED
  BY <1>1, <1>2, <1>3, <1>4, <1>5, <1>6, <1>7, <1>8, <1>9, <1>10

LEMMA TypeStep == TypeInv /\ [ProtectionNext]_protectionVars => TypeInv'
<1> SUFFICES ASSUME TypeInv, [ProtectionNext]_protectionVars PROVE TypeInv'
  OBVIOUS
<1>1. CASE UNCHANGED protectionVars
  BY <1>1 DEF protectionVars, TypeInv
<1>2. CASE ProtectionNext
  BY <1>2, EvalType, OrderType, SegmentType, EndType DEF ProtectionNext
<1> QED
  BY <1>1, <1>2

-----------------------------------------------------------------------------
(* The short is bounded.                                                    *)

\* Nothing is ordered: the bound stands as long as the position does not grow.
LEMMA BoundStands ==
  ASSUME BoundInv, TypeInv', protection'.lp = protection.lp, seen'.peak = seen.peak,
         seen'.lost = seen.lost, short' <= short,
         \/ /\ ev'.pc = ev.pc /\ ev'.goal = ev.goal /\ ev'.actual = ev.actual
            /\ ev'.done = ev.done /\ ev'.lp = ev.lp
         \/ ev'.pc \in {"idle", "closing", "answered"}
  PROVE  BoundInv'
<1>1. short \in Nat /\ short' \in Nat
  BY DEF BoundInv, TypeInv
<1>2. AimInv'
  BY DEF BoundInv, AimInv
<1>3. OrderInv'
  BY <1>1 DEF BoundInv, TypeInv, OrderInv, Drift, Slack
<1>4. ShortBounded'
  BY <1>1 DEF BoundInv, TypeInv, ShortBounded
<1> QED
  BY <1>2, <1>3, <1>4 DEF BoundInv

LEMMA EvalBound ==
  ASSUME BoundInv, TypeInv', UNCHANGED short,
         \/ \E forced \in BOOLEAN : EvalBegins(forced)
         \/ EvalObserves \/ EvalGoes \/ EvalExecutes
  PROVE  BoundInv'
<1>0. /\ TypeInv /\ protection.lp <= seen.peak /\ protection.lp \in Nat /\ seen.peak \in Nat
      /\ ev.lp \in Nat /\ ev.goal \in Nat /\ ev.actual \in Nat /\ short \in Nat
  BY DEF BoundInv, AimInv, TypeInv
<1>1. ASSUME NEW forced \in BOOLEAN, EvalBegins(forced) PROVE BoundInv'
  <2>1. ev'.pc = "observe" /\ ev'.lp = protection.lp /\ UNCHANGED <<protection, short, seen>>
    BY <1>1 DEF EvalBegins, NoEval
  <2> QED
    BY <1>0, <2>1 DEF BoundInv, AimInv, OrderInv, ShortBounded
<1>2. CASE EvalObserves
  <2>1. ev'.pc = "decide" /\ ev'.lp = ev.lp /\ ev.pc = "observe" /\ UNCHANGED <<protection, short, seen>>
    BY <1>2 DEF EvalObserves, BoundInv, TypeInv
  <2> QED
    BY <1>0, <2>1 DEF BoundInv, AimInv, OrderInv, ShortBounded
<1>3. CASE EvalGoes
  <2>1. PICK q \in 0..ev.lp :
          ev' = [NoEval EXCEPT !.pc = "reread", !.state = ev.state,
                               !.actual = ev.actual, !.goal = q]
    BY <1>3 DEF EvalGoes
  <2>2. ev'.pc = "reread" /\ ev'.goal = q /\ ev'.done = 0
    BY <2>1 DEF NoEval
  <2>3. ev.lp <= seen.peak /\ q <= ev.lp /\ q \in Nat
    <3>1. ev.pc = "decide"
      BY <1>3 DEF EvalGoes
    <3>2. ev.lp <= seen.peak
      BY <3>1 DEF BoundInv, AimInv
    <3> QED
      BY <1>0, <3>2
  <2>4. protection'.lp = protection.lp /\ UNCHANGED <<short, seen>>
    BY <1>3, WriteType DEF EvalGoes, Write, BoundInv, TypeInv
  <2> QED
    BY <1>0, <2>2, <2>3, <2>4 DEF BoundInv, AimInv, OrderInv, ShortBounded
<1>4. CASE EvalExecutes
  <2>1. CASE ev' = NoEval /\ UNCHANGED <<protection, seen>>
    BY <1>0, <2>1, BoundStands DEF NoEval
  <2>2. CASE /\ Write([ev.state EXCEPT !.force = FALSE]) /\ Discharged
             /\ \E pc \in {"ioc", "twap"} :
                   ev' = [ev EXCEPT !.pc = pc, !.actual = Read, !.state.force = FALSE]
    <3>1. /\ ev'.pc \in {"ioc", "twap"} /\ ev'.actual = short /\ ev'.goal = ev.goal
          /\ ev'.done = ev.done
      BY <2>2 DEF Read, BoundInv, TypeInv
    <3>2. protection'.lp = protection.lp /\ seen'.peak = seen.peak /\ seen'.lost = seen.lost
      BY <2>2 DEF Write, Discharged, BoundInv, TypeInv
    <3>3. ev.goal <= seen.peak /\ ev.done = 0
      BY <1>4 DEF EvalExecutes, BoundInv, AimInv
    <3>4. AimInv'
      BY <1>0, <3>1, <3>2, <3>3 DEF BoundInv, AimInv
    <3>5. OrderInv' /\ ShortBounded'
      BY <1>0, <3>1, <3>2, <3>3 DEF BoundInv, OrderInv, Drift, Slack, ShortBounded
    <3> QED
      BY <3>4, <3>5 DEF BoundInv
  <2> QED
    BY <1>4, <2>1, <2>2 DEF EvalExecutes
<1> QED
  BY <1>1, <1>2, <1>3, <1>4

\* What is ordered is at most what is left, and the slice whose answer was lost
\* is the only one ordered again.
LEMMA OrdersBound ==
  ASSUME BoundInv, TypeInv', EvalOrders
  PROVE  BoundInv'
<1>1. PICK k \in 0..Left, ok \in BOOLEAN :
        /\ ev' = [NoEval EXCEPT !.pc = "answered", !.state = ev.state,
                                !.ok = ok \/ ev.pc = "emergency"]
        /\ Moves(k)
  BY DEF EvalOrders
<1>2. TypeInv /\ k \in Nat /\ ev'.ok \in BOOLEAN /\ ev'.pc = "answered"
  BY <1>1, DriftFacts DEF BoundInv, TypeInv, NoEval
<1>3. /\ ev.goal > ev.actual => short' = short + k
      /\ ~(ev.goal > ev.actual) => short' <= short
      /\ seen'.peak = seen.peak /\ (seen.lost => seen'.lost)
  BY <1>1, <1>2, MovesFacts
<1>4. /\ short \in Nat /\ short' \in Nat /\ ev.goal \in Nat /\ ev.actual \in Nat /\ ev.done \in Nat
      /\ seen.peak \in Nat /\ ev.goal <= seen.peak /\ protection'.lp = protection.lp
      /\ ev.goal > ev.actual => short <= ev.actual + ev.done + Slack
      /\ k <= Left
  BY <1>1, <1>2, DriftFacts DEF BoundInv, TypeInv, AimInv, OrderInv, EvalOrders, Slack
<1>5. ShortBounded'
  <2>1. CASE ev.goal > ev.actual
    <3>1. Left = ev.goal - ev.actual - ev.done
      BY <1>4, <2>1 DEF Left, Drift
    <3>2. short' <= seen.peak + Slack
      BY <1>3, <1>4, <2>1, <3>1 DEF Slack
    <3> QED
      BY <1>3, <1>4, <3>2 DEF ShortBounded, Slack
  <2>2. CASE ~(ev.goal > ev.actual)
    BY <1>3, <1>4, <2>2 DEF BoundInv, ShortBounded
  <2> QED
    BY <2>1, <2>2
<1> QED
  BY <1>2, <1>3, <1>4, <1>5 DEF BoundInv, AimInv, OrderInv

LEMMA SlicesBound ==
  ASSUME BoundInv, TypeInv', EvalSlices
  PROVE  BoundInv'
<1>0. /\ TypeInv /\ short \in Nat /\ ev.goal \in Nat /\ ev.actual \in Nat /\ ev.done \in Nat
      /\ seen.peak \in Nat /\ ev.goal <= seen.peak /\ protection' = protection /\ ev.pc = "twap"
      /\ ev.done <= Drift /\ (ev.goal > ev.actual => short <= ev.actual + ev.done)
  BY DEF BoundInv, TypeInv, AimInv, OrderInv, EvalSlices
<1>1. CASE ev' = [NoEval EXCEPT !.pc = "answered", !.state = ev.state, !.ok = TRUE]
           /\ UNCHANGED <<short, seen>>
  BY <1>0, <1>1, BoundStands DEF NoEval
<1>2. CASE ev' = [ev EXCEPT !.pc = "emergency"] /\ UNCHANGED <<short, seen>>
  <2>1. ev'.pc = "emergency" /\ ev'.goal = ev.goal /\ ev'.actual = ev.actual /\ ev'.done = ev.done
    BY <1>0, <1>2 DEF TypeInv
  <2>2. AimInv' /\ ShortBounded'
    BY <1>0, <1>2, <2>1 DEF BoundInv, AimInv, ShortBounded
  <2>3. OrderInv'
    BY <1>0, <1>2, <2>1 DEF OrderInv, Drift, Slack
  <2> QED
    BY <2>2, <2>3 DEF BoundInv
<1>3. ASSUME NEW k \in {0, 1}, NEW ok \in BOOLEAN, k = 0 => ~ok, Moves(k), Left > 0,
             ev' = IF ok THEN [ev EXCEPT !.done = @ + 1, !.ok = TRUE]
                   ELSE [ev EXCEPT !.pc = "emergency", !.ok = FALSE]
      PROVE  BoundInv'
  <2>1. /\ ev'.goal = ev.goal /\ ev'.actual = ev.actual
        /\ ok => ev'.pc = "twap" /\ ev'.done = ev.done + 1
        /\ ~ok => ev'.pc = "emergency" /\ ev'.done = ev.done /\ ~ev'.ok
    <3>1. CASE ok
      BY <1>0, <1>3, <3>1 DEF TypeInv
    <3>2. CASE ~ok
      BY <1>0, <1>3, <3>2 DEF TypeInv
    <3> QED
      BY <3>1, <3>2
  <2>2. /\ ev.goal > ev.actual => short' = short + k
        /\ ~(ev.goal > ev.actual) => short' <= short
        /\ seen'.peak = seen.peak /\ (seen.lost => seen'.lost)
        /\ k > 0 /\ ~ok => seen'.lost
    <3>1. k \in Nat /\ ev'.ok \in BOOLEAN
      BY DEF TypeInv
    <3> QED
      BY <1>0, <1>3, <2>1, <3>1, MovesFacts
  <2>3. ev'.done <= Drift /\ short' \in Nat /\ Drift \in Nat
    BY <1>0, <1>3, <2>1, DriftFacts DEF Left, TypeInv
  <2>4. Drift' = Drift
    BY <2>1 DEF Drift
  <2>5. AimInv'
    BY <1>0, <2>1, <2>2 DEF BoundInv, AimInv
  <2>6. ev.goal > ev.actual =>
           short' <= ev.actual + ev'.done + (IF ev'.pc = "emergency" THEN Slack' ELSE 0)
    <3> SUFFICES ASSUME ev.goal > ev.actual
                 PROVE  short' <= ev.actual + ev'.done + (IF ev'.pc = "emergency" THEN Slack' ELSE 0)
      OBVIOUS
    <3>1. CASE ok
      BY <1>0, <1>3, <2>1, <2>2, <3>1
    <3>2. CASE ~ok /\ k = 0
      BY <1>0, <2>1, <2>2, <3>2 DEF Slack
    <3>3. CASE ~ok /\ k = 1
      BY <1>0, <2>1, <2>2, <3>3 DEF Slack
    <3> QED
      BY <3>1, <3>2, <3>3
  <2>7. OrderInv'
    BY <2>1, <2>3, <2>4, <2>6 DEF OrderInv
  <2>8. ShortBounded'
    <3>1. CASE ev.goal > ev.actual
      <4>1. Drift = ev.goal - ev.actual /\ ev'.done \in Nat
        BY <1>0, <2>1, <3>1 DEF Drift
      <4> QED
        BY <1>0, <2>2, <2>3, <2>6, <3>1, <4>1 DEF ShortBounded, Slack
    <3>2. CASE ~(ev.goal > ev.actual)
      BY <1>0, <2>2, <2>3, <3>2 DEF BoundInv, ShortBounded
    <3> QED
      BY <3>1, <3>2
  <2> QED
    BY <2>5, <2>7, <2>8 DEF BoundInv
<1> QED
  BY <1>1, <1>2, <1>3 DEF EvalSlices

\* The endings only ever make the short smaller.
LEMMA EndBound ==
  ASSUME BoundInv, TypeInv',
         \/ EvalCloses \/ Request \/ RequestMarks \/ RequestObserves \/ ForceClose
         \/ \E k \in Enders : EndCloses(k) \/ EndBooks(k) \/ EndVerifies(k) \/ EndRetires(k)
  PROVE  /\ protection'.lp = protection.lp /\ seen'.peak = seen.peak
         /\ seen'.lost = seen.lost /\ short' <= short
         /\ \/ /\ ev'.pc = ev.pc /\ ev'.goal = ev.goal /\ ev'.actual = ev.actual
               /\ ev'.done = ev.done /\ ev'.lp = ev.lp
            \/ ev'.pc \in {"idle", "closing", "answered"}
<1>0. /\ TypeInv /\ short \in Nat /\ end \in [Enders -> EndState] /\ NoEval.pc = "idle"
      /\ "eval" \in Enders /\ "request" \in Enders /\ "force" \in Enders
  BY DEF BoundInv, TypeInv, EndState, NoEval, Enders
<1>1. ASSUME NEW k \in Enders, NEW q \in Nat, TryAgain(k, q)
      PROVE  protection'.lp = protection.lp /\ (ev' = ev \/ ev'.pc = "idle")
  BY <1>0, <1>1, TryAgainType, EndOverType
<1>2. ASSUME NEW k \in Enders, EndOver(k) PROVE ev' = ev \/ ev'.pc = "idle"
  BY <1>0, <1>2, EndOverType
<1>3. ASSUME NEW k \in Enders, NEW s \in State, NEW q \in Nat, Closes(k, s, q)
      PROVE  seen'.peak = seen.peak /\ seen'.lost = seen.lost
  BY <1>0, <1>3, ClosesType
<1>4. \A k \in Enders : end[k].state \in State /\ end[k].actual \in Nat /\ end[k].state.qty \in Nat
  BY <1>0 DEF EndState, State
<1>5. CASE EvalCloses
  BY <1>0, <1>3, <1>5 DEF EvalCloses, NoEval, TypeInv
<1>6. CASE Request
  BY <1>0, <1>6 DEF Request
<1>7. CASE RequestMarks
  BY <1>0, <1>7 DEF RequestMarks, Write, TypeInv
<1>8. CASE RequestObserves
  <2>1. PICK o \in Observations(end["request"].state) :
          \/ TryAgain("request", end["request"].state.qty) /\ UNCHANGED seen
          \/ Closes("request", end["request"].state, o.actual) /\ UNCHANGED <<protection, ev>>
    BY <1>8 DEF RequestObserves
  <2>2. o.actual \in Nat
    BY <1>0, <1>4, ObservationType
  <2>3. CASE TryAgain("request", end["request"].state.qty) /\ UNCHANGED seen
    BY <1>0, <1>1, <1>4, <1>8, <2>3 DEF RequestObserves
  <2>4. CASE Closes("request", end["request"].state, o.actual) /\ UNCHANGED <<protection, ev>>
    BY <1>0, <1>3, <1>4, <1>8, <2>2, <2>4 DEF RequestObserves
  <2> QED
    BY <2>1, <2>3, <2>4
<1>9. CASE ForceClose
  BY <1>0, <1>3, <1>9 DEF ForceClose, TypeInv
<1>10. ASSUME NEW k \in Enders, EndCloses(k)
       PROVE  protection'.lp = protection.lp /\ seen' = seen /\ short' <= short
              /\ (ev' = ev \/ ev'.pc = "idle")
  <2>1. PICK q \in 0..Min({end[k].actual, short}), ok \in BOOLEAN :
          /\ short' = short - q
          /\ IF ok THEN end' = [end EXCEPT ![k].pc = "book"] /\ UNCHANGED <<protection, ev>>
             ELSE TryAgain(k, end[k].state.qty)
    BY <1>10 DEF EndCloses
  <2>2. Min({end[k].actual, short}) \in Nat
    BY <1>0, <1>4, MinOfTwo
  <2> QED
    BY <1>0, <1>1, <1>4, <1>10, <2>1, <2>2 DEF EndCloses
<1>11. ASSUME NEW k \in Enders, EndBooks(k)
       PROVE  protection'.lp = protection.lp /\ seen' = seen /\ short' <= short /\ ev' = ev
  BY <1>0, <1>11 DEF EndBooks, Write, TypeInv
<1>12. ASSUME NEW k \in Enders, EndVerifies(k)
       PROVE  protection'.lp = protection.lp /\ seen' = seen /\ short' <= short
              /\ (ev' = ev \/ ev'.pc = "idle")
  <2>1. PICK read \in BOOLEAN :
          IF FoundClosed(read)
          THEN end' = [end EXCEPT ![k].pc = "retire"] /\ UNCHANGED <<protection, ev>>
          ELSE TryAgain(k, IF read THEN short ELSE end[k].actual)
    BY <1>12 DEF EndVerifies
  <2>2. (IF read THEN short ELSE end[k].actual) \in Nat
    BY <1>0, <1>4
  <2> QED
    BY <1>0, <1>1, <1>12, <2>1, <2>2 DEF EndVerifies
<1>13. ASSUME NEW k \in Enders, EndRetires(k)
       PROVE  protection'.lp = protection.lp /\ seen' = seen /\ short' <= short
              /\ (ev' = ev \/ ev'.pc = "idle")
  <2>1. short' = short /\ seen' = seen
    BY <1>13 DEF EndRetires
  <2>2. CASE TryAgain(k, end[k].state.qty)
    BY <1>0, <1>1, <1>4, <2>1, <2>2
  <2>3. CASE EndOver(k) /\ protection' = protection
    BY <1>0, <1>2, <2>1, <2>3
  <2>4. CASE EndOver(k) /\ protection' = [protection EXCEPT !.active = FALSE]
    BY <1>0, <1>2, <2>1, <2>4 DEF TypeInv
  <2> DEFINE flat == [end[k].state EXCEPT !.pending = FALSE, !.qty = 0]
  <2>5. CASE EndOver(k) /\ \E s \in {protection.state, flat}, active \in {protection.active, FALSE} :
                             protection' = [protection EXCEPT !.active = active, !.state = s]
    <3>1. PICK s \in {protection.state, flat}, active \in {protection.active, FALSE} :
            protection' = [protection EXCEPT !.active = active, !.state = s]
      BY <2>5
    <3> HIDE DEF flat
    <3> QED
      BY <1>0, <1>2, <2>1, <2>5, <3>1 DEF TypeInv
  <2>6. CASE /\ protection' \in {protection, [protection EXCEPT !.active = FALSE, !.state = flat]}
             /\ EndOver(k)
    <3> HIDE DEF flat
    <3>1. ev' = ev \/ ev'.pc = "idle"
      BY <1>2, <2>6
    <3>2. protection'.lp = protection.lp
      BY <1>0, <2>6 DEF TypeInv
    <3> QED
      BY <1>0, <2>1, <3>1, <3>2
  <2> QED
    BY <1>13, <2>2, <2>3, <2>4, <2>5, <2>6 DEF EndRetires
<1> QED
  BY <1>5, <1>6, <1>7, <1>8, <1>9, <1>10, <1>11, <1>12, <1>13

LEMMA BoundStep == BoundInv /\ [ProtectionNext]_protectionVars => BoundInv'
<1> SUFFICES ASSUME BoundInv, [ProtectionNext]_protectionVars PROVE BoundInv'
  OBVIOUS
<1>0. TypeInv /\ TypeInv' /\ short \in Nat /\ NoEval.pc = "idle"
  BY TypeStep DEF BoundInv, TypeInv, NoEval
<1>1. CASE UNCHANGED protectionVars
  BY <1>0, <1>1, BoundStands DEF protectionVars
<1>2. CASE (\E forced \in BOOLEAN : EvalBegins(forced)) \/ EvalObserves \/ EvalGoes \/ EvalExecutes
  BY <1>0, <1>2, EvalBound DEF EvalBegins, EvalObserves, EvalGoes, EvalExecutes
<1>3. CASE EvalFails
  BY <1>0, <1>3, BoundStands DEF EvalFails
<1>4. CASE EvalLeavesEarly \/ EvalPauses \/ EvalWaits \/ EvalAnswered
  <2>1. protection'.lp = protection.lp /\ ev' = NoEval /\ UNCHANGED <<short, seen>>
    BY <1>0, <1>4 DEF EvalLeavesEarly, EvalPauses, EvalWaits, EvalAnswered, Write, TypeInv
  <2> QED
    BY <1>0, <2>1, BoundStands
<1>5. CASE EvalSettles
  <2>1. protection'.lp = protection.lp /\ ev' = NoEval /\ short' = short
        /\ seen'.peak = seen.peak /\ seen'.lost = seen.lost
    BY <1>0, <1>5 DEF EvalSettles, Write, Discharged, TypeInv
  <2> QED
    BY <1>0, <2>1, BoundStands
<1>6. CASE EvalOrders \/ EvalSlices
  BY <1>0, <1>6, OrdersBound, SlicesBound
<1>7. ASSUME NEW q \in Sizes, OpenSegment(q) PROVE BoundInv'
  <2>1. /\ protection'.lp = q /\ UNCHANGED <<short, ev>> /\ seen'.lost = seen.lost
        /\ seen'.peak = Max({seen.peak, q})
    BY <1>0, <1>7 DEF OpenSegment, TypeInv
  <2>2. q \in Nat /\ seen.peak \in Nat /\ protection.lp \in Nat /\ ev.lp \in Nat /\ ev.goal \in Nat
    BY <1>0, ProtectionAssumption DEF TypeInv
  <2>3. seen'.peak \in Nat /\ seen'.peak >= seen.peak /\ seen'.peak >= q
    <3>1. q \in Int /\ seen.peak \in Int
      BY <2>2
    <3> QED
      BY <2>1, <2>2, <3>1, MaxOfTwo
  <2>4. AimInv'
    BY <1>0, <2>1, <2>2, <2>3 DEF BoundInv, AimInv
  <2>5. OrderInv' /\ ShortBounded'
    BY <1>0, <2>1, <2>2, <2>3 DEF BoundInv, OrderInv, Drift, Slack, ShortBounded
  <2> QED
    BY <1>0, <2>4, <2>5 DEF BoundInv
<1>8. CASE ResetReads \/ ResetWrites \/ ResetFails
  <2>1. protection'.lp = protection.lp /\ UNCHANGED <<short, ev>>
        /\ seen'.peak = seen.peak /\ seen'.lost = seen.lost
    BY <1>0, <1>8 DEF ResetReads, ResetWrites, ResetFails, Write, TypeInv
  <2> QED
    BY <1>0, <2>1, BoundStands
<1>9. CASE \/ EvalCloses \/ Request \/ RequestMarks \/ RequestObserves \/ ForceClose
           \/ \E k \in Enders : EndCloses(k) \/ EndBooks(k) \/ EndVerifies(k) \/ EndRetires(k)
  BY <1>0, <1>9, EndBound, BoundStands
<1>10. CASE Crash
  BY <1>0, <1>10, BoundStands DEF Crash
<1> QED
  BY <1>1, <1>2, <1>3, <1>4, <1>5, <1>6, <1>7, <1>8, <1>9, <1>10 DEF ProtectionNext

\* The short never exceeds what the largest LP so far needed by more than the
\* one slice whose answer was lost, for any sizes, segments and endings.
THEOREM ShortBoundedTheorem == ProtectionSpec => []ShortBounded
<1>1. ProtectionInit => BoundInv
  <2> SUFFICES ASSUME ProtectionInit PROVE BoundInv
    OBVIOUS
  <2>1. TypeInv
    BY TypeInit
  <2>2. PICK q \in Sizes : /\ protection = [active |-> TRUE, state |-> NewState, lp |-> q]
                           /\ seen = [peak |-> q, lost |-> FALSE, owed |-> FALSE, excuse |-> {}]
    BY DEF ProtectionInit
  <2>3. q \in Nat /\ ev.pc = "idle" /\ short = 0
    BY ProtectionAssumption DEF ProtectionInit, NoEval
  <2> QED
    BY <2>1, <2>2, <2>3 DEF BoundInv, AimInv, OrderInv, ShortBounded
<1>2. BoundInv /\ [ProtectionNext]_protectionVars => BoundInv'
  BY BoundStep
<1>3. BoundInv => ShortBounded
  BY DEF BoundInv
<1> QED
  BY <1>1, <1>2, <1>3, PTL DEF ProtectionSpec


-----------------------------------------------------------------------------
(* The lock, and what the steps of an ending share.                         *)

\* A closing that goes on leaves the others alone, never makes the short bigger,
\* gets to retire only with the short closed, and retires from nowhere else.
LEMMA EndShape ==
  ASSUME TypeInv, NEW k \in Enders,
         EndCloses(k) \/ EndBooks(k) \/ EndVerifies(k) \/ EndRetires(k)
  PROVE  /\ end[k].pc # "idle" /\ UNCHANGED <<reset, bound, seen>>
         /\ short' \in Nat /\ short' <= short
         /\ \A e \in Enders : e # k => end'[e] = end[e]
         /\ ev' = (IF k = "eval" /\ end'[k].pc = "idle" THEN NoEval ELSE ev)
         /\ end'[k].pc = "retire" => short' = 0
         /\ protection'.active # protection.active => end[k].pc = "retire"
<1> DEFINE Same == \A e \in Enders : e # k => end'[e] = end[e]
           Owner == ev' = (IF k = "eval" /\ end'[k].pc = "idle" THEN NoEval ELSE ev)
<1>0. /\ end \in [Enders -> EndState] /\ short \in Nat /\ NoEnd.pc = "idle"
      /\ end[k].state \in State /\ end[k].actual \in Nat /\ end[k].state.qty \in Nat
  BY DEF TypeInv, EndState, State, NoEnd
<1>1. ASSUME EndOver(k) PROVE Same /\ Owner /\ end'[k].pc = "idle"
  BY <1>0, <1>1 DEF EndOver
<1>2. ASSUME NEW q \in Nat, TryAgain(k, q)
      PROVE  Same /\ Owner /\ end'[k].pc = "idle" /\ protection'.active = protection.active
  BY <1>1, <1>2, TryAgainType
<1>3. ASSUME NEW pc \in {"book", "verify", "retire"}, end' = [end EXCEPT ![k].pc = pc], ev' = ev
      PROVE  Same /\ Owner /\ end'[k].pc = pc
  <2>1. end'[k].pc = pc /\ Same
    BY <1>0, <1>3 DEF EndState
  <2> QED
    BY <1>3, <2>1
<1> HIDE DEF Same, Owner
<1>4. CASE EndCloses(k)
  <2>1. PICK q \in 0..Min({end[k].actual, short}), ok \in BOOLEAN :
          /\ short' = short - q
          /\ IF ok THEN end' = [end EXCEPT ![k].pc = "book"] /\ UNCHANGED <<protection, ev>>
             ELSE TryAgain(k, end[k].state.qty)
    BY <1>4 DEF EndCloses
  <2>2. short' \in Nat /\ short' <= short
    <3>1. Min({end[k].actual, short}) \in Nat /\ Min({end[k].actual, short}) <= short
      BY <1>0, MinOfTwo
    <3> QED
      BY <1>0, <2>1, <3>1
  <2>3. Same /\ Owner /\ end'[k].pc # "retire" /\ protection'.active = protection.active
    <3>1. CASE ok
      BY <1>3, <2>1, <3>1
    <3>2. CASE ~ok
      BY <1>0, <1>2, <2>1, <3>2
    <3> QED
      BY <3>1, <3>2
  <2> QED
    BY <1>4, <2>2, <2>3 DEF EndCloses, Same, Owner
<1>5. CASE EndBooks(k)
  <2>1. Same /\ Owner /\ end'[k].pc = "verify"
    BY <1>3, <1>5 DEF EndBooks
  <2>2. protection'.active = protection.active
    BY <1>5 DEF EndBooks, Write, TypeInv
  <2> QED
    BY <1>0, <1>5, <2>1, <2>2 DEF EndBooks, Same, Owner
<1>6. CASE EndVerifies(k)
  <2>1. PICK read \in BOOLEAN :
          IF FoundClosed(read)
          THEN end' = [end EXCEPT ![k].pc = "retire"] /\ UNCHANGED <<protection, ev>>
          ELSE TryAgain(k, IF read THEN short ELSE end[k].actual)
    BY <1>6 DEF EndVerifies
  <2>2. (IF read THEN short ELSE end[k].actual) \in Nat
    BY <1>0
  <2>3. Same /\ Owner /\ protection'.active = protection.active
        /\ (end'[k].pc = "retire" => short = 0)
    <3>1. CASE FoundClosed(read)
      BY <1>3, <2>1, <3>1 DEF FoundClosed
    <3>2. CASE ~FoundClosed(read)
      BY <1>2, <2>1, <2>2, <3>2
    <3> QED
      BY <3>1, <3>2
  <2> QED
    BY <1>0, <1>6, <2>3 DEF EndVerifies, Same, Owner
<1>7. CASE EndRetires(k)
  <2>1. EndOver(k) \/ TryAgain(k, end[k].state.qty)
    BY <1>7 DEF EndRetires
  <2>2. Same /\ Owner /\ end'[k].pc = "idle"
    BY <1>0, <1>1, <1>2, <2>1
  <2> QED
    BY <1>0, <1>7, <2>2 DEF EndRetires, Same, Owner
<1> QED
  BY <1>4, <1>5, <1>6, <1>7

LEMMA LockInit == ProtectionInit => LockInv
  BY DEF ProtectionInit, LockInv, NoReset, NoEnd, Enders

LEMMA LockStep == TypeInv /\ LockInv /\ [ProtectionNext]_protectionVars => LockInv'
<1> SUFFICES ASSUME TypeInv, LockInv, [ProtectionNext]_protectionVars PROVE LockInv'
  OBVIOUS
<1>0. /\ NoEval.pc = "idle" /\ NoReset.pc = "idle" /\ NoEnd.pc = "idle"
      /\ "eval" \in Enders /\ "request" \in Enders /\ "force" \in Enders
      /\ ev \in EvState /\ end \in [Enders -> EndState]
  BY DEF NoEval, NoReset, NoEnd, Enders, TypeInv, EvState, EndState
<1>1. CASE UNCHANGED protectionVars
  BY <1>1 DEF protectionVars, LockInv
<1>2. ASSUME ev.pc \notin {"idle", "closing"}, UNCHANGED <<reset, end>> PROVE LockInv'
  BY <1>2 DEF LockInv
<1>3. CASE EvalFails \/ EvalLeavesEarly \/ EvalObserves \/ EvalPauses \/ EvalWaits
           \/ EvalSettles \/ EvalGoes \/ EvalExecutes \/ EvalOrders \/ EvalSlices \/ EvalAnswered
  BY <1>2, <1>3 DEF EvalFails, EvalLeavesEarly, EvalObserves, EvalPauses, EvalWaits, EvalSettles,
     EvalGoes, EvalExecutes, EvalOrders, EvalSlices, EvalAnswered
<1>4. ASSUME NEW forced \in BOOLEAN, EvalBegins(forced) PROVE LockInv'
  <2>1. reset.pc # "write" /\ end["eval"].pc = "idle" /\ UNCHANGED <<reset, end>>
    BY <1>4 DEF EvalBegins, Locked, LockInv
  <2> QED
    BY <2>1 DEF LockInv
<1>5. CASE EvalCloses
  <2>1. ev.pc = "decide" /\ ev'.pc = "closing" /\ reset' = reset
    BY <1>5 DEF EvalCloses, NoEval
  <2> QED
    BY <2>1 DEF LockInv
<1>6. CASE (\E q \in Sizes : OpenSegment(q)) \/ ResetReads \/ ResetWrites \/ ResetFails
  <2>1. UNCHANGED <<ev, end>> /\ (reset'.pc = "write" => ev.pc = "idle")
    <3>1. CASE \E q \in Sizes : OpenSegment(q)
      BY <3>1 DEF OpenSegment, TypeInv
    <3>2. CASE ResetReads
      BY <3>2 DEF ResetReads, ResetMayBegin, Locked
    <3>3. CASE ResetWrites \/ ResetFails
      BY <1>0, <3>3 DEF ResetWrites, ResetFails
    <3> QED
      BY <1>6, <3>1, <3>2, <3>3
  <2> QED
    BY <2>1 DEF LockInv
<1>7. ASSUME end'["eval"] = end["eval"], reset' = reset, ev'.pc = ev.pc PROVE LockInv'
  BY <1>7 DEF LockInv
<1>8. CASE Request
  BY <1>0, <1>7, <1>8 DEF Request
<1>9. CASE RequestMarks
  <2>1. ev'.pc = ev.pc
    BY <1>0, <1>9 DEF RequestMarks, EvState
  <2> QED
    BY <1>0, <1>7, <1>9, <2>1 DEF RequestMarks
<1>10. CASE RequestObserves
  <2>1. end'["eval"] = end["eval"] /\ ev' = ev
    <3>1. EndOver("request") => end'["eval"] = end["eval"] /\ ev' = ev
      BY <1>0 DEF EndOver
    <3>2. ASSUME NEW s, NEW q, Closes("request", s, q) PROVE end'["eval"] = end["eval"]
      BY <1>0, <3>2 DEF Closes
    <3> QED
      BY <1>10, <3>1, <3>2 DEF RequestObserves, TryAgain
  <2> QED
    BY <1>7, <1>10, <2>1 DEF RequestObserves
<1>11. CASE ForceClose
  BY <1>0, <1>7, <1>11 DEF ForceClose, Closes
<1>12. ASSUME NEW k \in Enders, EndCloses(k) \/ EndBooks(k) \/ EndVerifies(k) \/ EndRetires(k)
       PROVE  LockInv'
  <2>1. /\ end[k].pc # "idle" /\ reset' = reset
        /\ \A e \in Enders : e # k => end'[e] = end[e]
        /\ ev' = (IF k = "eval" /\ end'[k].pc = "idle" THEN NoEval ELSE ev)
    BY <1>12, EndShape
  <2> QED
    BY <1>0, <2>1 DEF LockInv
<1>13. CASE Crash
  BY <1>0, <1>13 DEF Crash, LockInv
<1> QED
  BY <1>1, <1>3, <1>4, <1>5, <1>6, <1>8, <1>9, <1>10, <1>11, <1>12, <1>13 DEF ProtectionNext

-----------------------------------------------------------------------------
(* The signal of a segment is kept.                                         *)

\* With nothing asked for, no closing begins or goes on.
LEMMA NoEnding ==
  ASSUME TypeInv, QuietInv, [ProtectionNext]_protectionVars, bound'.ends = 0
  PROVE  /\ bound.ends = 0
         /\ ~EvalCloses /\ ~Request /\ ~RequestMarks /\ ~RequestObserves /\ ~ForceClose
         /\ \A k \in Enders : ~EndCloses(k) /\ ~EndBooks(k) /\ ~EndVerifies(k) /\ ~EndRetires(k)
<1>1. bound \in [segments : Nat, ends : Nat]
  BY DEF TypeInv
<1>2. ~Request /\ ~ForceClose
  BY <1>1 DEF Request, ForceClose, Asked
<1>3. bound.ends = 0
  <2>1. CASE UNCHANGED bound
    BY <2>1
  <2>2. CASE Crash \/ \E q \in Sizes : OpenSegment(q)
    BY <1>1, <2>2 DEF Crash, OpenSegment
  <2>3. ASSUME NEW k \in Enders, EndCloses(k) \/ EndBooks(k) \/ EndVerifies(k) \/ EndRetires(k)
        PROVE  UNCHANGED bound
    BY <2>3 DEF EndCloses, EndBooks, EndVerifies, EndRetires
  <2>4. ASSUME NEW forced \in BOOLEAN, EvalBegins(forced) PROVE UNCHANGED bound
    BY <2>4 DEF EvalBegins
  <2>5. CASE EvalFails \/ EvalLeavesEarly \/ EvalObserves \/ EvalPauses \/ EvalWaits
             \/ EvalSettles \/ EvalGoes \/ EvalExecutes \/ EvalOrders \/ EvalSlices
             \/ EvalAnswered \/ EvalCloses \/ ResetReads \/ ResetWrites \/ ResetFails
             \/ RequestMarks \/ RequestObserves
    BY <2>1, <2>5 DEF EvalFails, EvalLeavesEarly, EvalObserves, EvalPauses, EvalWaits, EvalSettles,
       EvalGoes, EvalExecutes, EvalOrders, EvalSlices, EvalAnswered, EvalCloses, ResetReads,
       ResetWrites, ResetFails, RequestMarks, RequestObserves
  <2> QED
    BY <1>2, <2>1, <2>2, <2>3, <2>4, <2>5 DEF ProtectionNext, protectionVars
<1>4. \A k \in Enders : end[k].pc = "idle"
  BY <1>3 DEF QuietInv
<1>5. ~EvalCloses
  BY <1>3 DEF QuietInv, EvalCloses
<1>6. ~RequestMarks /\ ~RequestObserves
  BY <1>4 DEF RequestMarks, RequestObserves, Enders
<1>7. ASSUME NEW k \in Enders
      PROVE  ~EndCloses(k) /\ ~EndBooks(k) /\ ~EndVerifies(k) /\ ~EndRetires(k)
  BY <1>4 DEF EndCloses, EndBooks, EndVerifies, EndRetires
<1> QED
  BY <1>2, <1>3, <1>5, <1>6, <1>7

\* What a state written back must say for the signal to be kept.
LEMMA KeptWrite ==
  ASSUME TypeInv, QuietInv, LockInv, SignalInv, bound.ends = 0, UNCHANGED <<bound, end>>,
         NEW s \in State, Write(s), ~s.pending, seen'.owed => s.force,
         reset' = reset \/ reset'.pc = "idle",
         \/ ev'.pc = "idle"
         \/ ev'.pc \notin {"idle", "observe", "decide"} /\ ev'.state = s
  PROVE  QuietInv' /\ SignalInv'
<1>1. protection'.state = s /\ protection'.active = protection.active
  BY WriteType
<1> QED
  BY <1>1 DEF QuietInv, SignalInv

LEMMA KeptStep ==
  TypeInv /\ QuietInv /\ LockInv /\ SignalInv /\ [ProtectionNext]_protectionVars
    => QuietInv' /\ SignalInv'
<1> SUFFICES ASSUME TypeInv, QuietInv, LockInv, SignalInv, [ProtectionNext]_protectionVars,
                    bound'.ends = 0
             PROVE  QuietInv' /\ SignalInv'
  BY DEF QuietInv, SignalInv
<1>0. /\ NoEval.pc = "idle" /\ NoReset.pc = "idle" /\ bound.ends = 0
      /\ protection.active /\ ~protection.state.pending
      /\ \A k \in Enders : end[k].pc = "idle"
      /\ ev \in EvState /\ ev.state \in State /\ protection.state \in State
      /\ (seen.owed => protection.state.force)
  BY NoEnding DEF QuietInv, SignalInv, NoEval, NoReset, TypeInv, EvState
<1>a. /\ ev.pc # "idle" => ~ev.state.pending /\ (seen.owed => ev.state.force)
      /\ ev.pc \in {"observe", "decide"} => (seen.owed => ev.force)
      /\ reset.pc = "write" => ~reset.state.pending
  BY <1>0 DEF QuietInv, SignalInv
\* The row stands, and so does the reset.
<1>b. ASSUME UNCHANGED <<reset, end, bound>>, protection'.state = protection.state,
             protection'.active = protection.active, seen'.owed = seen.owed,
             \/ ev'.pc = "idle"
             \/ /\ ~ev'.state.pending /\ (seen.owed => ev'.state.force)
                /\ ev'.pc \in {"observe", "decide"} => (seen.owed => ev'.force)
      PROVE  QuietInv' /\ SignalInv'
  BY <1>0, <1>a, <1>b DEF QuietInv, SignalInv
<1>1. CASE UNCHANGED protectionVars
  BY <1>1 DEF protectionVars, QuietInv, SignalInv
<1>2. ASSUME NEW forced \in BOOLEAN, EvalBegins(forced) PROVE QuietInv' /\ SignalInv'
  <2>1. ev'.state = protection.state /\ ev'.pc = "observe"
    BY <1>2 DEF EvalBegins, NoEval
  <2>2. ev'.force = (forced \/ protection.state.force)
    BY <1>2, Zenon DEF EvalBegins, NoEval
  <2> QED
    BY <1>0, <1>b, <1>2, <2>1, <2>2 DEF EvalBegins
<1>3. CASE EvalFails
  BY <1>0, <1>b, <1>3 DEF EvalFails
<1>4. CASE EvalLeavesEarly
  <2>1. PICK b \in {FALSE} \cup (IF ev.force THEN {ev.state.pending} ELSE {}) :
          Write([ev.state EXCEPT !.pending = b, !.force = ev.force])
    BY <1>4 DEF EvalLeavesEarly
  <2>2. b = FALSE
    BY <1>a, <1>4, <1>0 DEF EvalLeavesEarly, State
  <2> DEFINE s == [ev.state EXCEPT !.pending = b, !.force = ev.force]
  <2>3. s \in State /\ ~s.pending /\ (seen.owed => s.force)
    <3>1. ev.force \in BOOLEAN
      BY <1>0 DEF EvState
    <3>2. seen.owed => ev.force
      BY <1>a, <1>4 DEF EvalLeavesEarly
    <3> QED
      BY <1>0, <2>2, <3>1, <3>2 DEF State
  <2> HIDE DEF s
  <2> QED
    BY <1>0, <1>4, <2>1, <2>3, KeptWrite DEF EvalLeavesEarly, s
<1>5. CASE EvalObserves
  <2>1. PICK o \in Observations(ev.state) :
          ev' = [ev EXCEPT !.pc = "decide", !.actual = o.actual, !.sure = o.sure,
                           !.state.qty = o.actual, !.state.miss = o.miss]
    BY <1>5 DEF EvalObserves
  <2>2. ev'.state.pending = ev.state.pending /\ ev'.state.force = ev.state.force
        /\ ev'.force = ev.force
    BY <1>0, <2>1 DEF EvState, State
  <2>3. ev.pc = "observe" /\ UNCHANGED <<protection, reset, end, bound, seen>>
    BY <1>5 DEF EvalObserves
  <2> QED
    BY <1>a, <1>b, <2>2, <2>3
<1>6. CASE EvalPauses
  <2> DEFINE s == [ev.state EXCEPT !.pending = FALSE]
  <2>1. s \in State /\ ~s.pending /\ (seen.owed => s.force)
    BY <1>0, <1>a, <1>6 DEF EvalPauses, State
  <2> HIDE DEF s
  <2> QED
    BY <1>0, <1>6, <2>1, KeptWrite DEF EvalPauses, s
<1>7. CASE EvalWaits
  <2>1. PICK f \in {ev.state.force, ev.force} : Write([ev.state EXCEPT !.force = f])
    BY <1>7 DEF EvalWaits
  <2> DEFINE s == [ev.state EXCEPT !.force = f]
  <2>2. f \in BOOLEAN /\ (seen.owed => f)
    BY <1>0, <1>a, <1>7 DEF EvalWaits, EvState, State
  <2>3. s \in State /\ ~s.pending /\ (seen.owed => s.force)
    BY <1>0, <1>a, <1>7, <2>2 DEF EvalWaits, State
  <2> HIDE DEF s
  <2> QED
    BY <1>0, <1>7, <2>1, <2>3, KeptWrite DEF EvalWaits, s
<1>8. ASSUME Discharged, ev.pc # "idle" PROVE ~seen'.owed
  <2>1. seen'.owed = (seen.owed /\ ~ev.state.force)
    BY <1>8, Zenon DEF Discharged, TypeInv
  <2> QED
    BY <1>a, <1>8, <2>1
<1>9. CASE EvalSettles
  <2> DEFINE s == [ev.state EXCEPT !.force = FALSE]
  <2>1. s \in State /\ ~s.pending /\ ~seen'.owed
    BY <1>0, <1>8, <1>9 DEF EvalSettles, State
  <2> HIDE DEF s
  <2> QED
    BY <1>0, <1>9, <2>1, KeptWrite DEF EvalSettles, s
<1>10. CASE EvalGoes
  <2>1. ev'.pc = "reread" /\ ev'.state = ev.state
    BY <1>10 DEF EvalGoes, NoEval
  <2>2. ~ev.state.pending /\ (seen.owed => ev.state.force) /\ seen' = seen
    BY <1>a, <1>10 DEF EvalGoes
  <2> QED
    BY <1>0, <1>10, <2>1, <2>2, KeptWrite DEF EvalGoes
<1>11. CASE EvalExecutes
  <2>1. CASE ev' = NoEval /\ UNCHANGED <<protection, seen>>
    BY <1>0, <1>b, <1>11, <2>1 DEF EvalExecutes
  <2>2. CASE /\ Write([ev.state EXCEPT !.force = FALSE]) /\ Discharged
             /\ \E pc \in {"ioc", "twap"} :
                   ev' = [ev EXCEPT !.pc = pc, !.actual = Read, !.state.force = FALSE]
    <3> DEFINE s == [ev.state EXCEPT !.force = FALSE]
    <3>1. s \in State /\ ~s.pending /\ ~seen'.owed
      BY <1>0, <1>a, <1>8, <1>11, <2>2 DEF EvalExecutes, State
    <3>2. PICK pc \in {"ioc", "twap"} : ev' = [ev EXCEPT !.pc = pc, !.actual = Read, !.state = s]
      BY <2>2
    <3> HIDE DEF s
    <3>3. ev'.pc \in {"ioc", "twap"} /\ ev'.state = s
      BY <1>0, <3>2 DEF EvState
    <3> QED
      BY <1>0, <1>11, <2>2, <3>1, <3>3, KeptWrite DEF EvalExecutes, s
  <2> QED
    BY <1>11, <2>1, <2>2 DEF EvalExecutes
<1>12. CASE EvalOrders
  <2>1. PICK k \in 0..Left, ok \in BOOLEAN :
          /\ ev' = [NoEval EXCEPT !.pc = "answered", !.state = ev.state,
                                  !.ok = ok \/ ev.pc = "emergency"]
          /\ Moves(k)
    BY <1>12 DEF EvalOrders
  <2>2. ev'.pc = "answered" /\ ev'.state = ev.state /\ ev'.ok \in BOOLEAN /\ k \in Nat
    BY <2>1, DriftFacts DEF NoEval
  <2>3. seen'.owed = seen.owed
    BY <2>1, <2>2, MovesFacts
  <2> QED
    BY <1>a, <1>b, <1>12, <2>2, <2>3 DEF EvalOrders
<1>13. CASE EvalSlices
  <2>1. ev'.state = ev.state /\ ev'.pc \notin {"observe", "decide"} /\ seen'.owed = seen.owed
    <3>1. CASE ev' = [NoEval EXCEPT !.pc = "answered", !.state = ev.state, !.ok = TRUE]
               /\ UNCHANGED <<short, seen>>
      BY <3>1 DEF NoEval
    <3>2. CASE ev' = [ev EXCEPT !.pc = "emergency"] /\ UNCHANGED <<short, seen>>
      BY <1>0, <3>2 DEF EvState
    <3>3. ASSUME NEW k \in {0, 1}, NEW ok \in BOOLEAN, Moves(k),
                 ev' = IF ok THEN [ev EXCEPT !.done = @ + 1, !.ok = TRUE]
                       ELSE [ev EXCEPT !.pc = "emergency", !.ok = FALSE]
          PROVE  ev'.state = ev.state /\ ev'.pc \in {ev.pc, "emergency"} /\ seen'.owed = seen.owed
      <4>1. ev'.state = ev.state /\ ev'.pc \in {ev.pc, "emergency"} /\ ev'.ok \in BOOLEAN
        <5>1. CASE ok
          BY <1>0, <3>3, <5>1 DEF EvState
        <5>2. CASE ~ok
          BY <1>0, <3>3, <5>2 DEF EvState
        <5> QED
          BY <5>1, <5>2
      <4> QED
        BY <3>3, <4>1, MovesFacts
    <3> QED
      BY <1>13, <3>1, <3>2, <3>3 DEF EvalSlices
  <2> QED
    BY <1>a, <1>b, <1>13, <2>1 DEF EvalSlices
<1>14. CASE EvalAnswered
  <2>1. PICK read \in {short, 0} : Write([ev.state EXCEPT !.qty = IF ev.ok THEN read ELSE @])
    BY <1>14 DEF EvalAnswered
  <2> DEFINE s == [ev.state EXCEPT !.qty = IF ev.ok THEN read ELSE @]
  <2>2. (IF ev.ok THEN read ELSE ev.state.qty) \in Nat
    BY <1>0 DEF State, TypeInv
  <2>3. s \in State /\ ~s.pending /\ (seen.owed => s.force)
    BY <1>0, <1>a, <1>14, <2>2 DEF EvalAnswered, State
  <2> HIDE DEF s
  <2> QED
    BY <1>0, <1>14, <2>1, <2>3, KeptWrite DEF EvalAnswered, s
<1>15. ASSUME NEW q \in Sizes, OpenSegment(q) PROVE QuietInv' /\ SignalInv'
  <2>1. /\ UNCHANGED <<ev, end>> /\ reset'.pc = "wait" /\ seen'.owed = seen.owed
        /\ protection'.state = protection.state /\ protection'.active = protection.active
    BY <1>15 DEF OpenSegment, TypeInv
  <2> QED
    BY <1>0, <1>a, <2>1 DEF QuietInv, SignalInv
<1>16. CASE ResetReads
  <2>1. /\ UNCHANGED <<protection, ev, end, seen>> /\ reset'.state = protection.state
    BY <1>16 DEF ResetReads
  <2> QED
    BY <1>0, <1>a, <2>1 DEF QuietInv, SignalInv
<1>17. CASE ResetWrites
  <2> DEFINE s == [reset.state EXCEPT !.force = TRUE, !.miss = 0]
  <2>1. s \in State /\ ~s.pending /\ s.force
    BY <1>a, <1>17 DEF ResetWrites, State, TypeInv
  <2>2. ev'.pc = "idle"
    BY <1>17 DEF ResetWrites, LockInv
  <2> HIDE DEF s
  <2> QED
    BY <1>0, <1>17, <2>1, <2>2, KeptWrite DEF ResetWrites, s
<1>18. CASE ResetFails
  BY <1>0, <1>a, <1>18 DEF ResetFails, QuietInv, SignalInv
<1>19. CASE Crash
  BY <1>0, <1>a, <1>19 DEF Crash, QuietInv, SignalInv, NoEnd
<1> QED
  BY NoEnding, <1>1, <1>2, <1>3, <1>4, <1>5, <1>6, <1>7, <1>9, <1>10, <1>11, <1>12, <1>13,
     <1>14, <1>15, <1>16, <1>17, <1>18, <1>19 DEF ProtectionNext

\* The signal with which a new segment of the LP begins stays in the row until
\* an evaluation that has read it settles it or executes, whatever evaluations,
\* resets and restarts come in between, for any sizes and any segments.
THEOREM SegmentSignalKeptTheorem == ProtectionSpec => []SegmentSignalKept
<1>1. ProtectionInit => KeptInv
  <2> SUFFICES ASSUME ProtectionInit PROVE KeptInv
    OBVIOUS
  <2>1. TypeInv /\ LockInv
    BY TypeInit, LockInit
  <2>2. QuietInv /\ SignalInv
    BY DEF ProtectionInit, QuietInv, SignalInv, NewState, NoEval, NoReset, NoEnd
  <2> QED
    BY <2>1, <2>2 DEF KeptInv
<1>2. KeptInv /\ [ProtectionNext]_protectionVars => KeptInv'
  BY TypeStep, LockStep, KeptStep DEF KeptInv
<1>3. KeptInv => SegmentSignalKept
  BY DEF KeptInv, SignalInv, SegmentSignalKept
<1> QED
  BY <1>1, <1>2, <1>3, PTL DEF ProtectionSpec

-----------------------------------------------------------------------------
(* A protection becomes inactive with its short closed, or with an excuse.  *)

Excused == short = 0 \/ seen.excuse # {}
Retired == ~protection.active \/ \E k \in Enders : end[k].pc = "retire"

\* Excuses are never withdrawn, and a short that is closed only comes back by
\* an order.
LEMMA StaysExcused ==
  ASSUME TypeInv, GoneInv, short' \in Nat, short' <= short, seen.excuse \subseteq seen'.excuse,
         Retired' => Retired \/ Excused'
  PROVE  GoneInv'
<1>1. Excused => Excused'
  BY DEF Excused, TypeInv
<1>2. Retired => Excused
  BY DEF GoneInv, Retired, Excused
<1> QED
  BY <1>1, <1>2 DEF GoneInv, Retired, Excused

\* An order that opens a position again after an ending has looked leaves its
\* excuse: while the evaluation orders, it does not close.
LEMMA MovesExcused ==
  ASSUME TypeInv, LockInv, GoneInv, ev.pc \notin {"idle", "closing"}, NEW k \in Nat, Moves(k),
         ev'.ok \in BOOLEAN, UNCHANGED <<protection, end>>
  PROVE  GoneInv'
<1> DEFINE late == ~protection.active \/ \E e \in {"request", "force"} : end[e].pc = "retire"
<1>1. /\ short' \in Nat /\ short \in Nat /\ seen.excuse \subseteq seen'.excuse
      /\ late /\ short' > short => seen'.excuse # {}
  BY MovesFacts DEF TypeInv
<1>2. end["eval"].pc = "idle"
  BY DEF LockInv
<1>3. Retired => late
  BY <1>2 DEF Retired, Enders
<1>4. Retired' = Retired
  BY DEF Retired
<1> HIDE DEF late
<1>5. CASE short' <= short
  BY <1>1, <1>4, <1>5, StaysExcused
<1>6. CASE short' > short
  BY <1>1, <1>3, <1>4, <1>6 DEF GoneInv, Retired
<1> QED
  BY <1>1, <1>5, <1>6

LEMMA GoneStep ==
  TypeInv /\ LockInv /\ GoneInv /\ [ProtectionNext]_protectionVars => GoneInv'
<1> SUFFICES ASSUME TypeInv, LockInv, GoneInv, [ProtectionNext]_protectionVars PROVE GoneInv'
  OBVIOUS
<1>0. /\ short \in Nat /\ NoEnd.pc = "idle" /\ end \in [Enders -> EndState]
      /\ "eval" \in Enders /\ "request" \in Enders /\ "force" \in Enders
      /\ ev \in EvState /\ ev.state \in State /\ ev.actual \in Nat /\ protection.state \in State
  BY DEF TypeInv, EvState, EndState, NoEnd, Enders
<1>a. ASSUME short' = short, seen'.excuse = seen.excuse, end' = end,
             protection'.active = protection.active
      PROVE  GoneInv'
  BY <1>a DEF GoneInv
<1>b. ASSUME NEW s, Write(s) PROVE protection'.active = protection.active
  BY <1>b DEF Write, TypeInv
<1>1. CASE UNCHANGED protectionVars
  BY <1>1 DEF protectionVars, GoneInv
<1>2. CASE EvalFails \/ EvalObserves \/ \E forced \in BOOLEAN : EvalBegins(forced)
  BY <1>a, <1>2 DEF EvalFails, EvalObserves, EvalBegins
<1>3. CASE EvalLeavesEarly \/ EvalPauses \/ EvalWaits \/ EvalGoes \/ EvalAnswered
  <2>1. short' = short /\ seen' = seen /\ end' = end
    BY <1>3 DEF EvalLeavesEarly, EvalPauses, EvalWaits, EvalGoes, EvalAnswered
  <2>2. protection'.active = protection.active
    BY <1>b, <1>3 DEF EvalLeavesEarly, EvalPauses, EvalWaits, EvalGoes, EvalAnswered
  <2> QED
    BY <1>a, <2>1, <2>2
<1>4. CASE EvalSettles \/ EvalExecutes
  <2>1. short' = short /\ end' = end
    BY <1>4 DEF EvalSettles, EvalExecutes
  <2>2. protection'.active = protection.active
    BY <1>b, <1>4 DEF EvalSettles, EvalExecutes
  <2>3. seen'.excuse = seen.excuse
    BY <1>4 DEF EvalSettles, EvalExecutes, Discharged, TypeInv
  <2> QED
    BY <1>a, <2>1, <2>2, <2>3
<1>5. CASE EvalOrders
  <2>1. PICK k \in 0..Left, ok \in BOOLEAN :
          /\ ev' = [NoEval EXCEPT !.pc = "answered", !.state = ev.state,
                                  !.ok = ok \/ ev.pc = "emergency"]
          /\ Moves(k)
    BY <1>5 DEF EvalOrders
  <2>2. k \in Nat /\ ev'.ok \in BOOLEAN
    BY <2>1, DriftFacts DEF NoEval
  <2> QED
    BY <1>5, <2>1, <2>2, MovesExcused DEF EvalOrders
<1>6. CASE EvalSlices
  <2>1. CASE UNCHANGED <<short, seen>>
    BY <1>a, <1>6, <2>1 DEF EvalSlices
  <2>2. ASSUME NEW k \in {0, 1}, NEW ok \in BOOLEAN, Moves(k),
               ev' = IF ok THEN [ev EXCEPT !.done = @ + 1, !.ok = TRUE]
                     ELSE [ev EXCEPT !.pc = "emergency", !.ok = FALSE]
        PROVE  GoneInv'
    <3>1. ev'.ok \in BOOLEAN
      <4>1. CASE ok
        BY <1>0, <2>2, <4>1 DEF EvState
      <4>2. CASE ~ok
        BY <1>0, <2>2, <4>2 DEF EvState
      <4> QED
        BY <4>1, <4>2
    <3> QED
      BY <1>6, <2>2, <3>1, MovesExcused DEF EvalSlices
  <2> QED
    BY <1>6, <2>1, <2>2 DEF EvalSlices
<1>7. CASE (\E q \in Sizes : OpenSegment(q)) \/ ResetReads \/ ResetWrites \/ ResetFails
  <2>1. short' = short /\ end' = end
    BY <1>7 DEF OpenSegment, ResetReads, ResetWrites, ResetFails
  <2>2. protection'.active = protection.active
    BY <1>b, <1>7 DEF OpenSegment, ResetReads, ResetWrites, ResetFails, TypeInv
  <2>3. seen'.excuse = seen.excuse
    BY <1>7 DEF OpenSegment, ResetReads, ResetWrites, ResetFails, TypeInv
  <2> QED
    BY <1>a, <2>1, <2>2, <2>3
<1>8. ASSUME NEW k \in Enders, NEW s \in State, NEW q \in Nat, Closes(k, s, q),
             protection'.active = protection.active, short' = short
      PROVE  GoneInv'
  <2>1. /\ end'[k].pc = "retire" => q = 0
        /\ \A e \in Enders : e # k => end'[e] = end[e]
        /\ seen.excuse \subseteq seen'.excuse
        /\ q = 0 /\ short > 0 => seen'.excuse # {}
    BY <1>8, ClosesType
  <2>2. Retired' => Retired \/ Excused'
    BY <1>0, <1>8, <2>1 DEF Retired, Excused
  <2> QED
    BY <1>0, <1>8, <2>1, <2>2, StaysExcused
<1>9. CASE EvalCloses
  BY <1>0, <1>8, <1>9 DEF EvalCloses
<1>10. CASE ForceClose
  BY <1>0, <1>8, <1>10 DEF ForceClose
<1>11. CASE Request
  <2>1. end'["request"].pc = "mark" /\ \A e \in Enders : e # "request" => end'[e] = end[e]
    BY <1>0, <1>11 DEF Request
  <2>2. UNCHANGED <<protection, short, seen>>
    BY <1>11 DEF Request
  <2> QED
    BY <2>1, <2>2 DEF GoneInv
<1>12. CASE RequestMarks
  <2>1. end'["request"].pc = "observe" /\ \A e \in Enders : e # "request" => end'[e] = end[e]
    BY <1>0, <1>12 DEF RequestMarks, EndState
  <2>2. UNCHANGED <<short, seen>> /\ protection'.active = protection.active
    BY <1>b, <1>12 DEF RequestMarks
  <2> QED
    BY <2>1, <2>2 DEF GoneInv
<1>13. CASE RequestObserves
  <2>1. end["request"].state \in State /\ end["request"].state.qty \in Nat
    BY <1>0 DEF EndState, State
  <2>2. PICK o \in Observations(end["request"].state) :
          \/ TryAgain("request", end["request"].state.qty) /\ UNCHANGED seen
          \/ Closes("request", end["request"].state, o.actual) /\ UNCHANGED <<protection, ev>>
    BY <1>13 DEF RequestObserves
  <2>3. CASE TryAgain("request", end["request"].state.qty) /\ UNCHANGED seen
    <3>1. protection'.active = protection.active /\ end' = [end EXCEPT !["request"] = NoEnd]
      BY <1>0, <2>1, <2>3, TryAgainType, EndOverType
    <3>2. end'["request"].pc = "idle" /\ \A e \in Enders : e # "request" => end'[e] = end[e]
      BY <1>0, <3>1
    <3>3. UNCHANGED <<short, seen>>
      BY <1>13, <2>3 DEF RequestObserves
    <3> QED
      BY <3>1, <3>2, <3>3 DEF GoneInv
  <2>4. CASE Closes("request", end["request"].state, o.actual) /\ UNCHANGED <<protection, ev>>
    BY <1>0, <1>8, <1>13, <2>1, <2>4, ObservationType DEF RequestObserves
  <2> QED
    BY <2>2, <2>3, <2>4
<1>14. ASSUME NEW k \in Enders, EndCloses(k) \/ EndBooks(k) \/ EndVerifies(k) \/ EndRetires(k)
       PROVE  GoneInv'
  <2>1. /\ UNCHANGED seen /\ short' \in Nat /\ short' <= short
        /\ \A e \in Enders : e # k => end'[e] = end[e]
        /\ end'[k].pc = "retire" => short' = 0
        /\ protection'.active # protection.active => end[k].pc = "retire"
    BY <1>14, EndShape
  <2>2. Retired' => Retired \/ Excused'
    BY <2>1 DEF Retired, Excused
  <2> QED
    BY <2>1, <2>2, StaysExcused
<1>15. CASE Crash
  BY <1>0, <1>15 DEF Crash, GoneInv
<1> QED
  BY <1>1, <1>2, <1>3, <1>4, <1>5, <1>6, <1>7, <1>9, <1>10, <1>11, <1>12, <1>13, <1>14, <1>15
  DEF ProtectionNext

\* A protection becomes inactive with its short open only if an evaluation
\* opened it again after the ending had looked, or if no read was answered:
\* whoever ends it, whatever runs meanwhile, for any sizes and numbers of calls.
THEOREM ClosedBeforeInactiveTheorem == ProtectionSpec => []ClosedBeforeInactive
<1>1. ProtectionInit => ClosedInv
  <2> SUFFICES ASSUME ProtectionInit PROVE ClosedInv
    OBVIOUS
  <2>1. short = 0
    BY DEF ProtectionInit
  <2> QED
    BY <2>1, TypeInit, LockInit DEF ClosedInv, GoneInv
<1>2. ClosedInv /\ [ProtectionNext]_protectionVars => ClosedInv'
  BY TypeStep, LockStep, GoneStep DEF ClosedInv
<1>3. ClosedInv => ClosedBeforeInactive
  BY DEF ClosedInv, TypeInv, GoneInv, ClosedBeforeInactive
<1> QED
  BY <1>1, <1>2, <1>3, PTL DEF ProtectionSpec
==============================================================================
