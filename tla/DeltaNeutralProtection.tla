------------------------ MODULE DeltaNeutralProtection ------------------------
(***************************************************************************)
(* The hedge of one liquidity position (LP): a short kept near the delta   *)
(* of the LP by evaluations of its protection, one at a time under a lock  *)
(* (protected-pool-delta-neutral.service.js, its evaluate.js and           *)
(* execution.js), while the calls that end it (requestDeactivate,          *)
(* forceCloseHedge) run outside that lock and a change of the LP resets    *)
(* its state inside it (resetForNewSegment).                               *)
(*                                                                         *)
(* Everybody reads the row, waits for the exchange, and writes the whole   *)
(* state back.  What decides a rebalance is left open: an evaluation may   *)
(* wait, settle, or go for any size up to the one of the LP.  Prices,      *)
(* margin, costs and telemetry are left out, residues called dust too.     *)
(* One process, and a protection that exists.  The exchange (external) is  *)
(* the variable short; a read of it may fail at any time, and a position   *)
(* of zero reads as no position.  Sizes are counted in slices of a TWAP.   *)
(***************************************************************************)
EXTENDS Integers, FiniteSetsExt

CONSTANTS
    Sizes,         \* sizes of the short that covers the LP
    MaxSegments,   \* bound: changes of the LP
    MaxEnds        \* bound: calls that end the protection

ASSUME ProtectionAssumption ==
    Sizes \subseteq Nat /\ MaxSegments \in Nat /\ MaxEnds \in Nat

VARIABLES
    protection,    \* the row of protected_uniswap_pools
    short,         \* the short position at the exchange
    ev,            \* the evaluation in progress, which holds the lock
    reset,         \* resetForNewSegment, which may hold it too
    end,           \* the closings in progress, by who runs them
    bound,         \* segments opened and endings asked for
    seen           \* history: what the properties speak of

protectionVars == <<protection, short, ev, reset, end, bound, seen>>

Enders == {"eval", "request", "force"}

\* strategyState.  pending is the status 'deactivation_pending'; an evaluation
\* replaces every other status, 'deactivating' among them, by one of its own.
NewState == [pending |-> FALSE, force |-> FALSE, qty |-> 0, miss |-> 0]
NoEval == [pc |-> "idle", force |-> FALSE, state |-> NewState, lp |-> 0, actual |-> 0,
           sure |-> FALSE, goal |-> 0, done |-> 0, cancel |-> FALSE, ok |-> FALSE]
NoReset == [pc |-> "idle", state |-> NewState]
NoEnd == [pc |-> "idle", state |-> NewState, actual |-> 0]

ProtectionInit ==
    /\ \E q \in Sizes :
          /\ protection = [active |-> TRUE, state |-> NewState, lp |-> q]
          /\ seen = [peak |-> q, lost |-> FALSE, owed |-> FALSE, excuse |-> {}]
    /\ short = 0
    /\ ev = NoEval /\ reset = NoReset
    /\ end = [k \in Enders |-> NoEnd]
    /\ bound = [segments |-> 0, ends |-> 0]

\* updateStrategyState writes by id, whatever the row says by then.
Write(s) == protection' = [protection EXCEPT !.state = s]
Locked == ev.pc # "idle" \/ reset.pc = "write"

-----------------------------------------------------------------------------
(* _observeHedgePosition: two reads, the second if there is evidence of a   *)
(* position, and a position missing twice in a row is confirmed missing.    *)

Missing(s) == Min({s.miss + 1, 2})

Observations(s) ==
    (IF short > 0 THEN {[actual |-> short, miss |-> 0, sure |-> TRUE]} ELSE {})
    \cup (IF s.qty = 0 THEN {[actual |-> 0, miss |-> Missing(s), sure |-> TRUE]} ELSE {})
    \cup {[actual |-> IF Missing(s) = 2 THEN 0 ELSE s.qty, miss |-> Missing(s),
           sure |-> Missing(s) = 2]}

-----------------------------------------------------------------------------
(* Evaluations.                                                             *)

\* A tick, or a forced evaluation that has waited for the lock; a signal left
\* in the row forces it too.
EvalBegins(forced) ==
    /\ ~Locked /\ protection.active
    /\ ev' = [NoEval EXCEPT !.pc = "observe", !.force = forced \/ protection.state.force,
                            !.state = protection.state, !.lp = protection.lp]
    /\ UNCHANGED <<protection, short, reset, end, bound, seen>>

\* An error thrown anywhere.
EvalFails ==
    /\ ev.pc \notin {"idle", "closing"} /\ ev' = NoEval
    /\ UNCHANGED <<protection, short, reset, end, bound, seen>>

\* No valid picture of the LP or no price: the signal is kept for later.
EvalLeavesEarly ==
    /\ ev.pc = "observe"
    /\ \E pending \in {FALSE} \cup (IF ev.force THEN {ev.state.pending} ELSE {}) :
          Write([ev.state EXCEPT !.pending = pending, !.force = ev.force])
    /\ ev' = NoEval
    /\ UNCHANGED <<short, reset, end, bound, seen>>

EvalObserves ==
    /\ ev.pc = "observe"
    /\ \E o \in Observations(ev.state) :
          ev' = [ev EXCEPT !.pc = "decide", !.actual = o.actual, !.sure = o.sure,
                           !.state.qty = o.actual, !.state.miss = o.miss]
    /\ UNCHANGED <<protection, short, reset, end, bound, seen>>

\* Unconfirmed position, or a pause of risk: even a pending ending is forgotten.
EvalPauses ==
    /\ ev.pc = "decide" /\ (~ev.sure \/ ev.actual > 0)
    /\ Write([ev.state EXCEPT !.pending = FALSE])
    /\ ev' = NoEval
    /\ UNCHANGED <<short, reset, end, bound, seen>>

\* Blocked for now, by the dwell or by a gate; the dwell keeps any signal.
EvalWaits ==
    /\ ev.pc = "decide" /\ ev.sure /\ ~ev.state.pending
    /\ \E force \in {ev.state.force, ev.force} : Write([ev.state EXCEPT !.force = force])
    /\ ev' = NoEval
    /\ UNCHANGED <<short, reset, end, bound, seen>>

\* What a signal of the row asked for is done, or being done.
Discharged == seen' = [seen EXCEPT !.owed = @ /\ ~ev.state.force]

\* The policy holds, or the order would be too small, with every gate open.
EvalSettles ==
    /\ ev.pc = "decide" /\ ev.sure /\ ~ev.state.pending
    /\ Write([ev.state EXCEPT !.force = FALSE])
    /\ ev' = NoEval /\ Discharged
    /\ UNCHANGED <<short, reset, end, bound>>

EvalGoes ==
    /\ ev.pc = "decide" /\ ev.sure /\ ~ev.state.pending
    /\ Write(ev.state)
    /\ \E q \in 0..ev.lp :
          ev' = [NoEval EXCEPT !.pc = "reread", !.state = ev.state,
                               !.actual = ev.actual, !.goal = q]
    /\ UNCHANGED <<short, reset, end, bound, seen>>

\* Variant: the position observed before the decision is used.
ReadAsObserved == ev.actual

\* _executeRebalance reads the position again before it acts.
Read == short

EvalExecutes ==
    /\ ev.pc = "reread" /\ UNCHANGED <<short, reset, end, bound>>
    /\ IF ev.goal = Read \/ (Read = 0 /\ ev.actual > 0)
       THEN ev' = NoEval /\ UNCHANGED <<protection, seen>>
       ELSE /\ Write([ev.state EXCEPT !.force = FALSE]) /\ Discharged
            /\ \E pc \in {"ioc", "twap"} :
                  ev' = [ev EXCEPT !.pc = pc, !.actual = Read, !.state.force = FALSE]

\* The position after an order of k, and whether it undoes an ending that has
\* already looked.
Moves(k) ==
    LET after == IF ev.goal > ev.actual THEN short + k ELSE Max({short - k, 0})
        late == ~protection.active \/ \E e \in {"request", "force"} : end[e].pc = "retire" IN
    /\ short' = after
    /\ seen' = [seen EXCEPT !.excuse = @ \cup (IF late /\ after > short THEN {"overlap"} ELSE {}),
                            !.lost = @ \/ (ev.pc = "twap" /\ k > 0 /\ ~ev'.ok)]

Drift == IF ev.goal > ev.actual THEN ev.goal - ev.actual ELSE ev.actual - ev.goal
Left == Drift - ev.done

\* One order of what is left: filled, in part or not at all, and the answer
\* may be lost.  It is also how a TWAP ends after an error.
EvalOrders ==
    /\ ev.pc \in {"ioc", "emergency"}
    /\ \E k \in 0..Left, ok \in BOOLEAN :
          /\ k = 0 => ~ok
          /\ ev' = [NoEval EXCEPT !.pc = "answered", !.state = ev.state,
                                  !.ok = ok \/ ev.pc = "emergency"]
          /\ Moves(k)
    /\ UNCHANGED <<protection, reset, end, bound>>

\* A slice; an error, or the cancellation an ending asks for, leads to one
\* order for all that is left, counted by the answers.
EvalSlices ==
    /\ ev.pc = "twap" /\ UNCHANGED <<protection, reset, end, bound>>
    /\ \/ /\ Left = 0
          /\ ev' = [NoEval EXCEPT !.pc = "answered", !.state = ev.state, !.ok = TRUE]
          /\ UNCHANGED <<short, seen>>
       \/ /\ Left > 0 /\ ev.cancel
          /\ ev' = [ev EXCEPT !.pc = "emergency"] /\ UNCHANGED <<short, seen>>
       \/ /\ Left > 0 /\ ~ev.cancel
          /\ \E k \in {0, 1}, ok \in BOOLEAN :
                /\ k = 0 => ~ok
                /\ ev' = IF ok THEN [ev EXCEPT !.done = @ + 1, !.ok = TRUE]
                         ELSE [ev EXCEPT !.pc = "emergency", !.ok = FALSE]
                /\ Moves(k)

EvalAnswered ==
    /\ ev.pc = "answered"
    /\ \E read \in {short, 0} :
          Write([ev.state EXCEPT !.qty = IF ev.ok THEN read ELSE @])
    /\ ev' = NoEval
    /\ UNCHANGED <<short, reset, end, bound, seen>>

-----------------------------------------------------------------------------
(* resetForNewSegment, after the row has been moved to the new LP.          *)

OpenSegment(q) ==
    /\ protection.active /\ reset.pc = "idle" /\ bound.segments < MaxSegments
    /\ protection' = [protection EXCEPT !.lp = q]
    /\ reset' = [reset EXCEPT !.pc = "wait"]
    /\ bound' = [bound EXCEPT !.segments = @ + 1]
    /\ seen' = [seen EXCEPT !.peak = Max({@, q})]
    /\ UNCHANGED <<short, ev, end>>

\* Variant: the reset does not wait for the lock.
ResetMayBeginAnyway == reset.pc = "wait"

ResetMayBegin == reset.pc = "wait" /\ ~Locked

ResetReads ==
    /\ ResetMayBegin
    /\ reset' = [pc |-> "write", state |-> protection.state]
    /\ UNCHANGED <<protection, short, ev, end, bound, seen>>

ResetWrites ==
    /\ reset.pc = "write" /\ reset' = NoReset
    /\ Write([reset.state EXCEPT !.force = TRUE, !.miss = 0])
    /\ seen' = [seen EXCEPT !.owed = TRUE]
    /\ UNCHANGED <<short, ev, end, bound>>

ResetFails ==
    /\ reset.pc # "idle" /\ reset' = NoReset
    /\ UNCHANGED <<protection, short, ev, end, bound, seen>>

-----------------------------------------------------------------------------
(* Endings: requestDeactivate, forceCloseHedge, and the evaluation of a     *)
(* protection whose ending is pending.                                      *)

EndOver(k) ==
    /\ end' = [end EXCEPT ![k] = NoEnd]
    /\ ev' = IF k = "eval" THEN NoEval ELSE ev

\* What _continueDeactivation leaves for the next evaluation to try again.
TryAgain(k, qty) ==
    /\ IF k = "force" THEN UNCHANGED protection
       ELSE Write([end[k].state EXCEPT !.pending = TRUE, !.qty = qty])
    /\ EndOver(k)

\* With a position the closing begins; without one, only the row is left.
Closes(k, s, q) ==
    /\ end' = [end EXCEPT ![k] = [pc |-> IF q = 0 THEN "retire" ELSE "close",
                                  state |-> s, actual |-> q]]
    /\ seen' = [seen EXCEPT !.excuse = @ \cup
                   IF q > 0 \/ short = 0 THEN {}
                   ELSE IF k = "eval" \/ ev.pc = "idle" THEN {"unread"} ELSE {"overlap"}]

EvalCloses ==
    /\ ev.pc = "decide" /\ ev.sure /\ ev.state.pending
    /\ ev' = [NoEval EXCEPT !.pc = "closing"] /\ Closes("eval", ev.state, ev.actual)
    /\ UNCHANGED <<protection, short, reset, bound>>

Asked == bound.ends < MaxEnds /\ bound' = [bound EXCEPT !.ends = @ + 1]

Request ==
    /\ protection.active /\ end["request"].pc = "idle" /\ Asked
    /\ end' = [end EXCEPT !["request"] = [pc |-> "mark", state |-> protection.state,
                                          actual |-> 0]]
    /\ UNCHANGED <<protection, short, ev, reset, seen>>

\* A TWAP in progress is told to stop, and the row that it is deactivating.
RequestMarks ==
    /\ end["request"].pc = "mark"
    /\ Write([end["request"].state EXCEPT !.pending = FALSE])
    /\ ev' = [ev EXCEPT !.cancel = ev.pc = "twap"]
    /\ end' = [end EXCEPT !["request"].pc = "observe",
                          !["request"].state.pending = FALSE]
    /\ UNCHANGED <<short, reset, bound, seen>>

RequestObserves ==
    LET s == end["request"].state IN
    /\ end["request"].pc = "observe" /\ UNCHANGED <<short, reset, bound>>
    /\ \E o \in Observations(s) :
          \/ ~o.sure /\ TryAgain("request", s.qty) /\ UNCHANGED seen
          \/ o.sure /\ Closes("request", s, o.actual) /\ UNCHANGED <<protection, ev>>

\* (A failed read ends the call, as no position does.)
ForceClose ==
    /\ end["force"].pc = "idle" /\ short > 0 /\ Asked
    /\ Closes("force", protection.state, short)
    /\ UNCHANGED <<protection, short, ev, reset>>

\* closePosition, reduce-only; an error before or after the fill.
EndCloses(k) ==
    LET c == end[k] IN
    /\ c.pc = "close" /\ UNCHANGED <<reset, bound, seen>>
    /\ \E q \in 0..Min({c.actual, short}), ok \in BOOLEAN :
          /\ q = 0 => ~ok
          /\ short' = short - q
          /\ IF ok THEN end' = [end EXCEPT ![k].pc = "book"] /\ UNCHANGED <<protection, ev>>
             ELSE TryAgain(k, c.state.qty)

\* The fills are booked, if they can be read.
EndBooks(k) ==
    /\ end[k].pc = "book" /\ end' = [end EXCEPT ![k].pc = "verify"]
    /\ \/ k # "force" /\ Write([end[k].state EXCEPT !.qty = 0])
       \/ UNCHANGED protection
    /\ UNCHANGED <<short, ev, reset, bound, seen>>

\* Variant: a read that fails counts as a position that is gone.
ClosedIfUnread(read) == ~read \/ short = 0

\* _verifyHedgeClosed: a read that fails closes nothing.
FoundClosed(read) == read /\ short = 0

EndVerifies(k) ==
    /\ end[k].pc = "verify" /\ UNCHANGED <<short, reset, bound, seen>>
    /\ \E read \in BOOLEAN :
          IF FoundClosed(read)
          THEN end' = [end EXCEPT ![k].pc = "retire"] /\ UNCHANGED <<protection, ev>>
          ELSE TryAgain(k, IF read THEN short ELSE end[k].actual)

\* deactivate, alone or with the state; each write may fail.
EndRetires(k) ==
    LET c == end[k]
        flat == [c.state EXCEPT !.pending = FALSE, !.qty = 0] IN
    /\ c.pc = "retire" /\ UNCHANGED <<short, reset, bound, seen>>
    /\ \/ /\ c.actual = 0
          /\ protection' \in {protection, [protection EXCEPT !.active = FALSE, !.state = flat]}
          /\ EndOver(k)
       \/ /\ c.actual > 0 /\ k # "force"
          /\ \/ protection' = [protection EXCEPT !.active = FALSE] /\ EndOver(k)
             \/ TryAgain(k, c.state.qty)
       \/ /\ c.actual > 0 /\ k = "force"
          /\ \E s \in {protection.state, flat}, active \in {protection.active, FALSE} :
                protection' = [protection EXCEPT !.active = active, !.state = s]
          /\ EndOver(k)

-----------------------------------------------------------------------------

\* The process stops: what is in memory is lost.
Crash ==
    /\ ev' = NoEval /\ reset' = NoReset /\ end' = [k \in Enders |-> NoEnd]
    /\ UNCHANGED <<protection, short, bound, seen>>

ProtectionNext ==
    \/ \E forced \in BOOLEAN : EvalBegins(forced)
    \/ EvalFails \/ EvalLeavesEarly \/ EvalObserves \/ EvalPauses \/ EvalWaits
    \/ EvalSettles \/ EvalGoes \/ EvalExecutes \/ EvalOrders \/ EvalSlices
    \/ EvalAnswered \/ EvalCloses
    \/ \E q \in Sizes : OpenSegment(q)
    \/ ResetReads \/ ResetWrites \/ ResetFails
    \/ Request \/ RequestMarks \/ RequestObserves \/ ForceClose
    \/ \E k \in Enders : EndCloses(k) \/ EndBooks(k) \/ EndVerifies(k) \/ EndRetires(k)
    \/ Crash

ProtectionSpec == ProtectionInit /\ [][ProtectionNext]_protectionVars

-----------------------------------------------------------------------------
(* Properties.                                                              *)

\* The short never exceeds what the largest LP so far needed, whatever reads
\* and answers fail and whoever closes meanwhile; the only excess is one slice
\* of a TWAP, executed with its answer lost and so ordered again.
ShortBounded == short <= seen.peak + (IF seen.lost THEN 1 ELSE 0)

\* The signal with which a new segment of the LP begins stays in the row until
\* an evaluation that has read it settles it or executes.
SegmentSignalKept ==
    seen.owed /\ protection.active /\ bound.ends = 0 => protection.state.force

\* A protection becomes inactive with its short open only if an evaluation
\* opened it again after the ending had looked, or if no read was answered.
ClosedBeforeInactive == ~protection.active /\ short > 0 => seen.excuse # {}

\* Failed reads do not deactivate a protection without closing its short
\* (protected-pool-delta-neutral.service.js:1558-1562).
NeverRetiredUnread == ~protection.active /\ short > 0 => "unread" \notin seen.excuse
=============================================================================
