----------------------------- MODULE HedgeEngine ----------------------------
(***************************************************************************)
(* One hedge of server/src/services/hedge.service.js: a stop order that    *)
(* opens a position on Hyperliquid, a stop loss that protects it, and the  *)
(* return to the start when the position closes.                           *)
(*                                                                         *)
(* A worker runs the jobs queued on the lock of the hedge (KeyedMutex: one *)
(* at a time, in order); createHedge places its first order outside the    *)
(* lock, in a thread of its own.  A thread moves from await to await, so   *)
(* an action is one call to the exchange and the block that handles its    *)
(* answer.  Prices are left out: they only choose between branches, and    *)
(* any order may fire at any time.  The exchange is external.              *)
(***************************************************************************)
EXTENDS Naturals, Sequences, FiniteSets

CONSTANTS
    Size,           \* the size of the hedge, in lots
    MaxOids,        \* bound: orders the exchange accepts in a behaviour
    MaxQueue,       \* bound: jobs waiting for the lock
    Mishaps,        \* what may go wrong: "fault", a call that fails, a message
                    \* that is lost; "crash", a restart of the process
    MaxMishaps,     \* bound: how often
    MaxRequests,    \* bound: operations asked for by users
    MaxTroubles,    \* bound: mishaps and requests together
    Requests,       \* which of UserJobs are asked for
    Executions,     \* how orders execute: "whole", in one fill; "split", in two
                    \* fills; "partial", one lot and the rest is withdrawn
    Overlaps,       \* which events may be overtaken on the way to the lock:
                    \* "list", the list of open orders a tick has read;
                    \* "fill", the fill of a job that waits behind another;
                    \* "request", an operation asked for by a user
    MaxEntryRetries,
    MaxSlRetries

UserJobs == {"cancel", "retarget", "exit"}

ASSUME HedgeAssumption ==
    /\ Size \in Nat \ {0}
    /\ {MaxOids, MaxQueue, MaxMishaps, MaxRequests, MaxTroubles} \subseteq Nat
    /\ Mishaps \subseteq {"fault", "crash"}
    /\ {MaxEntryRetries, MaxSlRetries} \subseteq Nat
    /\ Requests \subseteq UserJobs
    /\ Executions \subseteq {"whole", "split", "partial"}
    /\ Overlaps \subseteq {"list", "fill", "request"}

VARIABLES
    hedge,      \* the object in this.hedges
    row,        \* its row in the table hedges
    cycleRows,  \* its rows in the table cycles
    orders,     \* external: the open orders of the account in this asset
    pos,        \* external: the open position, in lots
    filled,     \* external: the fills of the account
    inbox,      \* the fills on their way over the websocket
    nextOid,    \* external: the next order id
    queue,      \* the jobs waiting for the lock of the hedge
    tick,       \* the list of open orders a monitor tick has read
    run,        \* what each thread is doing
    budget      \* what is left of mishaps and requests

vars == <<hedge, row, cycleRows, orders, pos, filled, inbox, nextOid, queue,
          tick, run, budget>>
exchange == <<orders, pos, filled, inbox, nextOid>>
tables == <<row, cycleRows>>

-----------------------------------------------------------------------------

NoOid == 0
Oids == 1 .. MaxOids
Lots == 0 .. Size * MaxOids

Statuses == {"entry_pending", "waiting", "entry_filled_pending_sl",
             "open_protected", "closing", "cancel_pending", "cancelled",
             "error"}
Monitored == Statuses \ {"cancelled", "error"}
PlacementBlocked == {"cancel_pending", "cancelled", "closing",
                     "entry_filled_pending_sl", "open_protected"}
OpenStatuses == {"open_protected", "entry_filled_pending_sl"}

Orders == [oid : Oids, kind : {"entry", "sl"}, sz : 1 .. Size * MaxOids]
Fills == [oid : Oids, sz : Lots]
Cycles == [cycleId : Nat, entry : Oids \cup {NoOid}, exit : Oids \cup {NoOid}]

NoOrders == [ok |-> TRUE, seen |-> {}]
Snapshots == [ok : BOOLEAN, seen : SUBSET Orders]

Hedges ==
    [status : Statuses, entryOid : Oids \cup {NoOid}, slOid : Oids \cup {NoOid},
     confirmed : BOOLEAN, entryFill : Oids \cup {NoOid}, size : Lots,
     placing : BOOLEAN, topup : BOOLEAN, cycles : Nat,
     entryRetry : Nat, slRetry : Nat]

NewHedge ==
    [status |-> "entry_pending", entryOid |-> NoOid, slOid |-> NoOid,
     confirmed |-> FALSE, entryFill |-> NoOid, size |-> 0, placing |-> FALSE,
     topup |-> FALSE, cycles |-> 0, entryRetry |-> 0, slRetry |-> 0]

Jobs == [kind : UserJobs \cup {"tick", "entryFill", "slFill", "entryTrigger",
                               "exitTrigger"},
         fill : Fills \cup {[oid |-> NoOid, sz |-> 0]},
         snap : Snapshots]

NoFill == [oid |-> NoOid, sz |-> 0]
Job(kind) == [kind |-> kind, fill |-> NoFill, snap |-> NoOrders]

\* Where a thread is: the await it stands at, and the locals that outlive it.
Frame(pc) == [pc |-> pc, onThrow |-> "log", then |-> "none", fill |-> NoFill,
              snap |-> NoOrders, pos |-> 0, breached |-> FALSE]
Threads == {"creator", "worker"}

-----------------------------------------------------------------------------
(* Shorthands.                                                             *)

\* From the grant of the lock to the first look at the flag of the placement,
\* the monitor does not wait for anything: createHedge cannot come between.
TickBlock == run["worker"].pc \in {"entryTick", "waitingTick"}

At(t, p) == run[t].pc = p /\ (t = "creator" => ~TickBlock)
Goto(t, p) == run' = [run EXCEPT ![t].pc = p]
Return(t) == run' = [run EXCEPT ![t] = Frame("idle")]

Troubles == MaxMishaps + MaxRequests - budget.mishaps - budget.requests
Spend(what) ==
    /\ budget[what] > 0 /\ Troubles < MaxTroubles
    /\ budget' = [budget EXCEPT ![what] = @ - 1]

Mishap(kind) == kind \in Mishaps /\ Spend("mishaps")

\* _emitUpdated and _save: an error is logged and swallowed, which only a
\* restart can tell.
Save(h) ==
    /\ hedge' = h
    /\ row' \in IF "crash" \in Mishaps /\ budget.mishaps > 0
                THEN {h, row} ELSE {h}
    /\ UNCHANGED cycleRows

SetStatus(s) == [hedge EXCEPT !.status = s]

\* An exception, caught where run[t].onThrow says: by _setError (fills, price
\* triggers, createHedge), by the log of the monitor or the caller's promise,
\* by the retries of _monitorWaiting, or by the callers of _ensureStopLoss.
Throw(t, h) ==
    LET caught == run[t].onThrow
        tries == h.entryRetry + 1
    IN  /\ Return(t)
        /\ \/ caught = "error" /\ Save([h EXCEPT !.status = "error"])
           \/ caught = "log" /\ hedge' = h /\ UNCHANGED tables
           \/ caught = "keep" /\ Save(h)
           \/ caught = "pendingSl"
              /\ Save([h EXCEPT !.status = "entry_filled_pending_sl"])
           \/ caught = "retry"
              /\ Save([h EXCEPT !.entryRetry = tries,
                                !.status = IF tries >= MaxEntryRetries
                                           THEN "error" ELSE @])

EntriesIn(s) == {o \in s.seen : o.kind = "entry"}
Lists(s, oid) == \E o \in s.seen : o.oid = oid
TrackedSize == IF hedge.size > 0 THEN hedge.size ELSE Size
MatchingSl(s, sz) == {o \in s.seen : o.kind = "sl" /\ o.sz = sz}

\* cancelOrder on each target.  Hyperliquid answers ok for an order that is
\* gone; a call that fails is logged, and the next target is tried.
Cancel(targets) ==
    \/ /\ orders' = {o \in orders : o.oid \notin targets}
       /\ UNCHANGED budget
    \/ \E missed \in targets :
         /\ Mishap("fault")
         /\ orders' = {o \in orders : o.oid \notin targets \ {missed}}

\* What _cancelDuplicateEntryOrders may cancel of a list of open orders: all
\* entries but the one to keep; without one to keep, all but the first.
Duplicates(s, keepOid) ==
    LET oids == {o.oid : o \in EntriesIn(s)}
    IN  IF keepOid # NoOid THEN {oids \ {keepOid}}
        ELSE IF oids = {} THEN {{}}
        ELSE {oids \ {first} : first \in oids}

-----------------------------------------------------------------------------
(* The exchange (external).                                                *)

\* The fills of an order of sz lots that executes.
PartsOf(sz) ==
    (IF "whole" \in Executions THEN {<<sz>>} ELSE {})
    \cup (IF "split" \in Executions /\ sz > 1 THEN {<<1, sz - 1>>} ELSE {})
    \cup (IF "partial" \in Executions THEN {<<1>>} ELSE {})

LotsIn(parts) == IF Len(parts) = 1 THEN parts[1] ELSE parts[1] + parts[2]

Reported(oid, parts) ==
    LET fills == [i \in DOMAIN parts |-> [oid |-> oid, sz |-> parts[i]]]
    IN  /\ inbox' = inbox \o fills
        /\ filled' = filled \cup {fills[i] : i \in DOMAIN fills}

Accepted(o) ==
    /\ nextOid <= MaxOids
    /\ nextOid' = nextOid + 1
    /\ orders' = orders \cup {o}

EntryFires ==
    \E o \in orders :
        /\ o.kind = "entry"
        /\ orders' = orders \ {o}
        /\ \E parts \in PartsOf(o.sz) :
             /\ pos' = pos + LotsIn(parts)
             /\ Reported(o.oid, parts)
        /\ UNCHANGED <<hedge, tables, nextOid, queue, tick, run, budget>>

StopLossFires ==
    \E o \in orders :
        /\ o.kind = "sl"
        /\ pos > 0
        /\ orders' = orders \ {o}
        /\ \E parts \in PartsOf(IF o.sz < pos THEN o.sz ELSE pos) :
             /\ pos' = pos - LotsIn(parts)
             /\ Reported(o.oid, parts)
        /\ UNCHANGED <<hedge, tables, nextOid, queue, tick, run, budget>>

\* A reduce-only order with nothing left to reduce is withdrawn.
StopLossLapses ==
    /\ pos = 0
    /\ \E o \in orders :
        /\ o.kind = "sl"
        /\ orders' = orders \ {o}
    /\ UNCHANGED <<hedge, tables, pos, filled, inbox, nextOid, queue, tick,
                   run, budget>>

\* The position is closed by hand or liquidated.
ClosedOutside ==
    /\ pos > 0
    /\ Mishap("fault")
    /\ pos' = 0
    /\ UNCHANGED <<hedge, tables, orders, filled, inbox, nextOid, queue, tick,
                   run>>

\* A fill is lost with the websocket connection.
FillLost ==
    /\ inbox # <<>>
    /\ Mishap("fault")
    /\ inbox' = Tail(inbox)
    /\ UNCHANGED <<hedge, tables, orders, pos, filled, nextOid, queue, tick,
                   run>>

-----------------------------------------------------------------------------
(* _placeEntryOrder.                                                       *)

\* createHedge has passed the checks and raised the flag in the block that
\* publishes the hedge; the other callers come here after an await.
PlacementBegins(t) ==
    \/ /\ At(t, "place")
       /\ hedge.status \notin PlacementBlocked
       /\ ~hedge.placing
    \/ At(t, "placing")

\* The placement is over: the flag is lowered, and _monitorWaiting, if it was
\* the caller, forgets the attempts that failed.
Placed(t, h) ==
    [h EXCEPT !.placing = FALSE,
              !.entryRetry = IF run[t].onThrow = "retry" THEN 0 ELSE @]

PlaceSkipped(t) ==
    /\ At(t, "place")
    /\ hedge.status \in PlacementBlocked \/ hedge.placing
    /\ hedge' = [hedge EXCEPT !.entryRetry = Placed(t, hedge).entryRetry]
    /\ Return(t)
    /\ UNCHANGED <<tables, exchange, queue, tick, budget>>

\* The leverage could not be set, or the position could not be read.
PlaceUnreadable(t) ==
    /\ PlacementBegins(t)
    /\ Mishap("fault")
    /\ Throw(t, [hedge EXCEPT !.placing = FALSE])
    /\ UNCHANGED <<exchange, queue, tick>>

PlaceOversized(t) ==
    /\ PlacementBegins(t)
    /\ pos > Size
    /\ hedge' = [hedge EXCEPT !.size = pos, !.placing = TRUE]
    /\ run' = [run EXCEPT ![t].pc = "oversize", ![t].then = "placed"]
    /\ UNCHANGED <<tables, exchange, queue, tick, budget>>

\* There is a position already: it is adopted, with its stop loss if the list
\* of orders at hand shows one.
PlaceAdoptsPosition(t) ==
    /\ PlacementBegins(t)
    /\ pos \in 1 .. Size
    /\ \E targets \in Duplicates(run[t].snap, NoOid) : Cancel(targets)
    /\ LET found == {o.oid : o \in MatchingSl(run[t].snap, pos)}
           adopted == [hedge EXCEPT !.size = pos, !.entryOid = NoOid,
                                    !.confirmed = TRUE]
       IN  \/ \E oid \in found :
                Save(Placed(t, [adopted EXCEPT !.slOid = oid,
                                               !.status = "open_protected"]))
           \/ /\ found = {}
              /\ Save(Placed(t, [adopted EXCEPT
                                   !.status = "entry_filled_pending_sl"]))
    /\ Return(t)
    /\ UNCHANGED <<pos, filled, inbox, nextOid, queue, tick>>

\* There is an entry order already in the list at hand: it is adopted.
PlaceAdoptsOrder(t) ==
    /\ PlacementBegins(t)
    /\ pos = 0
    /\ \E o \in EntriesIn(run[t].snap) :
         Save(Placed(t, [hedge EXCEPT !.entryOid = o.oid,
                                      !.status = "entry_pending"]))
    /\ Return(t)
    /\ UNCHANGED <<exchange, queue, tick, budget>>

\* No position, no order known: the fields of the last cycle are cleared.
PlacePrepares(t) ==
    /\ PlacementBegins(t)
    /\ pos = 0
    /\ EntriesIn(run[t].snap) = {}
    /\ hedge' = [hedge EXCEPT !.entryOid = NoOid, !.slOid = NoOid,
                              !.size = 0, !.confirmed = FALSE,
                              !.entryFill = NoOid, !.placing = TRUE]
    /\ Goto(t, "send")
    /\ UNCHANGED <<tables, exchange, queue, tick, budget>>

\* placeTriggerEntry reaches the exchange; its answer is on the way.
EntrySent(t) ==
    /\ At(t, "send")
    /\ Accepted([oid |-> nextOid, kind |-> "entry", sz |-> Size])
    /\ run' = [run EXCEPT ![t].pc = "sent",
                          ![t].fill = [oid |-> nextOid, sz |-> 0]]
    /\ UNCHANGED <<hedge, tables, pos, filled, inbox, queue, tick, budget>>

\* The order is refused, or it is accepted and the answer is lost.
EntryRefused(t) ==
    /\ At(t, "send")
    /\ \/ Mishap("fault") /\ UNCHANGED <<orders, nextOid>>
       \/ nextOid > MaxOids /\ UNCHANGED <<orders, nextOid, budget>>
       \/ Mishap("fault")
          /\ Accepted([oid |-> nextOid, kind |-> "entry", sz |-> Size])
    /\ Throw(t, [hedge EXCEPT !.placing = FALSE])
    /\ UNCHANGED <<pos, filled, inbox, queue, tick>>

\* Variant: the order is not saved with the hedge.
EntryAckedUnsaved(t) ==
    /\ At(t, "sent")
    /\ hedge' = Placed(t, [hedge EXCEPT !.entryOid = run[t].fill.oid,
                                        !.slOid = NoOid,
                                        !.status = "entry_pending"])
    /\ Return(t)
    /\ UNCHANGED <<tables, exchange, queue, tick, budget>>

EntryAcked(t) ==
    /\ At(t, "sent")
    /\ Save(Placed(t, [hedge EXCEPT !.entryOid = run[t].fill.oid,
                                    !.slOid = NoOid,
                                    !.status = "entry_pending"]))
    /\ Return(t)
    /\ UNCHANGED <<exchange, queue, tick, budget>>

\* _handleUnexpectedPositionSize, when the position is larger than the hedge:
\* the entry orders are read again and cancelled, and the hedge stops.
OversizeStops(t) ==
    /\ At(t, "oversize")
    /\ \/ Cancel({o.oid : o \in {e \in orders : e.kind = "entry"}})
       \/ Mishap("fault") /\ UNCHANGED orders
    /\ Save(IF run[t].then = "placed" THEN Placed(t, SetStatus("error"))
                                      ELSE SetStatus("error"))
    /\ Return(t)
    /\ UNCHANGED <<pos, filled, inbox, nextOid, queue, tick>>

-----------------------------------------------------------------------------
(* _ensureStopLoss.  All its callers hold the lock and have just looked at *)
(* the status: its own flag is never found raised, and the status is never *)
(* one of a cancellation.                                                  *)

SlWithoutPosition(t) ==
    /\ At(t, "sl")
    /\ \/ pos = 0 /\ UNCHANGED budget
       \/ Mishap("fault")
    /\ Throw(t, hedge)
    /\ UNCHANGED <<exchange, queue, tick>>

SlSizes(t) ==
    /\ At(t, "sl")
    /\ pos > 0
    /\ hedge' = [hedge EXCEPT !.size = pos]
    /\ Goto(t, "slOrders")
    /\ UNCHANGED <<tables, exchange, queue, tick, budget>>

\* The hedge is protected by this order.  The monitor forgets the attempts
\* that failed.
Protected(t, oid) ==
    [hedge EXCEPT !.slOid = oid, !.status = "open_protected",
                  !.slRetry = IF run[t].onThrow = "keep" THEN 0 ELSE @]

FreshSls == MatchingSl([ok |-> TRUE, seen |-> orders], TrackedSize)

SlReused(t) ==
    /\ At(t, "slOrders")
    /\ \E o \in FreshSls : Save(Protected(t, o.oid))
    /\ Return(t)
    /\ UNCHANGED <<exchange, queue, tick, budget>>

\* Variant: a stop loss is placed without looking for one.
SlMissingUnlisted(t) ==
    /\ At(t, "slOrders")
    /\ Goto(t, "slSend")
    /\ UNCHANGED <<hedge, tables, exchange, queue, tick, budget>>

\* No stop loss is found; a list that cannot be read counts as empty.
SlMissing(t) ==
    /\ At(t, "slOrders")
    /\ \/ FreshSls = {} /\ UNCHANGED budget
       \/ Mishap("fault")
    /\ Goto(t, "slSend")
    /\ UNCHANGED <<hedge, tables, exchange, queue, tick>>

\* placePositionProtection: the size is capped by the position.
NewSl == [oid |-> nextOid, kind |-> "sl",
          sz |-> IF hedge.size < pos THEN hedge.size ELSE pos]

SlSent(t) ==
    /\ At(t, "slSend")
    /\ pos > 0
    /\ Accepted(NewSl)
    /\ run' = [run EXCEPT ![t].pc = "slSent",
                          ![t].fill = [oid |-> nextOid, sz |-> 0]]
    /\ UNCHANGED <<hedge, tables, pos, filled, inbox, queue, tick, budget>>

SlRefused(t) ==
    /\ At(t, "slSend")
    /\ \/ pos = 0 /\ UNCHANGED <<orders, nextOid, budget>>
       \/ nextOid > MaxOids /\ UNCHANGED <<orders, nextOid, budget>>
       \/ Mishap("fault") /\ UNCHANGED <<orders, nextOid>>
       \/ pos > 0 /\ Mishap("fault") /\ Accepted(NewSl)
    /\ Throw(t, hedge)
    /\ UNCHANGED <<pos, filled, inbox, queue, tick>>

SlAcked(t) ==
    /\ At(t, "slSent")
    /\ Save(Protected(t, run[t].fill.oid))
    /\ Return(t)
    /\ UNCHANGED <<exchange, queue, tick, budget>>

-----------------------------------------------------------------------------
(* _onEntryFill.                                                           *)

EntryFillNoted(t) ==
    /\ At(t, "entryFill")
    /\ LET fill == run[t].fill
       IN  hedge' = [hedge EXCEPT !.confirmed = TRUE, !.entryOid = NoOid,
                                  !.entryFill = fill.oid, !.slRetry = 0,
                                  !.size = IF fill.sz > 0 THEN fill.sz ELSE @]
    /\ Goto(t, "entryRead")
    /\ UNCHANGED <<tables, exchange, queue, tick, budget>>

\* Price and position are read together; what cannot be read is ignored.  The
\* price tells whether the exit has been crossed already.
EntryFillRead(t) ==
    /\ At(t, "entryRead")
    /\ \E read \in {pos, 0}, crossed \in BOOLEAN :
         LET covered == IF read > 0 THEN read ELSE hedge.size
         IN  /\ IF read = pos THEN UNCHANGED budget ELSE Mishap("fault")
             /\ hedge' = [hedge EXCEPT !.size = covered]
             /\ run' = [run EXCEPT
                  ![t].breached = crossed,
                  ![t].pc = IF covered > Size THEN "oversize"
                            ELSE IF covered \in 1 .. (Size - 1) THEN "partial"
                            ELSE "entryExit"]
    /\ UNCHANGED <<tables, exchange, queue, tick>>

\* A partial fill: what is left of the entry is cancelled.
PartialCancels(t) ==
    /\ At(t, "partial")
    /\ \/ Cancel({o.oid : o \in {e \in orders : e.kind = "entry"}})
       \/ Mishap("fault") /\ UNCHANGED orders
    /\ hedge' = [hedge EXCEPT !.topup = TRUE]
    /\ Goto(t, IF hedge.topup THEN "entryExit" ELSE "topup")
    /\ UNCHANGED <<tables, pos, filled, inbox, nextOid, queue, tick>>

\* Variant: the whole size is sent instead of what is missing.
PartialToppedUpWhole(t) ==
    /\ At(t, "topup")
    /\ \/ /\ hedge.size < Size
          /\ nextOid <= MaxOids
          /\ pos' = pos + Size
          /\ nextOid' = nextOid + 1
          /\ filled' = filled \cup {[oid |-> nextOid, sz |-> Size]}
       \/ UNCHANGED <<pos, nextOid, filled>>
    /\ Goto(t, "entryExit")
    /\ UNCHANGED <<hedge, tables, orders, inbox, queue, tick, budget>>

\* The only attempt to complete it, with an IOC order nobody tracks.  It is
\* not sent beyond the exit price, and it may not be filled.
PartialToppedUp(t) ==
    /\ At(t, "topup")
    /\ \/ /\ hedge.size < Size
          /\ nextOid <= MaxOids
          /\ pos' = pos + (Size - hedge.size)
          /\ nextOid' = nextOid + 1
          /\ filled' = filled \cup {[oid |-> nextOid, sz |-> Size - hedge.size]}
       \/ UNCHANGED <<pos, nextOid, filled>>
    /\ Goto(t, "entryExit")
    /\ UNCHANGED <<hedge, tables, orders, inbox, queue, tick, budget>>

EntryFillBreached(t) ==
    /\ At(t, "entryExit")
    /\ run[t].breached
    /\ Save(SetStatus("closing"))
    /\ Goto(t, "exitRead")
    /\ UNCHANGED <<exchange, queue, tick, budget>>

EntryFillCovered(t) ==
    /\ At(t, "entryExit")
    /\ ~run[t].breached
    /\ Save(SetStatus("entry_filled_pending_sl"))
    /\ run' = [run EXCEPT ![t].pc = "sl", ![t].onThrow = "keep"]
    /\ UNCHANGED <<exchange, queue, tick, budget>>

\* The position is read before a reduce-only close.  Closed already after an
\* entry fill, _placeEntryOrder would follow, which "closing" blocks.
ExitRead(t) ==
    /\ At(t, "exitRead")
    /\ \/ /\ pos > 0
          /\ run' = [run EXCEPT ![t].pc = "close", ![t].pos = pos]
          /\ UNCHANGED budget
       \/ pos = 0 /\ Return(t) /\ UNCHANGED budget
       \/ Mishap("fault") /\ Return(t)
    /\ UNCHANGED <<hedge, tables, exchange, queue, tick>>

\* Variant: the order that closes is not reduce-only.
ReducedByAnyOrder(sz) ==
    \/ pos' = pos - sz /\ UNCHANGED budget
    \/ Mishap("fault") /\ UNCHANGED pos

\* _closePositionReduceOnly: an IOC order; a failure is logged.
ReducedBy(sz) ==
    \/ pos' = (IF sz < pos THEN pos - sz ELSE 0) /\ UNCHANGED budget
    \/ Mishap("fault") /\ UNCHANGED pos

\* _monitorClosing saves the hedge once more.
Closed(t) ==
    /\ At(t, "close")
    /\ ReducedBy(run[t].pos)
    /\ IF run[t].then = "save" THEN Save(hedge) ELSE UNCHANGED <<hedge, tables>>
    /\ Return(t)
    /\ UNCHANGED <<orders, filled, inbox, nextOid, queue, tick>>

-----------------------------------------------------------------------------
(* _onSlFill and the end of a cycle.                                       *)

SlFillNoted(t) ==
    /\ At(t, "slFill")
    /\ Save(SetStatus("closing"))
    /\ Goto(t, "finalize")
    /\ UNCHANGED <<exchange, queue, tick, budget>>

\* _resetAfterCycle, once n cycles are done.
AfterCycle(n) ==
    [hedge EXCEPT !.status = "waiting", !.cycles = n, !.entryOid = NoOid,
                  !.slOid = NoOid, !.confirmed = FALSE, !.entryFill = NoOid,
                  !.size = 0, !.slRetry = 0, !.entryRetry = 0]

CycleOf(exit) ==
    [cycleId |-> hedge.cycles + 1, entry |-> hedge.entryFill, exit |-> exit]

\* The unique indexes of migration 013 on the table cycles.
Conflicts(c, d) ==
    \/ c.cycleId = d.cycleId
    \/ c.entry # NoOid /\ c.entry = d.entry
    \/ c.exit # NoOid /\ c.exit = d.exit

\* _finalizeCycle: the object is reset, then the cycle and the row are written
\* in one transaction, then the next entry is placed, with no list of orders.
CycleSaved(t) ==
    LET cycle == CycleOf(run[t].fill.oid)
    IN  /\ At(t, "finalize")
        /\ \A c \in cycleRows : ~Conflicts(cycle, c)
        /\ hedge' = AfterCycle(hedge.cycles + 1)
        /\ row' = hedge'
        /\ cycleRows' = cycleRows \cup {cycle}
        /\ run' = [run EXCEPT ![t].pc = "place", ![t].fill = NoFill,
                              ![t].snap = NoOrders]
        /\ UNCHANGED <<exchange, queue, tick, budget>>

\* The transaction is rolled back, the object stays reset.
CycleNotSaved(t) ==
    /\ At(t, "finalize")
    /\ \/ /\ \E c \in cycleRows : Conflicts(CycleOf(run[t].fill.oid), c)
          /\ UNCHANGED budget
       \/ Mishap("fault")
    /\ Throw(t, AfterCycle(hedge.cycles + 1))
    /\ UNCHANGED <<exchange, queue, tick>>

\* _recoverExitFromExchange: has the stop loss been filled?  A list of fills
\* that cannot be read counts as empty.
ExitRecovered(t) ==
    /\ At(t, "exitFills")
    /\ \E f \in filled :
        /\ f.oid = hedge.slOid
        /\ run' = [run EXCEPT ![t].pc = "slFill", ![t].fill = f]
    /\ UNCHANGED <<hedge, tables, exchange, queue, tick, budget>>

ExitUnknown ==
    \/ (\A f \in filled : f.oid # hedge.slOid) /\ UNCHANGED budget
    \/ Mishap("fault")

\* _completeCycleWithoutExitFill: a cycle with a guessed price, or none at all
\* when no entry is known.
CycleGuessed(t) ==
    /\ At(t, "exitFills")
    /\ run[t].then = "complete"
    /\ ExitUnknown
    /\ \/ /\ hedge.confirmed
          /\ run' = [run EXCEPT ![t].pc = "finalize",
                                ![t].fill = [oid |-> hedge.slOid, sz |-> 0]]
          /\ UNCHANGED <<hedge, tables>>
       \/ /\ ~hedge.confirmed
          /\ Save(AfterCycle(hedge.cycles))
          /\ run' = [run EXCEPT ![t].pc = "place", ![t].snap = NoOrders]
    /\ UNCHANGED <<exchange, queue, tick>>

\* The stop loss has vanished under an open position: another is placed.
SlVanished(t) ==
    /\ At(t, "exitFills")
    /\ run[t].then = "protect"
    /\ ExitUnknown
    /\ hedge' = [hedge EXCEPT !.slOid = NoOid]
    /\ run' = [run EXCEPT ![t].pc = "sl", ![t].onThrow = "pendingSl"]
    /\ UNCHANGED <<tables, exchange, queue, tick>>

-----------------------------------------------------------------------------
(* _recoverEntryFromExchange: the entry order is gone; was it filled?      *)

EntryRecovered(t) ==
    /\ At(t, "entryFills")
    /\ \/ \E f \in filled :
            /\ f.oid = hedge.entryOid
            /\ run' = [run EXCEPT ![t].pc = "entryFill", ![t].fill = f]
            /\ UNCHANGED <<hedge, budget>>
       \/ /\ \/ (\A f \in filled : f.oid # hedge.entryOid) /\ UNCHANGED budget
             \/ Mishap("fault")
          /\ pos > 0
          /\ hedge' = [hedge EXCEPT !.size = pos]
          /\ run' = [run EXCEPT
               ![t].pc = IF pos > Size THEN "oversize" ELSE "entryFill",
               ![t].fill = [oid |-> hedge.entryOid, sz |-> 0]]
    /\ UNCHANGED <<tables, exchange, queue, tick>>

\* Neither a fill nor a position: the caller goes on.
EntryUnfilled(t) ==
    /\ At(t, "entryFills")
    /\ \/ /\ pos = 0
          /\ \/ (\A f \in filled : f.oid # hedge.entryOid) /\ UNCHANGED budget
             \/ Mishap("fault")
       \/ /\ \A f \in filled : f.oid # hedge.entryOid
          /\ Mishap("fault")
    /\ \/ /\ run[t].then = "replace"
          /\ hedge' = [hedge EXCEPT !.entryOid = NoOid]
          /\ Goto(t, "place")
       \/ /\ run[t].then = "ioc"
          /\ IF hedge.status = "entry_pending" THEN Goto(t, "iocRead")
                                               ELSE Return(t)
          /\ UNCHANGED hedge
       \/ /\ run[t].then = "stop"
          /\ Return(t)
          /\ UNCHANGED hedge
    /\ UNCHANGED <<tables, exchange, queue, tick>>

-----------------------------------------------------------------------------
(* _reconcileTriggeredEntry: the price has reached the entry and the order *)
(* has not been executed.  It is cancelled and replaced by an IOC order.   *)

Rescuable == hedge.entryOid # NoOid /\ hedge.status = "entry_pending"

\* A position has appeared: the hedge is in, or oversized.
FoundOpen(t) ==
    /\ pos > 0
    /\ hedge' = [hedge EXCEPT !.size = pos]
    /\ run' = [run EXCEPT ![t].pc = IF pos > Size THEN "oversize"
                                                  ELSE "entryFills",
                          ![t].then = "stop"]
    /\ UNCHANGED budget

\* The grace period of the order is not over or the price has turned; the open
\* orders cannot be read; or the price is beyond the exit as well, which was
\* moved across the entry while the position of an earlier cycle was open.
RescueDeclined(t) ==
    /\ At(t, "rescue")
    /\ \/ UNCHANGED <<hedge, tables, budget>>
       \/ run[t].then # "listed" /\ Mishap("fault") /\ Save(hedge)
       \/ /\ "exit" \in Requests
          /\ Rescuable
          /\ Save(SetStatus("error"))
          /\ UNCHANGED budget
    /\ Return(t)
    /\ UNCHANGED <<exchange, queue, tick>>

\* The websocket brings no list of open orders; the monitor brings its own.
RescueLists(t) ==
    /\ At(t, "rescue")
    /\ Rescuable
    /\ run' = [run EXCEPT ![t].pc = "rescueRead",
                          ![t].snap = IF run[t].then = "listed" THEN @
                                      ELSE [ok |-> TRUE, seen |-> orders]]
    /\ UNCHANGED <<hedge, tables, exchange, queue, tick, budget>>

\* Variant: the order that did not execute is not cancelled.
RescueReadsUncancelled(t) ==
    /\ At(t, "rescueRead")
    /\ \/ FoundOpen(t)
       \/ /\ \/ pos = 0 /\ UNCHANGED budget
             \/ Mishap("fault")
          /\ IF Rescuable
             THEN run' = [run EXCEPT ![t].then = "ioc", ![t].pc = "entryFills"]
             ELSE Return(t)
          /\ UNCHANGED hedge
    /\ UNCHANGED <<tables, exchange, queue, tick>>

\* A position that cannot be read counts as none here.
RescueReads(t) ==
    /\ At(t, "rescueRead")
    /\ \/ FoundOpen(t)
       \/ /\ \/ pos = 0 /\ UNCHANGED budget
             \/ Mishap("fault")
          /\ IF Rescuable
             THEN run' = [run EXCEPT
                    ![t].then = "ioc",
                    ![t].pc = IF Lists(run[t].snap, hedge.entryOid)
                              THEN "rescueCancel" ELSE "entryFills"]
             ELSE Return(t)
          /\ UNCHANGED hedge
    /\ UNCHANGED <<tables, exchange, queue, tick>>

RescueCancels(t) ==
    /\ At(t, "rescueCancel")
    /\ \/ /\ orders' = {o \in orders : o.oid # hedge.entryOid}
          /\ Goto(t, "rescueConfirm")
          /\ UNCHANGED <<hedge, tables, budget>>
       \/ /\ Mishap("fault")
          /\ Save(hedge)
          /\ Return(t)
          /\ UNCHANGED orders
    /\ UNCHANGED <<pos, filled, inbox, nextOid, queue, tick>>

\* Orders and position are read again before the IOC order is considered.
\* The position that cannot be read counts as none, the orders do not.
RescueConfirms(t) ==
    LET open == \E o \in orders : o.oid = hedge.entryOid
    IN  /\ At(t, "rescueConfirm")
        /\ \/ FoundOpen(t) /\ UNCHANGED tables
           \/ /\ Mishap("fault")
              /\ Save(hedge)
              /\ Return(t)
           \/ /\ \/ pos = 0 /\ UNCHANGED budget
                 \/ Mishap("fault")
              /\ IF Rescuable /\ open THEN Save(hedge) ELSE UNCHANGED <<hedge, tables>>
              /\ IF Rescuable /\ ~open THEN Goto(t, "entryFills") ELSE Return(t)
        /\ UNCHANGED <<exchange, queue, tick>>

\* The last look: without a reading there is no IOC order.
RescueClears(t) ==
    /\ At(t, "iocRead")
    /\ \/ FoundOpen(t) /\ UNCHANGED tables
       \/ /\ pos = 0
          /\ hedge' = [hedge EXCEPT !.entryOid = NoOid, !.slOid = NoOid]
          /\ run' = [run EXCEPT ![t].pc = "iocSend",
                                ![t].fill = [oid |-> hedge.entryOid, sz |-> 0]]
          /\ UNCHANGED <<tables, budget>>
       \/ /\ Mishap("fault")
          /\ Save(hedge)
          /\ Return(t)
    /\ UNCHANGED <<exchange, queue, tick>>

IocSent(t) ==
    /\ At(t, "iocSend")
    /\ nextOid <= MaxOids
    /\ nextOid' = nextOid + 1
    /\ \E parts \in PartsOf(Size) :
         /\ pos' = pos + LotsIn(parts)
         /\ Reported(nextOid, parts)
    /\ run' = [run EXCEPT ![t].pc = "iocSent",
                          ![t].fill = [oid |-> nextOid, sz |-> 0]]
    /\ UNCHANGED <<hedge, tables, orders, queue, tick, budget>>

IocRefused(t) ==
    /\ At(t, "iocSend")
    /\ \/ Mishap("fault")
       \/ nextOid > MaxOids /\ UNCHANGED budget
    /\ Save(hedge)
    /\ Return(t)
    /\ UNCHANGED <<exchange, queue, tick>>

IocAcked(t) ==
    /\ At(t, "iocSent")
    /\ Save([hedge EXCEPT !.entryOid = run[t].fill.oid])
    /\ Return(t)
    /\ UNCHANGED <<exchange, queue, tick, budget>>

-----------------------------------------------------------------------------
(* The monitor, for each status (hedge-monitor.mixin.js).                  *)

\* _monitorEntryPending while another thread is placing, or _monitorWaiting
\* then or without a list of orders: the hedge is saved.
TickWaits(t) ==
    /\ \/ At(t, "entryTick") /\ hedge.placing
       \/ At(t, "waitingTick") /\ (hedge.placing \/ ~run[t].snap.ok)
       \/ At(t, "entryTick") /\ hedge.entryOid = NoOid /\ ~run[t].snap.ok
    /\ Save(hedge)
    /\ Return(t)
    /\ UNCHANGED <<exchange, queue, tick, budget>>

WaitingRetried(t) ==
    /\ At(t, "waitingTick")
    /\ ~hedge.placing
    /\ run[t].snap.ok
    /\ run' = [run EXCEPT ![t].pc = "place", ![t].onThrow = "retry"]
    /\ UNCHANGED <<hedge, tables, exchange, queue, tick, budget>>

\* Duplicates in the list are cancelled, then the entry order is looked up.
EntryChecked(t) ==
    LET snap == run[t].snap
        next(oid) == IF oid = NoOid THEN "place"
                     ELSE IF snap.ok /\ ~Lists(snap, oid) THEN "entryFills"
                     ELSE IF snap.ok THEN "rescue"
                     ELSE "idle"
    IN  /\ At(t, "entryTick")
        /\ ~hedge.placing
        /\ hedge.entryOid # NoOid \/ snap.ok
        /\ \E targets \in Duplicates(snap, hedge.entryOid) :
             /\ Cancel(targets)
             /\ \E kept \in ({o.oid : o \in EntriesIn(snap)} \ targets)
                             \cup {hedge.entryOid} :
                  /\ kept = NoOid => EntriesIn(snap) = {}
                  /\ hedge' = [hedge EXCEPT !.entryOid = kept]
                  /\ IF next(kept) = "idle" THEN Return(t)
                     ELSE run' = [run EXCEPT
                            ![t].pc = next(kept),
                            ![t].then = IF next(kept) = "rescue"
                                        THEN "listed" ELSE "replace"]
        /\ UNCHANGED <<tables, pos, filled, inbox, nextOid, queue, tick>>

PositionTick(t) ==
    \/ At(t, "pendingSlTick")
    \/ At(t, "closingTick")
    \/ At(t, "protectedTick")

\* Variant: a failed reading is taken for a closed position.
PositionUnreadableAsGone(t) ==
    /\ PositionTick(t)
    /\ Mishap("fault")
    /\ run' = [run EXCEPT ![t].pc = "exitFills", ![t].then = "complete"]
    /\ UNCHANGED <<hedge, tables, exchange, queue, tick>>

PositionUnreadable(t) ==
    /\ PositionTick(t)
    /\ Mishap("fault")
    /\ Save(hedge)
    /\ Return(t)
    /\ UNCHANGED <<exchange, queue, tick>>

PositionGone(t) ==
    /\ PositionTick(t)
    /\ pos = 0
    /\ run' = [run EXCEPT ![t].pc = "exitFills", ![t].then = "complete"]
    /\ UNCHANGED <<hedge, tables, exchange, queue, tick, budget>>

PositionOversized(t) ==
    /\ At(t, "pendingSlTick") \/ At(t, "protectedTick")
    /\ pos > Size
    /\ hedge' = [hedge EXCEPT !.size = pos]
    /\ Goto(t, "oversize")
    /\ UNCHANGED <<tables, exchange, queue, tick, budget>>

\* The position is there: entry orders left over are cancelled, all but the
\* first of the list.
PositionSeen(t) ==
    /\ \/ At(t, "pendingSlTick") /\ Goto(t, "pendingSlNext")
       \/ At(t, "protectedTick") /\ Goto(t, "protectedNext")
    /\ pos \in 1 .. Size
    /\ hedge' = [hedge EXCEPT !.size = pos]
    /\ \E targets \in Duplicates(run[t].snap, NoOid) : Cancel(targets)
    /\ UNCHANGED <<tables, pos, filled, inbox, nextOid, queue, tick>>

SlListed(t) == hedge.slOid # NoOid /\ Lists(run[t].snap, hedge.slOid)

PendingSlFound(t) ==
    /\ At(t, "pendingSlNext")
    /\ SlListed(t)
    /\ Save(SetStatus("open_protected"))
    /\ Return(t)
    /\ UNCHANGED <<exchange, queue, tick, budget>>

\* The exit price is crossed: the position is closed at the market.
PendingSlBreached(t) ==
    /\ At(t, "pendingSlNext")
    /\ ~SlListed(t)
    /\ Save(SetStatus("closing"))
    /\ run' = [run EXCEPT ![t].pc = "close", ![t].pos = hedge.size]
    /\ UNCHANGED <<exchange, queue, tick, budget>>

\* No list of orders, or the stop loss was placed less than 30 s ago.
PendingSlGrace(t) ==
    /\ At(t, "pendingSlNext")
    /\ ~SlListed(t)
    /\ hedge.slOid # NoOid
    /\ Save(hedge)
    /\ Return(t)
    /\ UNCHANGED <<exchange, queue, tick, budget>>

PendingSlRetried(t) ==
    LET tried == [hedge EXCEPT !.slRetry = @ + 1]
    IN  /\ At(t, "pendingSlNext")
        /\ ~SlListed(t)
        /\ run[t].snap.ok \/ hedge.slOid = NoOid
        /\ \/ /\ tried.slRetry <= MaxSlRetries
              /\ hedge' = tried
              /\ run' = [run EXCEPT ![t].pc = "sl", ![t].onThrow = "keep"]
              /\ UNCHANGED tables
           \/ /\ tried.slRetry > MaxSlRetries
              /\ Save([tried EXCEPT !.status = "error"])
              /\ Return(t)
        /\ UNCHANGED <<exchange, queue, tick, budget>>

\* Closing: after the timeout the close is sent again.
ClosingRetried(t) ==
    /\ At(t, "closingTick")
    /\ pos > 0
    /\ hedge' = [hedge EXCEPT !.size = pos]
    /\ run' = [run EXCEPT ![t].pc = "close", ![t].pos = pos, ![t].then = "save"]
    /\ UNCHANGED <<tables, exchange, queue, tick, budget>>

ClosingAwaited(t) ==
    /\ At(t, "closingTick")
    /\ pos > 0
    /\ Save([hedge EXCEPT !.size = pos])
    /\ Return(t)
    /\ UNCHANGED <<exchange, queue, tick, budget>>

\* The exit price is crossed: the stop loss is cancelled first.
ProtectedBreached(t) ==
    /\ At(t, "protectedNext")
    /\ \/ /\ SlListed(t)
          /\ Cancel({hedge.slOid})
          /\ Save([hedge EXCEPT !.status = "closing", !.slOid = NoOid])
       \/ /\ ~SlListed(t)
          /\ Save(SetStatus("closing"))
          /\ UNCHANGED <<orders, budget>>
    /\ run' = [run EXCEPT ![t].pc = "close", ![t].pos = hedge.size]
    /\ UNCHANGED <<pos, filled, inbox, nextOid, queue, tick>>

ProtectedHolds(t) ==
    /\ At(t, "protectedNext")
    /\ \/ ~run[t].snap.ok \/ SlListed(t)
    /\ Save(hedge)
    /\ Return(t)
    /\ UNCHANGED <<exchange, queue, tick, budget>>

ProtectedLost(t) ==
    /\ At(t, "protectedNext")
    /\ run[t].snap.ok
    /\ ~SlListed(t)
    /\ Save(hedge)
    /\ run' = [run EXCEPT ![t].pc = "exitFills", ![t].then = "protect"]
    /\ UNCHANGED <<exchange, queue, tick, budget>>

-----------------------------------------------------------------------------
(* _reconcileCancelPending, for cancelHedge and for the monitor.           *)

\* Orders and position are asked for together; a failed read counts as empty.
\* The orders of the hedge are cancelled, the position is to be closed.
CancelReads(t) ==
    /\ At(t, "cancelRead")
    /\ \E seen \in {orders, {}}, read \in {pos, 0} :
         /\ \/ seen = orders /\ read = pos /\ UNCHANGED budget
            \/ (seen # orders \/ read # pos) /\ Mishap("fault")
         /\ run' = [run EXCEPT
              ![t].pc = "cancelOrders", ![t].pos = read,
              ![t].snap = [ok |-> TRUE, seen |-> seen]]
    /\ UNCHANGED <<hedge, tables, exchange, queue, tick>>

CancelOrders(t) ==
    /\ At(t, "cancelOrders")
    /\ Cancel({o.oid : o \in run[t].snap.seen}
              \cap {hedge.entryOid, hedge.slOid})
    /\ Goto(t, IF run[t].pos > 0 THEN "cancelClose" ELSE "cancelConfirm")
    /\ UNCHANGED <<hedge, tables, pos, filled, inbox, nextOid, queue, tick>>

CancelCloses(t) ==
    /\ At(t, "cancelClose")
    /\ ReducedBy(run[t].pos)
    /\ Goto(t, "cancelConfirm")
    /\ UNCHANGED <<hedge, tables, orders, filled, inbox, nextOid, queue, tick>>

\* The second reading: orders first, or position first.
CancelConfirmsOrders(t) ==
    /\ At(t, "cancelConfirm")
    /\ \A o \in orders : o.oid \notin {hedge.entryOid, hedge.slOid}
    /\ Goto(t, "cancelLastPos")
    /\ UNCHANGED <<hedge, tables, exchange, queue, tick, budget>>

CancelConfirmsPos(t) ==
    /\ At(t, "cancelConfirm")
    /\ pos = 0
    /\ Goto(t, "cancelLastOrders")
    /\ UNCHANGED <<hedge, tables, exchange, queue, tick, budget>>

\* Variant: cancelled without the second reading.
CancelDoneUnconfirmed(t) ==
    /\ At(t, "cancelConfirm")
    /\ Save([hedge EXCEPT !.status = "cancelled", !.entryOid = NoOid,
                          !.slOid = NoOid])
    /\ Return(t)
    /\ UNCHANGED <<exchange, queue, tick, budget>>

\* Both say flat: the hedge is cancelled.
CancelDone(t) ==
    /\ \/ At(t, "cancelLastPos") /\ pos = 0
       \/ /\ At(t, "cancelLastOrders")
          /\ \A o \in orders : o.oid \notin {hedge.entryOid, hedge.slOid}
    /\ Save([hedge EXCEPT !.status = "cancelled", !.entryOid = NoOid,
                          !.slOid = NoOid])
    /\ Return(t)
    /\ UNCHANGED <<exchange, queue, tick, budget>>

\* Something is left, or could not be read: the monitor will try again.
CancelPostponed(t) ==
    LET left == \E o \in orders : o.oid \in {hedge.entryOid, hedge.slOid}
    IN  /\ \/ At(t, "cancelConfirm") /\ (left \/ pos > 0) /\ UNCHANGED budget
           \/ At(t, "cancelLastPos") /\ pos > 0 /\ UNCHANGED budget
           \/ At(t, "cancelLastOrders") /\ left /\ UNCHANGED budget
           \/ At(t, "cancelConfirm") /\ Mishap("fault")
        /\ Save(hedge)
        /\ Return(t)
        /\ UNCHANGED <<exchange, queue, tick>>

\* After 5 minutes the monitor gives up.
CancelTimedOut(t) ==
    /\ At(t, "cancelTick")
    /\ Save(SetStatus("error"))
    /\ Return(t)
    /\ UNCHANGED <<exchange, queue, tick, budget>>

CancelTick(t) ==
    /\ At(t, "cancelTick")
    /\ Goto(t, "cancelRead")
    /\ UNCHANGED <<hedge, tables, exchange, queue, tick, budget>>

CancelBegins(t) ==
    /\ At(t, "cancel")
    /\ Save(SetStatus("cancel_pending"))
    /\ Goto(t, "cancelRead")
    /\ UNCHANGED <<exchange, queue, tick, budget>>

-----------------------------------------------------------------------------
(* The other operations run under the lock.                                *)

\* Variant: the entry order is forgotten, not cancelled.
RetargetsUncancelled(t) ==
    /\ At(t, "retarget")
    /\ Save([hedge EXCEPT !.entryOid = NoOid, !.status = "waiting"])
    /\ Goto(t, "place")
    /\ UNCHANGED <<exchange, queue, tick, budget>>

\* retargetPendingHedge: the entry order is cancelled and placed elsewhere.
Retargets(t) ==
    /\ At(t, "retarget")
    /\ orders' = {o \in orders : o.oid # hedge.entryOid}
    /\ Save([hedge EXCEPT !.entryOid = NoOid, !.status = "waiting"])
    /\ Goto(t, "place")
    /\ UNCHANGED <<pos, filled, inbox, nextOid, queue, tick, budget>>

\* updateOpenHedgeExit, updateOpenHedgeDynamicAnchor: the stop loss is
\* cancelled and placed elsewhere.
MovesExit(t) ==
    /\ At(t, "exit")
    /\ \/ /\ hedge.status \in OpenStatuses
          /\ orders' = {o \in orders : o.oid # hedge.slOid}
          /\ Save([hedge EXCEPT !.slOid = NoOid,
                                !.status = "entry_filled_pending_sl"])
          /\ Goto(t, "sl")
       \/ /\ hedge.status \notin OpenStatuses
          /\ Save(hedge)
          /\ Return(t)
          /\ UNCHANGED orders
    /\ UNCHANGED <<pos, filled, inbox, nextOid, queue, tick, budget>>

\* A call fails before anything is changed: the caller is told.
RequestFails(t) ==
    /\ \/ At(t, "retarget")
       \/ At(t, "exit") /\ hedge.status \in OpenStatuses
    /\ Mishap("fault")
    /\ Return(t)
    /\ UNCHANGED <<hedge, tables, exchange, queue, tick>>

\* _handleEntryTrigger.
EntryTriggered(t) ==
    /\ At(t, "entryTrigger")
    /\ IF Rescuable
       THEN run' = [run EXCEPT ![t].pc = "rescue", ![t].then = "unlisted"]
       ELSE Return(t)
    /\ UNCHANGED <<hedge, tables, exchange, queue, tick, budget>>

\* _handleExitTrigger.
ExitTriggered(t) ==
    /\ At(t, "exitTrigger")
    /\ \/ /\ hedge.status = "open_protected"
          /\ Cancel({hedge.slOid} \ {NoOid})
          /\ Save([hedge EXCEPT !.slOid = NoOid, !.status = "closing"])
          /\ Goto(t, "exitRead")
       \/ /\ hedge.status # "open_protected"
          /\ Return(t)
          /\ UNCHANGED <<hedge, tables, orders, budget>>
    /\ UNCHANGED <<pos, filled, inbox, nextOid, queue, tick>>

-----------------------------------------------------------------------------
(* The lock and what is queued on it.                                      *)

Enqueue(job) ==
    /\ Len(queue) < MaxQueue
    /\ queue' = Append(queue, job)

\* The handler the monitor calls for each status.
Handlers ==
    [cancel_pending |-> "cancelTick", waiting |-> "waitingTick",
     entry_pending |-> "entryTick", entry_filled_pending_sl |-> "pendingSlTick",
     closing |-> "closingTick", open_protected |-> "protectedTick"]

\* Variants: one status is left to itself.
HandledButClosing == DOMAIN Handlers \ {"closing"}
HandledButPendingSl == DOMAIN Handlers \ {"entry_filled_pending_sl"}
HandledButCancel == DOMAIN Handlers \ {"cancel_pending"}

Handled == DOMAIN Handlers

TickPc == [s \in Statuses |-> IF s \in Handled THEN Handlers[s] ELSE "idle"]

\* What the _setError of onFill and of onPriceUpdate is there for.
CaughtAsError == {"entryFill", "slFill", "entryTrigger", "exitTrigger"}

\* Without overlaps of this kind, the event comes when nothing is under way.
Unhurried(kind) ==
    kind \notin Overlaps => queue = <<>> /\ \A t \in Threads : At(t, "idle")

\* Only a tick brings a list of open orders with it; to the other jobs, no
\* list is an empty one.
ListAtHand(job) ==
    IF job.kind = "tick" /\ job.snap.ok /\ "list" \notin Overlaps
    THEN [job.snap EXCEPT !.seen = orders]
    ELSE job.snap

\* The lock is granted to the first in the queue.  The monitor looks at the
\* status now, the handlers of fills do not look at it again.
JobStarts ==
    /\ At("worker", "idle")
    /\ queue # <<>>
    /\ LET job == Head(queue)
           pc == IF job.kind = "tick" THEN TickPc[hedge.status] ELSE job.kind
       IN  run' = [run EXCEPT !["worker"] =
                     IF pc = "idle" THEN Frame("idle")
                     ELSE [Frame(pc) EXCEPT
                             !.fill = job.fill, !.snap = ListAtHand(job),
                             !.onThrow = IF job.kind \in CaughtAsError
                                         THEN "error" ELSE "log"]]
    /\ queue' = Tail(queue)
    /\ UNCHANGED <<hedge, tables, exchange, tick, budget>>

\* onFill: the fill is matched against the hedge when it arrives.
FillMatches(fill) ==
    IF fill.oid = hedge.entryOid /\ hedge.status = "entry_pending"
    THEN {"entryFill"}
    ELSE IF fill.oid = hedge.slOid /\ hedge.status \in OpenStatuses \cup {"closing"}
    THEN {"slFill"}
    ELSE {}

FillArrives ==
    /\ inbox # <<>>
    /\ Unhurried("fill")
    /\ LET fill == Head(inbox)
       IN  IF FillMatches(fill) = {}
           THEN UNCHANGED queue
           ELSE \E kind \in FillMatches(fill) :
                  Enqueue([Job(kind) EXCEPT !.fill = fill])
    /\ inbox' = Tail(inbox)
    /\ UNCHANGED <<hedge, tables, orders, pos, filled, nextOid, tick, run,
                   budget>>

\* onPriceUpdate: the entry or the exit price is reached.
PriceArrives ==
    /\ \/ Rescuable /\ Enqueue(Job("entryTrigger"))
       \/ hedge.status = "open_protected" /\ Enqueue(Job("exitTrigger"))
    /\ UNCHANGED <<hedge, tables, exchange, tick, run, budget>>

\* _monitorPositions up to the lock: the open orders are read once, then the
\* tick waits for the lock with that list.
NoTick == [ok |-> FALSE, seen |-> {}, on |-> FALSE]

TickReads ==
    /\ ~tick.on
    /\ hedge.status \in Monitored
    /\ \/ tick' = [ok |-> TRUE, seen |-> orders, on |-> TRUE] /\ UNCHANGED budget
       \/ tick' = [NoTick EXCEPT !.on = TRUE] /\ Mishap("fault")
    /\ UNCHANGED <<hedge, tables, exchange, queue, run>>

\* Variant: the monitor looks at the status before it waits for the lock.
TickQueuedDispatched ==
    /\ tick.on
    /\ Enqueue([Job(TickPc[hedge.status]) EXCEPT
                  !.snap = [ok |-> tick.ok, seen |-> tick.seen]])
    /\ tick' = NoTick
    /\ UNCHANGED <<hedge, tables, exchange, run, budget>>

TickQueued ==
    /\ tick.on
    /\ Enqueue([Job("tick") EXCEPT !.snap = [ok |-> tick.ok, seen |-> tick.seen]])
    /\ tick' = NoTick
    /\ UNCHANGED <<hedge, tables, exchange, run, budget>>

\* An operation is asked for.  What cancelHedge and retargetPendingHedge check
\* of the status, they check before they queue.
Requested(kind) ==
    /\ Unhurried("request")
    /\ kind = "cancel" => hedge.status # "cancelled"
    /\ kind = "retarget" => hedge.status \in {"waiting", "entry_pending", "error"}
    /\ Spend("requests")
    /\ Enqueue(Job(kind))
    /\ UNCHANGED <<hedge, tables, exchange, tick, run>>

\* The process stops and starts again: init loads the rows.  The fills on
\* their way are lost with the connection.
Crash ==
    /\ Mishap("crash")
    /\ hedge' = [row EXCEPT !.placing = FALSE, !.topup = FALSE,
                            !.entryRetry = 0, !.slRetry = 0,
                            !.cycles = Cardinality(cycleRows)]
    /\ run' = [t \in Threads |-> Frame("idle")]
    /\ queue' = <<>>
    /\ tick' = NoTick
    /\ inbox' = <<>>
    /\ UNCHANGED <<tables, orders, pos, filled, nextOid>>

-----------------------------------------------------------------------------

\* createHedge has inserted the row and is about to place the first order.
Init ==
    /\ hedge = [NewHedge EXCEPT !.placing = TRUE]
    /\ row = NewHedge
    /\ cycleRows = {}
    /\ orders = {}
    /\ pos = 0
    /\ filled = {}
    /\ inbox = <<>>
    /\ nextOid = 1
    /\ queue = <<>>
    /\ tick = NoTick
    /\ run = [t \in Threads |->
                IF t = "creator"
                THEN [Frame("placing") EXCEPT !.onThrow = "error"]
                ELSE Frame("idle")]
    /\ budget = [mishaps |-> MaxMishaps, requests |-> MaxRequests]

Placement(t) ==
    \/ PlaceSkipped(t) \/ PlaceUnreadable(t) \/ PlaceOversized(t)
    \/ PlaceAdoptsPosition(t) \/ PlaceAdoptsOrder(t) \/ PlacePrepares(t)
    \/ EntrySent(t) \/ EntryRefused(t) \/ EntryAcked(t) \/ OversizeStops(t)

StopLoss(t) ==
    \/ SlWithoutPosition(t) \/ SlSizes(t) \/ SlReused(t)
    \/ SlMissing(t) \/ SlSent(t) \/ SlRefused(t) \/ SlAcked(t)

EntryFill(t) ==
    \/ EntryFillNoted(t) \/ EntryFillRead(t) \/ PartialCancels(t)
    \/ PartialToppedUp(t) \/ EntryFillBreached(t) \/ EntryFillCovered(t)
    \/ ExitRead(t) \/ Closed(t)

CycleEnd(t) ==
    \/ SlFillNoted(t) \/ CycleSaved(t) \/ CycleNotSaved(t)
    \/ ExitRecovered(t) \/ CycleGuessed(t) \/ SlVanished(t)

Rescue(t) ==
    \/ EntryRecovered(t) \/ EntryUnfilled(t) \/ RescueDeclined(t)
    \/ RescueLists(t) \/ RescueReads(t) \/ RescueCancels(t)
    \/ RescueConfirms(t) \/ RescueClears(t) \/ IocSent(t) \/ IocRefused(t)
    \/ IocAcked(t)

Monitor(t) ==
    \/ TickWaits(t) \/ WaitingRetried(t) \/ EntryChecked(t)
    \/ PositionUnreadable(t) \/ PositionGone(t) \/ PositionOversized(t)
    \/ PositionSeen(t) \/ PendingSlFound(t) \/ PendingSlBreached(t)
    \/ PendingSlGrace(t) \/ PendingSlRetried(t) \/ ClosingRetried(t)
    \/ ClosingAwaited(t) \/ ProtectedBreached(t) \/ ProtectedHolds(t)
    \/ ProtectedLost(t)

Cancellation(t) ==
    \/ CancelBegins(t) \/ CancelTick(t) \/ CancelTimedOut(t) \/ CancelReads(t)
    \/ CancelOrders(t) \/ CancelCloses(t) \/ CancelConfirmsOrders(t)
    \/ CancelConfirmsPos(t) \/ CancelDone(t) \/ CancelPostponed(t)

Operation(t) ==
    \/ Retargets(t) \/ MovesExit(t) \/ RequestFails(t) \/ EntryTriggered(t)
    \/ ExitTriggered(t)

Runs(t) ==
    \/ Placement(t) \/ StopLoss(t) \/ EntryFill(t) \/ CycleEnd(t)
    \/ Rescue(t) \/ Monitor(t) \/ Cancellation(t) \/ Operation(t)

Exchange == EntryFires \/ StopLossFires \/ StopLossLapses \/ ClosedOutside

Next ==
    \/ Exchange
    \/ FillLost \/ FillArrives \/ PriceArrives
    \/ TickReads \/ TickQueued \/ JobStarts
    \/ \E kind \in Requests : Requested(kind)
    \/ Crash
    \/ \E t \in Threads : Runs(t)

Spec == Init /\ [][Next]_vars

-----------------------------------------------------------------------------
(* Fairness.  Promises settle and the event loop runs what they wake; the  *)
(* monitor ticks every 30 s; a fill that is sent arrives in the end, lost  *)
(* ones apart.  Where a branch depends on the time elapsed (the grace of a *)
(* stop loss, the timeout of a close) the branch after it is taken in the  *)
(* end.  No price ever has to come, no order has to fire, no user to ask.  *)

Fairness ==
    /\ WF_vars(Runs("worker"))
    /\ SF_vars(Runs("creator"))
    /\ WF_vars(JobStarts)
    /\ SF_vars(FillArrives)
    /\ WF_vars(TickReads)
    /\ SF_vars(TickQueued)
    /\ SF_vars(ClosingRetried("worker"))
    /\ SF_vars(PendingSlRetried("worker"))

FairSpec == Spec /\ Fairness

-----------------------------------------------------------------------------
(* Properties.                                                             *)

Entries == {o \in orders : o.kind = "entry"}
StopLosses == {o \in orders : o.kind = "sl"}
Stopped == hedge.status \in {"error", "cancelled"}
Quiescent == queue = <<>> /\ \A t \in Threads : run[t].pc = "idle"

\* The rows and objects are those of a hedge, and the position is one of whole
\* lots: no order that only reduces ever turns it round.
TypeOK ==
    /\ hedge \in Hedges
    /\ row \in Hedges
    /\ cycleRows \subseteq Cycles
    /\ orders \subseteq Orders
    /\ pos \in Lots
    /\ filled \subseteq Fills
    /\ \A i \in DOMAIN inbox : inbox[i] \in Fills
    /\ nextOid \in 1 .. MaxOids + 1
    /\ \A t \in Threads : run[t].pos \in Lots

\* What the hedge can lose is bounded by its size: it is in, with nothing that
\* could add to the position, or out, with at most one entry order, of its
\* size.  Placement, adoption, rescue and retarget all work to keep it so.
ExposureBounded ==
    \/ pos <= Size /\ Entries = {}
    \/ pos = 0 /\ Cardinality(Entries) <= 1 /\ \A o \in Entries : o.sz = Size

\* A position is never protected twice: a second stop loss of its size is
\* reused by _ensureStopLoss, a moved one is cancelled before it is replaced.
OneStopLoss == Cardinality(StopLosses) <= 1

\* A position never grows beyond the size of the hedge, whatever is left open.
NeverOversized == pos <= Size

\* _reconcileCancelPending says cancelled only of a hedge that is flat, with
\* no order of its own left on the exchange.
CancelledIsFlat ==
    [][hedge'.status = "cancelled" /\ hedge.status # "cancelled"
       => pos = 0 /\ orders = {}]_vars

\* Nothing revives a cancelled hedge: no fill, tick or request that was under
\* way when it was cancelled.
CancelledIsFinal ==
    [][hedge.status = "cancelled" => hedge'.status = "cancelled"]_vars

\* The IOC order of _reconcileTriggeredEntry replaces an order that is neither
\* open nor executed: monitor and websocket do not enter the same cycle twice.
RescueReplacesDeadOrder ==
    [][\A t \in Threads :
         IocSent(t) => \A o \in orders \cup filled : o.oid # run[t].fill.oid]_vars

\* A cycle is recorded when the position it tells of is closed, not before and
\* not again while the next one is open.
CycleClosesPosition == [][cycleRows' # cycleRows => pos = 0]_vars

\* When nothing runs and nothing has gone wrong the row says what the object
\* says: a restart would go on from the same status with the same orders.
\* (Behaviours that have used up the order ids end in refusals, which are not
\* of interest here.)
QuietIsSaved ==
    Quiescent /\ budget.mishaps = MaxMishaps /\ nextOid <= MaxOids =>
        /\ row.status = hedge.status
        /\ row.entryOid = hedge.entryOid
        /\ row.slOid = hedge.slOid

\* No position stays naked: it is protected by a stop loss in the end, or
\* closed, or the hedge stops and calls for help.
NakedPositionSettles ==
    pos > 0 /\ StopLosses = {} ~> pos = 0 \/ StopLosses # {} \/ Stopped

\* waiting and closing are transitory: each is left in the end, whatever has
\* failed or stopped meanwhile.
TransitoryEnds ==
    \A s \in {"waiting", "closing"} : hedge.status = s ~> hedge.status # s

\* A hedge that is to be cancelled is cancelled, or stops in error after the
\* 5 minutes the monitor allows.
CancellationEnds == hedge.status = "cancel_pending" ~> Stopped
=============================================================================
