------------------------- MODULE OptionsLiveOrders -------------------------
(***************************************************************************)
(* The ledger of real Binance option orders of one user and the processes  *)
(* that share it (options-live-orders.repository.js and                    *)
(* options-live-execution.service.js): the intention of an order is saved  *)
(* before its only POST, its fills are booked by a reconciler that holds a *)
(* lease on the order, every booked fill of an entry is a position with a  *)
(* resting take-profit (TP) of its own, and an exit that finds a TP or an  *)
(* entry alive is saved, their cancellation asked for, and the closing     *)
(* order sent when they are final.                                         *)
(*                                                                         *)
(* Senders are the calls of submit and of submitQueuedTakeProfits, workers *)
(* the passes of reconcilePending, of one process or of several (a timer   *)
(* starts the next pass without waiting for the last). The user trades one *)
(* contract and only buys it to open, as the pilot does. Binance           *)
(* (external) is the variable ex: reduceOnly is not enforced by it here,   *)
(* so that what holds, holds by the ledger alone.                          *)
(***************************************************************************)
EXTENDS Integers, SequencesExt, FiniteSetsExt

CONSTANTS
    Senders,      \* calls that may POST orders
    Workers,      \* passes of the reconciler
    MaxBatches,   \* bound on the batches of orders, by the contracts of the entry
    MaxBusy       \* bound on the calls and passes in progress at once, likewise

\* An entry is of one contract at least.
ASSUME SizesAssumption == DOMAIN MaxBatches \subseteq Nat \ {0}

VARIABLES
    order,        \* rows of options_live_orders, by id
    held,         \* open quantity of each row of options_strategy_positions
    exits,        \* positions with a row in options_live_exit_requests
    ex,           \* Binance's record of each order, by the same id
    snd,          \* calls of submit in progress
    wrk           \* reconciliations in progress

vars == <<order, held, exits, ex, snd, wrk>>
ledger == <<order, held, exits>>

NoOne == "none"
NoPosition == <<0, 0>>
Ids == DOMAIN order
Positions == DOMAIN held
OpenPositions == {p \in Positions : held[p] > 0}
Total(s) == SumFunction(s)
ExSum(S) == SumFunctionOnSet([o \in Ids |-> Total(ex[o].fills)], S)
Opens == {o \in Ids : order[o].act = "open"}
LedgerNet == SumFunction(held)
ExchangeNet == ExSum(Opens) - ExSum(Ids \ Opens)
Sizes == DOMAIN MaxBatches
Size == IF order = <<>> THEN 1 ELSE order[1].qty   \* contracts of the entry
Batches == {order[o].batch : o \in Ids}
Unresolved(o) == order[o].st # "final"
Standard(o) == ~order[o].tp

IdleSender == [pc |-> "idle", act |-> "tp", legs |-> <<>>,
               net |-> 0, todo |-> <<>>, ans |-> NoOne]
IdleWorker == [pc |-> "idle", o |-> 0, queued |-> FALSE, cancel |-> FALSE,
               done |-> FALSE, exec |-> 0, keep |-> FALSE,
               fills |-> <<>>, n |-> 0]

Free(actor) ==
    /\ actor.pc = "idle"
    /\ Quantify(Senders, LAMBDA a : snd[a].pc # "idle")
       + Quantify(Workers, LAMBDA a : wrk[a].pc # "idle") < MaxBusy[Size]

Init ==
    /\ order = <<>> /\ ex = <<>>
    /\ held = [p \in {} |-> 0] /\ exits = {}
    /\ snd = [s \in Senders |-> IdleSender]
    /\ wrk = [w \in Workers |-> IdleWorker]

-----------------------------------------------------------------------------
(* Rows of the ledger.                                                      *)

Row(act, tp, pos, qty) ==
    [batch |-> Len(order) + 1, act |-> act, tp |-> tp, pos |-> pos, qty |-> qty,
     st |-> "queued", cancel |-> FALSE, late |-> FALSE, booked |-> 0,
     lease |-> NoOne]

NewOnExchange == [st |-> "none", fills |-> <<>>, posts |-> 0]

Insert(rows) ==
    /\ Cardinality(Batches) < MaxBatches[Size]
    /\ order' = order \o rows
    /\ ex' = ex \o [i \in DOMAIN rows |-> NewOnExchange]

\* What an exit of the positions P must wait for: their TPs and any entry.
Guards(P) ==
    {o \in Ids : Unresolved(o) /\ (order[o].act = "open" \/ (order[o].tp /\ order[o].pos \in P))}

AskCancel(O) == [o \in Ids |-> [order[o] EXCEPT !.cancel = @ \/ o \in O]]

MarkAttention(o) ==
    [order EXCEPT ![o].st = IF @ = "final" THEN @ ELSE "attention"]

CanMarkActive(o) == order[o].st \in {"sending", "active", "attention"}

-----------------------------------------------------------------------------
(* Requests: what the runner and the maintenance of a pass ask for.         *)

\* submit of an entry up to its preflight: the positions of Binance, read now
\* and compared with the ledger, are the ones beginBatch will compare again.
\* (A submit that the pilot is sure to refuse is left out.)
StartOpen(s) ==
    /\ Opens = {}
    /\ Free(snd[s]) /\ ExchangeNet = LedgerNet
    /\ snd' = [snd EXCEPT ![s] = [IdleSender EXCEPT
                 !.pc = "begin", !.act = "open", !.net = ExchangeNet]]
    /\ UNCHANGED <<ledger, ex, wrk>>

\* An exit of positions with a TP or an entry alive is saved and waits.
DeferExit(P) ==
    /\ P # {} /\ Guards(P) # {}
    /\ exits' = exits \cup P
    /\ order' = AskCancel(Guards(P))
    /\ UNCHANGED <<held, ex, snd, wrk>>

\* submit of a closing order up to its preflight.
StartClose(s, P) ==
    /\ P # {} /\ Guards(P) = {}
    /\ Free(snd[s]) /\ ExchangeNet = LedgerNet
    /\ snd' = [snd EXCEPT ![s] = [IdleSender EXCEPT
                 !.pc = "begin", !.act = "close", !.net = ExchangeNet,
                 !.legs = SetToSeq({<<p, held[p]>> : p \in P})]]
    /\ UNCHANGED <<ledger, ex, wrk>>

\* processDeferredExits: a saved exit whose TP, entries and closes are final.
DeferredExit(s, p) ==
    /\ p \in exits \cap OpenPositions
    /\ \A o \in Ids : order[o].pos = p /\ order[o].act = "close" => ~Unresolved(o)
    /\ StartClose(s, {p})

\* An opposite signal asks for the exit of every position, with or without a
\* TP. (Its reentry is an entry, which the pilot refuses: it is left out.)
QueueReversal ==
    /\ OpenPositions # {}
    /\ exits' = exits \cup OpenPositions
    /\ order' = AskCancel(Guards(OpenPositions))
    /\ UNCHANGED <<held, ex, snd, wrk>>

\* The user cancels an entry from the screen.
RequestCancel(o) ==
    /\ order[o].act = "open" /\ Unresolved(o) /\ ~order[o].cancel
    /\ order' = AskCancel({o})
    /\ UNCHANGED <<held, exits, ex, snd, wrk>>

\* Variant: only another TP alive is looked for.
TpAllowedAnyway(p) == \A o \in Ids : order[o].tp => order[o].pos # p \/ ~Unresolved(o)

\* createMissingTakeProfits and beginStandingTp: one TP for a position that
\* has no live TP, no live closing order and no exit asked for.
TpAllowed(p) ==
    /\ p \notin exits
    /\ \A o \in Ids : order[o].pos = p => ~Unresolved(o)

CreateTp(p) ==
    /\ ExchangeNet = LedgerNet /\ TpAllowed(p)
    /\ Insert(<<Row("close", TRUE, p, held[p])>>)
    /\ UNCHANGED <<held, exits, snd, wrk>>

StartTp(s, o) ==
    /\ Free(snd[s]) /\ ExchangeNet = LedgerNet
    /\ order[o].tp /\ order[o].st = "queued" /\ ~order[o].cancel
    /\ snd' = [snd EXCEPT ![s] = [IdleSender EXCEPT !.pc = "next", !.todo = <<o>>]]
    /\ UNCHANGED <<ledger, ex, wrk>>

-----------------------------------------------------------------------------
(* Senders.                                                                 *)

Stop(s) == snd' = [snd EXCEPT ![s] = IdleSender]

\* beginBatch refuses while a batch of the user is unresolved, except a close
\* while only entries are.
Blocked(act) ==
    \E o \in Ids : Standard(o) /\ Unresolved(o) /\ ~(act = "close" /\ order[o].act = "open")

LegsHold(legs) == \A i \in DOMAIN legs : held[legs[i][1]] >= legs[i][2]
LegPositions(legs) == {legs[i][1] : i \in DOMAIN legs}

\* Variant: the pilot is not told that it has bought already.
OpenAllowedAgain == exits \cap OpenPositions = {}

\* The one-shot pilot, which the flag of real trading implies, and the exits.
OpenAllowed == Opens = {} /\ exits \cap OpenPositions = {}

BatchRefused(s) ==
    LET c == snd[s] IN
    \/ Blocked(c.act)
    \/ c.net # LedgerNet
    \/ c.act = "open" /\ ~OpenAllowed
    \/ c.act = "close" /\ ~LegsHold(c.legs)

Send(s, rows) ==
    /\ Insert(rows)
    /\ snd' = [snd EXCEPT ![s].pc = "next",
                          ![s].todo = [i \in DOMAIN rows |-> Len(order) + i]]

\* beginBatch refuses, or saves the exit because a TP or an entry appeared
\* since the preflight, or saves the orders.
BeginBatch(s) ==
    LET c == snd[s]  P == LegPositions(c.legs) IN
    /\ c.pc = "begin" /\ UNCHANGED <<held, wrk>>
    /\ \/ BatchRefused(s) /\ Stop(s) /\ UNCHANGED <<order, exits, ex>>
       \/ ~BatchRefused(s) /\ c.act = "close" /\ Guards(P) # {}
          /\ exits' = exits \cup P /\ order' = AskCancel(Guards(P)) /\ Stop(s)
          /\ UNCHANGED ex
       \/ ~BatchRefused(s) /\ c.act = "close" /\ Guards(P) = {}
          /\ Send(s, [i \in DOMAIN c.legs |->
                        Row("close", FALSE, c.legs[i][1], c.legs[i][2])])
          /\ exits' = exits \cup P
       \/ ~BatchRefused(s) /\ c.act = "open"
          /\ \E q \in Sizes : Send(s, <<Row("open", FALSE, NoPosition, q)>>)
          /\ UNCHANGED exits

\* Variant: a cancellation asked for meanwhile is not looked at.
MaySendCancelled(o) ==
    order[o].st = "queued" /\ order[o].lease = NoOne /\ ~order[o].late

\* markSending: the only way to a POST, a compare-and-set of the row.
MaySend(o) ==
    /\ order[o].st = "queued" /\ order[o].lease = NoOne
    /\ ~order[o].cancel /\ ~order[o].late

MarkSending(s) ==
    LET o == Head(snd[s].todo) IN
    /\ snd[s].pc = "next"
    /\ IF MaySend(o)
       THEN /\ order' = [order EXCEPT ![o].st = "sending"]
            /\ snd' = [snd EXCEPT ![s].pc = "post"]
       ELSE Stop(s) /\ UNCHANGED order
    /\ UNCHANGED <<held, exits, ex, wrk>>

\* The POST: accepted and acknowledged, accepted with the answer lost, lost on
\* the way, or refused for certain.
Post(s) ==
    LET o == Head(snd[s].todo) IN
    /\ snd[s].pc = "post"
    /\ \E st \in {"open", "none", "refused"}, ans \in {"ack", "lost", "refused"} :
          /\ ans = "ack" => st = "open"
          /\ ans = "refused" <=> st = "refused"
          /\ ex' = [ex EXCEPT ![o].st = st, ![o].posts = @ + 1]
          /\ snd' = [snd EXCEPT ![s].pc = "settle", ![s].ans = ans]
    /\ UNCHANGED <<ledger, wrk>>

\* Variant: the order goes back to the queue as it was.
RejectedUncancelled(o) == [order EXCEPT ![o].st = "queued"]

\* markRejected: a refused order goes back to the queue, with its cancellation
\* asked for so that it is never sent again.
Rejected(o) == [order EXCEPT ![o].st = "queued", ![o].cancel = TRUE]

\* What submit does with the answer.
Settle(s) ==
    LET o == Head(snd[s].todo)  ans == snd[s].ans IN
    /\ snd[s].pc = "settle" /\ UNCHANGED <<held, exits, ex, wrk>>
    /\ \/ /\ ans = "ack" /\ CanMarkActive(o)
          /\ order' = [order EXCEPT ![o].st = "active"]
          /\ IF Len(snd[s].todo) > 1
             THEN snd' = [snd EXCEPT ![s].pc = "next", ![s].todo = Tail(@)]
             ELSE Stop(s)
       \/ /\ ans = "refused" /\ order[o].st = "sending" /\ order[o].booked = 0
          /\ order' = Rejected(o) /\ Stop(s)
       \/ /\ \/ ans = "lost"
             \/ ans = "ack" /\ ~CanMarkActive(o)
             \/ ans = "refused" /\ order[o].st # "sending"
          /\ order' = MarkAttention(o) /\ Stop(s)

CrashSender(s) ==
    /\ snd[s].pc # "idle" /\ Stop(s)
    /\ UNCHANGED <<ledger, ex, wrk>>

-----------------------------------------------------------------------------
(* Workers: reconcileOrder under the lease of the order.                    *)

FreeLease(rows, w, o) ==
    [rows EXCEPT ![o].lease = IF @ = w THEN NoOne ELSE @]

Rest(w) == wrk' = [wrk EXCEPT ![w] = IdleWorker]
Step(w, pc) == wrk' = [wrk EXCEPT ![w].pc = pc]

\* An error anywhere in the pass: attention, and the lease given back.
GiveUp(w) ==
    /\ order' = FreeLease(MarkAttention(wrk[w].o), w, wrk[w].o)
    /\ Rest(w)

Release(w) == order' = FreeLease(order, w, wrk[w].o) /\ Rest(w)

Start(queued) == IF queued THEN "finish0" ELSE "get"

\* listUnresolved and claimReconcile.
Claim(w, o) ==
    /\ Free(wrk[w]) /\ Unresolved(o) /\ order[o].lease = NoOne
    /\ order[o].st = "queued" => order[o].late \/ order[o].cancel
    /\ order' = [order EXCEPT ![o].lease = w]
    /\ wrk' = [wrk EXCEPT ![w] = [IdleWorker EXCEPT !.pc = IF order[o].tp THEN "start" ELSE Start(order[o].st = "queued"),
                 !.o = o, !.queued = order[o].st = "queued", !.cancel = order[o].cancel]]
    /\ UNCHANGED <<held, exits, ex, snd>>

\* requestDeadlineExit, before anything else, for a TP past its deadline.
Begin(w) ==
    LET c == wrk[w]  r == order[c.o] IN
    /\ c.pc = "start"
    /\ Step(w, Start(c.queued))
    /\ IF r.late /\ held[r.pos] > 0
       THEN exits' = exits \cup {r.pos} /\ order' = AskCancel({c.o} \ {o \in Ids : ~Unresolved(o)})
       ELSE UNCHANGED <<exits, order>>
    /\ UNCHANGED <<held, ex, snd>>

\* finishOrder: the row must say what Binance executed, and an order without
\* an identity of Binance can only end from the queue.
\* (The flags of a final order are never read again: they are dropped.)
Finish(o) == [order EXCEPT ![o].st = "final", ![o].lease = NoOne,
                           ![o].cancel = FALSE, ![o].late = FALSE]
BookedQty(o) == Total(SubSeq(ex[o].fills, 1, order[o].booked))

FinishQueued(w) ==
    LET o == wrk[w].o IN
    /\ wrk[w].pc = "finish0"
    /\ IF order[o].st = "queued" THEN order' = Finish(o) /\ Rest(w)
       ELSE IF order[o].st = "final" THEN Release(w) ELSE GiveUp(w)
    /\ UNCHANGED <<held, exits, ex, snd>>

CancelDue(w) == order[wrk[w].o].late \/ wrk[w].cancel

\* getOrder and markActive.
Get(w) ==
    LET o == wrk[w].o  e == ex[o] IN
    /\ wrk[w].pc = "get"
    /\ IF e.st \in {"open", "done"} /\ CanMarkActive(o)
       THEN /\ order' = [order EXCEPT ![o].st = "active"]
            /\ wrk' = [wrk EXCEPT
                 ![w].pc = IF CancelDue(w) /\ e.st = "open" THEN "cancel" ELSE "trades",
                 ![w].done = e.st = "done", ![w].exec = Total(e.fills)]
       ELSE GiveUp(w)
    /\ UNCHANGED <<held, exits, ex, snd>>

Partial(w) == wrk[w].exec > 0 /\ wrk[w].exec < order[wrk[w].o].qty

\* cancelOrder and the second getOrder; a TP whose rest Binance would not take
\* as a new order is left resting. A cancel may work and its answer be lost.
Cancel(w) ==
    LET o == wrk[w].o IN
    /\ wrk[w].pc = "cancel" /\ UNCHANGED <<held, exits, snd>>
    /\ \/ /\ order[o].tp /\ Partial(w)
          /\ wrk' = [wrk EXCEPT ![w].pc = "trades", ![w].keep = TRUE]
          /\ UNCHANGED <<order, ex>>
       \/ /\ ex' = [ex EXCEPT ![o].st = "done"]
          /\ \/ /\ wrk' = [wrk EXCEPT ![w].pc = "trades", ![w].done = TRUE,
                                         ![w].exec = Total(ex[o].fills)]
                /\ UNCHANGED order
             \/ GiveUp(w)

\* getUserTrades: the trades Binance shows may be behind the order, and the
\* order read before them may be behind the trades. (Binance's count of an
\* order never goes back, so it is never below what is booked.)
Trades(w) ==
    LET c == wrk[w] IN
    /\ c.pc = "trades"
    /\ \E shown \in order[c.o].booked..Len(ex[c.o].fills) :
          LET fills == SubSeq(ex[c.o].fills, 1, shown) IN
          IF Total(fills) > c.exec THEN GiveUp(w)
          ELSE /\ wrk' = [wrk EXCEPT ![w].pc = "apply", ![w].fills = fills,
                                     ![w].n = order[c.o].booked + 1]
               /\ UNCHANGED order
    /\ UNCHANGED <<held, exits, ex, snd>>

\* Variant: a trade is booked whenever it is seen.
BookedBefore(w) == FALSE

\* applyTrade: a trade is booked once, with its effect on the positions.
Known(w) == wrk[w].n <= order[wrk[w].o].booked

Book(o, n, q) ==
    /\ order' = [order EXCEPT ![o].booked = n]
    /\ held' = IF order[o].act = "open"
               THEN [p \in Positions \cup {<<o, n>>} |-> IF p = <<o, n>> THEN q ELSE held[p]]
               ELSE [held EXCEPT ![order[o].pos] = @ - q]

Apply(w) ==
    LET c == wrk[w]  o == c.o  q == c.fills[c.n] IN
    /\ c.pc = "apply" /\ c.n <= Len(c.fills)
    /\ UNCHANGED <<exits, ex, snd>>
    /\ \/ Known(w) /\ UNCHANGED <<order, held>> /\ wrk' = [wrk EXCEPT ![w].n = @ + 1]
       \/ ~Known(w) /\ order[o].act = "close" /\ held[order[o].pos] < q
          /\ GiveUp(w) /\ UNCHANGED held
       \/ ~Known(w) /\ ~(order[o].act = "close" /\ held[order[o].pos] < q)
          /\ Book(o, c.n, q) /\ wrk' = [wrk EXCEPT ![w].n = @ + 1]

\* The checks after the trades are booked, and the end of the order: never
\* with trades missing, never for a TP executed in part.
Incomplete(w) ==
    LET c == wrk[w] IN
    \/ c.keep
    \/ order[c.o].tp /\ Partial(w)
    \/ c.done /\ Total(c.fills) # c.exec

Conclude(w) ==
    LET c == wrk[w]  o == c.o IN
    /\ c.pc = "apply" /\ c.n > Len(c.fills)
    /\ IF Incomplete(w) THEN GiveUp(w)
       ELSE IF ~c.done \/ order[o].st = "final" THEN Release(w)
       ELSE IF BookedQty(o) # c.exec \/ order[o].st = "queued" THEN GiveUp(w)
       ELSE order' = Finish(o) /\ Rest(w)
    /\ UNCHANGED <<held, exits, ex, snd>>

\* A read, a write or a call that fails.
Fail(w) ==
    /\ wrk[w].pc # "idle" /\ GiveUp(w)
    /\ UNCHANGED <<held, exits, ex, snd>>

CrashWorker(w) ==
    /\ wrk[w].pc # "idle" /\ Rest(w)
    /\ UNCHANGED <<ledger, ex, snd>>

-----------------------------------------------------------------------------
(* Time and Binance (external).                                             *)

LeaseLapse(o) ==
    /\ order[o].lease # NoOne
    /\ order' = [order EXCEPT ![o].lease = NoOne]
    /\ UNCHANGED <<held, exits, ex, snd, wrk>>

DeadlinePasses(o) ==
    /\ Unresolved(o) /\ ~order[o].late
    /\ order' = [order EXCEPT ![o].late = TRUE]
    /\ UNCHANGED <<held, exits, ex, snd, wrk>>

Fill(o, k) ==
    LET left == order[o].qty - Total(ex[o].fills) IN
    /\ ex[o].st = "open" /\ k \in 1..left
    /\ ex' = [ex EXCEPT ![o].fills = Append(@, k), ![o].st = IF k = left THEN "done" ELSE @]
    /\ UNCHANGED <<ledger, snd, wrk>>

\* Binance ends the order by itself: a fill-or-kill killed, an expiry.
EndByExchange(o) ==
    /\ ex[o].st = "open"
    /\ ex' = [ex EXCEPT ![o].st = "done"]
    /\ UNCHANGED <<ledger, snd, wrk>>

-----------------------------------------------------------------------------

Request ==
    \/ \E s \in Senders : StartOpen(s)
    \/ \E P \in SUBSET OpenPositions : DeferExit(P)
    \/ \E s \in Senders, P \in SUBSET OpenPositions : StartClose(s, P)
    \/ \E s \in Senders, p \in OpenPositions : DeferredExit(s, p)
    \/ \E s \in Senders, o \in Ids : StartTp(s, o)
    \/ \E p \in OpenPositions : CreateTp(p)
    \/ \E o \in Ids : RequestCancel(o)
    \/ QueueReversal

SenderStep(s) ==
    BeginBatch(s) \/ MarkSending(s) \/ Post(s) \/ Settle(s) \/ CrashSender(s)

WorkerStep(w) ==
    \/ \E o \in Ids : Claim(w, o)
    \/ Begin(w) \/ FinishQueued(w) \/ Get(w) \/ Cancel(w) \/ Trades(w)
    \/ Apply(w) \/ Conclude(w) \/ Fail(w) \/ CrashWorker(w)

Environment ==
    \E o \in Ids :
        \/ LeaseLapse(o) \/ DeadlinePasses(o) \/ EndByExchange(o)
        \/ \E k \in Sizes : Fill(o, k)

Next ==
    \/ Request \/ Environment
    \/ \E s \in Senders : SenderStep(s)
    \/ \E w \in Workers : WorkerStep(w)

Spec == Init /\ [][Next]_vars

-----------------------------------------------------------------------------
(* Properties.                                                              *)

\* Never more sold than bought, at Binance itself and for each position: a
\* TP, its replacement and the closing orders of stops, of a reversal and of
\* a deadline never sell the same contracts twice (the account would end
\* short), whoever reconciles what and whenever.
Closers(p) == {o \in Ids : order[o].pos = p}
NeverOversold ==
    \A p \in Positions : ExSum(Closers(p)) <= ex[p[1]].fills[p[2]]

\* A difference between the positions of Binance and the ledger is always
\* made of fills of orders that are not final: no order is closed with fills
\* missing, still open at Binance, or booked twice.
Pending(S) == SumFunctionOnSet([o \in Ids |-> Total(ex[o].fills) - BookedQty(o)],
                               {o \in S : Unresolved(o)})
ExposureExplained ==
    /\ ExchangeNet - LedgerNet = Pending(Opens) - Pending(Ids \ Opens)
    /\ \A o \in Ids : ex[o].st = "open" => Unresolved(o)

\* No order is sent twice, whatever crashes between the intention and the
\* answer, and whoever finds it queued.
PostedOnce == \A o \in Ids : ex[o].posts <= 1

\* The pilot buys once, ever, however many alerts are processed at once, by
\* how many processes, and whatever became of the first entry.
OnePilotEntry == Cardinality({o \in Opens : ex[o].posts > 0}) <= 1

\* Once an exit of a position is saved, no TP of it is claimed for sending.
NoTpOnceExitAsked ==
    [][\A o \in Ids : order[o].tp /\ order[o].st = "queued" /\ order'[o].st = "sending"
                        => order[o].pos \notin exits]_vars

\* A TP is cancelled only for an exit already saved: the exit of its deadline
\* is made durable before the limit is cancelled
\* (options-live-execution.service.js:395).  A deadline that passes between two
\* looks at the clock (lines 392 and 437) breaks it.
TpCancelledForAnExit ==
    [][\A w \in Workers :
          wrk[w].pc = "cancel" /\ wrk'[w].done /\ order[wrk[w].o].tp
          => order[wrk[w].o].pos \in exits]_vars
=============================================================================
