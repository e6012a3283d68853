-------------------------- MODULE CrossChainFunding --------------------------
(***************************************************************************)
(* One plan of cross-chain funding: transfers over bridges, signed one by  *)
(* one in the browser (useBringFunds.js), registered on the server         *)
(* (cross-chain-funding.service.js) and followed by a monitor until they   *)
(* arrive (cross-chain-monitor.service.js).                                *)
(*                                                                         *)
(* A request reads the plan and writes later; the monitor reads the list   *)
(* of steps in flight once per tick and writes each one after waiting for  *)
(* a chain or a bridge.  No write compares what it replaces.  Amounts,     *)
(* quotes, approvals and costs are left out: nothing here depends on them. *)
(* The chains, the wallet and the bridges (external) are the variable tx.  *)
(***************************************************************************)
EXTENDS Naturals, Sequences, FiniteSetsExt

CONSTANTS
    NumSteps,       \* steps of the plan
    Network,        \* Network[s]: the source network of step s
    Windows,        \* browser windows with the plan open
    MaxTxs,         \* bound: transactions the wallet sends
    MaxCloses,      \* bound: windows closed half way
    Overlapping     \* whether a request may begin while another has read the
                    \* plan and not yet written

ASSUME FundingAssumption ==
    /\ NumSteps \in Nat /\ DOMAIN Network = 1 .. NumSteps
    /\ MaxTxs \in Nat /\ MaxCloses \in Nat /\ Overlapping \in BOOLEAN

VARIABLES
    plan,           \* status of the row of cross_chain_plans
    row,            \* rows of cross_chain_steps
    tx,             \* external: the bridge transactions sent, by hash
    flow,           \* what each window is doing
    mon,            \* the tick of the monitor
    lost            \* transactions sent whose window closed before telling

fundingVars == <<plan, row, tx, flow, mon, lost>>

Steps == 1 .. NumSteps
NoHash == 0
Flows == Windows \X {"start", "speedUp", "ask"}
InFlight == {"signed", "source_confirmed"}
Terminal == {"delivered", "failed", "refunded", "skipped"}
Hashes == DOMAIN tx

NewRow == [status |-> "pending", hash |-> NoHash, nonce |-> NoHash, prev |-> {}]
Idle == [pc |-> "idle", step |-> 0, hash |-> NoHash, nonce |-> NoHash,
         seen |-> NewRow, skips |-> {}]
Resting == [pc |-> "idle", seen |-> <<>>, left |-> {}, hash |-> NoHash,
            verdict |-> "none"]

FundingInit ==
    /\ plan = "executing"
    /\ row = [s \in Steps |-> NewRow]
    /\ tx = <<>>
    /\ flow = [f \in Flows |-> Idle]
    /\ mon = Resting
    /\ lost = {}

FlowEnds(f) == flow' = [flow EXCEPT ![f] = Idle]

\* A request that writes what it has read may begin.
MayBegin ==
    Overlapping \/ \A f \in Flows : flow[f].pc \notin {"submit", "skip", "continue", "discard"}

-----------------------------------------------------------------------------
(* Signing: start and speedUp in the window, prepareStep on the server.     *)

\* Variant: a step already sent is signed again.
PreparableAgain(s) ==
    /\ plan = "executing"
    /\ row[s].status \in {"pending", "signed"}

\* What prepareStep signs: a step not sent yet, after those before it in its
\* network, of a plan in progress.
Preparable(s) ==
    /\ plan = "executing"
    /\ row[s].status = "pending"
    /\ \A e \in Steps : e < s /\ Network[e] = Network[s] => row[e].status # "pending"

Prepare(w, s) ==
    LET f == <<w, "start">> IN
    /\ flow[f].pc = "idle" /\ Preparable(s)
    /\ \A e \in Steps : e < s => row[e].status # "pending"
    /\ flow' = [flow EXCEPT ![f] = [Idle EXCEPT !.pc = "sign", !.step = s]]
    /\ UNCHANGED <<plan, row, tx, mon, lost>>

\* prepareSpeedUp: the same transaction and nonce, with higher fees.
PrepareSpeedUp(w, s) ==
    LET f == <<w, "speedUp">> IN
    /\ flow[f].pc = "idle" /\ plan = "executing"
    /\ row[s].status = "signed" /\ row[s].nonce # NoHash
    /\ flow' = [flow EXCEPT ![f] = [Idle EXCEPT !.pc = "sign", !.step = s,
                                                !.nonce = row[s].nonce]]
    /\ UNCHANGED <<plan, row, tx, mon, lost>>

Rejects(f) ==
    /\ flow[f].pc = "sign" /\ FlowEnds(f)
    /\ UNCHANGED <<plan, row, tx, mon, lost>>

Used(n) == \E h \in Hashes : tx[h].nonce = n /\ tx[h].st \in {"mined", "reverted"}

\* The wallet sends, with the nonce asked for or with the next one, which the
\* window may fail to read.
Sign(f) ==
    LET n == IF f[2] = "speedUp" THEN flow[f].nonce ELSE Len(tx) + 1 IN
    /\ flow[f].pc = "sign" /\ Len(tx) < MaxTxs /\ ~Used(n)
    /\ tx' = Append(tx, [step |-> flow[f].step, nonce |-> n, st |-> "pool",
                         out |-> "moving"])
    /\ \E known \in {n} \cup (IF f[2] = "start" THEN {NoHash} ELSE {}) :
          flow' = [flow EXCEPT ![f].pc = "record", ![f].nonce = known,
                               ![f].hash = Len(tx) + 1]
    /\ UNCHANGED <<plan, row, mon, lost>>

\* Between two transfers of one network start waits for the first.
Receipt(f) ==
    /\ flow[f].pc = "receipt" /\ tx[flow[f].hash].st # "pool"
    /\ FlowEnds(f)
    /\ UNCHANGED <<plan, row, tx, mon, lost>>

CloseWindow(w) ==
    LET mine == {f \in Flows : f[1] = w} IN
    /\ \E f \in mine : flow[f].pc = "record"
    /\ \A f \in mine : flow[f].pc \in {"idle", "sign", "record", "receipt"}
    /\ LET untold == {flow[f].hash : f \in {g \in mine : flow[g].pc = "record"}} IN
       /\ Cardinality(lost \cup untold) <= MaxCloses
       /\ lost' = lost \cup untold
    /\ flow' = [f \in Flows |-> IF f \in mine THEN Idle ELSE flow[f]]
    /\ UNCHANGED <<plan, row, tx, mon>>

-----------------------------------------------------------------------------
(* submitStep.                                                              *)

Submits(f) ==
    /\ flow[f].pc = "record" /\ MayBegin
    /\ flow' = [flow EXCEPT ![f].pc = "submit", ![f].seen = row[flow[f].step]]
    /\ UNCHANGED <<plan, row, tx, mon, lost>>

\* A transaction already signed is registered even if its step was skipped.
Registers(r) == r.status = "pending" \/ (r.status = "skipped" /\ r.hash = NoHash)

Told(f) ==
    IF f[2] = "start" /\ \E s \in Steps : s # flow[f].step /\ row[s].status = "pending"
                             /\ Network[s] = Network[flow[f].step]
    THEN flow' = [flow EXCEPT ![f] = [Idle EXCEPT !.pc = "receipt", !.hash = flow[f].hash]]
    ELSE FlowEnds(f)

Submitted(f) ==
    LET c == flow[f]  s == c.step  r == c.seen IN
    /\ c.pc = "submit"
    /\ \/ /\ Registers(r)
          /\ row' = [row EXCEPT ![s].status = "signed", ![s].hash = c.hash,
                                ![s].nonce = c.nonce]
          /\ Told(f)
       \/ /\ ~Registers(r) /\ f[2] = "speedUp"
          /\ r.status = "signed" /\ c.nonce = r.nonce
          /\ row' = [row EXCEPT ![s].hash = c.hash, ![s].prev = r.prev \cup {r.hash}]
          /\ Told(f)
       \/ /\ ~Registers(r)
          /\ ~(f[2] = "speedUp" /\ r.status = "signed" /\ c.nonce = r.nonce)
          /\ UNCHANGED row /\ FlowEnds(f)
    /\ UNCHANGED <<plan, tx, mon, lost>>

-----------------------------------------------------------------------------
(* skipStep, continueWithArrived and discardPlan.                           *)

Skippable(s) == row[s].status \in {"pending", "failed", "refunded"}

\* Variant: all that is over counts as delivered.
ClosedAsDelivered(r) == "delivered"

\* recomputePlanStatus: the status a plan in progress gets, if all is over.
ClosedAs(r) ==
    IF \A s \in Steps : r[s].status = "delivered" THEN "delivered" ELSE "partial"

Recomputed(r) ==
    IF plan = "executing" /\ \A s \in Steps : r[s].status \in Terminal
    THEN ClosedAs(r) ELSE plan

AsksFor(f, pc, skips) ==
    /\ f[2] = "ask" /\ flow[f].pc = "idle" /\ MayBegin
    /\ flow' = [flow EXCEPT ![f] = [Idle EXCEPT !.pc = pc, !.skips = skips]]
    /\ UNCHANGED <<plan, row, tx, mon, lost>>

AsksSkip(f) ==
    \E s \in Steps : Skippable(s) /\ AsksFor(f, "skip", {s})

AsksContinue(f) ==
    plan = "executing" /\ AsksFor(f, "continue", {s \in Steps : Skippable(s)})

AsksDiscard(f) ==
    plan = "executing" /\ AsksFor(f, "discard", {})

Answered(f) ==
    LET c == flow[f]
        r == [s \in Steps |-> IF s \in c.skips THEN [row[s] EXCEPT !.status = "skipped"]
                              ELSE row[s]] IN
    /\ c.pc \in {"skip", "continue", "discard"}
    /\ row' = r
    /\ plan' = CASE c.pc = "skip" -> Recomputed(r)
                 [] c.pc = "continue" -> "partial"
                 [] c.pc = "discard" -> "discarded"
    /\ FlowEnds(f)
    /\ UNCHANGED <<tx, mon, lost>>

-----------------------------------------------------------------------------
(* The monitor.                                                             *)

\* Variant: only the steps of a plan in progress.
WatchedOfPlan == {s \in Steps : row[s].status \in InFlight /\ plan = "executing"}

\* listInFlightSteps.
Watched == {s \in Steps : row[s].status \in InFlight}

MonitorLists ==
    /\ mon.pc = "idle" /\ Watched # {}
    /\ mon' = [Resting EXCEPT !.pc = "check", !.left = Watched,
                              !.seen = [s \in Watched |-> row[s]]]
    /\ UNCHANGED <<plan, row, tx, flow, lost>>

\* The step in hand, and the tick that goes on to the next one.
Cur == Min(mon.left)
Passes ==
    LET left == mon.left \ {Cur} IN
    mon' = IF left = {} THEN Resting
           ELSE [Resting EXCEPT !.pc = "check", !.left = left,
                                !.seen = [s \in left |-> mon.seen[s]]]

\* checkSource: any of the transactions of the nonce may be the one mined.
Candidates(r) == {r.hash} \cup r.prev

MonitorSource ==
    LET r == mon.seen[Cur] IN
    /\ mon.pc = "check" /\ r.status = "signed"
    /\ \E h \in Candidates(r) :
          /\ tx[h].st \in {"mined", "reverted"}
          /\ mon' = [mon EXCEPT !.pc = "write", !.hash = h,
                       !.verdict = IF tx[h].st = "mined" THEN "source_confirmed"
                                   ELSE "failed"]
    /\ UNCHANGED <<plan, row, tx, flow, lost>>

\* checkDelivery asks the bridge about the hash of the row.
MonitorDelivery ==
    LET r == mon.seen[Cur] IN
    /\ mon.pc = "check" /\ r.status = "source_confirmed"
    /\ tx[r.hash].st = "mined" /\ tx[r.hash].out # "moving"
    /\ mon' = [mon EXCEPT !.pc = "write", !.hash = r.hash, !.verdict = tx[r.hash].out]
    /\ UNCHANGED <<plan, row, tx, flow, lost>>

\* Nothing to tell yet, or an error: the step is left for the next tick.
MonitorPasses ==
    /\ mon.pc # "idle" /\ Passes
    /\ UNCHANGED <<plan, row, tx, flow, lost>>

MonitorWrites ==
    /\ mon.pc = "write"
    /\ row' = [row EXCEPT ![Cur].status = mon.verdict,
                 ![Cur].hash = IF mon.hash # mon.seen[Cur].hash THEN mon.hash ELSE @]
    /\ mon' = [mon EXCEPT !.pc = "count", !.hash = NoHash, !.verdict = "none",
                           !.seen[Cur] = NewRow]
    /\ UNCHANGED <<plan, tx, flow, lost>>

MonitorCounts ==
    /\ mon.pc = "count"
    /\ IF Recomputed(row) = plan THEN Passes
       ELSE mon' = [mon EXCEPT !.pc = "close", !.verdict = Recomputed(row)]
    /\ UNCHANGED <<plan, row, tx, flow, lost>>

MonitorCloses ==
    /\ mon.pc = "close" /\ Passes
    /\ plan' = mon.verdict
    /\ UNCHANGED <<row, tx, flow, lost>>

MonitorRestarts ==
    /\ mon.pc # "idle" /\ mon' = Resting
    /\ UNCHANGED <<plan, row, tx, flow, lost>>

-----------------------------------------------------------------------------
(* The chains and the bridges (external).                                   *)

\* One transaction of a nonce enters a block.
Mine(h) ==
    /\ tx[h].st = "pool"
    /\ \E st \in {"mined", "reverted"} :
          tx' = [g \in Hashes |->
                   IF g = h THEN [tx[g] EXCEPT !.st = st]
                   ELSE IF tx[g].nonce = tx[h].nonce THEN [tx[g] EXCEPT !.st = "dropped"]
                   ELSE tx[g]]
    /\ UNCHANGED <<plan, row, flow, mon, lost>>

\* (A transfer that fails at the bridge is treated as one it gives back.)
Bridge(h) ==
    /\ tx[h].st = "mined" /\ tx[h].out = "moving"
    /\ \E out \in {"delivered", "refunded"} : tx' = [tx EXCEPT ![h].out = out]
    /\ UNCHANGED <<plan, row, flow, mon, lost>>

-----------------------------------------------------------------------------

FundingNext ==
    \/ \E w \in Windows, s \in Steps : Prepare(w, s) \/ PrepareSpeedUp(w, s)
    \/ \E w \in Windows : CloseWindow(w)
    \/ \E f \in Flows :
          \/ Rejects(f) \/ Sign(f) \/ Receipt(f) \/ Submits(f) \/ Submitted(f)
          \/ AsksSkip(f) \/ AsksContinue(f) \/ AsksDiscard(f) \/ Answered(f)
    \/ MonitorLists \/ MonitorSource \/ MonitorDelivery \/ MonitorPasses
    \/ MonitorWrites \/ MonitorCounts \/ MonitorCloses \/ MonitorRestarts
    \/ \E h \in Hashes : Mine(h) \/ Bridge(h)

FundingSpec == FundingInit /\ [][FundingNext]_fundingVars

-----------------------------------------------------------------------------
(* Properties.                                                              *)

\* The funds of a step leave the wallet once, whatever is sped up, skipped,
\* continued or discarded meanwhile, unless a window was closed before it could
\* tell the server of what it had sent.
Mined(s) == {h \in Hashes : tx[h].step = s /\ tx[h].st = "mined"}
SentOnce == lost = {} => \A s \in Steps : Cardinality(Mined(s)) <= 1

\* Somebody watches a transaction the server knows for as long as it can
\* move funds, though its step be skipped or its plan discarded
\* (cross-chain-funding.service.js:588-589).
Alive(h) == h # NoHash /\ (tx[h].st = "pool" \/ (tx[h].st = "mined" /\ tx[h].out = "moving"))
SignedIsWatched == \A s \in Steps : Alive(row[s].hash) => s \in Watched

\* A plan is delivered when every one of its steps is, and they stay so.
PlanTellsTruth ==
    plan = "delivered" => \A s \in Steps :
        /\ row[s].status = "delivered"
        /\ \E h \in Candidates(row[s]) : tx[h].out = "delivered"
=============================================================================
