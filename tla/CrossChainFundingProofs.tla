----------------------- MODULE CrossChainFundingProofs -----------------------
(***************************************************************************)
(* Proofs about a plan of cross-chain funding, for any number of steps,    *)
(* transactions and closed windows.  With one window the funds of a step   *)
(* leave once.  When requests do not overlap, with any number of windows,  *)
(* what is signed is watched and a plan said to be delivered is.           *)
(***************************************************************************)
EXTENDS CrossChainFunding, TLAPS, SequenceTheorems, FiniteSetTheorems,
        WellFoundedInduction

Statuses == {"pending", "skipped"} \cup InFlight \cup Terminal
PlanStatuses == {"executing", "partial", "delivered", "discarded"}
FlowPCs == {"idle", "sign", "record", "submit", "receipt", "skip", "continue", "discard"}
Requesting == {"submit", "skip", "continue", "discard"}
MonPCs == {"idle", "check", "write", "count", "close"}

StepRow == [status : Statuses, hash : Nat, nonce : Nat, prev : SUBSET Nat]
FlowState == [pc : FlowPCs, step : Nat, hash : Nat, nonce : Nat, seen : StepRow,
              skips : SUBSET Steps]
Transaction == [step : Steps, nonce : Nat \ {NoHash},
                st : {"pool", "mined", "reverted", "dropped"},
                out : {"moving", "delivered", "refunded"}]

TypeInv ==
    /\ plan \in PlanStatuses
    /\ row \in [Steps -> StepRow]
    /\ tx \in Seq(Transaction)
    /\ flow \in [Flows -> FlowState]
    /\ DOMAIN mon = {"pc", "seen", "left", "hash", "verdict"}
    /\ mon.pc \in MonPCs /\ mon.left \in SUBSET Steps
    /\ mon.pc # "idle" => mon.left # {} /\ mon.seen \in [mon.left -> StepRow]

\* A row, or a copy of one, speaks of transactions that were sent, and of at
\* least one if its step was.
Known(r) ==
    /\ Candidates(r) \subseteq {NoHash} \cup Hashes
    /\ NoHash \notin r.prev
    /\ r.hash = NoHash => r.status \in {"pending", "skipped"}
KnownInv ==
    /\ \A s \in Steps : Known(row[s]) /\ (row[s].status = "pending" => row[s].hash = NoHash)
    /\ mon.pc # "idle" => \A s \in mon.left : Known(mon.seen[s]) /\ row[s].hash # NoHash
    /\ mon.pc = "write" =>
          /\ mon.hash \in Hashes
          /\ mon.verdict \in {"source_confirmed", "failed", "delivered", "refunded"}
    /\ mon.pc = "close" => mon.verdict \in {"partial", "delivered"}

\* What a window has sent or is about to send is what it was asked for.
Sending(f) == flow[f].pc \in {"sign", "record", "submit"}
FlowOK(f) ==
    LET c == flow[f] IN
    /\ Known(c.seen)
    /\ Sending(f) => f[2] \in {"start", "speedUp"} /\ c.step \in Steps
    /\ Sending(f) /\ f[2] = "speedUp" => c.nonce # NoHash /\ row[c.step].hash # NoHash
    /\ c.pc \in {"record", "submit"} =>
          /\ c.hash \in Hashes /\ tx[c.hash].step = c.step
          /\ c.nonce = tx[c.hash].nonce \/ (f[2] = "start" /\ c.nonce = NoHash)
FlowInv == \A f \in Flows : FlowOK(f)

\* One transaction of a nonce enters a block, the others never will.
NonceInv ==
    \A g, h \in Hashes :
        g # h /\ tx[g].nonce = tx[h].nonce /\ tx[h].st \in {"mined", "reverted"}
        => tx[g].st = "dropped"

BaseInv == TypeInv /\ KnownInv /\ FlowInv /\ NonceInv

-----------------------------------------------------------------------------
(* One window: the transactions of a step share a nonce.                    *)

OneWindow == \A v, w \in Windows : v = w

Sent(s) == {h \in Hashes : tx[h].step = s}

\* A first signature is for a step without hash, and is registered; a speed-up
\* has the nonce of a transaction of its step, as has the row, and is not
\* registered as a first signature.
StartOK(f) ==
    LET c == flow[f] IN
    Sending(f) =>
        /\ f[2] = "start" => row[c.step].hash = NoHash
        /\ f[2] = "start" /\ c.pc = "submit" => Registers(c.seen)
        /\ f[2] = "speedUp" => \E h \in Sent(c.step) : tx[h].nonce = c.nonce
        /\ f[2] = "speedUp" /\ c.pc = "submit" => ~Registers(c.seen)
StartInv ==
    /\ \A s \in Steps : row[s].nonce # NoHash => \E h \in Sent(s) : tx[h].nonce = row[s].nonce
    /\ \A f \in Flows : StartOK(f)

\* As long as no transaction was sent without telling, whatever was sent for a
\* step has one nonce, nothing was sent for a step about to be signed for the
\* first time, and what was sent is in the row or about to be.
SentInv ==
    lost = {} =>
        /\ \A g, h \in Hashes : tx[g].step = tx[h].step => tx[g].nonce = tx[h].nonce
        /\ \A f \in Flows : f[2] = "start" /\ flow[f].pc = "sign" => Sent(flow[f].step) = {}
        /\ \A s \in Steps : Sent(s) # {} =>
              \/ row[s].hash # NoHash
              \/ \E f \in Flows : f[2] = "start" /\ flow[f].pc \in {"record", "submit"}
                                     /\ flow[f].step = s

OnceInv == BaseInv /\ StartInv /\ SentInv

-----------------------------------------------------------------------------
(* Requests that do not overlap: what is signed is watched.                 *)

\* The hashes of a row are transactions of its step, of one nonce if there are
\* several.
GoodRow(r, s) ==
    /\ r.status = "pending" => r.hash = NoHash
    /\ r.hash = NoHash => r.status \in {"pending", "skipped"} /\ r.prev = {}
    /\ r.hash # NoHash =>
          r.hash \in Hashes /\ tx[r.hash].step = s /\ r.nonce \in {NoHash, tx[r.hash].nonce}
    /\ \A h \in r.prev :
          h \in Hashes /\ tx[h].step = s /\ r.nonce = tx[h].nonce

\* The verdict of a row is about one of its transactions, and those of a row
\* that is over can move no funds.
Verdict(r) ==
    /\ r.status = "failed" => \E h \in Candidates(r) : h # NoHash /\ tx[h].st = "reverted"
    /\ r.status \in {"delivered", "refunded"} =>
          \E h \in Candidates(r) : h # NoHash /\ tx[h].st = "mined" /\ tx[h].out = r.status
    /\ r.status \in Terminal => ~Alive(r.hash)

RowInv == \A s \in Steps : GoodRow(row[s], s) /\ Verdict(row[s])

\* While the monitor is about to look at a step, or to write it, the row is as
\* it was listed, but for transactions added by speed-ups.
Pending == IF mon.pc \in {"check", "write"} THEN mon.left
           ELSE IF mon.pc \in {"count", "close"} THEN mon.left \ {Cur} ELSE {}
PendingInv ==
    \A s \in Pending :
        /\ mon.seen[s].status \in InFlight /\ row[s].status = mon.seen[s].status
        /\ Candidates(mon.seen[s]) \subseteq Candidates(row[s])

\* What it is about to write of a step was so when it looked, and stays so.
LookInv ==
    mon.pc = "write" =>
        /\ mon.hash \in Candidates(mon.seen[Cur])
        /\ mon.verdict = "failed" => tx[mon.hash].st = "reverted"
        /\ mon.verdict \in {"delivered", "refunded"} =>
              /\ mon.hash = mon.seen[Cur].hash
              /\ tx[mon.hash].st = "mined" /\ tx[mon.hash].out = mon.verdict

AllDelivered == \A s \in Steps : row[s].status = "delivered"
CloseInv == mon.pc = "close" /\ mon.verdict = "delivered" => AllDelivered
PlanInv == plan = "delivered" => AllDelivered

\* One request at a time has read and not written; what it has read is still
\* so, but for what the monitor wrote of a step that was in flight.
Outpaced(r, now) ==
    /\ r.status \in InFlight
    /\ now.status \in {"source_confirmed", "failed", "delivered", "refunded"}
    /\ now.nonce = r.nonce /\ now.prev = r.prev /\ now.hash \in Candidates(r)
RequestOK(f) ==
    LET c == flow[f] IN
    /\ c.pc = "submit" =>
          /\ GoodRow(c.seen, c.step)
          /\ row[c.step] = c.seen \/ Outpaced(c.seen, row[c.step])
    /\ c.pc \in {"skip", "continue", "discard"} => \A s \in c.skips : Skippable(s)
RequestInv ==
    /\ \A f, g \in Flows : flow[f].pc \in Requesting /\ flow[g].pc \in Requesting => f = g
    /\ \A f \in Flows : RequestOK(f)

MonInv == PendingInv /\ LookInv /\ CloseInv /\ PlanInv

WatchInv == BaseInv /\ RowInv /\ MonInv /\ RequestInv

-----------------------------------------------------------------------------
(* The step in hand, and the transactions.                                  *)

LEMMA MinIsIn ==
  ASSUME NEW S \in SUBSET Nat, S # {}
  PROVE  Min(S) \in S
<1>1. PICK x \in S : \A y \in S : ~ (<<y, x>> \in OpToRel(<, Nat))
  BY NatLessThanWellFounded, WFMin
<1>2. ASSUME NEW y \in S PROVE x =< y
  <2>1. y \in Nat /\ x \in Nat /\ <<y, x>> \in Nat \X Nat
    OBVIOUS
  <2>2. ~ (y < x)
    BY <1>1, <2>1, Zenon DEF OpToRel
  <2> QED
    BY <2>1, <2>2
<1> QED
  BY <1>2 DEF Min

LEMMA CurIsIn ==
  ASSUME TypeInv, mon.pc # "idle"
  PROVE  Cur \in mon.left /\ Cur \in Steps
<1>1. mon.left \in SUBSET Nat /\ mon.left # {} /\ mon.left \subseteq Steps
  BY FundingAssumption DEF TypeInv, Steps
<1> QED
  BY <1>1, MinIsIn DEF Cur

LEMMA TxFacts ==
  ASSUME TypeInv
  PROVE  /\ Len(tx) \in Nat /\ Hashes = 1 .. Len(tx) /\ Hashes \subseteq Nat
         /\ NoHash \notin Hashes
         /\ \A h \in Hashes : tx[h] \in Transaction
<1>1. tx \in Seq(Transaction)
  BY DEF TypeInv
<1>2. Len(tx) \in Nat /\ Hashes = 1 .. Len(tx)
  BY <1>1, LenProperties DEF Hashes
<1>3. \A h \in Hashes : tx[h] \in Transaction
  BY <1>1, <1>2, ElementOfSeq
<1> QED
  BY <1>2, <1>3 DEF NoHash

\* The transaction a window sends.
SentTx(f) ==
    [step |-> flow[f].step,
     nonce |-> IF f[2] = "speedUp" THEN flow[f].nonce ELSE Len(tx) + 1,
     st |-> "pool", out |-> "moving"]

LEMMA SignFacts ==
  ASSUME BaseInv, NEW f \in Flows, Sign(f)
  PROVE  /\ tx' \in Seq(Transaction) /\ SentTx(f) \in Transaction
         /\ Len(tx) + 1 \notin Hashes /\ Hashes' = Hashes \cup {Len(tx) + 1}
         /\ \A h \in Hashes : tx'[h] = tx[h]
         /\ tx'[Len(tx) + 1] = SentTx(f)
<1>1. SentTx(f) \in Transaction
  BY TxFacts DEF BaseInv, TypeInv, FlowInv, FlowOK, Sending, Sign, SentTx, Transaction, FlowState, NoHash
<1>2. tx' = Append(tx, SentTx(f)) /\ tx \in Seq(Transaction)
  BY DEF Sign, SentTx, BaseInv, TypeInv
<1>3. /\ tx' \in Seq(Transaction) /\ Len(tx') = Len(tx) + 1
      /\ \A h \in 1 .. Len(tx) : tx'[h] = tx[h]
      /\ tx'[Len(tx) + 1] = SentTx(f)
  BY <1>1, <1>2, AppendProperties
<1>4. Hashes' = 1 .. Len(tx) + 1
  BY <1>3, LenProperties DEF Hashes
<1> QED
  BY <1>1, <1>3, <1>4, TxFacts DEF BaseInv

LEMMA MineFacts ==
  ASSUME TypeInv, NEW h \in Hashes, Mine(h)
  PROVE  /\ tx' \in Seq(Transaction) /\ Hashes' = Hashes
         /\ tx'[h].st \in {"mined", "reverted"} /\ tx'[h].out = tx[h].out
         /\ \A g \in Hashes :
               /\ tx'[g].step = tx[g].step /\ tx'[g].nonce = tx[g].nonce
               /\ g # h /\ tx[g].nonce = tx[h].nonce =>
                     tx'[g].st = "dropped" /\ tx'[g].out = tx[g].out
               /\ tx[g].nonce # tx[h].nonce => tx'[g] = tx[g]
<1>1. PICK st \in {"mined", "reverted"} :
        tx' = [g \in Hashes |->
                 IF g = h THEN [tx[g] EXCEPT !.st = st]
                 ELSE IF tx[g].nonce = tx[h].nonce THEN [tx[g] EXCEPT !.st = "dropped"]
                 ELSE tx[g]]
  BY DEF Mine
<1>2. Hashes' = Hashes
  BY <1>1 DEF Hashes
<1>3. \A g \in Hashes : tx'[g] \in Transaction
  BY <1>1, TxFacts DEF Transaction
<1>4. tx' \in [1 .. Len(tx) -> Transaction]
  BY <1>1, <1>3, TxFacts
<1>5. tx' \in Seq(Transaction)
  BY <1>4, TxFacts, SeqDef
<1> QED
  BY <1>1, <1>2, <1>5, TxFacts DEF Transaction

LEMMA BridgeFacts ==
  ASSUME TypeInv, NEW h \in Hashes, Bridge(h)
  PROVE  /\ tx' \in Seq(Transaction) /\ Hashes' = Hashes
         /\ tx[h].st = "mined" /\ tx[h].out = "moving" /\ tx'[h].out \in {"delivered", "refunded"}
         /\ \A g \in Hashes :
               /\ tx'[g].step = tx[g].step /\ tx'[g].nonce = tx[g].nonce /\ tx'[g].st = tx[g].st
               /\ g # h => tx'[g] = tx[g]
<1>1. PICK out \in {"delivered", "refunded"} : tx' = [tx EXCEPT ![h].out = out]
  BY DEF Bridge
<1>2. Hashes' = Hashes
  BY <1>1 DEF Hashes
<1>3. \A g \in Hashes : tx'[g] \in Transaction
  BY <1>1, TxFacts DEF Transaction, Hashes
<1>4. tx' \in [1 .. Len(tx) -> Transaction]
  <2>1. tx' = [g \in Hashes |-> tx'[g]]
    BY <1>1, TxFacts DEF TypeInv, Hashes
  <2> QED
    BY <2>1, <1>3, TxFacts
<1>5. tx' \in Seq(Transaction)
  BY <1>4, TxFacts, SeqDef
<1> QED
  BY <1>1, <1>2, <1>5, TxFacts DEF Transaction, Hashes, Bridge

-----------------------------------------------------------------------------
(* What holds for any windows, whether requests overlap or not.             *)

LEMMA NewRowFacts == NewRow \in StepRow /\ Known(NewRow)
  BY DEF NewRow, StepRow, Statuses, Known, Candidates, NoHash, InFlight

LEMMA IdleFacts == Idle \in FlowState /\ Known(Idle.seen)
  BY NewRowFacts DEF Idle, FlowState, FlowPCs, NoHash

LEMMA StepIsNat == Steps \subseteq Nat
  BY FundingAssumption DEF Steps

LEMMA BaseInit == FundingInit => BaseInv
<1> SUFFICES ASSUME FundingInit PROVE BaseInv
  OBVIOUS
<1>1. TypeInv
  BY NewRowFacts, IdleFacts, EmptySeq
  DEF FundingInit, TypeInv, PlanStatuses, Resting, MonPCs
<1>2. KnownInv
  BY NewRowFacts DEF FundingInit, KnownInv, NewRow, Resting
<1>3. FlowInv
  BY IdleFacts DEF FundingInit, FlowInv, FlowOK, Sending, Idle
<1>4. NonceInv
  BY DEF FundingInit, NonceInv, Hashes
<1> QED
  BY <1>1, <1>2, <1>3, <1>4 DEF BaseInv

\* An action that moves windows only.
LEMMA FlowBase ==
  ASSUME BaseInv, UNCHANGED <<plan, row, tx, mon>>, flow' \in [Flows -> FlowState],
         \A f \in Flows : flow'[f] = flow[f] \/ FlowOK(f)'
  PROVE  BaseInv'
<1>1. TypeInv' /\ KnownInv' /\ NonceInv'
  BY DEF BaseInv, TypeInv, KnownInv, NonceInv, Known, Candidates, Hashes
<1>2. ASSUME NEW f \in Flows PROVE FlowOK(f)'
  <2>1. CASE flow'[f] = flow[f]
    BY <2>1 DEF BaseInv, FlowInv, FlowOK, Known, Candidates, Sending, Hashes
  <2> QED
    BY <2>1
<1> QED
  BY <1>1, <1>2 DEF BaseInv, FlowInv

\* A window at rest, or waiting, or with a request of its own.
LEMMA FlowRests ==
  ASSUME BaseInv, UNCHANGED <<plan, row, tx, mon>>, flow' \in [Flows -> FlowState],
         \A f \in Flows : \/ flow'[f] = flow[f]
                          \/ flow'[f].pc \notin {"sign", "record", "submit"}
                                /\ flow'[f].seen = NewRow
  PROVE  BaseInv'
<1>1. ASSUME NEW f \in Flows, flow'[f].pc \notin {"sign", "record", "submit"},
             flow'[f].seen = NewRow
      PROVE  FlowOK(f)'
  BY <1>1, NewRowFacts DEF FlowOK, Sending, Known, NewRow, Candidates
<1> QED
  BY <1>1, FlowBase

LEMMA PrepareBase ==
  ASSUME BaseInv, NEW w \in Windows, NEW s \in Steps, Prepare(w, s) \/ PrepareSpeedUp(w, s)
  PROVE  BaseInv'
<1>1. CASE Prepare(w, s)
  <2> DEFINE f == <<w, "start">>
  <2>1. f \in Flows /\ f[2] = "start"
    BY DEF Flows
  <2>2. [Idle EXCEPT !.pc = "sign", !.step = s] \in FlowState
    BY StepIsNat, IdleFacts DEF FlowState, FlowPCs
  <2>3. flow' \in [Flows -> FlowState]
    BY <1>1, <2>2 DEF Prepare, BaseInv, TypeInv
  <2>4. FlowOK(f)'
    BY <1>1, <2>1, NewRowFacts
    DEF Prepare, FlowOK, Sending, Idle, Known, Candidates, BaseInv, TypeInv, NewRow
  <2> QED
    BY <1>1, <2>1, <2>3, <2>4, FlowBase DEF Prepare, BaseInv, TypeInv
<1>2. CASE PrepareSpeedUp(w, s)
  <2> DEFINE f == <<w, "speedUp">>
  <2>1. f \in Flows /\ f[2] = "speedUp"
    BY DEF Flows
  <2>2. [Idle EXCEPT !.pc = "sign", !.step = s, !.nonce = row[s].nonce] \in FlowState
    <3>1. row[s].nonce \in Nat
      BY DEF BaseInv, TypeInv, StepRow
    <3> QED
      BY <3>1, StepIsNat, IdleFacts DEF FlowState, FlowPCs
  <2>3. flow' \in [Flows -> FlowState]
    BY <1>2, <2>2 DEF PrepareSpeedUp, BaseInv, TypeInv
  <2>4. row[s].hash # NoHash
    BY <1>2 DEF PrepareSpeedUp, BaseInv, KnownInv, Known
  <2>5. FlowOK(f)'
    BY <1>2, <2>1, <2>4, NewRowFacts
    DEF PrepareSpeedUp, FlowOK, Sending, Idle, Known, Candidates, BaseInv, TypeInv, NewRow
  <2> QED
    BY <1>2, <2>1, <2>3, <2>5, FlowBase DEF PrepareSpeedUp, BaseInv, TypeInv
<1> QED
  BY <1>1, <1>2

LEMMA SignBase ==
  ASSUME BaseInv, NEW f \in Flows, Sign(f)
  PROVE  BaseInv'
<1> DEFINE new == Len(tx) + 1
<1>1. PICK known \in {SentTx(f).nonce} \cup (IF f[2] = "start" THEN {NoHash} ELSE {}) :
        flow' = [flow EXCEPT ![f].pc = "record", ![f].nonce = known, ![f].hash = new]
  BY DEF Sign, SentTx
<1>2. known \in Nat /\ new \in Nat /\ NoHash # new
  BY SignFacts, TxFacts DEF Transaction, NoHash, BaseInv
<1>3. flow' \in [Flows -> FlowState]
  <2>1. [flow[f] EXCEPT !.pc = "record", !.nonce = known, !.hash = new] \in FlowState
    BY <1>2 DEF BaseInv, TypeInv, FlowState, FlowPCs
  <2>2. flow' = [flow EXCEPT ![f] = [@ EXCEPT !.pc = "record", !.nonce = known, !.hash = new]]
    BY <1>1
  <2> HIDE DEF new
  <2> QED
    BY <2>1, <2>2 DEF BaseInv, TypeInv
<1>4. TypeInv'
  BY <1>3, SignFacts DEF Sign, BaseInv, TypeInv
<1>5. KnownInv'
  BY SignFacts DEF Sign, BaseInv, KnownInv, Known, Candidates
<1>6. ASSUME NEW g \in Flows PROVE FlowOK(g)'
  <2>1. CASE g = f
    <3>1. /\ flow'[f].pc = "record" /\ flow'[f].nonce = known /\ flow'[f].hash = new
          /\ flow'[f].step = flow[f].step /\ flow'[f].seen = flow[f].seen
      BY <1>1 DEF BaseInv, TypeInv, FlowState
    <3>2. tx'[new].step = flow[f].step /\ tx'[new].nonce = SentTx(f).nonce /\ new \in Hashes'
      <4>1. tx'[new] = SentTx(f) /\ new \in Hashes'
        BY SignFacts
      <4>2. SentTx(f).step = flow[f].step
        BY DEF SentTx
      <4> QED
        BY <4>1, <4>2
    <3>3. FlowOK(f) /\ flow[f].pc = "sign" /\ row' = row
      BY DEF BaseInv, FlowInv, Sign
    <3>4. Known(flow[f].seen)'
      BY <3>1, <3>3, SignFacts DEF FlowOK, Known, Candidates
    <3>5. f[2] = "speedUp" => known = flow[f].nonce
      BY DEF SentTx
    <3>6. known = SentTx(f).nonce \/ (f[2] = "start" /\ known = NoHash)
      OBVIOUS
    <3> HIDE DEF new
    <3> QED
      BY <2>1, <3>1, <3>2, <3>3, <3>4, <3>5, <3>6 DEF FlowOK, Sending
  <2>2. CASE g # f
    <3>1. flow'[g] = flow[g] /\ row' = row
      BY <1>1, <2>2 DEF BaseInv, TypeInv, Sign
    <3> QED
      BY <3>1, SignFacts DEF FlowOK, Sending, BaseInv, FlowInv, Known, Candidates
  <2> QED
    BY <2>1, <2>2
<1>7. NonceInv'
  <2>1. \A h \in Hashes : tx[h].st \in {"mined", "reverted"} => tx[h].nonce # SentTx(f).nonce
    <3>1. CASE f[2] = "speedUp"
      BY <3>1 DEF Sign, Used, SentTx
    <3>2. CASE f[2] # "speedUp"
      BY <3>2 DEF Sign, Used, SentTx
    <3> QED
      BY <3>1, <3>2
  <2>2. tx'[new] = SentTx(f) /\ SentTx(f).st = "pool" /\ Hashes' = Hashes \cup {new}
    BY SignFacts DEF SentTx
  <2>3. \A h \in Hashes : tx'[h] = tx[h] /\ h # new
    BY SignFacts
  <2>4. NonceInv
    BY DEF BaseInv
  <2> HIDE DEF new
  <2> QED
    BY <2>1, <2>2, <2>3, <2>4 DEF NonceInv
<1> QED
  BY <1>4, <1>5, <1>6, <1>7 DEF BaseInv, FlowInv

LEMMA WindowBase ==
  ASSUME BaseInv, NEW f \in Flows, Rejects(f) \/ Receipt(f)
  PROVE  BaseInv'
<1>1. /\ UNCHANGED <<plan, row, tx, mon>>
      /\ flow' = [flow EXCEPT ![f] = Idle]
  BY DEF Rejects, Receipt, FlowEnds
<1>2. flow' \in [Flows -> FlowState] /\ \A g \in Flows : flow'[g] = flow[g] \/ flow'[g] = Idle
  BY <1>1, IdleFacts DEF BaseInv, TypeInv
<1> QED
  BY <1>1, <1>2, FlowRests DEF Idle

LEMMA CloseBase ==
  ASSUME BaseInv, NEW w \in Windows, CloseWindow(w)
  PROVE  BaseInv'
<1>1. flow' \in [Flows -> FlowState] /\ \A g \in Flows : flow'[g] = flow[g] \/ flow'[g] = Idle
  BY IdleFacts DEF BaseInv, TypeInv, CloseWindow
<1> QED
  BY <1>1, FlowRests DEF CloseWindow, Idle

LEMMA SubmitsBase ==
  ASSUME BaseInv, NEW f \in Flows, Submits(f)
  PROVE  BaseInv'
<1>1. flow[f].step \in Steps /\ FlowOK(f) /\ flow[f].pc = "record"
  BY DEF Submits, BaseInv, FlowInv, FlowOK, Sending
<1>2. row[flow[f].step] \in StepRow /\ Known(row[flow[f].step])
  BY <1>1 DEF BaseInv, TypeInv, KnownInv
<1>3. flow' \in [Flows -> FlowState] /\ \A g \in Flows : g # f => flow'[g] = flow[g]
  BY <1>2 DEF Submits, BaseInv, TypeInv, FlowState, FlowPCs
<1>4. /\ flow'[f].pc = "submit" /\ flow'[f].seen = row[flow[f].step]
      /\ flow'[f].step = flow[f].step /\ flow'[f].hash = flow[f].hash
      /\ flow'[f].nonce = flow[f].nonce
  BY DEF Submits, BaseInv, TypeInv, FlowState
<1>5. FlowOK(f)'
  BY <1>1, <1>2, <1>4 DEF Submits, FlowOK, Sending, Known, Candidates, Hashes
<1> QED
  BY <1>3, <1>5, FlowBase DEF Submits

LEMMA AsksBase ==
  ASSUME BaseInv, NEW f \in Flows, AsksSkip(f) \/ AsksContinue(f) \/ AsksDiscard(f)
  PROVE  BaseInv'
<1>1. PICK pc \in {"skip", "continue", "discard"}, skips \in SUBSET Steps : AsksFor(f, pc, skips)
  BY DEF AsksSkip, AsksContinue, AsksDiscard
<1>2. [Idle EXCEPT !.pc = pc, !.skips = skips] \in FlowState
  BY IdleFacts DEF FlowState, FlowPCs
<1>3. /\ flow' \in [Flows -> FlowState]
      /\ \A g \in Flows : flow'[g] = flow[g] \/ flow'[g] = [Idle EXCEPT !.pc = pc, !.skips = skips]
  BY <1>1, <1>2 DEF AsksFor, BaseInv, TypeInv
<1> QED
  BY <1>1, <1>3, FlowRests DEF AsksFor, Idle

\* A window that does not move, while transactions are only added or moved and
\* a row does not lose its hash.
LEMMA FlowStays ==
  ASSUME NEW f \in Flows, FlowOK(f), flow'[f] = flow[f], Hashes \subseteq Hashes',
         \A h \in Hashes : tx'[h].step = tx[h].step /\ tx'[h].nonce = tx[h].nonce,
         \A s \in Steps : row[s].hash # NoHash => row'[s].hash # NoHash
  PROVE  FlowOK(f)'
  BY DEF FlowOK, Sending, Known, Candidates

LEMMA SubmittedFacts ==
  ASSUME BaseInv, NEW f \in Flows, Submitted(f)
  PROVE  LET c == flow[f]  s == c.step  r == c.seen IN
         /\ s \in Steps /\ c.hash \in Hashes /\ c.hash # NoHash /\ Known(r) /\ FlowOK(f)
         /\ row' \in [Steps -> StepRow] /\ \A e \in Steps : e # s => row'[e] = row[e]
         /\ \/ /\ Registers(r)
               /\ row'[s] = [row[s] EXCEPT !.status = "signed", !.hash = c.hash, !.nonce = c.nonce]
            \/ /\ ~Registers(r) /\ f[2] = "speedUp" /\ r.status = "signed" /\ c.nonce = r.nonce
               /\ row'[s] = [row[s] EXCEPT !.hash = c.hash, !.prev = r.prev \cup {r.hash}]
            \/ /\ ~Registers(r)
               /\ ~(f[2] = "speedUp" /\ r.status = "signed" /\ c.nonce = r.nonce)
               /\ row' = row
         /\ flow' \in [Flows -> FlowState]
         /\ \A g \in Flows : g # f => flow'[g] = flow[g]
         /\ flow'[f].pc \in {"idle", "receipt"} /\ flow'[f].seen = NewRow
<1> DEFINE c == flow[f]  s == c.step  r == c.seen
           signed == [row[s] EXCEPT !.status = "signed", !.hash = c.hash, !.nonce = c.nonce]
           sped == [row[s] EXCEPT !.hash = c.hash, !.prev = r.prev \cup {r.hash}]
<1>1. c \in FlowState /\ FlowOK(f) /\ c.pc = "submit"
  BY DEF Submitted, BaseInv, FlowInv, TypeInv
<1>2. s \in Steps /\ c.hash \in Hashes /\ c.hash # NoHash /\ Known(r)
  BY <1>1, TxFacts DEF FlowOK, Sending, BaseInv
<1>3. r \in StepRow /\ row[s] \in StepRow /\ c.hash \in Nat /\ c.nonce \in Nat
  BY <1>1, <1>2 DEF FlowState, BaseInv, TypeInv
<1>4. signed \in StepRow /\ sped \in StepRow
  <2>1. r.prev \cup {r.hash} \in SUBSET Nat
    BY <1>3 DEF StepRow
  <2> HIDE DEF r
  <2> QED
    BY <1>3, <2>1 DEF StepRow, Statuses, InFlight
<1>5. \/ Registers(r) /\ row' = [row EXCEPT ![s] = signed]
      \/ /\ ~Registers(r) /\ f[2] = "speedUp" /\ r.status = "signed" /\ c.nonce = r.nonce
         /\ row' = [row EXCEPT ![s] = sped]
      \/ /\ ~Registers(r)
         /\ ~(f[2] = "speedUp" /\ r.status = "signed" /\ c.nonce = r.nonce)
         /\ row' = row
  BY DEF Submitted
<1>6. flow' = [flow EXCEPT ![f] = [Idle EXCEPT !.pc = "receipt", !.hash = c.hash]] \/ flow' = [flow EXCEPT ![f] = Idle]
  BY DEF Submitted, Told, FlowEnds
<1>7. [Idle EXCEPT !.pc = "receipt", !.hash = c.hash] \in FlowState
  BY <1>3, IdleFacts DEF FlowState, FlowPCs
<1>8. row \in [Steps -> StepRow] /\ flow \in [Flows -> FlowState]
  BY DEF BaseInv, TypeInv
<1> HIDE DEF signed, sped
<1>9. row' \in [Steps -> StepRow] /\ \A e \in Steps : e # s => row'[e] = row[e]
  BY <1>2, <1>4, <1>5, <1>8
<1>10. /\ Registers(r) /\ row' = [row EXCEPT ![s] = signed] => row'[s] = signed
       /\ row' = [row EXCEPT ![s] = sped] => row'[s] = sped
  BY <1>2, <1>8
<1>11. /\ flow' \in [Flows -> FlowState]
       /\ \A g \in Flows : g # f => flow'[g] = flow[g]
       /\ flow'[f].pc \in {"idle", "receipt"} /\ flow'[f].seen = NewRow
  <2> DEFINE waits == [Idle EXCEPT !.pc = "receipt", !.hash = c.hash]
  <2>1. \A x \in {Idle, waits} : x \in FlowState /\ x.pc \in {"idle", "receipt"} /\ x.seen = NewRow
    <3>1. Idle.pc = "idle" /\ Idle.seen = NewRow
      BY DEF Idle
    <3>2. waits.pc = "receipt" /\ waits.seen = NewRow
      BY DEF Idle
    <3> HIDE DEF waits
    <3> QED
      BY <1>7, <3>1, <3>2, IdleFacts DEF waits
  <2>2. PICK x \in {Idle, waits} : flow' = [flow EXCEPT ![f] = x]
    BY <1>6
  <2> HIDE DEF waits
  <2> QED
    BY <1>8, <2>1, <2>2
<1> QED
  BY <1>1, <1>2, <1>5, <1>9, <1>10, <1>11 DEF signed, sped

LEMMA SubmittedBase ==
  ASSUME BaseInv, NEW f \in Flows, Submitted(f)
  PROVE  BaseInv'
<1> DEFINE c == flow[f]  s == c.step  r == c.seen
<1>1. UNCHANGED <<plan, tx, mon>> /\ s \in Steps /\ c.hash \in Hashes /\ c.hash # NoHash
      /\ Known(r)
  BY SubmittedFacts DEF Submitted
<1>2. /\ row' \in [Steps -> StepRow] /\ \A e \in Steps : e # s => row'[e] = row[e]
      /\ flow' \in [Flows -> FlowState]
      /\ \A g \in Flows : g # f => flow'[g] = flow[g]
      /\ flow'[f].pc \in {"idle", "receipt"} /\ flow'[f].seen = NewRow
  BY SubmittedFacts
<1>3. TypeInv' /\ NonceInv'
  BY <1>1, <1>2 DEF BaseInv, TypeInv, NonceInv, Hashes
<1>4. row[s] \in StepRow /\ Known(row[s])
  BY <1>1 DEF BaseInv, TypeInv, KnownInv
<1>5. /\ Known(row'[s]) /\ (row'[s].hash = NoHash => row[s].hash = NoHash)
      /\ (row'[s].status = "pending" => row'[s].hash = NoHash)
  <2>1. CASE /\ Registers(r)
             /\ row'[s] = [row[s] EXCEPT !.status = "signed", !.hash = c.hash, !.nonce = c.nonce]
    <3>1. row'[s].status = "signed" /\ row'[s].hash = c.hash /\ row'[s].prev = row[s].prev
      BY <1>4, <2>1 DEF StepRow
    <3> QED
      BY <1>1, <1>4, <3>1 DEF Known, Candidates, Hashes
  <2>2. CASE /\ ~Registers(r) /\ f[2] = "speedUp" /\ r.status = "signed" /\ c.nonce = r.nonce
             /\ row'[s] = [row[s] EXCEPT !.hash = c.hash, !.prev = r.prev \cup {r.hash}]
    <3>1. row'[s].status = row[s].status /\ row'[s].hash = c.hash
          /\ row'[s].prev = r.prev \cup {r.hash}
      BY <1>4, <2>2 DEF StepRow
    <3>2. r.hash # NoHash
      BY <1>1, <2>2 DEF Known
    <3>3. row[s].hash # NoHash
      BY <2>2, SubmittedFacts DEF FlowOK, Sending, Submitted
    <3>4. row[s].status # "pending"
      BY <1>1, <3>3 DEF BaseInv, KnownInv
    <3> QED
      BY <1>1, <1>4, <3>1, <3>2, <3>4 DEF Known, Candidates, Hashes
  <2>3. CASE row' = row
    BY <1>1, <2>3 DEF BaseInv, KnownInv, Known, Candidates, Hashes
  <2> QED
    BY <2>1, <2>2, <2>3, SubmittedFacts
<1>6. KnownInv'
  <2>1. ASSUME NEW e \in Steps
        PROVE  Known(row'[e]) /\ (row'[e].status = "pending" => row'[e].hash = NoHash)
               /\ (row[e].hash # NoHash => row'[e].hash # NoHash)
    <3>1. CASE e = s
      BY <1>5, <3>1
    <3>2. CASE e # s
      BY <1>1, <1>2, <3>2 DEF BaseInv, KnownInv, Known, Candidates, Hashes
    <3> QED
      BY <3>1, <3>2
  <2>2. mon' = mon /\ Hashes' = Hashes
    BY <1>1 DEF Hashes
  <2> QED
    BY <2>1, <2>2 DEF BaseInv, TypeInv, KnownInv, Known, Candidates
<1>7. ASSUME NEW g \in Flows PROVE FlowOK(g)'
  <2>1. CASE g = f
    BY <1>2, <2>1, NewRowFacts DEF FlowOK, Sending, Known, NewRow, Candidates
  <2>2. CASE g # f
    <3>1. \A e \in Steps : row[e].hash # NoHash => row'[e].hash # NoHash
      BY <1>2, <1>5
    <3> QED
      BY <1>1, <1>2, <2>2, <3>1, FlowStays DEF BaseInv, FlowInv, Hashes
  <2> QED
    BY <2>1, <2>2
<1> QED
  BY <1>3, <1>6, <1>7 DEF BaseInv, FlowInv

LEMMA AnsweredFacts ==
  ASSUME BaseInv, NEW f \in Flows, Answered(f)
  PROVE  /\ row' \in [Steps -> StepRow]
         /\ \A s \in Steps : s \notin flow[f].skips => row'[s] = row[s]
         /\ \A s \in Steps : s \in flow[f].skips => row'[s] = [row[s] EXCEPT !.status = "skipped"]
         /\ flow' = [flow EXCEPT ![f] = Idle] /\ flow' \in [Flows -> FlowState]
         /\ plan' \in PlanStatuses
<1> DEFINE r == [s \in Steps |-> IF s \in flow[f].skips THEN [row[s] EXCEPT !.status = "skipped"]
                                 ELSE row[s]]
<1>1. row' = r
  BY DEF Answered
<1>2. \A s \in Steps : row[s] \in StepRow
  BY DEF BaseInv, TypeInv
<1>3. \A s \in Steps : [row[s] EXCEPT !.status = "skipped"] \in StepRow
  BY <1>2 DEF StepRow, Statuses
<1>4. row' \in [Steps -> StepRow]
  BY <1>1, <1>2, <1>3
<1>5. flow' = [flow EXCEPT ![f] = Idle] /\ flow' \in [Flows -> FlowState]
  BY IdleFacts DEF Answered, FlowEnds, BaseInv, TypeInv
<1>6. plan' \in PlanStatuses
  <2>1. flow[f].pc = "skip" => plan' = Recomputed(row')
    BY DEF Answered
  <2>2. flow[f].pc = "continue" => plan' = "partial"
    BY DEF Answered
  <2>3. flow[f].pc = "discard" => plan' = "discarded"
    BY DEF Answered
  <2>4. Recomputed(row') \in PlanStatuses
    BY DEF Recomputed, ClosedAs, BaseInv, TypeInv, PlanStatuses
  <2> QED
    BY <2>1, <2>2, <2>3, <2>4 DEF Answered, PlanStatuses
<1> QED
  BY <1>1, <1>4, <1>5, <1>6

LEMMA AnsweredBase ==
  ASSUME BaseInv, NEW f \in Flows, Answered(f)
  PROVE  BaseInv'
<1>1. UNCHANGED <<tx, mon>> /\ Hashes' = Hashes
  BY DEF Answered, Hashes
<1>2. TypeInv' /\ NonceInv'
  BY <1>1, AnsweredFacts DEF BaseInv, TypeInv, NonceInv
<1>3. ASSUME NEW s \in Steps
      PROVE  /\ row'[s].hash = row[s].hash /\ row'[s].prev = row[s].prev
             /\ row'[s].status = row[s].status \/ row'[s].status = "skipped"
  <2>1. row[s] \in StepRow
    BY DEF BaseInv, TypeInv
  <2> QED
    BY <2>1, AnsweredFacts DEF StepRow
<1>4. KnownInv'
  BY <1>1, <1>3 DEF BaseInv, TypeInv, KnownInv, Known, Candidates
<1>5. ASSUME NEW g \in Flows PROVE FlowOK(g)'
  <2>1. CASE g = f
    <3>1. flow'[g] = Idle
      BY <2>1, AnsweredFacts DEF BaseInv, TypeInv
    <3> QED
      BY <3>1, NewRowFacts DEF FlowOK, Sending, Idle, Known, NewRow, Candidates
  <2>2. CASE g # f
    <3>1. flow'[g] = flow[g] /\ FlowOK(g)
      BY <2>2, AnsweredFacts DEF BaseInv, TypeInv, FlowInv
    <3> QED
      BY <1>1, <1>3, <3>1, FlowStays
  <2> QED
    BY <2>1, <2>2
<1> QED
  BY <1>2, <1>4, <1>5 DEF BaseInv, FlowInv

\* An action of the monitor that writes nothing.
LEMMA MonFrame ==
  ASSUME BaseInv, UNCHANGED <<row, tx, flow>>, plan' \in PlanStatuses,
         TypeInv', KnownInv'
  PROVE  BaseInv'
<1>1. NonceInv'
  BY DEF BaseInv, NonceInv, Hashes
<1>2. FlowInv'
  BY DEF BaseInv, FlowInv, FlowOK, Known, Candidates, Sending, Hashes
<1> QED
  BY <1>1, <1>2 DEF BaseInv

LEMMA RestingFacts ==
  /\ DOMAIN Resting = {"pc", "seen", "left", "hash", "verdict"}
  /\ Resting.pc = "idle" /\ Resting.left = {}
  BY DEF Resting

\* The tick goes on with the other steps, or rests.
LEMMA PassesFacts ==
  ASSUME BaseInv, mon.pc # "idle", Passes
  PROVE  /\ DOMAIN mon' = {"pc", "seen", "left", "hash", "verdict"}
         /\ \/ mon' = Resting
            \/ /\ mon'.pc = "check" /\ mon'.left = mon.left \ {Cur} /\ mon'.left # {}
               /\ mon'.seen = [s \in mon.left \ {Cur} |-> mon.seen[s]]
  BY RestingFacts DEF Passes, Resting

LEMMA PassesBase ==
  ASSUME BaseInv, mon.pc # "idle", Passes, UNCHANGED <<row, tx, flow>>, plan' \in PlanStatuses
  PROVE  BaseInv'
<1>1. CASE mon' = Resting
  BY <1>1, RestingFacts, MonFrame
  DEF BaseInv, TypeInv, KnownInv, MonPCs, Hashes, Known, Candidates
<1>2. CASE /\ mon'.pc = "check" /\ mon'.left = mon.left \ {Cur} /\ mon'.left # {}
           /\ mon'.seen = [s \in mon.left \ {Cur} |-> mon.seen[s]]
  <2>1. mon'.seen \in [mon'.left -> StepRow]
    BY <1>2 DEF BaseInv, TypeInv
  <2>2. TypeInv'
    BY <1>2, <2>1, PassesFacts DEF BaseInv, TypeInv, MonPCs
  <2>3. KnownInv'
    BY <1>2 DEF BaseInv, TypeInv, KnownInv, Hashes, Known, Candidates
  <2> QED
    BY <2>2, <2>3, MonFrame
<1> QED
  BY <1>1, <1>2, PassesFacts

LEMMA ListsBase ==
  ASSUME BaseInv, MonitorLists
  PROVE  BaseInv'
<1>1. /\ DOMAIN mon' = {"pc", "seen", "left", "hash", "verdict"}
      /\ mon'.pc = "check" /\ mon'.left = Watched /\ Watched # {}
      /\ mon'.seen = [s \in Watched |-> row[s]]
  BY RestingFacts DEF MonitorLists, Resting
<1>2. Watched \subseteq Steps /\ \A s \in Watched : row[s].hash # NoHash
  BY DEF Watched, InFlight, BaseInv, KnownInv, Known
<1>3. mon'.seen \in [mon'.left -> StepRow]
  BY <1>1, <1>2 DEF BaseInv, TypeInv
<1>4. TypeInv'
  BY <1>1, <1>2, <1>3 DEF MonitorLists, BaseInv, TypeInv, MonPCs
<1>5. KnownInv'
  BY <1>1, <1>2 DEF MonitorLists, BaseInv, TypeInv, KnownInv, Hashes, Known, Candidates
<1> QED
  BY <1>4, <1>5, MonFrame DEF MonitorLists, BaseInv, TypeInv

\* The copy of the step in hand.
LEMMA SeenFacts ==
  ASSUME BaseInv, mon.pc # "idle"
  PROVE  /\ Cur \in mon.left /\ Cur \in Steps
         /\ mon.seen[Cur] \in StepRow /\ Known(mon.seen[Cur])
         /\ row[Cur] \in StepRow /\ row[Cur].hash # NoHash
         /\ mon.seen[Cur].status \in InFlight =>
               mon.seen[Cur].hash # NoHash /\ Candidates(mon.seen[Cur]) \subseteq Hashes
<1>1. Cur \in mon.left /\ Cur \in Steps
  BY CurIsIn DEF BaseInv
<1> QED
  BY <1>1 DEF BaseInv, TypeInv, KnownInv, Known, Candidates, InFlight

LEMMA LooksBase ==
  ASSUME BaseInv, MonitorSource \/ MonitorDelivery
  PROVE  /\ BaseInv'
         /\ mon.pc = "check" /\ mon'.pc = "write" /\ mon'.left = mon.left /\ mon'.seen = mon.seen
         /\ mon'.hash \in Candidates(mon.seen[Cur])
<1>1. mon.pc = "check" /\ UNCHANGED <<plan, row, tx, flow, lost>>
  BY DEF MonitorSource, MonitorDelivery
<1>2. /\ DOMAIN mon' = DOMAIN mon /\ mon'.pc = "write" /\ mon'.left = mon.left
      /\ mon'.seen = mon.seen /\ mon'.hash \in Candidates(mon.seen[Cur])
      /\ mon'.verdict \in {"source_confirmed", "failed", "delivered", "refunded"}
      /\ mon'.hash \in Hashes
  <2>1. CASE MonitorSource
    <3>1. PICK h \in Candidates(mon.seen[Cur]) :
             mon' = [mon EXCEPT !.pc = "write", !.hash = h,
                       !.verdict = IF tx[h].st = "mined" THEN "source_confirmed" ELSE "failed"]
      BY <2>1 DEF MonitorSource
    <3>2. Candidates(mon.seen[Cur]) \subseteq Hashes
      BY <1>1, <2>1, SeenFacts DEF MonitorSource, InFlight
    <3> QED
      BY <3>1, <3>2 DEF BaseInv, TypeInv
  <2>2. CASE MonitorDelivery
    <3>1. mon.seen[Cur].hash \in Hashes
      BY <1>1, <2>2, SeenFacts DEF MonitorDelivery, InFlight, Candidates
    <3>2. tx[mon.seen[Cur].hash].out \in {"delivered", "refunded"}
      BY <2>2, <3>1, TxFacts DEF MonitorDelivery, BaseInv, Transaction
    <3> QED
      BY <2>2, <3>1, <3>2 DEF MonitorDelivery, BaseInv, TypeInv, Candidates
  <2> QED
    BY <2>1, <2>2
<1>3. TypeInv'
  BY <1>1, <1>2 DEF BaseInv, TypeInv, MonPCs
<1>4. KnownInv'
  BY <1>1, <1>2 DEF BaseInv, TypeInv, KnownInv, Known, Candidates, Hashes
<1>5. BaseInv'
  BY <1>1, <1>3, <1>4, MonFrame DEF BaseInv, TypeInv
<1> QED
  BY <1>1, <1>2, <1>5

LEMMA WritesFacts ==
  ASSUME BaseInv, MonitorWrites
  PROVE  /\ row' \in [Steps -> StepRow] /\ \A s \in Steps : s # Cur => row'[s] = row[s]
         /\ row'[Cur] = [row[Cur] EXCEPT !.status = mon.verdict,
                           !.hash = IF mon.hash # mon.seen[Cur].hash THEN mon.hash ELSE @]
         /\ row'[Cur].hash # NoHash /\ row'[Cur].hash \in Hashes /\ row'[Cur].prev = row[Cur].prev
         /\ row'[Cur].status = mon.verdict /\ row'[Cur].nonce = row[Cur].nonce
         /\ DOMAIN mon' = DOMAIN mon /\ mon'.pc = "count" /\ mon'.left = mon.left
         /\ mon'.seen = [mon.seen EXCEPT ![Cur] = NewRow]
<1> DEFINE new == [row[Cur] EXCEPT !.status = mon.verdict,
                     !.hash = IF mon.hash # mon.seen[Cur].hash THEN mon.hash ELSE @]
<1>1. mon.pc = "write" /\ mon.hash \in Hashes /\ Cur \in Steps /\ row[Cur] \in StepRow
      /\ row[Cur].hash # NoHash /\ mon.verdict \in Statuses /\ NoHash \notin Hashes
  BY SeenFacts, TxFacts DEF MonitorWrites, BaseInv, KnownInv, Statuses, InFlight, Terminal
<1>2. row[Cur].hash \in Hashes
  BY <1>1 DEF BaseInv, KnownInv, Known, Candidates
<1>3. /\ new.status = mon.verdict /\ new.prev = row[Cur].prev /\ new.nonce = row[Cur].nonce
      /\ new.hash \in Hashes /\ new.hash # NoHash
  BY <1>1, <1>2 DEF StepRow
<1>4. new \in StepRow
  BY <1>1, <1>3, TxFacts DEF StepRow, BaseInv
<1>5. row' = [row EXCEPT ![Cur] = new] /\ row \in [Steps -> StepRow]
  BY DEF MonitorWrites, BaseInv, TypeInv
<1>6. /\ DOMAIN mon' = DOMAIN mon /\ mon'.pc = "count" /\ mon'.left = mon.left
      /\ mon'.seen = [mon.seen EXCEPT ![Cur] = NewRow]
  BY DEF MonitorWrites, BaseInv, TypeInv
<1>7. row' \in [Steps -> StepRow] /\ row'[Cur] = new /\ \A s \in Steps : s # Cur => row'[s] = row[s]
  <2> HIDE DEF new
  <2> QED
    BY <1>1, <1>4, <1>5
<1> QED
  BY <1>3, <1>6, <1>7

LEMMA WritesBase ==
  ASSUME BaseInv, MonitorWrites
  PROVE  BaseInv'
<1>1. UNCHANGED <<plan, tx, flow>> /\ Hashes' = Hashes /\ mon.pc = "write" /\ Cur \in mon.left
  BY SeenFacts DEF MonitorWrites, Hashes
<1>2. mon'.seen \in [mon'.left -> StepRow]
  BY <1>1, WritesFacts, NewRowFacts DEF BaseInv, TypeInv
<1>3. TypeInv' /\ NonceInv'
  BY <1>1, <1>2, WritesFacts DEF BaseInv, TypeInv, NonceInv, MonPCs
<1>4. Known(row'[Cur])
  BY <1>1, SeenFacts, WritesFacts DEF BaseInv, KnownInv, Known, Candidates
<1>5. mon.verdict # "pending"
  BY <1>1 DEF BaseInv, KnownInv
<1>6. ASSUME NEW s \in Steps
      PROVE  Known(row'[s]) /\ (row'[s].status = "pending" => row'[s].hash = NoHash)
             /\ (row[s].hash # NoHash => row'[s].hash # NoHash)
  <2>1. CASE s = Cur
    BY <1>4, <1>5, <2>1, WritesFacts
  <2>2. CASE s # Cur
    BY <1>1, <2>2, WritesFacts DEF BaseInv, KnownInv, Known, Candidates
  <2> QED
    BY <2>1, <2>2
<1>7. ASSUME NEW s \in mon.left PROVE Known(mon'.seen[s])
  BY <1>1, WritesFacts, NewRowFacts DEF BaseInv, TypeInv, KnownInv
<1>8. KnownInv'
  BY <1>1, <1>6, <1>7, WritesFacts DEF BaseInv, TypeInv, KnownInv, Known, Candidates
<1>9. ASSUME NEW g \in Flows PROVE FlowOK(g)'
  BY <1>1, <1>6, FlowStays DEF BaseInv, FlowInv
<1> QED
  BY <1>3, <1>8, <1>9 DEF BaseInv, FlowInv

LEMMA CountsBase ==
  ASSUME BaseInv, MonitorCounts \/ MonitorPasses \/ MonitorCloses \/ MonitorRestarts
  PROVE  BaseInv'
<1>1. ASSUME Passes, mon.pc # "idle", UNCHANGED <<row, tx, flow>>, plan' \in PlanStatuses PROVE BaseInv'
  BY <1>1, PassesBase
<1>2. CASE MonitorPasses
  BY <1>1, <1>2 DEF MonitorPasses, BaseInv, TypeInv
<1>3. CASE MonitorCloses
  <2>1. mon.verdict \in PlanStatuses
    BY <1>3 DEF MonitorCloses, BaseInv, KnownInv, PlanStatuses
  <2> QED
    BY <1>1, <1>3, <2>1 DEF MonitorCloses
<1>4. CASE MonitorRestarts
  BY <1>4, RestingFacts, MonFrame
  DEF MonitorRestarts, BaseInv, TypeInv, KnownInv, MonPCs, Hashes, Known, Candidates
<1>5. CASE MonitorCounts
  <2>1. CASE Recomputed(row) = plan
    BY <1>1, <1>5, <2>1 DEF MonitorCounts, BaseInv, TypeInv
  <2>2. CASE Recomputed(row) # plan
    <3>1. mon' = [mon EXCEPT !.pc = "close", !.verdict = Recomputed(row)]
          /\ UNCHANGED <<plan, row, tx, flow>> /\ mon.pc = "count"
      BY <1>5, <2>2 DEF MonitorCounts
    <3>2. Recomputed(row) \in {"partial", "delivered"}
      BY <2>2 DEF Recomputed, ClosedAs
    <3>3. /\ DOMAIN mon' = DOMAIN mon /\ mon'.pc = "close" /\ mon'.left = mon.left
          /\ mon'.seen = mon.seen /\ mon'.verdict = Recomputed(row)
      BY <3>1 DEF BaseInv, TypeInv
    <3>4. TypeInv'
      BY <3>1, <3>3 DEF BaseInv, TypeInv, MonPCs
    <3>5. KnownInv'
      BY <3>1, <3>2, <3>3 DEF BaseInv, TypeInv, KnownInv, Known, Candidates, Hashes
    <3> QED
      BY <3>1, <3>4, <3>5, MonFrame DEF BaseInv, TypeInv
  <2> QED
    BY <2>1, <2>2
<1> QED
  BY <1>2, <1>3, <1>4, <1>5

LEMMA ChainBase ==
  ASSUME BaseInv, NEW h \in Hashes, Mine(h) \/ Bridge(h)
  PROVE  BaseInv'
<1>1. UNCHANGED <<plan, row, flow, mon>>
  BY DEF Mine, Bridge
<1>2. /\ tx' \in Seq(Transaction) /\ Hashes' = Hashes
      /\ \A g \in Hashes : tx'[g].step = tx[g].step /\ tx'[g].nonce = tx[g].nonce
  BY MineFacts, BridgeFacts DEF BaseInv
<1>3. TypeInv' /\ KnownInv'
  BY <1>1, <1>2 DEF BaseInv, TypeInv, KnownInv, Known, Candidates
<1>4. FlowInv'
  BY <1>1, <1>2, FlowStays DEF BaseInv, FlowInv
<1>5. NonceInv'
  <2> SUFFICES ASSUME NEW a \in Hashes, NEW b \in Hashes, a # b, tx'[a].nonce = tx'[b].nonce,
                      tx'[b].st \in {"mined", "reverted"}
               PROVE  tx'[a].st = "dropped"
    BY <1>2 DEF NonceInv
  <2>1. CASE Mine(h)
    <3>1. TypeInv /\ tx[a].nonce = tx[b].nonce
      BY <1>2 DEF BaseInv
    <3>2. CASE tx[b].nonce = tx[h].nonce
      <4>1. b = h
        <5> SUFFICES ASSUME b # h PROVE FALSE
          OBVIOUS
        <5>1. tx'[b].st = "dropped"
          BY <2>1, <3>1, <3>2, MineFacts
        <5> QED
          BY <5>1
      <4> QED
        BY <2>1, <3>1, <3>2, <4>1, MineFacts
    <3>3. CASE tx[b].nonce # tx[h].nonce
      <4>1. tx'[a] = tx[a] /\ tx'[b] = tx[b]
        BY <2>1, <3>1, <3>3, MineFacts
      <4> QED
        BY <3>1, <4>1 DEF BaseInv, NonceInv
    <3> QED
      BY <3>2, <3>3
  <2>2. CASE Bridge(h)
    <3>1. tx'[a].st = tx[a].st /\ tx'[b].st = tx[b].st /\ tx[a].nonce = tx[b].nonce
      BY <1>2, <2>2, BridgeFacts DEF BaseInv
    <3> QED
      BY <3>1 DEF BaseInv, NonceInv
  <2> QED
    BY <2>1, <2>2
<1> QED
  BY <1>3, <1>4, <1>5 DEF BaseInv

\* Whatever happens.
LEMMA BaseStep == BaseInv /\ [FundingNext]_fundingVars => BaseInv'
<1> SUFFICES ASSUME BaseInv, [FundingNext]_fundingVars PROVE BaseInv'
  OBVIOUS
<1>1. CASE UNCHANGED fundingVars
  BY <1>1 DEF fundingVars, BaseInv, TypeInv, KnownInv, FlowInv, FlowOK, NonceInv, Known,
              Candidates, Sending, Hashes
<1>2. CASE \E w \in Windows, s \in Steps : Prepare(w, s) \/ PrepareSpeedUp(w, s)
  BY <1>2, PrepareBase
<1>3. CASE \E w \in Windows : CloseWindow(w)
  BY <1>3, CloseBase
<1>4. ASSUME NEW f \in Flows,
             \/ Rejects(f) \/ Sign(f) \/ Receipt(f) \/ Submits(f) \/ Submitted(f)
             \/ AsksSkip(f) \/ AsksContinue(f) \/ AsksDiscard(f) \/ Answered(f)
      PROVE  BaseInv'
  BY <1>4, WindowBase, SignBase, SubmitsBase, SubmittedBase, AsksBase, AnsweredBase
<1>5. CASE \/ MonitorLists \/ MonitorSource \/ MonitorDelivery \/ MonitorPasses
           \/ MonitorWrites \/ MonitorCounts \/ MonitorCloses \/ MonitorRestarts
  BY <1>5, ListsBase, LooksBase, WritesBase, CountsBase
<1>6. CASE \E h \in Hashes : Mine(h) \/ Bridge(h)
  BY <1>6, ChainBase
<1> QED
  BY <1>1, <1>2, <1>3, <1>4, <1>5, <1>6 DEF FundingNext

-----------------------------------------------------------------------------
(* One window: the funds of a step leave once.                              *)

LEMMA OneStart ==
  ASSUME OneWindow, NEW f \in Flows, NEW g \in Flows, f[2] = g[2]
  PROVE  f = g
  BY DEF OneWindow, Flows

\* Transactions keep their step and nonce, rows their nonce and whether they
\* have a hash, and no window begins to send or tells what it sent.
LEMMA OnceStays ==
  ASSUME OnceInv, lost' = lost, Hashes' = Hashes,
         \A h \in Hashes : tx'[h].step = tx[h].step /\ tx'[h].nonce = tx[h].nonce,
         \A s \in Steps : /\ row'[s].hash = NoHash <=> row[s].hash = NoHash
                          /\ row'[s].nonce = row[s].nonce,
         \A f \in Flows : \/ flow'[f] = flow[f]
                          \/ /\ flow[f].pc \notin {"record", "submit"}
                             /\ flow'[f].pc \notin {"sign", "record", "submit"}
  PROVE  StartInv' /\ SentInv'
<1>1. \A s : Sent(s)' = Sent(s)
  BY DEF Sent
<1>2. \A f \in Flows : Sending(f)' => flow'[f] = flow[f] /\ Sending(f) /\ flow[f].step \in Steps
  BY DEF Sending, OnceInv, BaseInv, FlowInv, FlowOK
<1>3. \A s \in Steps : \A h \in Sent(s) : tx'[h].nonce = tx[h].nonce
  BY DEF Sent
<1>4. ASSUME NEW f \in Flows PROVE StartOK(f)'
  BY <1>1, <1>2, <1>3 DEF StartOK, OnceInv, StartInv, Registers
<1>5. StartInv'
  BY <1>1, <1>3, <1>4 DEF StartInv, OnceInv
<1>6. SentInv'
  BY <1>1, <1>2 DEF SentInv, OnceInv, Sending
<1> QED
  BY <1>5, <1>6

LEMMA PrepareOnce ==
  ASSUME OneWindow, OnceInv, NEW w \in Windows, NEW s \in Steps,
         Prepare(w, s) \/ PrepareSpeedUp(w, s)
  PROVE  StartInv' /\ SentInv'
<1>1. UNCHANGED <<row, tx, lost>> /\ Hashes' = Hashes /\ \A e : Sent(e)' = Sent(e)
  BY DEF Prepare, PrepareSpeedUp, Hashes, Sent
<1>2. CASE Prepare(w, s)
  <2> DEFINE f == <<w, "start">>
  <2>1. f \in Flows /\ f[2] = "start" /\ flow[f].pc = "idle"
    BY <1>2 DEF Flows, Prepare
  <2>2. /\ flow'[f].pc = "sign" /\ flow'[f].step = s
        /\ \A g \in Flows : g # f => flow'[g] = flow[g]
    BY <1>2, <2>1 DEF Prepare, OnceInv, BaseInv, TypeInv, Idle
  <2>3. row[s].status = "pending" /\ row[s].hash = NoHash
    BY <1>2 DEF Prepare, Preparable, OnceInv, BaseInv, KnownInv
  <2>4. \A g \in Flows : g[2] = "start" => g = f
    BY <2>1, OneStart
  <2> HIDE DEF f
  <2>5. ASSUME NEW g \in Flows PROVE StartOK(g)'
    <3>1. CASE g = f
      BY <1>1, <2>1, <2>2, <2>3, <3>1 DEF StartOK
    <3>2. CASE g # f
      BY <1>1, <2>2, <3>2 DEF StartOK, OnceInv, StartInv, Sending, Registers
    <3> QED
      BY <3>1, <3>2
  <2>6. StartInv'
    BY <1>1, <2>5 DEF StartInv, OnceInv
  <2>7. lost = {} => Sent(s) = {}
    BY <2>1, <2>3, <2>4 DEF OnceInv, SentInv
  <2>8. SentInv'
    BY <1>1, <2>1, <2>2, <2>4, <2>7 DEF SentInv, OnceInv
  <2> QED
    BY <2>6, <2>8
<1>3. CASE PrepareSpeedUp(w, s)
  <2> DEFINE f == <<w, "speedUp">>
  <2>1. f \in Flows /\ f[2] = "speedUp" /\ flow[f].pc = "idle"
    BY <1>3 DEF Flows, PrepareSpeedUp
  <2>2. /\ flow'[f].pc = "sign" /\ flow'[f].step = s /\ flow'[f].nonce = row[s].nonce
        /\ \A g \in Flows : g # f => flow'[g] = flow[g]
    BY <1>3, <2>1 DEF PrepareSpeedUp, OnceInv, BaseInv, TypeInv, Idle
  <2>3. \E h \in Sent(s) : tx[h].nonce = row[s].nonce
    BY <1>3 DEF PrepareSpeedUp, OnceInv, StartInv
  <2> HIDE DEF f
  <2>4. ASSUME NEW g \in Flows PROVE StartOK(g)'
    <3>1. CASE g = f
      BY <1>1, <2>1, <2>2, <2>3, <3>1 DEF StartOK
    <3>2. CASE g # f
      BY <1>1, <2>2, <3>2 DEF StartOK, OnceInv, StartInv, Sending, Registers
    <3> QED
      BY <3>1, <3>2
  <2>5. StartInv'
    BY <1>1, <2>4 DEF StartInv, OnceInv
  <2>6. SentInv'
    BY <1>1, <2>1, <2>2 DEF SentInv, OnceInv
  <2> QED
    BY <2>5, <2>6
<1> QED
  BY <1>2, <1>3

LEMMA SignOnce ==
  ASSUME OneWindow, OnceInv, NEW f \in Flows, Sign(f)
  PROVE  StartInv' /\ SentInv'
<1> DEFINE new == Len(tx) + 1  s == flow[f].step
<1>1. UNCHANGED <<row, lost>> /\ flow[f].pc = "sign" /\ BaseInv /\ FlowOK(f) /\ StartOK(f)
  BY DEF Sign, OnceInv, BaseInv, FlowInv, StartInv
<1>2. /\ Hashes' = Hashes \cup {new} /\ new \notin Hashes
      /\ \A h \in Hashes : tx'[h] = tx[h]
      /\ tx'[new] = SentTx(f)
  BY <1>1, SignFacts
<1>3. /\ flow'[f].pc = "record" /\ flow'[f].step = s
      /\ f[2] = "speedUp" => flow'[f].nonce = flow[f].nonce
      /\ \A g \in Flows : g # f => flow'[g] = flow[g]
  <2>1. PICK known \in {SentTx(f).nonce} \cup (IF f[2] = "start" THEN {NoHash} ELSE {}) :
          flow' = [flow EXCEPT ![f].pc = "record", ![f].nonce = known, ![f].hash = new]
    BY DEF Sign, SentTx
  <2>2. f[2] = "speedUp" => known = flow[f].nonce
    BY <2>1 DEF SentTx
  <2> HIDE DEF new
  <2> QED
    BY <1>1, <2>1, <2>2 DEF BaseInv, TypeInv, FlowState
<1>4. SentTx(f).step = s /\ (f[2] = "speedUp" => SentTx(f).nonce = flow[f].nonce)
      /\ f[2] \in {"start", "speedUp"} /\ s \in Steps
  BY <1>1 DEF SentTx, FlowOK, Sending
<1> HIDE DEF new
<1>5. /\ \A e : e # s => Sent(e)' = Sent(e)
      /\ \A e : e = s => Sent(e)' = Sent(e) \cup {new}
      /\ \A e : Sent(e) \subseteq Hashes
  BY <1>2, <1>4 DEF Sent
<1>6. \A e \in Steps : \A n : (\E h \in Sent(e) : tx[h].nonce = n) => \E h \in Sent(e)' : tx'[h].nonce = n
  <2> SUFFICES ASSUME NEW e \in Steps, NEW n, NEW h \in Sent(e), tx[h].nonce = n
               PROVE  h \in Sent(e)' /\ tx'[h].nonce = n
    OBVIOUS
  <2>1. h \in Hashes /\ tx'[h] = tx[h]
    BY <1>2 DEF Sent
  <2> QED
    <3>1. Sent(e) \subseteq Sent(e)'
      BY <1>5
    <3> QED
      BY <2>1, <3>1
<1>7. ASSUME NEW g \in Flows PROVE StartOK(g)'
  <2>1. CASE g = f
    BY <1>1, <1>3, <1>4, <1>6, <2>1 DEF StartOK, Sending
  <2>2. CASE g # f
    <3>1. flow'[g] = flow[g] /\ StartOK(g) /\ FlowOK(g)
      BY <1>3, <2>2 DEF OnceInv, StartInv, BaseInv, FlowInv
    <3> QED
      BY <1>1, <1>6, <3>1 DEF StartOK, Sending, Registers, FlowOK
  <2> QED
    BY <2>1, <2>2
<1>8. StartInv'
  BY <1>1, <1>6, <1>7 DEF OnceInv, StartInv
<1>9. ASSUME lost = {}
      PROVE  /\ \A h \in Sent(s) : tx[h].nonce = SentTx(f).nonce
             /\ \A g \in Flows : g # f /\ g[2] = "start" /\ flow[g].pc = "sign" => flow[g].step # s
  <2>1. CASE f[2] = "start"
    <3>1. Sent(s) = {} /\ \A g \in Flows : g[2] = "start" => g = f
      BY <1>1, <1>9, <2>1, OneStart DEF OnceInv, SentInv
    <3> QED
      BY <3>1
  <2>2. CASE f[2] = "speedUp"
    <3>1. row[s].hash # NoHash /\ \E h \in Sent(s) : tx[h].nonce = flow[f].nonce
      BY <1>1, <2>2 DEF FlowOK, StartOK, Sending
    <3>2. \A g \in Flows : g[2] = "start" /\ flow[g].pc = "sign" => flow[g].step # s
      BY <3>1 DEF OnceInv, StartInv, StartOK, Sending
    <3>3. \A g, h \in Sent(s) : tx[g].nonce = tx[h].nonce
      BY <1>9 DEF OnceInv, SentInv, Sent
    <3> QED
      BY <1>4, <2>2, <3>1, <3>2, <3>3
  <2> QED
    BY <1>4, <2>1, <2>2
<1>10. SentInv'
  <2> SUFFICES ASSUME lost = {} PROVE SentInv'
    BY <1>1 DEF SentInv
  <2>1. ASSUME NEW g \in Hashes', NEW h \in Hashes', tx'[g].step = tx'[h].step
        PROVE  tx'[g].nonce = tx'[h].nonce
    <3>1. \A x \in Hashes : tx[x].step = s => tx[x].nonce = SentTx(f).nonce
      BY <1>9 DEF Sent
    <3>2. CASE g \in Hashes /\ h \in Hashes
      BY <1>2, <2>1, <3>2 DEF OnceInv, SentInv
    <3> QED
      BY <1>2, <1>4, <2>1, <3>1, <3>2
  <2>2. ASSUME NEW g \in Flows, g[2] = "start", flow'[g].pc = "sign"
        PROVE  \A h \in Hashes' : tx'[h].step # flow'[g].step
    <3>1. g # f /\ flow'[g] = flow[g]
      BY <1>3, <2>2
    <3>2. flow[g].step # s /\ Sent(flow[g].step) = {}
      BY <1>9, <2>2, <3>1 DEF OnceInv, SentInv
    <3> QED
      BY <1>2, <1>4, <3>1, <3>2 DEF Sent
  <2>3. ASSUME NEW e \in Steps, Sent(e)' # {}
        PROVE  \/ row'[e].hash # NoHash
               \/ \E g \in Flows : g[2] = "start" /\ flow'[g].pc \in {"record", "submit"}
                                      /\ flow'[g].step = e
    <3>1. CASE e = s
      <4>1. f[2] = "speedUp" => row[s].hash # NoHash
        BY <1>1 DEF FlowOK, Sending
      <4> QED
        BY <1>1, <1>3, <1>4, <3>1, <4>1
    <3>2. CASE e # s
      BY <1>1, <1>3, <1>5, <2>3, <3>2 DEF OnceInv, SentInv
    <3> QED
      BY <3>1, <3>2
  <2>4. \A g \in Flows : g[2] = "start" /\ flow'[g].pc = "sign" =>
           {h \in Hashes' : tx'[h].step = flow'[g].step} = {}
    BY <2>2
  <2>5. \A e \in Steps : {h \in Hashes' : tx'[h].step = e} # {} =>
           \/ row'[e].hash # NoHash
           \/ \E g \in Flows : g[2] = "start" /\ flow'[g].pc \in {"record", "submit"}
                                  /\ flow'[g].step = e
    BY <2>3 DEF Sent
  <2> QED
    BY <2>1, <2>4, <2>5 DEF SentInv, Sent
<1> QED
  BY <1>8, <1>10

LEMMA CloseOnce ==
  ASSUME OnceInv, NEW w \in Windows, CloseWindow(w)
  PROVE  StartInv' /\ SentInv'
<1>1. UNCHANGED <<row, tx>> /\ Hashes' = Hashes /\ \A e : Sent(e)' = Sent(e)
  BY DEF CloseWindow, Hashes, Sent
<1>2. \A g \in Flows : flow'[g] = flow[g] \/ flow'[g] = Idle
  BY DEF CloseWindow
<1>3. ASSUME NEW g \in Flows PROVE StartOK(g)'
  BY <1>1, <1>2 DEF StartOK, OnceInv, StartInv, Sending, Registers, Idle
<1>4. StartInv'
  BY <1>1, <1>3 DEF StartInv, OnceInv
<1>5. lost' # {}
  BY DEF CloseWindow
<1> QED
  BY <1>4, <1>5 DEF SentInv

LEMMA SubmitsOnce ==
  ASSUME OnceInv, NEW f \in Flows, Submits(f)
  PROVE  StartInv' /\ SentInv'
<1> DEFINE s == flow[f].step
<1>1. UNCHANGED <<row, tx, lost>> /\ Hashes' = Hashes /\ (\A e : Sent(e)' = Sent(e))
      /\ flow[f].pc = "record" /\ FlowOK(f) /\ StartOK(f) /\ s \in Steps
  BY DEF Submits, Hashes, Sent, OnceInv, BaseInv, FlowInv, StartInv, FlowOK, Sending
<1>2. /\ flow'[f].pc = "submit" /\ flow'[f].seen = row[s] /\ flow'[f].step = s
      /\ flow'[f].nonce = flow[f].nonce
      /\ \A g \in Flows : g # f => flow'[g] = flow[g]
  BY DEF Submits, OnceInv, BaseInv, TypeInv, FlowState
<1>3. Known(row[s]) /\ (row[s].status = "pending" => row[s].hash = NoHash)
  BY <1>1 DEF OnceInv, BaseInv, KnownInv
<1>4. StartOK(f)'
  <2>1. f[2] = "start" => Registers(row[s])
    BY <1>1, <1>3 DEF StartOK, Sending, Registers, Known
  <2>2. f[2] = "speedUp" => ~Registers(row[s])
    BY <1>1, <1>3 DEF FlowOK, Sending, Registers
  <2> QED
    BY <1>1, <1>2, <2>1, <2>2 DEF StartOK, Sending, Registers
<1>5. ASSUME NEW g \in Flows PROVE StartOK(g)'
  <2>1. CASE g # f
    BY <1>1, <1>2, <2>1 DEF StartOK, OnceInv, StartInv, Sending, Registers
  <2> QED
    BY <1>4, <2>1
<1>6. StartInv'
  BY <1>1, <1>5 DEF StartInv, OnceInv
<1>7. SentInv'
  BY <1>1, <1>2 DEF SentInv, OnceInv
<1> QED
  BY <1>6, <1>7

LEMMA SubmittedOnce ==
  ASSUME OneWindow, OnceInv, NEW f \in Flows, Submitted(f)
  PROVE  StartInv' /\ SentInv'
<1> DEFINE c == flow[f]  s == c.step  r == c.seen
<1>1. BaseInv /\ c.pc = "submit" /\ UNCHANGED <<tx, lost>> /\ Hashes' = Hashes
      /\ (\A e : Sent(e)' = Sent(e)) /\ StartOK(f)
  BY DEF Submitted, Hashes, Sent, OnceInv, StartInv
<1>2. /\ s \in Steps /\ c.hash \in Hashes /\ c.hash # NoHash /\ FlowOK(f)
      /\ \A e \in Steps : e # s => row'[e] = row[e]
      /\ \A g \in Flows : g # f => flow'[g] = flow[g]
      /\ flow'[f].pc \in {"idle", "receipt"}
  BY <1>1, SubmittedFacts
<1>3. /\ f[2] = "start" => row'[s].hash # NoHash
      /\ row[s].hash # NoHash => row'[s].hash # NoHash
      /\ row'[s].nonce \in {c.nonce, row[s].nonce}
      /\ f[2] \in {"start", "speedUp"}
  <2>1. row[s] \in StepRow
    BY <1>2 DEF OnceInv, BaseInv, TypeInv
  <2>2. f[2] = "start" => Registers(r)
    BY <1>1 DEF StartOK, Sending
  <2>3. f[2] \in {"start", "speedUp"}
    BY <1>1, <1>2 DEF FlowOK, Sending
  <2>4. \/ /\ Registers(r)
           /\ row'[s] = [row[s] EXCEPT !.status = "signed", !.hash = c.hash, !.nonce = c.nonce]
        \/ /\ ~Registers(r)
           /\ row'[s] = [row[s] EXCEPT !.hash = c.hash, !.prev = r.prev \cup {r.hash}]
        \/ ~Registers(r) /\ row' = row
    BY <1>1, SubmittedFacts
  <2> HIDE DEF s, r, c
  <2> QED
    BY <1>2, <2>1, <2>2, <2>3, <2>4 DEF StepRow
<1>4. c.nonce # NoHash => \E h \in Sent(s) : tx[h].nonce = c.nonce
  BY <1>1, <1>2 DEF FlowOK, Sent
<1>5. \A e \in Steps : row'[e].nonce # NoHash => \E h \in Sent(e) : tx[h].nonce = row'[e].nonce
  BY <1>2, <1>3, <1>4 DEF OnceInv, StartInv
<1>6. ASSUME NEW g \in Flows PROVE StartOK(g)'
  <2>1. CASE g = f
    BY <1>2, <2>1 DEF StartOK, Sending
  <2>2. CASE g # f
    <3>1. flow'[g] = flow[g] /\ StartOK(g) /\ FlowOK(g)
      BY <1>2, <2>2 DEF OnceInv, StartInv, BaseInv, FlowInv
    <3>2. ASSUME Sending(g), g[2] = "start" PROVE row'[flow[g].step].hash = NoHash
      <4>1. f[2] = "speedUp"
        BY <1>3, <2>2, <3>2, OneStart
      <4>2. row[s].hash # NoHash
        BY <1>1, <1>2, <4>1 DEF FlowOK, Sending
      <4>3. row[flow[g].step].hash = NoHash /\ flow[g].step \in Steps
        BY <3>1, <3>2 DEF StartOK, FlowOK
      <4> QED
        BY <1>2, <4>2, <4>3
    <3> QED
      BY <1>1, <3>1, <3>2 DEF StartOK, Sending, Registers
  <2> QED
    BY <2>1, <2>2
<1>7. StartInv'
  BY <1>1, <1>5, <1>6 DEF StartInv
<1>8. SentInv'
  <2>1. \A e \in Steps : row[e].hash # NoHash => row'[e].hash # NoHash
    BY <1>2, <1>3
  <2>2. ASSUME lost = {}, NEW e \in Steps, Sent(e) # {}
        PROVE  \/ row'[e].hash # NoHash
               \/ \E g \in Flows : g[2] = "start" /\ flow'[g].pc \in {"record", "submit"}
                                      /\ flow'[g].step = e
    <3>1. CASE row[e].hash # NoHash
      BY <2>1, <3>1
    <3>2. ASSUME NEW g \in Flows, g[2] = "start", flow[g].pc \in {"record", "submit"},
                 flow[g].step = e, g = f
          PROVE  row'[e].hash # NoHash
      BY <1>3, <3>2
    <3> QED
      BY <1>2, <2>2, <3>1, <3>2 DEF OnceInv, SentInv
  <2> QED
    BY <1>1, <1>2, <2>2 DEF SentInv, OnceInv
<1> QED
  BY <1>7, <1>8

LEMMA OnceInit == FundingInit => OnceInv
<1> SUFFICES ASSUME FundingInit PROVE OnceInv
  OBVIOUS
<1>1. StartInv /\ SentInv
  BY DEF FundingInit, StartInv, StartOK, SentInv, Sent, Sending, Hashes, NewRow, Idle, NoHash
<1> QED
  BY <1>1, BaseInit DEF OnceInv

LEMMA OnceStep == OneWindow /\ OnceInv /\ [FundingNext]_fundingVars => OnceInv'
<1> SUFFICES ASSUME OneWindow, OnceInv, [FundingNext]_fundingVars PROVE OnceInv'
  OBVIOUS
<1> USE DEF OnceInv
<1>1. BaseInv'
  BY BaseStep
<1>2. CASE UNCHANGED fundingVars
  BY <1>1, <1>2, OnceStays DEF fundingVars, Hashes
<1>3. CASE \E w \in Windows, s \in Steps : Prepare(w, s) \/ PrepareSpeedUp(w, s)
  BY <1>1, <1>3, PrepareOnce
<1>4. CASE \E w \in Windows : CloseWindow(w)
  BY <1>1, <1>4, CloseOnce
<1>5. ASSUME NEW f \in Flows,
             \/ Rejects(f) \/ Receipt(f) \/ AsksSkip(f) \/ AsksContinue(f) \/ AsksDiscard(f)
      PROVE  OnceInv'
  <2>1. UNCHANGED <<row, tx, lost>> /\ Hashes' = Hashes
    BY <1>5 DEF Rejects, Receipt, AsksSkip, AsksContinue, AsksDiscard, AsksFor, Hashes
  <2>2. flow[f].pc \notin {"record", "submit"} /\ \A g \in Flows : g # f => flow'[g] = flow[g]
    BY <1>5 DEF Rejects, Receipt, FlowEnds, AsksSkip, AsksContinue, AsksDiscard, AsksFor,
                BaseInv, TypeInv
  <2>3. flow'[f].pc \notin {"sign", "record", "submit"}
    <3>1. CASE Rejects(f) \/ Receipt(f)
      BY <3>1 DEF Rejects, Receipt, FlowEnds, BaseInv, TypeInv, Idle
    <3>2. CASE AsksSkip(f)
      BY <3>2 DEF AsksSkip, AsksFor, BaseInv, TypeInv, Idle
    <3>3. CASE AsksContinue(f) \/ AsksDiscard(f)
      BY <3>3 DEF AsksContinue, AsksDiscard, AsksFor, BaseInv, TypeInv, Idle
    <3> QED
      BY <1>5, <3>1, <3>2, <3>3
  <2> QED
    BY <1>1, <2>1, <2>2, <2>3, OnceStays
<1>6. ASSUME NEW f \in Flows, Sign(f) \/ Submits(f) \/ Submitted(f) PROVE OnceInv'
  BY <1>1, <1>6, SignOnce, SubmitsOnce, SubmittedOnce
<1>7. ASSUME NEW f \in Flows, Answered(f) PROVE OnceInv'
  <2>1. UNCHANGED <<tx, lost>> /\ Hashes' = Hashes /\ flow[f].pc \notin {"record", "submit"}
    BY <1>7 DEF Answered, Hashes
  <2>2. \A s \in Steps : row'[s].hash = row[s].hash /\ row'[s].nonce = row[s].nonce
    BY <1>7, AnsweredFacts DEF BaseInv, TypeInv, StepRow
  <2>3. flow'[f].pc = "idle" /\ \A g \in Flows : g # f => flow'[g] = flow[g]
    BY <1>7, AnsweredFacts DEF BaseInv, TypeInv, Idle
  <2> QED
    BY <1>1, <2>1, <2>2, <2>3, OnceStays
<1>8. CASE MonitorWrites
  <2>1. UNCHANGED <<tx, flow, lost>> /\ Hashes' = Hashes /\ mon.pc = "write"
    BY <1>8 DEF MonitorWrites, Hashes
  <2>2. \A s \in Steps : (row'[s].hash = NoHash <=> row[s].hash = NoHash)
                         /\ row'[s].nonce = row[s].nonce
    BY <1>8, <2>1, WritesFacts, SeenFacts
  <2> QED
    BY <1>1, <2>1, <2>2, OnceStays
<1>9. CASE \/ MonitorLists \/ MonitorSource \/ MonitorDelivery \/ MonitorPasses
           \/ MonitorCounts \/ MonitorCloses \/ MonitorRestarts
  <2>1. UNCHANGED <<row, tx, flow, lost>> /\ Hashes' = Hashes
    BY <1>9 DEF MonitorLists, MonitorSource, MonitorDelivery, MonitorPasses, MonitorCounts,
                MonitorCloses, MonitorRestarts, Hashes
  <2> QED
    BY <1>1, <2>1, OnceStays
<1>10. ASSUME NEW h \in Hashes, Mine(h) \/ Bridge(h) PROVE OnceInv'
  <2>1. UNCHANGED <<row, flow, lost>>
    BY <1>10 DEF Mine, Bridge
  <2>2. Hashes' = Hashes /\ \A g \in Hashes : tx'[g].step = tx[g].step /\ tx'[g].nonce = tx[g].nonce
    BY <1>10, MineFacts, BridgeFacts DEF BaseInv
  <2> QED
    BY <1>1, <2>1, <2>2, OnceStays
<1> QED
  BY <1>2, <1>3, <1>4, <1>5, <1>6, <1>7, <1>8, <1>9, <1>10 DEF FundingNext

LEMMA OnceImplies == OnceInv => SentOnce
<1> SUFFICES ASSUME OnceInv, lost = {}, NEW s \in Steps PROVE Cardinality(Mined(s)) <= 1
  BY DEF SentOnce
<1>1. \A g, h \in Mined(s) : g = h
  <2> SUFFICES ASSUME NEW g \in Mined(s), NEW h \in Mined(s), g # h PROVE FALSE
    OBVIOUS
  <2>1. g \in Hashes /\ h \in Hashes /\ tx[g].nonce = tx[h].nonce /\ tx[g].st = "mined"
        /\ tx[h].st = "mined"
    BY DEF Mined, OnceInv, SentInv
  <2> QED
    BY <2>1 DEF OnceInv, BaseInv, NonceInv
<1>2. CASE Mined(s) = {}
  BY <1>2, FS_EmptySet
<1>3. ASSUME NEW h \in Mined(s) PROVE Cardinality(Mined(s)) = 1
  <2>1. Mined(s) = {h}
    BY <1>1
  <2> QED
    BY <2>1, FS_Singleton
<1> QED
  BY <1>2, <1>3

\* As long as one window has the plan open, the funds of a step leave the wallet
\* at most once, though requests overlap, steps are sped up, skipped or
\* discarded and the monitor restarts.
THEOREM SentOnceTheorem ==
  ASSUME OneWindow
  PROVE  FundingSpec => []SentOnce
<1>1. FundingInit => OnceInv
  BY OnceInit
<1>2. OnceInv /\ [FundingNext]_fundingVars => OnceInv'
  BY OnceStep
<1>3. OnceInv => SentOnce
  BY OnceImplies
<1> QED
  BY <1>1, <1>2, <1>3, PTL DEF FundingSpec

-----------------------------------------------------------------------------
(* Requests that do not overlap: what is signed is watched, and a plan said *)
(* to be delivered is.                                                      *)

\* Transactions are added or go on, and none comes back to life.
GoesOn ==
    /\ Hashes \subseteq Hashes'
    /\ \A h \in Hashes :
          /\ tx'[h].step = tx[h].step /\ tx'[h].nonce = tx[h].nonce
          /\ tx[h].st \in {"mined", "reverted"} => tx'[h].st = tx[h].st
          /\ tx[h].st = "mined" /\ tx[h].out # "moving" => tx'[h].out = tx[h].out
          /\ tx'[h].st = "pool" => tx[h].st = "pool"
          /\ tx'[h].st = "mined" /\ tx'[h].out = "moving" =>
                tx[h].st = "pool" \/ (tx[h].st = "mined" /\ tx[h].out = "moving")

LEMMA SignGoesOn ==
  ASSUME BaseInv, NEW f \in Flows, Sign(f)
  PROVE  GoesOn
  BY SignFacts DEF GoesOn

LEMMA ChainGoesOn ==
  ASSUME BaseInv, NEW h \in Hashes, Mine(h) \/ Bridge(h)
  PROVE  GoesOn
<1>1. CASE Mine(h)
  <2>1. Hashes' = Hashes /\ tx[h].st = "pool"
    BY <1>1, MineFacts DEF BaseInv, Mine
  <2>2. ASSUME NEW g \in Hashes, g # h, tx[g].nonce = tx[h].nonce
        PROVE  tx[g].st \notin {"mined", "reverted"} /\ tx'[g].st = "dropped"
    BY <1>1, <2>1, <2>2, MineFacts DEF BaseInv, NonceInv
  <2>3. ASSUME NEW g \in Hashes, g # h, tx[g].nonce # tx[h].nonce
        PROVE  tx'[g] = tx[g]
    BY <1>1, <2>3, MineFacts DEF BaseInv
  <2>4. tx'[h].st \in {"mined", "reverted"} /\ tx'[h].out = tx[h].out
        /\ \A g \in Hashes : tx'[g].step = tx[g].step /\ tx'[g].nonce = tx[g].nonce
    BY <1>1, MineFacts DEF BaseInv
  <2> QED
    BY <2>1, <2>2, <2>3, <2>4 DEF GoesOn
<1>2. CASE Bridge(h)
  BY <1>2, BridgeFacts DEF BaseInv, GoesOn
<1> QED
  BY <1>1, <1>2

\* Rows and the monitor stand still while transactions go on.
LEMMA RowsStand ==
  ASSUME WatchInv, GoesOn, UNCHANGED <<plan, row, mon>>
  PROVE  RowInv' /\ MonInv'
<1>1. ASSUME NEW s \in Steps PROVE GoodRow(row[s], s)'
  BY DEF WatchInv, RowInv, GoodRow, GoesOn
<1>2. ASSUME NEW s \in Steps PROVE Verdict(row[s])'
  <2>1. Known(row[s]) /\ Verdict(row[s])
    BY DEF WatchInv, BaseInv, KnownInv, RowInv
  <2> QED
    BY <2>1 DEF Verdict, Known, Candidates, Alive, GoesOn
<1>3. RowInv'
  BY <1>1, <1>2 DEF RowInv
<1>4. PendingInv' /\ CloseInv' /\ PlanInv'
  BY DEF WatchInv, MonInv, PendingInv, CloseInv, PlanInv, AllDelivered, Pending, Candidates, Cur
<1>5. LookInv'
  BY DEF WatchInv, BaseInv, KnownInv, MonInv, LookInv, GoesOn, Candidates, Cur
<1> QED
  BY <1>3, <1>4, <1>5 DEF MonInv

\* A window that does not move, or makes no request, while rows stand still.
LEMMA RequestsStand ==
  ASSUME WatchInv, GoesOn, row' = row,
         \A f \in Flows : flow'[f] = flow[f] \/ flow'[f].pc \notin Requesting
  PROVE  RequestInv'
<1>1. ASSUME NEW f \in Flows PROVE RequestOK(f)'
  <2>1. CASE flow'[f] = flow[f]
    BY <2>1 DEF WatchInv, RequestInv, RequestOK, GoodRow, GoesOn, Outpaced, Candidates, Skippable
  <2>2. CASE flow'[f].pc \notin Requesting
    BY <2>2 DEF RequestOK, Requesting
  <2> QED
    BY <2>1, <2>2
<1>2. \A f, g \in Flows : flow'[f].pc \in Requesting /\ flow'[g].pc \in Requesting => f = g
  BY DEF WatchInv, RequestInv
<1> QED
  BY <1>1, <1>2 DEF RequestInv

\* What moves neither rows nor the monitor nor a request.
LEMMA WatchStands ==
  ASSUME WatchInv, BaseInv', GoesOn, UNCHANGED <<plan, row, mon>>,
         \A f \in Flows : flow'[f] = flow[f] \/ flow'[f].pc \notin Requesting
  PROVE  WatchInv'
  BY RowsStand, RequestsStand DEF WatchInv

\* A request begins when no other one has read and not written.
LEMMA RequestBegins ==
  ASSUME WatchInv, ~Overlapping, NEW f \in Flows, MayBegin, UNCHANGED <<plan, row, tx, mon>>,
         \A g \in Flows : g # f => flow'[g] = flow[g], RequestOK(f)', BaseInv'
  PROVE  WatchInv'
<1>1. GoesOn
  BY DEF GoesOn, Hashes
<1>2. RowInv' /\ MonInv'
  BY <1>1, RowsStand
<1>3. \A g \in Flows : flow[g].pc \notin Requesting
  BY DEF MayBegin, Requesting
<1>4. ASSUME NEW g \in Flows PROVE RequestOK(g)'
  <2>1. CASE g = f
    BY <2>1
  <2>2. CASE g # f
    BY <1>3, <2>2 DEF RequestOK, Requesting
  <2> QED
    BY <2>1, <2>2
<1>5. \A g, h \in Flows : flow'[g].pc \in Requesting /\ flow'[h].pc \in Requesting => g = h
  BY <1>3
<1> QED
  BY <1>2, <1>4, <1>5 DEF WatchInv, RequestInv

LEMMA SubmitsWatch ==
  ASSUME WatchInv, ~Overlapping, NEW f \in Flows, Submits(f)
  PROVE  WatchInv'
<1> DEFINE s == flow[f].step
<1>1. BaseInv /\ BaseInv' /\ s \in Steps
  BY SubmitsBase DEF Submits, WatchInv, BaseInv, FlowInv, FlowOK, Sending
<1>2. /\ flow'[f].pc = "submit" /\ flow'[f].seen = row[s] /\ flow'[f].step = s
      /\ \A g \in Flows : g # f => flow'[g] = flow[g]
  BY DEF Submits, WatchInv, BaseInv, TypeInv, FlowState
<1>3. UNCHANGED <<plan, row, tx, mon>> /\ MayBegin /\ Hashes' = Hashes
  BY DEF Submits, Hashes
<1>4. GoodRow(row[s], s)
  BY <1>1 DEF WatchInv, RowInv
<1>5. RequestOK(f)'
  BY <1>2, <1>3, <1>4 DEF RequestOK, GoodRow
<1> QED
  BY <1>1, <1>2, <1>3, <1>5, RequestBegins

LEMMA AsksWatch ==
  ASSUME WatchInv, ~Overlapping, NEW f \in Flows, AsksSkip(f) \/ AsksContinue(f) \/ AsksDiscard(f)
  PROVE  WatchInv'
<1>1. PICK pc \in {"skip", "continue", "discard"}, skips \in SUBSET {s \in Steps : Skippable(s)} :
        AsksFor(f, pc, skips)
  BY DEF AsksSkip, AsksContinue, AsksDiscard
<1>2. flow'[f].pc = pc /\ flow'[f].skips = skips /\ \A g \in Flows : g # f => flow'[g] = flow[g]
  BY <1>1 DEF AsksFor, WatchInv, BaseInv, TypeInv, Idle
<1>3. UNCHANGED <<plan, row, tx, mon>> /\ MayBegin
  BY <1>1 DEF AsksFor
<1>4. RequestOK(f)'
  BY <1>2, <1>3 DEF RequestOK, Skippable
<1> QED
  BY <1>2, <1>3, <1>4, RequestBegins, AsksBase DEF WatchInv

\* The request that answers is the only one, and leaves none.
LEMMA RequestEnds ==
  ASSUME WatchInv, NEW f \in Flows, flow[f].pc \in Requesting, flow'[f].pc \notin Requesting,
         \A g \in Flows : g # f => flow'[g] = flow[g]
  PROVE  RequestInv'
<1>1. \A g \in Flows : flow'[g].pc \notin Requesting
  BY DEF WatchInv, RequestInv
<1>2. \A g \in Flows : RequestOK(g)'
  BY <1>1 DEF RequestOK, Requesting
<1> QED
  BY <1>1, <1>2 DEF RequestInv

LEMMA AnsweredWatch ==
  ASSUME WatchInv, NEW f \in Flows, Answered(f)
  PROVE  WatchInv'
<1> DEFINE c == flow[f]
<1>1. BaseInv /\ BaseInv' /\ UNCHANGED <<tx, mon>> /\ Hashes' = Hashes
      /\ c.pc \in {"skip", "continue", "discard"}
  BY AnsweredBase DEF Answered, WatchInv, Hashes
<1>2. \A s \in c.skips : Skippable(s)
  BY <1>1 DEF WatchInv, RequestInv, RequestOK
<1>3. ASSUME NEW s \in Steps
      PROVE  \/ row'[s] = row[s]
             \/ /\ Skippable(s) /\ row'[s].status = "skipped" /\ row'[s].hash = row[s].hash
                /\ row'[s].prev = row[s].prev /\ row'[s].nonce = row[s].nonce
  <2>1. row[s] \in StepRow
    BY <1>1 DEF BaseInv, TypeInv
  <2> QED
    BY <1>1, <1>2, <2>1, AnsweredFacts DEF StepRow
<1>4. RequestInv'
  <2>1. flow'[f].pc \notin Requesting /\ \A g \in Flows : g # f => flow'[g] = flow[g]
    BY <1>1, AnsweredFacts DEF BaseInv, TypeInv, Idle, Requesting
  <2> QED
    BY <1>1, <2>1, RequestEnds DEF Requesting
<1>5. RowInv'
  <2>1. ASSUME NEW s \in Steps PROVE GoodRow(row[s], s)' /\ Verdict(row[s])'
    <3>1. GoodRow(row[s], s) /\ Verdict(row[s])
      BY DEF WatchInv, RowInv
    <3>2. CASE row'[s] = row[s]
      BY <1>1, <3>1, <3>2 DEF GoodRow, Verdict, Candidates, Alive, Hashes
    <3>3. CASE row'[s] # row[s]
      <4>1. ~Alive(row[s].hash)
        BY <1>3, <3>1, <3>3 DEF Skippable, GoodRow, Verdict, Alive, Terminal
      <4>2. GoodRow(row[s], s)'
        BY <1>1, <1>3, <3>1, <3>3 DEF GoodRow, Hashes
      <4>3. Verdict(row[s])'
        BY <1>1, <1>3, <3>3, <4>1 DEF Verdict, Alive, Terminal
      <4> QED
        BY <4>2, <4>3
    <3> QED
      BY <3>2, <3>3
  <2> QED
    BY <2>1 DEF RowInv
<1>6. MonInv'
  <2>1. Pending' = Pending /\ Pending \subseteq Steps
    BY <1>1 DEF Pending, Cur, BaseInv, TypeInv
  <2>2. PendingInv'
    <3> SUFFICES ASSUME NEW s \in Pending
                 PROVE  /\ mon'.seen[s].status \in InFlight /\ row'[s].status = mon'.seen[s].status
                        /\ Candidates(mon.seen[s])' \subseteq Candidates(row[s])'
      BY <2>1 DEF PendingInv
    <3>1. ~Skippable(s) /\ s \in Steps
      BY <2>1 DEF WatchInv, MonInv, PendingInv, Skippable, InFlight
    <3> QED
      BY <1>1, <1>3, <3>1 DEF WatchInv, MonInv, PendingInv, Candidates
  <2>3. LookInv'
    BY <1>1 DEF WatchInv, MonInv, LookInv, Candidates, Cur
  <2>4. AllDelivered => AllDelivered'
    BY <1>3 DEF AllDelivered, Skippable
  <2>5. CloseInv'
    BY <1>1, <2>4 DEF WatchInv, MonInv, CloseInv
  <2>6. PlanInv'
    <3>1. CASE plan' = plan
      BY <2>4, <3>1 DEF WatchInv, MonInv, PlanInv
    <3>2. CASE plan' # plan
      <4> SUFFICES ASSUME plan' = "delivered" PROVE AllDelivered'
        BY DEF PlanInv
      <4>1. plan' = Recomputed(row')
        <5>1. c.pc = "continue" => plan' = "partial"
          BY DEF Answered
        <5>2. c.pc = "discard" => plan' = "discarded"
          BY DEF Answered
        <5>3. c.pc = "skip" => plan' = Recomputed(row')
          BY DEF Answered
        <5> QED
          BY <1>1, <5>1, <5>2, <5>3
      <4> QED
        BY <3>2, <4>1 DEF Recomputed, ClosedAs, AllDelivered
    <3> QED
      BY <3>1, <3>2
  <2> QED
    BY <2>2, <2>3, <2>5, <2>6 DEF MonInv
<1> QED
  BY <1>1, <1>4, <1>5, <1>6 DEF WatchInv

\* The row of a step after a speed-up is registered: what the monitor wrote of
\* it in the meantime still stands.
LEMMA SpedUpRow ==
  ASSUME WatchInv, NEW f \in Flows, Submitted(f), f[2] = "speedUp",
         flow[f].seen.status = "signed", flow[f].nonce = flow[f].seen.nonce,
         row'[flow[f].step] = [row[flow[f].step] EXCEPT !.hash = flow[f].hash,
                                 !.prev = flow[f].seen.prev \cup {flow[f].seen.hash}]
  PROVE  /\ GoodRow(row'[flow[f].step], flow[f].step) /\ Verdict(row'[flow[f].step])
         /\ Candidates(row[flow[f].step]) \subseteq Candidates(row'[flow[f].step])
         /\ row'[flow[f].step].status = row[flow[f].step].status
<1> DEFINE c == flow[f]  s == c.step  r == c.seen  old == row[s]  new == row'[s]
<1>1. BaseInv /\ s \in Steps /\ c.hash \in Hashes /\ c.hash # NoHash /\ FlowOK(f)
      /\ c.pc = "submit" /\ c.nonce # NoHash /\ tx[c.hash].step = s /\ tx[c.hash].nonce = c.nonce
  BY SubmittedFacts DEF WatchInv, Submitted, FlowOK, Sending
<1>2. old \in StepRow /\ GoodRow(old, s) /\ Verdict(old) /\ Known(old)
  BY <1>1 DEF WatchInv, BaseInv, TypeInv, KnownInv, RowInv
<1>3. GoodRow(r, s) /\ (old = r \/ Outpaced(r, old)) /\ r.status = "signed" /\ c.nonce = r.nonce
  BY <1>1 DEF WatchInv, RequestInv, RequestOK
<1>4. new.status = old.status /\ new.nonce = old.nonce /\ new.hash = c.hash
      /\ new.prev = r.prev \cup {r.hash}
  BY <1>2 DEF StepRow
<1> HIDE DEF new, old, r, s, c
<1>5. r.hash # NoHash /\ r.hash \in Hashes /\ tx[r.hash].step = s /\ tx[r.hash].nonce = r.nonce
  BY <1>1, <1>3 DEF GoodRow
<1>6. old.nonce = c.nonce /\ Candidates(old) \subseteq Candidates(r) /\ old.status # "pending"
      /\ old.status # "skipped"
  BY <1>3 DEF Outpaced, Candidates
<1>7. GoodRow(new, s)
  BY <1>1, <1>3, <1>4, <1>5, <1>6 DEF GoodRow
<1>8. Candidates(old) \subseteq Candidates(new)
  BY <1>4, <1>6 DEF Candidates
<1>9. \A h \in Candidates(old) : h \in Hashes /\ tx[h].nonce = c.nonce
  BY <1>2, <1>5, <1>6, <1>1, <1>3 DEF GoodRow, Candidates
<1>10. ASSUME NEW h \in Candidates(old), tx[h].st \in {"mined", "reverted"}, h # c.hash
       PROVE  tx[c.hash].st = "dropped"
  BY <1>1, <1>9, <1>10 DEF BaseInv, NonceInv
<1>11. Verdict(new)
  <2>1. CASE new.status = "failed"
    <3>1. PICK h \in Candidates(old) : h # NoHash /\ tx[h].st = "reverted"
      BY <1>2, <1>4, <2>1 DEF Verdict
    <3>2. ~Alive(c.hash)
      BY <1>10, <3>1 DEF Alive
    <3> QED
      BY <1>4, <1>8, <2>1, <3>1, <3>2 DEF Verdict
  <2>2. CASE new.status \in {"delivered", "refunded"}
    <3>1. PICK h \in Candidates(old) : h # NoHash /\ tx[h].st = "mined" /\ tx[h].out = old.status
      BY <1>2, <1>4, <2>2 DEF Verdict
    <3>2. ~Alive(c.hash)
      BY <1>4, <1>10, <2>2, <3>1 DEF Alive
    <3> QED
      BY <1>4, <1>8, <2>2, <3>1, <3>2 DEF Verdict
  <2>3. CASE new.status \notin {"failed", "delivered", "refunded"}
    BY <1>4, <1>6, <2>3 DEF Verdict, Terminal
  <2> QED
    BY <2>1, <2>2, <2>3
<1> QED
  BY <1>4, <1>7, <1>8, <1>11 DEF new, old, s, c

LEMMA SubmittedWatch ==
  ASSUME WatchInv, NEW f \in Flows, Submitted(f)
  PROVE  WatchInv'
<1> DEFINE c == flow[f]  s == c.step  r == c.seen
<1>1. BaseInv /\ BaseInv' /\ UNCHANGED <<plan, tx, mon>> /\ Hashes' = Hashes /\ c.pc = "submit"
  BY SubmittedBase DEF WatchInv, Submitted, Hashes
<1>2. /\ s \in Steps /\ c.hash \in Hashes /\ c.hash # NoHash /\ FlowOK(f)
      /\ \A e \in Steps : e # s => row'[e] = row[e]
      /\ \A g \in Flows : g # f => flow'[g] = flow[g]
      /\ flow'[f].pc \in {"idle", "receipt"}
  BY <1>1, SubmittedFacts
<1>3. RequestInv'
  BY <1>1, <1>2, RequestEnds DEF Requesting
<1>4. GoodRow(r, s) /\ (row[s] = r \/ Outpaced(r, row[s]))
  BY <1>1 DEF WatchInv, RequestInv, RequestOK
<1>5. row[s] \in StepRow /\ GoodRow(row[s], s) /\ Verdict(row[s])
  BY <1>1, <1>2 DEF WatchInv, BaseInv, TypeInv, RowInv
\* The row of the step is good, and a step in flight stays as it is.
<1>6. /\ GoodRow(row'[s], s) /\ Verdict(row'[s])
      /\ row[s].status \in InFlight \cup {"delivered"} =>
            row'[s].status = row[s].status /\ Candidates(row[s]) \subseteq Candidates(row'[s])
  <2>1. CASE /\ Registers(r)
             /\ row'[s] = [row[s] EXCEPT !.status = "signed", !.hash = c.hash, !.nonce = c.nonce]
    <3>1. row[s] = r /\ r.hash = NoHash /\ r.prev = {} /\ r.status \in {"pending", "skipped"}
      BY <1>4, <2>1 DEF Registers, GoodRow, Outpaced, InFlight
    <3>2. /\ row'[s].status = "signed" /\ row'[s].hash = c.hash /\ row'[s].nonce = c.nonce
          /\ row'[s].prev = {}
      BY <1>5, <2>1, <3>1 DEF StepRow
    <3>3. tx[c.hash].step = s /\ c.nonce \in {NoHash, tx[c.hash].nonce}
      BY <1>1, <1>2 DEF FlowOK
    <3> HIDE DEF r, s, c
    <3> QED
      BY <1>2, <3>1, <3>2, <3>3 DEF GoodRow, Verdict, Terminal, InFlight
  <2>2. CASE /\ ~Registers(r) /\ f[2] = "speedUp" /\ r.status = "signed" /\ c.nonce = r.nonce
             /\ row'[s] = [row[s] EXCEPT !.hash = c.hash, !.prev = r.prev \cup {r.hash}]
    BY <2>2, SpedUpRow
  <2>3. CASE row' = row
    BY <1>5, <2>3
  <2> QED
    BY <1>1, <2>1, <2>2, <2>3, SubmittedFacts
<1>7. RowInv'
  <2>1. ASSUME NEW e \in Steps PROVE GoodRow(row'[e], e) /\ Verdict(row'[e])
    <3>1. CASE e = s
      BY <1>6, <3>1
    <3>2. CASE e # s
      BY <1>2, <3>2 DEF WatchInv, RowInv
    <3> QED
      BY <3>1, <3>2
  <2> QED
    BY <1>1, <2>1 DEF RowInv, GoodRow, Verdict, Candidates, Alive
<1>8. \A e \in Steps : row[e].status \in InFlight \cup {"delivered"} =>
         row'[e].status = row[e].status /\ Candidates(row[e]) \subseteq Candidates(row'[e])
  BY <1>2, <1>6
<1>9. MonInv'
  <2>1. Pending' = Pending /\ Pending \subseteq Steps
    BY <1>1 DEF Pending, Cur, BaseInv, TypeInv
  <2>2. ASSUME NEW e \in Pending
        PROVE  /\ mon.seen[e].status \in InFlight /\ row'[e].status = mon.seen[e].status
               /\ Candidates(mon.seen[e]) \subseteq Candidates(row'[e])
    BY <1>8, <2>1 DEF WatchInv, MonInv, PendingInv
  <2>3. PendingInv'
    BY <1>1, <2>1, <2>2 DEF PendingInv, Candidates
  <2>4. LookInv'
    BY <1>1 DEF WatchInv, MonInv, LookInv, Candidates, Cur
  <2>5. AllDelivered => AllDelivered'
    BY <1>8 DEF AllDelivered
  <2>6. CloseInv' /\ PlanInv'
    BY <1>1, <2>5 DEF WatchInv, MonInv, CloseInv, PlanInv
  <2> QED
    BY <2>3, <2>4, <2>6 DEF MonInv
<1> QED
  BY <1>1, <1>3, <1>7, <1>9 DEF WatchInv

\* An action of the monitor that writes no row.
LEMMA MonWatch ==
  ASSUME WatchInv, BaseInv', UNCHANGED <<row, tx, flow>>, MonInv'
  PROVE  WatchInv'
<1>1. GoesOn
  BY DEF GoesOn, Hashes
<1>2. RowInv'
  BY DEF WatchInv, RowInv, GoodRow, Verdict, Candidates, Alive, Hashes
<1>3. RequestInv'
  BY <1>1, RequestsStand
<1> QED
  BY <1>2, <1>3 DEF WatchInv

LEMMA PassesWatch ==
  ASSUME WatchInv, mon.pc # "idle", Passes, UNCHANGED <<row, tx, flow>>, BaseInv', PlanInv'
  PROVE  WatchInv'
<1>1. \A s \in mon.left \ {Cur} : s \in Pending
  BY DEF Pending, WatchInv, BaseInv, TypeInv, MonPCs
<1>2. MonInv'
  <2>1. CASE mon' = Resting
    BY <2>1, RestingFacts DEF MonInv, PendingInv, Pending, LookInv, CloseInv
  <2>2. CASE /\ mon'.pc = "check" /\ mon'.left = mon.left \ {Cur}
             /\ mon'.seen = [s \in mon.left \ {Cur} |-> mon.seen[s]]
    <3>1. Pending' = mon.left \ {Cur}
      BY <2>2 DEF Pending
    <3>2. \A s \in mon.left \ {Cur} : mon'.seen[s] = mon.seen[s]
      BY <2>2
    <3>3. PendingInv'
      BY <1>1, <3>1, <3>2 DEF WatchInv, MonInv, PendingInv, Candidates
    <3> QED
      BY <2>2, <3>3 DEF MonInv, LookInv, CloseInv
  <2> QED
    BY <2>1, <2>2, PassesFacts DEF WatchInv
<1> QED
  BY <1>2, MonWatch

LEMMA ListsWatch ==
  ASSUME WatchInv, MonitorLists
  PROVE  WatchInv'
<1>1. /\ UNCHANGED <<plan, row, tx, flow>>
      /\ mon'.pc = "check" /\ mon'.left = Watched /\ mon'.seen = [s \in Watched |-> row[s]]
  BY DEF MonitorLists, Resting
<1>2. Pending' = Watched /\ \A s \in Watched : mon'.seen[s] = row[s] /\ row[s].status \in InFlight
  BY <1>1 DEF Pending, Watched
<1>3. PendingInv'
  BY <1>1, <1>2 DEF PendingInv, Candidates
<1>4. LookInv' /\ CloseInv' /\ PlanInv'
  BY <1>1 DEF LookInv, CloseInv, PlanInv, AllDelivered, WatchInv, MonInv
<1> QED
  BY <1>1, <1>3, <1>4, ListsBase, MonWatch DEF MonInv, WatchInv

LEMMA LooksWatch ==
  ASSUME WatchInv, MonitorSource \/ MonitorDelivery
  PROVE  WatchInv'
<1>1. /\ UNCHANGED <<plan, row, tx, flow>> /\ BaseInv' /\ mon.pc = "check" /\ mon'.pc = "write"
      /\ mon'.left = mon.left /\ mon'.seen = mon.seen
      /\ mon'.hash \in Candidates(mon.seen[Cur])
  BY LooksBase DEF MonitorSource, MonitorDelivery, WatchInv
<1>2. Cur' = Cur /\ Pending' = Pending
  BY <1>1 DEF Cur, Pending
<1>3. PendingInv'
  BY <1>1, <1>2 DEF WatchInv, MonInv, PendingInv, Candidates
<1>4. /\ mon'.verdict = "failed" => tx[mon'.hash].st = "reverted"
      /\ mon'.verdict \in {"delivered", "refunded"} =>
            /\ mon'.hash = mon.seen[Cur].hash
            /\ tx[mon'.hash].st = "mined" /\ tx[mon'.hash].out = mon'.verdict
  <2>1. CASE MonitorSource
    <3>1. PICK h \in Candidates(mon.seen[Cur]) :
                   /\ tx[h].st \in {"mined", "reverted"}
                   /\ mon' = [mon EXCEPT !.pc = "write", !.hash = h,
                                !.verdict = IF tx[h].st = "mined" THEN "source_confirmed" ELSE "failed"]
      BY <2>1 DEF MonitorSource
    <3>2. "hash" \in DOMAIN mon /\ "verdict" \in DOMAIN mon
      BY DEF WatchInv, BaseInv, TypeInv
    <3>3. mon'.hash = h /\ mon'.verdict = IF tx[h].st = "mined" THEN "source_confirmed" ELSE "failed"
      BY <3>1, <3>2
    <3> QED
      BY <3>1, <3>3
  <2>2. CASE MonitorDelivery
    <3>1. /\ mon'.hash = mon.seen[Cur].hash /\ mon'.verdict = tx[mon.seen[Cur].hash].out
          /\ tx[mon.seen[Cur].hash].st = "mined"
      BY <2>2 DEF MonitorDelivery, WatchInv, BaseInv, TypeInv
    <3>2. mon.seen[Cur].hash \in Hashes
      BY <1>1, <2>2, SeenFacts DEF MonitorDelivery, InFlight, Candidates, WatchInv
    <3>3. tx[mon.seen[Cur].hash].out # "failed"
      BY <3>2, TxFacts DEF Transaction, WatchInv, BaseInv
    <3> QED
      BY <3>1, <3>3
  <2> QED
    BY <2>1, <2>2
<1>5. LookInv'
  BY <1>1, <1>2, <1>4 DEF LookInv, Candidates
<1>6. CloseInv' /\ PlanInv'
  BY <1>1 DEF CloseInv, PlanInv, AllDelivered, WatchInv, MonInv
<1> QED
  BY <1>1, <1>3, <1>5, <1>6, MonWatch DEF MonInv

\* What the monitor writes of a step in flight.
LEMMA WrittenRow ==
  ASSUME WatchInv, MonitorWrites
  PROVE  /\ Cur \in Steps /\ row[Cur].status \in InFlight /\ row'[Cur].hash \in Candidates(row[Cur])
         /\ row'[Cur].status = mon.verdict
         /\ mon.verdict \in {"source_confirmed", "failed", "delivered", "refunded"}
         /\ GoodRow(row'[Cur], Cur) /\ Verdict(row'[Cur])
<1> DEFINE old == row[Cur]  new == row'[Cur]  v == mon.seen[Cur]
<1>1. BaseInv /\ mon.pc = "write" /\ Cur \in mon.left /\ Cur \in Steps /\ old \in StepRow
      /\ mon.hash \in Hashes
      /\ mon.verdict \in {"source_confirmed", "failed", "delivered", "refunded"}
      /\ old.hash # NoHash /\ NoHash \notin Hashes
  BY SeenFacts, TxFacts DEF WatchInv, MonitorWrites, BaseInv, KnownInv
<1>2. old.status \in InFlight /\ Candidates(v) \subseteq Candidates(old) /\ old.status = v.status
  BY <1>1 DEF WatchInv, MonInv, PendingInv, Pending
<1>3. /\ mon.hash \in Candidates(v)
      /\ mon.verdict = "failed" => tx[mon.hash].st = "reverted"
      /\ mon.verdict \in {"delivered", "refunded"} =>
            tx[mon.hash].st = "mined" /\ tx[mon.hash].out = mon.verdict
  BY <1>1 DEF WatchInv, MonInv, LookInv
<1>4. GoodRow(old, Cur) /\ Known(old)
  BY <1>1 DEF WatchInv, RowInv, BaseInv, KnownInv
<1>5. /\ new.status = mon.verdict /\ new.prev = old.prev /\ new.nonce = old.nonce
      /\ new.hash = mon.hash \/ (new.hash = old.hash /\ mon.hash = v.hash)
      /\ new.hash # NoHash /\ new.hash \in Hashes
  <2>1. new = [old EXCEPT !.status = mon.verdict,
                  !.hash = IF mon.hash # v.hash THEN mon.hash ELSE @]
        /\ new.hash # NoHash /\ new.hash \in Hashes
    BY <1>1, WritesFacts
  <2> HIDE DEF new, old, v
  <2> QED
    BY <1>1, <2>1 DEF StepRow
<1> HIDE DEF new, old, v
<1>6. mon.hash \in Candidates(old) /\ new.hash \in Candidates(old) /\ mon.hash \in Candidates(new)
  BY <1>2, <1>3, <1>5 DEF Candidates
<1>7. GoodRow(new, Cur)
  <2>1. tx[new.hash].step = Cur /\ new.nonce \in {NoHash, tx[new.hash].nonce}
    BY <1>1, <1>4, <1>5, <1>6 DEF GoodRow, Candidates
  <2> QED
    BY <1>1, <1>4, <1>5, <2>1 DEF GoodRow
<1>8. mon.verdict \in Terminal => ~Alive(new.hash)
  <2>1. CASE new.hash = mon.hash
    BY <1>1, <1>3, <2>1 DEF Alive, Terminal
  <2>2. CASE new.hash # mon.hash
    <3>1. new.hash = old.hash /\ mon.hash \in old.prev
      BY <1>5, <1>6, <2>2 DEF Candidates
    <3>2. tx[mon.hash].nonce = old.nonce /\ tx[mon.hash].nonce # NoHash
      BY <1>1, <1>4, <3>1, TxFacts DEF GoodRow, BaseInv, Transaction
    <3>3. tx[new.hash].nonce = tx[mon.hash].nonce
      BY <1>1, <1>4, <3>1, <3>2 DEF GoodRow
    <3>4. mon.verdict \in Terminal => tx[mon.hash].st \in {"mined", "reverted"}
      BY <1>1, <1>3 DEF Terminal
    <3>5. mon.verdict \in Terminal => tx[new.hash].st = "dropped"
      BY <1>1, <1>5, <2>2, <3>3, <3>4 DEF BaseInv, NonceInv
    <3> QED
      BY <3>5 DEF Alive
  <2> QED
    BY <2>1, <2>2
<1>9. Verdict(new)
  BY <1>1, <1>3, <1>5, <1>6, <1>8 DEF Verdict, Terminal
<1> QED
  BY <1>1, <1>2, <1>5, <1>6, <1>7, <1>9 DEF new, old

LEMMA WritesWatch ==
  ASSUME WatchInv, MonitorWrites
  PROVE  WatchInv'
<1>1. /\ BaseInv /\ BaseInv' /\ UNCHANGED <<plan, tx, flow>> /\ Hashes' = Hashes
      /\ mon.pc = "write" /\ mon'.pc = "count" /\ mon'.left = mon.left
      /\ mon'.seen = [mon.seen EXCEPT ![Cur] = NewRow]
      /\ \A s \in Steps : s # Cur => row'[s] = row[s]
      /\ row'[Cur].prev = row[Cur].prev /\ row'[Cur].nonce = row[Cur].nonce
  BY WritesBase, WritesFacts DEF WatchInv, MonitorWrites, Hashes
<1>2. /\ Cur \in Steps /\ row[Cur].status \in InFlight /\ row'[Cur].hash \in Candidates(row[Cur])
      /\ row'[Cur].status = mon.verdict
      /\ mon.verdict \in {"source_confirmed", "failed", "delivered", "refunded"}
      /\ GoodRow(row'[Cur], Cur) /\ Verdict(row'[Cur])
  BY WrittenRow
<1>3. RowInv'
  <2>1. ASSUME NEW s \in Steps PROVE GoodRow(row'[s], s) /\ Verdict(row'[s])
    <3>1. CASE s = Cur
      BY <1>2, <3>1
    <3>2. CASE s # Cur
      BY <1>1, <3>2 DEF WatchInv, RowInv
    <3> QED
      BY <3>1, <3>2
  <2> QED
    BY <1>1, <2>1 DEF RowInv, GoodRow, Verdict, Candidates, Alive
<1>4. ~AllDelivered
  BY <1>2 DEF AllDelivered, InFlight
<1>5. MonInv'
  <2>1. Cur' = Cur /\ Pending' = mon.left \ {Cur} /\ Pending = mon.left
    BY <1>1 DEF Pending, Cur
  <2>2. ASSUME NEW s \in mon.left \ {Cur}
        PROVE  mon'.seen[s] = mon.seen[s] /\ row'[s] = row[s]
    BY <1>1 DEF BaseInv, TypeInv
  <2>3. PendingInv'
    BY <2>1, <2>2 DEF WatchInv, MonInv, PendingInv, Candidates
  <2>4. PlanInv'
    BY <1>1, <1>4 DEF WatchInv, MonInv, PlanInv
  <2> QED
    BY <1>1, <2>3, <2>4 DEF MonInv, LookInv, CloseInv
<1>6. RequestInv'
  <2>1. ASSUME NEW f \in Flows PROVE RequestOK(f)'
    <3> DEFINE c == flow[f]
    <3>1. c.pc = "submit" => row'[c.step] = c.seen \/ Outpaced(c.seen, row'[c.step])
      <4> SUFFICES ASSUME c.pc = "submit", c.step = Cur PROVE Outpaced(c.seen, row'[Cur])
        BY <1>1, <1>2 DEF WatchInv, RequestInv, RequestOK, BaseInv, FlowInv, FlowOK, Sending
      <4>1. row[Cur] = c.seen \/ Outpaced(c.seen, row[Cur])
        BY DEF WatchInv, RequestInv, RequestOK
      <4> QED
        BY <1>1, <1>2, <4>1 DEF Outpaced, Candidates
    <3>2. c.pc = "submit" => GoodRow(c.seen, c.step)
      BY DEF WatchInv, RequestInv, RequestOK
    <3>3. c.pc \in {"skip", "continue", "discard"} =>
             \A s \in c.skips : row'[s].status \in {"pending", "failed", "refunded"}
      <4> SUFFICES ASSUME c.pc \in {"skip", "continue", "discard"}, NEW s \in c.skips
                   PROVE  row'[s] = row[s] /\ row[s].status \in {"pending", "failed", "refunded"}
        OBVIOUS
      <4>1. Skippable(s) /\ s \in Steps
        BY DEF WatchInv, RequestInv, RequestOK, BaseInv, TypeInv, FlowState
      <4> QED
        BY <1>1, <1>2, <4>1 DEF Skippable, InFlight
    <3> QED
      BY <1>1, <3>1, <3>2, <3>3 DEF RequestOK, GoodRow, Outpaced, Candidates, Skippable
  <2> QED
    BY <1>1, <2>1 DEF RequestInv, WatchInv
<1> QED
  BY <1>1, <1>3, <1>5, <1>6 DEF WatchInv

LEMMA CountsWatch ==
  ASSUME WatchInv, MonitorCounts \/ MonitorPasses \/ MonitorCloses \/ MonitorRestarts
  PROVE  WatchInv'
<1>1. BaseInv' /\ UNCHANGED <<row, tx, flow>> /\ mon.pc # "idle"
  BY CountsBase DEF WatchInv, MonitorCounts, MonitorPasses, MonitorCloses, MonitorRestarts
<1>2. AllDelivered' = AllDelivered
  BY <1>1 DEF AllDelivered
<1>3. plan' = plan => PlanInv'
  BY <1>2 DEF WatchInv, MonInv, PlanInv
<1>4. CASE MonitorPasses
  BY <1>1, <1>3, <1>4, PassesWatch DEF MonitorPasses
<1>5. CASE MonitorCloses
  <2>1. PlanInv'
    BY <1>2, <1>5 DEF MonitorCloses, WatchInv, MonInv, CloseInv, PlanInv
  <2> QED
    BY <1>1, <1>5, <2>1, PassesWatch DEF MonitorCloses
<1>6. CASE MonitorRestarts
  <2>1. mon'.pc = "idle" /\ plan' = plan
    BY <1>6, RestingFacts DEF MonitorRestarts
  <2>2. MonInv'
    BY <1>3, <2>1 DEF MonInv, PendingInv, Pending, LookInv, CloseInv
  <2> QED
    BY <1>1, <2>2, MonWatch
<1>7. CASE MonitorCounts
  <2>1. CASE Recomputed(row) = plan
    BY <1>1, <1>3, <1>7, <2>1, PassesWatch DEF MonitorCounts
  <2>2. CASE Recomputed(row) # plan
    <3>1. /\ plan' = plan /\ mon.pc = "count" /\ mon'.pc = "close" /\ mon'.left = mon.left
          /\ mon'.seen = mon.seen /\ mon'.verdict = Recomputed(row)
      BY <1>7, <2>2 DEF MonitorCounts, WatchInv, BaseInv, TypeInv
    <3>2. Recomputed(row) = "delivered" => AllDelivered
      BY <2>2 DEF Recomputed, ClosedAs, AllDelivered
    <3>3. Pending' = Pending
      BY <3>1 DEF Pending, Cur
    <3>4. PendingInv'
      BY <1>1, <3>1, <3>3 DEF WatchInv, MonInv, PendingInv, Candidates
    <3>5. MonInv'
      BY <1>2, <1>3, <3>1, <3>2, <3>4 DEF MonInv, LookInv, CloseInv
    <3> QED
      BY <1>1, <3>5, MonWatch
  <2> QED
    BY <2>1, <2>2
<1> QED
  BY <1>4, <1>5, <1>6, <1>7

LEMMA WatchInit == FundingInit => WatchInv
<1> SUFFICES ASSUME FundingInit PROVE WatchInv
  OBVIOUS
<1>1. RowInv
  BY DEF FundingInit, RowInv, GoodRow, Verdict, NewRow, Terminal
<1>2. MonInv
  BY DEF FundingInit, MonInv, PendingInv, Pending, LookInv, CloseInv, PlanInv, Resting
<1>3. RequestInv
  BY DEF FundingInit, RequestInv, RequestOK, Requesting, Idle
<1> QED
  BY <1>1, <1>2, <1>3, BaseInit DEF WatchInv

LEMMA WatchStep == ~Overlapping /\ WatchInv /\ [FundingNext]_fundingVars => WatchInv'
<1> SUFFICES ASSUME ~Overlapping, WatchInv, [FundingNext]_fundingVars PROVE WatchInv'
  OBVIOUS
<1>1. BaseInv /\ BaseInv'
  BY BaseStep DEF WatchInv
<1>2. tx' = tx => GoesOn
  BY DEF GoesOn, Hashes
<1>3. CASE UNCHANGED fundingVars
  BY <1>1, <1>2, <1>3, WatchStands DEF fundingVars
<1>4. ASSUME NEW w \in Windows, NEW s \in Steps, Prepare(w, s) \/ PrepareSpeedUp(w, s)
      PROVE  WatchInv'
  <2>1. UNCHANGED <<plan, row, tx, mon>>
    BY <1>4 DEF Prepare, PrepareSpeedUp
  <2>2. \A f \in Flows : flow'[f] = flow[f] \/ flow'[f].pc = "sign"
    <3>1. CASE Prepare(w, s)
      BY <1>1, <3>1 DEF Prepare, BaseInv, TypeInv, Idle
    <3>2. CASE PrepareSpeedUp(w, s)
      BY <1>1, <3>2 DEF PrepareSpeedUp, BaseInv, TypeInv, Idle
    <3> QED
      BY <1>4, <3>1, <3>2
  <2> QED
    BY <1>1, <1>2, <2>1, <2>2, WatchStands DEF Requesting
<1>5. ASSUME NEW w \in Windows, CloseWindow(w) PROVE WatchInv'
  <2>1. UNCHANGED <<plan, row, tx, mon>>
    BY <1>5 DEF CloseWindow
  <2>2. \A f \in Flows : flow'[f] = flow[f] \/ flow'[f].pc \notin Requesting
    BY <1>5 DEF CloseWindow, Idle, Requesting
  <2> QED
    BY <1>1, <1>2, <2>1, <2>2, WatchStands
<1>6. ASSUME NEW f \in Flows, Rejects(f) \/ Receipt(f) PROVE WatchInv'
  <2>1. UNCHANGED <<plan, row, tx, mon>>
    BY <1>6 DEF Rejects, Receipt
  <2>2. \A g \in Flows : flow'[g] = flow[g] \/ flow'[g].pc \notin Requesting
    BY <1>1, <1>6 DEF Rejects, Receipt, FlowEnds, BaseInv, TypeInv, Idle, Requesting
  <2> QED
    BY <1>1, <1>2, <2>1, <2>2, WatchStands
<1>7. ASSUME NEW f \in Flows, Sign(f) PROVE WatchInv'
  <2>1. UNCHANGED <<plan, row, mon>> /\ GoesOn
    BY <1>1, <1>7, SignGoesOn DEF Sign
  <2>2. PICK n : flow' = [flow EXCEPT ![f].pc = "record", ![f].nonce = n, ![f].hash = Len(tx) + 1]
    BY <1>7 DEF Sign
  <2>3. \A g \in Flows : flow'[g] = flow[g] \/ flow'[g].pc \notin Requesting
    BY <1>1, <2>2 DEF BaseInv, TypeInv, FlowState, Requesting
  <2> QED
    BY <1>1, <2>1, <2>3, WatchStands
<1>8. ASSUME NEW f \in Flows,
             \/ Submits(f) \/ Submitted(f) \/ Answered(f)
             \/ AsksSkip(f) \/ AsksContinue(f) \/ AsksDiscard(f)
      PROVE  WatchInv'
  BY <1>8, SubmitsWatch, SubmittedWatch, AsksWatch, AnsweredWatch
<1>9. CASE \/ MonitorLists \/ MonitorSource \/ MonitorDelivery \/ MonitorPasses
           \/ MonitorWrites \/ MonitorCounts \/ MonitorCloses \/ MonitorRestarts
  BY <1>9, ListsWatch, LooksWatch, WritesWatch, CountsWatch
<1>10. ASSUME NEW h \in Hashes, Mine(h) \/ Bridge(h) PROVE WatchInv'
  <2>1. UNCHANGED <<plan, row, flow, mon>> /\ GoesOn
    BY <1>1, <1>10, ChainGoesOn DEF Mine, Bridge
  <2> QED
    BY <1>1, <2>1, WatchStands
<1> QED
  BY <1>3, <1>4, <1>5, <1>6, <1>7, <1>8, <1>9, <1>10 DEF FundingNext

LEMMA WatchImplies == WatchInv => SignedIsWatched /\ PlanTellsTruth
<1> SUFFICES ASSUME WatchInv PROVE SignedIsWatched /\ PlanTellsTruth
  OBVIOUS
<1>1. SignedIsWatched
  <2> SUFFICES ASSUME NEW s \in Steps, Alive(row[s].hash) PROVE row[s].status \in InFlight
    BY DEF SignedIsWatched, Watched
  <2>1. row[s].status \in Statuses /\ GoodRow(row[s], s) /\ Verdict(row[s])
    BY DEF WatchInv, BaseInv, TypeInv, StepRow, RowInv
  <2> QED
    BY <2>1 DEF Statuses, GoodRow, Verdict, Alive, Terminal
<1>2. PlanTellsTruth
  <2> SUFFICES ASSUME plan = "delivered", NEW s \in Steps
               PROVE  /\ row[s].status = "delivered"
                      /\ \E h \in Candidates(row[s]) : tx[h].out = "delivered"
    BY DEF PlanTellsTruth
  <2>1. row[s].status = "delivered" /\ Verdict(row[s])
    BY DEF WatchInv, MonInv, PlanInv, AllDelivered, RowInv
  <2> QED
    BY <2>1 DEF Verdict
<1> QED
  BY <1>1, <1>2

\* When no request begins while another has read the plan and not yet written,
\* a transaction the server knows is watched for as long as it can move funds,
\* for any number of windows, steps and transactions.
THEOREM SignedIsWatchedTheorem ==
  ASSUME ~Overlapping
  PROVE  FundingSpec => []SignedIsWatched
<1>1. WatchInv /\ [FundingNext]_fundingVars => WatchInv'
  BY WatchStep
<1>2. WatchInv => SignedIsWatched
  BY WatchImplies
<1> QED
  BY <1>1, <1>2, WatchInit, PTL DEF FundingSpec

\* Under the same hypothesis, a plan is said to be delivered only when the
\* funds of each of its steps arrived, and none of its steps changes any more.
THEOREM PlanTellsTruthTheorem ==
  ASSUME ~Overlapping
  PROVE  FundingSpec => []PlanTellsTruth
<1>1. WatchInv /\ [FundingNext]_fundingVars => WatchInv'
  BY WatchStep
<1>2. WatchInv => PlanTellsTruth
  BY WatchImplies
<1> QED
  BY <1>1, <1>2, WatchInit, PTL DEF FundingSpec
=============================================================================
