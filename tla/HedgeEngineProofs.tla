------------------------- MODULE HedgeEngineProofs -------------------------
(***************************************************************************)
(* Proofs about a hedge, for any size, bounds, mishaps and overlaps: its   *)
(* objects, rows and orders are what they should be, and, when requests    *)
(* and fills are not overtaken and the process does not stop, nothing      *)
(* revives a cancelled hedge.  The second part is about the exchange: as   *)
(* long as nothing has gone wrong and nothing is overtaken, the hedge      *)
(* knows every order that is open, and what follows from it.  The third is *)
(* about the row: under those conditions it says what the object does.     *)
(***************************************************************************)
EXTENDS HedgeEngine, TLAPS, FiniteSetTheorems, SequenceTheorems

\* Where a thread can be, who catches what it throws, what it does next.
Labels ==
    {"idle", "placing", "place", "oversize", "send", "sent", "sl", "slOrders",
     "slSend", "slSent", "entryFill", "entryRead", "partial", "topup",
     "entryExit", "exitRead", "close", "slFill", "finalize", "exitFills",
     "entryFills", "rescue", "rescueRead", "rescueCancel", "rescueConfirm",
     "iocRead", "iocSend", "iocSent", "entryTick", "waitingTick",
     "pendingSlTick", "closingTick", "protectedTick", "pendingSlNext",
     "protectedNext", "cancelTick", "cancelRead", "cancelOrders",
     "cancelClose", "cancelConfirm", "cancelLastPos", "cancelLastOrders",
     "cancel", "retarget", "exit", "entryTrigger", "exitTrigger"}
Catchers == {"log", "error", "keep", "pendingSl", "retry"}
Followers == {"none", "placed", "save", "complete", "protect", "replace",
              "ioc", "stop", "listed", "unlisted"}

Frames == [pc : Labels, onThrow : Catchers, then : Followers,
           fill : Fills \cup {NoFill}, snap : Snapshots, pos : Lots,
           breached : BOOLEAN]
Ticks == [ok : BOOLEAN, seen : SUBSET Orders, on : BOOLEAN]

HedgeTyped ==
    /\ hedge \in Hedges
    /\ row \in Hedges
    /\ cycleRows \subseteq Cycles
    /\ IsFiniteSet(cycleRows)

\* Every lot of the position was bought with an order id of its own for at
\* most Size lots; an entry order that is open keeps its lots back.
ExchangeTyped ==
    /\ orders \subseteq Orders
    /\ IsFiniteSet(orders)
    /\ \A o \in Entries : o.sz = Size
    /\ pos \in Nat
    /\ nextOid \in 1 .. MaxOids + 1
    /\ pos + Size * Cardinality(Entries) <= Size * (nextOid - 1)
    /\ filled \subseteq Fills
    /\ inbox \in Seq(Fills)

FramesTyped == run \in [Threads -> Frames]

QueueTyped == queue \in Seq(Jobs) /\ tick \in Ticks

CreatorPcs == {"idle", "placing", "oversize", "send", "sent"}
CancelPcs == {"cancelTick", "cancelRead", "cancelOrders", "cancelClose",
              "cancelConfirm", "cancelLastPos", "cancelLastOrders"}

\* While createHedge has not sent its first order, the worker does nothing
\* that places an order or a stop loss.
FirstInv ==
    /\ run["creator"].pc \in CreatorPcs
    /\ run["creator"].pc = "placing" =>
         /\ hedge.placing
         /\ hedge.entryOid = NoOid
         /\ hedge.status \in {"entry_pending", "waiting", "cancel_pending",
                              "cancelled", "error"}
         /\ run["worker"].pc \in {"idle", "entryTick", "waitingTick",
                                  "retarget", "exit", "place", "cancel"}
                                 \cup CancelPcs
         /\ \A i \in DOMAIN queue : queue[i].kind \in UserJobs \cup {"tick"}

\* A stop loss is sent for a position that was seen, and the size it had is
\* still known when the order is sent.
SizeInv == run["worker"].pc \in {"slOrders", "slSend"} => hedge.size > 0

TypeInv ==
    /\ HedgeTyped
    /\ ExchangeTyped
    /\ FramesTyped
    /\ QueueTyped

-----------------------------------------------------------------------------
(* What the definitions come to.                                           *)

\* The lots that n order ids can buy.
LEMMA LotsGrow ==
    /\ Lots = 0 .. Size * MaxOids
    /\ \A n \in Nat : Size * n \in Nat /\ Size * (n + 1) = Size * n + Size
    /\ \A m, n \in Nat : m <= n => Size * m <= Size * n
    /\ Size \in Nat \ {0} /\ MaxOids \in Nat
<1>1. Size \in Nat \ {0} /\ MaxOids \in Nat
  BY HedgeAssumption DEF HedgeAssumption
<1>2. ASSUME NEW m \in Nat, NEW n \in Nat, m <= n PROVE Size * m <= Size * n
  <2>1. n - m \in Nat /\ n = m + (n - m)  BY <1>2
  <2>2. Size * (n - m) \in Nat  BY <2>1, <1>1
  <2>3. Size * n = Size * m + Size * (n - m)  BY <2>1, <1>1
  <2> QED BY <2>2, <2>3, <1>1
<1> QED BY <1>1, <1>2 DEF Lots

\* The position is one of whole lots, and so is a part of it.
LEMMA PosInLots ==
    ASSUME ExchangeTyped
    PROVE  pos \in Lots /\ \A k \in 0 .. pos : k \in Lots
<1>1. Cardinality(Entries) \in Nat
  BY FS_Subset, FS_CardinalityType DEF ExchangeTyped, Entries
<1>2. nextOid - 1 \in Nat /\ nextOid - 1 <= MaxOids
  BY LotsGrow DEF ExchangeTyped
<1>3. Size * Cardinality(Entries) \in Nat  BY <1>1, LotsGrow
<1>4. Size * (nextOid - 1) <= Size * MaxOids  BY <1>2, LotsGrow
<1>5. Size * MaxOids \in Nat /\ Size * (nextOid - 1) \in Nat
  BY <1>2, LotsGrow
<1>6. pos <= Size * MaxOids  BY <1>3, <1>4, <1>5 DEF ExchangeTyped
<1> QED BY <1>5, <1>6, LotsGrow DEF ExchangeTyped

LEMMA SizeInLots ==
    ASSUME MaxOids > 0
    PROVE  \A k \in 0 .. Size : k \in Lots /\ (k > 0 => k \in 1 .. Size * MaxOids)
<1>1. Size * 1 = Size  BY LotsGrow
<1>2. Size * 1 <= Size * MaxOids  BY LotsGrow
<1>3. Size * MaxOids \in Nat  BY LotsGrow
<1> QED BY <1>1, <1>2, <1>3, LotsGrow

\* An object of a hedge is saved as it is, or the row keeps what it had.
LEMMA Saved ==
    ASSUME HedgeTyped, NEW h \in Hedges, Save(h)
    PROVE  HedgeTyped' /\ hedge' = h
BY DEF HedgeTyped, Save

\* An exception leaves a hedge behind it.
LEMMA Thrown ==
    ASSUME HedgeTyped, NEW h \in Hedges, NEW t \in Threads, Throw(t, h)
    PROVE  HedgeTyped'
<1> DEFINE tries == h.entryRetry + 1
<1>1. [h EXCEPT !.status = "error"] \in Hedges  BY DEF Hedges, Statuses
<1>2. [h EXCEPT !.status = "entry_filled_pending_sl"] \in Hedges
  BY DEF Hedges, Statuses
<1>3. [h EXCEPT !.entryRetry = tries,
                !.status = IF tries >= MaxEntryRetries THEN "error" ELSE @]
        \in Hedges
  <2>1. \A s \in Statuses :
          [h EXCEPT !.entryRetry = tries, !.status = s] \in Hedges
    <3>1. h.entryRetry \in Nat  BY DEF Hedges
    <3>2. tries \in Nat  BY <3>1
    <3> HIDE DEF tries
    <3> QED BY <3>2 DEF Hedges
  <2>2. (IF tries >= MaxEntryRetries THEN "error" ELSE h.status) \in Statuses
    <3> DEFINE spent == tries >= MaxEntryRetries
    <3>1. h.status \in Statuses  BY DEF Hedges
    <3> HIDE DEF spent
    <3> QED BY <3>1 DEF Statuses
  <2> QED BY <2>1, <2>2
<1>4. CASE hedge' = h /\ UNCHANGED tables
  BY <1>4 DEF HedgeTyped, tables
<1>5. \/ \E g \in Hedges : Save(g)
      \/ hedge' = h /\ UNCHANGED tables
  BY <1>1, <1>2, <1>3 DEF Throw
<1> QED BY <1>4, <1>5, Saved

-----------------------------------------------------------------------------
(* Hedges, rows and cycles.                                                *)

LEMMA Unsaved ==
    ASSUME HedgeTyped, hedge' \in Hedges, UNCHANGED tables
    PROVE  HedgeTyped'
BY DEF HedgeTyped, tables

LEMMA PlacementHedges ==
    ASSUME TypeInv, NEW t \in Threads, Placement(t)
    PROVE  HedgeTyped'
<1> USE DEF TypeInv
<1>0. hedge \in Hedges /\ run[t] \in Frames /\ pos \in Lots /\ 0 \in Lots
  BY PosInLots DEF HedgeTyped, FramesTyped, ExchangeTyped
<1>1. CASE PlaceSkipped(t)
  <2>1. hedge' \in Hedges  BY <1>0, <1>1 DEF PlaceSkipped, Placed, Hedges
  <2> QED BY <1>1, <2>1, Unsaved DEF PlaceSkipped
<1>2. CASE PlaceUnreadable(t)
  <2>1. [hedge EXCEPT !.placing = FALSE] \in Hedges  BY <1>0 DEF Hedges
  <2> QED BY <1>2, <2>1, Thrown DEF PlaceUnreadable
<1>3. CASE PlaceOversized(t)
  <2>1. hedge' \in Hedges  BY <1>0, <1>3 DEF PlaceOversized, Hedges
  <2> QED BY <1>3, <2>1, Unsaved DEF PlaceOversized
<1>4. CASE PlaceAdoptsPosition(t)
  <2> DEFINE adopted == [hedge EXCEPT !.size = pos, !.entryOid = NoOid,
                                      !.confirmed = TRUE]
  <2>1. adopted \in Hedges  BY <1>0 DEF Hedges
  <2>2. ASSUME NEW oid \in {o.oid : o \in MatchingSl(run[t].snap, pos)}
        PROVE  Placed(t, [adopted EXCEPT !.slOid = oid,
                                         !.status = "open_protected"])
                 \in Hedges
    <3>1. oid \in Oids  BY <1>0 DEF MatchingSl, Frames, Snapshots, Orders
    <3>2. [adopted EXCEPT !.slOid = oid, !.status = "open_protected"] \in Hedges
      BY <2>1, <3>1 DEF Hedges, Statuses
    <3> HIDE DEF adopted
    <3> QED BY <3>2 DEF Placed, Hedges
  <2>3. Placed(t, [adopted EXCEPT !.status = "entry_filled_pending_sl"])
          \in Hedges
    <3>1. [adopted EXCEPT !.status = "entry_filled_pending_sl"] \in Hedges
      BY <2>1 DEF Hedges, Statuses
    <3> HIDE DEF adopted
    <3> QED BY <3>1 DEF Placed, Hedges
  <2> QED BY <1>4, <2>2, <2>3, Saved DEF PlaceAdoptsPosition
<1>5. CASE PlaceAdoptsOrder(t)
  <2>1. ASSUME NEW o \in EntriesIn(run[t].snap)
        PROVE  Placed(t, [hedge EXCEPT !.entryOid = o.oid,
                                       !.status = "entry_pending"]) \in Hedges
    <3>1. o.oid \in Oids  BY <1>0 DEF EntriesIn, Frames, Snapshots, Orders
    <3> QED BY <1>0, <3>1 DEF Placed, Hedges, Statuses
  <2> QED BY <1>5, <2>1, Saved DEF PlaceAdoptsOrder
<1>6. CASE PlacePrepares(t)
  <2>1. hedge' \in Hedges  BY <1>0, <1>6 DEF PlacePrepares, Hedges
  <2> QED BY <1>6, <2>1, Unsaved DEF PlacePrepares
<1>7. CASE EntrySent(t)
  BY <1>0, <1>7, Unsaved DEF EntrySent
<1>8. CASE EntryRefused(t)
  <2>1. [hedge EXCEPT !.placing = FALSE] \in Hedges  BY <1>0 DEF Hedges
  <2> QED BY <1>8, <2>1, Thrown DEF EntryRefused
<1>9. CASE EntryAcked(t)
  <2>1. run[t].fill.oid \in Oids \cup {NoOid}
    BY <1>0 DEF Frames, Fills, NoFill
  <2>2. Placed(t, [hedge EXCEPT !.entryOid = run[t].fill.oid,
                                !.slOid = NoOid, !.status = "entry_pending"])
          \in Hedges
    BY <1>0, <2>1 DEF Placed, Hedges, Statuses
  <2> QED BY <1>9, <2>2, Saved DEF EntryAcked
<1>10. CASE OversizeStops(t)
  <2>1. SetStatus("error") \in Hedges
    BY <1>0 DEF SetStatus, Hedges, Statuses
  <2>2. Placed(t, SetStatus("error")) \in Hedges
    BY <2>1 DEF Placed, Hedges
  <2> QED BY <1>10, <2>1, <2>2, Saved DEF OversizeStops
<1> QED
  BY <1>1, <1>2, <1>3, <1>4, <1>5, <1>6, <1>7, <1>8, <1>9, <1>10 DEF Placement

LEMMA StopLossHedges ==
    ASSUME TypeInv, NEW t \in Threads, StopLoss(t)
    PROVE  HedgeTyped'
<1> USE DEF TypeInv
<1>0. hedge \in Hedges /\ run[t] \in Frames /\ pos \in Lots
  BY PosInLots DEF HedgeTyped, FramesTyped
<1>1. CASE SlWithoutPosition(t)
  BY <1>0, <1>1, Thrown DEF SlWithoutPosition
<1>2. CASE SlSizes(t)
  <2>1. hedge' \in Hedges  BY <1>0, <1>2 DEF SlSizes, Hedges
  <2> QED BY <1>2, <2>1, Unsaved DEF SlSizes
<1>3. ASSUME NEW oid \in Oids \cup {NoOid} PROVE Protected(t, oid) \in Hedges
  BY <1>0 DEF Protected, Hedges, Statuses
<1>4. CASE SlReused(t)
  <2>1. FreshSls \subseteq Orders  BY DEF FreshSls, MatchingSl, ExchangeTyped
  <2>2. PICK o \in FreshSls : Save(Protected(t, o.oid))
    BY <1>4 DEF SlReused
  <2>3. o.oid \in Oids  BY <2>1 DEF Orders
  <2> QED BY <1>3, <2>2, <2>3, Saved
<1>5. CASE SlMissing(t)
  BY <1>0, <1>5, Unsaved DEF SlMissing
<1>6. CASE SlSent(t)
  BY <1>0, <1>6, Unsaved DEF SlSent
<1>7. CASE SlRefused(t)
  BY <1>0, <1>7, Thrown DEF SlRefused
<1>8. CASE SlAcked(t)
  <2>1. run[t].fill.oid \in Oids \cup {NoOid}
    BY <1>0 DEF Frames, Fills, NoFill
  <2> QED BY <1>3, <1>8, <2>1, Saved DEF SlAcked
<1> QED
  BY <1>1, <1>2, <1>4, <1>5, <1>6, <1>7, <1>8 DEF StopLoss

LEMMA StatusTyped ==
    ASSUME HedgeTyped, NEW s \in Statuses
    PROVE  SetStatus(s) \in Hedges
BY DEF SetStatus, Hedges, HedgeTyped

LEMMA EntryFillHedges ==
    ASSUME TypeInv, NEW t \in Threads, EntryFill(t)
    PROVE  HedgeTyped'
<1> USE DEF TypeInv
<1>0. hedge \in Hedges /\ run[t] \in Frames /\ pos \in Lots /\ 0 \in Lots
  BY PosInLots DEF HedgeTyped, FramesTyped, ExchangeTyped
<1>1. CASE EntryFillNoted(t)
  <2>1. run[t].fill.oid \in Oids \cup {NoOid} /\ run[t].fill.sz \in Lots
    BY <1>0 DEF Frames, Fills, NoFill
  <2>2. hedge' \in Hedges  BY <1>0, <1>1, <2>1 DEF EntryFillNoted, Hedges
  <2> QED BY <1>1, <2>2, Unsaved DEF EntryFillNoted
<1>2. CASE EntryFillRead(t)
  <2>1. PICK n \in Lots : hedge' = [hedge EXCEPT !.size = n]
    BY <1>0, <1>2 DEF EntryFillRead, Hedges
  <2>2. hedge' \in Hedges  BY <1>0, <2>1 DEF Hedges
  <2> QED BY <1>2, <2>2, Unsaved DEF EntryFillRead
<1>3. CASE PartialCancels(t)
  <2>1. hedge' \in Hedges  BY <1>0, <1>3 DEF PartialCancels, Hedges
  <2> QED BY <1>3, <2>1, Unsaved DEF PartialCancels
<1>4. CASE PartialToppedUp(t)
  BY <1>0, <1>4, Unsaved DEF PartialToppedUp
<1>5. CASE EntryFillBreached(t)
  BY <1>5, StatusTyped, Saved DEF EntryFillBreached, Statuses
<1>6. CASE EntryFillCovered(t)
  BY <1>6, StatusTyped, Saved DEF EntryFillCovered, Statuses
<1>7. CASE ExitRead(t)
  BY <1>0, <1>7, Unsaved DEF ExitRead
<1>8. CASE Closed(t)
  BY <1>0, <1>8, Saved, Unsaved DEF Closed
<1> QED
  BY <1>1, <1>2, <1>3, <1>4, <1>5, <1>6, <1>7, <1>8 DEF EntryFill

LEMMA CycleEndHedges ==
    ASSUME TypeInv, NEW t \in Threads, CycleEnd(t)
    PROVE  HedgeTyped'
<1> USE DEF TypeInv
<1>0. hedge \in Hedges /\ run[t] \in Frames /\ 0 \in Lots /\ hedge.cycles \in Nat
  BY PosInLots DEF HedgeTyped, FramesTyped, ExchangeTyped, Hedges
<1>1. ASSUME NEW n \in Nat PROVE AfterCycle(n) \in Hedges
  BY <1>0 DEF AfterCycle, Hedges, Statuses
<1>2. CASE SlFillNoted(t)
  BY <1>2, StatusTyped, Saved DEF SlFillNoted, Statuses
<1>3. CASE CycleSaved(t)
  <2> DEFINE cycle == CycleOf(run[t].fill.oid)
  <2>1. run[t].fill.oid \in Oids \cup {NoOid}
    BY <1>0 DEF Frames, Fills, NoFill
  <2>2. cycle \in Cycles  BY <1>0, <2>1 DEF CycleOf, Cycles, Hedges
  <2>3. IsFiniteSet(cycleRows \cup {cycle})
    BY FS_AddElement DEF HedgeTyped
  <2>4. /\ hedge' = AfterCycle(hedge.cycles + 1) /\ row' = hedge'
        /\ cycleRows' = cycleRows \cup {cycle}
    BY <1>3 DEF CycleSaved
  <2>5. hedge' \in Hedges  BY <1>0, <1>1, <2>4
  <2> HIDE DEF cycle
  <2> QED BY <2>2, <2>3, <2>4, <2>5 DEF HedgeTyped
<1>4. CASE CycleNotSaved(t)
  <2>1. Throw(t, AfterCycle(hedge.cycles + 1))  BY <1>4 DEF CycleNotSaved
  <2>2. AfterCycle(hedge.cycles + 1) \in Hedges  BY <1>0, <1>1
  <2> QED BY <2>1, <2>2, Thrown
<1>5. CASE ExitRecovered(t)
  BY <1>0, <1>5, Unsaved DEF ExitRecovered
<1>6. CASE CycleGuessed(t)
  <2>1. \/ UNCHANGED <<hedge, tables>>
        \/ Save(AfterCycle(hedge.cycles))
    BY <1>6 DEF CycleGuessed
  <2> QED BY <1>0, <1>1, <2>1, Saved, Unsaved
<1>7. CASE SlVanished(t)
  <2>1. hedge' \in Hedges  BY <1>0, <1>7 DEF SlVanished, Hedges
  <2> QED BY <1>7, <2>1, Unsaved DEF SlVanished
<1> QED BY <1>2, <1>3, <1>4, <1>5, <1>6, <1>7 DEF CycleEnd

LEMMA RescueHedges ==
    ASSUME TypeInv, NEW t \in Threads, Rescue(t)
    PROVE  HedgeTyped'
<1> USE DEF TypeInv
<1>0. /\ hedge \in Hedges /\ run[t] \in Frames /\ pos \in Lots
      /\ [hedge EXCEPT !.size = pos] \in Hedges
      /\ [hedge EXCEPT !.entryOid = NoOid] \in Hedges
      /\ [hedge EXCEPT !.entryOid = NoOid, !.slOid = NoOid] \in Hedges
  BY PosInLots DEF HedgeTyped, FramesTyped, Hedges
<1>1. CASE EntryRecovered(t)
  BY <1>0, <1>1, Unsaved DEF EntryRecovered
<1>2. CASE EntryUnfilled(t)
  BY <1>0, <1>2, Unsaved DEF EntryUnfilled
<1>3. CASE RescueDeclined(t)
  BY <1>0, <1>3, Unsaved, Saved, StatusTyped DEF RescueDeclined, Statuses
<1>4. CASE RescueLists(t)
  BY <1>0, <1>4, Unsaved DEF RescueLists
<1>5. CASE RescueReads(t)
  BY <1>0, <1>5, Unsaved DEF RescueReads, FoundOpen
<1>6. CASE RescueCancels(t)
  BY <1>0, <1>6, Unsaved, Saved DEF RescueCancels
<1>7. CASE RescueConfirms(t)
  BY <1>0, <1>7, Unsaved, Saved DEF RescueConfirms, FoundOpen
<1>8. CASE RescueClears(t)
  BY <1>0, <1>8, Unsaved, Saved DEF RescueClears, FoundOpen
<1>9. CASE IocSent(t)
  BY <1>0, <1>9, Unsaved DEF IocSent
<1>10. CASE IocRefused(t)
  BY <1>0, <1>10, Saved DEF IocRefused
<1>11. CASE IocAcked(t)
  <2>1. run[t].fill.oid \in Oids \cup {NoOid}
    BY <1>0 DEF Frames, Fills, NoFill
  <2>2. [hedge EXCEPT !.entryOid = run[t].fill.oid] \in Hedges
    BY <1>0, <2>1 DEF Hedges
  <2> QED BY <1>11, <2>2, Saved DEF IocAcked
<1> QED
  BY <1>1, <1>2, <1>3, <1>4, <1>5, <1>6, <1>7, <1>8, <1>9, <1>10, <1>11
  DEF Rescue

LEMMA MonitorHedges ==
    ASSUME TypeInv, NEW t \in Threads, Monitor(t)
    PROVE  HedgeTyped'
<1> USE DEF TypeInv
<1>0. /\ hedge \in Hedges /\ run[t] \in Frames /\ pos \in Lots
      /\ [hedge EXCEPT !.size = pos] \in Hedges
      /\ [hedge EXCEPT !.status = "closing", !.slOid = NoOid] \in Hedges
  BY PosInLots DEF HedgeTyped, FramesTyped, Hedges, Statuses
<1>1. CASE TickWaits(t)  BY <1>0, <1>1, Saved DEF TickWaits
<1>2. CASE WaitingRetried(t)  BY <1>0, <1>2, Unsaved DEF WaitingRetried
<1>3. CASE EntryChecked(t)
  <2>1. \A o \in EntriesIn(run[t].snap) : o.oid \in Oids
    BY <1>0 DEF EntriesIn, Frames, Snapshots, Orders
  <2>2. hedge.entryOid \in Oids \cup {NoOid}  BY <1>0 DEF Hedges
  <2>3. PICK kept \in Oids \cup {NoOid} :
          hedge' = [hedge EXCEPT !.entryOid = kept]
    BY <1>3, <2>1, <2>2 DEF EntryChecked
  <2>4. hedge' \in Hedges  BY <1>0, <2>3 DEF Hedges
  <2> QED BY <1>3, <2>4, Unsaved DEF EntryChecked
<1>4. CASE PositionUnreadable(t)  BY <1>0, <1>4, Saved DEF PositionUnreadable
<1>5. CASE PositionGone(t)  BY <1>0, <1>5, Unsaved DEF PositionGone
<1>6. CASE PositionOversized(t)  BY <1>0, <1>6, Unsaved DEF PositionOversized
<1>7. CASE PositionSeen(t)  BY <1>0, <1>7, Unsaved DEF PositionSeen
<1>8. CASE PendingSlFound(t)
  BY <1>8, StatusTyped, Saved DEF PendingSlFound, Statuses
<1>9. CASE PendingSlBreached(t)
  BY <1>9, StatusTyped, Saved DEF PendingSlBreached, Statuses
<1>10. CASE PendingSlGrace(t)  BY <1>0, <1>10, Saved DEF PendingSlGrace
<1>11. CASE PendingSlRetried(t)
  <2> DEFINE tried == [hedge EXCEPT !.slRetry = @ + 1]
  <2>1. tried \in Hedges  BY <1>0 DEF Hedges
  <2>2. [tried EXCEPT !.status = "error"] \in Hedges
    BY <2>1 DEF Hedges, Statuses
  <2>3. \/ hedge' = tried /\ UNCHANGED tables
        \/ Save([tried EXCEPT !.status = "error"])
    BY <1>11 DEF PendingSlRetried
  <2> HIDE DEF tried
  <2> QED BY <2>1, <2>2, <2>3, Saved, Unsaved
<1>12. CASE ClosingRetried(t)  BY <1>0, <1>12, Unsaved DEF ClosingRetried
<1>13. CASE ClosingAwaited(t)  BY <1>0, <1>13, Saved DEF ClosingAwaited
<1>14. CASE ProtectedBreached(t)
  BY <1>0, <1>14, StatusTyped, Saved DEF ProtectedBreached, Statuses
<1>15. CASE ProtectedHolds(t)  BY <1>0, <1>15, Saved DEF ProtectedHolds
<1>16. CASE ProtectedLost(t)  BY <1>0, <1>16, Saved DEF ProtectedLost
<1> QED
  BY <1>1, <1>2, <1>3, <1>4, <1>5, <1>6, <1>7, <1>8, <1>9, <1>10, <1>11,
     <1>12, <1>13, <1>14, <1>15, <1>16
  DEF Monitor

LEMMA CancellationHedges ==
    ASSUME TypeInv, NEW t \in Threads, Cancellation(t)
    PROVE  HedgeTyped'
<1> USE DEF TypeInv
<1>0. /\ hedge \in Hedges
      /\ [hedge EXCEPT !.status = "cancelled", !.entryOid = NoOid,
                       !.slOid = NoOid] \in Hedges
  BY DEF HedgeTyped, Hedges, Statuses
<1>1. CASE CancelBegins(t)
  BY <1>1, StatusTyped, Saved DEF CancelBegins, Statuses
<1>2. CASE CancelTick(t)  BY <1>0, <1>2, Unsaved DEF CancelTick
<1>3. CASE CancelTimedOut(t)
  BY <1>3, StatusTyped, Saved DEF CancelTimedOut, Statuses
<1>4. CASE CancelReads(t)  BY <1>0, <1>4, Unsaved DEF CancelReads
<1>5. CASE CancelOrders(t)  BY <1>0, <1>5, Unsaved DEF CancelOrders
<1>6. CASE CancelCloses(t)  BY <1>0, <1>6, Unsaved DEF CancelCloses
<1>7. CASE CancelConfirmsOrders(t)
  BY <1>0, <1>7, Unsaved DEF CancelConfirmsOrders
<1>8. CASE CancelConfirmsPos(t)  BY <1>0, <1>8, Unsaved DEF CancelConfirmsPos
<1>9. CASE CancelDone(t)  BY <1>0, <1>9, Saved DEF CancelDone
<1>10. CASE CancelPostponed(t)  BY <1>0, <1>10, Saved DEF CancelPostponed
<1> QED
  BY <1>1, <1>2, <1>3, <1>4, <1>5, <1>6, <1>7, <1>8, <1>9, <1>10
  DEF Cancellation

LEMMA OperationHedges ==
    ASSUME TypeInv, NEW t \in Threads, Operation(t)
    PROVE  HedgeTyped'
<1> USE DEF TypeInv
<1>0. /\ hedge \in Hedges
      /\ [hedge EXCEPT !.entryOid = NoOid, !.status = "waiting"] \in Hedges
      /\ [hedge EXCEPT !.slOid = NoOid, !.status = "entry_filled_pending_sl"]
           \in Hedges
      /\ [hedge EXCEPT !.slOid = NoOid, !.status = "closing"] \in Hedges
  BY DEF HedgeTyped, Hedges, Statuses
<1>1. CASE Retargets(t)  BY <1>0, <1>1, Saved DEF Retargets
<1>2. CASE MovesExit(t)  BY <1>0, <1>2, Saved DEF MovesExit
<1>3. CASE RequestFails(t)  BY <1>0, <1>3, Unsaved DEF RequestFails
<1>4. CASE EntryTriggered(t)  BY <1>0, <1>4, Unsaved DEF EntryTriggered
<1>5. CASE ExitTriggered(t)  BY <1>0, <1>5, Saved, Unsaved DEF ExitTriggered
<1> QED BY <1>1, <1>2, <1>3, <1>4, <1>5 DEF Operation

\* What goes on outside the threads does not touch hedge, row or cycles; a
\* restart reads the row.
LEMMA OutsideHedges ==
    ASSUME TypeInv,
           \/ Exchange \/ FillLost \/ FillArrives \/ PriceArrives
           \/ TickReads \/ TickQueued \/ JobStarts
           \/ (\E kind \in Requests : Requested(kind)) \/ Crash
    PROVE  HedgeTyped'
<1> USE DEF TypeInv
<1>1. CASE Crash
  <2>1. Cardinality(cycleRows) \in Nat
    BY FS_CardinalityType DEF HedgeTyped
  <2> DEFINE n == Cardinality(cycleRows)
  <2> HIDE DEF n
  <2>2. [row EXCEPT !.placing = FALSE, !.topup = FALSE, !.entryRetry = 0,
                    !.slRetry = 0, !.cycles = n] \in Hedges
    BY <2>1 DEF HedgeTyped, Hedges, n
  <2>3. hedge' \in Hedges  BY <1>1, <2>2 DEF Crash, n
  <2> QED BY <1>1, <2>3, Unsaved DEF Crash
<1>2. CASE UNCHANGED <<hedge, tables>>
  BY <1>2 DEF HedgeTyped, tables
<1>3. CASE Exchange
  BY <1>2, <1>3 DEF Exchange, EntryFires, StopLossFires, StopLossLapses,
                    ClosedOutside
<1>4. CASE FillLost \/ FillArrives \/ PriceArrives \/ TickReads
  BY <1>2, <1>4 DEF FillLost, FillArrives, PriceArrives, TickReads
<1>5. CASE TickQueued \/ JobStarts \/ \E kind \in Requests : Requested(kind)
  BY <1>2, <1>5 DEF TickQueued, JobStarts, Requested
<1> QED BY <1>1, <1>3, <1>4, <1>5

-----------------------------------------------------------------------------
(* The exchange.                                                           *)

\* Orders that go and lots that are sold take nothing from what may be bought.
LEMMA ExchangeShrinks ==
    ASSUME ExchangeTyped, orders' \subseteq orders, pos' \in 0 .. pos,
           nextOid' = nextOid, filled' \subseteq Fills, inbox' \in Seq(Fills)
    PROVE  ExchangeTyped'
<1>1. Entries' \subseteq Entries  BY DEF Entries
<1>2. IsFiniteSet(Entries)  BY FS_Subset DEF ExchangeTyped, Entries
<1>3. /\ Cardinality(Entries) \in Nat /\ Cardinality(Entries') \in Nat
      /\ Cardinality(Entries') <= Cardinality(Entries)
  BY <1>1, <1>2, FS_Subset, FS_CardinalityType
<1>4. /\ Size * Cardinality(Entries') <= Size * Cardinality(Entries)
      /\ Size * Cardinality(Entries') \in Nat
      /\ Size * Cardinality(Entries) \in Nat
  BY <1>3, LotsGrow
<1>5. nextOid - 1 \in Nat /\ Size * (nextOid - 1) \in Nat
  BY LotsGrow DEF ExchangeTyped
<1>6. pos' + Size * Cardinality(Entries') <= Size * (nextOid' - 1)
  BY <1>4, <1>5 DEF ExchangeTyped
<1>7. orders' \subseteq Orders /\ IsFiniteSet(orders')
  BY FS_Subset DEF ExchangeTyped
<1>8. \A o \in Entries' : o.sz = Size  BY <1>1 DEF ExchangeTyped
<1>9. pos' \in Nat /\ nextOid' \in 1 .. MaxOids + 1  BY DEF ExchangeTyped
<1> QED BY <1>6, <1>7, <1>8, <1>9 DEF ExchangeTyped

LEMMA ExchangeCalm ==
    ASSUME ExchangeTyped, UNCHANGED exchange
    PROVE  ExchangeTyped'
BY ExchangeShrinks DEF ExchangeTyped, exchange

LEMMA OrdersGo ==
    ASSUME ExchangeTyped, orders' \subseteq orders,
           UNCHANGED <<pos, filled, inbox, nextOid>>
    PROVE  ExchangeTyped'
BY ExchangeShrinks DEF ExchangeTyped

LEMMA LotsGo ==
    ASSUME ExchangeTyped, pos' \in 0 .. pos,
           UNCHANGED <<orders, filled, inbox, nextOid>>
    PROVE  ExchangeTyped'
BY ExchangeShrinks DEF ExchangeTyped

LEMMA Cancelled ==
    ASSUME NEW targets, Cancel(targets)
    PROVE  orders' \subseteq orders
BY DEF Cancel

LEMMA Reduced ==
    ASSUME ExchangeTyped, NEW n \in Lots, ReducedBy(n)
    PROVE  pos' \in 0 .. pos
BY LotsGrow DEF ReducedBy, ExchangeTyped

\* With a new order id at most Size lots are bought at once.
LEMMA LotsBought ==
    ASSUME ExchangeTyped, nextOid <= MaxOids, nextOid' = nextOid + 1,
           orders' = orders, pos' \in pos .. pos + Size,
           filled' \subseteq Fills, inbox' \in Seq(Fills)
    PROVE  ExchangeTyped'
<1>1. Entries' = Entries  BY DEF Entries
<1>2. Cardinality(Entries) \in Nat
  BY FS_Subset, FS_CardinalityType DEF ExchangeTyped, Entries
<1>3. Size * Cardinality(Entries) \in Nat  BY <1>2, LotsGrow
<1>4. /\ nextOid - 1 \in Nat /\ nextOid' - 1 = (nextOid - 1) + 1
      /\ Size * (nextOid' - 1) = Size * (nextOid - 1) + Size
      /\ Size * (nextOid - 1) \in Nat
  BY LotsGrow DEF ExchangeTyped
<1>5. pos' \in Nat /\ pos' <= pos + Size  BY LotsGrow DEF ExchangeTyped
<1>6. pos' + Size * Cardinality(Entries') <= Size * (nextOid' - 1)
  BY <1>1, <1>3, <1>4, <1>5, LotsGrow DEF ExchangeTyped
<1>7. nextOid' \in 1 .. MaxOids + 1  BY LotsGrow DEF ExchangeTyped
<1> QED BY <1>1, <1>5, <1>6, <1>7 DEF ExchangeTyped

\* An order that is accepted for later.
LEMMA EntryTaken ==
    ASSUME ExchangeTyped, UNCHANGED <<pos, filled, inbox>>,
           Accepted([oid |-> nextOid, kind |-> "entry", sz |-> Size])
    PROVE  ExchangeTyped'
<1> DEFINE new == [oid |-> nextOid, kind |-> "entry", sz |-> Size]
<1>1. nextOid \in Oids /\ nextOid <= MaxOids /\ nextOid' = nextOid + 1
      /\ MaxOids > 0
  BY LotsGrow DEF Accepted, ExchangeTyped, Oids
<1>2. new \in Orders  BY <1>1, SizeInLots, LotsGrow DEF Orders
<1>3. orders' = orders \cup {new}  BY DEF Accepted
<1>4. Entries' = Entries \cup {new}  BY <1>3 DEF Entries
<1> HIDE DEF new
<1>5. IsFiniteSet(Entries)  BY FS_Subset DEF ExchangeTyped, Entries
<1>6. /\ IsFiniteSet(orders')
      /\ Cardinality(Entries) \in Nat /\ Cardinality(Entries') \in Nat
      /\ Cardinality(Entries') <= Cardinality(Entries) + 1
  <2>1. IsFiniteSet(orders')  BY <1>3, FS_AddElement DEF ExchangeTyped
  <2>2. Cardinality(Entries) \in Nat  BY <1>5, FS_CardinalityType
  <2>3. Cardinality(Entries \cup {new}) =
          IF new \in Entries THEN Cardinality(Entries)
                             ELSE Cardinality(Entries) + 1
    BY <1>5, FS_AddElement
  <2> QED BY <1>4, <2>1, <2>2, <2>3
<1>7. /\ Size * Cardinality(Entries') <= Size * (Cardinality(Entries) + 1)
      /\ Size * (Cardinality(Entries) + 1) = Size * Cardinality(Entries) + Size
      /\ Size * Cardinality(Entries) \in Nat
      /\ Size * Cardinality(Entries') \in Nat
  BY <1>6, LotsGrow
<1>8. /\ nextOid - 1 \in Nat /\ nextOid' - 1 = (nextOid - 1) + 1
      /\ Size * (nextOid' - 1) = Size * (nextOid - 1) + Size
      /\ Size * (nextOid - 1) \in Nat
  BY <1>1, LotsGrow DEF ExchangeTyped
<1>9. pos' + Size * Cardinality(Entries') <= Size * (nextOid' - 1)
  BY <1>7, <1>8, LotsGrow DEF ExchangeTyped
<1>10. nextOid' \in 1 .. MaxOids + 1  BY <1>1, LotsGrow DEF ExchangeTyped
<1>11. \A o \in Entries' : o.sz = Size  BY <1>4 DEF ExchangeTyped, new
<1> QED BY <1>2, <1>3, <1>6, <1>9, <1>10, <1>11 DEF ExchangeTyped

LEMMA StopLossTaken ==
    ASSUME ExchangeTyped, UNCHANGED <<pos, filled, inbox>>,
           NEW sz \in 1 .. Size * MaxOids,
           Accepted([oid |-> nextOid, kind |-> "sl", sz |-> sz])
    PROVE  ExchangeTyped'
<1> DEFINE new == [oid |-> nextOid, kind |-> "sl", sz |-> sz]
<1>1. nextOid \in Oids /\ nextOid <= MaxOids /\ nextOid' = nextOid + 1
  BY LotsGrow DEF Accepted, ExchangeTyped, Oids
<1>2. new \in Orders  BY <1>1 DEF Orders
<1>3. orders' = orders \cup {new}  BY DEF Accepted
<1>4. Entries' = Entries  BY <1>3 DEF Entries
<1> HIDE DEF new
<1>5. IsFiniteSet(Entries)  BY FS_Subset DEF ExchangeTyped, Entries
<1>6. IsFiniteSet(orders') /\ Cardinality(Entries) \in Nat
  BY <1>3, <1>5, FS_AddElement, FS_CardinalityType DEF ExchangeTyped
<1>7. Size * Cardinality(Entries) \in Nat  BY <1>6, LotsGrow
<1>8. /\ nextOid - 1 \in Nat /\ nextOid' - 1 = (nextOid - 1) + 1
      /\ Size * (nextOid' - 1) = Size * (nextOid - 1) + Size
      /\ Size * (nextOid - 1) \in Nat
  BY <1>1, LotsGrow DEF ExchangeTyped
<1>9. pos' + Size * Cardinality(Entries') <= Size * (nextOid' - 1)
  BY <1>4, <1>7, <1>8, LotsGrow DEF ExchangeTyped
<1>10. nextOid' \in 1 .. MaxOids + 1  BY <1>1, LotsGrow DEF ExchangeTyped
<1>11. \A o \in Entries' : o.sz = Size  BY <1>4 DEF ExchangeTyped
<1> QED BY <1>2, <1>3, <1>6, <1>9, <1>10, <1>11 DEF ExchangeTyped

\* What an order that executes reports: fills of whole lots, of its size in
\* all at most.
LEMMA FillsReported ==
    ASSUME ExchangeTyped, NEW oid \in Oids, NEW sz \in Lots, sz > 0,
           NEW parts \in PartsOf(sz), Reported(oid, parts)
    PROVE  /\ LotsIn(parts) \in 1 .. sz
           /\ filled' \subseteq Fills
           /\ inbox' \in Seq(Fills)
<1>0. sz \in Nat \ {0} /\ \A k \in 0 .. sz : k \in Lots  BY LotsGrow
<1>1. \/ parts = <<sz>>
      \/ sz > 1 /\ parts = <<1, sz - 1>>
      \/ parts = <<1>>
  BY DEF PartsOf
<1>2. LotsIn(parts) \in 1 .. sz  BY <1>0, <1>1 DEF LotsIn
<1> DEFINE fills == [i \in DOMAIN parts |-> [oid |-> oid, sz |-> parts[i]]]
<1>3. parts \in Seq(Lots)
  <2>1. CASE parts = <<sz>>  BY <2>1
  <2>2. CASE sz > 1 /\ parts = <<1, sz - 1>>
    <3>1. 1 \in Lots /\ sz - 1 \in Lots  BY <1>0, <2>2
    <3> QED BY <2>2, <3>1
  <2>3. CASE parts = <<1>>
    <3>1. 1 \in Lots  BY <1>0
    <3> QED BY <2>3, <3>1
  <2> QED BY <1>1, <2>1, <2>2, <2>3
<1>4. \A i \in DOMAIN parts : fills[i] \in Fills  BY <1>3 DEF Fills
<1>5. DOMAIN fills = 1 .. Len(parts) /\ Len(parts) \in Nat  BY <1>3
<1>6. fills \in Seq(Fills)
  <2> HIDE DEF fills
  <2>1. \A i \in 1 .. Len(parts) : fills[i] \in Fills  BY <1>3, <1>4
  <2>2. fills = [i \in 1 .. Len(parts) |-> fills[i]]  BY <1>3 DEF fills
  <2> QED BY <1>5, <2>1, <2>2
<1>7. inbox' = inbox \o fills /\ filled' = filled \cup {fills[i] : i \in DOMAIN fills}
  BY DEF Reported
<1> HIDE DEF fills
<1> QED BY <1>2, <1>3, <1>4, <1>5, <1>6, <1>7 DEF ExchangeTyped

LEMMA PlacementExchange ==
    ASSUME TypeInv, NEW t \in Threads, Placement(t)
    PROVE  ExchangeTyped'
<1> USE DEF TypeInv
<1>1. CASE UNCHANGED exchange  BY <1>1, ExchangeCalm
<1>2. CASE UNCHANGED <<pos, filled, inbox, nextOid>> /\ orders' \subseteq orders
  BY <1>2, OrdersGo
<1>3. CASE PlaceSkipped(t) \/ PlaceUnreadable(t) \/ PlaceOversized(t)
  BY <1>1, <1>3 DEF PlaceSkipped, PlaceUnreadable, PlaceOversized
<1>4. CASE PlaceAdoptsPosition(t)
  BY <1>2, <1>4, Cancelled DEF PlaceAdoptsPosition
<1>5. CASE PlaceAdoptsOrder(t) \/ PlacePrepares(t) \/ EntryAcked(t)
  BY <1>1, <1>5 DEF PlaceAdoptsOrder, PlacePrepares, EntryAcked
<1>6. CASE EntrySent(t)  BY <1>6, EntryTaken DEF EntrySent
<1>7. CASE EntryRefused(t)
  BY <1>1, <1>7, EntryTaken DEF EntryRefused, exchange
<1>8. CASE OversizeStops(t)
  BY <1>2, <1>8, Cancelled DEF OversizeStops
<1> QED BY <1>3, <1>4, <1>5, <1>6, <1>7, <1>8 DEF Placement

\* The size of a new stop loss is that of the position or of a part of it.
LEMMA NewSlSize ==
    ASSUME TypeInv, pos > 0, hedge.size > 0
    PROVE  NewSl.sz \in 1 .. Size * MaxOids
<1>1. pos \in 1 .. Size * MaxOids /\ hedge.size \in 1 .. Size * MaxOids
  BY PosInLots, LotsGrow DEF TypeInv, HedgeTyped, Hedges
<1> QED BY <1>1 DEF NewSl

\* The creator never comes to a stop loss.
LEMMA SlIsOfTheWorker ==
    ASSUME FirstInv, SizeInv, NEW t \in Threads, run[t].pc = "slSend"
    PROVE  t = "worker" /\ hedge.size > 0
BY DEF FirstInv, SizeInv, Threads, CreatorPcs

LEMMA StopLossExchange ==
    ASSUME TypeInv, FirstInv, SizeInv, NEW t \in Threads, StopLoss(t)
    PROVE  ExchangeTyped'
<1> USE DEF TypeInv
<1>1. CASE UNCHANGED exchange  BY <1>1, ExchangeCalm
<1>2. CASE /\ At(t, "slSend") /\ pos > 0 /\ Accepted(NewSl)
           /\ UNCHANGED <<pos, filled, inbox>>
  <2>1. NewSl.sz \in 1 .. Size * MaxOids
    BY <1>2, NewSlSize, SlIsOfTheWorker DEF At
  <2> DEFINE sz == NewSl.sz
  <2>2. NewSl = [oid |-> nextOid, kind |-> "sl", sz |-> sz]  BY DEF NewSl
  <2> HIDE DEF sz
  <2> QED BY <1>2, <2>1, <2>2, StopLossTaken DEF sz
<1>3. CASE SlWithoutPosition(t) \/ SlSizes(t) \/ SlReused(t) \/ SlMissing(t)
  BY <1>1, <1>3 DEF SlWithoutPosition, SlSizes, SlReused, SlMissing
<1>4. CASE SlSent(t)  BY <1>2, <1>4 DEF SlSent
<1>5. CASE SlRefused(t)  BY <1>1, <1>2, <1>5 DEF SlRefused, exchange
<1>6. CASE SlAcked(t)  BY <1>1, <1>6 DEF SlAcked
<1> QED BY <1>3, <1>4, <1>5, <1>6 DEF StopLoss

LEMMA EntryFillExchange ==
    ASSUME TypeInv, NEW t \in Threads, EntryFill(t)
    PROVE  ExchangeTyped'
<1> USE DEF TypeInv
<1>0. run[t].pos \in Lots /\ hedge.size \in Nat
  BY LotsGrow DEF FramesTyped, Frames, HedgeTyped, Hedges
<1>1. CASE UNCHANGED exchange  BY <1>1, ExchangeCalm
<1>2. CASE EntryFillNoted(t) \/ EntryFillRead(t) \/ EntryFillBreached(t)
           \/ EntryFillCovered(t) \/ ExitRead(t)
  BY <1>1, <1>2 DEF EntryFillNoted, EntryFillRead, EntryFillBreached,
                    EntryFillCovered, ExitRead
<1>3. CASE PartialCancels(t)
  BY <1>3, Cancelled, OrdersGo DEF PartialCancels
<1>4. CASE PartialToppedUp(t)
  <2>1. CASE UNCHANGED exchange  BY <1>1, <2>1
  <2>2. CASE /\ hedge.size < Size /\ nextOid <= MaxOids
             /\ pos' = pos + (Size - hedge.size) /\ nextOid' = nextOid + 1
             /\ filled' = filled \cup {[oid |-> nextOid, sz |-> Size - hedge.size]}
             /\ UNCHANGED <<orders, inbox>>
    <3>0. Size \in Nat  BY LotsGrow
    <3>1. Size - hedge.size \in 0 .. Size  BY <1>0, <2>2, <3>0
    <3>2. nextOid \in Oids /\ MaxOids > 0
      BY <2>2, LotsGrow DEF ExchangeTyped, Oids
    <3>3. filled' \subseteq Fills
      BY <2>2, <3>1, <3>2, SizeInLots DEF ExchangeTyped, Fills
    <3>4. pos' \in pos .. pos + Size
      BY <2>2, <3>1, LotsGrow DEF ExchangeTyped
    <3>5. inbox' \in Seq(Fills)  BY <2>2 DEF ExchangeTyped
    <3> QED BY <2>2, <3>3, <3>4, <3>5, LotsBought
  <2> QED BY <1>4, <2>1, <2>2 DEF PartialToppedUp, exchange
<1>5. CASE Closed(t)
  BY <1>0, <1>5, Reduced, LotsGo DEF Closed
<1> QED BY <1>2, <1>3, <1>4, <1>5 DEF EntryFill

LEMMA CycleEndExchange ==
    ASSUME TypeInv, NEW t \in Threads, CycleEnd(t)
    PROVE  ExchangeTyped'
BY ExchangeCalm DEF TypeInv, CycleEnd, SlFillNoted, CycleSaved, CycleNotSaved,
   ExitRecovered, CycleGuessed, SlVanished

LEMMA RescueExchange ==
    ASSUME TypeInv, NEW t \in Threads, Rescue(t)
    PROVE  ExchangeTyped'
<1> USE DEF TypeInv
<1>1. CASE UNCHANGED exchange  BY <1>1, ExchangeCalm
<1>2. CASE EntryRecovered(t) \/ EntryUnfilled(t) \/ RescueDeclined(t)
           \/ RescueLists(t) \/ RescueReads(t)
  BY <1>1, <1>2 DEF EntryRecovered, EntryUnfilled, RescueDeclined,
                    RescueLists, RescueReads
<1>3. CASE RescueConfirms(t) \/ RescueClears(t) \/ IocRefused(t) \/ IocAcked(t)
  BY <1>1, <1>3 DEF RescueConfirms, RescueClears, IocRefused, IocAcked
<1>4. CASE RescueCancels(t)  BY <1>4, OrdersGo DEF RescueCancels
<1>5. CASE IocSent(t)
  <2>1. nextOid \in Oids /\ MaxOids > 0
    BY <1>5, LotsGrow DEF IocSent, ExchangeTyped, Oids
  <2>2. Size \in Lots /\ Size > 0
    <3>1. Size \in 0 .. Size /\ Size > 0  BY LotsGrow
    <3> QED BY <2>1, <3>1, SizeInLots
  <2>3. PICK parts \in PartsOf(Size) :
          pos' = pos + LotsIn(parts) /\ Reported(nextOid, parts)
    BY <1>5 DEF IocSent
  <2>4. /\ LotsIn(parts) \in 1 .. Size /\ filled' \subseteq Fills
        /\ inbox' \in Seq(Fills)
    BY <2>1, <2>2, <2>3, FillsReported
  <2>5. pos' \in pos .. pos + Size
    BY <2>3, <2>4, LotsGrow DEF ExchangeTyped
  <2> QED BY <1>5, <2>4, <2>5, LotsBought DEF IocSent
<1> QED BY <1>2, <1>3, <1>4, <1>5 DEF Rescue

LEMMA MonitorExchange ==
    ASSUME TypeInv, NEW t \in Threads, Monitor(t)
    PROVE  ExchangeTyped'
<1> USE DEF TypeInv
<1>1. CASE UNCHANGED exchange  BY <1>1, ExchangeCalm
<1>2. CASE TickWaits(t) \/ WaitingRetried(t) \/ PositionUnreadable(t)
           \/ PositionGone(t) \/ PositionOversized(t)
  BY <1>1, <1>2 DEF TickWaits, WaitingRetried, PositionUnreadable,
                    PositionGone, PositionOversized
<1>3. CASE EntryChecked(t)
  BY <1>3, Cancelled, OrdersGo DEF EntryChecked
<1>4. CASE PositionSeen(t)
  BY <1>4, Cancelled, OrdersGo DEF PositionSeen
<1>5. CASE PendingSlFound(t) \/ PendingSlBreached(t) \/ PendingSlGrace(t)
           \/ PendingSlRetried(t)
  BY <1>1, <1>5 DEF PendingSlFound, PendingSlBreached, PendingSlGrace,
                    PendingSlRetried
<1>6. CASE ClosingRetried(t) \/ ClosingAwaited(t) \/ ProtectedHolds(t)
           \/ ProtectedLost(t)
  BY <1>1, <1>6 DEF ClosingRetried, ClosingAwaited, ProtectedHolds,
                    ProtectedLost
<1>7. CASE ProtectedBreached(t)
  BY <1>7, Cancelled, OrdersGo DEF ProtectedBreached
<1> QED BY <1>2, <1>3, <1>4, <1>5, <1>6, <1>7 DEF Monitor

LEMMA CancellationExchange ==
    ASSUME TypeInv, NEW t \in Threads, Cancellation(t)
    PROVE  ExchangeTyped'
<1> USE DEF TypeInv
<1>0. run[t].pos \in Lots  BY DEF FramesTyped, Frames
<1>1. CASE UNCHANGED exchange  BY <1>1, ExchangeCalm
<1>2. CASE CancelBegins(t) \/ CancelTick(t) \/ CancelTimedOut(t)
           \/ CancelReads(t) \/ CancelConfirmsOrders(t)
  BY <1>1, <1>2 DEF CancelBegins, CancelTick, CancelTimedOut, CancelReads,
                    CancelConfirmsOrders
<1>3. CASE CancelConfirmsPos(t) \/ CancelDone(t) \/ CancelPostponed(t)
  BY <1>1, <1>3 DEF CancelConfirmsPos, CancelDone, CancelPostponed
<1>4. CASE CancelOrders(t)  BY <1>4, Cancelled, OrdersGo DEF CancelOrders
<1>5. CASE CancelCloses(t)
  BY <1>0, <1>5, Reduced, LotsGo DEF CancelCloses
<1> QED BY <1>2, <1>3, <1>4, <1>5 DEF Cancellation

LEMMA OperationExchange ==
    ASSUME TypeInv, NEW t \in Threads, Operation(t)
    PROVE  ExchangeTyped'
<1> USE DEF TypeInv
<1>1. CASE UNCHANGED exchange  BY <1>1, ExchangeCalm
<1>2. CASE RequestFails(t) \/ EntryTriggered(t)
  BY <1>1, <1>2 DEF RequestFails, EntryTriggered
<1>3. CASE Retargets(t)  BY <1>3, OrdersGo DEF Retargets
<1>4. CASE MovesExit(t)  BY <1>4, OrdersGo DEF MovesExit
<1>5. CASE ExitTriggered(t)
  BY <1>5, Cancelled, OrdersGo DEF ExitTriggered
<1> QED BY <1>2, <1>3, <1>4, <1>5 DEF Operation

\* An entry order that fires turns the lots it kept back into a position.
LEMMA EntryFiresExchange ==
    ASSUME TypeInv, EntryFires
    PROVE  ExchangeTyped'
<1> USE DEF TypeInv
<1>1. PICK o \in orders :
        /\ o.kind = "entry" /\ orders' = orders \ {o}
        /\ nextOid' = nextOid
        /\ \E parts \in PartsOf(o.sz) :
             pos' = pos + LotsIn(parts) /\ Reported(o.oid, parts)
  BY DEF EntryFires
<1>2. o \in Entries /\ o.sz = Size /\ o.oid \in Oids
  BY <1>1 DEF ExchangeTyped, Entries, Orders
<1>3. Size \in Lots /\ Size > 0
  <2>1. MaxOids > 0  BY <1>2, LotsGrow DEF Oids
  <2>2. Size \in 0 .. Size /\ Size > 0  BY LotsGrow
  <2> QED BY <2>1, <2>2, SizeInLots
<1>4. PICK parts \in PartsOf(Size) :
        pos' = pos + LotsIn(parts) /\ Reported(o.oid, parts)
  BY <1>1, <1>2
<1>5. /\ LotsIn(parts) \in 1 .. Size /\ filled' \subseteq Fills
      /\ inbox' \in Seq(Fills)
  BY <1>2, <1>3, <1>4, FillsReported
<1>6. pos' \in Nat /\ pos' <= pos + Size
  BY <1>4, <1>5, LotsGrow DEF ExchangeTyped
<1>7. Entries' = Entries \ {o}  BY <1>1 DEF Entries
<1>8. IsFiniteSet(Entries)  BY FS_Subset DEF ExchangeTyped, Entries
<1>9. /\ Cardinality(Entries) \in Nat /\ Cardinality(Entries') \in Nat
      /\ Cardinality(Entries) = Cardinality(Entries') + 1
  <2>1. Cardinality(Entries \ {o}) = Cardinality(Entries) - 1
    BY <1>2, <1>8, FS_RemoveElement
  <2>2. IsFiniteSet(Entries \ {o})  BY <1>8, FS_RemoveElement
  <2>3. Cardinality(Entries) \in Nat /\ Cardinality(Entries \ {o}) \in Nat
    BY <1>8, <2>2, FS_CardinalityType
  <2> QED BY <1>7, <2>1, <2>3
<1>10. /\ Size * Cardinality(Entries) = Size * Cardinality(Entries') + Size
       /\ Size * Cardinality(Entries') \in Nat
  BY <1>9, LotsGrow
<1>11. nextOid - 1 \in Nat /\ Size * (nextOid - 1) \in Nat
  BY LotsGrow DEF ExchangeTyped
<1>12. pos' + Size * Cardinality(Entries') <= Size * (nextOid' - 1)
  BY <1>1, <1>6, <1>10, <1>11, LotsGrow DEF ExchangeTyped
<1>13. orders' \subseteq Orders /\ IsFiniteSet(orders')
  BY <1>1, FS_Subset DEF ExchangeTyped
<1>14. \A e \in Entries' : e.sz = Size  BY <1>7 DEF ExchangeTyped
<1> QED BY <1>1, <1>5, <1>6, <1>12, <1>13, <1>14 DEF ExchangeTyped

LEMMA StopLossFiresExchange ==
    ASSUME TypeInv, StopLossFires
    PROVE  ExchangeTyped'
<1> USE DEF TypeInv
<1>1. PICK o \in orders :
        /\ orders' = orders \ {o} /\ pos > 0
        /\ nextOid' = nextOid
        /\ \E parts \in PartsOf(IF o.sz < pos THEN o.sz ELSE pos) :
             pos' = pos - LotsIn(parts) /\ Reported(o.oid, parts)
  BY DEF StopLossFires
<1> DEFINE sz == IF o.sz < pos THEN o.sz ELSE pos
<1>2. o.oid \in Oids /\ o.sz \in Nat /\ o.sz > 0
  BY <1>1, LotsGrow DEF ExchangeTyped, Orders
<1>3. sz \in 1 .. pos  BY <1>1, <1>2 DEF ExchangeTyped
<1>4. sz \in Lots /\ sz > 0  BY <1>3, PosInLots DEF ExchangeTyped
<1>5. PICK parts \in PartsOf(sz) :
        pos' = pos - LotsIn(parts) /\ Reported(o.oid, parts)
  BY <1>1
<1> HIDE DEF sz
<1>6. /\ LotsIn(parts) \in 1 .. sz /\ filled' \subseteq Fills
      /\ inbox' \in Seq(Fills)
  BY <1>2, <1>4, <1>5, FillsReported
<1>7. pos' \in 0 .. pos  BY <1>3, <1>5, <1>6 DEF ExchangeTyped
<1> QED BY <1>1, <1>6, <1>7, ExchangeShrinks

LEMMA OutsideExchange ==
    ASSUME TypeInv,
           \/ Exchange \/ FillLost \/ FillArrives \/ PriceArrives
           \/ TickReads \/ TickQueued \/ JobStarts
           \/ (\E kind \in Requests : Requested(kind)) \/ Crash
    PROVE  ExchangeTyped'
<1> USE DEF TypeInv
<1>1. CASE EntryFires  BY <1>1, EntryFiresExchange
<1>2. CASE StopLossFires  BY <1>2, StopLossFiresExchange
<1>3. CASE StopLossLapses  BY <1>3, OrdersGo DEF StopLossLapses
<1>4. CASE ClosedOutside
  BY <1>4, LotsGo DEF ClosedOutside, ExchangeTyped
<1>5. CASE FillLost \/ FillArrives \/ Crash
  <2>1. inbox \in Seq(Fills)  BY DEF ExchangeTyped
  <2>2. inbox # <<>> => Tail(inbox) \in Seq(Fills)  BY <2>1
  <2>3. <<>> \in Seq(Fills)  OBVIOUS
  <2>4. inbox' \in Seq(Fills) /\ UNCHANGED <<orders, pos, filled, nextOid>>
    BY <1>5, <2>2, <2>3 DEF FillLost, FillArrives, Crash
  <2> QED BY <2>4, ExchangeShrinks DEF ExchangeTyped
<1>6. CASE PriceArrives \/ TickReads \/ TickQueued \/ JobStarts
           \/ \E kind \in Requests : Requested(kind)
  BY <1>6, ExchangeCalm DEF PriceArrives, TickReads, TickQueued, JobStarts,
                            Requested
<1> QED BY <1>1, <1>2, <1>3, <1>4, <1>5, <1>6 DEF Exchange

-----------------------------------------------------------------------------
(* The threads.                                                            *)

\* A thread that returns, or goes on elsewhere with what it knows.
LEMMA FrameIdle == Frame("idle") \in Frames /\ Frame("idle").pc = "idle"
<1>1. 0 \in Lots  BY LotsGrow
<1> QED
  BY <1>1 DEF Frame, Frames, NoOrders, Snapshots, Labels, Catchers, Followers

LEMMA FrameMoves ==
    ASSUME FramesTyped, NEW t \in Threads, NEW f \in Frames,
           run' = [run EXCEPT ![t] = f]
    PROVE  FramesTyped'
BY DEF FramesTyped

LEMMA Returned ==
    ASSUME FramesTyped, NEW t \in Threads, Return(t)
    PROVE  FramesTyped'
BY FrameIdle, FrameMoves DEF Return

LEMMA Gone ==
    ASSUME FramesTyped, NEW t \in Threads, NEW p \in Labels, Goto(t, p)
    PROVE  FramesTyped'
<1>1. run[t] \in Frames /\ run' = [run EXCEPT ![t] = [run[t] EXCEPT !.pc = p]]
  BY DEF FramesTyped, Goto
<1>2. [run[t] EXCEPT !.pc = p] \in Frames  BY <1>1 DEF Frames
<1> QED BY <1>1, <1>2, FrameMoves

LEMMA ThrownReturns ==
    ASSUME FramesTyped, NEW t \in Threads, NEW h, Throw(t, h)
    PROVE  FramesTyped'
BY Returned DEF Throw

LEMMA FramesCalm ==
    ASSUME FramesTyped, run' = run
    PROVE  FramesTyped'
BY DEF FramesTyped

LEMMA PlacementFrames ==
    ASSUME TypeInv, NEW t \in Threads, Placement(t)
    PROVE  FramesTyped'
<1> USE DEF TypeInv
<1>0. run[t] \in Frames /\ run \in [Threads -> Frames]  BY DEF FramesTyped
<1>1. CASE PlaceSkipped(t) \/ PlaceAdoptsPosition(t) \/ PlaceAdoptsOrder(t)
           \/ EntryAcked(t) \/ OversizeStops(t)
  BY <1>1, Returned DEF PlaceSkipped, PlaceAdoptsPosition, PlaceAdoptsOrder,
                        EntryAcked, OversizeStops
<1>2. CASE PlaceUnreadable(t) \/ EntryRefused(t)
  BY <1>2, ThrownReturns DEF PlaceUnreadable, EntryRefused
<1>3. CASE PlaceOversized(t)
  BY <1>0, <1>3
  DEF PlaceOversized, FramesTyped, Frames, Labels, Followers
<1>4. CASE PlacePrepares(t)  BY <1>4, Gone DEF Labels, PlacePrepares
<1>5. CASE EntrySent(t)
  <2>1. nextOid \in Oids /\ 0 \in Lots
    BY <1>5, LotsGrow DEF EntrySent, Accepted, ExchangeTyped, Oids
  <2>2. [oid |-> nextOid, sz |-> 0] \in Fills  BY <2>1 DEF Fills
  <2> DEFINE fill == [oid |-> nextOid, sz |-> 0]
  <2>3. run' = [run EXCEPT ![t].pc = "sent", ![t].fill = fill]
    BY <1>5 DEF EntrySent
  <2> HIDE DEF fill
  <2>4. [run[t] EXCEPT !.pc = "sent", !.fill = fill] \in Frames
    BY <1>0, <2>2 DEF Frames, Labels, fill
  <2> QED BY <1>0, <2>3, <2>4 DEF FramesTyped
<1> QED BY <1>1, <1>2, <1>3, <1>4, <1>5 DEF Placement

LEMMA StopLossFrames ==
    ASSUME TypeInv, NEW t \in Threads, StopLoss(t)
    PROVE  FramesTyped'
<1> USE DEF TypeInv
<1>0. run[t] \in Frames /\ run \in [Threads -> Frames]  BY DEF FramesTyped
<1>1. CASE SlWithoutPosition(t) \/ SlRefused(t)
  BY <1>1, ThrownReturns DEF SlWithoutPosition, SlRefused
<1>2. CASE SlSizes(t) \/ SlMissing(t)  BY <1>2, Gone DEF Labels, SlSizes, SlMissing
<1>3. CASE SlReused(t) \/ SlAcked(t)  BY <1>3, Returned DEF SlReused, SlAcked
<1>4. CASE SlSent(t)
  <2>1. nextOid \in Oids /\ 0 \in Lots
    BY <1>4, LotsGrow DEF SlSent, Accepted, ExchangeTyped, Oids
  <2>2. [oid |-> nextOid, sz |-> 0] \in Fills  BY <2>1 DEF Fills
  <2> DEFINE fill == [oid |-> nextOid, sz |-> 0]
  <2>3. run' = [run EXCEPT ![t].pc = "slSent", ![t].fill = fill]
    BY <1>4 DEF SlSent
  <2> HIDE DEF fill
  <2>4. [run[t] EXCEPT !.pc = "slSent", !.fill = fill] \in Frames
    BY <1>0, <2>2 DEF Frames, Labels, fill
  <2> QED BY <1>0, <2>3, <2>4 DEF FramesTyped
<1> QED BY <1>1, <1>2, <1>3, <1>4 DEF StopLoss

LEMMA EntryFillFrames ==
    ASSUME TypeInv, NEW t \in Threads, EntryFill(t)
    PROVE  FramesTyped'
<1> USE DEF TypeInv
<1>0. /\ run[t] \in Frames /\ run \in [Threads -> Frames]
      /\ pos \in Lots
  BY PosInLots DEF FramesTyped
<1>1. CASE EntryFillNoted(t) \/ PartialCancels(t) \/ PartialToppedUp(t)
           \/ EntryFillBreached(t)
  BY <1>1, Gone DEF Labels, EntryFillNoted, PartialCancels, PartialToppedUp,
                    EntryFillBreached
<1>2. CASE EntryFillRead(t)
  <2>1. PICK crossed \in BOOLEAN, p \in {"oversize", "partial", "entryExit"} :
          run' = [run EXCEPT ![t].breached = crossed, ![t].pc = p]
    BY <1>2 DEF EntryFillRead
  <2>2. [run[t] EXCEPT !.breached = crossed, !.pc = p] \in Frames
    BY <1>0 DEF Frames, Labels
  <2> QED BY <1>0, <2>1, <2>2 DEF FramesTyped
<1>3. CASE EntryFillCovered(t)
  BY <1>0, <1>3
  DEF EntryFillCovered, FramesTyped, Frames, Labels, Catchers
<1>4. CASE ExitRead(t)
  <2>1. CASE Return(t)  BY <2>1, Returned
  <2>2. CASE run' = [run EXCEPT ![t].pc = "close", ![t].pos = pos]
    <3>1. [run[t] EXCEPT !.pc = "close", !.pos = pos] \in Frames
      BY <1>0 DEF Frames, Labels
    <3> QED BY <1>0, <2>2, <3>1 DEF FramesTyped
  <2> QED BY <1>4, <2>1, <2>2 DEF ExitRead
<1>5. CASE Closed(t)  BY <1>5, Returned DEF Closed
<1> QED BY <1>1, <1>2, <1>3, <1>4, <1>5 DEF EntryFill

LEMMA CycleEndFrames ==
    ASSUME TypeInv, NEW t \in Threads, CycleEnd(t)
    PROVE  FramesTyped'
<1> USE DEF TypeInv
<1>0. run[t] \in Frames /\ run \in [Threads -> Frames]  BY DEF FramesTyped
<1>1. CASE SlFillNoted(t)  BY <1>1, Gone DEF Labels, SlFillNoted
<1>2. CASE CycleSaved(t)
  <2>1. [run[t] EXCEPT !.pc = "place", !.fill = NoFill, !.snap = NoOrders]
          \in Frames
    <3>1. NoOrders \in Snapshots  BY DEF NoOrders, Snapshots
    <3> HIDE DEF NoOrders
    <3> QED BY <1>0, <3>1 DEF Frames, Labels
  <2> QED BY <1>0, <1>2, <2>1 DEF CycleSaved, FramesTyped
<1>3. CASE CycleNotSaved(t)  BY <1>3, ThrownReturns DEF CycleNotSaved
<1>4. CASE ExitRecovered(t)
  <2>1. PICK f \in Fills :
          run' = [run EXCEPT ![t].pc = "slFill", ![t].fill = f]
    BY <1>4 DEF ExitRecovered, ExchangeTyped
  <2>2. [run[t] EXCEPT !.pc = "slFill", !.fill = f] \in Frames
    BY <1>0 DEF Frames, Labels
  <2> QED BY <1>0, <2>1, <2>2 DEF FramesTyped
<1>5. CASE CycleGuessed(t)
  <2>1. hedge.slOid \in Oids \cup {NoOid} /\ 0 \in Lots
    BY LotsGrow DEF HedgeTyped, Hedges
  <2> DEFINE fill == [oid |-> hedge.slOid, sz |-> 0]
  <2>2. fill \in Fills \cup {NoFill}  BY <2>1 DEF Fills, NoFill
  <2>3. \/ run' = [run EXCEPT ![t].pc = "finalize", ![t].fill = fill]
        \/ run' = [run EXCEPT ![t].pc = "place", ![t].snap = NoOrders]
    BY <1>5 DEF CycleGuessed
  <2> HIDE DEF fill
  <2>4. [run[t] EXCEPT !.pc = "finalize", !.fill = fill] \in Frames
    BY <1>0, <2>2 DEF Frames, Labels
  <2>5. [run[t] EXCEPT !.pc = "place", !.snap = NoOrders] \in Frames
    <3>1. NoOrders \in Snapshots  BY DEF NoOrders, Snapshots
    <3> HIDE DEF NoOrders
    <3> QED BY <1>0, <3>1 DEF Frames, Labels
  <2> QED BY <1>0, <2>3, <2>4, <2>5 DEF FramesTyped
<1>6. CASE SlVanished(t)
  BY <1>0, <1>6 DEF SlVanished, FramesTyped, Frames, Labels, Catchers
<1> QED BY <1>1, <1>2, <1>3, <1>4, <1>5, <1>6 DEF CycleEnd

LEMMA RescueFrames ==
    ASSUME TypeInv, NEW t \in Threads, Rescue(t)
    PROVE  FramesTyped'
<1> USE DEF TypeInv
<1>0. /\ run[t] \in Frames /\ run \in [Threads -> Frames]
      /\ hedge.entryOid \in Oids \cup {NoOid} /\ 0 \in Lots
  BY LotsGrow DEF FramesTyped, HedgeTyped, Hedges
<1> DEFINE gone == [oid |-> hedge.entryOid, sz |-> 0]
<1>a. gone \in Fills \cup {NoFill}  BY <1>0 DEF Fills, NoFill
<1> HIDE DEF gone
<1>b. CASE Return(t)  BY <1>b, Returned
<1>c. ASSUME NEW p \in Labels, NEW n \in Followers,
             run' = [run EXCEPT ![t].pc = p, ![t].then = n]
      PROVE  FramesTyped'
  <2>1. [run[t] EXCEPT !.pc = p, !.then = n] \in Frames  BY <1>0 DEF Frames
  <2> QED BY <1>0, <1>c, <2>1 DEF FramesTyped
<1>d. ASSUME NEW p \in Labels, NEW n \in Followers,
             run' = [run EXCEPT ![t].then = n, ![t].pc = p]
      PROVE  FramesTyped'
  <2>1. [run[t] EXCEPT !.then = n, !.pc = p] \in Frames  BY <1>0 DEF Frames
  <2> QED BY <1>0, <1>d, <2>1 DEF FramesTyped
<1>e. ASSUME NEW p \in Labels, NEW f \in Fills \cup {NoFill},
             run' = [run EXCEPT ![t].pc = p, ![t].fill = f]
      PROVE  FramesTyped'
  <2>1. [run[t] EXCEPT !.pc = p, !.fill = f] \in Frames  BY <1>0 DEF Frames
  <2> QED BY <1>0, <1>e, <2>1 DEF FramesTyped
<1>f. CASE FoundOpen(t)
  BY <1>c, <1>f DEF FoundOpen, Labels, Followers
<1>1. CASE EntryRecovered(t)
  <2>1. \A f \in filled : f \in Fills \cup {NoFill}  BY DEF ExchangeTyped
  <2>2. PICK p \in Labels, f \in Fills \cup {NoFill} :
          run' = [run EXCEPT ![t].pc = p, ![t].fill = f]
    BY <1>1, <1>a, <2>1 DEF EntryRecovered, Labels, gone
  <2> QED BY <1>e, <2>2
<1>2. CASE EntryUnfilled(t)
  BY <1>2, <1>b, Gone DEF EntryUnfilled, Labels
<1>3. CASE RescueDeclined(t)  BY <1>3, <1>b DEF RescueDeclined
<1>4. CASE RescueLists(t)
  <2> DEFINE listed == IF run[t].then = "listed" THEN run[t].snap
                       ELSE [ok |-> TRUE, seen |-> orders]
  <2>1. listed \in Snapshots
    BY <1>0 DEF Frames, Snapshots, ExchangeTyped
  <2>2. run' = [run EXCEPT ![t].pc = "rescueRead", ![t].snap = listed]
    BY <1>0, <1>4 DEF RescueLists
  <2> HIDE DEF listed
  <2>3. [run[t] EXCEPT !.pc = "rescueRead", !.snap = listed] \in Frames
    BY <1>0, <2>1 DEF Frames, Labels
  <2> QED BY <1>0, <2>2, <2>3 DEF FramesTyped
<1>5. CASE RescueReads(t)
  <2>1. \/ FoundOpen(t)
        \/ Return(t)
        \/ \E p \in Labels, n \in Followers :
             run' = [run EXCEPT ![t].then = n, ![t].pc = p]
    BY <1>5 DEF RescueReads, Labels, Followers
  <2> QED BY <1>b, <1>d, <1>f, <2>1
<1>6. CASE RescueCancels(t)
  BY <1>6, <1>b, Gone DEF RescueCancels, Labels
<1>7. CASE RescueConfirms(t)
  BY <1>7, <1>b, <1>f, Gone DEF RescueConfirms, Labels
<1>8. CASE RescueClears(t)
  <2>1. \/ FoundOpen(t)
        \/ Return(t)
        \/ run' = [run EXCEPT ![t].pc = "iocSend", ![t].fill = gone]
    BY <1>8 DEF RescueClears, gone
  <2> QED BY <1>a, <1>b, <1>e, <1>f, <2>1 DEF Labels
<1>9. CASE IocSent(t)
  <2>1. nextOid \in Oids
    BY <1>9, LotsGrow DEF IocSent, ExchangeTyped, Oids
  <2> DEFINE fill == [oid |-> nextOid, sz |-> 0]
  <2>2. fill \in Fills \cup {NoFill}  BY <1>0, <2>1 DEF Fills
  <2>3. run' = [run EXCEPT ![t].pc = "iocSent", ![t].fill = fill]
    BY <1>9 DEF IocSent
  <2> HIDE DEF fill
  <2> QED BY <1>e, <2>2, <2>3 DEF Labels
<1>10. CASE IocRefused(t) \/ IocAcked(t)
  BY <1>10, <1>b DEF IocRefused, IocAcked
<1> QED
  BY <1>1, <1>2, <1>3, <1>4, <1>5, <1>6, <1>7, <1>8, <1>9, <1>10 DEF Rescue

LEMMA MonitorFrames ==
    ASSUME TypeInv, NEW t \in Threads, Monitor(t)
    PROVE  FramesTyped'
<1> USE DEF TypeInv
<1>0. /\ run[t] \in Frames /\ run \in [Threads -> Frames]
      /\ hedge.size \in Lots /\ pos \in Lots
  BY PosInLots DEF FramesTyped, HedgeTyped, Hedges
<1>b. CASE Return(t)  BY <1>b, Returned
<1>c. ASSUME NEW p \in Labels, NEW n \in Followers,
             run' = [run EXCEPT ![t].pc = p, ![t].then = n]
      PROVE  FramesTyped'
  <2>1. [run[t] EXCEPT !.pc = p, !.then = n] \in Frames  BY <1>0 DEF Frames
  <2> QED BY <1>0, <1>c, <2>1 DEF FramesTyped
<1>d. ASSUME NEW p \in Labels, NEW c \in Catchers,
             run' = [run EXCEPT ![t].pc = p, ![t].onThrow = c]
      PROVE  FramesTyped'
  <2>1. [run[t] EXCEPT !.pc = p, !.onThrow = c] \in Frames  BY <1>0 DEF Frames
  <2> QED BY <1>0, <1>d, <2>1 DEF FramesTyped
<1>e. ASSUME NEW n \in Lots,
             run' = [run EXCEPT ![t].pc = "close", ![t].pos = n]
      PROVE  FramesTyped'
  <2>1. [run[t] EXCEPT !.pc = "close", !.pos = n] \in Frames
    BY <1>0 DEF Frames, Labels
  <2> QED BY <1>0, <1>e, <2>1 DEF FramesTyped
<1>1. CASE TickWaits(t) \/ PositionUnreadable(t) \/ PendingSlFound(t)
           \/ PendingSlGrace(t) \/ ClosingAwaited(t) \/ ProtectedHolds(t)
  BY <1>1, <1>b DEF TickWaits, PositionUnreadable, PendingSlFound,
                    PendingSlGrace, ClosingAwaited, ProtectedHolds
<1>2. CASE WaitingRetried(t)
  BY <1>2, <1>d DEF WaitingRetried, Labels, Catchers
<1>3. CASE EntryChecked(t)
  <2> DEFINE snap == run[t].snap
             next(oid) == IF oid = NoOid THEN "place"
                          ELSE IF snap.ok /\ ~Lists(snap, oid)
                               THEN "entryFills"
                          ELSE IF snap.ok THEN "rescue"
                          ELSE "idle"
             follower(oid) == IF next(oid) = "rescue"
                              THEN "listed" ELSE "replace"
  <2>1. PICK kept : IF next(kept) = "idle" THEN Return(t)
                    ELSE run' = [run EXCEPT ![t].pc = next(kept),
                                            ![t].then = follower(kept)]
    BY <1>3 DEF EntryChecked
  <2>2. next(kept) \in Labels /\ follower(kept) \in Followers
    BY DEF Labels, Followers
  <2> HIDE DEF next, follower
  <2> QED BY <1>b, <1>c, <2>1, <2>2
<1>4. CASE PositionGone(t)
  BY <1>4, <1>c DEF PositionGone, Labels, Followers
<1>5. CASE PositionOversized(t) \/ PositionSeen(t)
  BY <1>5, Gone DEF PositionOversized, PositionSeen, Labels
<1>6. CASE PendingSlBreached(t)
  BY <1>0, <1>6, <1>e DEF PendingSlBreached
<1>7. CASE PendingSlRetried(t)
  BY <1>7, <1>b, <1>d DEF PendingSlRetried, Labels, Catchers
<1>8. CASE ClosingRetried(t)
  <2>1. [run[t] EXCEPT !.pc = "close", !.pos = pos, !.then = "save"] \in Frames
    BY <1>0 DEF Frames, Labels, Followers
  <2> QED BY <1>0, <1>8, <2>1 DEF ClosingRetried, FramesTyped
<1>9. CASE ProtectedBreached(t)
  BY <1>0, <1>9, <1>e DEF ProtectedBreached
<1>10. CASE ProtectedLost(t)
  BY <1>10, <1>c DEF ProtectedLost, Labels, Followers
<1> QED
  BY <1>1, <1>2, <1>3, <1>4, <1>5, <1>6, <1>7, <1>8, <1>9, <1>10 DEF Monitor

LEMMA CancellationFrames ==
    ASSUME TypeInv, NEW t \in Threads, Cancellation(t)
    PROVE  FramesTyped'
<1> USE DEF TypeInv
<1>0. run[t] \in Frames /\ run \in [Threads -> Frames]  BY DEF FramesTyped
<1>1. CASE CancelTimedOut(t) \/ CancelDone(t) \/ CancelPostponed(t)
  BY <1>1, Returned DEF CancelTimedOut, CancelDone, CancelPostponed
<1>2. CASE CancelBegins(t) \/ CancelTick(t) \/ CancelOrders(t)
           \/ CancelCloses(t) \/ CancelConfirmsOrders(t)
           \/ CancelConfirmsPos(t)
  BY <1>2, Gone
  DEF CancelBegins, CancelTick, CancelOrders, CancelCloses,
      CancelConfirmsOrders, CancelConfirmsPos, Labels
<1>3. CASE CancelReads(t)
  <2>1. PICK seen \in {orders, {}}, read \in {pos, 0} :
          run' = [run EXCEPT ![t].pc = "cancelOrders", ![t].pos = read,
                             ![t].snap = [ok |-> TRUE, seen |-> seen]]
    BY <1>3 DEF CancelReads
  <2>2. read \in Lots  BY PosInLots, LotsGrow
  <2> DEFINE snap == [ok |-> TRUE, seen |-> seen]
  <2>3. snap \in Snapshots  BY DEF Snapshots, ExchangeTyped
  <2> HIDE DEF snap
  <2>4. [run[t] EXCEPT !.pc = "cancelOrders", !.pos = read, !.snap = snap]
          \in Frames
    BY <1>0, <2>2, <2>3 DEF Frames, Labels
  <2> QED BY <1>0, <2>1, <2>4 DEF FramesTyped, snap
<1> QED BY <1>1, <1>2, <1>3 DEF Cancellation

LEMMA OperationFrames ==
    ASSUME TypeInv, NEW t \in Threads, Operation(t)
    PROVE  FramesTyped'
<1> USE DEF TypeInv
<1>0. run[t] \in Frames /\ run \in [Threads -> Frames]  BY DEF FramesTyped
<1>1. CASE Retargets(t)  BY <1>1, Gone DEF Retargets, Labels
<1>2. CASE MovesExit(t)  BY <1>2, Gone, Returned DEF MovesExit, Labels
<1>3. CASE RequestFails(t)  BY <1>3, Returned DEF RequestFails
<1>4. CASE EntryTriggered(t)
  <2>1. [run[t] EXCEPT !.pc = "rescue", !.then = "unlisted"] \in Frames
    BY <1>0 DEF Frames, Labels, Followers
  <2>2. \/ Return(t)
        \/ run' = [run EXCEPT ![t].pc = "rescue", ![t].then = "unlisted"]
    BY <1>4 DEF EntryTriggered
  <2> QED BY <1>0, <2>1, <2>2, Returned DEF FramesTyped
<1>5. CASE ExitTriggered(t)
  BY <1>5, Gone, Returned DEF ExitTriggered, Labels
<1> QED BY <1>1, <1>2, <1>3, <1>4, <1>5 DEF Operation

\* The monitor has a handler for every status but the final ones.
LEMMA TickHandlers ==
    TickPc = [s \in Statuses |->
                CASE s = "cancel_pending" -> "cancelTick"
                  [] s = "waiting" -> "waitingTick"
                  [] s = "entry_pending" -> "entryTick"
                  [] s = "entry_filled_pending_sl" -> "pendingSlTick"
                  [] s = "closing" -> "closingTick"
                  [] s = "open_protected" -> "protectedTick"
                  [] OTHER -> "idle"]
BY DEF TickPc, Handled, Handlers, Statuses

\* What the worker starts with is what the job brings.
LEMMA JobStartsFrame ==
    ASSUME TypeInv, JobStarts
    PROVE  \E f \in Frames :
             /\ run' = [run EXCEPT !["worker"] = f]
             /\ f.pc = IF Head(queue).kind = "tick" THEN TickPc[hedge.status]
                                                    ELSE Head(queue).kind
             /\ Head(queue) \in Jobs
<1> USE DEF TypeInv
<1> DEFINE job == Head(queue)
           pc == IF job.kind = "tick" THEN TickPc[hedge.status] ELSE job.kind
           snap == ListAtHand(job)
           f == [Frame(pc) EXCEPT
                   !.fill = job.fill, !.snap = snap,
                   !.onThrow = IF job.kind \in CaughtAsError
                               THEN "error" ELSE "log"]
<1>1. job \in Jobs  BY DEF JobStarts, QueueTyped
<1>2. job.fill \in Fills \cup {NoFill}  BY <1>1 DEF Jobs, NoFill
<1>3. snap \in Snapshots
  <2>1. job.snap \in Snapshots  BY <1>1 DEF Jobs
  <2>2. [job.snap EXCEPT !.seen = orders] \in Snapshots
    BY <2>1 DEF Snapshots, ExchangeTyped
  <2> QED BY <2>1, <2>2 DEF ListAtHand
<1>4. hedge.status \in Statuses  BY DEF HedgeTyped, Hedges
<1>5. pc \in Labels
  <2>1. TickPc[hedge.status] \in Labels
    BY <1>4, TickHandlers DEF Statuses, Labels
  <2>2. job.kind # "tick" => job.kind \in Labels
    BY <1>1 DEF Jobs, UserJobs, Labels
  <2> QED BY <2>1, <2>2
<1>6. run' = [run EXCEPT !["worker"] =
                IF pc = "idle" THEN Frame("idle") ELSE f]
  BY DEF JobStarts
<1> HIDE DEF snap, pc
<1>7. 0 \in Lots  BY LotsGrow
<1>8. f \in Frames /\ f.pc = pc
  <2>1. Frame(pc) \in Frames /\ Frame(pc).pc = pc
    BY <1>5, <1>7 DEF Frame, Frames, NoOrders, Snapshots, Catchers, Followers
  <2> QED BY <1>2, <1>3, <2>1 DEF Frames, Catchers
<1> HIDE DEF f
<1>9. CASE pc = "idle"
  <2>1. run' = [run EXCEPT !["worker"] = Frame("idle")]  BY <1>6, <1>9
  <2>2. Frame("idle") \in Frames /\ Frame("idle").pc = pc  BY <1>9, FrameIdle
  <2> QED BY <1>1, <2>1, <2>2 DEF pc
<1>10. CASE pc # "idle"
  <2>1. run' = [run EXCEPT !["worker"] = f]  BY <1>6, <1>10
  <2> QED BY <1>1, <1>8, <2>1 DEF pc
<1> QED BY <1>9, <1>10

LEMMA OutsideFrames ==
    ASSUME TypeInv,
           \/ Exchange \/ FillLost \/ FillArrives \/ PriceArrives
           \/ TickReads \/ TickQueued \/ JobStarts
           \/ (\E kind \in Requests : Requested(kind)) \/ Crash
    PROVE  FramesTyped'
<1> USE DEF TypeInv
<1>1. CASE JobStarts
  BY <1>1, JobStartsFrame, FrameMoves DEF Threads
<1>2. CASE Crash  BY <1>2, FrameIdle DEF Crash, FramesTyped
<1>3. CASE Exchange
  BY <1>3, FramesCalm DEF Exchange, EntryFires, StopLossFires, StopLossLapses,
                          ClosedOutside
<1>4. CASE FillLost \/ FillArrives \/ PriceArrives \/ TickReads
  BY <1>4, FramesCalm DEF FillLost, FillArrives, PriceArrives, TickReads
<1>5. CASE TickQueued \/ \E kind \in Requests : Requested(kind)
  BY <1>5, FramesCalm DEF TickQueued, Requested
<1> QED BY <1>1, <1>2, <1>3, <1>4, <1>5

-----------------------------------------------------------------------------
(* The queue and the list of a tick.                                       *)

LEMMA JobTyped ==
    \A kind \in {"tick", "entryFill", "slFill", "entryTrigger", "exitTrigger"}
                \cup UserJobs :
        /\ Job(kind) \in Jobs
        /\ \A fill \in Fills : [Job(kind) EXCEPT !.fill = fill] \in Jobs
        /\ \A snap \in Snapshots : [Job(kind) EXCEPT !.snap = snap] \in Jobs
<1>1. NoOrders \in Snapshots  BY DEF NoOrders, Snapshots
<1>2. NoFill \in Fills \cup {[oid |-> NoOid, sz |-> 0]}  BY DEF NoFill
<1> HIDE DEF NoOrders, NoFill
<1> QED BY <1>1, <1>2 DEF Job, Jobs

LEMMA Enqueued ==
    ASSUME QueueTyped, NEW job \in Jobs, Enqueue(job)
    PROVE  queue' \in Seq(Jobs)
BY DEF QueueTyped, Enqueue

LEMMA QueueCalm ==
    ASSUME QueueTyped, UNCHANGED <<queue, tick>>
    PROVE  QueueTyped'
BY DEF QueueTyped

LEMMA PlacementQueue ==
    ASSUME NEW t \in Threads, Placement(t) \/ StopLoss(t) \/ EntryFill(t)
    PROVE  UNCHANGED <<queue, tick>>
BY DEF Placement, PlaceSkipped, PlaceUnreadable, PlaceOversized,
       PlaceAdoptsPosition, PlaceAdoptsOrder, PlacePrepares, EntrySent,
       EntryRefused, EntryAcked, OversizeStops, StopLoss, SlWithoutPosition,
       SlSizes, SlReused, SlMissing, SlSent, SlRefused, SlAcked, EntryFill,
       EntryFillNoted, EntryFillRead, PartialCancels, PartialToppedUp,
       EntryFillBreached, EntryFillCovered, ExitRead, Closed

LEMMA RescueQueue ==
    ASSUME NEW t \in Threads, CycleEnd(t) \/ Rescue(t) \/ Operation(t)
    PROVE  UNCHANGED <<queue, tick>>
BY DEF CycleEnd, SlFillNoted, CycleSaved, CycleNotSaved, ExitRecovered,
       CycleGuessed, SlVanished, Rescue, EntryRecovered, EntryUnfilled,
       RescueDeclined, RescueLists, RescueReads, RescueCancels,
       RescueConfirms, RescueClears, IocSent, IocRefused, IocAcked,
       Operation, Retargets, MovesExit, RequestFails, EntryTriggered,
       ExitTriggered

LEMMA MonitorQueue ==
    ASSUME NEW t \in Threads, Monitor(t) \/ Cancellation(t)
    PROVE  UNCHANGED <<queue, tick>>
BY DEF Monitor, TickWaits, WaitingRetried, EntryChecked, PositionUnreadable,
       PositionGone, PositionOversized, PositionSeen, PendingSlFound,
       PendingSlBreached, PendingSlGrace, PendingSlRetried, ClosingRetried,
       ClosingAwaited, ProtectedBreached, ProtectedHolds, ProtectedLost,
       Cancellation, CancelBegins, CancelTick, CancelTimedOut, CancelReads,
       CancelOrders, CancelCloses, CancelConfirmsOrders, CancelConfirmsPos,
       CancelDone, CancelPostponed

\* No thread touches the queue.
LEMMA RunsQueue ==
    ASSUME NEW t \in Threads, Runs(t)
    PROVE  UNCHANGED <<queue, tick>>
BY PlacementQueue, RescueQueue, MonitorQueue DEF Runs

LEMMA OutsideQueue ==
    ASSUME TypeInv,
           \/ Exchange \/ FillLost \/ FillArrives \/ PriceArrives
           \/ TickReads \/ TickQueued \/ JobStarts
           \/ (\E kind \in Requests : Requested(kind)) \/ Crash
    PROVE  QueueTyped'
<1> USE DEF TypeInv
<1>0. queue \in Seq(Jobs) /\ tick \in Ticks  BY DEF QueueTyped
<1>1. CASE Exchange \/ FillLost
  BY <1>1, QueueCalm DEF Exchange, EntryFires, StopLossFires, StopLossLapses,
                         ClosedOutside, FillLost
<1>2. CASE FillArrives
  <2>1. Head(inbox) \in Fills  BY <1>2 DEF FillArrives, ExchangeTyped
  <2> DEFINE fill == Head(inbox)
  <2>2. \/ queue' = queue
        \/ \E kind \in FillMatches(fill) :
             Enqueue([Job(kind) EXCEPT !.fill = fill])
    BY <1>2, Zenon DEF FillArrives
  <2>3. FillMatches(fill) \subseteq {"entryFill", "slFill"}
    BY DEF FillMatches
  <2> HIDE DEF fill
  <2>4. queue' \in Seq(Jobs)  BY <1>0, <2>1, <2>2, <2>3, JobTyped, Enqueued DEF fill
  <2> QED BY <1>0, <1>2, <2>4 DEF FillArrives, QueueTyped
<1>3. CASE PriceArrives
  <2>1. queue' \in Seq(Jobs)  BY <1>3, JobTyped, Enqueued DEF PriceArrives
  <2> QED BY <1>0, <1>3, <2>1 DEF PriceArrives, QueueTyped
<1>4. CASE TickReads
  <2>1. [ok |-> TRUE, seen |-> orders, on |-> TRUE] \in Ticks
    BY DEF Ticks, ExchangeTyped
  <2>2. [NoTick EXCEPT !.on = TRUE] \in Ticks  BY DEF NoTick, Ticks
  <2>3. \/ tick' = [ok |-> TRUE, seen |-> orders, on |-> TRUE]
        \/ tick' = [NoTick EXCEPT !.on = TRUE]
    BY <1>4 DEF TickReads
  <2>4. tick' \in Ticks  BY <2>1, <2>2, <2>3
  <2> QED BY <1>0, <1>4, <2>4 DEF TickReads, QueueTyped
<1>5. CASE TickQueued
  <2> DEFINE snap == [ok |-> tick.ok, seen |-> tick.seen]
  <2>1. snap \in Snapshots  BY <1>0 DEF Ticks, Snapshots
  <2>2. Enqueue([Job("tick") EXCEPT !.snap = snap])  BY <1>5 DEF TickQueued
  <2> HIDE DEF snap
  <2>3. queue' \in Seq(Jobs)  BY <2>1, <2>2, JobTyped, Enqueued
  <2>4. tick' \in Ticks  BY <1>5 DEF TickQueued, NoTick, Ticks
  <2> QED BY <2>3, <2>4 DEF QueueTyped
<1>6. CASE JobStarts
  BY <1>0, <1>6 DEF JobStarts, QueueTyped
<1>7. CASE \E kind \in Requests : Requested(kind)
  <2>1. Requests \subseteq UserJobs  BY HedgeAssumption DEF HedgeAssumption
  <2>2. queue' \in Seq(Jobs) /\ tick' = tick
    BY <1>7, <2>1, JobTyped, Enqueued DEF Requested
  <2> QED BY <1>0, <2>2 DEF QueueTyped
<1>8. CASE Crash
  BY <1>8 DEF Crash, NoTick, Ticks, QueueTyped
<1> QED BY <1>1, <1>2, <1>3, <1>4, <1>5, <1>6, <1>7, <1>8

-----------------------------------------------------------------------------
(* Who moves, and where to.                                                *)


LEMMA SavedHedge ==
    ASSUME NEW h, Save(h)
    PROVE  hedge' = h
BY DEF Save

\* An exception leaves the hedge as it was, or in a status that calls for
\* help; the thread returns.
LEMMA ThrownHedge ==
    ASSUME NEW h \in Hedges, NEW t \in Threads, Throw(t, h), FramesTyped
    PROVE  /\ hedge'.status \in {h.status, "error", "entry_filled_pending_sl"}
           /\ hedge'.size = h.size
           /\ run' = [run EXCEPT ![t] = Frame("idle")]
<1> DEFINE tries == h.entryRetry + 1
           spent == tries >= MaxEntryRetries
           g == [h EXCEPT !.entryRetry = tries,
                          !.status = IF spent THEN "error" ELSE @]
<1>1. \/ hedge' = [h EXCEPT !.status = "error"]
      \/ hedge' = h
      \/ hedge' = [h EXCEPT !.status = "entry_filled_pending_sl"]
      \/ hedge' = g
  BY SavedHedge DEF Throw
<1>2. run' = [run EXCEPT ![t] = Frame("idle")]  BY DEF Throw, Return
<1> HIDE DEF tries, spent
<1>3. g.status \in {h.status, "error"} /\ g.size = h.size  BY DEF Hedges
<1>4. /\ [h EXCEPT !.status = "error"].status = "error"
      /\ [h EXCEPT !.status = "error"].size = h.size
      /\ [h EXCEPT !.status = "entry_filled_pending_sl"].status =
           "entry_filled_pending_sl"
      /\ [h EXCEPT !.status = "entry_filled_pending_sl"].size = h.size
  BY DEF Hedges
<1> HIDE DEF g
<1> QED BY <1>1, <1>2, <1>3, <1>4

\* Where no thread comes from elsewhere.
Apart == {"placing", "cancel", "slOrders", "slSend"} \cup CancelPcs

\* The other thread stays where it is.
Moves(t, places) ==
    /\ run' \in [Threads -> Frames]
    /\ run'[t].pc \notin places
    /\ \A u \in Threads : u # t => run'[u] = run[u]

LEMMA ReturnMoves ==
    ASSUME FramesTyped, NEW t \in Threads, Return(t)
    PROVE  Moves(t, Apart) /\ run'[t].pc = "idle"
<1>1. FramesTyped'  BY Returned
<1>2. run'[t] = Frame("idle") /\ \A u \in Threads : u # t => run'[u] = run[u]
  BY DEF Return, FramesTyped
<1> QED BY <1>1, <1>2, FrameIdle DEF Moves, Apart, CancelPcs, FramesTyped

LEMMA GotoMoves ==
    ASSUME FramesTyped, NEW t \in Threads, NEW p \in Labels, Goto(t, p)
    PROVE  /\ run' \in [Threads -> Frames] /\ run'[t].pc = p
           /\ \A u \in Threads : u # t => run'[u] = run[u]
<1>1. FramesTyped'  BY Gone
<1>2. run'[t].pc = p /\ \A u \in Threads : u # t => run'[u] = run[u]
  BY DEF Goto, FramesTyped, Frames
<1> QED BY <1>1, <1>2 DEF FramesTyped

LEMMA PlacementMoves ==
    ASSUME TypeInv, NEW t \in Threads, Placement(t)
    PROVE  /\ Moves(t, Apart)
           /\ run'[t].pc \in {"idle", "oversize", "send", "sent"}
<1> USE DEF TypeInv
<1>0. FramesTyped'  BY PlacementFrames
<1>1. CASE Return(t)  BY <1>1, ReturnMoves
<1>2. CASE PlaceSkipped(t) \/ PlaceAdoptsPosition(t) \/ PlaceAdoptsOrder(t)
           \/ EntryAcked(t) \/ OversizeStops(t)
  BY <1>1, <1>2 DEF PlaceSkipped, PlaceAdoptsPosition, PlaceAdoptsOrder,
                    EntryAcked, OversizeStops
<1>3. CASE PlaceUnreadable(t) \/ EntryRefused(t)
  BY <1>1, <1>3 DEF PlaceUnreadable, EntryRefused, Throw
<1>4. CASE PlaceOversized(t) \/ PlacePrepares(t) \/ EntrySent(t)
  <2>1. /\ run'[t].pc \in {"oversize", "send", "sent"}
        /\ \A u \in Threads : u # t => run'[u] = run[u]
    BY <1>4 DEF PlaceOversized, PlacePrepares, EntrySent, Goto, FramesTyped,
                Frames
  <2> QED BY <1>0, <2>1 DEF Moves, Apart, CancelPcs, FramesTyped
<1> QED BY <1>2, <1>3, <1>4 DEF Placement

LEMMA StopLossMoves ==
    ASSUME TypeInv, NEW t \in Threads, StopLoss(t)
    PROVE  /\ Moves(t, {"placing", "cancel"} \cup CancelPcs)
           /\ run'[t].pc \in {"slOrders", "slSend"} =>
                SlSizes(t) \/ SlMissing(t)
<1> USE DEF TypeInv
<1>0. FramesTyped'  BY StopLossFrames
<1>1. CASE Return(t)
  BY <1>1, ReturnMoves DEF Moves, Apart
<1>2. CASE SlWithoutPosition(t) \/ SlRefused(t) \/ SlReused(t) \/ SlAcked(t)
  BY <1>1, <1>2 DEF SlWithoutPosition, SlRefused, SlReused, SlAcked, Throw
<1>3. CASE SlSizes(t) \/ SlMissing(t)
  <2>1. Goto(t, "slOrders") \/ Goto(t, "slSend")
    BY <1>3 DEF SlSizes, SlMissing
  <2>2. /\ run'[t].pc \in {"slOrders", "slSend"}
        /\ \A u \in Threads : u # t => run'[u] = run[u]
    BY <2>1 DEF Goto, FramesTyped, Frames
  <2> QED BY <1>0, <1>3, <2>2 DEF Moves, CancelPcs, FramesTyped
<1>4. CASE SlSent(t)
  <2>1. /\ run'[t].pc = "slSent"
        /\ \A u \in Threads : u # t => run'[u] = run[u]
    BY <1>4 DEF SlSent, FramesTyped, Frames
  <2> QED BY <1>0, <2>1 DEF Moves, CancelPcs, FramesTyped
<1> QED BY <1>2, <1>3, <1>4 DEF StopLoss

LEMMA EntryFillMoves ==
    ASSUME TypeInv, NEW t \in Threads, EntryFill(t)
    PROVE  Moves(t, Apart)
<1> USE DEF TypeInv
<1>0. FramesTyped'  BY EntryFillFrames
<1>1. CASE Return(t)  BY <1>1, ReturnMoves
<1>a. CASE /\ run'[t].pc \notin Apart
           /\ \A u \in Threads : u # t => run'[u] = run[u]
  BY <1>0, <1>a DEF Moves, FramesTyped
<1>2. CASE EntryFillNoted(t) \/ PartialCancels(t) \/ PartialToppedUp(t)
           \/ EntryFillBreached(t)
  <2>1. \/ Goto(t, "entryRead") \/ Goto(t, "entryExit") \/ Goto(t, "topup")
        \/ Goto(t, "exitRead")
    BY <1>2 DEF EntryFillNoted, PartialCancels, PartialToppedUp,
                EntryFillBreached
  <2> QED BY <1>a, <2>1 DEF Goto, FramesTyped, Frames, Apart, CancelPcs
<1>5. CASE EntryFillRead(t)
  <2>1. PICK crossed \in BOOLEAN, p \in {"oversize", "partial", "entryExit"} :
          run' = [run EXCEPT ![t].breached = crossed, ![t].pc = p]
    BY <1>5 DEF EntryFillRead
  <2> QED BY <1>a, <2>1 DEF FramesTyped, Frames, Apart, CancelPcs
<1>6. CASE EntryFillCovered(t)
  BY <1>6, <1>a DEF EntryFillCovered, FramesTyped, Frames, Apart, CancelPcs
<1>3. CASE ExitRead(t)
  <2>1. CASE run' = [run EXCEPT ![t].pc = "close", ![t].pos = pos]
    <3>1. /\ run'[t].pc = "close"
          /\ \A u \in Threads : u # t => run'[u] = run[u]
      BY <2>1 DEF FramesTyped, Frames
    <3> QED BY <1>0, <3>1 DEF Moves, FramesTyped, Apart, CancelPcs
  <2> QED BY <1>1, <1>3, <2>1 DEF ExitRead
<1>4. CASE Closed(t)  BY <1>1, <1>4 DEF Closed
<1> QED BY <1>2, <1>3, <1>4, <1>5, <1>6 DEF EntryFill

LEMMA CycleEndMoves ==
    ASSUME TypeInv, NEW t \in Threads, CycleEnd(t)
    PROVE  Moves(t, Apart)
<1> USE DEF TypeInv
<1>0. FramesTyped'  BY CycleEndFrames
<1>1. CASE CycleNotSaved(t)  BY <1>1, ReturnMoves DEF CycleNotSaved, Throw
<1>a. CASE /\ run'[t].pc \notin Apart
           /\ \A u \in Threads : u # t => run'[u] = run[u]
  BY <1>0, <1>a DEF Moves, FramesTyped
<1>2. CASE SlFillNoted(t)
  BY <1>2, <1>a DEF SlFillNoted, Goto, FramesTyped, Frames, Apart, CancelPcs
<1>3. CASE CycleSaved(t)
  <2>1. run' = [run EXCEPT ![t].pc = "place", ![t].fill = NoFill,
                           ![t].snap = NoOrders]
    BY <1>3 DEF CycleSaved
  <2> QED BY <1>a, <2>1 DEF FramesTyped, Frames, Apart, CancelPcs
<1>4. CASE ExitRecovered(t)
  <2>1. PICK f : run' = [run EXCEPT ![t].pc = "slFill", ![t].fill = f]
    BY <1>4 DEF ExitRecovered
  <2> QED BY <1>a, <2>1 DEF FramesTyped, Frames, Apart, CancelPcs
<1>5. CASE CycleGuessed(t)
  <2> DEFINE fill == [oid |-> hedge.slOid, sz |-> 0]
  <2>1. \/ run' = [run EXCEPT ![t].pc = "finalize", ![t].fill = fill]
        \/ run' = [run EXCEPT ![t].pc = "place", ![t].snap = NoOrders]
    BY <1>5 DEF CycleGuessed
  <2> HIDE DEF fill
  <2> QED BY <1>a, <2>1 DEF FramesTyped, Frames, Apart, CancelPcs
<1>6. CASE SlVanished(t)
  BY <1>6, <1>a DEF SlVanished, FramesTyped, Frames, Apart, CancelPcs
<1> QED BY <1>1, <1>2, <1>3, <1>4, <1>5, <1>6 DEF CycleEnd

LEMMA RescueMoves ==
    ASSUME TypeInv, NEW t \in Threads, Rescue(t)
    PROVE  Moves(t, Apart)
<1> USE DEF TypeInv
<1>0. FramesTyped'  BY RescueFrames
<1>1. CASE Return(t)  BY <1>1, ReturnMoves
<1>a. CASE /\ run'[t].pc \notin Apart
           /\ \A u \in Threads : u # t => run'[u] = run[u]
  BY <1>0, <1>a DEF Moves, FramesTyped
<1>2. CASE FoundOpen(t)
  BY <1>2, <1>a DEF FoundOpen, FramesTyped, Frames, Apart, CancelPcs
<1>3. CASE EntryRecovered(t)
  <2>1. \E f : \/ run' = [run EXCEPT ![t].pc = "entryFill", ![t].fill = f]
               \/ run' = [run EXCEPT ![t].pc = "oversize", ![t].fill = f]
    BY <1>3 DEF EntryRecovered
  <2> QED BY <1>a, <2>1 DEF FramesTyped, Frames, Apart, CancelPcs
<1>4. CASE EntryUnfilled(t)
  <2>1. Return(t) \/ Goto(t, "place") \/ Goto(t, "iocRead")
    BY <1>4 DEF EntryUnfilled
  <2> QED BY <1>1, <1>a, <2>1 DEF Goto, FramesTyped, Frames, Apart, CancelPcs
<1>5. CASE RescueDeclined(t) \/ IocRefused(t) \/ IocAcked(t)
  BY <1>1, <1>5 DEF RescueDeclined, IocRefused, IocAcked
<1>6. CASE RescueLists(t)
  BY <1>6, <1>a DEF RescueLists, FramesTyped, Frames, Apart, CancelPcs
<1>7. CASE RescueReads(t)
  <2>1. \/ FoundOpen(t)
        \/ Return(t)
        \/ run' = [run EXCEPT ![t].then = "ioc", ![t].pc = "rescueCancel"]
        \/ run' = [run EXCEPT ![t].then = "ioc", ![t].pc = "entryFills"]
    BY <1>7 DEF RescueReads
  <2> QED BY <1>1, <1>2, <1>a, <2>1 DEF FramesTyped, Frames, Apart, CancelPcs
<1>8. CASE RescueCancels(t)
  <2>1. Return(t) \/ Goto(t, "rescueConfirm")  BY <1>8 DEF RescueCancels
  <2> QED BY <1>1, <1>a, <2>1 DEF Goto, FramesTyped, Frames, Apart, CancelPcs
<1>9. CASE RescueConfirms(t)
  <2>1. FoundOpen(t) \/ Return(t) \/ Goto(t, "entryFills")
    BY <1>9 DEF RescueConfirms
  <2> QED
    BY <1>1, <1>2, <1>a, <2>1 DEF Goto, FramesTyped, Frames, Apart, CancelPcs
<1>10. CASE RescueClears(t)
  <2>1. \/ FoundOpen(t)
        \/ Return(t)
        \/ \E f : run' = [run EXCEPT ![t].pc = "iocSend", ![t].fill = f]
    BY <1>10 DEF RescueClears
  <2> QED BY <1>1, <1>2, <1>a, <2>1 DEF FramesTyped, Frames, Apart, CancelPcs
<1>11. CASE IocSent(t)
  BY <1>11, <1>a DEF IocSent, FramesTyped, Frames, Apart, CancelPcs
<1> QED
  BY <1>3, <1>4, <1>5, <1>6, <1>7, <1>8, <1>9, <1>10, <1>11 DEF Rescue

LEMMA MonitorMoves ==
    ASSUME TypeInv, NEW t \in Threads, Monitor(t)
    PROVE  Moves(t, Apart)
<1> USE DEF TypeInv
<1>0. FramesTyped'  BY MonitorFrames
<1>1. CASE Return(t)  BY <1>1, ReturnMoves
<1>a. CASE /\ run'[t].pc \notin Apart
           /\ \A u \in Threads : u # t => run'[u] = run[u]
  BY <1>0, <1>a DEF Moves, FramesTyped
<1>2. CASE TickWaits(t) \/ PositionUnreadable(t) \/ PendingSlFound(t)
           \/ PendingSlGrace(t) \/ ClosingAwaited(t) \/ ProtectedHolds(t)
  BY <1>1, <1>2 DEF TickWaits, PositionUnreadable, PendingSlFound,
                    PendingSlGrace, ClosingAwaited, ProtectedHolds
<1>3. CASE WaitingRetried(t) \/ PositionGone(t) \/ PositionOversized(t)
           \/ PositionSeen(t)
  BY <1>3, <1>a DEF WaitingRetried, PositionGone, PositionOversized,
                    PositionSeen, Goto, FramesTyped, Frames, Apart, CancelPcs
<1>4. CASE EntryChecked(t)
  <2>1. \/ Return(t)
        \/ \E p \in {"place", "entryFills", "rescue"},
              n \in {"listed", "replace"} :
             run' = [run EXCEPT ![t].pc = p, ![t].then = n]
    <3> DEFINE snap == run[t].snap
               next(oid) == IF oid = NoOid THEN "place"
                            ELSE IF snap.ok /\ ~Lists(snap, oid)
                                 THEN "entryFills"
                            ELSE IF snap.ok THEN "rescue"
                            ELSE "idle"
               follower(oid) == IF next(oid) = "rescue"
                                THEN "listed" ELSE "replace"
    <3>1. PICK kept : IF next(kept) = "idle" THEN Return(t)
                      ELSE run' = [run EXCEPT ![t].pc = next(kept),
                                              ![t].then = follower(kept)]
      BY <1>4 DEF EntryChecked
    <3>2. next(kept) \in {"place", "entryFills", "rescue", "idle"}
          /\ follower(kept) \in {"listed", "replace"}
      OBVIOUS
    <3> HIDE DEF next, follower
    <3> QED BY <3>1, <3>2
  <2> QED BY <1>1, <1>a, <2>1 DEF FramesTyped, Frames, Apart, CancelPcs
<1>5. CASE PendingSlBreached(t) \/ ClosingRetried(t) \/ ProtectedBreached(t)
           \/ ProtectedLost(t)
  BY <1>5, <1>a DEF PendingSlBreached, ClosingRetried, ProtectedBreached,
                    ProtectedLost, FramesTyped, Frames, Apart, CancelPcs
<1>6. CASE PendingSlRetried(t)
  <2>1. \/ Return(t)
        \/ run' = [run EXCEPT ![t].pc = "sl", ![t].onThrow = "keep"]
    BY <1>6 DEF PendingSlRetried
  <2> QED BY <1>1, <1>a, <2>1 DEF FramesTyped, Frames, Apart, CancelPcs
<1> QED BY <1>2, <1>3, <1>4, <1>5, <1>6 DEF Monitor

LEMMA OperationMoves ==
    ASSUME TypeInv, NEW t \in Threads, Operation(t)
    PROVE  /\ Moves(t, Apart)
           /\ run'[t].pc \in {"idle", "place", "sl", "rescue", "exitRead"}
<1> USE DEF TypeInv
<1>0. FramesTyped'  BY OperationFrames
<1>1. CASE Return(t)  BY <1>1, ReturnMoves
<1>a. CASE /\ run'[t].pc \in {"place", "sl", "rescue", "exitRead"}
           /\ \A u \in Threads : u # t => run'[u] = run[u]
  BY <1>0, <1>a DEF Moves, FramesTyped, Apart, CancelPcs
<1>2. \/ Return(t) \/ Goto(t, "place") \/ Goto(t, "sl") \/ Goto(t, "exitRead")
      \/ run' = [run EXCEPT ![t].pc = "rescue", ![t].then = "unlisted"]
  BY DEF Operation, Retargets, MovesExit, RequestFails, EntryTriggered,
         ExitTriggered
<1> QED BY <1>1, <1>a, <1>2 DEF Goto, FramesTyped, Frames

LEMMA CancellationMoves ==
    ASSUME TypeInv, NEW t \in Threads, Cancellation(t)
    PROVE  /\ Moves(t, {"placing", "cancel", "slOrders", "slSend"})
           /\ run'[t].pc \in {"idle"} \cup CancelPcs
<1> USE DEF TypeInv
<1>0. FramesTyped'  BY CancellationFrames
<1>1. CASE Return(t)  BY <1>1, ReturnMoves DEF Moves, Apart
<1>2. \/ Return(t)
      \/ \E p \in CancelPcs : Goto(t, p)
      \/ \E n, s : run' = [run EXCEPT ![t].pc = "cancelOrders", ![t].pos = n,
                                      ![t].snap = s]
  BY DEF Cancellation, CancelBegins, CancelTick, CancelTimedOut, CancelReads,
         CancelOrders, CancelCloses, CancelConfirmsOrders, CancelConfirmsPos,
         CancelDone, CancelPostponed, CancelPcs
<1>3. CASE \/ \E p \in CancelPcs : Goto(t, p)
           \/ \E n, s : run' = [run EXCEPT ![t].pc = "cancelOrders",
                                           ![t].pos = n, ![t].snap = s]
  <2>1. /\ run'[t].pc \in CancelPcs
        /\ \A u \in Threads : u # t => run'[u] = run[u]
    BY <1>3 DEF Goto, FramesTyped, Frames, CancelPcs
  <2> QED BY <1>0, <2>1 DEF Moves, FramesTyped, CancelPcs
<1> QED BY <1>1, <1>2, <1>3

-----------------------------------------------------------------------------
(* createHedge and its first order, and the size of a stop loss.           *)

\* createHedge is done before it comes to anything but its first order.
LEMMA CreatorPlaces ==
    ASSUME run["creator"].pc \in CreatorPcs, Runs("creator")
    PROVE  Placement("creator")
<1>1. ~StopLoss("creator") /\ ~EntryFill("creator") /\ ~CycleEnd("creator")
  BY DEF StopLoss, SlWithoutPosition, SlSizes, SlReused, SlMissing, SlSent,
         SlRefused, SlAcked, EntryFill, EntryFillNoted, EntryFillRead,
         PartialCancels, PartialToppedUp, EntryFillBreached, EntryFillCovered,
         ExitRead, Closed, CycleEnd, SlFillNoted, CycleSaved, CycleNotSaved,
         ExitRecovered, CycleGuessed, SlVanished, At, CreatorPcs
<1>2. ~Rescue("creator") /\ ~Operation("creator")
  BY DEF Rescue, EntryRecovered, EntryUnfilled, RescueDeclined, RescueLists,
         RescueReads, RescueCancels, RescueConfirms, RescueClears, IocSent,
         IocRefused, IocAcked, Operation, Retargets, MovesExit, RequestFails,
         EntryTriggered, ExitTriggered, At, CreatorPcs
<1>3. ~Monitor("creator")
  BY DEF Monitor, TickWaits, WaitingRetried, EntryChecked, PositionUnreadable,
         PositionGone, PositionOversized, PositionSeen, PendingSlFound,
         PendingSlBreached, PendingSlGrace, PendingSlRetried, ClosingRetried,
         ClosingAwaited, ProtectedBreached, ProtectedHolds, ProtectedLost,
         PositionTick, At, CreatorPcs
<1>4. ~Cancellation("creator")
  BY DEF Cancellation, CancelBegins, CancelTick, CancelTimedOut, CancelReads,
         CancelOrders, CancelCloses, CancelConfirmsOrders, CancelConfirmsPos,
         CancelDone, CancelPostponed, At, CreatorPcs
<1> QED BY <1>1, <1>2, <1>3, <1>4 DEF Runs

\* What the worker can be at while createHedge places the first order.
FirstPcs == {"idle", "entryTick", "waitingTick", "retarget", "exit", "place",
             "cancel"} \cup CancelPcs
FirstStatuses == {"entry_pending", "waiting", "cancel_pending", "cancelled",
                  "error"}

LEMMA WorkerWaits ==
    ASSUME Runs("worker"), run["worker"].pc \in FirstPcs, hedge.placing,
           hedge.status \notin OpenStatuses
    PROVE  \/ TickWaits("worker") \/ PlaceSkipped("worker")
           \/ Retargets("worker") \/ MovesExit("worker")
           \/ RequestFails("worker") \/ Cancellation("worker")
<1>1. Placement("worker") => PlaceSkipped("worker")
  BY DEF Placement, PlaceUnreadable, PlaceOversized, PlaceAdoptsPosition,
         PlaceAdoptsOrder, PlacePrepares, PlacementBegins, EntrySent,
         EntryRefused, EntryAcked, OversizeStops, At, FirstPcs, CancelPcs
<1>2. ~StopLoss("worker") /\ ~EntryFill("worker") /\ ~CycleEnd("worker")
  BY DEF StopLoss, SlWithoutPosition, SlSizes, SlReused, SlMissing, SlSent,
         SlRefused, SlAcked, EntryFill, EntryFillNoted, EntryFillRead,
         PartialCancels, PartialToppedUp, EntryFillBreached, EntryFillCovered,
         ExitRead, Closed, CycleEnd, SlFillNoted, CycleSaved, CycleNotSaved,
         ExitRecovered, CycleGuessed, SlVanished, At, FirstPcs, CancelPcs
<1>3. ~Rescue("worker")
  BY DEF Rescue, EntryRecovered, EntryUnfilled, RescueDeclined, RescueLists,
         RescueReads, RescueCancels, RescueConfirms, RescueClears, IocSent,
         IocRefused, IocAcked, At, FirstPcs, CancelPcs
<1>4. Operation("worker") =>
        Retargets("worker") \/ MovesExit("worker") \/ RequestFails("worker")
  BY DEF Operation, EntryTriggered, ExitTriggered, At, FirstPcs, CancelPcs
<1>5. Monitor("worker") => TickWaits("worker")
  BY DEF Monitor, WaitingRetried, EntryChecked, PositionUnreadable,
         PositionGone, PositionOversized, PositionSeen, PendingSlFound,
         PendingSlBreached, PendingSlGrace, PendingSlRetried, ClosingRetried,
         ClosingAwaited, ProtectedBreached, ProtectedHolds, ProtectedLost,
         PositionTick, At, FirstPcs, CancelPcs
<1> QED BY <1>1, <1>2, <1>3, <1>4, <1>5 DEF Runs

\* And that it leaves the flag raised and the order ids alone.
LEMMA WorkerWaitsHedge ==
    ASSUME TypeInv, hedge.placing, hedge.entryOid = NoOid,
           hedge.status \in FirstStatuses,
           \/ TickWaits("worker") \/ PlaceSkipped("worker")
           \/ Retargets("worker") \/ MovesExit("worker")
           \/ RequestFails("worker") \/ Cancellation("worker")
    PROVE  /\ hedge'.placing /\ hedge'.entryOid = NoOid
           /\ hedge'.status \in FirstStatuses
<1>0. hedge \in Hedges  BY DEF TypeInv, HedgeTyped
<1>1. CASE hedge' = hedge  BY <1>1
<1>2. CASE hedge' = [hedge EXCEPT !.entryOid = NoOid, !.status = "waiting"]
  BY <1>0, <1>2 DEF Hedges, FirstStatuses
<1>3. CASE \E s \in {"error", "cancel_pending"} : hedge' = SetStatus(s)
  BY <1>0, <1>3 DEF SetStatus, Hedges, FirstStatuses
<1>4. CASE hedge' = [hedge EXCEPT !.status = "cancelled", !.entryOid = NoOid,
                                  !.slOid = NoOid]
  BY <1>0, <1>4 DEF Hedges, FirstStatuses
<1>5. CASE \E n : hedge' = [hedge EXCEPT !.entryRetry = n]
  BY <1>0, <1>5 DEF Hedges
<1>6. hedge.status \notin OpenStatuses  BY DEF OpenStatuses, FirstStatuses
<1>7. CASE TickWaits("worker") \/ RequestFails("worker")
  BY <1>1, <1>7, SavedHedge DEF TickWaits, RequestFails
<1>8. CASE PlaceSkipped("worker")  BY <1>5, <1>8 DEF PlaceSkipped
<1>9. CASE Retargets("worker")  BY <1>2, <1>9, SavedHedge DEF Retargets
<1>10. CASE MovesExit("worker")
  BY <1>1, <1>6, <1>10, SavedHedge DEF MovesExit
<1>11. CASE Cancellation("worker")
  BY <1>1, <1>3, <1>4, <1>11, SavedHedge
  DEF Cancellation, CancelBegins, CancelTick, CancelTimedOut, CancelReads,
      CancelOrders, CancelCloses, CancelConfirmsOrders, CancelConfirmsPos,
      CancelDone, CancelPostponed
<1> QED BY <1>7, <1>8, <1>9, <1>10, <1>11

LEMMA CreatorFirst ==
    ASSUME TypeInv, FirstInv, Runs("creator")
    PROVE  FirstInv'
<1>1. Placement("creator")  BY CreatorPlaces DEF FirstInv
<1>2. run'["creator"].pc \in {"idle", "oversize", "send", "sent"}
  BY <1>1, PlacementMoves DEF Threads
<1> QED BY <1>2 DEF FirstInv, CreatorPcs

\* Whoever moves, the other thread does not.
LEMMA RunsMoves ==
    ASSUME TypeInv, NEW t \in Threads, Runs(t)
    PROVE  Moves(t, {"placing", "cancel"})
BY PlacementMoves, StopLossMoves, EntryFillMoves, CycleEndMoves, RescueMoves,
   MonitorMoves, OperationMoves, CancellationMoves
DEF Runs, Moves, Apart

LEMMA WorkerFirst ==
    ASSUME TypeInv, FirstInv, Runs("worker")
    PROVE  FirstInv'
<1>1. run'["creator"] = run["creator"]
  BY RunsMoves DEF Moves, Threads
<1>2. CASE run["creator"].pc # "placing"  BY <1>1, <1>2 DEF FirstInv
<1>3. CASE run["creator"].pc = "placing"
  <2>1. /\ hedge.placing /\ hedge.entryOid = NoOid
        /\ hedge.status \in FirstStatuses
        /\ run["worker"].pc \in FirstPcs
        /\ \A i \in DOMAIN queue : queue[i].kind \in UserJobs \cup {"tick"}
    BY <1>3 DEF FirstInv, FirstStatuses, FirstPcs
  <2>2. hedge.status \notin OpenStatuses  BY <2>1 DEF FirstStatuses, OpenStatuses
  <2>3. \/ TickWaits("worker") \/ PlaceSkipped("worker")
        \/ Retargets("worker") \/ MovesExit("worker")
        \/ RequestFails("worker") \/ Cancellation("worker")
    BY <2>1, <2>2, WorkerWaits
  <2>4. /\ hedge'.placing /\ hedge'.entryOid = NoOid
        /\ hedge'.status \in FirstStatuses
    BY <2>1, <2>3, WorkerWaitsHedge
  <2>5. queue' = queue  BY RunsQueue DEF Threads
  <2>6. run'["worker"].pc \in FirstPcs
    <3>1. CASE Return("worker")
      BY <3>1, ReturnMoves DEF TypeInv, Threads, FirstPcs
    <3>2. CASE Cancellation("worker")
      BY <3>2, CancellationMoves DEF Threads, FirstPcs
    <3>3. CASE TickWaits("worker") \/ PlaceSkipped("worker")
               \/ RequestFails("worker")
      BY <3>1, <3>3 DEF TickWaits, PlaceSkipped, RequestFails
    <3>4. CASE Retargets("worker")
      <4>1. Goto("worker", "place")  BY <3>4 DEF Retargets
      <4>2. run'["worker"].pc = "place"
        BY <4>1, GotoMoves DEF TypeInv, Threads, Labels
      <4> QED BY <4>2 DEF FirstPcs
    <3>5. CASE MovesExit("worker")
      BY <2>2, <3>1, <3>5 DEF MovesExit
    <3> QED BY <2>3, <3>2, <3>3, <3>4, <3>5
  <2> QED BY <1>1, <2>1, <2>4, <2>5, <2>6
          DEF FirstInv, FirstStatuses, FirstPcs
<1> QED BY <1>2, <1>3

\* A job that is queued is queued last.
LEMMA EnqueuedLast ==
    ASSUME QueueTyped, NEW job, Enqueue(job)
    PROVE  \A i \in DOMAIN queue' :
             \/ i \in DOMAIN queue /\ queue'[i] = queue[i]
             \/ i = Len(queue) + 1 /\ queue'[i] = job
<1>1. queue \in Seq(Jobs) /\ queue' = Append(queue, job)
  BY DEF QueueTyped, Enqueue
<1>2. /\ Len(queue) \in Nat /\ DOMAIN queue = 1 .. Len(queue)
      /\ DOMAIN queue' = 1 .. Len(queue) + 1
  BY <1>1
<1>3. \A i \in 1 .. Len(queue) : queue'[i] = queue[i]  BY <1>1
<1>4. queue'[Len(queue) + 1] = job  BY <1>1
<1> QED BY <1>2, <1>3, <1>4

LEMMA KindOfJob ==
    \A kind : /\ Job(kind).kind = kind
              /\ \A f : [Job(kind) EXCEPT !.fill = f].kind = kind
              /\ \A s : [Job(kind) EXCEPT !.snap = s].kind = kind
BY DEF Job

LEMMA OutsideFirst ==
    ASSUME TypeInv, FirstInv,
           \/ Exchange \/ FillLost \/ FillArrives \/ PriceArrives
           \/ TickReads \/ TickQueued \/ JobStarts
           \/ (\E kind \in Requests : Requested(kind)) \/ Crash
    PROVE  FirstInv'
<1> USE DEF TypeInv
<1>0. hedge \in Hedges  BY DEF HedgeTyped
<1>1. CASE Crash
  <2>1. run'["creator"] = Frame("idle")  BY <1>1 DEF Crash, Threads
  <2> QED BY <2>1, FrameIdle DEF FirstInv, CreatorPcs
<1>2. CASE JobStarts
  <2>1. PICK f \in Frames :
          /\ run' = [run EXCEPT !["worker"] = f]
          /\ f.pc = IF Head(queue).kind = "tick" THEN TickPc[hedge.status]
                                                 ELSE Head(queue).kind
    BY <1>2, JobStartsFrame
  <2>2. run'["creator"] = run["creator"] /\ run'["worker"] = f
    BY <2>1 DEF FramesTyped, Threads
  <2>3. hedge' = hedge /\ queue' = Tail(queue) /\ queue # <<>>
    BY <1>2 DEF JobStarts
  <2>4. queue \in Seq(Jobs)  BY DEF QueueTyped
  <2>5. \A i \in DOMAIN queue' : i + 1 \in DOMAIN queue
                                 /\ queue'[i] = queue[i + 1]
    BY <2>3, <2>4
  <2>6. 1 \in DOMAIN queue /\ Head(queue) = queue[1]  BY <2>3, <2>4
  <2>7. ASSUME run["creator"].pc = "placing"
        PROVE  f.pc \in FirstPcs
    <3>1. /\ hedge.status \in FirstStatuses
          /\ Head(queue).kind \in UserJobs \cup {"tick"}
      BY <2>6, <2>7 DEF FirstInv, FirstStatuses
    <3>2. TickPc[hedge.status] \in FirstPcs
      BY <3>1, TickHandlers DEF FirstStatuses, FirstPcs, Statuses, CancelPcs
    <3> QED BY <2>1, <3>1, <3>2 DEF UserJobs, FirstPcs
  <2> QED BY <2>2, <2>3, <2>5, <2>7 DEF FirstInv, FirstPcs
<1>3. CASE Exchange \/ FillLost \/ TickReads
  <2>1. UNCHANGED <<hedge, run, queue>>
    BY <1>3 DEF Exchange, EntryFires, StopLossFires, StopLossLapses,
                ClosedOutside, FillLost, TickReads
  <2> QED BY <2>1 DEF FirstInv
<1>4. ASSUME UNCHANGED <<hedge, run>>,
             run["creator"].pc = "placing" =>
               \A i \in DOMAIN queue' :
                 queue'[i].kind \in UserJobs \cup {"tick"}
      PROVE  FirstInv'
  BY <1>4 DEF FirstInv
<1>5. CASE FillArrives
  <2>1. run["creator"].pc = "placing" => FillMatches(Head(inbox)) = {}
    <3>0. inbox \in Seq(Fills) /\ inbox # <<>>
      BY <1>5 DEF FillArrives, ExchangeTyped
    <3>a. Head(inbox) \in Fills  BY <3>0
    <3>1. Head(inbox).oid # NoOid  BY <3>a, LotsGrow DEF Fills, Oids, NoOid
    <3> QED BY <3>1 DEF FirstInv, FillMatches, OpenStatuses
  <2>2. FillMatches(Head(inbox)) = {} => queue' = queue
    BY <1>5 DEF FillArrives
  <2>3. UNCHANGED <<hedge, run>>  BY <1>5 DEF FillArrives
  <2> QED BY <1>4, <2>1, <2>2, <2>3 DEF FirstInv
<1>6. CASE PriceArrives
  <2>1. run["creator"].pc # "placing"
    BY <1>6 DEF PriceArrives, Rescuable, FirstInv
  <2> QED BY <1>4, <1>6, <2>1 DEF PriceArrives
<1>7. CASE TickQueued
  <2> DEFINE job == [Job("tick") EXCEPT
                       !.snap = [ok |-> tick.ok, seen |-> tick.seen]]
  <2>1. job.kind = "tick"  BY KindOfJob
  <2>2. Enqueue(job) /\ UNCHANGED <<hedge, run>>  BY <1>7 DEF TickQueued
  <2> HIDE DEF job
  <2> QED BY <1>4, <2>1, <2>2, EnqueuedLast DEF FirstInv
<1>8. CASE \E kind \in Requests : Requested(kind)
  <2>1. PICK kind \in Requests : Requested(kind)  BY <1>8
  <2>2. kind \in UserJobs  BY HedgeAssumption DEF HedgeAssumption
  <2>3. Enqueue(Job(kind)) /\ UNCHANGED <<hedge, run>>
    BY <2>1 DEF Requested
  <2>4. Job(kind).kind = kind  BY KindOfJob
  <2> QED BY <1>4, <2>2, <2>3, <2>4, EnqueuedLast DEF FirstInv
<1> QED BY <1>1, <1>2, <1>3, <1>5, <1>6, <1>7, <1>8

\* Once its first order is on its way, createHedge leaves the size alone.
LEMMA CreatorKeepsSize ==
    ASSUME TypeInv, run["creator"].pc \in CreatorPcs \ {"placing"},
           Placement("creator")
    PROVE  hedge'.size = hedge.size
<1>0. hedge \in Hedges /\ FramesTyped /\ "creator" \in Threads
  BY DEF TypeInv, HedgeTyped, Threads
<1>1. CASE EntrySent("creator")  BY <1>1 DEF EntrySent
<1>2. CASE EntryRefused("creator")
  <2> DEFINE h == [hedge EXCEPT !.placing = FALSE]
  <2>1. h \in Hedges /\ h.size = hedge.size  BY <1>0 DEF Hedges
  <2>2. Throw("creator", h)  BY <1>2 DEF EntryRefused
  <2> HIDE DEF h
  <2> QED BY <1>0, <2>1, <2>2, ThrownHedge
<1>3. CASE EntryAcked("creator")
  <2> DEFINE h == [hedge EXCEPT !.entryOid = run["creator"].fill.oid,
                                !.slOid = NoOid, !.status = "entry_pending"]
  <2>1. h.size = hedge.size /\ Placed("creator", h).size = h.size
    BY <1>0 DEF Hedges, Placed
  <2>2. hedge' = Placed("creator", h)
    BY <1>3, SavedHedge DEF EntryAcked
  <2> QED BY <2>1, <2>2
<1>4. CASE OversizeStops("creator")
  <2>1. SetStatus("error").size = hedge.size
    BY <1>0 DEF SetStatus, Hedges
  <2>2. Placed("creator", SetStatus("error")).size = hedge.size
    BY <1>0 DEF SetStatus, Placed, Hedges
  <2>3. \/ hedge' = SetStatus("error")
        \/ hedge' = Placed("creator", SetStatus("error"))
    BY <1>4, SavedHedge DEF OversizeStops
  <2> QED BY <2>1, <2>2, <2>3
<1>5. ~PlaceSkipped("creator")  BY DEF PlaceSkipped, At, CreatorPcs
<1>6. ~PlacementBegins("creator")  BY DEF PlacementBegins, At, CreatorPcs
<1> QED
  BY <1>1, <1>2, <1>3, <1>4, <1>5, <1>6
  DEF Placement, PlaceUnreadable, PlaceOversized, PlaceAdoptsPosition,
      PlaceAdoptsOrder, PlacePrepares

LEMMA SizeStep ==
    ASSUME TypeInv, FirstInv, SizeInv, [Next]_vars
    PROVE  SizeInv'
<1> USE DEF TypeInv
<1>0. hedge \in Hedges  BY DEF HedgeTyped
<1>1. CASE Runs("creator")
  <2>1. run'["worker"] = run["worker"]
    BY <1>1, RunsMoves DEF Moves, Threads
  <2>2. Placement("creator")  BY <1>1, CreatorPlaces DEF FirstInv
  <2>3. SUFFICES ASSUME run["worker"].pc \in {"slOrders", "slSend"}
                 PROVE  hedge'.size = hedge.size
    BY <2>1 DEF SizeInv
  <2>4. run["creator"].pc # "placing"
    BY <2>3 DEF FirstInv, CancelPcs
  <2> QED BY <2>2, <2>4, CreatorKeepsSize DEF FirstInv
<1>2. CASE Runs("worker")
  <2>1. SUFFICES ASSUME run'["worker"].pc \in {"slOrders", "slSend"}
                 PROVE  hedge'.size > 0
    BY DEF SizeInv
  <2>2. SlSizes("worker") \/ SlMissing("worker")
    <3>1. ~Placement("worker") /\ ~EntryFill("worker") /\ ~CycleEnd("worker")
          /\ ~Rescue("worker") /\ ~Monitor("worker") /\ ~Operation("worker")
      BY <2>1, PlacementMoves, EntryFillMoves, CycleEndMoves, RescueMoves,
         MonitorMoves, OperationMoves
      DEF Moves, Apart, Threads
    <3>2. ~Cancellation("worker")
      BY <2>1, CancellationMoves DEF Moves, Threads
    <3> QED BY <1>2, <2>1, <3>1, <3>2, StopLossMoves DEF Runs, Threads
  <2>3. CASE SlSizes("worker")
    BY <1>0, <2>3 DEF SlSizes, Hedges, ExchangeTyped
  <2>4. CASE SlMissing("worker")
    BY <2>4 DEF SlMissing, SizeInv, At
  <2> QED BY <2>2, <2>3, <2>4
<1>3. CASE JobStarts
  <2>1. PICK f \in Frames :
          /\ run' = [run EXCEPT !["worker"] = f]
          /\ f.pc = IF Head(queue).kind = "tick" THEN TickPc[hedge.status]
                                                 ELSE Head(queue).kind
          /\ Head(queue) \in Jobs
    BY <1>3, JobStartsFrame
  <2>2. run'["worker"] = f  BY <2>1 DEF FramesTyped, Threads
  <2>3. TickPc[hedge.status] \notin {"slOrders", "slSend"}
    BY <1>0, TickHandlers DEF Hedges, Statuses
  <2>4. Head(queue).kind \notin {"slOrders", "slSend"}
    BY <2>1 DEF Jobs, UserJobs
  <2> QED BY <2>1, <2>2, <2>3, <2>4 DEF SizeInv
<1>4. CASE Crash
  <2>1. run'["worker"] = Frame("idle")  BY <1>4 DEF Crash, Threads
  <2> QED BY <2>1, FrameIdle DEF SizeInv
<1>5. CASE UNCHANGED <<hedge, run>>  BY <1>5 DEF SizeInv
<1>6. CASE Exchange \/ FillLost \/ FillArrives \/ PriceArrives
  BY <1>5, <1>6 DEF Exchange, EntryFires, StopLossFires, StopLossLapses,
                    ClosedOutside, FillLost, FillArrives, PriceArrives
<1>7. CASE TickReads \/ TickQueued \/ \E kind \in Requests : Requested(kind)
  BY <1>5, <1>7 DEF TickReads, TickQueued, Requested
<1>8. CASE UNCHANGED vars  BY <1>5, <1>8 DEF vars
<1> QED
  BY <1>1, <1>2, <1>3, <1>4, <1>6, <1>7, <1>8 DEF Next, Threads

-----------------------------------------------------------------------------
(* Types.                                                                  *)

LEMMA RunsTyped ==
    ASSUME TypeInv, FirstInv, SizeInv, NEW t \in Threads, Runs(t)
    PROVE  TypeInv'
<1>1. HedgeTyped'
  BY PlacementHedges, StopLossHedges, EntryFillHedges, CycleEndHedges,
     RescueHedges, MonitorHedges, CancellationHedges, OperationHedges
  DEF Runs
<1>2. ExchangeTyped'
  BY PlacementExchange, StopLossExchange, EntryFillExchange, CycleEndExchange,
     RescueExchange, MonitorExchange, CancellationExchange, OperationExchange
  DEF Runs
<1>3. FramesTyped'
  BY PlacementFrames, StopLossFrames, EntryFillFrames, CycleEndFrames,
     RescueFrames, MonitorFrames, CancellationFrames, OperationFrames
  DEF Runs
<1>4. QueueTyped'  BY RunsQueue, QueueCalm DEF TypeInv
<1> QED BY <1>1, <1>2, <1>3, <1>4 DEF TypeInv

BaseInv == TypeInv /\ FirstInv /\ SizeInv

LEMMA BaseInit == Init => BaseInv
<1> SUFFICES ASSUME Init PROVE BaseInv
  OBVIOUS
<1>0. 0 \in Lots /\ Size \in Nat /\ MaxOids \in Nat  BY LotsGrow
<1>1. NewHedge \in Hedges  BY <1>0 DEF NewHedge, Hedges, Statuses
<1>2. hedge \in Hedges /\ row \in Hedges
  BY <1>0 DEF Init, NewHedge, Hedges, Statuses
<1>3. HedgeTyped  BY <1>2, FS_EmptySet DEF Init, HedgeTyped
<1>4. ExchangeTyped
  <2>1. Entries = {} /\ Cardinality(Entries) = 0 /\ IsFiniteSet(orders)
    BY FS_EmptySet DEF Init, Entries
  <2>2. Size * 0 = 0 /\ nextOid - 1 = 0  BY <1>0 DEF Init
  <2> QED BY <1>0, <2>1, <2>2 DEF Init, ExchangeTyped
<1>5. FramesTyped
  <2>1. Frame("placing") \in Frames
    BY <1>0 DEF Frame, Frames, NoOrders, Snapshots, Labels, Catchers, Followers
  <2> DEFINE first == [Frame("placing") EXCEPT !.onThrow = "error"]
  <2>2. first \in Frames  BY <2>1 DEF Frames, Catchers
  <2>3. run = [t \in Threads |->
                 IF t = "creator" THEN first ELSE Frame("idle")]
    BY DEF Init
  <2> HIDE DEF first
  <2> QED BY <2>2, <2>3, FrameIdle DEF FramesTyped
<1>6. QueueTyped  BY DEF Init, QueueTyped, NoTick, Ticks
<1>7. FirstInv
  <2>1. run["worker"].pc = "idle" /\ run["creator"].pc = "placing"
    BY DEF Init, Frame, Threads
  <2>2. /\ hedge.placing /\ hedge.entryOid = NoOid
        /\ hedge.status = "entry_pending"
    BY DEF Init, NewHedge
  <2>3. DOMAIN queue = {}  BY DEF Init
  <2> QED BY <2>1, <2>2, <2>3 DEF FirstInv, CreatorPcs
<1>8. SizeInv
  <2>1. run["worker"].pc = "idle"  BY DEF Init, Frame, Threads
  <2> QED BY <2>1 DEF SizeInv
<1> QED BY <1>3, <1>4, <1>5, <1>6, <1>7, <1>8 DEF BaseInv, TypeInv

LEMMA BaseStep == BaseInv /\ [Next]_vars => BaseInv'
<1> SUFFICES ASSUME BaseInv, [Next]_vars PROVE BaseInv'
  OBVIOUS
<1> USE DEF BaseInv
<1>1. SizeInv'  BY SizeStep
<1>2. CASE \E t \in Threads : Runs(t)
  BY <1>1, <1>2, RunsTyped, CreatorFirst, WorkerFirst DEF Threads
<1>3. CASE \/ Exchange \/ FillLost \/ FillArrives \/ PriceArrives
           \/ TickReads \/ TickQueued \/ JobStarts
           \/ (\E kind \in Requests : Requested(kind)) \/ Crash
  BY <1>1, <1>3, OutsideHedges, OutsideExchange, OutsideFrames, OutsideQueue,
     OutsideFirst
  DEF TypeInv
<1>4. CASE UNCHANGED vars
  <2>1. HedgeTyped'  BY <1>4 DEF vars, TypeInv, HedgeTyped, tables
  <2>2. ExchangeTyped'  BY <1>4, ExchangeCalm DEF vars, exchange, TypeInv
  <2>3. FramesTyped' /\ QueueTyped'
    BY <1>4, FramesCalm, QueueCalm DEF vars, TypeInv
  <2>4. FirstInv'  BY <1>4 DEF vars, FirstInv
  <2> QED BY <1>1, <2>1, <2>2, <2>3, <2>4 DEF TypeInv
<1> QED BY <1>2, <1>3, <1>4 DEF Next

LEMMA BaseAlways == Spec => []BaseInv
BY BaseInit, BaseStep, PTL DEF Spec

\* Objects, rows, cycles and orders are always what they should be, whatever
\* goes wrong and whatever is overtaken: the position is never turned round,
\* and it never takes more than Size lots for each order id.
THEOREM TypeTheorem == Spec => []TypeOK
<1>1. BaseInv => TypeOK
  <2> SUFFICES ASSUME BaseInv PROVE TypeOK
    OBVIOUS
  <2>1. pos \in Lots  BY PosInLots DEF BaseInv, TypeInv
  <2>2. \A t \in Threads : run[t].pos \in Lots
    BY DEF BaseInv, TypeInv, FramesTyped, Frames
  <2>3. \A i \in DOMAIN inbox : inbox[i] \in Fills
    BY DEF BaseInv, TypeInv, ExchangeTyped
  <2> QED BY <2>1, <2>2, <2>3
          DEF BaseInv, TypeInv, HedgeTyped, ExchangeTyped, TypeOK
<1> QED BY <1>1, BaseAlways, PTL

-----------------------------------------------------------------------------
(* A hedge that is being cancelled, when fills and requests are not        *)
(* overtaken on their way to the lock and the process does not stop.       *)

Ending == {"cancel_pending", "cancelled"}
Tame == {"idle", "exit", "entryTrigger", "exitTrigger", "cancel"}
        \cup CancelPcs
Slow == UserJobs \cup {"entryFill", "slFill"}

\* Requests and fills are asked for when nothing is under way, so they find
\* the hedge as it was when they were asked for.
QueueCalmInv ==
    \A i \in DOMAIN queue :
        queue[i].kind \in Slow =>
            /\ i = 1
            /\ \A t \in Threads : run[t].pc = "idle"
            /\ queue[i].kind = "cancel" => hedge.status # "cancelled"
            /\ queue[i].kind \in {"retarget", "entryFill", "slFill"} =>
                 hedge.status \notin Ending

\* A thread that does not look at the status again is not at work on a hedge
\* that is being cancelled; one that cancels it is alone.
ThreadCalmInv ==
    /\ \A t \in Threads :
         /\ run[t].pc \notin Tame => hedge.status \notin Ending
         /\ run[t].pc \in CancelPcs => hedge.status = "cancel_pending"
    /\ run["worker"].pc = "cancel" =>
         hedge.status # "cancelled" /\ run["creator"].pc = "idle"

CalmInv == BaseInv /\ QueueCalmInv /\ ThreadCalmInv

\* Fills and requests are not overtaken, the process does not stop.
Undisturbed == "crash" \notin Mishaps /\ {"fill", "request"} \cap Overlaps = {}

KeepsStatus == hedge'.status \in Ending => hedge'.status = hedge.status

LEMMA SetStatusIs ==
    ASSUME HedgeTyped, NEW s
    PROVE  SetStatus(s).status = s
BY DEF SetStatus, HedgeTyped, Hedges

LEMMA PlacementStatus ==
    ASSUME TypeInv, NEW t \in Threads, Placement(t)
    PROVE  KeepsStatus
<1> USE DEF TypeInv, KeepsStatus
<1>0. hedge \in Hedges  BY DEF HedgeTyped
<1>a. \A h \in Hedges : Placed(t, h).status = h.status
  BY DEF Placed, Hedges
<1>1. CASE PlaceSkipped(t)
  <2>1. \E n : hedge' = [hedge EXCEPT !.entryRetry = n]
    BY <1>1 DEF PlaceSkipped
  <2> QED BY <1>0, <2>1 DEF Hedges
<1>2. CASE PlaceUnreadable(t) \/ EntryRefused(t)
  <2> DEFINE h == [hedge EXCEPT !.placing = FALSE]
  <2>1. h \in Hedges /\ h.status = hedge.status  BY <1>0 DEF Hedges
  <2>2. Throw(t, h)  BY <1>2 DEF PlaceUnreadable, EntryRefused
  <2> HIDE DEF h
  <2> QED BY <2>1, <2>2, ThrownHedge DEF Ending
<1>3. CASE PlaceOversized(t) \/ PlacePrepares(t)
  BY <1>0, <1>3 DEF PlaceOversized, PlacePrepares, Hedges
<1>4. CASE PlaceAdoptsPosition(t)
  <2> DEFINE adopted == [hedge EXCEPT !.size = pos, !.entryOid = NoOid,
                                      !.confirmed = TRUE]
  <2>1. \/ \E oid : hedge' = Placed(t, [adopted EXCEPT !.slOid = oid,
                                               !.status = "open_protected"])
        \/ hedge' = Placed(t, [adopted EXCEPT
                                 !.status = "entry_filled_pending_sl"])
    BY <1>4, SavedHedge DEF PlaceAdoptsPosition
  <2> QED BY <1>0, <2>1 DEF Placed, Hedges, Ending
<1>5. CASE PlaceAdoptsOrder(t) \/ EntryAcked(t)
  <2>1. \/ \E oid : hedge' = Placed(t, [hedge EXCEPT !.entryOid = oid,
                                               !.status = "entry_pending"])
        \/ \E oid : hedge' = Placed(t, [hedge EXCEPT !.entryOid = oid,
                               !.slOid = NoOid, !.status = "entry_pending"])
    BY <1>5, SavedHedge DEF PlaceAdoptsOrder, EntryAcked
  <2> QED BY <1>0, <2>1 DEF Placed, Hedges, Ending
<1>6. CASE EntrySent(t)  BY <1>6 DEF EntrySent
<1>7. CASE OversizeStops(t)
  <2>1. hedge' = SetStatus("error") \/ hedge' = Placed(t, SetStatus("error"))
    BY <1>7, SavedHedge DEF OversizeStops
  <2>2. SetStatus("error") \in Hedges  BY StatusTyped DEF Statuses
  <2> QED BY <1>a, <2>1, <2>2, SetStatusIs DEF Ending
<1> QED BY <1>1, <1>2, <1>3, <1>4, <1>5, <1>6, <1>7 DEF Placement

LEMMA StopLossStatus ==
    ASSUME TypeInv, NEW t \in Threads, StopLoss(t)
    PROVE  KeepsStatus
<1> USE DEF TypeInv, KeepsStatus
<1>0. hedge \in Hedges  BY DEF HedgeTyped
<1>1. CASE SlWithoutPosition(t) \/ SlRefused(t)
  <2>1. Throw(t, hedge)  BY <1>1 DEF SlWithoutPosition, SlRefused
  <2> QED BY <1>0, <2>1, ThrownHedge DEF Ending
<1>2. CASE SlSizes(t)  BY <1>0, <1>2 DEF SlSizes, Hedges
<1>3. CASE SlMissing(t) \/ SlSent(t)  BY <1>3 DEF SlMissing, SlSent
<1>4. CASE SlReused(t) \/ SlAcked(t)
  <2>1. PICK oid : hedge' = Protected(t, oid)
    BY <1>4, SavedHedge DEF SlReused, SlAcked
  <2>2. hedge'.status = "open_protected"
    BY <1>0, <2>1 DEF Protected, Hedges
  <2> QED BY <2>2 DEF Ending
<1> QED BY <1>1, <1>2, <1>3, <1>4 DEF StopLoss

LEMMA EntryFillStatus ==
    ASSUME TypeInv, NEW t \in Threads, EntryFill(t)
    PROVE  KeepsStatus
<1> USE DEF TypeInv, KeepsStatus
<1>0. hedge \in Hedges  BY DEF HedgeTyped
<1>1. CASE EntryFillNoted(t)  BY <1>0, <1>1 DEF EntryFillNoted, Hedges
<1>2. CASE EntryFillRead(t)
  <2>1. PICK n : hedge' = [hedge EXCEPT !.size = n]
    BY <1>2 DEF EntryFillRead
  <2> QED BY <1>0, <2>1 DEF Hedges
<1>3. CASE PartialCancels(t)  BY <1>0, <1>3 DEF PartialCancels, Hedges
<1>4. CASE PartialToppedUp(t) \/ ExitRead(t)
  BY <1>4 DEF PartialToppedUp, ExitRead
<1>5. CASE EntryFillBreached(t) \/ EntryFillCovered(t)
  BY <1>5, SavedHedge, SetStatusIs
  DEF EntryFillBreached, EntryFillCovered, Ending
<1>6. CASE Closed(t)  BY <1>6, SavedHedge DEF Closed
<1> QED BY <1>1, <1>2, <1>3, <1>4, <1>5, <1>6 DEF EntryFill

LEMMA CycleEndStatus ==
    ASSUME TypeInv, NEW t \in Threads, CycleEnd(t)
    PROVE  KeepsStatus
<1> USE DEF TypeInv, KeepsStatus
<1>0. hedge \in Hedges /\ hedge.cycles \in Nat /\ 0 \in Lots
  BY LotsGrow DEF HedgeTyped, Hedges
<1>a. \A n \in Nat : AfterCycle(n) \in Hedges /\ AfterCycle(n).status = "waiting"
  BY <1>0 DEF AfterCycle, Hedges, Statuses
<1>1. CASE SlFillNoted(t)
  BY <1>1, SavedHedge, SetStatusIs DEF SlFillNoted, Ending
<1>2. CASE CycleSaved(t)
  <2>1. hedge' = AfterCycle(hedge.cycles + 1)  BY <1>2 DEF CycleSaved
  <2> QED BY <1>0, <1>a, <2>1 DEF Ending
<1>3. CASE CycleNotSaved(t)
  <2>1. Throw(t, AfterCycle(hedge.cycles + 1))  BY <1>3 DEF CycleNotSaved
  <2>2. AfterCycle(hedge.cycles + 1) \in Hedges
        /\ AfterCycle(hedge.cycles + 1).status = "waiting"
    BY <1>0, <1>a
  <2>3. hedge'.status \in {"waiting", "error", "entry_filled_pending_sl"}
    BY <2>1, <2>2, ThrownHedge
  <2> QED BY <2>3 DEF Ending
<1>4. CASE ExitRecovered(t)  BY <1>4 DEF ExitRecovered
<1>5. CASE CycleGuessed(t)
  <2>1. hedge' = hedge \/ hedge' = AfterCycle(hedge.cycles)
    BY <1>5, SavedHedge DEF CycleGuessed
  <2> QED BY <1>0, <1>a, <2>1 DEF Ending
<1>6. CASE SlVanished(t)  BY <1>0, <1>6 DEF SlVanished, Hedges
<1> QED BY <1>1, <1>2, <1>3, <1>4, <1>5, <1>6 DEF CycleEnd

LEMMA RescueStatus ==
    ASSUME TypeInv, NEW t \in Threads, Rescue(t)
    PROVE  KeepsStatus
<1> USE DEF TypeInv, KeepsStatus
<1>0. hedge \in Hedges  BY DEF HedgeTyped
<1>1. CASE \/ \E n : hedge' = [hedge EXCEPT !.size = n]
           \/ \E oid : hedge' = [hedge EXCEPT !.entryOid = oid]
           \/ hedge' = [hedge EXCEPT !.entryOid = NoOid, !.slOid = NoOid]
           \/ hedge' = hedge
  BY <1>0, <1>1 DEF Hedges
<1>2. CASE RescueDeclined(t)
  BY <1>2, SavedHedge, SetStatusIs DEF RescueDeclined, Ending
<1>3. CASE EntryRecovered(t) \/ EntryUnfilled(t) \/ RescueLists(t)
           \/ RescueReads(t) \/ RescueCancels(t)
  BY <1>1, <1>3, SavedHedge
  DEF EntryRecovered, EntryUnfilled, RescueLists, RescueReads, RescueCancels,
      FoundOpen
<1>4. CASE RescueConfirms(t) \/ RescueClears(t) \/ IocSent(t) \/ IocRefused(t)
           \/ IocAcked(t)
  BY <1>1, <1>4, SavedHedge
  DEF RescueConfirms, RescueClears, IocSent, IocRefused, IocAcked, FoundOpen
<1> QED BY <1>2, <1>3, <1>4 DEF Rescue

LEMMA MonitorStatus ==
    ASSUME TypeInv, NEW t \in Threads, Monitor(t)
    PROVE  KeepsStatus
<1> USE DEF TypeInv, KeepsStatus
<1>0. hedge \in Hedges  BY DEF HedgeTyped
<1>1. CASE \/ \E n : hedge' = [hedge EXCEPT !.size = n]
           \/ \E oid : hedge' = [hedge EXCEPT !.entryOid = oid]
           \/ hedge' = hedge
  BY <1>0, <1>1 DEF Hedges
<1>2. CASE \E s \in {"open_protected", "closing"} : hedge' = SetStatus(s)
  BY <1>2, SetStatusIs DEF Ending
<1>3. CASE TickWaits(t) \/ WaitingRetried(t) \/ EntryChecked(t)
           \/ PositionUnreadable(t) \/ PositionGone(t)
  BY <1>1, <1>3, SavedHedge
  DEF TickWaits, WaitingRetried, EntryChecked, PositionUnreadable, PositionGone
<1>4. CASE PositionOversized(t) \/ PositionSeen(t) \/ PendingSlGrace(t)
           \/ ClosingRetried(t) \/ ClosingAwaited(t)
  BY <1>1, <1>4, SavedHedge
  DEF PositionOversized, PositionSeen, PendingSlGrace, ClosingRetried,
      ClosingAwaited
<1>5. CASE PendingSlFound(t) \/ PendingSlBreached(t)
  BY <1>2, <1>5, SavedHedge DEF PendingSlFound, PendingSlBreached
<1>6. CASE PendingSlRetried(t)
  <2> DEFINE tried == [hedge EXCEPT !.slRetry = @ + 1]
  <2>1. tried.status = hedge.status
        /\ [tried EXCEPT !.status = "error"].status = "error"
    BY <1>0 DEF Hedges
  <2>2. hedge' = tried \/ hedge' = [tried EXCEPT !.status = "error"]
    BY <1>6, SavedHedge DEF PendingSlRetried
  <2> HIDE DEF tried
  <2> QED BY <2>1, <2>2 DEF Ending
<1>7. CASE ProtectedHolds(t) \/ ProtectedLost(t)
  BY <1>1, <1>7, SavedHedge DEF ProtectedHolds, ProtectedLost
<1>8. CASE ProtectedBreached(t)
  <2>1. \/ hedge' = [hedge EXCEPT !.status = "closing", !.slOid = NoOid]
        \/ hedge' = SetStatus("closing")
    BY <1>8, SavedHedge DEF ProtectedBreached
  <2>2. hedge'.status = "closing"
    BY <1>0, <2>1, SetStatusIs DEF Hedges
  <2> QED BY <2>2 DEF Ending
<1> QED BY <1>3, <1>4, <1>5, <1>6, <1>7, <1>8 DEF Monitor

\* The operations that look at the status leave a cancellation alone, and
\* what they go on to is not for a hedge that is being cancelled.
LEMMA OperationStatus ==
    ASSUME TypeInv, NEW t \in Threads, Operation(t)
    PROVE  /\ KeepsStatus
           /\ run'[t].pc # "idle" => hedge'.status \notin Ending
           /\ run[t].pc \in Tame /\ hedge.status \in Ending =>
                hedge'.status = hedge.status
           /\ run[t].pc \in {"retarget", "exit", "entryTrigger", "exitTrigger"}
<1> USE DEF TypeInv, KeepsStatus
<1>0. hedge \in Hedges  BY DEF HedgeTyped
<1>r. Return(t) => run'[t].pc = "idle"  BY ReturnMoves
<1>1. CASE Retargets(t)
  <2>1. hedge'.status = "waiting"
    BY <1>0, <1>1, SavedHedge DEF Retargets, Hedges
  <2>2. run[t].pc = "retarget"  BY <1>1 DEF Retargets, At
  <2> QED BY <2>1, <2>2 DEF Ending, Tame, CancelPcs
<1>2. CASE MovesExit(t)
  <2>1. \/ hedge' = [hedge EXCEPT !.slOid = NoOid,
                                  !.status = "entry_filled_pending_sl"]
           /\ hedge.status \in OpenStatuses
        \/ hedge' = hedge /\ Return(t)
    BY <1>2, SavedHedge DEF MovesExit
  <2>2. run[t].pc = "exit"  BY <1>2 DEF MovesExit, At
  <2> QED BY <1>0, <1>r, <2>1, <2>2 DEF Hedges, Ending, OpenStatuses
<1>3. CASE RequestFails(t)
  BY <1>r, <1>3 DEF RequestFails, At
<1>4. CASE EntryTriggered(t)
  BY <1>r, <1>4 DEF EntryTriggered, At, Rescuable, Ending
<1>5. CASE ExitTriggered(t)
  <2>1. \/ hedge' = [hedge EXCEPT !.slOid = NoOid, !.status = "closing"]
           /\ hedge.status = "open_protected"
        \/ hedge' = hedge /\ Return(t)
    BY <1>5, SavedHedge DEF ExitTriggered
  <2>2. run[t].pc = "exitTrigger"  BY <1>5 DEF ExitTriggered, At
  <2> QED BY <1>0, <1>r, <2>1, <2>2 DEF Hedges, Ending
<1> QED BY <1>1, <1>2, <1>3, <1>4, <1>5 DEF Operation

\* A cancellation that goes on is still pending.
LEMMA CancellationStatus ==
    ASSUME TypeInv, NEW t \in Threads, Cancellation(t)
    PROVE  /\ run[t].pc \in CancelPcs \cup {"cancel"}
           /\ \/ run'[t].pc = "idle"
              \/ hedge'.status = "cancel_pending"
              \/ run[t].pc \in CancelPcs /\ hedge' = hedge
<1> USE DEF TypeInv
<1>1. run[t].pc \in CancelPcs \cup {"cancel"}
  BY DEF Cancellation, CancelBegins, CancelTick, CancelTimedOut, CancelReads,
         CancelOrders, CancelCloses, CancelConfirmsOrders, CancelConfirmsPos,
         CancelDone, CancelPostponed, At, CancelPcs
<1>2. CASE CancelBegins(t)
  BY <1>1, <1>2, SavedHedge, SetStatusIs DEF CancelBegins
<1>3. CASE CancelTimedOut(t) \/ CancelDone(t) \/ CancelPostponed(t)
  BY <1>1, <1>3, ReturnMoves DEF CancelTimedOut, CancelDone, CancelPostponed
<1>4. CASE CancelTick(t) \/ CancelReads(t) \/ CancelOrders(t)
           \/ CancelCloses(t) \/ CancelConfirmsOrders(t)
           \/ CancelConfirmsPos(t)
  BY <1>1, <1>4
  DEF CancelTick, CancelReads, CancelOrders, CancelCloses,
      CancelConfirmsOrders, CancelConfirmsPos, At, CancelPcs
<1> QED BY <1>2, <1>3, <1>4 DEF Cancellation

\* All the other steps are of threads that do not look at the status again.
LEMMA WildSteps ==
    ASSUME NEW t \in Threads,
           \/ Placement(t) \/ StopLoss(t) \/ EntryFill(t) \/ CycleEnd(t)
           \/ Rescue(t) \/ Monitor(t)
    PROVE  run[t].pc \notin Tame
<1>1. CASE Placement(t) \/ StopLoss(t)
  BY <1>1
  DEF Placement, PlaceSkipped, PlaceUnreadable, PlaceOversized,
      PlaceAdoptsPosition, PlaceAdoptsOrder, PlacePrepares, PlacementBegins,
      EntrySent, EntryRefused, EntryAcked, OversizeStops, StopLoss,
      SlWithoutPosition, SlSizes, SlReused, SlMissing, SlSent, SlRefused,
      SlAcked, At, Tame, CancelPcs
<1>2. CASE EntryFill(t) \/ CycleEnd(t)
  BY <1>2
  DEF EntryFill, EntryFillNoted, EntryFillRead, PartialCancels,
      PartialToppedUp, EntryFillBreached, EntryFillCovered, ExitRead, Closed,
      CycleEnd, SlFillNoted, CycleSaved, CycleNotSaved, ExitRecovered,
      CycleGuessed, SlVanished, At, Tame, CancelPcs
<1>3. CASE Rescue(t)
  BY <1>3
  DEF Rescue, EntryRecovered, EntryUnfilled, RescueDeclined, RescueLists,
      RescueReads, RescueCancels, RescueConfirms, RescueClears, IocSent,
      IocRefused, IocAcked, At, Tame, CancelPcs
<1>4. CASE Monitor(t)
  BY <1>4
  DEF Monitor, TickWaits, WaitingRetried, EntryChecked, PositionUnreadable,
      PositionGone, PositionOversized, PositionSeen, PendingSlFound,
      PendingSlBreached, PendingSlGrace, PendingSlRetried, ClosingRetried,
      ClosingAwaited, ProtectedBreached, ProtectedHolds, ProtectedLost,
      PositionTick, At, Tame, CancelPcs
<1> QED BY <1>1, <1>2, <1>3, <1>4

\* While a thread is at work, no request or fill waits, so what the queue
\* says of the hedge is kept.
LEMMA BusyQueue ==
    ASSUME TypeInv, QueueCalmInv, NEW t \in Threads, run[t].pc # "idle",
           Runs(t)
    PROVE  QueueCalmInv'
<1>1. queue' = queue  BY RunsQueue
<1>2. \A i \in DOMAIN queue : queue[i].kind \notin Slow  BY DEF QueueCalmInv
<1> QED BY <1>1, <1>2 DEF QueueCalmInv

LEMMA WildCalm ==
    ASSUME CalmInv, NEW t \in Threads,
           \/ Placement(t) \/ StopLoss(t) \/ EntryFill(t) \/ CycleEnd(t)
           \/ Rescue(t) \/ Monitor(t)
    PROVE  QueueCalmInv' /\ ThreadCalmInv' /\ hedge.status \notin Ending
<1> USE DEF CalmInv, BaseInv
<1>1. run[t].pc \notin Tame  BY WildSteps
<1>2. hedge.status \notin Ending  BY <1>1 DEF ThreadCalmInv
<1>3. KeepsStatus
  BY PlacementStatus, StopLossStatus, EntryFillStatus, CycleEndStatus,
     RescueStatus, MonitorStatus
<1>4. hedge'.status \notin Ending  BY <1>2, <1>3 DEF KeepsStatus
<1>5. Moves(t, {"cancel"} \cup CancelPcs)
  BY PlacementMoves, StopLossMoves, EntryFillMoves, CycleEndMoves,
     RescueMoves, MonitorMoves
  DEF Moves, Apart
<1>6. QueueCalmInv'
  BY <1>1, BusyQueue DEF Runs, Tame
<1>7. \A u \in Threads : run'[u].pc \notin CancelPcs \cup {"cancel"}
  <2>1. run'[t].pc \notin CancelPcs \cup {"cancel"}  BY <1>5 DEF Moves
  <2>2. ASSUME NEW u \in Threads, u # t
        PROVE  run'[u].pc \notin CancelPcs \cup {"cancel"}
    <3>1. run'[u] = run[u]  BY <1>5, <2>2 DEF Moves
    <3>2. run[u].pc \notin CancelPcs
      BY <1>2 DEF ThreadCalmInv, Ending
    <3>3. run[u].pc # "cancel"
      <4>1. CASE u = "creator"
        BY <4>1 DEF FirstInv, CreatorPcs
      <4>2. CASE u = "worker"
        <5>1. t = "creator" /\ run[t].pc # "idle"
          BY <1>1, <2>2, <4>2 DEF Threads, Tame
        <5> QED BY <4>2, <5>1 DEF ThreadCalmInv
      <4> QED BY <4>1, <4>2 DEF Threads
    <3> QED BY <3>1, <3>2, <3>3
  <2> QED BY <2>1, <2>2
<1>8. ThreadCalmInv'
  <2>1. "worker" \in Threads  BY DEF Threads
  <2> QED BY <1>4, <1>7, <2>1 DEF ThreadCalmInv
<1> QED BY <1>2, <1>6, <1>8

LEMMA OperationCalm ==
    ASSUME CalmInv, Operation("worker")
    PROVE  /\ QueueCalmInv' /\ ThreadCalmInv'
           /\ hedge.status = "cancelled" => hedge'.status = "cancelled"
<1> USE DEF CalmInv, BaseInv
<1>0. "worker" \in Threads /\ "creator" \in Threads /\ Runs("worker")
  BY DEF Threads, Runs
<1>1. /\ KeepsStatus
      /\ run'["worker"].pc # "idle" => hedge'.status \notin Ending
      /\ run["worker"].pc \in Tame /\ hedge.status \in Ending =>
           hedge'.status = hedge.status
      /\ run["worker"].pc \in {"retarget", "exit", "entryTrigger",
                               "exitTrigger"}
  BY <1>0, OperationStatus
<1>2. QueueCalmInv'  BY <1>0, <1>1, BusyQueue
<1>3. /\ run'["worker"].pc \in {"idle", "place", "sl", "rescue", "exitRead"}
      /\ run'["creator"] = run["creator"]
  BY <1>0, OperationMoves DEF Moves
<1>4. run["creator"].pc \in CreatorPcs  BY DEF FirstInv
<1>5. ASSUME run["creator"].pc \notin Tame
      PROVE  hedge'.status \notin Ending
  BY <1>0, <1>1, <1>5 DEF ThreadCalmInv, KeepsStatus
<1>6. ThreadCalmInv'
  <2>1. /\ run'["worker"].pc \notin Tame => hedge'.status \notin Ending
        /\ run'["worker"].pc \notin CancelPcs \cup {"cancel"}
    BY <1>1, <1>3 DEF Tame, CancelPcs
  <2>2. /\ run'["creator"].pc \notin Tame => hedge'.status \notin Ending
        /\ run'["creator"].pc \notin CancelPcs
    BY <1>3, <1>4, <1>5 DEF CreatorPcs, CancelPcs
  <2> QED BY <2>1, <2>2 DEF ThreadCalmInv, Threads
<1>7. hedge.status = "cancelled" => hedge'.status = "cancelled"
  <2> SUFFICES ASSUME hedge.status = "cancelled"
               PROVE  hedge'.status = "cancelled"
    OBVIOUS
  <2>1. run["worker"].pc \in Tame  BY <1>0 DEF ThreadCalmInv, Ending
  <2> QED BY <1>1, <2>1 DEF Ending
<1> QED BY <1>2, <1>6, <1>7

LEMMA CancellationCalm ==
    ASSUME CalmInv, Cancellation("worker")
    PROVE  QueueCalmInv' /\ ThreadCalmInv' /\ hedge.status # "cancelled"
<1> USE DEF CalmInv, BaseInv
<1>0. "worker" \in Threads /\ "creator" \in Threads /\ Runs("worker")
  BY DEF Threads, Runs
<1>1. /\ run["worker"].pc \in CancelPcs \cup {"cancel"}
      /\ \/ run'["worker"].pc = "idle"
         \/ hedge'.status = "cancel_pending"
         \/ run["worker"].pc \in CancelPcs /\ hedge' = hedge
  BY <1>0, CancellationStatus
<1>2. QueueCalmInv'  BY <1>0, <1>1, BusyQueue DEF CancelPcs
<1>3. hedge.status # "cancelled"  BY <1>0, <1>1 DEF ThreadCalmInv
<1>4. run["creator"].pc = "idle"
  <2>1. CASE run["worker"].pc = "cancel"  BY <2>1 DEF ThreadCalmInv
  <2>2. CASE run["worker"].pc \in CancelPcs
    <3>1. hedge.status = "cancel_pending"
      BY <1>0, <2>2 DEF ThreadCalmInv
    <3>2. run["creator"].pc \in Tame
      BY <1>0, <3>1 DEF ThreadCalmInv, Ending
    <3> QED BY <3>2 DEF FirstInv, CreatorPcs, Tame, CancelPcs
  <2> QED BY <1>1, <2>1, <2>2
<1>5. /\ run'["worker"].pc \in {"idle"} \cup CancelPcs
      /\ run'["creator"] = run["creator"]
  BY <1>0, CancellationMoves DEF Moves
<1>6. run'["worker"].pc \in CancelPcs => hedge'.status = "cancel_pending"
  BY <1>0, <1>1 DEF ThreadCalmInv, CancelPcs
<1>7. ThreadCalmInv'
  <2>1. run'["creator"].pc \in Tame \ CancelPcs
    BY <1>4, <1>5 DEF Tame, CancelPcs
  <2>2. run'["worker"].pc \in Tame /\ run'["worker"].pc # "cancel"
    BY <1>5 DEF Tame, CancelPcs
  <2> QED BY <1>6, <2>1, <2>2 DEF ThreadCalmInv, Threads
<1> QED BY <1>2, <1>3, <1>7

LEMMA JobStartsCalm ==
    ASSUME CalmInv, JobStarts
    PROVE  QueueCalmInv' /\ ThreadCalmInv'
<1> USE DEF CalmInv, BaseInv, TypeInv
<1> DEFINE job == Head(queue)
<1>1. PICK f \in Frames :
        /\ run' = [run EXCEPT !["worker"] = f]
        /\ f.pc = IF job.kind = "tick" THEN TickPc[hedge.status] ELSE job.kind
        /\ job \in Jobs
  BY JobStartsFrame
<1>2. run'["creator"] = run["creator"] /\ run'["worker"] = f
  BY <1>1 DEF FramesTyped, Threads
<1>3. hedge' = hedge /\ queue' = Tail(queue) /\ queue # <<>>
  BY DEF JobStarts
<1>4. queue \in Seq(Jobs)  BY DEF QueueTyped
<1>5. \A i \in DOMAIN queue' :
        i \in Nat \ {0} /\ i + 1 \in DOMAIN queue /\ queue'[i] = queue[i + 1]
  BY <1>3, <1>4
<1>6. 1 \in DOMAIN queue /\ job = queue[1]  BY <1>3, <1>4
<1>7. \A i \in DOMAIN queue' : queue'[i].kind \notin Slow
  <2> SUFFICES ASSUME NEW i \in DOMAIN queue' PROVE queue'[i].kind \notin Slow
    OBVIOUS
  <2>1. i + 1 # 1  BY <1>5
  <2> QED BY <1>5, <2>1 DEF QueueCalmInv
<1>8. hedge.status \in Statuses  BY DEF HedgeTyped, Hedges
<1>9. /\ f.pc \notin Tame => hedge.status \notin Ending
      /\ f.pc \in CancelPcs => hedge.status = "cancel_pending"
      /\ f.pc = "cancel" =>
           hedge.status # "cancelled" /\ run["creator"].pc = "idle"
  <2>1. CASE job.kind = "tick"
    BY <1>1, <1>8, <2>1, TickHandlers DEF Statuses, Ending, Tame, CancelPcs
  <2>2. CASE job.kind \in {"entryTrigger", "exitTrigger", "exit"}
    BY <1>1, <2>2 DEF Tame, CancelPcs
  <2>3. CASE job.kind = "cancel"
    <3>1. job.kind \in Slow  BY <2>3 DEF Slow, UserJobs
    <3>2. hedge.status # "cancelled" /\ run["creator"].pc = "idle"
      BY <1>6, <2>3, <3>1 DEF QueueCalmInv, Threads
    <3> QED BY <1>1, <2>3, <3>2 DEF Tame, CancelPcs
  <2>4. CASE job.kind \in {"retarget", "entryFill", "slFill"}
    <3>1. job.kind \in Slow  BY <2>4 DEF Slow, UserJobs
    <3>2. hedge.status \notin Ending
      BY <1>6, <2>4, <3>1 DEF QueueCalmInv
    <3> QED BY <1>1, <2>4, <3>2 DEF CancelPcs
  <2>5. job.kind \in UserJobs \cup {"tick", "entryFill", "slFill",
                                    "entryTrigger", "exitTrigger"}
    BY <1>1 DEF Jobs
  <2> QED BY <2>1, <2>2, <2>3, <2>4, <2>5 DEF UserJobs
<1>10. QueueCalmInv'  BY <1>7 DEF QueueCalmInv
<1>11. ThreadCalmInv'
  <2>1. "creator" \in Threads /\ "worker" \in Threads  BY DEF Threads
  <2> QED BY <1>2, <1>3, <1>9, <2>1 DEF ThreadCalmInv, Threads
<1> QED BY <1>10, <1>11

\* A job that is queued when nothing is under way, or that looks at the status
\* itself.
LEMMA EnqueuedCalm ==
    ASSUME CalmInv, NEW job, Enqueue(job), UNCHANGED <<hedge, run>>,
           job.kind \in Slow =>
             /\ queue = <<>>
             /\ \A t \in Threads : run[t].pc = "idle"
             /\ job.kind = "cancel" => hedge.status # "cancelled"
             /\ job.kind \in {"retarget", "entryFill", "slFill"} =>
                  hedge.status \notin Ending
    PROVE  QueueCalmInv' /\ ThreadCalmInv'
<1>1. ThreadCalmInv'  BY DEF CalmInv, ThreadCalmInv
<1>2. QueueTyped  BY DEF CalmInv, BaseInv, TypeInv
<1>3. SUFFICES ASSUME NEW i \in DOMAIN queue', queue'[i].kind \in Slow
               PROVE  /\ i = 1
                      /\ \A t \in Threads : run[t].pc = "idle"
                      /\ queue'[i].kind = "cancel" => hedge.status # "cancelled"
                      /\ queue'[i].kind \in {"retarget", "entryFill", "slFill"}
                           => hedge.status \notin Ending
  BY <1>1 DEF QueueCalmInv
<1>4. CASE i \in DOMAIN queue /\ queue'[i] = queue[i]
  BY <1>3, <1>4 DEF CalmInv, QueueCalmInv
<1>5. CASE i = Len(queue) + 1 /\ queue'[i] = job
  <2>1. queue = <<>>  BY <1>3, <1>5
  <2>2. i = 1  BY <1>5, <2>1
  <2> QED BY <1>3, <1>5, <2>2
<1> QED BY <1>2, <1>3, <1>4, <1>5, EnqueuedLast

LEMMA OutsideCalm ==
    ASSUME Undisturbed, CalmInv,
           \/ Exchange \/ FillLost \/ FillArrives \/ PriceArrives
           \/ TickReads \/ TickQueued \/ JobStarts
           \/ (\E kind \in Requests : Requested(kind)) \/ Crash
    PROVE  QueueCalmInv' /\ ThreadCalmInv' /\ hedge' = hedge
<1>0. CASE UNCHANGED <<hedge, run, queue>>
  BY <1>0 DEF CalmInv, QueueCalmInv, ThreadCalmInv
<1>1. ~Crash  BY DEF Crash, Mishap, Undisturbed
<1>2. CASE Exchange \/ FillLost \/ TickReads
  BY <1>0, <1>2 DEF Exchange, EntryFires, StopLossFires, StopLossLapses,
                    ClosedOutside, FillLost, TickReads
<1>3. CASE JobStarts  BY <1>3, JobStartsCalm DEF JobStarts
<1>4. CASE FillArrives
  <2> DEFINE fill == Head(inbox)
  <2>1. UNCHANGED <<hedge, run>>  BY <1>4 DEF FillArrives
  <2>2. queue = <<>> /\ \A t \in Threads : run[t].pc = "idle"
    BY <1>4 DEF FillArrives, Unhurried, Undisturbed, At
  <2>3. \/ queue' = queue
        \/ \E kind \in FillMatches(fill) :
             Enqueue([Job(kind) EXCEPT !.fill = fill])
    BY <1>4, Zenon DEF FillArrives
  <2>4. ASSUME NEW kind \in FillMatches(fill),
               Enqueue([Job(kind) EXCEPT !.fill = fill])
        PROVE  QueueCalmInv' /\ ThreadCalmInv'
    <3> DEFINE new == [Job(kind) EXCEPT !.fill = fill]
    <3>1. new.kind = kind  BY KindOfJob
    <3>2. kind \in {"entryFill", "slFill"} /\ hedge.status \notin Ending
      BY <2>4 DEF FillMatches, OpenStatuses, Ending
    <3>3. Enqueue(new)  BY <2>4
    <3> HIDE DEF new
    <3> QED BY <2>1, <2>2, <3>1, <3>2, <3>3, EnqueuedCalm
  <2> QED BY <1>0, <2>1, <2>3, <2>4
<1>5. CASE PriceArrives
  <2>1. PICK kind \in {"entryTrigger", "exitTrigger"} : Enqueue(Job(kind))
    BY <1>5 DEF PriceArrives
  <2>2. Job(kind).kind \notin Slow  BY KindOfJob DEF Slow, UserJobs
  <2>3. UNCHANGED <<hedge, run>>  BY <1>5 DEF PriceArrives
  <2> QED BY <2>1, <2>2, <2>3, EnqueuedCalm
<1>6. CASE TickQueued
  <2> DEFINE new == [Job("tick") EXCEPT
                       !.snap = [ok |-> tick.ok, seen |-> tick.seen]]
  <2>1. new.kind \notin Slow  BY KindOfJob DEF Slow, UserJobs
  <2>2. Enqueue(new) /\ UNCHANGED <<hedge, run>>  BY <1>6 DEF TickQueued
  <2> HIDE DEF new
  <2> QED BY <2>1, <2>2, EnqueuedCalm
<1>7. CASE \E kind \in Requests : Requested(kind)
  <2>1. PICK kind \in Requests : Requested(kind)  BY <1>7
  <2>2. kind \in UserJobs  BY HedgeAssumption DEF HedgeAssumption
  <2>3. /\ Enqueue(Job(kind)) /\ UNCHANGED <<hedge, run>>
        /\ queue = <<>> /\ \A t \in Threads : run[t].pc = "idle"
    BY <2>1 DEF Requested, Unhurried, Undisturbed, At
  <2>4. /\ kind = "cancel" => hedge.status # "cancelled"
        /\ kind = "retarget" => hedge.status \notin Ending
    BY <2>1 DEF Requested, Ending
  <2>5. Job(kind).kind = kind  BY KindOfJob
  <2> QED BY <2>2, <2>3, <2>4, <2>5, EnqueuedCalm DEF UserJobs
<1> QED BY <1>1, <1>2, <1>3, <1>4, <1>5, <1>6, <1>7

LEMMA CalmInit == Init => CalmInv
<1> SUFFICES ASSUME Init PROVE CalmInv
  OBVIOUS
<1>1. BaseInv  BY BaseInit
<1>2. QueueCalmInv  BY DEF Init, QueueCalmInv
<1>3. ThreadCalmInv
  <2>1. run["worker"].pc = "idle" /\ run["creator"].pc = "placing"
    BY DEF Init, Frame, Threads
  <2>2. hedge.status = "entry_pending"  BY DEF Init, NewHedge
  <2> QED BY <2>1, <2>2 DEF ThreadCalmInv, Threads, Ending, Tame, CancelPcs
<1> QED BY <1>1, <1>2, <1>3 DEF CalmInv

LEMMA CalmStep ==
    ASSUME Undisturbed, CalmInv, [Next]_vars
    PROVE  /\ CalmInv'
           /\ hedge.status = "cancelled" => hedge'.status = "cancelled"
<1>1. BaseInv'  BY BaseStep DEF CalmInv
<1>2. CASE Runs("creator")
  <2>1. Placement("creator")
    BY <1>2, CreatorPlaces DEF CalmInv, BaseInv, FirstInv
  <2> QED BY <1>1, <2>1, WildCalm DEF CalmInv, Threads, Ending
<1>3. CASE Runs("worker")
  <2>1. CASE Operation("worker")
    BY <1>1, <2>1, OperationCalm DEF CalmInv
  <2>2. CASE Cancellation("worker")
    BY <1>1, <2>2, CancellationCalm DEF CalmInv
  <2>3. CASE \/ Placement("worker") \/ StopLoss("worker")
             \/ EntryFill("worker") \/ CycleEnd("worker")
             \/ Rescue("worker") \/ Monitor("worker")
    BY <1>1, <2>3, WildCalm DEF CalmInv, Threads, Ending
  <2> QED BY <1>3, <2>1, <2>2, <2>3 DEF Runs
<1>4. CASE \/ Exchange \/ FillLost \/ FillArrives \/ PriceArrives
           \/ TickReads \/ TickQueued \/ JobStarts
           \/ (\E kind \in Requests : Requested(kind)) \/ Crash
  BY <1>1, <1>4, OutsideCalm DEF CalmInv
<1>5. CASE UNCHANGED vars
  BY <1>1, <1>5 DEF vars, CalmInv, QueueCalmInv, ThreadCalmInv
<1> QED BY <1>2, <1>3, <1>4, <1>5 DEF Next, Threads

\* Nothing revives a cancelled hedge, whatever fails and whichever list of
\* orders a tick brings: when the lock is granted to a request or to a fill
\* that was not overtaken on the way, what was looked at before still holds,
\* and whoever else gets the lock looks at the status again.  A fill that is
\* overtaken by a cancellation and a restart from a row that was not saved do
\* revive it.
THEOREM CancelledIsFinalTheorem ==
    ASSUME Undisturbed
    PROVE  Spec => CancelledIsFinal
<1>1. CalmInv /\ [Next]_vars => CalmInv'  BY CalmStep
<1>2. CalmInv /\ [Next]_vars =>
        [hedge.status = "cancelled" => hedge'.status = "cancelled"]_vars
  BY CalmStep
<1> QED BY <1>1, <1>2, CalmInit, PTL DEF Spec, CancelledIsFinal

-----------------------------------------------------------------------------
(* The orders of the hedge, as long as nothing has gone wrong and nothing   *)
(* is overtaken on the way to the lock.                                     *)

Work == run["worker"]
Creation == run["creator"]

\* The order ids the hedge knows of, or is about to.
LiveEntry == IF Creation.pc = "sent" THEN Creation.fill.oid
             ELSE IF Work.pc \in {"sent", "iocSent"} THEN Work.fill.oid
             ELSE hedge.entryOid
LiveSl == IF Work.pc = "slSent" THEN Work.fill.oid ELSE hedge.slOid

\* The hedge knows every order that is open: an entry for a position that is
\* not there yet, or a stop loss for the whole of one that is.
LedgerInv ==
    /\ pos <= Size
    /\ \A o \in Entries : pos = 0 /\ LiveSl = NoOid /\ o.oid = LiveEntry
    /\ \A o \in StopLosses : o.sz = pos /\ o.oid = LiveSl

\* An order that has executed is not open, and a stop loss that has executed
\* has closed the position.
FilledInv ==
    /\ \A o \in orders : o.oid < nextOid
    /\ \A f \in filled : f.oid < nextOid /\ \A o \in orders : o.oid # f.oid
    /\ \A i \in DOMAIN inbox : inbox[i] \in filled
    /\ "partial" \notin Executions =>
         \A f \in filled : f.oid = LiveSl => pos = 0

\* The status tells which orders can be open.
Withdrawing == hedge.status = "cancel_pending"
               /\ Work.pc \in {"cancelRead", "cancelOrders"}
StatusInv ==
    /\ hedge.status = "waiting" => hedge.entryOid = NoOid
    /\ hedge.status = "entry_pending" => hedge.slOid = NoOid
    /\ Entries # {} =>
         hedge.status \in {"entry_pending", "error"} \/ Work.pc = "sent"
         \/ Withdrawing
    /\ StopLosses # {} =>
         hedge.status = "open_protected" \/ Work.pc = "slSent" \/ Withdrawing

PlacePcs == {"place", "send", "sent"}
FillPcs == {"entryFill", "entryRead", "partial", "topup", "entryExit"}
RescuePcs == {"rescue", "rescueRead", "rescueCancel", "rescueConfirm",
              "iocRead", "iocSend", "iocSent"}
SlPcs == {"sl", "slOrders", "slSend", "slSent"}
ClosePcs == {"closingTick", "exitRead", "close"}
EndPcs == {"slFill", "exitFills", "finalize"}
Inside == OpenStatuses \cup {"closing"}
Retargetable == {"waiting", "entry_pending", "error"}

\* Where the worker can be in each status.
PlaceInv ==
    /\ Work.pc \in FillPcs \cup RescuePcs \cup {"entryTick", "entryFills"}
         => hedge.status = "entry_pending"
    /\ Work.pc \in PlacePcs => hedge.status \in {"waiting", "entry_pending"}
    /\ Work.pc = "waitingTick" => hedge.status = "waiting"
    /\ Work.pc = "retarget" => hedge.status \in Retargetable
    /\ Work.pc \in SlPcs => hedge.status \in OpenStatuses
    /\ Work.pc \in {"pendingSlTick", "pendingSlNext"}
         => hedge.status = "entry_filled_pending_sl"
    /\ Work.pc \in {"protectedTick", "protectedNext"}
         => hedge.status = "open_protected"
    /\ Work.pc \in ClosePcs => hedge.status = "closing"
    /\ Work.pc \in EndPcs => hedge.status \in Inside
    /\ Work.pc = "exitFills" /\ Work.then = "protect"
         => hedge.status = "open_protected"
    /\ Work.pc \in CancelPcs => hedge.status = "cancel_pending"
    /\ Work.pc # "placing"

\* Where the worker knows that no order is open.
BarePcs == FillPcs \cup ClosePcs \cup EndPcs \cup (PlacePcs \ {"sent"})
           \cup (SlPcs \ {"slSent"}) \cup (CancelPcs \ {"cancelRead", "cancelOrders"})
           \cup {"rescueConfirm", "iocRead", "iocSend", "iocSent", "entryFills",
                 "waitingTick", "pendingSlTick", "pendingSlNext", "oversize"}

\* What the worker knows of the exchange at each await.
KnowsInv ==
    /\ Work.pc \in BarePcs => orders = {}
    /\ Work.pc \in PlacePcs => hedge.entryOid = NoOid
    /\ Work.pc \in {"send", "sent"} => hedge.slOid = NoOid
    /\ Work.pc \in {"send", "iocRead", "iocSend", "cancelLastOrders"} => pos = 0
    /\ Work.pc \in {"partial", "topup"} => pos <= hedge.size
    /\ Work.pc \in {"slOrders", "slSend"} => hedge.size = pos
    /\ Work.pc \in {"sent", "slSent"} => Work.fill.oid < nextOid
    /\ Work.pc = "exitFills" /\ Work.then = "complete" => pos = 0
    /\ Work.pc \in {"slFill", "finalize"} /\ "partial" \notin Executions
         => pos = 0
    /\ Work.pc = "iocRead" => \A f \in filled : f.oid # hedge.entryOid
    /\ Work.pc = "iocSend" => \A f \in filled : f.oid # Work.fill.oid

\* The list of open orders at hand shows those that are still open.
Listed == orders \subseteq Work.snap.seen
          /\ \A o \in Work.snap.seen : o.oid = hedge.entryOid
ListInv ==
    /\ Work.snap.ok
    /\ Work.pc = "entryTick" => hedge.placing \/ Listed
    /\ Work.pc = "rescue" /\ Work.then = "listed" => Listed
    /\ Work.pc = "rescueRead" => Listed
    /\ Work.pc \in {"rescueCancel", "rescueConfirm"} => Work.then = "ioc"
    /\ Work.pc \in {"place", "waitingTick", "pendingSlTick", "retarget"}
         => Work.snap.seen = {}
    /\ Work.pc = "entryFills" /\ Work.then = "replace" => Work.snap.seen = {}
    /\ Work.pc \in {"protectedTick", "protectedNext", "cancelOrders"}
         => orders \subseteq Work.snap.seen

\* createHedge places its first order alone.
CreatorInv ==
    Creation.pc # "idle" =>
        /\ Creation.pc \in {"placing", "send", "sent"}
        /\ hedge.status = "entry_pending" /\ hedge.placing
        /\ hedge.entryOid = NoOid /\ hedge.slOid = NoOid
        /\ Work.pc \in {"idle", "entryTick"}
        /\ \A i \in DOMAIN queue : queue[i].kind = "tick"
        /\ Creation.snap = NoOrders
        /\ Creation.pc \in {"placing", "send"} => pos = 0 /\ orders = {}
        /\ Creation.pc = "sent" => Creation.fill.oid < nextOid

\* A request or a fill that waits finds the hedge as it was when it came.
FillWaits(job, statuses, oid) ==
    hedge.status \in statuses /\ job.fill.oid = oid /\ job.fill \in filled
WaitingInv ==
    /\ tick.on => tick.ok
    /\ \A i \in DOMAIN queue :
         /\ queue[i].snap.ok
         /\ queue[i].kind # "tick" => queue[i].snap = NoOrders
         /\ queue[i].kind \in Slow =>
              i = 1 /\ \A t \in Threads : run[t].pc = "idle"
         /\ queue[i].kind = "retarget" => hedge.status \in Retargetable
         /\ queue[i].kind = "entryFill" =>
              FillWaits(queue[i], {"entry_pending"}, hedge.entryOid)
         /\ queue[i].kind = "slFill" =>
              FillWaits(queue[i], Inside, hedge.slOid)

\* What the orders, the hedge and the awaits of the worker have to do with
\* each other.
OwnInv == LedgerInv /\ FilledInv /\ StatusInv /\ PlaceInv /\ KnowsInv /\ ListInv
OrderlyInv == BaseInv /\ OwnInv /\ CreatorInv /\ WaitingInv

\* Nothing goes wrong in this step.
NoMishap == ~Mishap("fault") /\ ~Mishap("crash")

\* The worker moves, and createHedge is done.
Alone ==
    /\ Creation.pc = "idle" /\ Creation' = Creation
    /\ Work.pc # "idle"
    /\ UNCHANGED <<queue, tick>>

LEMMA AloneWaits ==
    ASSUME CreatorInv, WaitingInv, Alone
    PROVE  CreatorInv' /\ WaitingInv'
<1>1. CreatorInv'  BY DEF CreatorInv, Alone
<1>2. \A i \in DOMAIN queue : queue[i].kind \notin Slow
  BY DEF WaitingInv, Alone, Work, Threads
<1>3. WaitingInv'  BY <1>2 DEF WaitingInv, Alone, Slow, UserJobs
<1> QED BY <1>1, <1>3

\* What is known of the variables the worker moves.
LEMMA WorkTyped ==
    ASSUME BaseInv
    PROVE  /\ hedge \in Hedges /\ Work \in Frames /\ Creation \in Frames
           /\ orders \subseteq Orders /\ filled \subseteq Fills
           /\ pos \in Nat /\ nextOid \in Nat \ {0} /\ Size \in Nat \ {0}
           /\ \A f \in filled : f.oid \in Nat \ {0}
           /\ \A o \in orders : o.oid \in Nat \ {0} /\ o.sz \in Nat \ {0}
           /\ hedge.entryOid \in Nat /\ hedge.slOid \in Nat
<1>1. /\ hedge \in Hedges /\ Work \in Frames /\ Creation \in Frames
      /\ orders \subseteq Orders /\ filled \subseteq Fills
      /\ pos \in Nat /\ nextOid \in 1 .. MaxOids + 1
  BY DEF BaseInv, TypeInv, HedgeTyped, FramesTyped, ExchangeTyped, Work,
         Creation, Threads
<1>2. MaxOids \in Nat /\ Size \in Nat \ {0}  BY LotsGrow
<1>3. Size * MaxOids \in Nat  BY <1>2, LotsGrow
<1>4. nextOid \in Nat \ {0}  BY <1>1, <1>2
<1>5. \A f \in filled : f.oid \in Nat \ {0}  BY <1>1, <1>2 DEF Fills, Oids
<1>6. \A o \in orders : o.oid \in Nat \ {0} /\ o.sz \in Nat \ {0}
  BY <1>1, <1>2, <1>3 DEF Orders, Oids
<1>7. hedge.entryOid \in Nat /\ hedge.slOid \in Nat
  BY <1>1, <1>2 DEF Hedges, Oids, NoOid
<1> QED BY <1>1, <1>2, <1>4, <1>5, <1>6, <1>7

\* An order is an entry or a stop loss.
LEMMA TwoKinds ==
    ASSUME orders \subseteq Orders
    PROVE  /\ orders = Entries \cup StopLosses
           /\ orders = {} <=> Entries = {} /\ StopLosses = {}
BY DEF Orders, Entries, StopLosses

\* Where the worker goes.
LEMMA WorkGoes ==
    ASSUME BaseInv, NEW p, Goto("worker", p)
    PROVE  /\ Work'.pc = p
           /\ Work'.fill = Work.fill /\ Work'.snap = Work.snap
           /\ Work'.then = Work.then /\ Work'.pos = Work.pos
           /\ Work'.onThrow = Work.onThrow
BY DEF BaseInv, TypeInv, FramesTyped, Frames, Goto, Work, Threads

LEMMA WorkReturns ==
    ASSUME BaseInv, Return("worker")
    PROVE  Work' = Frame("idle") /\ Work'.pc = "idle" /\ Work'.snap.ok
BY DEF BaseInv, TypeInv, FramesTyped, Return, Work, Threads, Frame, NoOrders

\* A worker that rests claims nothing.
LEMMA Idles ==
    ASSUME Work'.pc = "idle", Work'.snap.ok
    PROVE  PlaceInv' /\ KnowsInv' /\ ListInv'
<1>1. PlaceInv'
  BY DEF PlaceInv, FillPcs, RescuePcs, PlacePcs, SlPcs, ClosePcs, EndPcs,
         CancelPcs
<1>2. KnowsInv'
  BY DEF KnowsInv, BarePcs, FillPcs, PlacePcs, SlPcs, ClosePcs, EndPcs,
         CancelPcs
<1>3. ListInv'  BY DEF ListInv
<1> QED BY <1>1, <1>2, <1>3

LEMMA Rests ==
    ASSUME BaseInv, Return("worker")
    PROVE  PlaceInv' /\ KnowsInv' /\ ListInv'
BY WorkReturns, Idles

\* Where no order is open, none that is open can be out of place.
LEMMA BareStep ==
    ASSUME BaseInv, LedgerInv, FilledInv, orders' = {}, pos' \in 0 .. pos,
           UNCHANGED <<filled, inbox, nextOid>>,
           LiveSl' \in {LiveSl, NoOid},
           hedge'.status = "waiting" => hedge'.entryOid = NoOid,
           hedge'.status = "entry_pending" => hedge'.slOid = NoOid
    PROVE  LedgerInv' /\ FilledInv' /\ StatusInv'
<1>0. /\ pos \in Nat /\ Size \in Nat /\ \A f \in filled : f.oid \in Nat \ {0}
  BY WorkTyped
<1>1. Entries' = {} /\ StopLosses' = {}  BY DEF Entries, StopLosses
<1>2. LedgerInv'
  <2>1. pos' <= Size  BY <1>0 DEF LedgerInv
  <2> QED BY <1>1, <2>1 DEF LedgerInv
<1>3. FilledInv'
  <2>1. ASSUME "partial" \notin Executions, NEW f \in filled, f.oid = LiveSl'
        PROVE  pos' = 0
    <3>1. f.oid = LiveSl  BY <1>0, <2>1 DEF NoOid
    <3>2. pos = 0  BY <2>1, <3>1 DEF FilledInv
    <3> QED BY <3>2
  <2> QED BY <2>1 DEF FilledInv
<1>4. StatusInv'  BY <1>1 DEF StatusInv
<1> QED BY <1>2, <1>3, <1>4

-----------------------------------------------------------------------------
(* A stop loss is placed where none is open.                               *)

\* What an exception leaves of the hedge.
LEMMA ThrownOids ==
    ASSUME NEW h \in Hedges, NEW t \in Threads, Throw(t, h)
    PROVE  /\ hedge'.status \in {h.status, "error", "entry_filled_pending_sl"}
           /\ hedge'.entryOid = h.entryOid /\ hedge'.slOid = h.slOid
<1> DEFINE tries == h.entryRetry + 1
           spent == tries >= MaxEntryRetries
<1>1. \/ hedge' = [h EXCEPT !.status = "error"]
      \/ hedge' = h
      \/ hedge' = [h EXCEPT !.status = "entry_filled_pending_sl"]
      \/ hedge' = [h EXCEPT !.entryRetry = tries,
                            !.status = IF spent THEN "error" ELSE @]
  BY SavedHedge DEF Throw
<1> HIDE DEF tries, spent
<1> QED BY <1>1 DEF Hedges

\* An exception at an await where no order is open.
LEMMA BareThrow ==
    ASSUME OrderlyInv, NEW h \in Hedges, Throw("worker", h), orders = {},
           UNCHANGED exchange, Work.pc # "slSent", h.slOid \in {hedge.slOid, NoOid},
           Work.pc \notin {"sent", "iocSent"},
           h.status = "waiting" => h.entryOid = NoOid,
           h.status = "entry_pending" => h.slOid = NoOid
    PROVE  OwnInv'
<1> USE DEF OrderlyInv, OwnInv
<1>1. Return("worker")  BY DEF Throw
<1>2. Work'.pc = "idle"  BY <1>1, WorkReturns
<1>3. /\ hedge'.status \in {h.status, "error", "entry_filled_pending_sl"}
      /\ hedge'.entryOid = h.entryOid /\ hedge'.slOid = h.slOid
  BY ThrownOids DEF Threads
<1>4. LiveSl' \in {LiveSl, NoOid}  BY <1>2, <1>3 DEF LiveSl
<1>5. pos' = pos /\ pos \in Nat /\ orders' = {}
      /\ UNCHANGED <<filled, inbox, nextOid>>
  BY WorkTyped DEF exchange
<1>6. LedgerInv' /\ FilledInv' /\ StatusInv'
  BY <1>3, <1>4, <1>5, BareStep
<1> QED BY <1>1, <1>6, Rests

LEMMA StopLossOrderly ==
    ASSUME OrderlyInv, NoMishap, Alone, StopLoss("worker")
    PROVE  OwnInv'
<1> USE DEF OrderlyInv, OwnInv
<1>0. /\ hedge \in Hedges /\ Work \in Frames /\ pos \in Nat
      /\ nextOid \in Nat \ {0} /\ Work = run["worker"]
      /\ \A f \in filled : f.oid \in Nat \ {0}
      /\ orders \subseteq Orders
  BY WorkTyped DEF Work
<1>1. CASE SlWithoutPosition("worker")
  <2>1. Work.pc = "sl" /\ Throw("worker", hedge) /\ UNCHANGED exchange
    BY <1>0, <1>1 DEF SlWithoutPosition, At
  <2>2. orders = {} /\ hedge.status \in OpenStatuses
    BY <2>1 DEF KnowsInv, BarePcs, SlPcs, PlaceInv
  <2> QED BY <1>0, <2>1, <2>2, BareThrow DEF OpenStatuses
<1>2. CASE SlSizes("worker")
  <2>1. Work.pc = "sl" /\ pos > 0 /\ Goto("worker", "slOrders")
        /\ UNCHANGED exchange /\ hedge' = [hedge EXCEPT !.size = pos]
    BY <1>0, <1>2 DEF SlSizes, At
  <2>2. orders = {} /\ hedge.status \in OpenStatuses
    BY <2>1 DEF KnowsInv, BarePcs, SlPcs, PlaceInv
  <2>3. /\ hedge'.status = hedge.status /\ hedge'.entryOid = hedge.entryOid
        /\ hedge'.slOid = hedge.slOid /\ hedge'.size = pos
    BY <1>0, <2>1 DEF Hedges
  <2>4. Work'.pc = "slOrders" /\ Work'.snap = Work.snap
    BY <2>1, WorkGoes
  <2>5. LiveSl' = LiveSl  BY <2>1, <2>3, <2>4 DEF LiveSl
  <2>6. LedgerInv' /\ FilledInv' /\ StatusInv'
    BY <1>0, <2>1, <2>2, <2>3, <2>5, BareStep DEF exchange, OpenStatuses
  <2>7. PlaceInv'
    BY <2>2, <2>3, <2>4
    DEF PlaceInv, FillPcs, RescuePcs, PlacePcs, SlPcs, ClosePcs, EndPcs,
        CancelPcs
  <2>8. KnowsInv'
    BY <2>1, <2>2, <2>3, <2>4
    DEF KnowsInv, exchange, PlacePcs
  <2>9. ListInv'  BY <2>4 DEF ListInv
  <2> QED BY <2>6, <2>7, <2>8, <2>9

<1>3. CASE SlReused("worker")
  <2>1. Work.pc = "slOrders" /\ FreshSls # {}
    BY <1>0, <1>3 DEF SlReused, At
  <2>2. orders = {}
    BY <2>1 DEF KnowsInv, BarePcs, SlPcs
  <2> QED BY <2>1, <2>2 DEF FreshSls, MatchingSl
<1>4. CASE SlMissing("worker")
  <2>1. Work.pc = "slOrders" /\ Goto("worker", "slSend")
        /\ UNCHANGED <<hedge, exchange>>
    BY <1>0, <1>4 DEF SlMissing, At
  <2>2. orders = {} /\ hedge.status \in OpenStatuses /\ hedge.size = pos
    BY <2>1 DEF KnowsInv, BarePcs, SlPcs, PlaceInv
  <2>3. Work'.pc = "slSend" /\ Work'.snap = Work.snap
    BY <2>1, WorkGoes
  <2>4. LiveSl' = LiveSl  BY <2>1, <2>3 DEF LiveSl
  <2>5. LedgerInv' /\ FilledInv' /\ StatusInv'
    BY <1>0, <2>1, <2>2, <2>4, BareStep DEF exchange, OpenStatuses
  <2>6. PlaceInv'
    BY <2>1, <2>2, <2>3
    DEF PlaceInv, FillPcs, RescuePcs, PlacePcs, SlPcs, ClosePcs, EndPcs,
        CancelPcs
  <2>7. KnowsInv'
    BY <2>1, <2>2, <2>3
    DEF KnowsInv, exchange, PlacePcs
  <2>8. ListInv'  BY <2>3 DEF ListInv
  <2> QED BY <2>5, <2>6, <2>7, <2>8
<1>5. CASE SlSent("worker")
  <2> DEFINE o == NewSl
  <2>1. /\ Work.pc = "slSend" /\ pos > 0 /\ orders' = orders \cup {o}
        /\ run' = [run EXCEPT !["worker"].pc = "slSent",
                              !["worker"].fill = [oid |-> nextOid, sz |-> 0]]
        /\ nextOid' = nextOid + 1
        /\ UNCHANGED <<hedge, pos, filled, inbox>>
    BY <1>0, <1>5 DEF SlSent, Accepted, At
  <2>2. orders = {} /\ hedge.status \in OpenStatuses /\ hedge.size = pos
    BY <2>1 DEF KnowsInv, BarePcs, SlPcs, PlaceInv
  <2>3. o.oid = nextOid /\ o.kind = "sl" /\ o.sz = pos
    BY <2>2 DEF NewSl
  <2>4. /\ Work'.pc = "slSent" /\ Work'.fill = [oid |-> nextOid, sz |-> 0]
        /\ Work'.snap = Work.snap
    BY <1>0, <2>1 DEF BaseInv, TypeInv, FramesTyped, Frames, Work, Threads
  <2>5. LiveSl' = nextOid  BY <2>4 DEF LiveSl
  <2> HIDE DEF o
  <2>6. orders' = {o} /\ Entries' = {} /\ StopLosses' = {o}
    BY <2>1, <2>2, <2>3 DEF Entries, StopLosses
  <2>7. LedgerInv'
    BY <2>1, <2>3, <2>5, <2>6 DEF LedgerInv
  <2>8. FilledInv'
    BY <1>0, <2>1, <2>3, <2>5, <2>6 DEF FilledInv
  <2>9. StatusInv'
    BY <2>1, <2>2, <2>4, <2>6 DEF StatusInv, OpenStatuses
  <2>10. PlaceInv'
    BY <2>1, <2>2, <2>4
    DEF PlaceInv, FillPcs, RescuePcs, PlacePcs, SlPcs, ClosePcs, EndPcs,
        CancelPcs
  <2>11. KnowsInv'
    BY <1>0, <2>1, <2>4
    DEF KnowsInv, BarePcs, FillPcs, PlacePcs, SlPcs, ClosePcs, EndPcs,
        CancelPcs
  <2>12. ListInv'  BY <2>4 DEF ListInv
  <2> QED BY <2>7, <2>8, <2>9, <2>10, <2>11, <2>12
<1>6. CASE SlRefused("worker")
  <2>1. Work.pc = "slSend" /\ Throw("worker", hedge)
        /\ UNCHANGED exchange
    BY <1>0, <1>6 DEF SlRefused, At, NoMishap, exchange
  <2>2. orders = {} /\ hedge.status \in OpenStatuses
    BY <2>1 DEF KnowsInv, BarePcs, SlPcs, PlaceInv
  <2> QED BY <1>0, <2>1, <2>2, BareThrow DEF OpenStatuses
<1>7. CASE SlAcked("worker")
  <2>1. Work.pc = "slSent" /\ hedge' = Protected("worker", Work.fill.oid)
        /\ Return("worker") /\ UNCHANGED exchange
    BY <1>0, <1>7, SavedHedge DEF SlAcked, At
  <2>2. hedge'.status = "open_protected" /\ hedge'.slOid = Work.fill.oid
    BY <1>0, <2>1 DEF Protected, Hedges
  <2>3. Work'.pc = "idle" /\ Creation' = Creation /\ Creation.pc = "idle"
    BY <2>1, WorkReturns DEF Alone
  <2>4. LiveSl' = LiveSl  BY <2>1, <2>2, <2>3 DEF LiveSl
  <2>5. Entries = {}
    BY <2>1 DEF StatusInv, PlaceInv, SlPcs, OpenStatuses, Withdrawing
  <2>6. /\ UNCHANGED <<orders, pos, filled, inbox, nextOid>>
        /\ Entries' = {} /\ StopLosses' = StopLosses
    BY <2>1, <2>5 DEF exchange, Entries, StopLosses
  <2>7. LedgerInv'  BY <2>4, <2>6 DEF LedgerInv
  <2>8. FilledInv'  BY <2>4, <2>6 DEF FilledInv
  <2>9. StatusInv'  BY <2>2, <2>6 DEF StatusInv
  <2> QED BY <2>1, <2>7, <2>8, <2>9, Rests
<1> QED BY <1>1, <1>2, <1>3, <1>4, <1>5, <1>6, <1>7 DEF StopLoss

\* From an await where no order is open to the next.
LEMMA BareGoes ==
    ASSUME OrderlyInv, Work.pc \in BarePcs, Work'.pc # "slSent",
           orders' \subseteq orders, pos' \in 0 .. pos,
           UNCHANGED <<filled, inbox, nextOid>>,
           hedge'.slOid \in {hedge.slOid, NoOid},
           hedge'.status = "waiting" => hedge'.entryOid = NoOid,
           hedge'.status = "entry_pending" => hedge'.slOid = NoOid
    PROVE  /\ orders = {} /\ orders' = {}
           /\ LedgerInv' /\ FilledInv' /\ StatusInv'
<1> USE DEF OrderlyInv, OwnInv
<1>1. orders = {} /\ orders' = {}  BY DEF KnowsInv
<1>2. Work.pc # "slSent"
  BY DEF BarePcs, FillPcs, PlacePcs, SlPcs, ClosePcs, EndPcs, CancelPcs
<1>3. LiveSl' \in {LiveSl, NoOid}  BY <1>2 DEF LiveSl
<1> QED BY <1>1, <1>3, BareStep

-----------------------------------------------------------------------------
(* An entry that has been filled.                                          *)

LEMMA EntryFillOrderly ==
    ASSUME OrderlyInv, NoMishap, Alone, EntryFill("worker")
    PROVE  OwnInv'
<1> USE DEF OrderlyInv, OwnInv
<1>0. /\ hedge \in Hedges /\ Work \in Frames /\ pos \in Nat
      /\ Size \in Nat \ {0}
      /\ nextOid \in Nat \ {0} /\ Work = run["worker"]
      /\ \A f \in filled : f.oid \in Nat \ {0}
      /\ orders \subseteq Orders
      /\ run \in [Threads -> Frames] /\ "worker" \in Threads
  BY WorkTyped DEF Work, BaseInv, TypeInv, FramesTyped, Threads
<1>a. pos \in 0 .. pos /\ Size - pos \in Int  BY <1>0
<1>b. hedge.size \in Nat
  <2>1. hedge.size \in Lots  BY <1>0 DEF Hedges
  <2> QED BY <2>1, LotsGrow
<1>1. CASE EntryFillNoted("worker")
  <2>1. /\ Work.pc = "entryFill" /\ Goto("worker", "entryRead")
        /\ UNCHANGED exchange
        /\ hedge' = [hedge EXCEPT
             !.confirmed = TRUE, !.entryOid = NoOid,
             !.entryFill = Work.fill.oid, !.slRetry = 0,
             !.size = IF Work.fill.sz > 0 THEN Work.fill.sz ELSE @]
    BY <1>0, <1>1 DEF EntryFillNoted, At
  <2>2. hedge.status = "entry_pending" /\ Work.pc \in BarePcs
    BY <2>1 DEF PlaceInv, BarePcs, FillPcs
  <2>3. hedge'.status = "entry_pending" /\ hedge'.slOid = hedge.slOid
        /\ hedge.slOid = NoOid
    BY <1>0, <2>1, <2>2 DEF Hedges, StatusInv
  <2>4. Work'.pc = "entryRead" /\ Work'.snap = Work.snap
    BY <2>1, WorkGoes
  <2>5. orders' = {} /\ LedgerInv' /\ FilledInv' /\ StatusInv'
    BY <1>a, <2>1, <2>2, <2>3, <2>4, BareGoes DEF exchange
  <2>6. PlaceInv'
    BY <2>3, <2>4
    DEF PlaceInv, FillPcs, RescuePcs, PlacePcs, SlPcs, ClosePcs, EndPcs,
        CancelPcs
  <2>7. KnowsInv'  BY <2>4, <2>5 DEF KnowsInv, PlacePcs
  <2>8. ListInv'  BY <2>4 DEF ListInv
  <2> QED BY <2>5, <2>6, <2>7, <2>8
<1>2. CASE EntryFillRead("worker")
  <2> DEFINE covered == IF pos > 0 THEN pos ELSE hedge.size
  <2>1. PICK crossed \in BOOLEAN :
          /\ hedge' = [hedge EXCEPT !.size = covered]
          /\ run' = [run EXCEPT
               !["worker"].breached = crossed,
               !["worker"].pc = IF covered > Size THEN "oversize"
                                ELSE IF covered \in 1 .. (Size - 1)
                                     THEN "partial" ELSE "entryExit"]
    <3>1. PICK read \in {pos, 0}, crossed \in BOOLEAN :
            LET covers == IF read > 0 THEN read ELSE hedge.size
            IN  /\ IF read = pos THEN UNCHANGED budget ELSE Mishap("fault")
                /\ hedge' = [hedge EXCEPT !.size = covers]
                /\ run' = [run EXCEPT
                     !["worker"].breached = crossed,
                     !["worker"].pc =
                        IF covers > Size THEN "oversize"
                        ELSE IF covers \in 1 .. (Size - 1) THEN "partial"
                        ELSE "entryExit"]
      BY <1>2 DEF EntryFillRead
    <3>2. read = pos  BY <3>1 DEF NoMishap
    <3> QED BY <3>1, <3>2
  <2>2. Work.pc = "entryRead" /\ UNCHANGED exchange
    BY <1>0, <1>2 DEF EntryFillRead, At
  <2>3. hedge.status = "entry_pending" /\ Work.pc \in BarePcs
    BY <2>2 DEF PlaceInv, BarePcs, FillPcs
  <2>4. covered \in Nat /\ pos <= covered  BY <1>0, <1>b
  <2> HIDE DEF covered
  <2>5. /\ hedge'.status = "entry_pending" /\ hedge'.slOid = hedge.slOid
        /\ hedge.slOid = NoOid /\ hedge'.size = covered
    BY <1>0, <2>1, <2>3 DEF Hedges, StatusInv
  <2>6. /\ Work'.pc \in {"oversize", "partial", "entryExit"}
        /\ Work'.snap = Work.snap
    BY <1>0, <2>1 DEF Frames, Work
  <2>7. orders' = {} /\ LedgerInv' /\ FilledInv' /\ StatusInv'
    BY <1>a, <2>2, <2>3, <2>5, <2>6, BareGoes DEF exchange
  <2>8. PlaceInv'
    BY <2>5, <2>6
    DEF PlaceInv, FillPcs, RescuePcs, PlacePcs, SlPcs, ClosePcs, EndPcs,
        CancelPcs
  <2>9. KnowsInv'
    BY <2>2, <2>4, <2>5, <2>6, <2>7 DEF KnowsInv, PlacePcs, exchange
  <2>10. ListInv'  BY <2>6 DEF ListInv
  <2> QED BY <2>7, <2>8, <2>9, <2>10
<1>3. CASE PartialCancels("worker")
  <2>1. /\ Work.pc = "partial"
        /\ \E p \in {"entryExit", "topup"} : Goto("worker", p)
        /\ hedge' = [hedge EXCEPT !.topup = TRUE]
        /\ orders' \subseteq orders
        /\ UNCHANGED <<pos, filled, inbox, nextOid>>
    BY <1>0, <1>3 DEF PartialCancels, At, NoMishap, Cancel
  <2>2. hedge.status = "entry_pending" /\ Work.pc \in BarePcs
        /\ pos <= hedge.size
    BY <2>1 DEF PlaceInv, BarePcs, FillPcs, KnowsInv
  <2>3. /\ hedge'.status = "entry_pending" /\ hedge'.slOid = hedge.slOid
        /\ hedge.slOid = NoOid /\ hedge'.size = hedge.size
    BY <1>0, <2>1, <2>2 DEF Hedges, StatusInv
  <2>4. Work'.pc \in {"entryExit", "topup"} /\ Work'.snap = Work.snap
    BY <2>1, WorkGoes
  <2>5. orders' = {} /\ LedgerInv' /\ FilledInv' /\ StatusInv'
    BY <1>a, <2>1, <2>2, <2>3, <2>4, BareGoes
  <2>6. PlaceInv'
    BY <2>3, <2>4
    DEF PlaceInv, FillPcs, RescuePcs, PlacePcs, SlPcs, ClosePcs, EndPcs,
        CancelPcs
  <2>7. KnowsInv'  BY <2>1, <2>2, <2>3, <2>4, <2>5 DEF KnowsInv, PlacePcs
  <2>8. ListInv'  BY <2>4 DEF ListInv
  <2> QED BY <2>5, <2>6, <2>7, <2>8
<1>4. CASE PartialToppedUp("worker")
  <2>1. /\ Work.pc = "topup" /\ Goto("worker", "entryExit")
        /\ UNCHANGED <<hedge, orders, inbox>>
        /\ \/ /\ hedge.size < Size
              /\ pos' = pos + (Size - hedge.size)
              /\ nextOid' = nextOid + 1
              /\ filled' = filled \cup {[oid |-> nextOid,
                                         sz |-> Size - hedge.size]}
           \/ UNCHANGED <<pos, nextOid, filled>>
    BY <1>0, <1>4 DEF PartialToppedUp, At
  <2>2. /\ hedge.status = "entry_pending" /\ orders = {}
        /\ pos <= hedge.size /\ hedge.slOid = NoOid
    BY <2>1 DEF PlaceInv, BarePcs, FillPcs, KnowsInv, StatusInv
  <2>3. Work'.pc = "entryExit" /\ Work'.snap = Work.snap
    BY <2>1, WorkGoes
  <2>4. Entries' = {} /\ StopLosses' = {} /\ orders' = {}
    BY <2>1, <2>2 DEF Entries, StopLosses
  <2>5. pos' <= Size  BY <1>0, <1>b, <2>1, <2>2 DEF LedgerInv
  <2>6. LedgerInv'  BY <2>4, <2>5 DEF LedgerInv
  <2>7. LiveSl' = NoOid  BY <2>1, <2>2, <2>3 DEF LiveSl
  <2>8. FilledInv'
    <3>1. \A f \in filled' : f.oid < nextOid' /\ f.oid # NoOid
      BY <1>0, <2>1 DEF FilledInv, NoOid
    <3>2. \A i \in DOMAIN inbox' : inbox'[i] \in filled'
      BY <2>1 DEF FilledInv
    <3> QED BY <2>4, <2>7, <3>1, <3>2 DEF FilledInv
  <2>9. StatusInv'  BY <2>1, <2>2, <2>4 DEF StatusInv
  <2>10. PlaceInv'
    BY <2>1, <2>2, <2>3
    DEF PlaceInv, FillPcs, RescuePcs, PlacePcs, SlPcs, ClosePcs, EndPcs,
        CancelPcs
  <2>11. KnowsInv'  BY <2>3, <2>4 DEF KnowsInv, PlacePcs
  <2>12. ListInv'  BY <2>3 DEF ListInv
  <2> QED BY <2>6, <2>8, <2>9, <2>10, <2>11, <2>12
<1>5. CASE EntryFillBreached("worker") \/ EntryFillCovered("worker")
  <2>1. PICK s \in {"closing", "entry_filled_pending_sl"} :
          hedge' = SetStatus(s) /\ run'["worker"].pc =
                     (IF s = "closing" THEN "exitRead" ELSE "sl")
    <3>1. CASE EntryFillBreached("worker")
      <4>1. hedge' = SetStatus("closing") /\ Goto("worker", "exitRead")
        BY <3>1, SavedHedge DEF EntryFillBreached
      <4> QED BY <4>1, WorkGoes DEF Work
    <3>2. CASE EntryFillCovered("worker")
      <4>1. hedge' = SetStatus("entry_filled_pending_sl")
            /\ run' = [run EXCEPT !["worker"].pc = "sl",
                                  !["worker"].onThrow = "keep"]
        BY <3>2, SavedHedge DEF EntryFillCovered
      <4>2. run'["worker"].pc = "sl"  BY <1>0, <4>1 DEF Frames, Work
      <4> QED BY <4>1, <4>2
    <3> QED BY <1>5, <3>1, <3>2
  <2>2. /\ Work.pc = "entryExit" /\ UNCHANGED exchange
        /\ run'["worker"].snap = Work.snap
    BY <1>0, <1>5
    DEF EntryFillBreached, EntryFillCovered, At, Goto, Frames, Work
  <2>3. hedge.status = "entry_pending" /\ Work.pc \in BarePcs
    BY <2>2 DEF PlaceInv, BarePcs, FillPcs
  <2>4. hedge'.status = s /\ hedge'.slOid = hedge.slOid
    BY <1>0, <2>1 DEF SetStatus, Hedges
  <2>5. /\ Work'.pc = (IF s = "closing" THEN "exitRead" ELSE "sl")
        /\ Work'.snap = Work.snap
    BY <2>1, <2>2 DEF Work
  <2>6. orders' = {} /\ LedgerInv' /\ FilledInv' /\ StatusInv'
    BY <1>a, <2>2, <2>3, <2>4, <2>5, BareGoes DEF exchange
  <2>7. PlaceInv'
    BY <2>4, <2>5
    DEF PlaceInv, FillPcs, RescuePcs, PlacePcs, SlPcs, ClosePcs, EndPcs,
        CancelPcs, OpenStatuses
  <2>8. KnowsInv'  BY <2>5, <2>6 DEF KnowsInv, PlacePcs
  <2>9. ListInv'  BY <2>5 DEF ListInv
  <2> QED BY <2>6, <2>7, <2>8, <2>9
<1>6. CASE ExitRead("worker")
  <2>1. /\ Work.pc = "exitRead" /\ UNCHANGED <<hedge, exchange>>
        /\ \/ run' = [run EXCEPT !["worker"].pc = "close",
                                 !["worker"].pos = pos]
           \/ Return("worker")
    BY <1>0, <1>6 DEF ExitRead, At, NoMishap
  <2>2. hedge.status = "closing" /\ Work.pc \in BarePcs
    BY <2>1 DEF PlaceInv, BarePcs, ClosePcs
  <2>3. CASE Return("worker")
    <3>1. Work'.pc = "idle"  BY <2>3, WorkReturns
    <3>2. LedgerInv' /\ FilledInv' /\ StatusInv'
      BY <1>a, <2>1, <2>2, <3>1, BareGoes DEF exchange
    <3> QED BY <2>3, <3>2, Rests
  <2>4. CASE run' = [run EXCEPT !["worker"].pc = "close",
                                !["worker"].pos = pos]
    <3>1. Work'.pc = "close" /\ Work'.snap = Work.snap
      BY <1>0, <2>4 DEF Frames, Work
    <3>2. orders' = {} /\ LedgerInv' /\ FilledInv' /\ StatusInv'
      BY <1>a, <2>1, <2>2, <3>1, BareGoes DEF exchange
    <3>3. PlaceInv'
      BY <2>1, <2>2, <3>1
      DEF PlaceInv, FillPcs, RescuePcs, PlacePcs, SlPcs, ClosePcs, EndPcs,
          CancelPcs
    <3>4. KnowsInv'  BY <3>1, <3>2 DEF KnowsInv, PlacePcs
    <3>5. ListInv'  BY <3>1 DEF ListInv
    <3> QED BY <3>2, <3>3, <3>4, <3>5
  <2> QED BY <2>1, <2>3, <2>4
<1>7. CASE Closed("worker")
  <2>1. /\ Work.pc = "close" /\ hedge' = hedge /\ Return("worker")
        /\ UNCHANGED <<orders, filled, inbox, nextOid>>
        /\ pos' = IF Work.pos < pos THEN pos - Work.pos ELSE 0
    BY <1>0, <1>7, SavedHedge DEF Closed, At, ReducedBy, NoMishap
  <2>2. hedge.status = "closing" /\ Work.pc \in BarePcs
    BY <2>1 DEF PlaceInv, BarePcs, ClosePcs
  <2>3. pos' \in 0 .. pos
    <3>1. Work.pos \in Lots  BY <1>0 DEF Frames
    <3>2. Work.pos \in Nat  BY <3>1, LotsGrow
    <3> QED BY <1>0, <2>1, <3>2
  <2>4. Work'.pc = "idle"  BY <2>1, WorkReturns
  <2>5. LedgerInv' /\ FilledInv' /\ StatusInv'
    BY <2>1, <2>2, <2>3, <2>4, BareGoes
  <2> QED BY <2>1, <2>5, Rests
<1> QED BY <1>1, <1>2, <1>3, <1>4, <1>5, <1>6, <1>7 DEF EntryFill

-----------------------------------------------------------------------------
(* The end of a cycle.                                                     *)

LEMMA AfterCycleIs ==
    ASSUME hedge \in Hedges, NEW n \in Nat
    PROVE  /\ AfterCycle(n) \in Hedges
           /\ AfterCycle(n).status = "waiting"
           /\ AfterCycle(n).entryOid = NoOid /\ AfterCycle(n).slOid = NoOid
           /\ AfterCycle(n).cycles = n /\ AfterCycle(n).entryFill = NoOid
           /\ AfterCycle(n).placing = hedge.placing
<1>1. 0 \in Lots  BY LotsGrow
<1> QED BY <1>1 DEF AfterCycle, Hedges, Statuses

LEMMA CycleEndOrderly ==
    ASSUME OrderlyInv, NoMishap, Alone, CycleEnd("worker")
    PROVE  OwnInv'
<1> USE DEF OrderlyInv, OwnInv
<1>0. /\ hedge \in Hedges /\ Work \in Frames /\ pos \in Nat
      /\ Work = run["worker"] /\ pos \in 0 .. pos
      /\ run \in [Threads -> Frames] /\ "worker" \in Threads
      /\ hedge.cycles \in Nat /\ hedge.cycles + 1 \in Nat
      /\ orders \subseteq Orders
  BY WorkTyped DEF Work, BaseInv, TypeInv, FramesTyped, Threads, Hedges
<1>1. CASE SlFillNoted("worker")
  <2>1. /\ Work.pc = "slFill" /\ Goto("worker", "finalize")
        /\ UNCHANGED exchange /\ hedge' = SetStatus("closing")
    BY <1>0, <1>1, SavedHedge DEF SlFillNoted, At
  <2>2. Work.pc \in BarePcs /\ ("partial" \notin Executions => pos = 0)
    BY <2>1 DEF BarePcs, EndPcs, KnowsInv
  <2>3. hedge'.status = "closing" /\ hedge'.slOid = hedge.slOid
    BY <1>0, <2>1 DEF SetStatus, Hedges
  <2>4. Work'.pc = "finalize" /\ Work'.snap = Work.snap
    BY <2>1, WorkGoes
  <2>5. orders' = {} /\ LedgerInv' /\ FilledInv' /\ StatusInv'
    BY <1>0, <2>1, <2>2, <2>3, <2>4, BareGoes DEF exchange
  <2>6. PlaceInv'
    BY <2>3, <2>4
    DEF PlaceInv, FillPcs, RescuePcs, PlacePcs, SlPcs, ClosePcs, EndPcs,
        CancelPcs, Inside
  <2>7. KnowsInv'
    BY <2>1, <2>2, <2>4, <2>5 DEF KnowsInv, PlacePcs, exchange
  <2>8. ListInv'  BY <2>4 DEF ListInv
  <2> QED BY <2>5, <2>6, <2>7, <2>8
<1>2. CASE CycleSaved("worker")
  <2>1. /\ Work.pc = "finalize" /\ hedge' = AfterCycle(hedge.cycles + 1)
        /\ run' = [run EXCEPT !["worker"].pc = "place",
                              !["worker"].fill = NoFill,
                              !["worker"].snap = NoOrders]
        /\ UNCHANGED exchange
    BY <1>0, <1>2 DEF CycleSaved, At
  <2>2. Work.pc \in BarePcs  BY <2>1 DEF BarePcs, EndPcs
  <2>3. /\ hedge'.status = "waiting" /\ hedge'.entryOid = NoOid
        /\ hedge'.slOid = NoOid
    BY <1>0, <2>1, AfterCycleIs
  <2>4. Work'.pc = "place" /\ Work'.snap = NoOrders
    BY <1>0, <2>1 DEF Frames, Work
  <2>5. orders' = {} /\ LedgerInv' /\ FilledInv' /\ StatusInv'
    BY <1>0, <2>1, <2>2, <2>3, <2>4, BareGoes DEF exchange
  <2>6. PlaceInv'
    BY <2>3, <2>4
    DEF PlaceInv, FillPcs, RescuePcs, PlacePcs, SlPcs, ClosePcs, EndPcs,
        CancelPcs
  <2>7. KnowsInv'  BY <2>3, <2>4, <2>5 DEF KnowsInv
  <2>8. ListInv'  BY <2>4 DEF ListInv, NoOrders
  <2> QED BY <2>5, <2>6, <2>7, <2>8
<1>3. CASE CycleNotSaved("worker")
  <2> DEFINE h == AfterCycle(hedge.cycles + 1)
  <2>1. Work.pc = "finalize" /\ Throw("worker", h) /\ UNCHANGED exchange
    BY <1>0, <1>3 DEF CycleNotSaved, At
  <2>2. orders = {}  BY <2>1 DEF KnowsInv, BarePcs, EndPcs
  <2>3. /\ h \in Hedges /\ h.status = "waiting" /\ h.entryOid = NoOid
        /\ h.slOid = NoOid
    BY <1>0, AfterCycleIs
  <2> HIDE DEF h
  <2> QED BY <2>1, <2>2, <2>3, BareThrow
<1>4. CASE ExitRecovered("worker")
  <2>1. PICK f \in filled :
          /\ f.oid = hedge.slOid
          /\ run' = [run EXCEPT !["worker"].pc = "slFill",
                                !["worker"].fill = f]
    BY <1>4 DEF ExitRecovered
  <2>2. Work.pc = "exitFills" /\ UNCHANGED <<hedge, exchange>>
    BY <1>0, <1>4 DEF ExitRecovered, At
  <2>3. Work.pc \in BarePcs /\ hedge.status \in Inside
    BY <2>2 DEF BarePcs, EndPcs, PlaceInv
  <2>4. "partial" \notin Executions => pos = 0
    BY <2>1, <2>2 DEF FilledInv, LiveSl
  <2>5. Work'.pc = "slFill" /\ Work'.snap = Work.snap
    BY <1>0, <2>1 DEF Frames, Work
  <2>6. orders' = {} /\ LedgerInv' /\ FilledInv' /\ StatusInv'
    BY <1>0, <2>2, <2>3, <2>5, BareGoes
    DEF exchange, Inside, OpenStatuses
  <2>7. PlaceInv'
    BY <2>2, <2>3, <2>5
    DEF PlaceInv, FillPcs, RescuePcs, PlacePcs, SlPcs, ClosePcs, EndPcs,
        CancelPcs
  <2>8. KnowsInv'
    BY <2>2, <2>4, <2>5, <2>6 DEF KnowsInv, PlacePcs, exchange
  <2>9. ListInv'  BY <2>5 DEF ListInv
  <2> QED BY <2>6, <2>7, <2>8, <2>9
<1>5. CASE CycleGuessed("worker")
  <2>1. Work.pc = "exitFills" /\ Work.then = "complete" /\ UNCHANGED exchange
    BY <1>0, <1>5 DEF CycleGuessed, At
  <2>2. Work.pc \in BarePcs /\ hedge.status \in Inside /\ pos = 0
    BY <2>1 DEF BarePcs, EndPcs, PlaceInv, KnowsInv
  <2>3. CASE /\ hedge' = hedge
             /\ run' = [run EXCEPT !["worker"].pc = "finalize",
                          !["worker"].fill = [oid |-> hedge.slOid, sz |-> 0]]
    <3>1. Work'.pc = "finalize" /\ Work'.snap = Work.snap
      BY <1>0, <2>3 DEF Frames, Work
    <3>2. orders' = {} /\ LedgerInv' /\ FilledInv' /\ StatusInv'
      BY <1>0, <2>1, <2>2, <2>3, <3>1, BareGoes
      DEF exchange, Inside, OpenStatuses
    <3>3. PlaceInv'
      BY <2>2, <2>3, <3>1
      DEF PlaceInv, FillPcs, RescuePcs, PlacePcs, SlPcs, ClosePcs, EndPcs,
          CancelPcs
    <3>4. KnowsInv'
      BY <2>1, <2>2, <3>1, <3>2 DEF KnowsInv, PlacePcs, exchange
    <3>5. ListInv'  BY <3>1 DEF ListInv
    <3> QED BY <3>2, <3>3, <3>4, <3>5
  <2>4. CASE /\ hedge' = AfterCycle(hedge.cycles)
             /\ run' = [run EXCEPT !["worker"].pc = "place",
                                   !["worker"].snap = NoOrders]
    <3>1. /\ hedge'.status = "waiting" /\ hedge'.entryOid = NoOid
          /\ hedge'.slOid = NoOid
      BY <1>0, <2>4, AfterCycleIs
    <3>2. Work'.pc = "place" /\ Work'.snap = NoOrders
      BY <1>0, <2>4 DEF Frames, Work
    <3>3. orders' = {} /\ LedgerInv' /\ FilledInv' /\ StatusInv'
      BY <1>0, <2>1, <2>2, <3>1, <3>2, BareGoes DEF exchange
    <3>4. PlaceInv'
      BY <3>1, <3>2
      DEF PlaceInv, FillPcs, RescuePcs, PlacePcs, SlPcs, ClosePcs, EndPcs,
          CancelPcs
    <3>5. KnowsInv'  BY <3>1, <3>2, <3>3 DEF KnowsInv
    <3>6. ListInv'  BY <3>2 DEF ListInv, NoOrders
    <3> QED BY <3>3, <3>4, <3>5, <3>6
  <2> QED BY <1>5, <2>3, <2>4, SavedHedge DEF CycleGuessed
<1>6. CASE SlVanished("worker")
  <2>1. /\ Work.pc = "exitFills" /\ UNCHANGED exchange
        /\ Work.then = "protect"
        /\ hedge' = [hedge EXCEPT !.slOid = NoOid]
        /\ run' = [run EXCEPT !["worker"].pc = "sl",
                              !["worker"].onThrow = "pendingSl"]
    BY <1>0, <1>6 DEF SlVanished, At
  <2>2. Work.pc \in BarePcs /\ hedge.status = "open_protected"
    BY <2>1 DEF BarePcs, EndPcs, PlaceInv
  <2>3. hedge'.status = "open_protected" /\ hedge'.slOid = NoOid
    BY <1>0, <2>1, <2>2 DEF Hedges
  <2>4. Work'.pc = "sl" /\ Work'.snap = Work.snap
    BY <1>0, <2>1 DEF Frames, Work
  <2>5. orders' = {} /\ LedgerInv' /\ FilledInv' /\ StatusInv'
    BY <1>0, <2>1, <2>2, <2>3, <2>4, BareGoes DEF exchange
  <2>6. PlaceInv'
    BY <2>3, <2>4
    DEF PlaceInv, FillPcs, RescuePcs, PlacePcs, SlPcs, ClosePcs, EndPcs,
        CancelPcs, OpenStatuses
  <2>7. KnowsInv'  BY <2>4, <2>5 DEF KnowsInv, PlacePcs
  <2>8. ListInv'  BY <2>4 DEF ListInv
  <2> QED BY <2>5, <2>6, <2>7, <2>8
<1> QED BY <1>1, <1>2, <1>3, <1>4, <1>5, <1>6 DEF CycleEnd

-----------------------------------------------------------------------------
(* The entry order is placed where none is open.                           *)

LEMMA PlacementOrderly ==
    ASSUME OrderlyInv, NoMishap, Alone, Placement("worker")
    PROVE  OwnInv'
<1> USE DEF OrderlyInv, OwnInv
<1>0. /\ hedge \in Hedges /\ Work \in Frames /\ pos \in Nat
      /\ Size \in Nat \ {0} /\ nextOid \in Nat \ {0}
      /\ Work = run["worker"] /\ pos \in 0 .. pos
      /\ run \in [Threads -> Frames] /\ "worker" \in Threads
      /\ orders \subseteq Orders /\ pos <= Size
      /\ \A f \in filled : f.oid \in Nat \ {0}
  BY WorkTyped DEF Work, BaseInv, TypeInv, FramesTyped, Threads, LedgerInv
<1>b. PlacementBegins("worker") =>
        /\ Work.pc = "place" /\ Work.pc \in BarePcs
        /\ hedge.status \in {"waiting", "entry_pending"}
        /\ Work.snap.seen = {}
  BY <1>0 DEF PlacementBegins, At, PlaceInv, BarePcs, PlacePcs, ListInv
<1>1. CASE PlaceSkipped("worker")
  <2> DEFINE n == Placed("worker", hedge).entryRetry
  <2>1. /\ Work.pc = "place" /\ Return("worker") /\ UNCHANGED exchange
        /\ hedge' = [hedge EXCEPT !.entryRetry = n]
    BY <1>0, <1>1 DEF PlaceSkipped, At
  <2>2. Work.pc \in BarePcs  BY <2>1 DEF BarePcs, PlacePcs
  <2> HIDE DEF n
  <2>3. /\ hedge'.status = hedge.status /\ hedge'.entryOid = hedge.entryOid
        /\ hedge'.slOid = hedge.slOid
    BY <1>0, <2>1 DEF Hedges
  <2>4. Work'.pc = "idle"  BY <2>1, WorkReturns
  <2>5. LedgerInv' /\ FilledInv' /\ StatusInv'
    BY <1>0, <2>1, <2>2, <2>3, <2>4, BareGoes DEF exchange, StatusInv
  <2> QED BY <2>1, <2>5, Rests
<1>2. ~PlaceUnreadable("worker") /\ ~PlaceOversized("worker")
      /\ ~PlaceAdoptsOrder("worker")
  <2>1. ~PlaceUnreadable("worker")  BY DEF PlaceUnreadable, NoMishap
  <2>2. ~PlaceOversized("worker")  BY <1>0 DEF PlaceOversized
  <2>3. ~PlaceAdoptsOrder("worker")
    <3>1. SUFFICES ASSUME PlaceAdoptsOrder("worker") PROVE FALSE
      OBVIOUS
    <3>2. PlacementBegins("worker") /\ EntriesIn(Work.snap) # {}
      BY <1>0, <3>1 DEF PlaceAdoptsOrder
    <3> QED BY <1>b, <3>2 DEF EntriesIn
  <2> QED BY <2>1, <2>2, <2>3
<1>3. CASE PlaceAdoptsPosition("worker")
  <2> DEFINE adopted == [hedge EXCEPT !.size = pos, !.entryOid = NoOid,
                                      !.confirmed = TRUE]
             g == [adopted EXCEPT !.status = "entry_filled_pending_sl"]
  <2>1. /\ PlacementBegins("worker") /\ Return("worker")
        /\ UNCHANGED <<pos, filled, inbox, nextOid>>
        /\ orders' \subseteq orders
    BY <1>3 DEF PlaceAdoptsPosition, Cancel, NoMishap
  <2>2. MatchingSl(Work.snap, pos) = {}  BY <1>b, <2>1 DEF MatchingSl
  <2>3. hedge' = Placed("worker", g)
    BY <1>0, <1>3, <2>2, SavedHedge DEF PlaceAdoptsPosition
  <2>4. g \in Hedges /\ g.status = "entry_filled_pending_sl"
        /\ g.slOid = hedge.slOid
    <3>1. pos \in Lots  BY PosInLots DEF BaseInv, TypeInv
    <3> QED BY <1>0, <3>1 DEF Hedges, Statuses
  <2> HIDE DEF g
  <2>5. hedge'.status = "entry_filled_pending_sl"
        /\ hedge'.slOid = hedge.slOid
    BY <2>3, <2>4 DEF Placed, Hedges
  <2>6. Work'.pc = "idle"  BY <2>1, WorkReturns
  <2>7. LedgerInv' /\ FilledInv' /\ StatusInv'
    BY <1>0, <1>b, <2>1, <2>5, <2>6, BareGoes
  <2> QED BY <2>1, <2>7, Rests
<1>4. CASE PlacePrepares("worker")
  <2>1. /\ PlacementBegins("worker") /\ Goto("worker", "send")
        /\ pos = 0 /\ UNCHANGED exchange
        /\ hedge' = [hedge EXCEPT !.entryOid = NoOid, !.slOid = NoOid,
                                  !.size = 0, !.confirmed = FALSE,
                                  !.entryFill = NoOid, !.placing = TRUE]
    BY <1>4 DEF PlacePrepares
  <2>2. /\ hedge'.status = hedge.status /\ hedge'.entryOid = NoOid
        /\ hedge'.slOid = NoOid
    BY <1>0, <2>1 DEF Hedges
  <2>3. Work'.pc = "send" /\ Work'.snap = Work.snap
    BY <2>1, WorkGoes
  <2>4. orders' = {} /\ LedgerInv' /\ FilledInv' /\ StatusInv'
    BY <1>0, <1>b, <2>1, <2>2, <2>3, BareGoes DEF exchange
  <2>5. PlaceInv'
    BY <1>b, <2>1, <2>2, <2>3
    DEF PlaceInv, FillPcs, RescuePcs, PlacePcs, SlPcs, ClosePcs, EndPcs,
        CancelPcs
  <2>6. KnowsInv'
    BY <2>1, <2>2, <2>3, <2>4 DEF KnowsInv, exchange
  <2>7. ListInv'  BY <2>3 DEF ListInv
  <2> QED BY <2>4, <2>5, <2>6, <2>7
<1>5. CASE EntrySent("worker")
  <2> DEFINE o == [oid |-> nextOid, kind |-> "entry", sz |-> Size]
  <2>1. /\ Work.pc = "send" /\ orders' = orders \cup {o}
        /\ run' = [run EXCEPT !["worker"].pc = "sent",
                              !["worker"].fill = [oid |-> nextOid, sz |-> 0]]
        /\ nextOid' = nextOid + 1
        /\ UNCHANGED <<hedge, pos, filled, inbox>>
    BY <1>0, <1>5 DEF EntrySent, Accepted, At
  <2>2. /\ orders = {} /\ hedge.status \in {"waiting", "entry_pending"}
        /\ pos = 0 /\ hedge.slOid = NoOid /\ hedge.entryOid = NoOid
    BY <2>1 DEF KnowsInv, BarePcs, PlacePcs, PlaceInv
  <2>3. o.oid = nextOid /\ o.kind = "entry"
    OBVIOUS
  <2>4. /\ Work'.pc = "sent" /\ Work'.fill = [oid |-> nextOid, sz |-> 0]
        /\ Work'.snap = Work.snap
    BY <1>0, <2>1 DEF Frames, Work
  <2>5. LiveSl' = NoOid /\ LiveSl = NoOid /\ LiveEntry' = nextOid
    BY <2>1, <2>2, <2>4 DEF LiveSl, LiveEntry, Alone
  <2> HIDE DEF o
  <2>6. orders' = {o} /\ Entries' = {o} /\ StopLosses' = {}
    BY <2>1, <2>2, <2>3 DEF Entries, StopLosses
  <2>7. LedgerInv'
    BY <1>0, <2>1, <2>2, <2>3, <2>5, <2>6 DEF LedgerInv
  <2>8. FilledInv'
    BY <1>0, <2>1, <2>3, <2>5, <2>6 DEF FilledInv, NoOid
  <2>9. StatusInv'
    BY <2>1, <2>2, <2>4, <2>6 DEF StatusInv
  <2>10. PlaceInv'
    BY <2>1, <2>2, <2>4
    DEF PlaceInv, FillPcs, RescuePcs, PlacePcs, SlPcs, ClosePcs, EndPcs,
        CancelPcs
  <2>11. KnowsInv'
    BY <1>0, <2>1, <2>2, <2>4
    DEF KnowsInv, BarePcs, FillPcs, PlacePcs, SlPcs, ClosePcs, EndPcs,
        CancelPcs
  <2>12. ListInv'  BY <2>4 DEF ListInv
  <2> QED BY <2>7, <2>8, <2>9, <2>10, <2>11, <2>12
<1>6. CASE EntryRefused("worker")
  <2> DEFINE h == [hedge EXCEPT !.placing = FALSE]
  <2>1. Work.pc = "send" /\ Throw("worker", h) /\ UNCHANGED exchange
    BY <1>0, <1>6 DEF EntryRefused, At, NoMishap, exchange
  <2>2. orders = {}  BY <2>1 DEF KnowsInv, BarePcs, PlacePcs
  <2>3. /\ h \in Hedges /\ h.status = hedge.status
        /\ h.entryOid = hedge.entryOid /\ h.slOid = hedge.slOid
    BY <1>0 DEF Hedges
  <2> HIDE DEF h
  <2> QED BY <2>1, <2>2, <2>3, BareThrow DEF StatusInv
<1>7. CASE EntryAcked("worker")
  <2> DEFINE h == [hedge EXCEPT !.entryOid = Work.fill.oid, !.slOid = NoOid,
                                !.status = "entry_pending"]
  <2>1. /\ Work.pc = "sent" /\ hedge' = Placed("worker", h)
        /\ Return("worker") /\ UNCHANGED exchange
    BY <1>0, <1>7, SavedHedge DEF EntryAcked, At
  <2>2. /\ h.status = "entry_pending" /\ h.entryOid = Work.fill.oid
        /\ h.slOid = NoOid
    BY <1>0 DEF Hedges
  <2>3. Placed("worker", h).status = h.status
        /\ Placed("worker", h).entryOid = h.entryOid
        /\ Placed("worker", h).slOid = h.slOid
    BY <1>0 DEF Placed, Hedges
  <2> HIDE DEF h
  <2>4. /\ hedge'.status = "entry_pending" /\ hedge'.entryOid = Work.fill.oid
        /\ hedge'.slOid = NoOid
    BY <2>1, <2>2, <2>3
  <2>5. Work'.pc = "idle" /\ Creation' = Creation /\ Creation.pc = "idle"
    BY <2>1, WorkReturns DEF Alone
  <2>6. hedge.slOid = NoOid /\ hedge.status \in {"waiting", "entry_pending"}
    BY <2>1 DEF KnowsInv, PlaceInv, PlacePcs
  <2>7. LiveEntry' = LiveEntry /\ LiveSl' = LiveSl /\ LiveSl = NoOid
    BY <2>1, <2>4, <2>5, <2>6 DEF LiveEntry, LiveSl
  <2>8. StopLosses = {}
    BY <2>1, <2>6 DEF StatusInv, Withdrawing
  <2>9. /\ UNCHANGED <<orders, pos, filled, inbox, nextOid>>
        /\ Entries' = Entries /\ StopLosses' = {}
    BY <2>1, <2>8 DEF exchange, Entries, StopLosses
  <2>10. LedgerInv'  BY <2>7, <2>9 DEF LedgerInv
  <2>11. FilledInv'  BY <2>7, <2>9 DEF FilledInv
  <2>12. StatusInv'  BY <2>4, <2>9 DEF StatusInv
  <2> QED BY <2>1, <2>10, <2>11, <2>12, Rests
<1>8. CASE OversizeStops("worker")
  <2> DEFINE h == SetStatus("error")
  <2>1. /\ Work.pc = "oversize" /\ Return("worker")
        /\ hedge' = Placed("worker", h) \/ hedge' = h
        /\ orders' \subseteq orders
        /\ UNCHANGED <<pos, filled, inbox, nextOid>>
    BY <1>0, <1>8, SavedHedge DEF OversizeStops, At, Cancel, NoMishap
  <2>2. h.status = "error" /\ h.slOid = hedge.slOid
    BY <1>0 DEF SetStatus, Hedges
  <2>3. Placed("worker", h).status = h.status
        /\ Placed("worker", h).slOid = h.slOid
    BY <1>0 DEF SetStatus, Placed, Hedges
  <2> HIDE DEF h
  <2>4. hedge'.status = "error" /\ hedge'.slOid = hedge.slOid
    BY <2>1, <2>2, <2>3
  <2>5. Work'.pc = "idle" /\ Work.pc \in BarePcs
    BY <2>1, WorkReturns DEF BarePcs
  <2>6. LedgerInv' /\ FilledInv' /\ StatusInv'
    BY <1>0, <2>1, <2>4, <2>5, BareGoes
  <2> QED BY <2>1, <2>6, Rests
<1> QED BY <1>1, <1>2, <1>3, <1>4, <1>5, <1>6, <1>7, <1>8 DEF Placement

-----------------------------------------------------------------------------
(* The entry order may still be open, or it is executed at once.           *)

\* While the hedge waits for its entry, no other order is open.
LEMMA EntryPending ==
    ASSUME OrderlyInv, Creation.pc = "idle", hedge.status = "entry_pending",
           Work.pc \notin {"sent", "slSent", "iocSent"}
    PROVE  /\ StopLosses = {} /\ LiveEntry = hedge.entryOid
           /\ hedge.slOid = NoOid /\ LiveSl = NoOid
           /\ \A o \in orders : o \in Entries /\ o.oid = hedge.entryOid
           /\ pos # 0 => orders = {}
<1> USE DEF OrderlyInv, OwnInv
<1>1. orders = Entries \cup StopLosses  BY TwoKinds, WorkTyped
<1>2. StopLosses = {}  BY DEF StatusInv, Withdrawing
<1>3. LiveEntry = hedge.entryOid  BY DEF LiveEntry
<1>4. hedge.slOid = NoOid /\ LiveSl = NoOid  BY DEF StatusInv, LiveSl
<1> QED BY <1>1, <1>2, <1>3, <1>4 DEF LedgerInv

LEMMA EntryGoes ==
    ASSUME OrderlyInv, Creation.pc = "idle", hedge.status = "entry_pending",
           Work.pc \notin {"sent", "slSent", "iocSent"},
           Creation' = Creation, Work'.pc \notin {"sent", "slSent", "iocSent"},
           orders' \subseteq orders, UNCHANGED <<pos, filled, inbox, nextOid>>,
           orders' = {} \/ hedge'.entryOid = hedge.entryOid,
           hedge'.slOid = NoOid, hedge'.status \in {"entry_pending", "error"}
    PROVE  LedgerInv' /\ FilledInv' /\ StatusInv'
<1> USE DEF OrderlyInv, OwnInv
<1>1. /\ StopLosses = {} /\ LiveEntry = hedge.entryOid /\ LiveSl = NoOid
      /\ \A o \in orders : o \in Entries /\ o.oid = hedge.entryOid
  BY EntryPending
<1>2. /\ StopLosses' = {} /\ Entries' \subseteq Entries
      /\ Entries' \subseteq orders'
  BY <1>1 DEF Entries, StopLosses
<1>3. LiveEntry' = hedge'.entryOid /\ LiveSl' = NoOid  BY DEF LiveEntry, LiveSl
<1>4. LedgerInv'
  <2>1. pos' <= Size  BY DEF LedgerInv
  <2>2. \A o \in Entries' : pos' = 0 /\ o.oid = LiveEntry'
    BY <1>1, <1>2, <1>3 DEF LedgerInv
  <2> QED BY <1>2, <1>3, <2>1, <2>2 DEF LedgerInv
<1>5. FilledInv'  BY <1>1, <1>3 DEF FilledInv
<1>6. StatusInv'  BY <1>2 DEF StatusInv
<1> QED BY <1>4, <1>5, <1>6

\* The fills of an order that executes are new ones, of that order.
LEMMA ReportsOf ==
    ASSUME ExchangeTyped, NEW oid \in Oids, NEW sz \in Lots, sz > 0,
           NEW parts \in PartsOf(sz), Reported(oid, parts)
    PROVE  /\ \A f \in filled' : f \in filled \/ f.oid = oid
           /\ filled \subseteq filled'
           /\ \A i \in DOMAIN inbox' :
                inbox'[i] \in filled' \/ \E j \in DOMAIN inbox : inbox'[i] = inbox[j]
           /\ LotsIn(parts) \in 1 .. sz
           /\ "partial" \notin Executions => LotsIn(parts) = sz
<1>0. sz \in Nat \ {0} /\ inbox \in Seq(Fills)
  BY LotsGrow DEF ExchangeTyped
<1>1. \/ parts = <<sz>>
      \/ sz > 1 /\ parts = <<1, sz - 1>>
      \/ parts = <<1>> /\ "partial" \in Executions
  <2>1. \/ parts \in IF "whole" \in Executions THEN {<<sz>>} ELSE {}
        \/ parts \in IF "split" \in Executions /\ sz > 1
                     THEN {<<1, sz - 1>>} ELSE {}
        \/ parts \in IF "partial" \in Executions THEN {<<1>>} ELSE {}
    BY Zenon DEF PartsOf
  <2>2. \A S, x : x \in (IF "whole" \in Executions THEN S ELSE {}) => x \in S
    OBVIOUS
  <2>3. \A S, x : x \in (IF "split" \in Executions /\ sz > 1 THEN S ELSE {})
                 => x \in S /\ sz > 1
    OBVIOUS
  <2>4. \A S, x : x \in (IF "partial" \in Executions THEN S ELSE {})
                 => x \in S /\ "partial" \in Executions
    OBVIOUS
  <2>5. \/ parts \in {<<sz>>}
        \/ parts \in {<<1, sz - 1>>} /\ sz > 1
        \/ parts \in {<<1>>} /\ "partial" \in Executions
    BY <2>1, <2>2, <2>3, <2>4, Zenon
  <2> QED BY <2>5, Zenon
<1>2. LotsIn(parts) \in 1 .. sz
      /\ ("partial" \notin Executions => LotsIn(parts) = sz)
  <2>1. CASE parts = <<sz>>
    <3>1. Len(parts) = 1 /\ parts[1] = sz  BY <2>1
    <3> QED BY <1>0, <3>1 DEF LotsIn
  <2>2. CASE sz > 1 /\ parts = <<1, sz - 1>>
    <3>1. Len(parts) = 2 /\ parts[1] = 1 /\ parts[2] = sz - 1  BY <2>2
    <3> QED BY <1>0, <2>2, <3>1 DEF LotsIn
  <2>3. CASE parts = <<1>> /\ "partial" \in Executions
    <3>1. Len(parts) = 1 /\ parts[1] = 1  BY <2>3
    <3> QED BY <1>0, <2>3, <3>1 DEF LotsIn
  <2> QED BY <1>1, <2>1, <2>2, <2>3
<1>3. parts \in Seq(Nat)
  <2>1. CASE parts = <<sz>>  BY <1>0, <2>1
  <2>2. CASE sz > 1 /\ parts = <<1, sz - 1>>
    <3>1. sz - 1 \in Nat  BY <1>0, <2>2
    <3> QED BY <2>2, <3>1
  <2>3. CASE parts = <<1>>  BY <2>3
  <2> QED BY <1>1, <2>1, <2>2, <2>3
<1> DEFINE fills == [i \in DOMAIN parts |-> [oid |-> oid, sz |-> parts[i]]]
<1>4. \A i \in DOMAIN fills : fills[i].oid = oid  OBVIOUS
<1>5. fills \in Seq([oid : Oids, sz : Nat])
  <2>1. \A i \in 1 .. Len(parts) : parts[i] \in Nat  BY <1>3
  <2>2. DOMAIN parts = 1 .. Len(parts) /\ Len(parts) \in Nat  BY <1>3
  <2>3. \A i \in 1 .. Len(parts) : fills[i] \in [oid : Oids, sz : Nat]
    BY <2>1, <2>2
  <2>4. fills = [i \in 1 .. Len(parts) |-> fills[i]]  BY <2>2
  <2> HIDE DEF fills
  <2> QED BY <2>2, <2>3, <2>4
<1>6. inbox' = inbox \o fills /\ filled' = filled \cup {fills[i] : i \in DOMAIN fills}
  BY DEF Reported
<1> HIDE DEF fills
<1>7. \A f \in filled' : f \in filled \/ f.oid = oid  BY <1>4, <1>6
<1>8. ASSUME NEW i \in DOMAIN inbox'
      PROVE  inbox'[i] \in filled' \/ \E j \in DOMAIN inbox : inbox'[i] = inbox[j]
  <2>1. /\ i \in 1 .. Len(inbox) + Len(fills)
        /\ Len(inbox) \in Nat /\ Len(fills) \in Nat
        /\ DOMAIN inbox = 1 .. Len(inbox) /\ DOMAIN fills = 1 .. Len(fills)
    BY <1>0, <1>5, <1>6, <1>8
  <2>2. CASE i <= Len(inbox)
    <3>1. inbox'[i] = inbox[i]  BY <1>0, <1>5, <1>6, <2>1, <2>2
    <3> QED BY <2>1, <2>2, <3>1
  <2>3. CASE i > Len(inbox)
    <3>1. inbox'[i] = fills[i - Len(inbox)]
      BY <1>0, <1>5, <1>6, <2>1, <2>3
    <3>2. i - Len(inbox) \in DOMAIN fills  BY <2>1, <2>3
    <3> QED BY <1>6, <3>1, <3>2
  <2> QED BY <2>1, <2>2, <2>3
<1> QED BY <1>2, <1>6, <1>7, <1>8

\* A position that has appeared is not larger than the hedge, and closes the
\* search for the entry.
LEMMA FoundOpenOrderly ==
    ASSUME OrderlyInv, Alone, FoundOpen("worker"), UNCHANGED exchange,
           hedge.status = "entry_pending",
           Work.pc \notin {"sent", "slSent", "iocSent"}
    PROVE  OwnInv'
<1> USE DEF OrderlyInv, OwnInv
<1>0. /\ hedge \in Hedges /\ Work \in Frames /\ pos \in Nat
      /\ Work = run["worker"] /\ Creation.pc = "idle" /\ Creation' = Creation
      /\ run \in [Threads -> Frames] /\ "worker" \in Threads
      /\ pos \in Lots /\ pos > 0
  BY WorkTyped, PosInLots
  DEF Work, BaseInv, TypeInv, FramesTyped, Threads, Alone, FoundOpen
<1>1. orders = {} /\ hedge.slOid = NoOid  BY <1>0, EntryPending
<1>2. /\ hedge'.status = "entry_pending" /\ hedge'.slOid = NoOid
      /\ hedge'.entryOid = hedge.entryOid
  BY <1>0, <1>1 DEF FoundOpen, Hedges
<1>3. /\ Work'.pc \in {"oversize", "entryFills"} /\ Work'.then = "stop"
      /\ Work'.snap = Work.snap
  BY <1>0 DEF FoundOpen, Frames, Work
<1>4. orders' = {} /\ LedgerInv' /\ FilledInv' /\ StatusInv'
  BY <1>0, <1>1, <1>2, <1>3, EntryGoes DEF exchange
<1>5. PlaceInv'
  BY <1>2, <1>3
  DEF PlaceInv, FillPcs, RescuePcs, PlacePcs, SlPcs, ClosePcs, EndPcs,
      CancelPcs
<1>6. KnowsInv'  BY <1>3, <1>4 DEF KnowsInv, PlacePcs
<1>7. ListInv'  BY <1>3 DEF ListInv
<1> QED BY <1>4, <1>5, <1>6, <1>7

LEMMA RescueOrderly ==
    ASSUME OrderlyInv, NoMishap, Alone, Rescue("worker")
    PROVE  OwnInv'
<1> USE DEF OrderlyInv, OwnInv
<1>0. /\ hedge \in Hedges /\ Work \in Frames /\ pos \in Nat
      /\ Size \in Nat \ {0} /\ nextOid \in Nat \ {0}
      /\ Work = run["worker"] /\ pos \in 0 .. pos
      /\ run \in [Threads -> Frames] /\ "worker" \in Threads
      /\ \A f \in filled : f.oid \in Nat \ {0}
      /\ Creation.pc = "idle" /\ Creation' = Creation
  BY WorkTyped DEF Work, BaseInv, TypeInv, FramesTyped, Threads, Alone
<1>b. Work.pc \in RescuePcs \cup {"entryFills"}
  BY <1>0
  DEF Rescue, EntryRecovered, EntryUnfilled, RescueDeclined, RescueLists,
      RescueReads, RescueCancels, RescueConfirms, RescueClears, IocSent,
      IocRefused, IocAcked, At, RescuePcs
<1>c. hedge.status = "entry_pending" /\ hedge.slOid = NoOid
  BY <1>b DEF PlaceInv, StatusInv
<1>1. CASE EntryRecovered("worker")
  <2>1. /\ Work.pc = "entryFills" /\ UNCHANGED exchange
        /\ \E f : run' = [run EXCEPT !["worker"].pc = "entryFill",
                                     !["worker"].fill = f]
        /\ hedge' = hedge \/ hedge' = [hedge EXCEPT !.size = pos]
    <3>1. pos <= Size  BY DEF LedgerInv
    <3> QED BY <1>0, <1>1, <3>1 DEF EntryRecovered, At, NoMishap
  <2>2. hedge'.status = "entry_pending" /\ hedge'.slOid = NoOid
    BY <1>0, <1>c, <2>1 DEF Hedges
  <2>3. Work'.pc = "entryFill" /\ Work'.snap = Work.snap
    BY <1>0, <2>1 DEF Frames, Work
  <2>4. orders' = {} /\ LedgerInv' /\ FilledInv' /\ StatusInv'
    BY <1>0, <1>c, <2>1, <2>2, <2>3, BareGoes DEF exchange, BarePcs
  <2>5. PlaceInv'
    BY <2>2, <2>3
    DEF PlaceInv, FillPcs, RescuePcs, PlacePcs, SlPcs, ClosePcs, EndPcs,
        CancelPcs
  <2>6. KnowsInv'  BY <2>3, <2>4 DEF KnowsInv, PlacePcs
  <2>7. ListInv'  BY <2>3 DEF ListInv
  <2> QED BY <2>4, <2>5, <2>6, <2>7
<1>2. CASE EntryUnfilled("worker")
  <2>1. /\ Work.pc = "entryFills" /\ UNCHANGED exchange
        /\ pos = 0 /\ \A f \in filled : f.oid # hedge.entryOid
        /\ \/ /\ Work.then = "replace"
              /\ hedge' = [hedge EXCEPT !.entryOid = NoOid]
              /\ Goto("worker", "place")
           \/ Goto("worker", "iocRead") /\ hedge' = hedge
           \/ Return("worker") /\ hedge' = hedge
    BY <1>0, <1>2 DEF EntryUnfilled, At, NoMishap
  <2>2. /\ hedge'.status = "entry_pending" /\ hedge'.slOid = NoOid
        /\ hedge' = hedge \/ hedge'.entryOid = NoOid
    BY <1>0, <1>c, <2>1 DEF Hedges
  <2>3. Work'.pc # "slSent"
    BY <2>1, WorkGoes, WorkReturns
  <2>4. orders' = {} /\ LedgerInv' /\ FilledInv' /\ StatusInv'
    BY <1>0, <1>c, <2>1, <2>2, <2>3, BareGoes DEF exchange, BarePcs
  <2>5. CASE Return("worker")  BY <2>4, <2>5, Rests
  <2>6. CASE /\ Work.then = "replace" /\ Goto("worker", "place")
             /\ hedge' = [hedge EXCEPT !.entryOid = NoOid]
    <3>1. hedge'.entryOid = NoOid  BY <1>0, <2>6 DEF Hedges
    <3>2. Work'.pc = "place" /\ Work'.snap = Work.snap
      BY <2>6, WorkGoes
    <3>3. PlaceInv'
      BY <2>2, <3>2
      DEF PlaceInv, FillPcs, RescuePcs, PlacePcs, SlPcs, ClosePcs, EndPcs,
          CancelPcs
    <3>4. KnowsInv'  BY <2>4, <3>1, <3>2 DEF KnowsInv
    <3>5. ListInv'  BY <2>1, <2>6, <3>2 DEF ListInv
    <3> QED BY <2>4, <3>3, <3>4, <3>5
  <2>7. CASE Goto("worker", "iocRead") /\ hedge' = hedge
    <3>1. Work'.pc = "iocRead" /\ Work'.snap = Work.snap
      BY <2>7, WorkGoes
    <3>2. PlaceInv'
      BY <2>2, <3>1
      DEF PlaceInv, FillPcs, RescuePcs, PlacePcs, SlPcs, ClosePcs, EndPcs,
          CancelPcs
    <3>3. KnowsInv'
      BY <2>1, <2>4, <2>7, <3>1 DEF KnowsInv, PlacePcs, exchange
    <3>4. ListInv'  BY <3>1 DEF ListInv
    <3> QED BY <2>4, <3>2, <3>3, <3>4
  <2> QED BY <2>1, <2>5, <2>6, <2>7
<1>3. CASE RescueDeclined("worker")
  <2>1. /\ Work.pc = "rescue" /\ Return("worker") /\ UNCHANGED exchange
        /\ hedge' = hedge \/ hedge' = SetStatus("error")
    BY <1>0, <1>3, SavedHedge DEF RescueDeclined, At, NoMishap
  <2>2. /\ hedge'.status \in {"entry_pending", "error"}
        /\ hedge'.slOid = NoOid /\ hedge'.entryOid = hedge.entryOid
    BY <1>0, <1>c, <2>1 DEF SetStatus, Hedges
  <2>3. Work'.pc = "idle"  BY <2>1, WorkReturns
  <2>4. LedgerInv' /\ FilledInv' /\ StatusInv'
    BY <1>0, <1>c, <2>1, <2>2, <2>3, EntryGoes DEF exchange
  <2> QED BY <2>1, <2>4, Rests
<1>4. CASE RescueLists("worker")
  <2>1. /\ Work.pc = "rescue" /\ UNCHANGED <<hedge, exchange>>
        /\ \E s : /\ run' = [run EXCEPT !["worker"].pc = "rescueRead",
                                        !["worker"].snap = s]
                  /\ s = IF Work.then = "listed" THEN Work.snap
                         ELSE [ok |-> TRUE, seen |-> orders]
    BY <1>0, <1>4 DEF RescueLists, At
  <2>2. /\ Work'.pc = "rescueRead"
        /\ Work'.snap = IF Work.then = "listed" THEN Work.snap
                        ELSE [ok |-> TRUE, seen |-> orders]
    BY <1>0, <2>1 DEF Frames, Work
  <2>3. orders' = orders /\ LedgerInv' /\ FilledInv' /\ StatusInv'
    BY <1>0, <1>c, <2>1, <2>2, EntryGoes DEF exchange
  <2>4. Listed' /\ Work'.snap.ok
    <3>1. CASE Work.then = "listed"
      BY <2>1, <2>2, <2>3, <3>1 DEF ListInv, Listed
    <3>2. CASE Work.then # "listed"
      <4>1. \A o \in orders : o.oid = hedge.entryOid
        BY <1>0, <1>c, <2>1, EntryPending
      <4> QED BY <2>1, <2>2, <2>3, <3>2, <4>1 DEF Listed
    <3> QED BY <3>1, <3>2
  <2>5. PlaceInv'
    BY <1>c, <2>1, <2>2
    DEF PlaceInv, FillPcs, RescuePcs, PlacePcs, SlPcs, ClosePcs, EndPcs,
        CancelPcs
  <2>6. KnowsInv'
    BY <2>2
    DEF KnowsInv, BarePcs, FillPcs, PlacePcs, SlPcs, ClosePcs, EndPcs,
        CancelPcs
  <2>7. ListInv'  BY <2>2, <2>4 DEF ListInv
  <2> QED BY <2>3, <2>5, <2>6, <2>7
<1>5. CASE RescueReads("worker")
  <2>1. Work.pc = "rescueRead" /\ UNCHANGED exchange
    BY <1>0, <1>5 DEF RescueReads, At
  <2>2. CASE FoundOpen("worker")
    BY <1>c, <2>1, <2>2, FoundOpenOrderly
  <2>3. CASE ~FoundOpen("worker")
    <3> DEFINE p == IF Lists(Work.snap, hedge.entryOid)
                    THEN "rescueCancel" ELSE "entryFills"
    <3>1. /\ pos = 0 /\ hedge' = hedge
          /\ \/ run' = [run EXCEPT !["worker"].then = "ioc",
                                   !["worker"].pc = p]
             \/ Return("worker")
      BY <1>0, <1>5, <2>3 DEF RescueReads, NoMishap
    <3>2. Listed  BY <2>1 DEF ListInv
    <3>3. p = "entryFills" => orders = {}
      <4>1. \A o \in orders : o \in Work.snap.seen /\ o.oid = hedge.entryOid
        BY <3>2 DEF Listed
      <4> QED BY <4>1 DEF Lists
    <3>4. p \in {"rescueCancel", "entryFills"}  OBVIOUS
    <3> HIDE DEF p
    <3>5. \/ Return("worker") /\ Work'.pc = "idle"
          \/ Work'.pc = p /\ Work'.then = "ioc" /\ Work'.snap = Work.snap
      BY <1>0, <3>1, WorkReturns DEF Frames, Work
    <3>6. orders' = orders /\ LedgerInv' /\ FilledInv' /\ StatusInv'
      <4>1. Work'.pc \notin {"sent", "slSent", "iocSent"}
        BY <3>4, <3>5
      <4> QED BY <1>0, <1>c, <2>1, <3>1, <4>1, EntryGoes DEF exchange
    <3>7. CASE Return("worker")  BY <3>6, <3>7, Rests
    <3>8. CASE Work'.pc = p /\ Work'.then = "ioc" /\ Work'.snap = Work.snap
      <4>1. PlaceInv'
        BY <1>c, <3>1, <3>4, <3>8
        DEF PlaceInv, FillPcs, RescuePcs, PlacePcs, SlPcs, ClosePcs, EndPcs,
            CancelPcs
      <4>2. KnowsInv'
        BY <3>3, <3>4, <3>6, <3>8
        DEF KnowsInv, BarePcs, FillPcs, PlacePcs, SlPcs, ClosePcs, EndPcs,
            CancelPcs
      <4>3. ListInv'  BY <3>4, <3>8 DEF ListInv
      <4> QED BY <3>6, <4>1, <4>2, <4>3
    <3> QED BY <3>5, <3>7, <3>8
  <2> QED BY <2>2, <2>3
<1>6. CASE RescueCancels("worker")
  <2>1. /\ Work.pc = "rescueCancel" /\ Goto("worker", "rescueConfirm")
        /\ orders' = {o \in orders : o.oid # hedge.entryOid}
        /\ UNCHANGED <<hedge, pos, filled, inbox, nextOid>>
    BY <1>0, <1>6 DEF RescueCancels, At, NoMishap
  <2>2. orders' = {}
    <3>1. \A o \in orders : o.oid = hedge.entryOid
      BY <1>0, <1>c, <2>1, EntryPending
    <3> QED BY <2>1, <3>1
  <2>3. /\ Work'.pc = "rescueConfirm" /\ Work'.snap = Work.snap
        /\ Work'.then = Work.then
    BY <2>1, WorkGoes
  <2>4. LedgerInv' /\ FilledInv' /\ StatusInv'
    BY <1>0, <1>c, <2>1, <2>2, <2>3, EntryGoes
  <2>5. PlaceInv'
    BY <1>c, <2>1, <2>3
    DEF PlaceInv, FillPcs, RescuePcs, PlacePcs, SlPcs, ClosePcs, EndPcs,
        CancelPcs
  <2>6. KnowsInv'  BY <2>2, <2>3 DEF KnowsInv, PlacePcs
  <2>7. ListInv'  BY <2>1, <2>3 DEF ListInv
  <2> QED BY <2>4, <2>5, <2>6, <2>7
<1>7. CASE RescueConfirms("worker")
  <2>1. Work.pc = "rescueConfirm" /\ UNCHANGED exchange
    BY <1>0, <1>7 DEF RescueConfirms, At
  <2>2. CASE FoundOpen("worker")
    BY <1>c, <2>1, <2>2, FoundOpenOrderly
  <2>3. CASE ~FoundOpen("worker")
    <3>1. hedge' = hedge /\ (Goto("worker", "entryFills") \/ Return("worker"))
      BY <1>7, <2>3, SavedHedge DEF RescueConfirms, NoMishap
    <3>2. \/ Return("worker") /\ Work'.pc = "idle"
          \/ Work'.pc = "entryFills" /\ Work'.then = "ioc"
             /\ Work'.snap = Work.snap
      BY <2>1, <3>1, WorkGoes, WorkReturns DEF ListInv
    <3>3. Work'.pc # "slSent"  BY <3>2
    <3>4. orders' = {} /\ LedgerInv' /\ FilledInv' /\ StatusInv'
      BY <1>0, <1>c, <2>1, <3>1, <3>3, BareGoes DEF exchange, BarePcs
    <3>5. CASE Return("worker")  BY <3>4, <3>5, Rests
    <3>6. CASE Work'.pc = "entryFills" /\ Work'.then = "ioc"
               /\ Work'.snap = Work.snap
      <4>1. PlaceInv'
        BY <1>c, <3>1, <3>6
        DEF PlaceInv, FillPcs, RescuePcs, PlacePcs, SlPcs, ClosePcs, EndPcs,
            CancelPcs
      <4>2. KnowsInv'  BY <3>4, <3>6 DEF KnowsInv, PlacePcs
      <4>3. ListInv'  BY <3>6 DEF ListInv
      <4> QED BY <3>4, <4>1, <4>2, <4>3
    <3> QED BY <3>2, <3>5, <3>6
  <2> QED BY <2>2, <2>3
<1>8. CASE RescueClears("worker")
  <2>1. Work.pc = "iocRead" /\ UNCHANGED exchange
    BY <1>0, <1>8 DEF RescueClears, At
  <2>2. CASE FoundOpen("worker")
    BY <1>c, <2>1, <2>2, FoundOpenOrderly
  <2>3. CASE ~FoundOpen("worker")
    <3>1. /\ pos = 0
          /\ hedge' = [hedge EXCEPT !.entryOid = NoOid, !.slOid = NoOid]
          /\ run' = [run EXCEPT !["worker"].pc = "iocSend",
                       !["worker"].fill = [oid |-> hedge.entryOid, sz |-> 0]]
      BY <1>8, <2>3 DEF RescueClears, NoMishap
    <3>2. hedge'.status = "entry_pending" /\ hedge'.slOid = NoOid
      BY <1>0, <1>c, <3>1 DEF Hedges
    <3>3. /\ Work'.pc = "iocSend" /\ Work'.snap = Work.snap
          /\ Work'.fill.oid = hedge.entryOid
      BY <1>0, <3>1 DEF Frames, Work
    <3>4. orders' = {} /\ LedgerInv' /\ FilledInv' /\ StatusInv'
      BY <1>0, <1>c, <2>1, <3>2, <3>3, BareGoes DEF exchange, BarePcs
    <3>5. PlaceInv'
      BY <3>2, <3>3
      DEF PlaceInv, FillPcs, RescuePcs, PlacePcs, SlPcs, ClosePcs, EndPcs,
          CancelPcs
    <3>6. KnowsInv'
      BY <2>1, <3>1, <3>3, <3>4 DEF KnowsInv, PlacePcs, exchange
    <3>7. ListInv'  BY <3>3 DEF ListInv
    <3> QED BY <3>4, <3>5, <3>6, <3>7
  <2> QED BY <2>2, <2>3
<1>9. CASE IocSent("worker")
  <2>1. /\ Work.pc = "iocSend" /\ UNCHANGED <<hedge, orders>>
        /\ nextOid <= MaxOids /\ nextOid' = nextOid + 1
        /\ run' = [run EXCEPT !["worker"].pc = "iocSent",
                              !["worker"].fill = [oid |-> nextOid, sz |-> 0]]
    BY <1>0, <1>9 DEF IocSent, At
  <2>2. PICK parts \in PartsOf(Size) :
          pos' = pos + LotsIn(parts) /\ Reported(nextOid, parts)
    BY <1>9 DEF IocSent
  <2>3. nextOid \in Oids /\ Size \in Lots /\ Size > 0
    <3>0. MaxOids \in Nat  BY LotsGrow
    <3>1. nextOid \in Oids /\ MaxOids > 0  BY <1>0, <2>1, <3>0 DEF Oids
    <3>2. Size \in 0 .. Size  BY <1>0
    <3> QED BY <1>0, <3>1, <3>2, SizeInLots
  <2>4. /\ LotsIn(parts) \in 1 .. Size
        /\ \A f \in filled' : f \in filled \/ f.oid = nextOid
        /\ filled \subseteq filled'
        /\ \A i \in DOMAIN inbox' :
             inbox'[i] \in filled' \/ \E j \in DOMAIN inbox : inbox'[i] = inbox[j]
    BY <2>2, <2>3, ReportsOf DEF BaseInv, TypeInv
  <2>5. orders = {} /\ pos = 0
    BY <2>1 DEF KnowsInv, BarePcs
  <2>6. Work'.pc = "iocSent" /\ Work'.snap = Work.snap
    BY <1>0, <2>1 DEF Frames, Work
  <2>7. orders' = {} /\ Entries' = {} /\ StopLosses' = {}
    BY <2>1, <2>5 DEF Entries, StopLosses
  <2>8. LedgerInv'
    <3>1. pos' <= Size  BY <1>0, <2>2, <2>4, <2>5
    <3> QED BY <2>7, <3>1 DEF LedgerInv
  <2>9. FilledInv'
    <3>1. LiveSl' = NoOid  BY <1>c, <2>1, <2>6 DEF LiveSl
    <3>2. \A f \in filled' : f.oid < nextOid' /\ f.oid # NoOid
      BY <1>0, <2>1, <2>4 DEF FilledInv, NoOid
    <3>3. \A i \in DOMAIN inbox' : inbox'[i] \in filled'
      BY <2>4 DEF FilledInv
    <3> QED BY <2>7, <3>1, <3>2, <3>3 DEF FilledInv
  <2>10. StatusInv'  BY <1>c, <2>1, <2>7 DEF StatusInv
  <2>11. PlaceInv'
    BY <1>c, <2>1, <2>6
    DEF PlaceInv, FillPcs, RescuePcs, PlacePcs, SlPcs, ClosePcs, EndPcs,
        CancelPcs
  <2>12. KnowsInv'  BY <2>6, <2>7 DEF KnowsInv, PlacePcs
  <2>13. ListInv'  BY <2>6 DEF ListInv
  <2> QED BY <2>8, <2>9, <2>10, <2>11, <2>12, <2>13
<1>10. CASE IocRefused("worker") \/ IocAcked("worker")
  <2>1. /\ Work.pc \in {"iocSend", "iocSent"} /\ Return("worker")
        /\ UNCHANGED exchange
        /\ \/ hedge' = hedge
           \/ hedge' = [hedge EXCEPT !.entryOid = Work.fill.oid]
    BY <1>0, <1>10, SavedHedge DEF IocRefused, IocAcked, At
  <2>2. hedge'.status = "entry_pending" /\ hedge'.slOid = NoOid
    BY <1>0, <1>c, <2>1 DEF Hedges
  <2>3. Work'.pc = "idle"  BY <2>1, WorkReturns
  <2>4. LedgerInv' /\ FilledInv' /\ StatusInv'
    BY <1>0, <1>c, <2>1, <2>2, <2>3, BareGoes DEF exchange, BarePcs
  <2> QED BY <2>1, <2>4, Rests
<1> QED BY <1>1, <1>2, <1>3, <1>4, <1>5, <1>6, <1>7, <1>8, <1>9, <1>10
        DEF Rescue

-----------------------------------------------------------------------------
(* The monitor.                                                            *)

\* A step that leaves the hedge and its place in the cycle as they are.
LEMMA StillGoes ==
    ASSUME OrderlyInv, Creation' = Creation,
           Work.pc \notin {"sent", "slSent", "iocSent", "cancelRead",
                           "cancelOrders"},
           Work'.pc \notin {"sent", "slSent", "iocSent"},
           orders' \subseteq orders, UNCHANGED <<pos, filled, inbox, nextOid>>,
           hedge'.status = hedge.status, hedge'.entryOid = hedge.entryOid,
           hedge'.slOid = hedge.slOid
    PROVE  LedgerInv' /\ FilledInv' /\ StatusInv'
<1> USE DEF OrderlyInv, OwnInv
<1>1. Entries' \subseteq Entries /\ StopLosses' \subseteq StopLosses
  BY DEF Entries, StopLosses
<1>2. LiveEntry' = LiveEntry /\ LiveSl' = LiveSl  BY DEF LiveEntry, LiveSl
<1>3. LedgerInv'  BY <1>1, <1>2 DEF LedgerInv
<1>4. FilledInv'  BY <1>2 DEF FilledInv
<1>5. StatusInv'  BY <1>1 DEF StatusInv, Withdrawing
<1> QED BY <1>3, <1>4, <1>5

LEMMA TickWaitsOrderly ==
    ASSUME OrderlyInv, TickWaits("worker"), Creation' = Creation
    PROVE  OwnInv'
<1>1. /\ Work.pc \in {"entryTick", "waitingTick"} /\ Return("worker")
      /\ UNCHANGED exchange /\ hedge' = hedge
  BY SavedHedge DEF TickWaits, At, Work
<1>2. Work'.pc = "idle"  BY <1>1, WorkReturns DEF OrderlyInv
<1>3. LedgerInv' /\ FilledInv' /\ StatusInv'
  BY <1>1, <1>2, StillGoes DEF exchange
<1> QED BY <1>1, <1>3, Rests DEF OrderlyInv, OwnInv

\* While the hedge is protected, no order is open but its stop loss.
LEMMA OpenProtected ==
    ASSUME OrderlyInv, hedge.status = "open_protected",
           Work.pc \notin {"sent", "slSent"}
    PROVE  /\ Entries = {}
           /\ \A o \in orders : o \in StopLosses /\ o.oid = hedge.slOid
           /\ pos = 0 => orders = {}
           /\ \A o \in orders : o.oid # NoOid
<1> USE DEF OrderlyInv, OwnInv
<1>1. /\ orders = Entries \cup StopLosses
      /\ \A o \in orders : o.oid \in Nat \ {0} /\ o.sz \in Nat \ {0}
  BY TwoKinds, WorkTyped
<1>2. Entries = {}  BY DEF StatusInv, Withdrawing
<1>3. LiveSl = hedge.slOid  BY DEF LiveSl
<1>4. \A o \in orders : o.sz = pos /\ o.oid = hedge.slOid
  BY <1>1, <1>2, <1>3 DEF LedgerInv
<1> QED BY <1>1, <1>2, <1>4 DEF NoOid

\* The monitor looks for the entry order in the list of open orders.
LEMMA EntryCheckedGoes ==
    ASSUME OrderlyInv, NoMishap, Creation' = Creation, EntryChecked("worker")
    PROVE  LET p == IF hedge.entryOid = NoOid THEN "place"
                    ELSE IF Lists(Work.snap, hedge.entryOid) THEN "rescue"
                    ELSE "entryFills"
           IN  /\ Work.pc = "entryTick" /\ ~hedge.placing
               /\ hedge' = hedge /\ orders' \subseteq orders
               /\ UNCHANGED <<row, cycleRows, pos, filled, inbox, nextOid>>
               /\ Work'.pc = p /\ Work'.snap = Work.snap
               /\ Work'.then = IF p = "rescue" THEN "listed" ELSE "replace"
               /\ p # "rescue" => Work.snap.seen = {} /\ orders = {}
<1> USE DEF OrderlyInv, OwnInv
<1> DEFINE snap == Work.snap
           next(oid) == IF oid = NoOid THEN "place"
                        ELSE IF snap.ok /\ ~Lists(snap, oid) THEN "entryFills"
                        ELSE IF snap.ok THEN "rescue"
                        ELSE "idle"
           p == IF hedge.entryOid = NoOid THEN "place"
                ELSE IF Lists(Work.snap, hedge.entryOid) THEN "rescue"
                ELSE "entryFills"
<1>0. /\ hedge \in Hedges /\ Work \in Frames /\ Work = run["worker"]
      /\ run \in [Threads -> Frames] /\ "worker" \in Threads
      /\ Work.pc = "entryTick" /\ ~hedge.placing
      /\ UNCHANGED <<row, cycleRows, pos, filled, inbox, nextOid>>
  BY WorkTyped
  DEF Work, BaseInv, TypeInv, FramesTyped, Threads, EntryChecked, At, tables
<1>1. snap.ok /\ Listed  BY <1>0 DEF ListInv
<1>2. \A o \in snap.seen : o.oid = hedge.entryOid /\ o.oid # NoOid
  <2>1. snap.seen \subseteq Orders  BY <1>0 DEF Frames, Snapshots
  <2>2. \A o \in snap.seen : o.oid \in Oids  BY <2>1 DEF Orders
  <2>3. NoOid \notin Oids  BY LotsGrow DEF Oids, NoOid
  <2> QED BY <1>1, <2>2, <2>3 DEF Listed
<1>3. hedge.entryOid = NoOid => snap.seen = {}  BY <1>2
<1>4. PICK targets \in Duplicates(snap, hedge.entryOid) :
        /\ Cancel(targets)
        /\ \E kept \in ({o.oid : o \in EntriesIn(snap)} \ targets)
                       \cup {hedge.entryOid} :
             /\ hedge' = [hedge EXCEPT !.entryOid = kept]
             /\ IF next(kept) = "idle" THEN Return("worker")
                ELSE run' = [run EXCEPT
                       !["worker"].pc = next(kept),
                       !["worker"].then = IF next(kept) = "rescue"
                                          THEN "listed" ELSE "replace"]
  BY <1>0 DEF EntryChecked
<1>5. {o.oid : o \in EntriesIn(snap)} \subseteq {hedge.entryOid}
  BY <1>2 DEF EntriesIn
<1>6. /\ hedge' = [hedge EXCEPT !.entryOid = hedge.entryOid]
      /\ run' = [run EXCEPT
           !["worker"].pc = p,
           !["worker"].then = IF p = "rescue" THEN "listed" ELSE "replace"]
  <2>1. next(hedge.entryOid) = p /\ p # "idle"  BY <1>1
  <2> HIDE DEF p, next
  <2> QED BY <1>4, <1>5, <2>1
<1>7. hedge' = hedge  BY <1>0, <1>6 DEF Hedges
<1>8. orders' \subseteq orders  BY <1>4 DEF Cancel, NoMishap
<1>9. p # "rescue" => snap.seen = {} /\ orders = {}
  <2>1. p # "rescue" => snap.seen = {}
    <3>1. ~Lists(snap, hedge.entryOid) => snap.seen = {}
      BY <1>2 DEF Lists
    <3> QED BY <1>3, <3>1
  <2>2. orders \subseteq snap.seen  BY <1>1 DEF Listed
  <2> QED BY <2>1, <2>2
<1> HIDE DEF p
<1>10. /\ Work'.pc = p /\ Work'.snap = Work.snap
       /\ Work'.then = IF p = "rescue" THEN "listed" ELSE "replace"
  BY <1>0, <1>6 DEF Frames, Work
<1> QED BY <1>0, <1>7, <1>8, <1>9, <1>10 DEF p

LEMMA EntryCheckedOrderly ==
    ASSUME OrderlyInv, NoMishap, Alone, EntryChecked("worker")
    PROVE  OwnInv'
<1> USE DEF OrderlyInv, OwnInv
<1> DEFINE p == IF hedge.entryOid = NoOid THEN "place"
                ELSE IF Lists(Work.snap, hedge.entryOid) THEN "rescue"
                ELSE "entryFills"
<1>0. Creation' = Creation  BY DEF Alone
<1>1. /\ Work.pc = "entryTick" /\ ~hedge.placing
      /\ hedge' = hedge /\ orders' \subseteq orders
      /\ UNCHANGED <<pos, filled, inbox, nextOid>>
      /\ Work'.pc = p /\ Work'.snap = Work.snap
      /\ Work'.then = IF p = "rescue" THEN "listed" ELSE "replace"
      /\ p # "rescue" => Work.snap.seen = {} /\ orders = {}
  BY <1>0, EntryCheckedGoes
<1>2. p \in {"place", "entryFills", "rescue"}
      /\ (p = "place" => hedge.entryOid = NoOid)
  OBVIOUS
<1> HIDE DEF p
<1>3. /\ hedge.status = "entry_pending" /\ hedge.slOid = NoOid
      /\ Work.snap.ok /\ Listed
  BY <1>1 DEF PlaceInv, StatusInv, ListInv
<1>4. LedgerInv' /\ FilledInv' /\ StatusInv'
  <2>1. Work'.pc \notin {"sent", "slSent", "iocSent"}  BY <1>1, <1>2
  <2> QED BY <1>0, <1>1, <2>1, StillGoes
<1>5. PlaceInv'
  BY <1>1, <1>2, <1>3
  DEF PlaceInv, FillPcs, RescuePcs, PlacePcs, SlPcs, ClosePcs, EndPcs,
      CancelPcs
<1>6. KnowsInv'
  BY <1>1, <1>2
  DEF KnowsInv, BarePcs, FillPcs, PlacePcs, SlPcs, ClosePcs, EndPcs,
      CancelPcs
<1>7. ListInv'
  BY <1>1, <1>2, <1>3 DEF ListInv, Listed
<1> QED BY <1>4, <1>5, <1>6, <1>7

LEMMA MonitorOrderly ==
    ASSUME OrderlyInv, NoMishap, Alone, Monitor("worker")
    PROVE  OwnInv'
<1> USE DEF OrderlyInv, OwnInv
<1>0. /\ hedge \in Hedges /\ Work \in Frames /\ Work = run["worker"]
      /\ run \in [Threads -> Frames] /\ "worker" \in Threads
      /\ Creation.pc = "idle" /\ Creation' = Creation
      /\ pos \in Nat /\ pos \in 0 .. pos /\ pos \in Lots /\ pos <= Size
      /\ Size \in Nat
  BY WorkTyped, PosInLots
  DEF Work, BaseInv, TypeInv, FramesTyped, Threads, Alone, LedgerInv
<1>1. CASE TickWaits("worker")  BY <1>0, <1>1, TickWaitsOrderly
<1>2. CASE EntryChecked("worker")  BY <1>2, EntryCheckedOrderly
<1>3. CASE WaitingRetried("worker")
  <2>1. /\ Work.pc = "waitingTick" /\ UNCHANGED <<hedge, exchange>>
        /\ run' = [run EXCEPT !["worker"].pc = "place",
                              !["worker"].onThrow = "retry"]
    BY <1>0, <1>3 DEF WaitingRetried, At
  <2>2. hedge.status = "waiting" /\ hedge.entryOid = NoOid /\ orders = {}
    BY <2>1 DEF PlaceInv, StatusInv, KnowsInv, BarePcs
  <2>3. Work'.pc = "place" /\ Work'.snap = Work.snap
    BY <1>0, <2>1 DEF Frames, Work
  <2>4. LedgerInv' /\ FilledInv' /\ StatusInv'
    BY <1>0, <2>1, <2>3, StillGoes DEF exchange
  <2>5. PlaceInv'
    BY <2>1, <2>2, <2>3
    DEF PlaceInv, FillPcs, RescuePcs, PlacePcs, SlPcs, ClosePcs, EndPcs,
        CancelPcs
  <2>6. KnowsInv'  BY <2>1, <2>2, <2>3 DEF KnowsInv, exchange
  <2>7. ListInv'  BY <2>1, <2>3 DEF ListInv
  <2> QED BY <2>4, <2>5, <2>6, <2>7
<1>4. ~PositionUnreadable("worker") /\ ~PositionOversized("worker")
  <2>1. ~PositionUnreadable("worker")  BY DEF PositionUnreadable, NoMishap
  <2>2. ~PositionOversized("worker")  BY <1>0 DEF PositionOversized
  <2> QED BY <2>1, <2>2
<1>5. CASE PositionGone("worker")
  <2>1. /\ Work.pc \in {"pendingSlTick", "closingTick", "protectedTick"}
        /\ pos = 0 /\ UNCHANGED <<hedge, exchange>>
        /\ run' = [run EXCEPT !["worker"].pc = "exitFills",
                              !["worker"].then = "complete"]
    BY <1>0, <1>5 DEF PositionGone, PositionTick, At
  <2>2. hedge.status \in Inside
    BY <2>1 DEF PlaceInv, ClosePcs, Inside, OpenStatuses
  <2>3. orders = {}
    <3>1. CASE Work.pc = "protectedTick"
      BY <2>1, <3>1, OpenProtected DEF PlaceInv
    <3>2. CASE Work.pc # "protectedTick"
      BY <2>1, <3>2 DEF KnowsInv, BarePcs, ClosePcs
    <3> QED BY <3>1, <3>2
  <2>4. /\ Work'.pc = "exitFills" /\ Work'.snap = Work.snap
        /\ Work'.then = "complete"
    BY <1>0, <2>1 DEF Frames, Work
  <2>5. LedgerInv' /\ FilledInv' /\ StatusInv'
    BY <1>0, <2>1, <2>4, StillGoes DEF exchange
  <2>6. PlaceInv'
    BY <2>1, <2>2, <2>4
    DEF PlaceInv, FillPcs, RescuePcs, PlacePcs, SlPcs, ClosePcs, EndPcs,
        CancelPcs
  <2>7. KnowsInv'  BY <2>1, <2>3, <2>4 DEF KnowsInv, exchange, PlacePcs
  <2>8. ListInv'  BY <2>4 DEF ListInv
  <2> QED BY <2>5, <2>6, <2>7, <2>8
<1>6. CASE PositionSeen("worker")
  <2>1. /\ \/ Work.pc = "pendingSlTick" /\ Goto("worker", "pendingSlNext")
           \/ Work.pc = "protectedTick" /\ Goto("worker", "protectedNext")
        /\ hedge' = [hedge EXCEPT !.size = pos]
        /\ orders' \subseteq orders
        /\ UNCHANGED <<pos, filled, inbox, nextOid>>
    BY <1>0, <1>6 DEF PositionSeen, At, Cancel, NoMishap
  <2>2. /\ hedge'.status = hedge.status /\ hedge'.entryOid = hedge.entryOid
        /\ hedge'.slOid = hedge.slOid
    BY <1>0, <2>1 DEF Hedges
  <2>3. /\ \/ Work.pc = "pendingSlTick" /\ Work'.pc = "pendingSlNext"
           \/ Work.pc = "protectedTick" /\ Work'.pc = "protectedNext"
        /\ Work'.snap = Work.snap
    BY <2>1, WorkGoes
  <2>4. LedgerInv' /\ FilledInv' /\ StatusInv'
    <3>1. /\ Work.pc \notin {"sent", "slSent", "iocSent", "cancelRead",
                             "cancelOrders"}
          /\ Work'.pc \notin {"sent", "slSent", "iocSent"}
      BY <2>3
    <3> QED BY <1>0, <2>1, <2>2, <3>1, StillGoes
  <2>5. PlaceInv'
    BY <2>2, <2>3
    DEF PlaceInv, FillPcs, RescuePcs, PlacePcs, SlPcs, ClosePcs, EndPcs,
        CancelPcs
  <2>6. KnowsInv'
    BY <2>1, <2>3
    DEF KnowsInv, BarePcs, FillPcs, PlacePcs, SlPcs, ClosePcs, EndPcs,
        CancelPcs
  <2>7. ListInv'  BY <2>1, <2>3 DEF ListInv
  <2> QED BY <2>4, <2>5, <2>6, <2>7
<1>7. CASE PendingSlFound("worker") \/ PendingSlBreached("worker")
           \/ PendingSlGrace("worker") \/ PendingSlRetried("worker")
  <2> DEFINE tried == [hedge EXCEPT !.slRetry = @ + 1]
             h == [tried EXCEPT !.status = "error"]
  <2>1. Work.pc = "pendingSlNext" /\ UNCHANGED exchange
    BY <1>0, <1>7
    DEF PendingSlFound, PendingSlBreached, PendingSlGrace, PendingSlRetried, At
  <2>2. Work.pc \in BarePcs /\ hedge.status = "entry_filled_pending_sl"
    BY <2>1 DEF BarePcs, PlaceInv
  <2>3. \/ Return("worker")
           /\ hedge' \in {hedge, h, SetStatus("open_protected")}
        \/ /\ run' = [run EXCEPT !["worker"].pc = "close",
                                 !["worker"].pos = hedge.size]
           /\ hedge' = SetStatus("closing")
        \/ /\ run' = [run EXCEPT !["worker"].pc = "sl",
                                 !["worker"].onThrow = "keep"]
           /\ hedge' = tried
    BY <1>7, SavedHedge
    DEF PendingSlFound, PendingSlBreached, PendingSlGrace, PendingSlRetried
  <2>4. /\ tried.status = hedge.status /\ tried.slOid = hedge.slOid
        /\ h.status = "error" /\ h.slOid = hedge.slOid
        /\ SetStatus("open_protected").status = "open_protected"
        /\ SetStatus("open_protected").slOid = hedge.slOid
        /\ SetStatus("closing").status = "closing"
        /\ SetStatus("closing").slOid = hedge.slOid
    BY <1>0 DEF SetStatus, Hedges
  <2> HIDE DEF tried, h
  <2>5. \/ Return("worker") /\ Work'.pc = "idle"
        \/ /\ Work'.pc = "close" /\ Work'.snap = Work.snap
           /\ hedge'.status = "closing"
        \/ /\ Work'.pc = "sl" /\ Work'.snap = Work.snap
           /\ hedge'.status = "entry_filled_pending_sl"
    BY <1>0, <2>2, <2>3, <2>4, WorkReturns DEF Frames, Work
  <2>6. hedge'.status \notin {"waiting", "entry_pending"}
        /\ hedge'.slOid = hedge.slOid
    BY <2>2, <2>3, <2>4
  <2>7. Work'.pc # "slSent"  BY <2>5
  <2>8. orders' = {} /\ LedgerInv' /\ FilledInv' /\ StatusInv'
    BY <1>0, <2>1, <2>2, <2>6, <2>7, BareGoes DEF exchange
  <2>9. CASE Return("worker")  BY <2>8, <2>9, Rests
  <2>10. CASE /\ Work'.pc \in {"close", "sl"} /\ Work'.snap = Work.snap
              /\ Work'.pc = "close" => hedge'.status = "closing"
              /\ Work'.pc = "sl" => hedge'.status = "entry_filled_pending_sl"
    <3>1. PlaceInv'
      BY <2>10
      DEF PlaceInv, FillPcs, RescuePcs, PlacePcs, SlPcs, ClosePcs, EndPcs,
          CancelPcs, OpenStatuses
    <3>2. KnowsInv'  BY <2>8, <2>10 DEF KnowsInv, PlacePcs
    <3>3. ListInv'  BY <2>10 DEF ListInv
    <3> QED BY <2>8, <3>1, <3>2, <3>3
  <2> QED BY <2>5, <2>9, <2>10
<1>8. CASE ClosingRetried("worker") \/ ClosingAwaited("worker")
  <2>1. /\ Work.pc = "closingTick" /\ UNCHANGED exchange
        /\ hedge' = [hedge EXCEPT !.size = pos]
        /\ \/ Return("worker")
           \/ run' = [run EXCEPT !["worker"].pc = "close",
                                 !["worker"].pos = pos,
                                 !["worker"].then = "save"]
    BY <1>0, <1>8, SavedHedge DEF ClosingRetried, ClosingAwaited, At
  <2>2. Work.pc \in BarePcs /\ hedge.status = "closing"
    BY <2>1 DEF BarePcs, ClosePcs, PlaceInv
  <2>3. hedge'.status = "closing" /\ hedge'.slOid = hedge.slOid
    BY <1>0, <2>1, <2>2 DEF Hedges
  <2>4. \/ Return("worker") /\ Work'.pc = "idle"
        \/ Work'.pc = "close" /\ Work'.snap = Work.snap
    BY <1>0, <2>1, WorkReturns DEF Frames, Work
  <2>5. Work'.pc # "slSent"  BY <2>4
  <2>6. orders' = {} /\ LedgerInv' /\ FilledInv' /\ StatusInv'
    BY <1>0, <2>1, <2>2, <2>3, <2>5, BareGoes DEF exchange
  <2>7. CASE Return("worker")  BY <2>6, <2>7, Rests
  <2>8. CASE Work'.pc = "close" /\ Work'.snap = Work.snap
    <3>1. PlaceInv'
      BY <2>3, <2>8
      DEF PlaceInv, FillPcs, RescuePcs, PlacePcs, SlPcs, ClosePcs, EndPcs,
          CancelPcs
    <3>2. KnowsInv'  BY <2>6, <2>8 DEF KnowsInv, PlacePcs
    <3>3. ListInv'  BY <2>8 DEF ListInv
    <3> QED BY <2>6, <3>1, <3>2, <3>3
  <2> QED BY <2>4, <2>7, <2>8
<1>p. Work.pc = "protectedNext" =>
        /\ hedge.status = "open_protected" /\ Entries = {}
        /\ \A o \in orders : o.oid = hedge.slOid /\ o \in Work.snap.seen
        /\ ~SlListed("worker") => orders = {}
  <2>1. SUFFICES ASSUME Work.pc = "protectedNext"
                 PROVE  /\ hedge.status = "open_protected" /\ Entries = {}
                        /\ \A o \in orders : o.oid = hedge.slOid
                                             /\ o \in Work.snap.seen
                        /\ ~SlListed("worker") => orders = {}
    OBVIOUS
  <2>2. hedge.status = "open_protected" /\ orders \subseteq Work.snap.seen
    BY <2>1 DEF PlaceInv, ListInv
  <2>3. /\ Entries = {}
        /\ \A o \in orders : o.oid = hedge.slOid /\ o.oid # NoOid
    BY <2>1, <2>2, OpenProtected
  <2>4. ~SlListed("worker") => orders = {}
    BY <1>0, <2>2, <2>3 DEF SlListed, Lists
  <2> QED BY <2>2, <2>3, <2>4
<1>9. CASE ProtectedBreached("worker")
  <2> DEFINE h == [hedge EXCEPT !.status = "closing", !.slOid = NoOid]
  <2>1. /\ Work.pc = "protectedNext"
        /\ UNCHANGED <<pos, filled, inbox, nextOid>>
        /\ run' = [run EXCEPT !["worker"].pc = "close",
                              !["worker"].pos = hedge.size]
        /\ \/ hedge' = h /\ Cancel({hedge.slOid})
           \/ /\ hedge' = SetStatus("closing") /\ orders' = orders
              /\ ~SlListed("worker")
    BY <1>0, <1>9, SavedHedge DEF ProtectedBreached, At
  <2>2. orders' = {}
    <3>1. CASE Cancel({hedge.slOid})
      BY <1>p, <2>1, <3>1 DEF Cancel, NoMishap
    <3> QED BY <1>p, <2>1, <3>1
  <2>3. hedge'.status = "closing" /\ hedge'.slOid \in {hedge.slOid, NoOid}
    BY <1>0, <2>1 DEF SetStatus, Hedges
  <2>4. Work'.pc = "close" /\ Work'.snap = Work.snap
    BY <1>0, <2>1 DEF Frames, Work
  <2>5. LedgerInv' /\ FilledInv' /\ StatusInv'
    <3>1. LiveSl' \in {LiveSl, NoOid}  BY <2>1, <2>3, <2>4 DEF LiveSl
    <3> QED BY <1>0, <2>1, <2>2, <2>3, <3>1, BareStep
  <2>6. PlaceInv'
    BY <2>3, <2>4
    DEF PlaceInv, FillPcs, RescuePcs, PlacePcs, SlPcs, ClosePcs, EndPcs,
        CancelPcs
  <2>7. KnowsInv'  BY <2>2, <2>4 DEF KnowsInv, PlacePcs
  <2>8. ListInv'  BY <2>4 DEF ListInv
  <2> QED BY <2>5, <2>6, <2>7, <2>8
<1>10. CASE ProtectedHolds("worker") \/ ProtectedLost("worker")
  <2>1. /\ Work.pc = "protectedNext" /\ UNCHANGED exchange /\ hedge' = hedge
        /\ \/ Return("worker")
           \/ /\ ~SlListed("worker")
              /\ run' = [run EXCEPT !["worker"].pc = "exitFills",
                                    !["worker"].then = "protect"]
    BY <1>0, <1>10, SavedHedge DEF ProtectedHolds, ProtectedLost, At
  <2>2. \/ Return("worker") /\ Work'.pc = "idle"
        \/ /\ ~SlListed("worker") /\ Work'.pc = "exitFills"
           /\ Work'.then = "protect" /\ Work'.snap = Work.snap
    BY <1>0, <2>1, WorkReturns DEF Frames, Work
  <2>3. LedgerInv' /\ FilledInv' /\ StatusInv'
    <3>1. Work'.pc \notin {"sent", "slSent", "iocSent"}  BY <2>2
    <3> QED BY <1>0, <2>1, <3>1, StillGoes DEF exchange
  <2>4. CASE Return("worker")  BY <2>3, <2>4, Rests
  <2>5. CASE /\ ~SlListed("worker") /\ Work'.pc = "exitFills"
             /\ Work'.then = "protect" /\ Work'.snap = Work.snap
    <3>1. PlaceInv'
      BY <1>p, <2>1, <2>5
      DEF PlaceInv, FillPcs, RescuePcs, PlacePcs, SlPcs, ClosePcs, EndPcs,
          CancelPcs, Inside, OpenStatuses
    <3>2. KnowsInv'  BY <1>p, <2>1, <2>5 DEF KnowsInv, PlacePcs, exchange
    <3>3. ListInv'  BY <2>5 DEF ListInv
    <3> QED BY <2>3, <3>1, <3>2, <3>3
  <2> QED BY <2>2, <2>4, <2>5
<1> QED BY <1>1, <1>2, <1>3, <1>4, <1>5, <1>6, <1>7, <1>8, <1>9, <1>10
        DEF Monitor

-----------------------------------------------------------------------------
(* The hedge is cancelled, or another operation is asked for.              *)

LEMMA CancellationOrderly ==
    ASSUME OrderlyInv, NoMishap, Alone, Cancellation("worker")
    PROVE  OwnInv'
<1> USE DEF OrderlyInv, OwnInv
<1>0. /\ hedge \in Hedges /\ Work \in Frames /\ Work = run["worker"]
      /\ run \in [Threads -> Frames] /\ "worker" \in Threads
      /\ Creation.pc = "idle" /\ Creation' = Creation
      /\ pos \in Nat /\ pos \in 0 .. pos
  BY WorkTyped DEF Work, BaseInv, TypeInv, FramesTyped, Threads, Alone
<1>1. CASE CancelBegins("worker")
  <2>1. /\ Work.pc = "cancel" /\ Goto("worker", "cancelRead")
        /\ UNCHANGED exchange /\ hedge' = SetStatus("cancel_pending")
    BY <1>0, <1>1, SavedHedge DEF CancelBegins, At
  <2>2. /\ hedge'.status = "cancel_pending"
        /\ hedge'.entryOid = hedge.entryOid /\ hedge'.slOid = hedge.slOid
    BY <1>0, <2>1 DEF SetStatus, Hedges
  <2>3. Work'.pc = "cancelRead" /\ Work'.snap = Work.snap
    BY <2>1, WorkGoes
  <2>4. LiveEntry' = LiveEntry /\ LiveSl' = LiveSl
    BY <1>0, <2>1, <2>2, <2>3 DEF LiveEntry, LiveSl
  <2>5. /\ UNCHANGED <<orders, pos, filled, inbox, nextOid>>
        /\ Entries' = Entries /\ StopLosses' = StopLosses
    BY <2>1 DEF exchange, Entries, StopLosses
  <2>6. LedgerInv'  BY <2>4, <2>5 DEF LedgerInv
  <2>7. FilledInv'  BY <2>4, <2>5 DEF FilledInv
  <2>8. StatusInv'  BY <2>2, <2>3 DEF StatusInv, Withdrawing
  <2>9. PlaceInv'
    BY <2>2, <2>3
    DEF PlaceInv, FillPcs, RescuePcs, PlacePcs, SlPcs, ClosePcs, EndPcs,
        CancelPcs
  <2>10. KnowsInv'
    BY <2>3
    DEF KnowsInv, BarePcs, FillPcs, PlacePcs, SlPcs, ClosePcs, EndPcs,
        CancelPcs
  <2>11. ListInv'  BY <2>3 DEF ListInv
  <2> QED BY <2>6, <2>7, <2>8, <2>9, <2>10, <2>11
<1>c. Work.pc \in CancelPcs => hedge.status = "cancel_pending"
  BY DEF PlaceInv
<1>2. CASE \/ CancelTimedOut("worker") \/ CancelDone("worker")
           \/ CancelPostponed("worker")
  <2> DEFINE h == [hedge EXCEPT !.status = "cancelled", !.entryOid = NoOid,
                                !.slOid = NoOid]
  <2>1. /\ Work.pc \in {"cancelTick", "cancelConfirm", "cancelLastPos",
                        "cancelLastOrders"}
        /\ Return("worker") /\ UNCHANGED exchange
        /\ hedge' \in {hedge, SetStatus("error"), h}
    BY <1>0, <1>2, SavedHedge
    DEF CancelTimedOut, CancelDone, CancelPostponed, At
  <2>2. Work.pc \in BarePcs /\ hedge.status = "cancel_pending"
    BY <1>c, <2>1 DEF BarePcs, CancelPcs
  <2>3. /\ h.status = "cancelled" /\ h.slOid = NoOid
        /\ SetStatus("error").status = "error"
        /\ SetStatus("error").slOid = hedge.slOid
    BY <1>0 DEF SetStatus, Hedges
  <2> HIDE DEF h
  <2>4. /\ hedge'.status \notin {"waiting", "entry_pending"}
        /\ hedge'.slOid \in {hedge.slOid, NoOid}
    BY <2>1, <2>2, <2>3
  <2>5. Work'.pc = "idle"  BY <2>1, WorkReturns
  <2>6. LedgerInv' /\ FilledInv' /\ StatusInv'
    BY <1>0, <2>1, <2>2, <2>4, <2>5, BareGoes DEF exchange
  <2> QED BY <2>1, <2>6, Rests
<1>3. CASE \/ CancelTick("worker") \/ CancelCloses("worker")
           \/ CancelConfirmsOrders("worker") \/ CancelConfirmsPos("worker")
  <2>1. PICK p \in {"cancelRead", "cancelConfirm", "cancelLastPos",
                    "cancelLastOrders"} :
          Goto("worker", p) /\ (p = "cancelLastOrders" => pos = 0)
    BY <1>3
    DEF CancelTick, CancelCloses, CancelConfirmsOrders, CancelConfirmsPos
  <2>2. /\ Work.pc \in {"cancelTick", "cancelClose", "cancelConfirm"}
        /\ UNCHANGED <<hedge, orders, filled, inbox, nextOid>>
        /\ pos' \in {pos, IF Work.pos < pos THEN pos - Work.pos ELSE 0}
    BY <1>0, <1>3
    DEF CancelTick, CancelCloses, CancelConfirmsOrders, CancelConfirmsPos,
        At, ReducedBy, NoMishap, exchange
  <2>3. pos' \in 0 .. pos
    <3>1. Work.pos \in Lots  BY <1>0 DEF Frames
    <3>2. Work.pos \in Nat  BY <3>1, LotsGrow
    <3> QED BY <1>0, <2>2, <3>2
  <2>4. Work.pc \in BarePcs /\ hedge.status = "cancel_pending"
    BY <1>c, <2>2 DEF BarePcs, CancelPcs
  <2>5. Work'.pc = p /\ Work'.snap = Work.snap
    BY <2>1, WorkGoes
  <2>6. orders' = {} /\ LedgerInv' /\ FilledInv' /\ StatusInv'
    BY <1>0, <2>2, <2>3, <2>4, <2>5, BareGoes
  <2>7. PlaceInv'
    BY <2>2, <2>4, <2>5
    DEF PlaceInv, FillPcs, RescuePcs, PlacePcs, SlPcs, ClosePcs, EndPcs,
        CancelPcs
  <2>8. p = "cancelLastOrders" => pos' = 0  BY <2>1, <2>3
  <2>9. KnowsInv'  BY <2>5, <2>6, <2>8 DEF KnowsInv, PlacePcs
  <2>10. ListInv'  BY <2>5 DEF ListInv
  <2> QED BY <2>6, <2>7, <2>9, <2>10
<1>4. CASE CancelReads("worker")
  <2>1. /\ Work.pc = "cancelRead" /\ UNCHANGED <<hedge, exchange>>
        /\ run' = [run EXCEPT !["worker"].pc = "cancelOrders",
                              !["worker"].pos = pos,
                              !["worker"].snap = [ok |-> TRUE, seen |-> orders]]
    BY <1>0, <1>4 DEF CancelReads, At, NoMishap
  <2>2. hedge.status = "cancel_pending"  BY <1>c, <2>1 DEF CancelPcs
  <2>3. /\ Work'.pc = "cancelOrders"
        /\ Work'.snap = [ok |-> TRUE, seen |-> orders]
    BY <1>0, <2>1 DEF Frames, Work
  <2>4. LiveEntry' = LiveEntry /\ LiveSl' = LiveSl
    BY <1>0, <2>1, <2>3 DEF LiveEntry, LiveSl
  <2>5. /\ UNCHANGED <<orders, pos, filled, inbox, nextOid>>
        /\ Entries' = Entries /\ StopLosses' = StopLosses
    BY <2>1 DEF exchange, Entries, StopLosses
  <2>6. LedgerInv'  BY <2>4, <2>5 DEF LedgerInv
  <2>7. FilledInv'  BY <2>4, <2>5 DEF FilledInv
  <2>8. StatusInv'  BY <2>1, <2>2, <2>3 DEF StatusInv, Withdrawing
  <2>9. PlaceInv'
    BY <2>1, <2>2, <2>3
    DEF PlaceInv, FillPcs, RescuePcs, PlacePcs, SlPcs, ClosePcs, EndPcs,
        CancelPcs
  <2>10. KnowsInv'
    BY <2>3
    DEF KnowsInv, BarePcs, FillPcs, PlacePcs, SlPcs, ClosePcs, EndPcs,
        CancelPcs
  <2>11. ListInv'  BY <2>3, <2>5 DEF ListInv
  <2> QED BY <2>6, <2>7, <2>8, <2>9, <2>10, <2>11
<1>5. CASE CancelOrders("worker")
  <2> DEFINE mine == {o.oid : o \in Work.snap.seen}
                     \cap {hedge.entryOid, hedge.slOid}
  <2>1. /\ Work.pc = "cancelOrders" /\ Cancel(mine)
        /\ \E p \in {"cancelClose", "cancelConfirm"} : Goto("worker", p)
        /\ UNCHANGED <<hedge, pos, filled, inbox, nextOid>>
    BY <1>0, <1>5 DEF CancelOrders, At
  <2>2. orders \subseteq Work.snap.seen /\ hedge.status = "cancel_pending"
    BY <1>c, <2>1 DEF ListInv, CancelPcs
  <2>3. \A o \in orders : o.oid \in {hedge.entryOid, hedge.slOid}
    <3>1. orders = Entries \cup StopLosses  BY TwoKinds, WorkTyped
    <3>2. LiveEntry = hedge.entryOid /\ LiveSl = hedge.slOid
      BY <1>0, <2>1 DEF LiveEntry, LiveSl
    <3> QED BY <3>1, <3>2 DEF LedgerInv
  <2>4. orders' = {}
    BY <2>1, <2>2, <2>3 DEF Cancel, NoMishap
  <2>5. Work'.pc \in {"cancelClose", "cancelConfirm"} /\ Work'.snap = Work.snap
    BY <2>1, WorkGoes
  <2>6. LedgerInv' /\ FilledInv' /\ StatusInv'
    <3>1. LiveSl' = LiveSl  BY <2>1, <2>5 DEF LiveSl
    <3> QED BY <1>0, <2>1, <2>2, <2>4, <3>1, BareStep
  <2>7. PlaceInv'
    BY <2>1, <2>2, <2>5
    DEF PlaceInv, FillPcs, RescuePcs, PlacePcs, SlPcs, ClosePcs, EndPcs,
        CancelPcs
  <2>8. KnowsInv'  BY <2>4, <2>5 DEF KnowsInv, PlacePcs
  <2>9. ListInv'  BY <2>5 DEF ListInv
  <2> QED BY <2>6, <2>7, <2>8, <2>9
<1> QED BY <1>1, <1>2, <1>3, <1>4, <1>5 DEF Cancellation

LEMMA OperationOrderly ==
    ASSUME OrderlyInv, NoMishap, Alone, Operation("worker")
    PROVE  OwnInv'
<1> USE DEF OrderlyInv, OwnInv
<1>0. /\ hedge \in Hedges /\ Work \in Frames /\ Work = run["worker"]
      /\ run \in [Threads -> Frames] /\ "worker" \in Threads
      /\ Creation.pc = "idle" /\ Creation' = Creation
      /\ pos \in Nat /\ pos \in 0 .. pos
      /\ orders = Entries \cup StopLosses
  BY WorkTyped, TwoKinds
  DEF Work, BaseInv, TypeInv, FramesTyped, Threads, Alone
<1>1. CASE Retargets("worker")
  <2>1. /\ Work.pc = "retarget" /\ Goto("worker", "place")
        /\ UNCHANGED <<pos, filled, inbox, nextOid>>
        /\ orders' = {o \in orders : o.oid # hedge.entryOid}
        /\ hedge' = [hedge EXCEPT !.entryOid = NoOid, !.status = "waiting"]
    BY <1>0, <1>1, SavedHedge DEF Retargets, At
  <2>2. hedge.status \in Retargetable /\ Work.snap.seen = {}
    BY <2>1 DEF PlaceInv, ListInv
  <2>3. orders' = {}
    <3>1. StopLosses = {}
      BY <2>1, <2>2 DEF StatusInv, Withdrawing, Retargetable
    <3>2. LiveEntry = hedge.entryOid  BY <1>0, <2>1 DEF LiveEntry
    <3> QED BY <1>0, <2>1, <3>1, <3>2 DEF LedgerInv
  <2>4. /\ hedge'.status = "waiting" /\ hedge'.entryOid = NoOid
        /\ hedge'.slOid = hedge.slOid
    BY <1>0, <2>1 DEF Hedges
  <2>5. Work'.pc = "place" /\ Work'.snap = Work.snap
    BY <2>1, WorkGoes
  <2>6. LedgerInv' /\ FilledInv' /\ StatusInv'
    <3>1. LiveSl' = LiveSl  BY <2>1, <2>4, <2>5 DEF LiveSl
    <3> QED BY <1>0, <2>1, <2>3, <2>4, <3>1, BareStep
  <2>7. PlaceInv'
    BY <2>4, <2>5
    DEF PlaceInv, FillPcs, RescuePcs, PlacePcs, SlPcs, ClosePcs, EndPcs,
        CancelPcs
  <2>8. KnowsInv'  BY <2>3, <2>4, <2>5 DEF KnowsInv
  <2>9. ListInv'  BY <2>2, <2>5 DEF ListInv
  <2> QED BY <2>6, <2>7, <2>8, <2>9
<1>2. CASE MovesExit("worker")
  <2>1. /\ Work.pc = "exit" /\ UNCHANGED <<pos, filled, inbox, nextOid>>
        /\ \/ /\ hedge.status \in OpenStatuses
              /\ orders' = {o \in orders : o.oid # hedge.slOid}
              /\ hedge' = [hedge EXCEPT !.slOid = NoOid,
                                        !.status = "entry_filled_pending_sl"]
              /\ Goto("worker", "sl")
           \/ hedge' = hedge /\ Return("worker") /\ orders' = orders
    BY <1>0, <1>2, SavedHedge DEF MovesExit, At
  <2>2. CASE hedge' = hedge /\ Return("worker") /\ orders' = orders
    <3>1. Work'.pc = "idle"  BY <2>2, WorkReturns
    <3>2. LedgerInv' /\ FilledInv' /\ StatusInv'
      BY <1>0, <2>1, <2>2, <3>1, StillGoes
    <3> QED BY <2>2, <3>2, Rests
  <2>3. CASE /\ hedge.status \in OpenStatuses
             /\ orders' = {o \in orders : o.oid # hedge.slOid}
             /\ hedge' = [hedge EXCEPT !.slOid = NoOid,
                                       !.status = "entry_filled_pending_sl"]
             /\ Goto("worker", "sl")
    <3>1. orders' = {}
      <4>1. Entries = {}
        BY <2>1, <2>3 DEF StatusInv, Withdrawing, OpenStatuses
      <4>2. LiveSl = hedge.slOid  BY <2>1 DEF LiveSl
      <4> QED BY <1>0, <2>3, <4>1, <4>2 DEF LedgerInv
    <3>2. /\ hedge'.status = "entry_filled_pending_sl"
          /\ hedge'.slOid = NoOid
      BY <1>0, <2>3 DEF Hedges
    <3>3. Work'.pc = "sl" /\ Work'.snap = Work.snap
      BY <2>3, WorkGoes
    <3>4. LedgerInv' /\ FilledInv' /\ StatusInv'
      <4>1. LiveSl' = NoOid  BY <3>2, <3>3 DEF LiveSl
      <4> QED BY <1>0, <2>1, <3>1, <3>2, <4>1, BareStep
    <3>5. PlaceInv'
      BY <3>2, <3>3
      DEF PlaceInv, FillPcs, RescuePcs, PlacePcs, SlPcs, ClosePcs, EndPcs,
          CancelPcs, OpenStatuses
    <3>6. KnowsInv'  BY <3>1, <3>3 DEF KnowsInv, PlacePcs
    <3>7. ListInv'  BY <3>3 DEF ListInv
    <3> QED BY <3>4, <3>5, <3>6, <3>7
  <2> QED BY <2>1, <2>2, <2>3
<1>3. ~RequestFails("worker")  BY DEF RequestFails, NoMishap
<1>4. CASE EntryTriggered("worker")
  <2>1. /\ Work.pc = "entryTrigger" /\ UNCHANGED <<hedge, exchange>>
        /\ \/ /\ Rescuable
              /\ run' = [run EXCEPT !["worker"].pc = "rescue",
                                    !["worker"].then = "unlisted"]
           \/ Return("worker")
    BY <1>0, <1>4 DEF EntryTriggered, At
  <2>2. \/ /\ hedge.status = "entry_pending" /\ Work'.pc = "rescue"
           /\ Work'.then = "unlisted" /\ Work'.snap = Work.snap
        \/ Return("worker") /\ Work'.pc = "idle"
    BY <1>0, <2>1, WorkReturns DEF Frames, Work, Rescuable
  <2>3. LedgerInv' /\ FilledInv' /\ StatusInv'
    <3>1. Work'.pc \notin {"sent", "slSent", "iocSent"}  BY <2>2
    <3> QED BY <1>0, <2>1, <3>1, StillGoes DEF exchange
  <2>4. CASE Return("worker")  BY <2>3, <2>4, Rests
  <2>5. CASE /\ hedge.status = "entry_pending" /\ Work'.pc = "rescue"
             /\ Work'.then = "unlisted" /\ Work'.snap = Work.snap
    <3>1. PlaceInv'
      BY <2>1, <2>5
      DEF PlaceInv, FillPcs, RescuePcs, PlacePcs, SlPcs, ClosePcs, EndPcs,
          CancelPcs
    <3>2. KnowsInv'
      BY <2>5
      DEF KnowsInv, BarePcs, FillPcs, PlacePcs, SlPcs, ClosePcs, EndPcs,
          CancelPcs
    <3>3. ListInv'  BY <2>5 DEF ListInv
    <3> QED BY <2>3, <3>1, <3>2, <3>3
  <2> QED BY <2>2, <2>4, <2>5
<1>5. CASE ExitTriggered("worker")
  <2>1. /\ Work.pc = "exitTrigger" /\ UNCHANGED <<pos, filled, inbox, nextOid>>
        /\ \/ /\ hedge.status = "open_protected"
              /\ Cancel({hedge.slOid} \ {NoOid})
              /\ hedge' = [hedge EXCEPT !.slOid = NoOid, !.status = "closing"]
              /\ Goto("worker", "exitRead")
           \/ hedge' = hedge /\ Return("worker") /\ orders' = orders
    BY <1>0, <1>5, SavedHedge DEF ExitTriggered, At
  <2>2. CASE hedge' = hedge /\ Return("worker") /\ orders' = orders
    <3>1. Work'.pc = "idle"  BY <2>2, WorkReturns
    <3>2. LedgerInv' /\ FilledInv' /\ StatusInv'
      BY <1>0, <2>1, <2>2, <3>1, StillGoes
    <3> QED BY <2>2, <3>2, Rests
  <2>3. CASE /\ hedge.status = "open_protected"
             /\ Cancel({hedge.slOid} \ {NoOid})
             /\ hedge' = [hedge EXCEPT !.slOid = NoOid, !.status = "closing"]
             /\ Goto("worker", "exitRead")
    <3>1. orders' = {}
      <4>1. \A o \in orders : o.oid = hedge.slOid /\ o.oid # NoOid
        BY <2>1, <2>3, OpenProtected
      <4> QED BY <2>3, <4>1 DEF Cancel, NoMishap
    <3>2. hedge'.status = "closing" /\ hedge'.slOid = NoOid
      BY <1>0, <2>3 DEF Hedges
    <3>3. Work'.pc = "exitRead" /\ Work'.snap = Work.snap
      BY <2>3, WorkGoes
    <3>4. LedgerInv' /\ FilledInv' /\ StatusInv'
      <4>1. LiveSl' = NoOid  BY <3>2, <3>3 DEF LiveSl
      <4> QED BY <1>0, <2>1, <3>1, <3>2, <4>1, BareStep
    <3>5. PlaceInv'
      BY <3>2, <3>3
      DEF PlaceInv, FillPcs, RescuePcs, PlacePcs, SlPcs, ClosePcs, EndPcs,
          CancelPcs
    <3>6. KnowsInv'  BY <3>1, <3>3 DEF KnowsInv, PlacePcs
    <3>7. ListInv'  BY <3>3 DEF ListInv
    <3> QED BY <3>4, <3>5, <3>6, <3>7
  <2> QED BY <2>1, <2>2, <2>3
<1> QED BY <1>1, <1>2, <1>3, <1>4, <1>5 DEF Operation

-----------------------------------------------------------------------------
(* createHedge places the first order.                                     *)

LEMMA CreatorOrderly ==
    ASSUME OrderlyInv, NoMishap, Runs("creator")
    PROVE  OwnInv' /\ CreatorInv' /\ WaitingInv'
<1> USE DEF OrderlyInv, OwnInv
<1>0. /\ hedge \in Hedges /\ Creation \in Frames /\ pos \in Nat
      /\ Size \in Nat \ {0} /\ nextOid \in Nat \ {0}
      /\ run \in [Threads -> Frames] /\ Creation = run["creator"]
      /\ \A f \in filled : f.oid \in Nat \ {0}
      /\ orders \subseteq Orders
  BY WorkTyped DEF Creation, BaseInv, TypeInv, FramesTyped
<1>1. Placement("creator")  BY CreatorPlaces DEF BaseInv, FirstInv
<1>2. UNCHANGED <<queue, tick>>  BY RunsQueue DEF Threads
<1>3. Work' = Work
  BY <1>1, PlacementMoves DEF Moves, Work, Threads, BaseInv
<1>4. Creation.pc # "idle" /\ Work.pc \notin {"entryTick", "waitingTick"}
  BY <1>0, <1>1
  DEF Placement, PlaceSkipped, PlaceUnreadable, PlaceOversized,
      PlaceAdoptsPosition, PlaceAdoptsOrder, PlacePrepares, PlacementBegins,
      EntrySent, EntryRefused, EntryAcked, OversizeStops, At, TickBlock, Work
<1>5. /\ Creation.pc \in {"placing", "send", "sent"}
      /\ hedge.status = "entry_pending" /\ hedge.placing
      /\ hedge.entryOid = NoOid /\ hedge.slOid = NoOid
      /\ \A i \in DOMAIN queue : queue[i].kind = "tick"
      /\ Creation.snap = NoOrders
      /\ Creation.pc \in {"placing", "send"} => pos = 0 /\ orders = {}
      /\ Creation.pc = "sent" => Creation.fill.oid < nextOid
  BY <1>4 DEF CreatorInv
<1>6. Work.pc = "idle"  BY <1>4 DEF CreatorInv
<1>7. PlaceInv' /\ KnowsInv' /\ ListInv'
  BY <1>3, <1>6, Idles DEF ListInv
<1>8. WaitingInv'
  <2>1. \A i \in DOMAIN queue : queue[i].snap.ok
    BY DEF WaitingInv
  <2> QED BY <1>2, <1>5, <2>1 DEF WaitingInv, Slow, UserJobs
<1>9. LiveSl = hedge.slOid /\ LiveSl' = hedge'.slOid
  BY <1>3, <1>6 DEF LiveSl
<1>10. PlacementBegins("creator") => Creation.pc = "placing"
  BY <1>0, <1>5 DEF PlacementBegins, At
<1>11. CASE PlacePrepares("creator")
  <2>1. /\ Goto("creator", "send") /\ UNCHANGED exchange
        /\ hedge' = [hedge EXCEPT !.entryOid = NoOid, !.slOid = NoOid,
                                  !.size = 0, !.confirmed = FALSE,
                                  !.entryFill = NoOid, !.placing = TRUE]
        /\ pos = 0 /\ orders = {}
    BY <1>5, <1>10, <1>11 DEF PlacePrepares
  <2>2. /\ hedge'.status = "entry_pending" /\ hedge'.placing
        /\ hedge'.entryOid = NoOid /\ hedge'.slOid = NoOid
    BY <1>0, <1>5, <2>1 DEF Hedges
  <2>3. Creation'.pc = "send" /\ Creation'.snap = Creation.snap
    BY <1>0, <2>1 DEF Goto, Creation, Threads, Frames
  <2>4. LedgerInv' /\ FilledInv' /\ StatusInv'
    BY <1>0, <1>5, <1>9, <2>1, <2>2, BareStep DEF exchange
  <2>5. CreatorInv'
    BY <1>2, <1>3, <1>5, <1>6, <2>1, <2>2, <2>3 DEF CreatorInv, exchange
  <2> QED BY <1>7, <1>8, <2>4, <2>5
<1>12. CASE EntrySent("creator")
  <2> DEFINE o == [oid |-> nextOid, kind |-> "entry", sz |-> Size]
  <2>1. /\ Creation.pc = "send" /\ orders' = orders \cup {o}
        /\ run' = [run EXCEPT !["creator"].pc = "sent",
                              !["creator"].fill = [oid |-> nextOid, sz |-> 0]]
        /\ nextOid' = nextOid + 1
        /\ UNCHANGED <<hedge, pos, filled, inbox>>
    BY <1>0, <1>12 DEF EntrySent, Accepted, At
  <2>2. o.oid = nextOid /\ o.kind = "entry"
    OBVIOUS
  <2>3. /\ Creation'.pc = "sent" /\ Creation'.snap = Creation.snap
        /\ Creation'.fill = [oid |-> nextOid, sz |-> 0]
    BY <1>0, <2>1 DEF Frames, Creation, Threads
  <2>4. LiveEntry' = nextOid /\ LiveSl' = NoOid /\ LiveSl = NoOid
    BY <1>5, <1>9, <2>1, <2>3 DEF LiveEntry
  <2>5. orders = {} /\ pos = 0  BY <1>5, <2>1
  <2> HIDE DEF o
  <2>6. orders' = {o} /\ Entries' = {o} /\ StopLosses' = {}
    BY <2>1, <2>2, <2>5 DEF Entries, StopLosses
  <2>7. LedgerInv'
    BY <1>0, <2>1, <2>2, <2>4, <2>5, <2>6 DEF LedgerInv
  <2>8. FilledInv'
    BY <1>0, <2>1, <2>2, <2>4, <2>6 DEF FilledInv, NoOid
  <2>9. StatusInv'
    BY <1>5, <2>1, <2>6 DEF StatusInv
  <2>10. CreatorInv'
    BY <1>0, <1>2, <1>3, <1>5, <1>6, <2>1, <2>3 DEF CreatorInv
  <2> QED BY <1>7, <1>8, <2>7, <2>8, <2>9, <2>10
<1>13. CASE EntryRefused("creator")
  <2> DEFINE h == [hedge EXCEPT !.placing = FALSE]
  <2>1. Creation.pc = "send" /\ Throw("creator", h) /\ UNCHANGED exchange
    BY <1>0, <1>13 DEF EntryRefused, At, NoMishap, exchange
  <2>2. orders = {}  BY <1>5, <2>1
  <2>3. /\ h \in Hedges /\ h.entryOid = NoOid /\ h.slOid = NoOid
    BY <1>0, <1>5 DEF Hedges
  <2> HIDE DEF h
  <2>4. /\ hedge'.entryOid = NoOid /\ hedge'.slOid = NoOid
    BY <2>1, <2>3, ThrownOids DEF Threads
  <2>5. Creation'.pc = "idle"
    BY <1>0, <2>1, FrameIdle DEF Throw, Return, Creation, Threads
  <2>6. LedgerInv' /\ FilledInv' /\ StatusInv'
    BY <1>0, <1>5, <1>9, <2>1, <2>2, <2>4, BareStep DEF exchange
  <2>7. CreatorInv'  BY <2>5 DEF CreatorInv
  <2> QED BY <1>7, <1>8, <2>6, <2>7
<1>14. CASE EntryAcked("creator")
  <2> DEFINE h == [hedge EXCEPT !.entryOid = Creation.fill.oid,
                                !.slOid = NoOid, !.status = "entry_pending"]
  <2>1. /\ Creation.pc = "sent" /\ hedge' = Placed("creator", h)
        /\ Return("creator") /\ UNCHANGED exchange
    BY <1>0, <1>14, SavedHedge DEF EntryAcked, At
  <2>2. /\ Placed("creator", h).status = "entry_pending"
        /\ Placed("creator", h).entryOid = Creation.fill.oid
        /\ Placed("creator", h).slOid = NoOid
    BY <1>0 DEF Placed, Hedges
  <2> HIDE DEF h
  <2>3. /\ hedge'.status = "entry_pending" /\ hedge'.slOid = NoOid
        /\ hedge'.entryOid = Creation.fill.oid
    BY <2>1, <2>2
  <2>4. Creation'.pc = "idle"
    BY <1>0, <2>1, FrameIdle DEF Return, Creation, Threads
  <2>5. LiveEntry' = LiveEntry /\ LiveSl' = LiveSl
    BY <1>3, <1>5, <1>6, <1>9, <2>1, <2>3, <2>4 DEF LiveEntry
  <2>6. StopLosses = {}
    BY <1>5, <1>6 DEF StatusInv, Withdrawing
  <2>7. /\ UNCHANGED <<orders, pos, filled, inbox, nextOid>>
        /\ Entries' = Entries /\ StopLosses' = {}
    BY <2>1, <2>6 DEF exchange, Entries, StopLosses
  <2>8. LedgerInv'  BY <2>5, <2>7 DEF LedgerInv
  <2>9. FilledInv'  BY <2>5, <2>7 DEF FilledInv
  <2>10. StatusInv'  BY <2>3, <2>7 DEF StatusInv
  <2>11. CreatorInv'  BY <2>4 DEF CreatorInv
  <2> QED BY <1>7, <1>8, <2>8, <2>9, <2>10, <2>11
<1>15. ~PlaceSkipped("creator") /\ ~OversizeStops("creator")
  BY <1>0, <1>5 DEF PlaceSkipped, OversizeStops, At
<1>16. ~PlaceUnreadable("creator")  BY DEF PlaceUnreadable, NoMishap
<1>17. ~PlaceOversized("creator") /\ ~PlaceAdoptsPosition("creator")
  <2>1. PlacementBegins("creator") => pos = 0  BY <1>5, <1>10
  <2>2. ~PlaceOversized("creator")  BY <1>0, <2>1 DEF PlaceOversized
  <2>3. ~(pos = 0 /\ pos \in 1 .. Size)  BY <1>0
  <2> QED BY <2>1, <2>2, <2>3 DEF PlaceAdoptsPosition
<1>18. ~PlaceAdoptsOrder("creator")
  BY <1>0, <1>5, <1>10 DEF PlaceAdoptsOrder, EntriesIn, NoOrders
<1> QED BY <1>1, <1>11, <1>12, <1>13, <1>14, <1>15, <1>16, <1>17, <1>18
        DEF Placement

\* While createHedge is at it, the monitor waits.
LEMMA WorkerOnlyWaits ==
    ASSUME OrderlyInv, Runs("worker"), Creation.pc # "idle"
    PROVE  TickWaits("worker") /\ Creation' = Creation
<1>1. /\ hedge.status = "entry_pending" /\ hedge.placing
      /\ Work.pc \in {"idle", "entryTick"}
  BY DEF OrderlyInv, CreatorInv
<1>2. Creation' = Creation
  BY RunsMoves DEF Moves, Creation, Threads, OrderlyInv, BaseInv
<1>3. TickWaits("worker")
  <2>1. \/ TickWaits("worker") \/ PlaceSkipped("worker")
        \/ Retargets("worker") \/ MovesExit("worker")
        \/ RequestFails("worker") \/ Cancellation("worker")
    BY <1>1, WorkerWaits DEF FirstPcs, OpenStatuses, Work
  <2>2. ~PlaceSkipped("worker") /\ ~Retargets("worker")
        /\ ~MovesExit("worker") /\ ~RequestFails("worker")
    BY <1>1 DEF PlaceSkipped, Retargets, MovesExit, RequestFails, At, Work
  <2>3. ~Cancellation("worker")
    BY <1>1
    DEF Cancellation, CancelBegins, CancelTick, CancelTimedOut, CancelReads,
        CancelOrders, CancelCloses, CancelConfirmsOrders, CancelConfirmsPos,
        CancelDone, CancelPostponed, At, Work
  <2> QED BY <2>1, <2>2, <2>3
<1> QED BY <1>2, <1>3

LEMMA WorkerWaitsOrderly ==
    ASSUME OrderlyInv, Runs("worker"), Creation.pc # "idle"
    PROVE  OwnInv' /\ CreatorInv' /\ WaitingInv'
<1>1. /\ hedge.status = "entry_pending" /\ hedge.placing
      /\ Work.pc \in {"idle", "entryTick"}
      /\ \A i \in DOMAIN queue : queue[i].kind = "tick"
  BY DEF OrderlyInv, CreatorInv
<1>2. UNCHANGED <<queue, tick>>  BY RunsQueue DEF Threads
<1>3. Creation' = Creation  BY WorkerOnlyWaits
<1>4. TickWaits("worker")  BY WorkerOnlyWaits
<1>5. OwnInv'  BY <1>3, <1>4, TickWaitsOrderly
<1>6. hedge' = hedge /\ UNCHANGED exchange /\ Return("worker")
  BY <1>4, SavedHedge DEF TickWaits
<1>7. Work'.pc = "idle"  BY <1>6, WorkReturns DEF OrderlyInv
<1>8. CreatorInv'
  BY <1>2, <1>3, <1>6, <1>7 DEF OrderlyInv, CreatorInv, exchange
<1>9. WaitingInv'
  BY <1>1, <1>2 DEF OrderlyInv, WaitingInv, Slow, UserJobs
<1> QED BY <1>5, <1>8, <1>9

\* A worker that is idle does not move.
LEMMA WorkerBusy ==
    ASSUME Runs("worker")
    PROVE  Work.pc # "idle"
<1>1. CASE \/ Placement("worker") \/ StopLoss("worker") \/ EntryFill("worker")
           \/ CycleEnd("worker") \/ Rescue("worker") \/ Monitor("worker")
  BY <1>1, WildSteps DEF Threads, Tame, Work
<1>2. CASE Cancellation("worker") \/ Operation("worker")
  BY <1>2
  DEF Cancellation, CancelBegins, CancelTick, CancelTimedOut, CancelReads,
      CancelOrders, CancelCloses, CancelConfirmsOrders, CancelConfirmsPos,
      CancelDone, CancelPostponed, Operation, Retargets, MovesExit,
      RequestFails, EntryTriggered, ExitTriggered, At, Work
<1> QED BY <1>1, <1>2 DEF Runs

\* Every step of a thread.
LEMMA RunsOrderly ==
    ASSUME OrderlyInv, NoMishap, NEW t \in Threads, Runs(t)
    PROVE  OwnInv' /\ CreatorInv' /\ WaitingInv'
<1>1. CASE t = "creator"  BY <1>1, CreatorOrderly
<1>2. CASE t = "worker" /\ Creation.pc # "idle"  BY <1>2, WorkerWaitsOrderly
<1>3. CASE t = "worker" /\ Creation.pc = "idle"
  <2>1. Alone
    <3>1. Creation' = Creation
      BY <1>3, RunsMoves DEF Moves, Creation, Threads, OrderlyInv, BaseInv
    <3>2. UNCHANGED <<queue, tick>>  BY RunsQueue
    <3> QED BY <1>3, <3>1, <3>2, WorkerBusy DEF Alone
  <2>2. CreatorInv' /\ WaitingInv'  BY <2>1, AloneWaits DEF OrderlyInv
  <2>3. OwnInv'
    BY <1>3, <2>1, PlacementOrderly, StopLossOrderly, EntryFillOrderly,
       CycleEndOrderly, RescueOrderly, MonitorOrderly, CancellationOrderly,
       OperationOrderly
    DEF Runs
  <2> QED BY <2>2, <2>3
<1> QED BY <1>1, <1>2, <1>3 DEF Threads

-----------------------------------------------------------------------------
(* An order executes.                                                      *)

\* Whatever executes, no order is left open.
LEMMA Executed ==
    ASSUME OrderlyInv, orders # {}, orders' = {}, pos' \in 0 .. Size,
           UNCHANGED <<hedge, nextOid, queue, tick, run>>,
           filled \subseteq filled', \A f \in filled' : f.oid < nextOid,
           \A i \in DOMAIN inbox' : inbox'[i] \in filled',
           "partial" \notin Executions =>
             \A f \in filled' : f.oid = LiveSl => pos' = 0
    PROVE  OwnInv' /\ CreatorInv' /\ WaitingInv'
<1> USE DEF OrderlyInv, OwnInv
<1>1. Entries' = {} /\ StopLosses' = {}  BY DEF Entries, StopLosses
<1>2. Work' = Work /\ Creation' = Creation  BY DEF Work, Creation
<1>3. LiveSl' = LiveSl  BY <1>2 DEF LiveSl
<1>4. Work.pc \notin BarePcs  BY DEF KnowsInv
<1>5. LedgerInv'
  <2>1. pos' <= Size  BY WorkTyped
  <2> QED BY <1>1, <2>1 DEF LedgerInv
<1>6. FilledInv'  BY <1>3 DEF FilledInv
<1>7. StatusInv'  BY <1>1 DEF StatusInv
<1>8. PlaceInv'  BY <1>2 DEF PlaceInv
<1>9. KnowsInv'
  <2>1. Work.pc \notin {"send", "iocRead", "iocSend", "cancelLastOrders",
                        "partial", "topup", "slOrders", "slSend", "exitFills",
                        "slFill", "finalize"}
    BY <1>4 DEF BarePcs, FillPcs, PlacePcs, SlPcs, EndPcs, CancelPcs
  <2> QED BY <1>2, <2>1 DEF KnowsInv
<1>10. ListInv'  BY <1>2 DEF ListInv, Listed
<1>11. CreatorInv'  BY <1>2 DEF CreatorInv
<1>12. WaitingInv'  BY DEF WaitingInv, FillWaits
<1> QED BY <1>5, <1>6, <1>7, <1>8, <1>9, <1>10, <1>11, <1>12

\* Two entry orders, or two stop losses, are never open.
LEMMA OneOfAKind ==
    ASSUME OrderlyInv
    PROVE  /\ \A o, e \in Entries : o = e
           /\ \A o, e \in StopLosses : o = e
           /\ pos = 0 => StopLosses = {}
           /\ pos # 0 => Entries = {}
<1> USE DEF OrderlyInv, OwnInv
<1>0. orders \subseteq Orders /\ \A o \in orders : o.sz \in Nat \ {0}
  BY WorkTyped
<1>1. \A o \in Entries : o.sz = Size /\ o.kind = "entry" /\ o.oid = LiveEntry
  BY DEF BaseInv, TypeInv, ExchangeTyped, LedgerInv, Entries
<1>2. \A o \in StopLosses : o.sz = pos /\ o.kind = "sl" /\ o.oid = LiveSl
  BY DEF LedgerInv, StopLosses
<1>3. \A o, e \in Orders :
        o.oid = e.oid /\ o.kind = e.kind /\ o.sz = e.sz => o = e
  BY DEF Orders
<1>4. Entries \subseteq Orders /\ StopLosses \subseteq orders
  BY <1>0 DEF Entries, StopLosses
<1>5. pos = 0 => StopLosses = {}  BY <1>0, <1>2, <1>4
<1>6. pos # 0 => Entries = {}  BY DEF LedgerInv
<1> QED BY <1>0, <1>1, <1>2, <1>3, <1>4, <1>5, <1>6

LEMMA EntryFiresOrderly ==
    ASSUME OrderlyInv, EntryFires
    PROVE  OwnInv' /\ CreatorInv' /\ WaitingInv'
<1> USE DEF OrderlyInv, OwnInv
<1>0. /\ orders \subseteq Orders /\ pos \in Nat /\ Size \in Nat \ {0}
      /\ \A f \in filled : f.oid \in Nat \ {0}
      /\ \A e \in orders : e.oid \in Nat \ {0}
      /\ nextOid \in Nat \ {0} /\ ExchangeTyped
  BY WorkTyped DEF BaseInv, TypeInv
<1>1. PICK o \in orders :
        /\ o.kind = "entry" /\ orders' = orders \ {o}
        /\ \E parts \in PartsOf(o.sz) :
             pos' = pos + LotsIn(parts) /\ Reported(o.oid, parts)
  BY DEF EntryFires
<1>2. PICK parts \in PartsOf(o.sz) :
        pos' = pos + LotsIn(parts) /\ Reported(o.oid, parts)
  BY <1>1
<1>3. UNCHANGED <<hedge, nextOid, queue, tick, run>>  BY DEF EntryFires
<1>4. /\ o \in Entries /\ o.sz = Size /\ o.oid \in Oids /\ Size \in Lots
      /\ pos = 0 /\ LiveSl = NoOid /\ o.oid < nextOid
  <2>1. o \in Entries /\ o \in Orders  BY <1>0, <1>1 DEF Entries
  <2>2. o.sz = Size /\ o.oid \in Oids
    BY <1>0, <2>1 DEF ExchangeTyped, Orders
  <2>3. MaxOids > 0 /\ Size \in 0 .. Size
    BY <1>0, <2>2, LotsGrow DEF Oids
  <2>4. Size \in Lots  BY <2>3, SizeInLots
  <2>5. pos = 0 /\ LiveSl = NoOid /\ o.oid < nextOid
    BY <1>1, <2>1 DEF LedgerInv, FilledInv
  <2> QED BY <2>1, <2>2, <2>4, <2>5
<1>5. orders' = {}
  <2>1. orders = Entries \cup StopLosses  BY <1>0, TwoKinds
  <2>2. \A e \in orders : e = o  BY <1>4, <2>1, OneOfAKind
  <2> QED BY <1>1, <2>2
<1>6. /\ \A f \in filled' : f \in filled \/ f.oid = o.oid
      /\ filled \subseteq filled'
      /\ \A i \in DOMAIN inbox' :
           inbox'[i] \in filled' \/ \E j \in DOMAIN inbox : inbox'[i] = inbox[j]
      /\ LotsIn(parts) \in 1 .. Size
  BY <1>0, <1>2, <1>4, ReportsOf
<1>7. pos' \in 0 .. Size  BY <1>0, <1>2, <1>4, <1>6
<1>8. \A i \in DOMAIN inbox' : inbox'[i] \in filled'
  BY <1>6 DEF FilledInv
<1>9. \A f \in filled' : f.oid < nextOid /\ f.oid # LiveSl
  BY <1>0, <1>1, <1>4, <1>6 DEF FilledInv, NoOid
<1> QED BY <1>1, <1>3, <1>5, <1>6, <1>7, <1>8, <1>9, Executed

LEMMA StopLossFiresOrderly ==
    ASSUME OrderlyInv, StopLossFires
    PROVE  OwnInv' /\ CreatorInv' /\ WaitingInv'
<1> USE DEF OrderlyInv, OwnInv
<1>0. /\ orders \subseteq Orders /\ pos \in Nat /\ Size \in Nat \ {0}
      /\ \A f \in filled : f.oid \in Nat \ {0}
      /\ \A e \in orders : e.oid \in Nat \ {0}
      /\ nextOid \in Nat \ {0} /\ ExchangeTyped
  BY WorkTyped DEF BaseInv, TypeInv
<1>1. PICK o \in orders :
        /\ o.kind = "sl" /\ pos > 0 /\ orders' = orders \ {o}
        /\ \E parts \in PartsOf(IF o.sz < pos THEN o.sz ELSE pos) :
             pos' = pos - LotsIn(parts) /\ Reported(o.oid, parts)
  BY DEF StopLossFires
<1>2. /\ o \in StopLosses /\ o.sz = pos /\ o.oid \in Oids /\ pos \in Lots
      /\ o.oid < nextOid /\ o.oid = LiveSl /\ pos <= Size
  BY <1>0, <1>1, PosInLots DEF StopLosses, LedgerInv, FilledInv, Orders
<1>3. PICK parts \in PartsOf(pos) :
        pos' = pos - LotsIn(parts) /\ Reported(o.oid, parts)
  <2>1. (IF o.sz < pos THEN o.sz ELSE pos) = pos  BY <1>2
  <2> QED BY <1>1, <2>1
<1>4. UNCHANGED <<hedge, nextOid, queue, tick, run>>  BY DEF StopLossFires
<1>5. orders' = {}
  <2>1. orders = Entries \cup StopLosses  BY <1>0, TwoKinds
  <2>2. pos # 0  BY <1>0, <1>1
  <2>3. \A e \in orders : e = o  BY <1>2, <2>1, <2>2, OneOfAKind
  <2> QED BY <1>1, <2>3
<1>6. /\ \A f \in filled' : f \in filled \/ f.oid = o.oid
      /\ filled \subseteq filled'
      /\ \A i \in DOMAIN inbox' :
           inbox'[i] \in filled' \/ \E j \in DOMAIN inbox : inbox'[i] = inbox[j]
      /\ LotsIn(parts) \in 1 .. pos
      /\ "partial" \notin Executions => LotsIn(parts) = pos
  BY <1>0, <1>1, <1>2, <1>3, ReportsOf
<1>7. pos' \in 0 .. Size /\ ("partial" \notin Executions => pos' = 0)
  BY <1>0, <1>2, <1>3, <1>6
<1>8. \A i \in DOMAIN inbox' : inbox'[i] \in filled'
  BY <1>6 DEF FilledInv
<1>9. \A f \in filled' : f.oid < nextOid
  BY <1>2, <1>6 DEF FilledInv
<1> QED BY <1>1, <1>4, <1>5, <1>6, <1>7, <1>8, <1>9, Executed

\* A stop loss that has something to reduce is not withdrawn.
LEMMA StopLossStays ==
    ASSUME OrderlyInv
    PROVE  ~StopLossLapses
BY OneOfAKind DEF StopLossLapses, StopLosses

-----------------------------------------------------------------------------
(* What is queued for the lock, and who gets it.                           *)

\* A step that only the queue, the monitor or the websocket sees.
LEMMA OwnCalm ==
    ASSUME OwnInv, UNCHANGED <<hedge, orders, pos, filled, nextOid, run>>,
           \A i \in DOMAIN inbox' : inbox'[i] \in filled
    PROVE  OwnInv'
<1>1. /\ Work' = Work /\ Creation' = Creation
      /\ Entries' = Entries /\ StopLosses' = StopLosses
  BY DEF Work, Creation, Entries, StopLosses
<1>2. LiveEntry' = LiveEntry /\ LiveSl' = LiveSl
  BY <1>1 DEF LiveEntry, LiveSl
<1>3. LedgerInv' /\ FilledInv'
  BY <1>1, <1>2 DEF OwnInv, LedgerInv, FilledInv
<1>4. StatusInv' /\ PlaceInv'
  BY <1>1 DEF OwnInv, StatusInv, Withdrawing, PlaceInv
<1>5. KnowsInv' /\ ListInv'
  BY <1>1 DEF OwnInv, KnowsInv, ListInv, Listed
<1> QED BY <1>3, <1>4, <1>5 DEF OwnInv

\* What a new job has to bring.
Welcome(job) ==
    /\ job.snap.ok
    /\ job.kind # "tick" => job.snap = NoOrders /\ Creation.pc = "idle"
    /\ job.kind \in Slow =>
         queue = <<>> /\ \A t \in Threads : run[t].pc = "idle"
    /\ job.kind = "retarget" => hedge.status \in Retargetable
    /\ job.kind = "entryFill" =>
         FillWaits(job, {"entry_pending"}, hedge.entryOid)
    /\ job.kind = "slFill" => FillWaits(job, Inside, hedge.slOid)

LEMMA EnqueuedOrderly ==
    ASSUME OrderlyInv, NEW job, Enqueue(job), Welcome(job),
           UNCHANGED <<hedge, orders, pos, filled, nextOid, run>>,
           tick'.on => tick'.ok
    PROVE  CreatorInv' /\ WaitingInv'
<1> USE DEF OrderlyInv
<1>1. QueueTyped  BY DEF BaseInv, TypeInv
<1>2. Work' = Work /\ Creation' = Creation  BY DEF Work, Creation
<1>3. \A i \in DOMAIN queue' :
        \/ i \in DOMAIN queue /\ queue'[i] = queue[i]
        \/ i = Len(queue) + 1 /\ queue'[i] = job
  BY <1>1, EnqueuedLast
<1>4. CreatorInv'
  BY <1>2, <1>3 DEF CreatorInv, Welcome
<1>5. WaitingInv'
  <2>1. SUFFICES ASSUME NEW i \in DOMAIN queue'
        PROVE  /\ queue'[i].snap.ok
               /\ queue'[i].kind # "tick" => queue'[i].snap = NoOrders
               /\ queue'[i].kind \in Slow =>
                    i = 1 /\ \A t \in Threads : run[t].pc = "idle"
               /\ queue'[i].kind = "retarget" => hedge.status \in Retargetable
               /\ queue'[i].kind = "entryFill" =>
                    FillWaits(queue'[i], {"entry_pending"}, hedge.entryOid)
               /\ queue'[i].kind = "slFill" =>
                    FillWaits(queue'[i], Inside, hedge.slOid)
    BY DEF WaitingInv, FillWaits
  <2>2. CASE i \in DOMAIN queue /\ queue'[i] = queue[i]
    BY <2>2 DEF WaitingInv
  <2>3. CASE i = Len(queue) + 1 /\ queue'[i] = job
    <3>1. job.kind \in Slow => i = 1
      BY <2>3 DEF Welcome
    <3> QED BY <2>3, <3>1 DEF Welcome
  <2> QED BY <1>3, <2>2, <2>3
<1> QED BY <1>4, <1>5

LEMMA JobBrings ==
    \A kind : /\ Job(kind).snap = NoOrders /\ Job(kind).snap.ok
              /\ \A f : /\ [Job(kind) EXCEPT !.fill = f].snap = NoOrders
                        /\ [Job(kind) EXCEPT !.fill = f].fill = f
              /\ \A s : [Job(kind) EXCEPT !.snap = s].snap = s
BY DEF Job, NoOrders

LEMMA FillArrivesOrderly ==
    ASSUME OrderlyInv, Overlaps = {}, FillArrives
    PROVE  OwnInv' /\ CreatorInv' /\ WaitingInv'
<1> USE DEF OrderlyInv
<1> DEFINE fill == Head(inbox)
<1>0. inbox \in Seq(Fills) /\ inbox # <<>>
  BY DEF BaseInv, TypeInv, ExchangeTyped, FillArrives
<1>1. /\ UNCHANGED <<hedge, orders, pos, filled, nextOid, tick, run>>
      /\ inbox' = Tail(inbox)
  BY DEF FillArrives
<1>2. queue = <<>> /\ \A t \in Threads : run[t].pc = "idle"
  BY DEF FillArrives, Unhurried, At
<1>3. \/ queue' = queue
      \/ \E kind \in FillMatches(fill) :
           Enqueue([Job(kind) EXCEPT !.fill = fill])
  BY Zenon DEF FillArrives
<1>4. fill \in filled /\ \A i \in DOMAIN inbox' : inbox'[i] \in filled
  <2>1. 1 \in DOMAIN inbox /\ fill = inbox[1]  BY <1>0
  <2>2. \A i \in DOMAIN inbox' : i + 1 \in DOMAIN inbox
                                 /\ inbox'[i] = inbox[i + 1]
    BY <1>0, <1>1
  <2> QED BY <2>1, <2>2 DEF OwnInv, FilledInv
<1>5. OwnInv'  BY <1>1, <1>4, OwnCalm
<1> HIDE DEF fill
<1>6. CASE queue' = queue
  BY <1>1, <1>5, <1>6
  DEF CreatorInv, WaitingInv, FillWaits, Work, Creation
<1>7. ASSUME NEW kind \in FillMatches(fill),
             Enqueue([Job(kind) EXCEPT !.fill = fill])
      PROVE  CreatorInv' /\ WaitingInv'
  <2> DEFINE new == [Job(kind) EXCEPT !.fill = fill]
  <2>1. new.kind = kind /\ new.snap = NoOrders /\ new.fill = fill
        /\ NoOrders.ok
    BY KindOfJob, JobBrings DEF NoOrders
  <2>2. \/ /\ kind = "entryFill" /\ hedge.status = "entry_pending"
           /\ fill.oid = hedge.entryOid
        \/ /\ kind = "slFill" /\ hedge.status \in Inside
           /\ fill.oid = hedge.slOid
    BY <1>7 DEF FillMatches, Inside
  <2>3. Enqueue(new)  BY <1>7
  <2> HIDE DEF new
  <2>4. Welcome(new)
    BY <1>2, <1>4, <2>1, <2>2 DEF Welcome, FillWaits, Creation, Threads
  <2>5. tick'.on => tick'.ok  BY <1>1 DEF WaitingInv
  <2> QED BY <1>1, <2>3, <2>4, <2>5, EnqueuedOrderly
<1> QED BY <1>3, <1>5, <1>6, <1>7

LEMMA PriceArrivesOrderly ==
    ASSUME OrderlyInv, PriceArrives
    PROVE  OwnInv' /\ CreatorInv' /\ WaitingInv'
<1> USE DEF OrderlyInv
<1>1. /\ UNCHANGED <<hedge, orders, pos, filled, inbox, nextOid, tick, run>>
      /\ \E kind \in {"entryTrigger", "exitTrigger"} : Enqueue(Job(kind))
      /\ Rescuable \/ hedge.status = "open_protected"
  BY DEF PriceArrives, exchange
<1>2. PICK kind \in {"entryTrigger", "exitTrigger"} : Enqueue(Job(kind))
  BY <1>1
<1>3. OwnInv'  BY <1>1, OwnCalm DEF OwnInv, FilledInv
<1>4. Job(kind).kind = kind /\ Job(kind).snap = NoOrders /\ Job(kind).snap.ok
  BY KindOfJob, JobBrings
<1>5. Creation.pc = "idle"  BY <1>1 DEF CreatorInv, Rescuable
<1>6. Welcome(Job(kind))
  BY <1>2, <1>4, <1>5 DEF Welcome, Slow, UserJobs
<1>7. tick'.on => tick'.ok  BY <1>1 DEF WaitingInv
<1>8. CreatorInv' /\ WaitingInv'
  BY <1>1, <1>2, <1>6, <1>7, EnqueuedOrderly
<1> QED BY <1>3, <1>8

LEMMA TicksOrderly ==
    ASSUME OrderlyInv, NoMishap, TickReads \/ TickQueued
    PROVE  OwnInv' /\ CreatorInv' /\ WaitingInv'
<1> USE DEF OrderlyInv
<1>1. UNCHANGED <<hedge, orders, pos, filled, inbox, nextOid, run>>
  BY DEF TickReads, TickQueued, exchange
<1>2. OwnInv'  BY <1>1, OwnCalm DEF OwnInv, FilledInv
<1>3. CASE TickReads
  <2>1. tick' = [ok |-> TRUE, seen |-> orders, on |-> TRUE]
        /\ queue' = queue
    BY <1>3 DEF TickReads, NoMishap
  <2>2. CreatorInv'
    BY <1>1, <2>1 DEF CreatorInv, Work, Creation
  <2>3. WaitingInv'
    BY <1>1, <2>1 DEF WaitingInv, FillWaits
  <2> QED BY <1>2, <2>2, <2>3
<1>4. CASE TickQueued
  <2> DEFINE snap == [ok |-> tick.ok, seen |-> tick.seen]
             new == [Job("tick") EXCEPT !.snap = snap]
  <2>1. tick.ok  BY <1>4 DEF TickQueued, WaitingInv
  <2>2. new.kind = "tick" /\ new.snap = snap /\ snap.ok
    BY <2>1, KindOfJob, JobBrings
  <2>3. Enqueue(new) /\ ~tick'.on  BY <1>4 DEF TickQueued, NoTick
  <2> HIDE DEF new, snap
  <2>4. Welcome(new)  BY <2>2 DEF Welcome, Slow, UserJobs
  <2> QED BY <1>1, <1>2, <2>3, <2>4, EnqueuedOrderly
<1> QED BY <1>3, <1>4

LEMMA RequestedOrderly ==
    ASSUME OrderlyInv, Overlaps = {}, NEW kind \in Requests, Requested(kind)
    PROVE  OwnInv' /\ CreatorInv' /\ WaitingInv'
<1> USE DEF OrderlyInv
<1>1. /\ UNCHANGED <<hedge, orders, pos, filled, inbox, nextOid, tick, run>>
      /\ Enqueue(Job(kind))
      /\ queue = <<>> /\ \A t \in Threads : run[t].pc = "idle"
      /\ kind = "retarget" => hedge.status \in Retargetable
  BY DEF Requested, exchange, Unhurried, At, Retargetable
<1>2. kind \in UserJobs  BY HedgeAssumption DEF HedgeAssumption
<1>3. OwnInv'  BY <1>1, OwnCalm DEF OwnInv, FilledInv
<1>4. Job(kind).kind = kind /\ Job(kind).snap = NoOrders /\ Job(kind).snap.ok
  BY KindOfJob, JobBrings
<1>5. Welcome(Job(kind))
  BY <1>1, <1>2, <1>4 DEF Welcome, UserJobs, Creation, Threads
<1>6. tick'.on => tick'.ok  BY <1>1 DEF WaitingInv
<1>7. CreatorInv' /\ WaitingInv'
  BY <1>1, <1>5, <1>6, EnqueuedOrderly
<1> QED BY <1>3, <1>7

\* What the worker begins with.
LEMMA JobFrame ==
    ASSUME BaseInv, JobStarts, Overlaps = {}
    PROVE  /\ Work.pc = "idle" /\ Creation' = Creation
           /\ Work'.pc = IF Head(queue).kind = "tick"
                         THEN TickPc[hedge.status] ELSE Head(queue).kind
           /\ Work'.pc = "idle" => Work'.snap = NoOrders
           /\ Work'.pc # "idle" => Work'.fill = Head(queue).fill
           /\ Work'.pc # "idle" /\ Head(queue).kind # "tick" =>
                Work'.snap = Head(queue).snap
           /\ Work'.pc # "idle" /\ Head(queue).kind = "tick"
              /\ Head(queue).snap.ok =>
                Work'.snap = [ok |-> TRUE, seen |-> orders]
<1> DEFINE job == Head(queue)
           pc == IF job.kind = "tick" THEN TickPc[hedge.status] ELSE job.kind
           catch == IF job.kind \in CaughtAsError THEN "error" ELSE "log"
           snap == ListAtHand(job)
           f == [Frame(pc) EXCEPT !.fill = job.fill, !.snap = snap,
                                  !.onThrow = catch]
           g == IF pc = "idle" THEN Frame("idle") ELSE f
<1>0. queue \in Seq(Jobs) /\ run \in [Threads -> Frames] /\ queue # <<>>
  BY DEF BaseInv, TypeInv, QueueTyped, FramesTyped, JobStarts
<1>1. job.snap \in Snapshots
  <2>1. job \in Jobs  BY <1>0
  <2> QED BY <2>1 DEF Jobs
<1>2. run' = [run EXCEPT !["worker"] = g] /\ Work.pc = "idle"
  BY DEF JobStarts, At, Work
<1>3. /\ job.kind # "tick" => snap = job.snap
      /\ job.kind = "tick" /\ job.snap.ok => snap = [ok |-> TRUE, seen |-> orders]
  BY <1>1 DEF ListAtHand, Snapshots
<1> HIDE DEF pc, snap, catch
<1>4. f.pc = pc /\ f.fill = job.fill /\ f.snap = snap  BY DEF Frame
<1> HIDE DEF f
<1>5. Frame("idle").pc = "idle" /\ Frame("idle").snap = NoOrders  BY DEF Frame
<1>6. /\ g.pc = pc /\ (g.pc = "idle" => g.snap = NoOrders)
      /\ g.pc # "idle" => g.fill = job.fill /\ g.snap = snap
  BY <1>4, <1>5
<1> HIDE DEF g
<1>7. Work' = g /\ Creation' = Creation
  BY <1>0, <1>2 DEF Work, Creation, Threads
<1> QED BY <1>2, <1>3, <1>6, <1>7 DEF pc

\* The handler of the monitor for the status.
TickAt(p) ==
    \/ p = "cancelTick" /\ hedge.status = "cancel_pending"
    \/ p = "waitingTick" /\ hedge.status = "waiting"
    \/ p = "entryTick" /\ hedge.status = "entry_pending"
    \/ p = "pendingSlTick" /\ hedge.status = "entry_filled_pending_sl"
    \/ p = "closingTick" /\ hedge.status = "closing"
    \/ p = "protectedTick" /\ hedge.status = "open_protected"

\* The status tells whether an order is open when the worker is idle.
LEMMA IdleOrders ==
    ASSUME OrderlyInv, Work.pc = "idle", Creation.pc = "idle"
    PROVE  /\ hedge.status \notin {"entry_pending", "error"} => Entries = {}
           /\ hedge.status # "open_protected" => StopLosses = {}
           /\ hedge.status \notin {"entry_pending", "error", "open_protected"}
                => orders = {}
           /\ \A f \in filled : f.oid = hedge.entryOid => Entries = {}
           /\ \A f \in filled : f.oid = hedge.slOid => StopLosses = {}
           /\ LiveEntry = hedge.entryOid /\ LiveSl = hedge.slOid
<1> USE DEF OrderlyInv, OwnInv
<1>1. orders = Entries \cup StopLosses  BY TwoKinds, WorkTyped
<1>2. LiveEntry = hedge.entryOid /\ LiveSl = hedge.slOid
  BY DEF LiveEntry, LiveSl
<1>3. /\ Entries # {} => hedge.status \in {"entry_pending", "error"}
      /\ StopLosses # {} => hedge.status = "open_protected"
  BY DEF StatusInv, Withdrawing
<1>4. ASSUME NEW f \in filled
      PROVE  /\ f.oid = hedge.entryOid => Entries = {}
             /\ f.oid = hedge.slOid => StopLosses = {}
  <2>1. \A o \in orders : o.oid # f.oid  BY DEF FilledInv
  <2>2. \A o \in Entries : o.oid = hedge.entryOid
    BY <1>2 DEF LedgerInv
  <2>3. \A o \in StopLosses : o.oid = hedge.slOid
    BY <1>2 DEF LedgerInv
  <2> QED BY <1>1, <2>1, <2>2, <2>3
<1> QED BY <1>1, <1>2, <1>3, <1>4

LEMMA JobStartsOrderly ==
    ASSUME OrderlyInv, Overlaps = {}, JobStarts
    PROVE  OwnInv' /\ CreatorInv' /\ WaitingInv'
<1> USE DEF OrderlyInv, OwnInv
<1> DEFINE job == Head(queue)
<1>0. /\ hedge.status \in Statuses /\ queue \in Seq(Jobs) /\ queue # <<>>
      /\ queue' = Tail(queue) /\ job \in Jobs
      /\ UNCHANGED <<hedge, orders, pos, filled, inbox, nextOid, tick>>
  BY DEF BaseInv, TypeInv, HedgeTyped, Hedges, QueueTyped, JobStarts, exchange
<1>1. /\ Work.pc = "idle" /\ Creation' = Creation
      /\ Work'.pc = IF job.kind = "tick" THEN TickPc[hedge.status] ELSE job.kind
      /\ Work'.pc = "idle" => Work'.snap = NoOrders
      /\ Work'.pc # "idle" => Work'.fill = job.fill
      /\ Work'.pc # "idle" /\ job.kind # "tick" => Work'.snap = job.snap
      /\ Work'.pc # "idle" /\ job.kind = "tick" /\ job.snap.ok =>
           Work'.snap = [ok |-> TRUE, seen |-> orders]
  BY JobFrame
<1>2. job = queue[1] /\ 1 \in DOMAIN queue  BY <1>0
<1>3. \A i \in DOMAIN queue' :
        i \in Nat \ {0} /\ i + 1 \in DOMAIN queue /\ queue'[i] = queue[i + 1]
  BY <1>0
<1> HIDE DEF job
<1>4. /\ job.snap.ok
      /\ job.kind # "tick" => job.snap = NoOrders
      /\ job.kind \in Slow => Creation.pc = "idle"
      /\ job.kind = "retarget" => hedge.status \in Retargetable
      /\ job.kind = "entryFill" =>
           FillWaits(job, {"entry_pending"}, hedge.entryOid)
      /\ job.kind = "slFill" => FillWaits(job, Inside, hedge.slOid)
      /\ Creation.pc # "idle" => job.kind = "tick"
  BY <1>2 DEF WaitingInv, CreatorInv, Creation, Threads
<1>5. \A i \in DOMAIN queue' : queue'[i].kind \notin Slow
  <2> SUFFICES ASSUME NEW i \in DOMAIN queue' PROVE queue'[i].kind \notin Slow
    OBVIOUS
  <2>1. i + 1 # 1  BY <1>3
  <2> QED BY <1>3, <2>1 DEF WaitingInv
<1>6. WaitingInv'
  <2>1. \A i \in DOMAIN queue' :
          /\ queue'[i].snap.ok
          /\ queue'[i].kind # "tick" => queue'[i].snap = NoOrders
    BY <1>3 DEF WaitingInv
  <2>2. tick'.on => tick'.ok  BY <1>0 DEF WaitingInv
  <2> QED BY <1>5, <2>1, <2>2 DEF WaitingInv, Slow, UserJobs
<1>7. CreatorInv'
  <2> SUFFICES ASSUME Creation.pc # "idle" PROVE CreatorInv'
    BY <1>1 DEF CreatorInv
  <2>1. job.kind = "tick" /\ hedge.status = "entry_pending"
    BY <1>4 DEF CreatorInv
  <2>2. Work'.pc = "entryTick"  BY <1>0, <1>1, <2>1, TickHandlers
  <2> QED BY <1>0, <1>1, <1>3, <2>2 DEF CreatorInv
<1>8. CASE Work'.pc = "idle" \/ job.kind = "tick"
  <2>1. \/ Work'.pc = "idle" /\ Work'.snap = NoOrders
        \/ Work'.snap = [ok |-> TRUE, seen |-> orders] /\ TickAt(Work'.pc)
    <3>1. ASSUME job.kind = "tick", Work'.pc # "idle"
          PROVE  Work'.snap = [ok |-> TRUE, seen |-> orders] /\ TickAt(Work'.pc)
      BY <1>0, <1>1, <1>4, <3>1, TickHandlers DEF TickAt, Statuses
    <3> QED BY <1>1, <1>8, <3>1
  <2>2. CASE Work'.pc = "idle" /\ Work'.snap = NoOrders
    <3>1. PlaceInv' /\ KnowsInv' /\ ListInv'  BY <2>2, Idles DEF NoOrders
    <3>2. Work'.pc \notin {"sent", "slSent", "iocSent"}  BY <2>2
    <3>3. LedgerInv' /\ FilledInv' /\ StatusInv'
      BY <1>0, <1>1, <3>2, StillGoes
    <3> QED BY <1>6, <1>7, <3>1, <3>3
  <2>3. CASE Work'.snap = [ok |-> TRUE, seen |-> orders] /\ TickAt(Work'.pc)
    <3>1. LedgerInv' /\ FilledInv' /\ StatusInv'
      <4>1. Work'.pc \notin {"sent", "slSent", "iocSent"}
        BY <2>3 DEF TickAt
      <4> QED BY <1>0, <1>1, <4>1, StillGoes
    <3>2. PlaceInv'
      BY <1>0, <2>3
      DEF PlaceInv, TickAt, FillPcs, RescuePcs, PlacePcs, SlPcs, ClosePcs,
          EndPcs, CancelPcs
    <3>3. Work'.pc \in BarePcs => orders = {}
      <4> SUFFICES ASSUME Work'.pc \in BarePcs PROVE orders = {}
        OBVIOUS
      <4>1. hedge.status \notin {"entry_pending", "error", "open_protected"}
        BY <2>3
        DEF TickAt, BarePcs, FillPcs, PlacePcs, SlPcs, ClosePcs, EndPcs,
            CancelPcs
      <4>2. Creation.pc = "idle"  BY <4>1 DEF CreatorInv
      <4> QED BY <1>1, <4>1, <4>2, IdleOrders
    <3>4. KnowsInv'
      BY <1>0, <2>3, <3>3 DEF KnowsInv, TickAt, PlacePcs
    <3>5. ListInv'
      <4>1. Work'.pc \in {"waitingTick", "pendingSlTick"} => orders = {}
        BY <3>3 DEF BarePcs
      <4>2. Work'.pc = "entryTick" => hedge.placing \/ Listed'
        <5> SUFFICES ASSUME Work'.pc = "entryTick", ~hedge.placing PROVE Listed'
          OBVIOUS
        <5>1. hedge.status = "entry_pending" /\ Creation.pc = "idle"
          BY <2>3 DEF TickAt, CreatorInv
        <5>2. \A o \in orders : o.oid = hedge.entryOid
          BY <1>1, <5>1, EntryPending
        <5> QED BY <1>0, <2>3, <5>2 DEF Listed
      <4> QED BY <1>0, <2>3, <4>1, <4>2 DEF ListInv, TickAt
    <3> QED BY <1>6, <1>7, <3>1, <3>2, <3>4, <3>5
  <2> QED BY <2>1, <2>2, <2>3
<1>9. CASE Work'.pc # "idle" /\ job.kind # "tick"
  <2>1. /\ Work'.pc = job.kind /\ Work'.snap = NoOrders
        /\ Work'.fill = job.fill /\ Creation.pc = "idle"
        /\ job.kind \in UserJobs \cup {"entryFill", "slFill", "entryTrigger",
                                       "exitTrigger"}
    BY <1>0, <1>1, <1>4, <1>9 DEF Jobs
  <2>2. LedgerInv' /\ FilledInv' /\ StatusInv'
    <3>1. Work'.pc \notin {"sent", "slSent", "iocSent"}
      BY <2>1 DEF UserJobs
    <3> QED BY <1>0, <1>1, <3>1, StillGoes
  <2>3. PlaceInv'
    BY <1>0, <1>4, <2>1
    DEF PlaceInv, FillWaits, UserJobs, FillPcs, RescuePcs, PlacePcs, SlPcs,
        ClosePcs, EndPcs, CancelPcs
  <2>4. Work'.pc = "entryFill" => orders = {}
    <3> SUFFICES ASSUME Work'.pc = "entryFill" PROVE orders = {}
      OBVIOUS
    <3>1. /\ hedge.status = "entry_pending" /\ job.fill \in filled
          /\ job.fill.oid = hedge.entryOid
      BY <1>4, <2>1 DEF FillWaits
    <3>2. Entries = {} /\ StopLosses = {}
      BY <1>1, <2>1, <3>1, IdleOrders
    <3> QED BY <3>2, TwoKinds, WorkTyped
  <2>5. Work'.pc = "slFill" =>
          orders = {} /\ ("partial" \notin Executions => pos = 0)
    <3> SUFFICES ASSUME Work'.pc = "slFill"
                 PROVE  orders = {} /\ ("partial" \notin Executions => pos = 0)
      OBVIOUS
    <3>1. /\ hedge.status \in Inside /\ job.fill \in filled
          /\ job.fill.oid = hedge.slOid
      BY <1>4, <2>1 DEF FillWaits
    <3>2. Entries = {} /\ StopLosses = {} /\ LiveSl = hedge.slOid
      BY <1>1, <2>1, <3>1, IdleOrders DEF Inside, OpenStatuses
    <3>3. orders = {}  BY <3>2, TwoKinds, WorkTyped
    <3> QED BY <3>1, <3>2, <3>3 DEF FilledInv
  <2>6. KnowsInv'
    BY <1>0, <2>1, <2>4, <2>5
    DEF KnowsInv, UserJobs, BarePcs, FillPcs, PlacePcs, SlPcs, ClosePcs,
        EndPcs, CancelPcs
  <2>7. ListInv'
    BY <2>1 DEF ListInv, UserJobs, NoOrders
  <2> QED BY <1>6, <1>7, <2>2, <2>3, <2>6, <2>7
<1> QED BY <1>8, <1>9

-----------------------------------------------------------------------------
(* What holds of the orders as long as nothing has gone wrong.             *)

LEMMA OrderlyInit == Init => OrderlyInv
<1> SUFFICES ASSUME Init PROVE OrderlyInv
  OBVIOUS
<1>1. BaseInv  BY BaseInit
<1>2. /\ Work = Frame("idle") /\ Work.pc = "idle" /\ Work.snap.ok
      /\ Creation.pc = "placing" /\ Creation.snap = NoOrders
  BY DEF Init, Work, Creation, Frame, Threads, NoOrders
<1>3. /\ hedge.status = "entry_pending" /\ hedge.placing
      /\ hedge.entryOid = NoOid /\ hedge.slOid = NoOid
      /\ orders = {} /\ pos = 0 /\ filled = {} /\ ~tick.on
      /\ DOMAIN inbox = {} /\ DOMAIN queue = {}
  BY DEF Init, NewHedge, NoTick
<1>4. Entries = {} /\ StopLosses = {} /\ pos <= Size
  BY <1>3, LotsGrow DEF Entries, StopLosses
<1>5. LedgerInv /\ FilledInv /\ StatusInv
  BY <1>3, <1>4 DEF LedgerInv, FilledInv, StatusInv
<1>6. PlaceInv /\ KnowsInv /\ ListInv
  BY <1>2
  DEF PlaceInv, KnowsInv, ListInv, BarePcs, FillPcs, RescuePcs, PlacePcs,
      SlPcs, ClosePcs, EndPcs, CancelPcs
<1>7. CreatorInv  BY <1>2, <1>3 DEF CreatorInv
<1>8. WaitingInv  BY <1>3 DEF WaitingInv
<1> QED BY <1>1, <1>5, <1>6, <1>7, <1>8 DEF OrderlyInv, OwnInv

LEMMA OrderlyStep ==
    ASSUME Overlaps = {}, OrderlyInv, NoMishap, [Next]_vars
    PROVE  OrderlyInv'
<1>1. BaseInv'  BY BaseStep DEF OrderlyInv
<1>2. SUFFICES OwnInv' /\ CreatorInv' /\ WaitingInv'
  BY <1>1 DEF OrderlyInv
<1>3. CASE \E t \in Threads : Runs(t)  BY <1>3, RunsOrderly
<1>4. CASE Exchange
  BY <1>4, EntryFiresOrderly, StopLossFiresOrderly, StopLossStays
  DEF Exchange, ClosedOutside, NoMishap
<1>5. ~FillLost /\ ~Crash  BY DEF FillLost, Crash, NoMishap
<1>6. CASE FillArrives \/ PriceArrives \/ TickReads \/ TickQueued
  BY <1>6, FillArrivesOrderly, PriceArrivesOrderly, TicksOrderly
<1>7. CASE JobStarts  BY <1>7, JobStartsOrderly
<1>8. CASE \E kind \in Requests : Requested(kind)
  BY <1>8, RequestedOrderly
<1>9. CASE UNCHANGED vars
  <2>1. /\ UNCHANGED <<hedge, orders, pos, filled, inbox, nextOid, run>>
        /\ UNCHANGED <<queue, tick>>
    BY <1>9 DEF vars
  <2>2. OwnInv'
    BY <2>1, OwnCalm DEF OrderlyInv, OwnInv, FilledInv
  <2>3. CreatorInv' /\ WaitingInv'
    BY <2>1
    DEF OrderlyInv, CreatorInv, WaitingInv, FillWaits, Work, Creation
  <2> QED BY <2>2, <2>3
<1> QED BY <1>3, <1>4, <1>5, <1>6, <1>7, <1>8, <1>9 DEF Next

\* The budget of mishaps tells whether one has happened.
Untroubled == budget.mishaps = MaxMishaps
BudgetInv == budget \in [mishaps : 0 .. MaxMishaps, requests : 0 .. MaxRequests]

\* A set whose members are all the same has at most one.
LEMMA AtMostOne ==
    ASSUME NEW S, \A x, y \in S : x = y
    PROVE  Cardinality(S) <= 1
<1>1. CASE S = {}  BY <1>1, FS_EmptySet
<1>2. CASE S # {}
  <2>1. PICK x : x \in S  BY <1>2
  <2>2. S = {x}  BY <2>1
  <2> QED BY <2>2, FS_Singleton
<1> QED BY <1>1, <1>2

\* What a thread spends of the budget.
LEMMA RunsBudget ==
    ASSUME NEW t \in Threads, Runs(t)
    PROVE  budget' = budget \/ Mishap("fault")
<1>1. CASE Placement(t) \/ StopLoss(t)
  BY <1>1
  DEF Placement, PlaceSkipped, PlaceUnreadable, PlaceOversized,
      PlaceAdoptsPosition, PlaceAdoptsOrder, PlacePrepares, EntrySent,
      EntryRefused, EntryAcked, OversizeStops, Cancel, StopLoss,
      SlWithoutPosition, SlSizes, SlReused, SlMissing, SlSent, SlRefused,
      SlAcked
<1>2. CASE EntryFill(t) \/ CycleEnd(t)
  BY <1>2
  DEF EntryFill, EntryFillNoted, EntryFillRead, PartialCancels,
      PartialToppedUp, EntryFillBreached, EntryFillCovered, ExitRead, Closed,
      CycleEnd, SlFillNoted, CycleSaved, CycleNotSaved, ExitRecovered,
      CycleGuessed, SlVanished, ExitUnknown, ReducedBy, Cancel
<1>3. CASE Rescue(t)
  BY <1>3
  DEF Rescue, EntryRecovered, EntryUnfilled, RescueDeclined, RescueLists,
      RescueReads, RescueCancels, RescueConfirms, RescueClears, IocSent,
      IocRefused, IocAcked, FoundOpen, Cancel
<1>4. CASE Monitor(t)
  <2>1. CASE TickWaits(t) \/ WaitingRetried(t) \/ EntryChecked(t)
             \/ PositionUnreadable(t) \/ PositionGone(t)
             \/ PositionOversized(t) \/ PositionSeen(t)
    BY <2>1
    DEF TickWaits, WaitingRetried, EntryChecked, PositionUnreadable,
        PositionGone, PositionOversized, PositionSeen, Cancel
  <2>2. CASE PendingSlFound(t) \/ PendingSlBreached(t) \/ PendingSlGrace(t)
             \/ PendingSlRetried(t) \/ ClosingRetried(t)
             \/ ClosingAwaited(t) \/ ProtectedBreached(t)
             \/ ProtectedHolds(t) \/ ProtectedLost(t)
    BY <2>2
    DEF PendingSlFound, PendingSlBreached, PendingSlGrace, PendingSlRetried,
        ClosingRetried, ClosingAwaited, ProtectedBreached, ProtectedHolds,
        ProtectedLost, Cancel
  <2> QED BY <1>4, <2>1, <2>2 DEF Monitor
<1>5. CASE Cancellation(t) \/ Operation(t)
  BY <1>5
  DEF Cancellation, CancelBegins, CancelTick, CancelTimedOut, CancelReads,
      CancelOrders, CancelCloses, CancelConfirmsOrders, CancelConfirmsPos,
      CancelDone, CancelPostponed, Operation, Retargets, MovesExit,
      RequestFails, EntryTriggered, ExitTriggered, ReducedBy, Cancel
<1> QED BY <1>1, <1>2, <1>3, <1>4, <1>5 DEF Runs

LEMMA BudgetStep ==
    ASSUME BudgetInv, [Next]_vars
    PROVE  BudgetInv' /\ (Untroubled' => Untroubled /\ NoMishap)
<1>0. MaxMishaps \in Nat /\ MaxRequests \in Nat
  BY HedgeAssumption DEF HedgeAssumption
<1>1. CASE budget' = budget
  <2>1. ~Mishap("fault") /\ ~Mishap("crash")
    BY <1>0, <1>1 DEF BudgetInv, Mishap, Spend
  <2> QED BY <1>1, <2>1 DEF BudgetInv, Untroubled, NoMishap
<1>2. CASE Spend("mishaps")
  BY <1>0, <1>2 DEF Spend, BudgetInv, Untroubled
<1>3. CASE Spend("requests")
  <2>1. BudgetInv' /\ budget'.mishaps = budget.mishaps
    BY <1>0, <1>3 DEF Spend, BudgetInv
  <2>2. ~Mishap("fault") /\ ~Mishap("crash")
    BY <1>0, <2>1 DEF BudgetInv, Mishap, Spend
  <2> QED BY <2>1, <2>2 DEF Untroubled, NoMishap
<1>4. \/ budget' = budget \/ Spend("mishaps") \/ Spend("requests")
  <2>1. CASE \E t \in Threads : Runs(t)  BY <2>1, RunsBudget DEF Mishap
  <2>2. CASE Exchange \/ FillLost \/ FillArrives \/ PriceArrives
    BY <2>2
    DEF Exchange, EntryFires, StopLossFires, StopLossLapses, ClosedOutside,
        FillLost, FillArrives, PriceArrives, Mishap
  <2>3. CASE TickReads \/ TickQueued \/ JobStarts
             \/ (\E kind \in Requests : Requested(kind)) \/ Crash
    BY <2>3
    DEF TickReads, TickQueued, JobStarts, Requested, Crash, Mishap
  <2>4. CASE UNCHANGED vars  BY <2>4 DEF vars
  <2> QED BY <2>1, <2>2, <2>3, <2>4 DEF Next
<1> QED BY <1>1, <1>2, <1>3, <1>4

TidyInv == BudgetInv /\ BaseInv /\ (Untroubled => OrderlyInv)

LEMMA TidyAlways ==
    ASSUME Overlaps = {}
    PROVE  Spec => []TidyInv
<1>1. Init => TidyInv
  <2>1. Init => BudgetInv
    BY HedgeAssumption DEF HedgeAssumption, Init, BudgetInv
  <2> QED BY <2>1, BaseInit, OrderlyInit DEF TidyInv
<1>2. TidyInv /\ [Next]_vars => TidyInv'
  <2> SUFFICES ASSUME TidyInv, [Next]_vars PROVE TidyInv'
    OBVIOUS
  <2>1. BudgetInv' /\ (Untroubled' => Untroubled /\ NoMishap)
    BY BudgetStep DEF TidyInv
  <2>2. BaseInv'  BY BaseStep DEF TidyInv
  <2>3. Untroubled' => OrderlyInv'
    BY <2>1, OrderlyStep DEF TidyInv
  <2> QED BY <2>1, <2>2, <2>3 DEF TidyInv
<1> QED BY <1>1, <1>2, PTL DEF Spec

\* With no event overtaken on its way to the lock and as long as nothing has
\* gone wrong, the hedge never risks more than its size, whatever the users ask
\* for and however orders execute: at most one entry order is open, of the size
\* of the hedge and only while there is no position.  A lost answer or a restart
\* that a retarget follows, or a list of orders that is out of date, leaves a
\* second one.
THEOREM ExposureBoundedTheorem ==
    ASSUME Overlaps = {}
    PROVE  Spec => [](Untroubled => ExposureBounded)
<1>1. TidyInv => (Untroubled => ExposureBounded)
  <2> SUFFICES ASSUME OrderlyInv PROVE ExposureBounded
    BY DEF TidyInv
  <2>1. /\ \A o, e \in Entries : o = e
        /\ pos # 0 => Entries = {}
        /\ pos <= Size
    BY OneOfAKind DEF OrderlyInv, OwnInv, LedgerInv
  <2>2. Cardinality(Entries) <= 1  BY <2>1, AtMostOne
  <2>3. \A o \in Entries : o.sz = Size
    BY DEF OrderlyInv, BaseInv, TypeInv, ExchangeTyped
  <2> QED BY <2>1, <2>2, <2>3 DEF ExposureBounded
<1> QED BY <1>1, TidyAlways, PTL

\* Under the same conditions a position is never protected twice: the one stop
\* loss that is open has the size of the whole position.
THEOREM OneStopLossTheorem ==
    ASSUME Overlaps = {}
    PROVE  Spec => [](Untroubled => OneStopLoss)
<1>1. TidyInv => (Untroubled => OneStopLoss)
  <2> SUFFICES ASSUME OrderlyInv PROVE OneStopLoss
    BY DEF TidyInv
  <2>1. \A o, e \in StopLosses : o = e  BY OneOfAKind
  <2> QED BY <2>1, AtMostOne DEF OneStopLoss
<1> QED BY <1>1, TidyAlways, PTL

-----------------------------------------------------------------------------
(* What may be done to a hedge when nothing goes wrong.                    *)

LEMMA Unmoved ==
    ASSUME \/ Exchange \/ FillLost \/ FillArrives \/ PriceArrives
           \/ TickReads \/ TickQueued \/ JobStarts
           \/ (\E kind \in Requests : Requested(kind)) \/ UNCHANGED vars
    PROVE  UNCHANGED <<hedge, row, cycleRows>>
BY DEF Exchange, EntryFires, StopLossFires, StopLossLapses, ClosedOutside,
       FillLost, FillArrives, PriceArrives, TickReads, TickQueued, JobStarts,
       Requested, tables, vars

\* Where nothing can go wrong, nothing has.
LEMMA CalmAlways ==
    ASSUME Overlaps = {}, Mishaps = {}
    PROVE  Spec => []OrderlyInv
<1>1. OrderlyInv /\ [Next]_vars => OrderlyInv'
  <2> SUFFICES ASSUME OrderlyInv, [Next]_vars PROVE OrderlyInv'
    OBVIOUS
  <2>1. NoMishap  BY DEF NoMishap, Mishap
  <2> QED BY <2>1, OrderlyStep
<1> QED BY <1>1, OrderlyInit, PTL DEF Spec

\* Only _reconcileCancelPending says cancelled.
LEMMA OnlyCancelled ==
    ASSUME BaseInv, NEW t \in Threads, Runs(t),
           hedge'.status = "cancelled", hedge.status # "cancelled"
    PROVE  t = "worker" /\ CancelDone("worker")
<1> USE DEF BaseInv
<1>1. Cancellation(t)
  <2>1. ~KeepsStatus  BY DEF KeepsStatus, Ending
  <2> QED BY <2>1, PlacementStatus, StopLossStatus, EntryFillStatus,
             CycleEndStatus, RescueStatus, MonitorStatus, OperationStatus
          DEF Runs
<1>2. t = "worker"
  <2>1. run[t].pc \in CancelPcs \cup {"cancel"}
    BY <1>1, CancellationStatus
  <2> QED BY <2>1 DEF FirstInv, CreatorPcs, CancelPcs, Threads
<1>3. \/ CancelDone(t)
      \/ hedge' = hedge
      \/ \E s \in {"error", "cancel_pending"} : hedge' = SetStatus(s)
  BY <1>1, SavedHedge
  DEF Cancellation, CancelBegins, CancelTick, CancelTimedOut, CancelReads,
      CancelOrders, CancelCloses, CancelConfirmsOrders, CancelConfirmsPos,
      CancelPostponed
<1>4. \A s : SetStatus(s).status = s  BY SetStatusIs DEF TypeInv
<1> QED BY <1>2, <1>3, <1>4

\* When nothing goes wrong and nothing is overtaken, a hedge is cancelled only
\* when its position is closed and neither its entry order nor its stop loss
\* is open: _reconcileCancelPending knows every order there is.
THEOREM CancelledIsFlatTheorem ==
    ASSUME Overlaps = {}, Mishaps = {}
    PROVE  Spec => CancelledIsFlat
<1>1. OrderlyInv /\ [Next]_vars =>
        [hedge'.status = "cancelled" /\ hedge.status # "cancelled"
           => pos = 0 /\ orders = {}]_vars
  <2> SUFFICES ASSUME OrderlyInv, [Next]_vars, hedge'.status = "cancelled",
                      hedge.status # "cancelled"
               PROVE  pos = 0 /\ orders = {}
    OBVIOUS
  <2>1. ~Crash  BY DEF Crash, Mishap
  <2>2. PICK t \in Threads : Runs(t)  BY <2>1, Unmoved DEF Next
  <2>3. CancelDone("worker")  BY <2>2, OnlyCancelled DEF OrderlyInv
  <2>4. (Work.pc = "cancelLastPos" /\ pos = 0) \/ Work.pc = "cancelLastOrders"
    BY <2>3 DEF CancelDone, At, Work
  <2> QED BY <2>4 DEF OrderlyInv, OwnInv, KnowsInv, BarePcs, CancelPcs
<1> QED BY <1>1, CalmAlways, PTL DEF Spec, CancelledIsFlat

\* Under the same conditions the IOC order of _reconcileTriggeredEntry never
\* follows one that is open or has been executed.
THEOREM RescueReplacesDeadOrderTheorem ==
    ASSUME Overlaps = {}, Mishaps = {}
    PROVE  Spec => RescueReplacesDeadOrder
<1>1. OrderlyInv =>
        [\A t \in Threads :
           IocSent(t) => \A o \in orders \cup filled : o.oid # run[t].fill.oid]_vars
  <2> SUFFICES ASSUME OrderlyInv, NEW t \in Threads, IocSent(t),
                      NEW o \in orders \cup filled
               PROVE  o.oid # run[t].fill.oid
    OBVIOUS
  <2>1. run[t].pc = "iocSend"  BY DEF IocSent, At
  <2>2. t = "worker" /\ Work.pc = "iocSend" /\ Work = run[t]
    BY <2>1 DEF OrderlyInv, BaseInv, FirstInv, CreatorPcs, Threads, Work
  <2> QED BY <2>2 DEF OrderlyInv, OwnInv, KnowsInv, BarePcs
<1> QED BY <1>1, CalmAlways, PTL DEF RescueReplacesDeadOrder

\* Only _finalizeCycle records a cycle.
LEMMA OnlyFinalized ==
    ASSUME NEW t \in Threads, Runs(t)
    PROVE  CycleSaved(t) \/ cycleRows' = cycleRows
<1>s. \A h : Save(h) => cycleRows' = cycleRows  BY DEF Save
<1>t. \A h : Throw(t, h) => cycleRows' = cycleRows
  BY <1>s DEF Throw, tables
<1>1. CASE Placement(t) \/ StopLoss(t)
  BY <1>1, <1>s, <1>t
  DEF Placement, PlaceSkipped, PlaceUnreadable, PlaceOversized,
      PlaceAdoptsPosition, PlaceAdoptsOrder, PlacePrepares, EntrySent,
      EntryRefused, EntryAcked, OversizeStops, StopLoss, SlWithoutPosition,
      SlSizes, SlReused, SlMissing, SlSent, SlRefused, SlAcked, tables
<1>2. CASE EntryFill(t) \/ CycleEnd(t)
  BY <1>2, <1>s, <1>t
  DEF EntryFill, EntryFillNoted, EntryFillRead, PartialCancels,
      PartialToppedUp, EntryFillBreached, EntryFillCovered, ExitRead, Closed,
      CycleEnd, SlFillNoted, CycleNotSaved, ExitRecovered, CycleGuessed,
      SlVanished, tables
<1>3. CASE Rescue(t)
  BY <1>3, <1>s
  DEF Rescue, EntryRecovered, EntryUnfilled, RescueDeclined, RescueLists,
      RescueReads, RescueCancels, RescueConfirms, RescueClears, IocSent,
      IocRefused, IocAcked, tables
<1>4. CASE Monitor(t)
  <2>1. CASE TickWaits(t) \/ WaitingRetried(t) \/ EntryChecked(t)
             \/ PositionUnreadable(t) \/ PositionGone(t)
             \/ PositionOversized(t) \/ PositionSeen(t)
    BY <2>1, <1>s
    DEF TickWaits, WaitingRetried, EntryChecked, PositionUnreadable,
        PositionGone, PositionOversized, PositionSeen, tables
  <2>2. CASE PendingSlFound(t) \/ PendingSlBreached(t) \/ PendingSlGrace(t)
             \/ PendingSlRetried(t) \/ ClosingRetried(t)
             \/ ClosingAwaited(t) \/ ProtectedBreached(t)
             \/ ProtectedHolds(t) \/ ProtectedLost(t)
    BY <2>2, <1>s
    DEF PendingSlFound, PendingSlBreached, PendingSlGrace, PendingSlRetried,
        ClosingRetried, ClosingAwaited, ProtectedBreached, ProtectedHolds,
        ProtectedLost, tables
  <2> QED BY <1>4, <2>1, <2>2 DEF Monitor
<1>5. CASE Cancellation(t) \/ Operation(t)
  BY <1>5, <1>s
  DEF Cancellation, CancelBegins, CancelTick, CancelTimedOut, CancelReads,
      CancelOrders, CancelCloses, CancelConfirmsOrders, CancelConfirmsPos,
      CancelDone, CancelPostponed, Operation, Retargets, MovesExit,
      RequestFails, EntryTriggered, ExitTriggered, tables
<1> QED BY <1>1, <1>2, <1>3, <1>4, <1>5 DEF Runs

\* Under the same conditions, and when no order is withdrawn with a part of it
\* executed, a cycle is recorded only when its position is closed.  The part of
\* a stop loss that executes is taken for the whole of it by _onSlFill.
THEOREM CycleClosesPositionTheorem ==
    ASSUME Overlaps = {}, Mishaps = {}, "partial" \notin Executions
    PROVE  Spec => CycleClosesPosition
<1>1. OrderlyInv /\ [Next]_vars => [cycleRows' # cycleRows => pos = 0]_vars
  <2> SUFFICES ASSUME OrderlyInv, [Next]_vars, cycleRows' # cycleRows
               PROVE  pos = 0
    OBVIOUS
  <2>1. ~Crash  BY DEF Crash, Mishap
  <2>2. PICK t \in Threads : Runs(t)  BY <2>1, Unmoved DEF Next
  <2>3. CycleSaved(t)  BY <2>2, OnlyFinalized
  <2>4. run[t].pc = "finalize"  BY <2>3 DEF CycleSaved, At
  <2>5. Work.pc = "finalize"
    BY <2>4 DEF OrderlyInv, BaseInv, FirstInv, CreatorPcs, Threads, Work
  <2> QED BY <2>5 DEF OrderlyInv, OwnInv, KnowsInv
<1> QED BY <1>1, CalmAlways, PTL DEF Spec, CycleClosesPosition

-----------------------------------------------------------------------------
(* The row of the hedge and the cycles, as long as nothing has gone wrong. *)

\* Where the object is ahead of its row.
AheadPcs == PlacePcs \cup (FillPcs \ {"entryFill"})
            \cup {"oversize", "iocSend", "iocSent"}
Ahead == \/ Work.pc \in AheadPcs \cup {"slSent"}
         \/ Work.pc \in SlPcs /\ Work.onThrow \in {"keep", "pendingSl"}
RowSays == /\ row.status = hedge.status
           /\ row.entryOid = hedge.entryOid
           /\ row.slOid = hedge.slOid
SavedInv ==
    /\ hedge.placing => Creation.pc # "idle" \/ Work.pc \in {"send", "sent"}
    /\ nextOid <= MaxOids /\ Creation.pc = "idle" => RowSays \/ Ahead

\* What is filled or closed is what the hedge waits for.
MatchedInv ==
    /\ Work.pc = "entryFill" => Work.fill.oid = hedge.entryOid
    /\ Work.pc \in {"slFill", "finalize"} => Work.fill.oid = hedge.slOid

\* No order of the hedge is one that a cycle tells of, so that the unique
\* indexes never refuse the next cycle.
CycleInv ==
    /\ LiveEntry < nextOid /\ LiveSl < nextOid /\ hedge.entryFill < nextOid
    /\ \A c \in cycleRows :
         /\ c.cycleId <= hedge.cycles
         /\ c.entry < nextOid /\ c.exit < nextOid
         /\ c.entry # NoOid => c.entry \notin {LiveEntry, hedge.entryFill}
         /\ c.exit # NoOid => c.exit # LiveSl

ToldInv == SavedInv /\ MatchedInv /\ CycleInv

\* An order id is the one it was, none, or the next.
Follows(new, old) == \/ new \in {old, NoOid}
                     \/ new = nextOid /\ nextOid' = nextOid + 1

\* Nothing is told of the cycles.
Recalls ==
    /\ cycleRows' = cycleRows /\ hedge'.cycles = hedge.cycles
    /\ nextOid' \in {nextOid, nextOid + 1}
    /\ Follows(LiveEntry', LiveEntry) /\ Follows(LiveSl', LiveSl)
    /\ hedge'.entryFill \in {hedge.entryFill, NoOid, LiveEntry}

\* The types of what the rows tell.
LEMMA TellsTyped ==
    ASSUME BaseInv
    PROVE  /\ nextOid \in Nat \ {0} /\ MaxOids \in Nat
           /\ LiveEntry \in Nat /\ LiveSl \in Nat
           /\ hedge.entryFill \in Nat /\ hedge.cycles \in Nat
           /\ \A c \in cycleRows : c.cycleId \in Nat /\ c.entry \in Nat
                                   /\ c.exit \in Nat
<1>1. hedge \in Hedges /\ Work \in Frames /\ Creation \in Frames
      /\ cycleRows \subseteq Cycles /\ nextOid \in Nat \ {0}
      /\ hedge.entryOid \in Nat /\ hedge.slOid \in Nat
  BY WorkTyped DEF BaseInv, TypeInv, HedgeTyped
<1>2. MaxOids \in Nat /\ Oids \cup {NoOid} \subseteq Nat
  BY LotsGrow DEF Oids, NoOid
<1>3. Work.fill.oid \in Nat /\ Creation.fill.oid \in Nat
  BY <1>1, <1>2 DEF Frames, Fills, NoFill, NoOid
<1>4. hedge.entryFill \in Nat /\ hedge.cycles \in Nat
  BY <1>1, <1>2 DEF Hedges
<1>5. \A c \in cycleRows : c.cycleId \in Nat /\ c.entry \in Nat /\ c.exit \in Nat
  BY <1>1, <1>2 DEF Cycles
<1> QED BY <1>1, <1>2, <1>3, <1>4, <1>5 DEF LiveEntry, LiveSl

\* What tells nothing of the cycles repeats nothing.
LEMMA RecallsKeep ==
    ASSUME BaseInv, CycleInv, Recalls
    PROVE  CycleInv'
<1>1. /\ nextOid \in Nat \ {0} /\ LiveEntry \in Nat /\ LiveSl \in Nat
      /\ hedge.entryFill \in Nat
      /\ \A c \in cycleRows : c.entry \in Nat /\ c.exit \in Nat
  BY TellsTyped
<1>2. /\ LiveEntry' < nextOid' /\ LiveSl' < nextOid'
      /\ hedge'.entryFill < nextOid'
  BY <1>1 DEF Recalls, CycleInv, Follows, NoOid
<1>3. ASSUME NEW c \in cycleRows
      PROVE  /\ c.entry < nextOid' /\ c.exit < nextOid'
             /\ c.entry # NoOid => c.entry \notin {LiveEntry', hedge'.entryFill}
             /\ c.exit # NoOid => c.exit # LiveSl'
  BY <1>1 DEF Recalls, CycleInv, Follows
<1> QED BY <1>2, <1>3 DEF Recalls, CycleInv

\* What the worker does is saved, or will be, or does not change what the row
\* could tell.
ToldNow == \/ row' = hedge' \/ Ahead'
           \/ /\ UNCHANGED <<row, hedge.status, hedge.entryOid, hedge.slOid>>
              /\ ~Ahead

LEMMA TellsAll ==
    ASSUME OrderlyInv, ToldInv, Alone, Recalls, ToldNow, MatchedInv',
           hedge'.placing => Work'.pc \in {"send", "sent"}
    PROVE  ToldInv'
<1>1. nextOid \in Nat /\ MaxOids \in Nat
  BY TellsTyped DEF OrderlyInv
<1>2. CycleInv'  BY RecallsKeep DEF OrderlyInv, ToldInv
<1>3. nextOid' <= MaxOids => nextOid <= MaxOids  BY <1>1 DEF Recalls
<1>4. nextOid' <= MaxOids => RowSays' \/ Ahead'
  BY <1>3 DEF ToldInv, SavedInv, RowSays, Alone, ToldNow
<1> QED BY <1>2, <1>4 DEF ToldInv, SavedInv

\* Most of its steps neither send an order nor match one: the hedge keeps its
\* orders or forgets them.
Forgets ==
    /\ cycleRows' = cycleRows /\ nextOid' \in {nextOid, nextOid + 1}
    /\ hedge'.cycles = hedge.cycles
    /\ hedge'.placing \in {FALSE, hedge.placing}
    /\ hedge'.entryOid \in {hedge.entryOid, NoOid}
    /\ hedge'.slOid \in {hedge.slOid, NoOid}
    /\ hedge'.entryFill \in {hedge.entryFill, NoOid, hedge.entryOid}

LEMMA Tells ==
    ASSUME OrderlyInv, ToldInv, Alone, Forgets, ToldNow,
           Work.pc \notin {"send", "sent", "iocSent", "slSent"},
           Work'.pc \notin {"send", "sent", "iocSent", "slSent", "entryFill",
                            "slFill", "finalize"}
    PROVE  ToldInv'
<1>1. /\ LiveEntry = hedge.entryOid /\ LiveEntry' = hedge'.entryOid
      /\ LiveSl = hedge.slOid /\ LiveSl' = hedge'.slOid
  BY DEF Alone, LiveEntry, LiveSl
<1>2. Recalls  BY <1>1 DEF Recalls, Follows, Forgets
<1>3. MatchedInv'  BY DEF MatchedInv
<1>4. ~hedge'.placing  BY DEF ToldInv, SavedInv, Alone, Forgets
<1> QED BY <1>2, <1>3, <1>4, TellsAll

\* Where no save fails, what is saved is in the row.
SureSaves == "crash" \notin Mishaps

LEMMA SavedRow ==
    ASSUME SureSaves, NEW h, Save(h)
    PROVE  hedge' = h /\ row' = h /\ cycleRows' = cycleRows
BY DEF Save, SureSaves

\* What an exception leaves.
LEMMA ThrownTells ==
    ASSUME SureSaves, NEW t \in Threads, NEW h \in Hedges, Throw(t, h)
    PROVE  /\ Return(t) /\ cycleRows' = cycleRows
           /\ hedge'.cycles = h.cycles /\ hedge'.placing = h.placing
           /\ hedge'.entryOid = h.entryOid /\ hedge'.slOid = h.slOid
           /\ hedge'.entryFill = h.entryFill
           /\ \/ row' = hedge'
              \/ run[t].onThrow = "log" /\ row' = row /\ hedge' = h
<1> DEFINE tries == h.entryRetry + 1
           g == [h EXCEPT !.entryRetry = tries,
                          !.status = IF tries >= MaxEntryRetries
                                     THEN "error" ELSE @]
           Kept(k) == /\ k.cycles = h.cycles /\ k.placing = h.placing
                      /\ k.entryOid = h.entryOid /\ k.slOid = h.slOid
                      /\ k.entryFill = h.entryFill
<1>1. Return(t)  BY DEF Throw
<1>2. /\ cycleRows' = cycleRows
      /\ \/ row' = hedge'
         \/ run[t].onThrow = "log" /\ row' = row /\ hedge' = h
  <2>1. \A k : Save(k) => row' = hedge' /\ cycleRows' = cycleRows
    BY SavedRow
  <2> QED BY <2>1 DEF Throw, tables
<1>3. \/ hedge' = [h EXCEPT !.status = "error"]
      \/ hedge' = h
      \/ hedge' = [h EXCEPT !.status = "entry_filled_pending_sl"]
      \/ hedge' = g
  BY SavedHedge DEF Throw
<1>4. /\ Kept(h) /\ Kept(g) /\ Kept([h EXCEPT !.status = "error"])
      /\ Kept([h EXCEPT !.status = "entry_filled_pending_sl"])
  <2> HIDE DEF tries
  <2> QED BY DEF Hedges
<1> HIDE DEF g
<1>5. Kept(hedge')  BY <1>3, <1>4
<1> QED BY <1>1, <1>2, <1>5

LEMMA StopLossTells ==
    ASSUME OrderlyInv, ToldInv, NoMishap, Alone, SureSaves, StopLoss("worker")
    PROVE  ToldInv'
<1> USE DEF OrderlyInv
<1>0. /\ hedge \in Hedges /\ Work = run["worker"] /\ nextOid \in Nat
      /\ run \in [Threads -> Frames] /\ "worker" \in Threads
      /\ Creation.pc = "idle" /\ Creation'.pc = "idle"
  BY WorkTyped DEF Work, BaseInv, TypeInv, FramesTyped, Threads, Alone
<1>p. ~hedge.placing \/ Work.pc \in {"send", "sent"}
  BY <1>0 DEF ToldInv, SavedInv
<1> USE DEF AheadPcs, PlacePcs, FillPcs, SlPcs
<1>1. CASE SlWithoutPosition("worker") \/ SlRefused("worker")
  <2>1. /\ Work.pc \in {"sl", "slSend"} /\ Throw("worker", hedge)
        /\ nextOid' = nextOid
    BY <1>0, <1>1
    DEF SlWithoutPosition, SlRefused, At, NoMishap, exchange
  <2>2. /\ Work'.pc = "idle" /\ Forgets
        /\ \/ row' = hedge'
           \/ Work.onThrow = "log" /\ row' = row /\ hedge' = hedge
    BY <1>0, <2>1, ThrownTells, WorkReturns DEF Forgets
  <2>3. ToldNow  BY <2>1, <2>2 DEF ToldNow, Ahead
  <2> QED BY <2>1, <2>2, <2>3, Tells
<1>2. CASE SlSizes("worker")
  <2>1. /\ Work.pc = "sl" /\ Goto("worker", "slOrders")
        /\ UNCHANGED <<row, cycleRows, nextOid>>
        /\ hedge' = [hedge EXCEPT !.size = pos]
    BY <1>0, <1>2 DEF SlSizes, At, tables, exchange
  <2>2. Forgets /\ hedge'.status = hedge.status
        /\ hedge'.entryOid = hedge.entryOid /\ hedge'.slOid = hedge.slOid
    BY <1>0, <2>1 DEF Forgets, Hedges
  <2>3. Work'.pc = "slOrders" /\ Work'.onThrow = Work.onThrow
    BY <2>1, WorkGoes
  <2>4. ToldNow  BY <2>1, <2>2, <2>3 DEF ToldNow, Ahead
  <2> QED BY <2>1, <2>2, <2>3, <2>4, Tells
<1>3. ~SlReused("worker")
  <2>1. SUFFICES ASSUME SlReused("worker") PROVE FALSE
    OBVIOUS
  <2>2. Work.pc = "slOrders" /\ FreshSls # {}
    BY <1>0, <2>1 DEF SlReused, At
  <2>3. orders = {}  BY <2>2 DEF OwnInv, KnowsInv, BarePcs
  <2> QED BY <2>2, <2>3 DEF FreshSls, MatchingSl
<1>4. CASE SlMissing("worker")
  <2>1. /\ Work.pc = "slOrders" /\ Goto("worker", "slSend")
        /\ UNCHANGED <<row, cycleRows, nextOid, hedge>>
    BY <1>0, <1>4 DEF SlMissing, At, tables, exchange
  <2>2. Forgets  BY <2>1 DEF Forgets
  <2>3. Work'.pc = "slSend" /\ Work'.onThrow = Work.onThrow
    BY <2>1, WorkGoes
  <2>4. ToldNow  BY <2>1, <2>3 DEF ToldNow, Ahead
  <2> QED BY <2>1, <2>2, <2>3, <2>4, Tells
<1>5. CASE SlSent("worker")
  <2>1. /\ Work.pc = "slSend" /\ nextOid' = nextOid + 1
        /\ run' = [run EXCEPT !["worker"].pc = "slSent",
                              !["worker"].fill = [oid |-> nextOid, sz |-> 0]]
        /\ UNCHANGED <<hedge, cycleRows>>
    BY <1>0, <1>5 DEF SlSent, Accepted, At, tables
  <2>2. Work'.pc = "slSent" /\ Work'.fill = [oid |-> nextOid, sz |-> 0]
    BY <1>0, <2>1 DEF Frames, Work
  <2>3. LiveSl' = nextOid /\ LiveEntry' = LiveEntry
    BY <1>0, <2>1, <2>2 DEF LiveSl, LiveEntry
  <2>4. Recalls  BY <2>1, <2>3 DEF Recalls, Follows
  <2>5. ToldNow /\ MatchedInv'  BY <2>2 DEF ToldNow, Ahead, MatchedInv
  <2> QED BY <1>p, <2>1, <2>4, <2>5, TellsAll
<1>6. CASE SlAcked("worker")
  <2>1. /\ Work.pc = "slSent" /\ Return("worker") /\ nextOid' = nextOid
        /\ Save(Protected("worker", Work.fill.oid))
    BY <1>0, <1>6 DEF SlAcked, At, exchange
  <2>2. /\ hedge' = Protected("worker", Work.fill.oid) /\ row' = hedge'
        /\ cycleRows' = cycleRows
    BY <2>1, SavedRow
  <2>3. /\ hedge'.slOid = Work.fill.oid /\ hedge'.entryOid = hedge.entryOid
        /\ hedge'.entryFill = hedge.entryFill /\ hedge'.cycles = hedge.cycles
        /\ hedge'.placing = hedge.placing
    BY <1>0, <2>2 DEF Protected, Hedges
  <2>4. Work'.pc = "idle"  BY <2>1, WorkReturns
  <2>5. LiveSl' = LiveSl /\ LiveEntry' = LiveEntry
    BY <1>0, <2>1, <2>3, <2>4 DEF LiveSl, LiveEntry
  <2>6. Recalls  BY <2>1, <2>2, <2>3, <2>5 DEF Recalls, Follows
  <2>7. ToldNow /\ MatchedInv'  BY <2>2, <2>4 DEF ToldNow, MatchedInv
  <2> QED BY <1>p, <2>1, <2>3, <2>6, <2>7, TellsAll
<1> QED BY <1>1, <1>2, <1>3, <1>4, <1>5, <1>6 DEF StopLoss

LEMMA EntryFillTells ==
    ASSUME OrderlyInv, ToldInv, NoMishap, Alone, SureSaves, EntryFill("worker")
    PROVE  ToldInv'
<1> USE DEF OrderlyInv
<1>0. /\ hedge \in Hedges /\ Work = run["worker"] /\ nextOid \in Nat
      /\ run \in [Threads -> Frames] /\ "worker" \in Threads
  BY WorkTyped DEF Work, BaseInv, TypeInv, FramesTyped, Threads
<1> USE DEF AheadPcs, PlacePcs, FillPcs, SlPcs
<1>1. CASE EntryFillNoted("worker")
  <2> DEFINE size == IF Work.fill.sz > 0 THEN Work.fill.sz ELSE hedge.size
  <2>1. /\ Work.pc = "entryFill" /\ Goto("worker", "entryRead")
        /\ UNCHANGED <<cycleRows, nextOid>>
        /\ hedge' = [hedge EXCEPT !.confirmed = TRUE, !.entryOid = NoOid,
                                  !.entryFill = Work.fill.oid, !.slRetry = 0,
                                  !.size = size]
    BY <1>0, <1>1 DEF EntryFillNoted, At, tables, exchange
  <2> HIDE DEF size
  <2>2. Work.fill.oid = hedge.entryOid  BY <2>1 DEF ToldInv, MatchedInv
  <2>3. Forgets  BY <1>0, <2>1, <2>2 DEF Forgets, Hedges
  <2>4. Work'.pc = "entryRead"  BY <2>1, WorkGoes
  <2>5. ToldNow  BY <2>4 DEF ToldNow, Ahead
  <2> QED BY <2>1, <2>3, <2>4, <2>5, Tells
<1>2. CASE EntryFillRead("worker") \/ PartialCancels("worker")
           \/ PartialToppedUp("worker")
  <2>1. /\ Work.pc \in {"entryRead", "partial", "topup"}
        /\ UNCHANGED cycleRows /\ nextOid' \in {nextOid, nextOid + 1}
        /\ \/ \E s : hedge' = [hedge EXCEPT !.size = s]
           \/ hedge' = [hedge EXCEPT !.topup = TRUE]
           \/ hedge' = hedge
    BY <1>0, <1>2
    DEF EntryFillRead, PartialCancels, PartialToppedUp, At, tables, exchange
  <2>2. Forgets  BY <1>0, <2>1 DEF Forgets, Hedges
  <2>3. Work'.pc \in {"oversize", "partial", "entryExit", "topup"}
    <3>1. CASE EntryFillRead("worker")
      <4>1. \E b, p : /\ run' = [run EXCEPT !["worker"].breached = b,
                                            !["worker"].pc = p]
                      /\ p \in {"oversize", "partial", "entryExit"}
        BY <3>1 DEF EntryFillRead
      <4> QED BY <1>0, <4>1 DEF Frames, Work
    <3>2. CASE PartialCancels("worker") \/ PartialToppedUp("worker")
      <4>1. Goto("worker", "topup") \/ Goto("worker", "entryExit")
        BY <3>2 DEF PartialCancels, PartialToppedUp
      <4> QED BY <4>1, WorkGoes
    <3> QED BY <1>2, <3>1, <3>2
  <2>4. ToldNow  BY <2>3 DEF ToldNow, Ahead
  <2> QED BY <2>1, <2>2, <2>3, <2>4, Tells
<1>3. CASE EntryFillBreached("worker") \/ EntryFillCovered("worker")
  <2>1. /\ Work.pc = "entryExit" /\ nextOid' = nextOid
        /\ \E s : Save(SetStatus(s))
    BY <1>0, <1>3 DEF EntryFillBreached, EntryFillCovered, At, exchange
  <2>2. PICK s : Save(SetStatus(s))  BY <2>1
  <2>3. hedge' = SetStatus(s) /\ row' = hedge' /\ cycleRows' = cycleRows
    BY <2>2, SavedRow
  <2>4. Forgets  BY <1>0, <2>1, <2>3 DEF Forgets, SetStatus, Hedges
  <2>5. Work'.pc \in {"exitRead", "sl"}
    <3>1. \/ Goto("worker", "exitRead")
          \/ run' = [run EXCEPT !["worker"].pc = "sl",
                                !["worker"].onThrow = "keep"]
      BY <1>3 DEF EntryFillBreached, EntryFillCovered
    <3> QED BY <1>0, <3>1, WorkGoes DEF Frames, Work
  <2>6. ToldNow  BY <2>3 DEF ToldNow
  <2> QED BY <2>1, <2>4, <2>5, <2>6, Tells
<1>4. CASE ExitRead("worker") \/ Closed("worker")
  <2>1. /\ Work.pc \in {"exitRead", "close"} /\ nextOid' = nextOid
        /\ UNCHANGED <<hedge, cycleRows>> /\ row' \in {row, hedge'}
    <3>1. CASE ExitRead("worker")
      BY <1>0, <3>1 DEF ExitRead, At, exchange, tables
    <3>2. CASE Closed("worker")
      BY <1>0, <3>2, SavedRow DEF Closed, At, tables
    <3> QED BY <1>4, <3>1, <3>2
  <2>2. Forgets  BY <2>1 DEF Forgets
  <2>3. Work'.pc \in {"close", "idle"}
    <3>1. \/ Return("worker")
          \/ run' = [run EXCEPT !["worker"].pc = "close",
                                !["worker"].pos = pos]
      BY <1>4 DEF ExitRead, Closed, NoMishap
    <3> QED BY <1>0, <3>1, WorkReturns DEF Frames, Work
  <2>4. ToldNow  BY <2>1 DEF ToldNow, Ahead
  <2> QED BY <2>1, <2>2, <2>3, <2>4, Tells
<1> QED BY <1>1, <1>2, <1>3, <1>4 DEF EntryFill

LEMMA CycleEndTells ==
    ASSUME OrderlyInv, ToldInv, NoMishap, Alone, SureSaves, CycleEnd("worker")
    PROVE  ToldInv'
<1> USE DEF OrderlyInv
<1>0. /\ hedge \in Hedges /\ Work = run["worker"] /\ nextOid \in Nat
      /\ run \in [Threads -> Frames] /\ "worker" \in Threads
      /\ Creation.pc = "idle" /\ Creation'.pc = "idle"
      /\ hedge.cycles \in Nat /\ hedge.entryFill \in Nat
      /\ \A c \in cycleRows : c.cycleId \in Nat
  BY WorkTyped, TellsTyped
  DEF Work, BaseInv, TypeInv, FramesTyped, Threads, Alone
<1>p. ~hedge.placing \/ Work.pc \in {"send", "sent"}
  BY <1>0 DEF ToldInv, SavedInv
<1> USE DEF AheadPcs, PlacePcs, FillPcs, SlPcs
<1>1. CASE SlFillNoted("worker")
  <2>1. /\ Work.pc = "slFill" /\ Goto("worker", "finalize")
        /\ nextOid' = nextOid /\ Save(SetStatus("closing"))
    BY <1>0, <1>1 DEF SlFillNoted, At, exchange
  <2>2. hedge' = SetStatus("closing") /\ row' = hedge' /\ cycleRows' = cycleRows
    BY <2>1, SavedRow
  <2>3. /\ hedge'.slOid = hedge.slOid /\ hedge'.entryOid = hedge.entryOid
        /\ hedge'.entryFill = hedge.entryFill /\ hedge'.cycles = hedge.cycles
        /\ hedge'.placing = hedge.placing
    BY <1>0, <2>2 DEF SetStatus, Hedges
  <2>4. Work'.pc = "finalize" /\ Work'.fill = Work.fill
    BY <2>1, WorkGoes
  <2>5. LiveSl' = LiveSl /\ LiveEntry' = LiveEntry
    BY <1>0, <2>1, <2>3, <2>4 DEF LiveSl, LiveEntry
  <2>6. Recalls  BY <2>1, <2>2, <2>3, <2>5 DEF Recalls, Follows
  <2>7. ToldNow /\ MatchedInv'
    BY <2>1, <2>2, <2>3, <2>4 DEF ToldNow, MatchedInv, ToldInv
  <2> QED BY <1>p, <2>1, <2>3, <2>6, <2>7, TellsAll
<1>f. ASSUME Work.pc = "finalize"
      PROVE  /\ Work.fill.oid = LiveSl /\ LiveEntry = hedge.entryOid
             /\ hedge.entryFill < nextOid /\ Work.fill.oid < nextOid
             /\ Work.fill.oid \in Nat
  BY <1>0, <1>f, TellsTyped
  DEF ToldInv, MatchedInv, CycleInv, LiveSl, LiveEntry
<1>2. CASE CycleSaved("worker")
  <2> DEFINE cycle == CycleOf(Work.fill.oid)
  <2>1. /\ Work.pc = "finalize" /\ nextOid' = nextOid
        /\ hedge' = AfterCycle(hedge.cycles + 1) /\ row' = hedge'
        /\ cycleRows' = cycleRows \cup {cycle}
        /\ run' = [run EXCEPT !["worker"].pc = "place",
                              !["worker"].fill = NoFill,
                              !["worker"].snap = NoOrders]
    BY <1>0, <1>2 DEF CycleSaved, At, exchange
  <2>2. /\ hedge'.entryOid = NoOid /\ hedge'.slOid = NoOid
        /\ hedge'.entryFill = NoOid /\ hedge'.cycles = hedge.cycles + 1
        /\ hedge'.placing = hedge.placing
    BY <1>0, <2>1, AfterCycleIs
  <2>3. Work'.pc = "place"  BY <1>0, <2>1 DEF Frames, Work
  <2>4. LiveSl' = NoOid /\ LiveEntry' = NoOid
    BY <1>0, <2>2, <2>3 DEF LiveSl, LiveEntry
  <2>5. /\ cycle.cycleId = hedge.cycles + 1 /\ cycle.entry = hedge.entryFill
        /\ cycle.exit = Work.fill.oid
    BY DEF CycleOf
  <2> HIDE DEF cycle
  <2>6. ASSUME NEW c \in cycleRows'
        PROVE  /\ c.cycleId <= hedge'.cycles
               /\ c.entry < nextOid' /\ c.exit < nextOid'
               /\ c.entry # NoOid => c.entry \notin {LiveEntry', hedge'.entryFill}
               /\ c.exit # NoOid => c.exit # LiveSl'
    <3>1. CASE c = cycle
      BY <1>0, <1>f, <2>1, <2>2, <2>4, <2>5, <3>1
    <3>2. CASE c \in cycleRows
      BY <1>0, <2>1, <2>2, <2>4, <3>2 DEF ToldInv, CycleInv
    <3> QED BY <2>1, <3>1, <3>2
  <2>7. LiveEntry' < nextOid' /\ LiveSl' < nextOid' /\ hedge'.entryFill < nextOid'
    BY <1>0, <1>f, <2>1, <2>2, <2>4 DEF NoOid
  <2>8. SavedInv' /\ MatchedInv'
    BY <1>p, <2>1, <2>2, <2>3 DEF SavedInv, MatchedInv, RowSays
  <2> QED BY <2>6, <2>7, <2>8 DEF ToldInv, CycleInv
<1>3. ~CycleNotSaved("worker")
  <2>1. SUFFICES ASSUME CycleNotSaved("worker") PROVE FALSE
    OBVIOUS
  <2>2. PICK c \in cycleRows : Conflicts(CycleOf(Work.fill.oid), c)
    BY <1>0, <2>1 DEF CycleNotSaved, NoMishap
  <2>3. Work.pc = "finalize"  BY <1>0, <2>1 DEF CycleNotSaved, At
  <2>4. \/ hedge.cycles + 1 = c.cycleId
        \/ hedge.entryFill # NoOid /\ hedge.entryFill = c.entry
        \/ Work.fill.oid # NoOid /\ Work.fill.oid = c.exit
    BY <2>2 DEF Conflicts, CycleOf
  <2> QED BY <1>0, <1>f, <2>3, <2>4 DEF ToldInv, CycleInv
<1>4. CASE \/ ExitRecovered("worker")
           \/ CycleGuessed("worker") /\ hedge.confirmed
  <2>1. /\ Work.pc = "exitFills" /\ UNCHANGED <<hedge, row, cycleRows, nextOid>>
    BY <1>0, <1>4 DEF ExitRecovered, CycleGuessed, At, tables, exchange
  <2>2. /\ Work'.pc \in {"slFill", "finalize"}
        /\ Work'.fill.oid = hedge.slOid
    <3>1. CASE ExitRecovered("worker")
      <4>1. PICK f \in filled :
              /\ f.oid = hedge.slOid
              /\ run' = [run EXCEPT !["worker"].pc = "slFill",
                                    !["worker"].fill = f]
        BY <3>1 DEF ExitRecovered
      <4> QED BY <1>0, <4>1 DEF Frames, Work
    <3>2. CASE CycleGuessed("worker") /\ hedge.confirmed
      <4>1. run' = [run EXCEPT !["worker"].pc = "finalize",
                      !["worker"].fill = [oid |-> hedge.slOid, sz |-> 0]]
        BY <3>2 DEF CycleGuessed
      <4> QED BY <1>0, <4>1 DEF Frames, Work
    <3> QED BY <1>4, <3>1, <3>2
  <2>3. LiveSl' = LiveSl /\ LiveEntry' = LiveEntry
    BY <1>0, <2>1, <2>2 DEF LiveSl, LiveEntry
  <2>4. Recalls  BY <2>1, <2>3 DEF Recalls, Follows
  <2>5. ToldNow /\ MatchedInv'
    BY <2>1, <2>2 DEF ToldNow, Ahead, MatchedInv
  <2> QED BY <1>p, <2>1, <2>4, <2>5, TellsAll
<1>5. CASE CycleGuessed("worker") /\ ~hedge.confirmed
  <2>1. /\ Work.pc = "exitFills" /\ nextOid' = nextOid
        /\ Save(AfterCycle(hedge.cycles))
        /\ run' = [run EXCEPT !["worker"].pc = "place",
                              !["worker"].snap = NoOrders]
    BY <1>0, <1>5 DEF CycleGuessed, At, exchange
  <2>2. /\ hedge' = AfterCycle(hedge.cycles) /\ row' = hedge'
        /\ cycleRows' = cycleRows
    BY <2>1, SavedRow
  <2>3. Forgets  BY <1>0, <2>1, <2>2, AfterCycleIs DEF Forgets
  <2>4. Work'.pc = "place"  BY <1>0, <2>1 DEF Frames, Work
  <2>5. ToldNow  BY <2>2 DEF ToldNow
  <2> QED BY <2>1, <2>3, <2>4, <2>5, Tells
<1>6. CASE SlVanished("worker")
  <2>1. /\ Work.pc = "exitFills" /\ UNCHANGED <<cycleRows, nextOid>>
        /\ hedge' = [hedge EXCEPT !.slOid = NoOid]
        /\ run' = [run EXCEPT !["worker"].pc = "sl",
                              !["worker"].onThrow = "pendingSl"]
    BY <1>0, <1>6 DEF SlVanished, At, tables, exchange
  <2>2. Forgets  BY <1>0, <2>1 DEF Forgets, Hedges
  <2>3. Work'.pc = "sl" /\ Work'.onThrow = "pendingSl"
    BY <1>0, <2>1 DEF Frames, Work
  <2>4. ToldNow  BY <2>3 DEF ToldNow, Ahead
  <2> QED BY <2>1, <2>2, <2>3, <2>4, Tells
<1> QED BY <1>1, <1>2, <1>3, <1>4, <1>5, <1>6 DEF CycleEnd

LEMMA RescueTells ==
    ASSUME OrderlyInv, ToldInv, NoMishap, Alone, SureSaves, Rescue("worker")
    PROVE  ToldInv'
<1> USE DEF OrderlyInv
<1>0. /\ hedge \in Hedges /\ Work = run["worker"] /\ nextOid \in Nat
      /\ run \in [Threads -> Frames] /\ "worker" \in Threads
      /\ Creation.pc = "idle" /\ Creation'.pc = "idle"
  BY WorkTyped DEF Work, BaseInv, TypeInv, FramesTyped, Threads, Alone
<1>p. ~hedge.placing \/ Work.pc \in {"send", "sent"}
  BY <1>0 DEF ToldInv, SavedInv
<1>h. \A h : Save(h) => hedge' = h /\ row' = h /\ cycleRows' = cycleRows
  BY SavedRow
<1> USE DEF AheadPcs, PlacePcs, FillPcs, SlPcs
<1>1. CASE EntryRecovered("worker")
  <2>1. /\ Work.pc = "entryFills" /\ UNCHANGED <<row, cycleRows, nextOid>>
        /\ hedge' = hedge \/ hedge' = [hedge EXCEPT !.size = pos]
    BY <1>0, <1>1 DEF EntryRecovered, At, tables, exchange
  <2>2. /\ hedge'.slOid = hedge.slOid /\ hedge'.entryOid = hedge.entryOid
        /\ hedge'.entryFill = hedge.entryFill /\ hedge'.cycles = hedge.cycles
        /\ hedge'.placing = hedge.placing /\ hedge'.status = hedge.status
    BY <1>0, <2>1 DEF Hedges
  <2>3. Work'.pc \in {"oversize", "entryFill"} /\ Work'.fill.oid = hedge.entryOid
    <3>1. CASE \E f \in filled :
                 /\ f.oid = hedge.entryOid
                 /\ run' = [run EXCEPT !["worker"].pc = "entryFill",
                                       !["worker"].fill = f]
      <4>1. PICK f \in filled :
              /\ f.oid = hedge.entryOid
              /\ run' = [run EXCEPT !["worker"].pc = "entryFill",
                                    !["worker"].fill = f]
        BY <3>1
      <4> QED BY <1>0, <4>1 DEF Frames, Work
    <3>2. CASE run' = [run EXCEPT
                 !["worker"].pc = IF pos > Size THEN "oversize" ELSE "entryFill",
                 !["worker"].fill = [oid |-> hedge.entryOid, sz |-> 0]]
      BY <1>0, <3>2 DEF Frames, Work
    <3> QED BY <1>1, <3>1, <3>2 DEF EntryRecovered
  <2>4. LiveSl' = LiveSl /\ LiveEntry' = LiveEntry
    BY <1>0, <2>1, <2>2, <2>3 DEF LiveSl, LiveEntry
  <2>5. Recalls  BY <2>1, <2>2, <2>4 DEF Recalls, Follows
  <2>6. ToldNow /\ MatchedInv'
    BY <2>1, <2>2, <2>3 DEF ToldNow, Ahead, MatchedInv
  <2> QED BY <1>p, <2>1, <2>2, <2>5, <2>6, TellsAll
<1>2. CASE EntryUnfilled("worker") \/ RescueClears("worker")
  <2>1. /\ Work.pc \in {"entryFills", "iocRead"} /\ nextOid' = nextOid
        /\ UNCHANGED <<row, cycleRows>>
        /\ \/ /\ hedge' = [hedge EXCEPT !.entryOid = NoOid]
              /\ Goto("worker", "place")
           \/ /\ hedge' = [hedge EXCEPT !.entryOid = NoOid, !.slOid = NoOid]
              /\ \E f : run' = [run EXCEPT !["worker"].pc = "iocSend",
                                           !["worker"].fill = f]
           \/ hedge' = hedge /\ (Goto("worker", "iocRead") \/ Return("worker"))
           \/ FoundOpen("worker")
    BY <1>0, <1>2
    DEF EntryUnfilled, RescueClears, At, NoMishap, tables, exchange
  <2>2. /\ Forgets
        /\ hedge'.status = hedge.status
        /\ \/ Work'.pc \in {"place", "iocSend"}
           \/ /\ Work'.pc \in {"iocRead", "idle", "oversize", "entryFills"}
              /\ hedge'.entryOid = hedge.entryOid /\ hedge'.slOid = hedge.slOid
    <3>1. CASE /\ hedge' = [hedge EXCEPT !.entryOid = NoOid]
               /\ Goto("worker", "place")
      BY <1>0, <2>1, <3>1, WorkGoes DEF Forgets, Hedges
    <3>2. CASE /\ hedge' = [hedge EXCEPT !.entryOid = NoOid, !.slOid = NoOid]
               /\ \E f : run' = [run EXCEPT !["worker"].pc = "iocSend",
                                            !["worker"].fill = f]
      <4>1. PICK f : run' = [run EXCEPT !["worker"].pc = "iocSend",
                                        !["worker"].fill = f]
        BY <3>2
      <4>2. Work'.pc = "iocSend"  BY <1>0, <4>1 DEF Frames, Work
      <4> QED BY <1>0, <2>1, <3>2, <4>2 DEF Forgets, Hedges
    <3>3. CASE hedge' = hedge /\ (Goto("worker", "iocRead") \/ Return("worker"))
      BY <2>1, <3>3, WorkGoes, WorkReturns DEF Forgets
    <3>4. CASE FoundOpen("worker")
      <4>1. Work'.pc \in {"oversize", "entryFills"}
        BY <1>0, <3>4 DEF FoundOpen, Frames, Work
      <4>2. hedge' = [hedge EXCEPT !.size = pos]  BY <3>4 DEF FoundOpen
      <4> QED BY <1>0, <2>1, <4>1, <4>2 DEF Forgets, Hedges
    <3> QED BY <2>1, <3>1, <3>2, <3>3, <3>4
  <2>3. ToldNow  BY <2>1, <2>2 DEF ToldNow, Ahead
  <2> QED BY <2>1, <2>2, <2>3, Tells
<1>3. CASE RescueDeclined("worker") \/ RescueLists("worker")
           \/ RescueReads("worker") \/ RescueCancels("worker")
           \/ RescueConfirms("worker")
  <2>1. /\ Work.pc \in {"rescue", "rescueRead", "rescueCancel", "rescueConfirm"}
        /\ UNCHANGED <<cycleRows, nextOid>>
        /\ \/ row' = row /\ hedge' = hedge
           \/ row' = row /\ hedge' = [hedge EXCEPT !.size = pos]
           \/ row' = hedge' /\ hedge' = hedge
           \/ row' = hedge' /\ hedge' = SetStatus("error")
    BY <1>0, <1>3, <1>h
    DEF RescueDeclined, RescueLists, RescueReads, RescueCancels,
        RescueConfirms, FoundOpen, At, tables, exchange
  <2>2. /\ Forgets
        /\ \/ row' = hedge'
           \/ UNCHANGED <<row, hedge.status, hedge.entryOid, hedge.slOid>>
    BY <1>0, <2>1 DEF Forgets, SetStatus, Hedges
  <2>3. Work'.pc \in {"idle", "rescueRead", "rescueCancel", "rescueConfirm",
                      "entryFills", "oversize"}
    <3>1. CASE RescueDeclined("worker") \/ RescueCancels("worker")
      <4>1. Return("worker") \/ Goto("worker", "rescueConfirm")
        BY <3>1 DEF RescueDeclined, RescueCancels
      <4> QED BY <4>1, WorkReturns, WorkGoes
    <3>2. CASE RescueLists("worker")
      <4>1. \E s : run' = [run EXCEPT !["worker"].pc = "rescueRead",
                                      !["worker"].snap = s]
        BY <3>2 DEF RescueLists
      <4> QED BY <1>0, <4>1 DEF Frames, Work
    <3>3. CASE RescueReads("worker") \/ RescueConfirms("worker")
      <4>1. \/ Return("worker") \/ Goto("worker", "entryFills")
            \/ \E p, d : /\ run' = [run EXCEPT !["worker"].pc = p,
                                               !["worker"].then = d]
                         /\ p \in {"oversize", "entryFills", "rescueCancel"}
            \/ \E p, d : /\ run' = [run EXCEPT !["worker"].then = d,
                                               !["worker"].pc = p]
                         /\ p \in {"oversize", "entryFills", "rescueCancel"}
        BY <3>3 DEF RescueReads, RescueConfirms, FoundOpen
      <4> QED BY <1>0, <4>1, WorkReturns, WorkGoes DEF Frames, Work
    <3> QED BY <1>3, <3>1, <3>2, <3>3
  <2>4. ToldNow  BY <2>1, <2>2 DEF ToldNow, Ahead
  <2> QED BY <2>1, <2>2, <2>3, <2>4, Tells
<1>4. CASE IocSent("worker")
  <2>1. /\ Work.pc = "iocSend" /\ nextOid' = nextOid + 1
        /\ run' = [run EXCEPT !["worker"].pc = "iocSent",
                              !["worker"].fill = [oid |-> nextOid, sz |-> 0]]
        /\ UNCHANGED <<hedge, cycleRows>>
    BY <1>0, <1>4 DEF IocSent, At, tables
  <2>2. Work'.pc = "iocSent" /\ Work'.fill = [oid |-> nextOid, sz |-> 0]
    BY <1>0, <2>1 DEF Frames, Work
  <2>3. LiveEntry' = nextOid /\ LiveSl' = LiveSl
    BY <1>0, <2>1, <2>2 DEF LiveSl, LiveEntry
  <2>4. Recalls  BY <2>1, <2>3 DEF Recalls, Follows
  <2>5. ToldNow /\ MatchedInv'  BY <2>2 DEF ToldNow, Ahead, MatchedInv
  <2> QED BY <1>p, <2>1, <2>4, <2>5, TellsAll
<1>5. CASE IocRefused("worker")
  <2>1. /\ Work.pc = "iocSend" /\ nextOid' = nextOid /\ Save(hedge)
        /\ Return("worker")
    BY <1>0, <1>5 DEF IocRefused, At, exchange
  <2>2. hedge' = hedge /\ row' = hedge' /\ cycleRows' = cycleRows
    BY <2>1, <1>h
  <2>3. Forgets /\ ToldNow  BY <2>1, <2>2 DEF Forgets, ToldNow
  <2>4. Work'.pc = "idle"  BY <2>1, WorkReturns
  <2> QED BY <2>1, <2>3, <2>4, Tells
<1>6. CASE IocAcked("worker")
  <2>1. /\ Work.pc = "iocSent" /\ nextOid' = nextOid /\ Return("worker")
        /\ Save([hedge EXCEPT !.entryOid = Work.fill.oid])
    BY <1>0, <1>6 DEF IocAcked, At, exchange
  <2>2. /\ hedge' = [hedge EXCEPT !.entryOid = Work.fill.oid]
        /\ row' = hedge' /\ cycleRows' = cycleRows
    BY <2>1, SavedRow
  <2>3. /\ hedge'.slOid = hedge.slOid /\ hedge'.entryOid = Work.fill.oid
        /\ hedge'.entryFill = hedge.entryFill /\ hedge'.cycles = hedge.cycles
        /\ hedge'.placing = hedge.placing
    BY <1>0, <2>2 DEF Hedges
  <2>4. Work'.pc = "idle"  BY <2>1, WorkReturns
  <2>5. LiveSl' = LiveSl /\ LiveEntry' = LiveEntry
    BY <1>0, <2>1, <2>3, <2>4 DEF LiveSl, LiveEntry
  <2>6. Recalls  BY <2>1, <2>2, <2>3, <2>5 DEF Recalls, Follows
  <2>7. ToldNow /\ MatchedInv'  BY <2>2, <2>4 DEF ToldNow, MatchedInv
  <2> QED BY <1>p, <2>1, <2>3, <2>6, <2>7, TellsAll
<1> QED BY <1>1, <1>2, <1>3, <1>4, <1>5, <1>6 DEF Rescue

LEMMA PlacementTells ==
    ASSUME OrderlyInv, ToldInv, NoMishap, Alone, SureSaves, Placement("worker")
    PROVE  ToldInv'
<1> USE DEF OrderlyInv
<1>0. /\ hedge \in Hedges /\ Work = run["worker"] /\ nextOid \in Nat
      /\ MaxOids \in Nat
      /\ run \in [Threads -> Frames] /\ "worker" \in Threads
      /\ Creation.pc = "idle" /\ Creation'.pc = "idle" /\ pos <= Size
  BY WorkTyped, TellsTyped
  DEF Work, BaseInv, TypeInv, FramesTyped, Threads, Alone, OwnInv, LedgerInv
<1>p. ~hedge.placing \/ Work.pc \in {"send", "sent"}
  BY <1>0 DEF ToldInv, SavedInv
<1>b. PlacementBegins("worker") => Work.pc = "place" /\ Work.snap.seen = {}
  BY <1>0 DEF PlacementBegins, At, OwnInv, PlaceInv, ListInv
<1>s. \A h \in Hedges :
        LET g == Placed("worker", h)
        IN  /\ g.placing = FALSE /\ g.entryOid = h.entryOid
            /\ g.slOid = h.slOid /\ g.entryFill = h.entryFill
            /\ g.cycles = h.cycles
  BY DEF Placed, Hedges
<1> USE DEF AheadPcs, PlacePcs, FillPcs, SlPcs
<1>1. ~PlaceSkipped("worker") /\ ~PlaceUnreadable("worker")
      /\ ~PlaceOversized("worker") /\ ~PlaceAdoptsOrder("worker")
  <2>1. ~PlaceSkipped("worker")
    <3>1. SUFFICES ASSUME PlaceSkipped("worker") PROVE FALSE
      OBVIOUS
    <3>2. Work.pc = "place" /\ hedge.status \in PlacementBlocked
      BY <1>0, <1>p, <3>1 DEF PlaceSkipped, At
    <3> QED BY <3>2 DEF OwnInv, PlaceInv, PlacementBlocked
  <2>2. ~PlaceUnreadable("worker")  BY DEF PlaceUnreadable, NoMishap
  <2>3. ~PlaceOversized("worker")
    <3>1. pos \in Nat /\ Size \in Nat  BY WorkTyped
    <3> QED BY <1>0, <3>1 DEF PlaceOversized
  <2>4. ~PlaceAdoptsOrder("worker")
    <3>1. SUFFICES ASSUME PlaceAdoptsOrder("worker") PROVE FALSE
      OBVIOUS
    <3>2. PlacementBegins("worker") /\ EntriesIn(Work.snap) # {}
      BY <1>0, <3>1 DEF PlaceAdoptsOrder
    <3> QED BY <1>b, <3>2 DEF EntriesIn
  <2> QED BY <2>1, <2>2, <2>3, <2>4
<1>2. CASE PlaceAdoptsPosition("worker")
  <2> DEFINE adopted == [hedge EXCEPT !.size = pos, !.entryOid = NoOid,
                                      !.confirmed = TRUE]
             g == [adopted EXCEPT !.status = "entry_filled_pending_sl"]
  <2>1. /\ PlacementBegins("worker") /\ Return("worker") /\ nextOid' = nextOid
    BY <1>2 DEF PlaceAdoptsPosition
  <2>2. MatchingSl(Work.snap, pos) = {}  BY <1>b, <2>1 DEF MatchingSl
  <2>3. Save(Placed("worker", g))
    BY <1>0, <1>2, <2>2 DEF PlaceAdoptsPosition
  <2>4. /\ g \in Hedges /\ g.entryOid = NoOid /\ g.slOid = hedge.slOid
        /\ g.entryFill = hedge.entryFill /\ g.cycles = hedge.cycles
    <3>1. pos \in Lots  BY PosInLots DEF BaseInv, TypeInv
    <3> QED BY <1>0, <3>1 DEF Hedges, Statuses
  <2> HIDE DEF g
  <2>5. /\ hedge' = Placed("worker", g) /\ row' = hedge'
        /\ cycleRows' = cycleRows
    BY <2>3, SavedRow
  <2>6. Forgets  BY <1>s, <2>1, <2>4, <2>5 DEF Forgets
  <2>7. Work'.pc = "idle"  BY <2>1, WorkReturns
  <2>8. ToldNow  BY <2>5 DEF ToldNow
  <2> QED BY <1>b, <2>1, <2>6, <2>7, <2>8, Tells
<1>3. CASE PlacePrepares("worker")
  <2>1. /\ PlacementBegins("worker") /\ Goto("worker", "send")
        /\ UNCHANGED <<cycleRows, nextOid>>
        /\ hedge' = [hedge EXCEPT !.entryOid = NoOid, !.slOid = NoOid,
                                  !.size = 0, !.confirmed = FALSE,
                                  !.entryFill = NoOid, !.placing = TRUE]
    BY <1>3 DEF PlacePrepares, tables, exchange
  <2>2. /\ hedge'.entryOid = NoOid /\ hedge'.slOid = NoOid
        /\ hedge'.entryFill = NoOid /\ hedge'.cycles = hedge.cycles
    BY <1>0, <2>1 DEF Hedges
  <2>3. Work'.pc = "send"  BY <2>1, WorkGoes
  <2>4. LiveSl' = NoOid /\ LiveEntry' = NoOid
    BY <1>0, <2>2, <2>3 DEF LiveSl, LiveEntry
  <2>5. Recalls  BY <2>1, <2>2, <2>4 DEF Recalls, Follows
  <2>6. ToldNow /\ MatchedInv'  BY <2>3 DEF ToldNow, Ahead, MatchedInv
  <2> QED BY <2>3, <2>5, <2>6, TellsAll
<1>4. CASE EntrySent("worker")
  <2>1. /\ Work.pc = "send" /\ nextOid' = nextOid + 1
        /\ run' = [run EXCEPT !["worker"].pc = "sent",
                              !["worker"].fill = [oid |-> nextOid, sz |-> 0]]
        /\ UNCHANGED <<hedge, cycleRows>>
    BY <1>0, <1>4 DEF EntrySent, Accepted, At, tables
  <2>2. Work'.pc = "sent" /\ Work'.fill = [oid |-> nextOid, sz |-> 0]
    BY <1>0, <2>1 DEF Frames, Work
  <2>3. LiveEntry' = nextOid /\ LiveSl' = LiveSl
    BY <1>0, <2>1, <2>2 DEF LiveSl, LiveEntry
  <2>4. Recalls  BY <2>1, <2>3 DEF Recalls, Follows
  <2>5. ToldNow /\ MatchedInv'  BY <2>2 DEF ToldNow, Ahead, MatchedInv
  <2> QED BY <2>2, <2>4, <2>5, TellsAll
<1>5. CASE EntryRefused("worker")
  <2> DEFINE h == [hedge EXCEPT !.placing = FALSE]
  <2>1. /\ Work.pc = "send" /\ Throw("worker", h)
        /\ nextOid > MaxOids /\ nextOid' = nextOid
    BY <1>0, <1>5 DEF EntryRefused, At, NoMishap
  <2>2. /\ h \in Hedges /\ ~h.placing /\ h.entryOid = hedge.entryOid
        /\ h.slOid = hedge.slOid /\ h.entryFill = hedge.entryFill
        /\ h.cycles = hedge.cycles
    BY <1>0 DEF Hedges
  <2> HIDE DEF h
  <2>3. /\ Work'.pc = "idle" /\ cycleRows' = cycleRows
        /\ hedge'.cycles = hedge.cycles /\ ~hedge'.placing
        /\ hedge'.entryOid = hedge.entryOid /\ hedge'.slOid = hedge.slOid
        /\ hedge'.entryFill = hedge.entryFill
    BY <1>0, <2>1, <2>2, ThrownTells, WorkReturns
  <2>4. LiveSl' = LiveSl /\ LiveEntry' = LiveEntry
    BY <1>0, <2>1, <2>3 DEF LiveSl, LiveEntry
  <2>5. Recalls  BY <2>1, <2>3, <2>4 DEF Recalls, Follows
  <2>6. CycleInv'  BY <2>5, RecallsKeep DEF ToldInv
  <2>7. SavedInv' /\ MatchedInv'
    BY <1>0, <2>1, <2>3 DEF SavedInv, MatchedInv
  <2> QED BY <2>6, <2>7 DEF ToldInv
<1>6. CASE EntryAcked("worker")
  <2> DEFINE h == [hedge EXCEPT !.entryOid = Work.fill.oid,
                                !.slOid = NoOid,
                                !.status = "entry_pending"]
  <2>1. /\ Work.pc = "sent" /\ nextOid' = nextOid /\ Return("worker")
        /\ Save(Placed("worker", h))
    BY <1>0, <1>6 DEF EntryAcked, At, exchange
  <2>2. hedge' = Placed("worker", h) /\ row' = hedge' /\ cycleRows' = cycleRows
    BY <2>1, SavedRow
  <2>3. /\ h.entryOid = Work.fill.oid /\ h.slOid = NoOid
        /\ h.entryFill = hedge.entryFill /\ h.cycles = hedge.cycles
        /\ h \in Hedges
    <3>1. Work.fill.oid \in Oids \cup {NoOid}
      BY <1>0 DEF Frames, Fills, NoFill
    <3> QED BY <1>0, <3>1 DEF Hedges, Statuses
  <2> HIDE DEF h
  <2>4. /\ hedge'.entryOid = Work.fill.oid /\ hedge'.slOid = NoOid
        /\ hedge'.entryFill = hedge.entryFill /\ hedge'.cycles = hedge.cycles
        /\ ~hedge'.placing
    BY <1>s, <2>2, <2>3
  <2>5. Work'.pc = "idle"  BY <2>1, WorkReturns
  <2>6. LiveSl' = NoOid /\ LiveEntry' = LiveEntry
    BY <1>0, <2>1, <2>4, <2>5 DEF LiveSl, LiveEntry
  <2>7. Recalls  BY <2>1, <2>2, <2>4, <2>6 DEF Recalls, Follows
  <2>8. ToldNow /\ MatchedInv'  BY <2>2, <2>5 DEF ToldNow, MatchedInv
  <2> QED BY <2>4, <2>7, <2>8, TellsAll
<1>7. CASE OversizeStops("worker")
  <2>1. /\ Work.pc = "oversize" /\ nextOid' = nextOid /\ Return("worker")
        /\ \/ Save(SetStatus("error"))
           \/ Save(Placed("worker", SetStatus("error")))
    BY <1>0, <1>7 DEF OversizeStops, At
  <2>2. /\ row' = hedge' /\ cycleRows' = cycleRows
        /\ \/ hedge' = SetStatus("error")
           \/ hedge' = Placed("worker", SetStatus("error"))
    BY <2>1, SavedRow
  <2>3. /\ SetStatus("error") \in Hedges
        /\ SetStatus("error").entryOid = hedge.entryOid
        /\ SetStatus("error").slOid = hedge.slOid
        /\ SetStatus("error").entryFill = hedge.entryFill
        /\ SetStatus("error").cycles = hedge.cycles
        /\ SetStatus("error").placing = hedge.placing
    BY <1>0 DEF SetStatus, Hedges, Statuses
  <2>4. Forgets  BY <1>s, <2>1, <2>2, <2>3 DEF Forgets
  <2>5. Work'.pc = "idle"  BY <2>1, WorkReturns
  <2>6. ToldNow  BY <2>2 DEF ToldNow
  <2> QED BY <2>1, <2>4, <2>5, <2>6, Tells
<1> QED BY <1>1, <1>2, <1>3, <1>4, <1>5, <1>6, <1>7 DEF Placement

LEMMA MonitorTells ==
    ASSUME OrderlyInv, ToldInv, NoMishap, Alone, SureSaves, Monitor("worker")
    PROVE  ToldInv'
<1> USE DEF OrderlyInv
<1>0. /\ hedge \in Hedges /\ Work = run["worker"] /\ nextOid \in Nat
      /\ run \in [Threads -> Frames] /\ "worker" \in Threads
      /\ Creation' = Creation
  BY WorkTyped DEF Work, BaseInv, TypeInv, FramesTyped, Threads, Alone
<1>h. \A h : Save(h) => hedge' = h /\ row' = h /\ cycleRows' = cycleRows
  BY SavedRow
<1> USE DEF AheadPcs, PlacePcs, FillPcs, SlPcs
<1>1. CASE TickWaits("worker") \/ PendingSlGrace("worker")
           \/ ProtectedHolds("worker") \/ ProtectedLost("worker")
  <2>1. /\ Work.pc \in {"entryTick", "waitingTick", "pendingSlNext",
                        "protectedNext"}
        /\ nextOid' = nextOid /\ hedge' = hedge /\ row' = hedge'
        /\ cycleRows' = cycleRows
    BY <1>0, <1>1, <1>h
    DEF TickWaits, PendingSlGrace, ProtectedHolds, ProtectedLost, At, exchange
  <2>2. Work'.pc \in {"idle", "exitFills"}
    <3>1. \/ Return("worker")
          \/ run' = [run EXCEPT !["worker"].pc = "exitFills",
                                !["worker"].then = "protect"]
      BY <1>1 DEF TickWaits, PendingSlGrace, ProtectedHolds, ProtectedLost
    <3> QED BY <1>0, <3>1, WorkReturns DEF Frames, Work
  <2>3. Forgets /\ ToldNow  BY <2>1 DEF Forgets, ToldNow
  <2> QED BY <2>1, <2>2, <2>3, Tells
<1>2. CASE WaitingRetried("worker") \/ PositionGone("worker")
  <2>1. /\ Work.pc \in {"waitingTick", "pendingSlTick", "closingTick",
                        "protectedTick"}
        /\ UNCHANGED <<hedge, row, cycleRows, nextOid>>
    BY <1>0, <1>2
    DEF WaitingRetried, PositionGone, PositionTick, At, tables, exchange
  <2>2. Work'.pc \in {"place", "exitFills"}
    <3>1. \/ run' = [run EXCEPT !["worker"].pc = "place",
                                !["worker"].onThrow = "retry"]
          \/ run' = [run EXCEPT !["worker"].pc = "exitFills",
                                !["worker"].then = "complete"]
      BY <1>2 DEF WaitingRetried, PositionGone
    <3> QED BY <1>0, <3>1 DEF Frames, Work
  <2>3. Forgets /\ ToldNow  BY <2>1 DEF Forgets, ToldNow, Ahead
  <2> QED BY <2>1, <2>2, <2>3, Tells
<1>3. CASE EntryChecked("worker")
  <2>1. /\ Work.pc = "entryTick" /\ hedge' = hedge
        /\ UNCHANGED <<row, cycleRows, nextOid>>
        /\ Work'.pc \in {"place", "rescue", "entryFills"}
    BY <1>0, <1>3, EntryCheckedGoes
  <2>2. Forgets /\ ToldNow  BY <2>1 DEF Forgets, ToldNow, Ahead
  <2> QED BY <2>1, <2>2, Tells
<1>4. ~PositionUnreadable("worker")  BY DEF PositionUnreadable, NoMishap
<1>5. CASE PositionOversized("worker") \/ PositionSeen("worker")
           \/ ClosingRetried("worker")
  <2>1. /\ Work.pc \in {"pendingSlTick", "protectedTick", "closingTick"}
        /\ UNCHANGED <<row, cycleRows, nextOid>>
        /\ hedge' = [hedge EXCEPT !.size = pos]
    BY <1>0, <1>5
    DEF PositionOversized, PositionSeen, ClosingRetried, At, tables, exchange
  <2>2. /\ Forgets /\ hedge'.status = hedge.status
        /\ hedge'.entryOid = hedge.entryOid /\ hedge'.slOid = hedge.slOid
    BY <1>0, <2>1 DEF Forgets, Hedges
  <2>3. Work'.pc \in {"oversize", "pendingSlNext", "protectedNext", "close"}
    <3>1. \/ Goto("worker", "oversize") \/ Goto("worker", "pendingSlNext")
          \/ Goto("worker", "protectedNext")
          \/ run' = [run EXCEPT !["worker"].pc = "close",
                       !["worker"].pos = pos, !["worker"].then = "save"]
      BY <1>5 DEF PositionOversized, PositionSeen, ClosingRetried
    <3> QED BY <1>0, <3>1, WorkGoes DEF Frames, Work
  <2>4. ToldNow  BY <2>1, <2>2 DEF ToldNow, Ahead
  <2> QED BY <2>1, <2>2, <2>3, <2>4, Tells
<1>6. CASE PendingSlFound("worker") \/ PendingSlBreached("worker")
           \/ ClosingAwaited("worker") \/ ProtectedBreached("worker")
  <2>1. /\ Work.pc \in {"pendingSlNext", "closingTick", "protectedNext"}
        /\ nextOid' = nextOid /\ row' = hedge' /\ cycleRows' = cycleRows
        /\ \/ \E s : hedge' = SetStatus(s)
           \/ hedge' = [hedge EXCEPT !.size = pos]
           \/ hedge' = [hedge EXCEPT !.status = "closing", !.slOid = NoOid]
    BY <1>0, <1>6, <1>h
    DEF PendingSlFound, PendingSlBreached, ClosingAwaited, ProtectedBreached,
        At, exchange
  <2>2. Forgets  BY <1>0, <2>1 DEF Forgets, SetStatus, Hedges
  <2>3. Work'.pc \in {"idle", "close"}
    <3>1. \/ Return("worker")
          \/ run' = [run EXCEPT !["worker"].pc = "close",
                                !["worker"].pos = hedge.size]
      BY <1>6
      DEF PendingSlFound, PendingSlBreached, ClosingAwaited, ProtectedBreached
    <3> QED BY <1>0, <3>1, WorkReturns DEF Frames, Work
  <2>4. ToldNow  BY <2>1 DEF ToldNow
  <2> QED BY <2>1, <2>2, <2>3, <2>4, Tells
<1>7. CASE PendingSlRetried("worker")
  <2> DEFINE tried == [hedge EXCEPT !.slRetry = @ + 1]
             failed == [tried EXCEPT !.status = "error"]
  <2>1. /\ Work.pc = "pendingSlNext" /\ nextOid' = nextOid
        /\ \/ /\ hedge' = tried /\ UNCHANGED tables
              /\ run' = [run EXCEPT !["worker"].pc = "sl",
                                    !["worker"].onThrow = "keep"]
           \/ Save(failed) /\ Return("worker")
    BY <1>0, <1>7 DEF PendingSlRetried, At, exchange
  <2>2. Forgets
    <3>1. hedge' = tried \/ hedge' = failed  BY <2>1, SavedRow
    <3>2. cycleRows' = cycleRows  BY <2>1, SavedRow DEF tables
    <3> QED BY <1>0, <2>1, <3>1, <3>2 DEF Forgets, Hedges
  <2>3. \/ Work'.pc = "sl" /\ Work'.onThrow = "keep"
        \/ Work'.pc = "idle" /\ row' = hedge'
    <3>1. CASE run' = [run EXCEPT !["worker"].pc = "sl",
                                  !["worker"].onThrow = "keep"]
      BY <1>0, <3>1 DEF Frames, Work
    <3>2. CASE Save(failed) /\ Return("worker")
      BY <3>2, SavedRow, WorkReturns
    <3> QED BY <2>1, <3>1, <3>2
  <2>4. ToldNow  BY <2>3 DEF ToldNow, Ahead
  <2>5. Work'.pc \in {"sl", "idle"}  BY <2>3
  <2> QED BY <2>1, <2>2, <2>4, <2>5, Tells
<1> QED BY <1>1, <1>2, <1>3, <1>4, <1>5, <1>6, <1>7 DEF Monitor

LEMMA CancellationTells ==
    ASSUME OrderlyInv, ToldInv, NoMishap, Alone, SureSaves,
           Cancellation("worker")
    PROVE  ToldInv'
<1> USE DEF OrderlyInv
<1>0. /\ hedge \in Hedges /\ Work = run["worker"] /\ nextOid \in Nat
      /\ run \in [Threads -> Frames] /\ "worker" \in Threads
  BY WorkTyped DEF Work, BaseInv, TypeInv, FramesTyped, Threads
<1>h. \A h : Save(h) => hedge' = h /\ row' = h /\ cycleRows' = cycleRows
  BY SavedRow
<1>1. /\ Work.pc \in CancelPcs \cup {"cancel"} /\ nextOid' = nextOid
  BY <1>0
  DEF Cancellation, CancelBegins, CancelTick, CancelTimedOut, CancelReads,
      CancelOrders, CancelCloses, CancelConfirmsOrders, CancelConfirmsPos,
      CancelDone, CancelPostponed, At, exchange, CancelPcs
<1>2. Forgets /\ ToldNow
  <2>1. CASE CancelBegins("worker") \/ CancelTimedOut("worker")
             \/ CancelDone("worker") \/ CancelPostponed("worker")
    <3>1. /\ row' = hedge' /\ cycleRows' = cycleRows
          /\ \/ \E s : hedge' = SetStatus(s)
             \/ hedge' = hedge
             \/ hedge' = [hedge EXCEPT !.status = "cancelled",
                                       !.entryOid = NoOid, !.slOid = NoOid]
      BY <2>1, <1>h
      DEF CancelBegins, CancelTimedOut, CancelDone, CancelPostponed
    <3> QED BY <1>0, <1>1, <3>1 DEF Forgets, ToldNow, SetStatus, Hedges
  <2>2. CASE CancelTick("worker") \/ CancelReads("worker")
             \/ CancelOrders("worker") \/ CancelCloses("worker")
             \/ CancelConfirmsOrders("worker") \/ CancelConfirmsPos("worker")
    <3>1. UNCHANGED <<hedge, row, cycleRows>>
      BY <2>2
      DEF CancelTick, CancelReads, CancelOrders, CancelCloses,
          CancelConfirmsOrders, CancelConfirmsPos, tables
    <3>2. ~Ahead
      BY <1>1
      DEF Ahead, AheadPcs, PlacePcs, FillPcs, SlPcs, CancelPcs
    <3> QED BY <1>1, <3>1, <3>2 DEF Forgets, ToldNow
  <2> QED BY <2>1, <2>2 DEF Cancellation
<1>3. Work'.pc \in CancelPcs \cup {"idle"}
  <2>1. \/ Return("worker")
        \/ \E p \in CancelPcs : Goto("worker", p)
        \/ \E x, s : run' = [run EXCEPT !["worker"].pc = "cancelOrders",
                               !["worker"].pos = x, !["worker"].snap = s]
    BY DEF Cancellation, CancelBegins, CancelTick, CancelTimedOut,
           CancelReads, CancelOrders, CancelCloses, CancelConfirmsOrders,
           CancelConfirmsPos, CancelDone, CancelPostponed, CancelPcs
  <2>2. CASE Return("worker")  BY <2>2, WorkReturns
  <2>3. CASE \E p \in CancelPcs : Goto("worker", p)  BY <2>3, WorkGoes
  <2>4. CASE \E x, s : run' = [run EXCEPT !["worker"].pc = "cancelOrders",
                                 !["worker"].pos = x, !["worker"].snap = s]
    BY <1>0, <2>4 DEF Frames, Work, CancelPcs
  <2> QED BY <2>1, <2>2, <2>3, <2>4
<1> QED BY <1>1, <1>2, <1>3, Tells DEF CancelPcs

LEMMA OperationTells ==
    ASSUME OrderlyInv, ToldInv, NoMishap, Alone, SureSaves, Operation("worker")
    PROVE  ToldInv'
<1> USE DEF OrderlyInv
<1>0. /\ hedge \in Hedges /\ Work = run["worker"] /\ nextOid \in Nat
      /\ run \in [Threads -> Frames] /\ "worker" \in Threads
  BY WorkTyped DEF Work, BaseInv, TypeInv, FramesTyped, Threads
<1>h. \A h : Save(h) => hedge' = h /\ row' = h /\ cycleRows' = cycleRows
  BY SavedRow
<1>1. /\ Work.pc \in {"retarget", "exit", "entryTrigger", "exitTrigger"}
      /\ nextOid' = nextOid /\ cycleRows' = cycleRows
      /\ row' = hedge' \/ (hedge' = hedge /\ row' = row)
      /\ \/ hedge' = hedge
         \/ hedge' = [hedge EXCEPT !.entryOid = NoOid, !.status = "waiting"]
         \/ hedge' = [hedge EXCEPT !.slOid = NoOid,
                                   !.status = "entry_filled_pending_sl"]
         \/ hedge' = [hedge EXCEPT !.slOid = NoOid, !.status = "closing"]
  <2>1. CASE Retargets("worker")
    BY <1>0, <1>h, <2>1 DEF Retargets, At
  <2>2. CASE MovesExit("worker")
    BY <1>0, <1>h, <2>2 DEF MovesExit, At
  <2>3. CASE RequestFails("worker") \/ EntryTriggered("worker")
    BY <1>0, <2>3
    DEF RequestFails, EntryTriggered, At, tables, exchange
  <2>4. CASE ExitTriggered("worker")
    BY <1>0, <1>h, <2>4 DEF ExitTriggered, At, tables
  <2> QED BY <2>1, <2>2, <2>3, <2>4 DEF Operation
<1>2. Forgets  BY <1>0, <1>1 DEF Forgets, Hedges
<1>3. ToldNow
  BY <1>1 DEF ToldNow, Ahead, AheadPcs, PlacePcs, FillPcs, SlPcs
<1>4. Work'.pc \in {"idle", "place", "sl", "exitRead", "rescue"}
  <2>1. \/ Return("worker") \/ Goto("worker", "place")
        \/ Goto("worker", "sl") \/ Goto("worker", "exitRead")
        \/ run' = [run EXCEPT !["worker"].pc = "rescue",
                              !["worker"].then = "unlisted"]
    BY DEF Operation, Retargets, MovesExit, RequestFails, EntryTriggered,
           ExitTriggered
  <2> QED BY <1>0, <2>1, WorkReturns, WorkGoes DEF Frames, Work
<1> QED BY <1>1, <1>2, <1>3, <1>4, Tells

\* createHedge saves its first order, which no cycle tells of.
LEMMA CreatorTells ==
    ASSUME OrderlyInv, ToldInv, NoMishap, SureSaves, Runs("creator")
    PROVE  ToldInv'
<1> USE DEF OrderlyInv
<1>0. /\ hedge \in Hedges /\ Creation \in Frames /\ pos \in Nat
      /\ Size \in Nat \ {0} /\ nextOid \in Nat /\ MaxOids \in Nat
      /\ run \in [Threads -> Frames] /\ Creation = run["creator"]
      /\ "creator" \in Threads
  BY WorkTyped, TellsTyped
  DEF Creation, BaseInv, TypeInv, FramesTyped, Threads
<1>1. Placement("creator")  BY CreatorPlaces DEF BaseInv, FirstInv
<1>2. Work' = Work
  BY <1>1, PlacementMoves DEF Moves, Work, Threads, BaseInv
<1>3. Creation.pc # "idle" /\ Work.pc \notin {"entryTick", "waitingTick"}
  BY <1>0, <1>1
  DEF Placement, PlaceSkipped, PlaceUnreadable, PlaceOversized,
      PlaceAdoptsPosition, PlaceAdoptsOrder, PlacePrepares, PlacementBegins,
      EntrySent, EntryRefused, EntryAcked, OversizeStops, At, TickBlock, Work
<1>4. /\ Creation.pc \in {"placing", "send", "sent"}
      /\ hedge.placing /\ hedge.entryOid = NoOid /\ hedge.slOid = NoOid
      /\ Creation.snap = NoOrders /\ Work.pc = "idle"
      /\ Creation.pc = "placing" => pos = 0
  BY <1>3 DEF CreatorInv
<1>5. LiveSl = hedge.slOid /\ LiveSl' = hedge'.slOid
  BY <1>2, <1>4 DEF LiveSl
<1>6. MatchedInv'  BY <1>2, <1>4 DEF MatchedInv
<1>7. PlacementBegins("creator") => Creation.pc = "placing"
  BY <1>0, <1>4 DEF PlacementBegins, At
<1>8. CASE PlacePrepares("creator")
  <2>1. /\ Creation.pc = "placing" /\ Goto("creator", "send")
        /\ UNCHANGED <<cycleRows, nextOid>>
        /\ hedge' = [hedge EXCEPT !.entryOid = NoOid, !.slOid = NoOid,
                                  !.size = 0, !.confirmed = FALSE,
                                  !.entryFill = NoOid, !.placing = TRUE]
    BY <1>7, <1>8 DEF PlacePrepares, tables, exchange
  <2>2. /\ hedge'.entryOid = NoOid /\ hedge'.slOid = NoOid
        /\ hedge'.entryFill = NoOid /\ hedge'.cycles = hedge.cycles
    BY <1>0, <2>1 DEF Hedges
  <2>3. Creation'.pc = "send"
    BY <1>0, <2>1 DEF Goto, Creation, Frames
  <2>4. LiveEntry' = NoOid /\ LiveSl' = NoOid
    BY <1>2, <1>4, <1>5, <2>2, <2>3 DEF LiveEntry
  <2>5. Recalls  BY <2>1, <2>2, <2>4 DEF Recalls, Follows
  <2>6. CycleInv'  BY <2>5, RecallsKeep DEF ToldInv
  <2> QED BY <1>6, <2>3, <2>6 DEF ToldInv, SavedInv
<1>9. CASE EntrySent("creator")
  <2>1. /\ Creation.pc = "send" /\ nextOid' = nextOid + 1
        /\ run' = [run EXCEPT !["creator"].pc = "sent",
                              !["creator"].fill = [oid |-> nextOid, sz |-> 0]]
        /\ UNCHANGED <<hedge, cycleRows>>
    BY <1>0, <1>9 DEF EntrySent, Accepted, At, tables
  <2>2. Creation'.pc = "sent" /\ Creation'.fill = [oid |-> nextOid, sz |-> 0]
    BY <1>0, <2>1 DEF Frames, Creation
  <2>3. LiveEntry' = nextOid /\ LiveSl' = LiveSl
    BY <1>5, <2>1, <2>2 DEF LiveEntry
  <2>4. Recalls  BY <2>1, <2>3 DEF Recalls, Follows
  <2>5. CycleInv'  BY <2>4, RecallsKeep DEF ToldInv
  <2> QED BY <1>6, <2>2, <2>5 DEF ToldInv, SavedInv
<1>10. CASE EntryRefused("creator")
  <2> DEFINE h == [hedge EXCEPT !.placing = FALSE]
  <2>1. /\ Creation.pc = "send" /\ Throw("creator", h)
        /\ nextOid > MaxOids /\ nextOid' = nextOid
    BY <1>0, <1>10 DEF EntryRefused, At, NoMishap
  <2>2. /\ h \in Hedges /\ h.placing = FALSE /\ h.entryOid = hedge.entryOid
        /\ h.slOid = hedge.slOid /\ h.entryFill = hedge.entryFill
        /\ h.cycles = hedge.cycles
    BY <1>0 DEF Hedges
  <2> HIDE DEF h
  <2>3. /\ Return("creator") /\ cycleRows' = cycleRows
        /\ hedge'.cycles = hedge.cycles /\ hedge'.placing = FALSE
        /\ hedge'.entryOid = hedge.entryOid /\ hedge'.slOid = hedge.slOid
        /\ hedge'.entryFill = hedge.entryFill
    BY <1>0, <2>1, <2>2, ThrownTells
  <2>4. Creation'.pc = "idle"
    BY <1>0, <2>3, FrameIdle DEF Return, Creation
  <2>5. LiveEntry' = LiveEntry /\ LiveSl' = LiveSl
    BY <1>2, <1>4, <1>5, <2>1, <2>3, <2>4 DEF LiveEntry
  <2>6. Recalls  BY <2>1, <2>3, <2>5 DEF Recalls, Follows
  <2>7. CycleInv'  BY <2>6, RecallsKeep DEF ToldInv
  <2>8. SavedInv'  BY <1>0, <2>1, <2>3 DEF SavedInv
  <2> QED BY <1>6, <2>7, <2>8 DEF ToldInv
<1>11. CASE EntryAcked("creator")
  <2> DEFINE h == [hedge EXCEPT !.entryOid = Creation.fill.oid,
                                !.slOid = NoOid, !.status = "entry_pending"]
  <2>1. /\ Creation.pc = "sent" /\ nextOid' = nextOid /\ Return("creator")
        /\ Save(Placed("creator", h))
    BY <1>0, <1>11 DEF EntryAcked, At, exchange
  <2>2. /\ hedge' = Placed("creator", h) /\ row' = hedge'
        /\ cycleRows' = cycleRows
    BY <2>1, SavedRow
  <2>3. /\ Placed("creator", h).entryOid = Creation.fill.oid
        /\ Placed("creator", h).slOid = NoOid
        /\ Placed("creator", h).entryFill = hedge.entryFill
        /\ Placed("creator", h).cycles = hedge.cycles
        /\ Placed("creator", h).placing = FALSE
    BY <1>0 DEF Placed, Hedges
  <2> HIDE DEF h
  <2>4. /\ hedge'.entryOid = Creation.fill.oid /\ hedge'.slOid = NoOid
        /\ hedge'.entryFill = hedge.entryFill /\ hedge'.cycles = hedge.cycles
        /\ hedge'.placing = FALSE
    BY <2>2, <2>3
  <2>5. Creation'.pc = "idle"
    BY <1>0, <2>1, FrameIdle DEF Return, Creation
  <2>6. LiveEntry' = LiveEntry /\ LiveSl' = NoOid
    BY <1>2, <1>4, <1>5, <2>1, <2>4, <2>5 DEF LiveEntry
  <2>7. Recalls  BY <2>1, <2>2, <2>4, <2>6 DEF Recalls, Follows
  <2>8. CycleInv'  BY <2>7, RecallsKeep DEF ToldInv
  <2>9. SavedInv'  BY <2>2, <2>4 DEF SavedInv, RowSays
  <2> QED BY <1>6, <2>8, <2>9 DEF ToldInv
<1>12. /\ ~PlaceSkipped("creator") /\ ~OversizeStops("creator")
       /\ ~PlaceUnreadable("creator")
  BY <1>0, <1>4 DEF PlaceSkipped, OversizeStops, PlaceUnreadable, NoMishap, At
<1>13. ~PlaceOversized("creator") /\ ~PlaceAdoptsPosition("creator")
  <2>1. PlacementBegins("creator") => pos = 0  BY <1>4, <1>7
  <2>2. ~PlaceOversized("creator")  BY <1>0, <2>1 DEF PlaceOversized
  <2>3. ~(pos = 0 /\ pos \in 1 .. Size)  BY <1>0
  <2> QED BY <2>1, <2>2, <2>3 DEF PlaceAdoptsPosition
<1>14. ~PlaceAdoptsOrder("creator")
  BY <1>0, <1>4, <1>7 DEF PlaceAdoptsOrder, EntriesIn, NoOrders
<1> QED BY <1>1, <1>8, <1>9, <1>10, <1>11, <1>12, <1>13, <1>14
        DEF Placement

\* A step that neither changes the hedge and its rows nor puts the worker where
\* something is on its way tells nothing.
LEMMA StillTold ==
    ASSUME OrderlyInv, ToldInv, UNCHANGED <<hedge, row, cycleRows, nextOid>>,
           Creation' = Creation,
           \/ Work' = Work
           \/ /\ Work'.pc = "entryFill" => Work'.fill.oid = hedge.entryOid
              /\ Work'.pc = "slFill" => Work'.fill.oid = hedge.slOid
              /\ Work.pc = "idle"
              /\ Work'.pc \notin {"sent", "iocSent", "slSent", "finalize"}
    PROVE  ToldInv'
<1>1. LiveEntry' = LiveEntry /\ LiveSl' = LiveSl
  BY DEF LiveEntry, LiveSl
<1>2. CycleInv'  BY <1>1 DEF ToldInv, CycleInv
<1>3. MatchedInv'  BY DEF ToldInv, MatchedInv
<1>4. CASE Work' = Work
  <2>1. SavedInv'  BY <1>4 DEF ToldInv, SavedInv, RowSays, Ahead
  <2> QED BY <1>2, <1>3, <2>1 DEF ToldInv
<1>5. CASE Work.pc = "idle"
  <2>1. ~Ahead
    BY <1>5 DEF Ahead, AheadPcs, PlacePcs, FillPcs, SlPcs
  <2>2. SavedInv'  BY <1>5, <2>1 DEF ToldInv, SavedInv, RowSays
  <2> QED BY <1>2, <1>3, <2>2 DEF ToldInv
<1> QED BY <1>4, <1>5

LEMMA JobStartsTells ==
    ASSUME OrderlyInv, ToldInv, Overlaps = {}, JobStarts
    PROVE  ToldInv'
<1> USE DEF OrderlyInv
<1> DEFINE job == Head(queue)
<1>0. /\ hedge.status \in Statuses /\ queue \in Seq(Jobs) /\ queue # <<>>
      /\ job \in Jobs /\ UNCHANGED <<hedge, row, cycleRows, nextOid>>
  BY DEF BaseInv, TypeInv, HedgeTyped, Hedges, QueueTyped, JobStarts, exchange,
         tables
<1>1. /\ Work.pc = "idle" /\ Creation' = Creation
      /\ Work'.pc = IF job.kind = "tick" THEN TickPc[hedge.status] ELSE job.kind
      /\ Work'.pc # "idle" => Work'.fill = job.fill
  BY JobFrame
<1>2. job = queue[1] /\ 1 \in DOMAIN queue  BY <1>0
<1> HIDE DEF job
<1>3. /\ job.kind = "entryFill" => job.fill.oid = hedge.entryOid
      /\ job.kind = "slFill" => job.fill.oid = hedge.slOid
  BY <1>2 DEF WaitingInv, FillWaits
<1>4. CASE job.kind = "tick"
  <2>1. Work'.pc \notin {"entryFill", "slFill", "sent", "iocSent", "slSent",
                         "finalize"}
    BY <1>0, <1>1, <1>4, TickHandlers DEF Statuses
  <2> QED BY <1>0, <1>1, <2>1, StillTold
<1>5. CASE job.kind # "tick"
  <2>1. Work'.pc = job.kind  BY <1>1, <1>5
  <2>2. Work'.pc \notin {"sent", "iocSent", "slSent", "finalize"}
    BY <1>0, <1>5, <2>1 DEF Jobs, UserJobs
  <2>3. /\ Work'.pc = "entryFill" => Work'.fill.oid = hedge.entryOid
        /\ Work'.pc = "slFill" => Work'.fill.oid = hedge.slOid
    BY <1>1, <1>3, <2>1
  <2> QED BY <1>0, <1>1, <2>2, <2>3, StillTold
<1> QED BY <1>4, <1>5

\* Every step of a thread.
LEMMA RunsTells ==
    ASSUME OrderlyInv, ToldInv, NoMishap, SureSaves, NEW t \in Threads, Runs(t)
    PROVE  ToldInv'
<1>1. CASE t = "creator"  BY <1>1, CreatorTells
<1>2. CASE t = "worker" /\ Creation.pc # "idle"
  <2>1. TickWaits("worker") /\ Creation' = Creation
    BY <1>2, WorkerOnlyWaits
  <2>2. /\ hedge' = hedge /\ UNCHANGED <<cycleRows, nextOid>>
        /\ Return("worker") /\ Work.pc \in {"idle", "entryTick"}
    <3>1. Save(hedge) /\ UNCHANGED nextOid /\ Return("worker")
      BY <2>1 DEF TickWaits, exchange
    <3> QED BY <1>2, <3>1, SavedRow DEF OrderlyInv, CreatorInv
  <2>3. Work'.pc = "idle"  BY <2>2, WorkReturns DEF OrderlyInv
  <2>4. LiveEntry' = LiveEntry /\ LiveSl' = LiveSl
    BY <2>1, <2>2, <2>3 DEF LiveEntry, LiveSl
  <2>5. SavedInv' /\ MatchedInv'
    BY <1>2, <2>1, <2>3 DEF SavedInv, MatchedInv
  <2>6. CycleInv'  BY <2>2, <2>4 DEF ToldInv, CycleInv
  <2> QED BY <2>5, <2>6 DEF ToldInv
<1>3. CASE t = "worker" /\ Creation.pc = "idle"
  <2>1. Alone
    <3>1. Creation' = Creation
      BY <1>3, RunsMoves DEF Moves, Creation, Threads, OrderlyInv, BaseInv
    <3>2. UNCHANGED <<queue, tick>>  BY RunsQueue
    <3> QED BY <1>3, <3>1, <3>2, WorkerBusy DEF Alone
  <2> QED BY <1>3, <2>1, PlacementTells, StopLossTells, EntryFillTells,
             CycleEndTells, RescueTells, MonitorTells, CancellationTells,
             OperationTells
          DEF Runs
<1> QED BY <1>1, <1>2, <1>3 DEF Threads

LEMMA ToldInit == Init => ToldInv
<1> SUFFICES ASSUME Init PROVE ToldInv
  OBVIOUS
<1>1. Work.pc = "idle" /\ Creation.pc = "placing"
  BY DEF Init, Work, Creation, Frame, Threads
<1>2. /\ hedge.entryOid = NoOid /\ hedge.slOid = NoOid
      /\ hedge.entryFill = NoOid /\ cycleRows = {} /\ nextOid = 1
  BY DEF Init, NewHedge
<1>3. SavedInv /\ MatchedInv  BY <1>1 DEF SavedInv, MatchedInv
<1>4. CycleInv  BY <1>1, <1>2 DEF CycleInv, LiveEntry, LiveSl, NoOid
<1> QED BY <1>3, <1>4 DEF ToldInv

LEMMA ToldStep ==
    ASSUME Overlaps = {}, SureSaves, OrderlyInv, ToldInv, NoMishap, [Next]_vars
    PROVE  ToldInv'
<1>1. CASE \E t \in Threads : Runs(t)  BY <1>1, RunsTells
<1>2. CASE JobStarts  BY <1>2, JobStartsTells
<1>3. CASE \/ Exchange \/ FillArrives \/ PriceArrives
           \/ TickReads \/ TickQueued
           \/ (\E kind \in Requests : Requested(kind)) \/ UNCHANGED vars
  <2>1. UNCHANGED <<hedge, row, cycleRows>>  BY <1>3, Unmoved
  <2>2. UNCHANGED <<run, nextOid>>
    BY <1>3
    DEF Exchange, EntryFires, StopLossFires, StopLossLapses, ClosedOutside,
        FillArrives, PriceArrives, TickReads, TickQueued, Requested, exchange,
        vars
  <2>3. Work' = Work /\ Creation' = Creation  BY <2>2 DEF Work, Creation
  <2> QED BY <2>1, <2>2, <2>3, StillTold
<1>4. ~FillLost /\ ~Crash  BY DEF FillLost, Crash, NoMishap
<1> QED BY <1>1, <1>2, <1>3, <1>4 DEF Next

RowInv == TidyInv /\ (Untroubled => ToldInv)

LEMMA RowAlways ==
    ASSUME Overlaps = {}, SureSaves
    PROVE  Spec => []RowInv
<1>1. Init => (Untroubled => ToldInv)  BY ToldInit
<1>2. TidyInv /\ (Untroubled => ToldInv) /\ [Next]_vars
        => (Untroubled => ToldInv)'
  <2> SUFFICES ASSUME TidyInv, Untroubled => ToldInv, [Next]_vars, Untroubled'
               PROVE  ToldInv'
    OBVIOUS
  <2>1. Untroubled /\ NoMishap  BY BudgetStep DEF TidyInv
  <2> QED BY <2>1, ToldStep DEF TidyInv
<1>3. Spec => []TidyInv  BY TidyAlways
<1> QED BY <1>1, <1>2, <1>3, PTL DEF Spec, RowInv

\* With no event overtaken, as long as nothing has gone wrong, and when every
\* save succeeds (Save lets one fail only where a restart can tell), the row of
\* a hedge at rest says what its object does: every path of every handler ends
\* in _save, and neither unique index ever refuses a cycle.
THEOREM QuietIsSavedTheorem ==
    ASSUME Overlaps = {}, "crash" \notin Mishaps
    PROVE  Spec => []QuietIsSaved
<1>1. RowInv => QuietIsSaved
  <2> SUFFICES ASSUME RowInv, Quiescent, Untroubled, nextOid <= MaxOids
               PROVE  RowSays
    BY DEF QuietIsSaved, Untroubled, RowSays
  <2>1. Work.pc = "idle" /\ Creation.pc = "idle"
    BY DEF Quiescent, Work, Creation, Threads
  <2>2. ~Ahead  BY <2>1 DEF Ahead, AheadPcs, PlacePcs, FillPcs, SlPcs
  <2> QED BY <2>1, <2>2 DEF RowInv, ToldInv, SavedInv
<1>2. SureSaves  BY DEF SureSaves
<1> QED BY <1>1, <1>2, RowAlways, PTL

=============================================================================
