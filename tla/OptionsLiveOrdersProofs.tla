---------------------- MODULE OptionsLiveOrdersProofs ----------------------
(***************************************************************************)
(* Proofs about the ledger of option orders, for any senders, workers and  *)
(* bounds: no order is sent twice, the pilot buys once, no take-profit of  *)
(* a position is sent once its exit is asked for, no position is sold      *)
(* twice, and every difference with Binance is one of orders still alive.  *)
(***************************************************************************)
EXTENDS OptionsLiveOrders, TLAPS, SequenceTheorems, FiniteSetTheorems, WellFoundedInduction

\* A sequence, whatever its elements.
IsList(f) == \E n \in Nat : f = [i \in 1 .. n |-> f[i]]

OrderFields == {"batch", "act", "tp", "pos", "qty", "st", "cancel", "late", "booked", "lease"}
ExFields == {"st", "fills", "posts"}
SenderFields == {"pc", "act", "legs", "net", "todo", "ans"}

\* Rows, Binance's records and calls have their fields; ids are shared.
Shape ==
    /\ IsList(order) /\ IsList(ex) /\ Len(ex) = Len(order)
    /\ \A o \in Ids : OrderFields \subseteq DOMAIN order[o] /\ order[o].cancel \in BOOLEAN
    /\ \A o \in Ids : ExFields \subseteq DOMAIN ex[o] /\ ex[o].posts \in Nat
    /\ DOMAIN snd = Senders
    /\ \A s \in Senders : SenderFields \subseteq DOMAIN snd[s]
    /\ IsFiniteSet(Positions)

\* What a call is to send is in the ledger.
Sending(s) == snd[s].pc \in {"next", "post", "settle"}
TodoInv ==
    \A s \in Senders :
        /\ IsList(snd[s].legs)
        /\ snd[s].pc = "begin" /\ snd[s].act = "close" => Len(snd[s].legs) > 0
        /\ Sending(s) => snd[s].todo \in Seq(Ids) /\ Len(snd[s].todo) > 0

\* An order that may still be sent was never sent, and nobody is sending it;
\* no two calls send the same one.
Fresh(o) == order[o].st = "queued" /\ ~order[o].cancel
Posting(s, o) == snd[s].pc \in {"post", "settle"} /\ Head(snd[s].todo) = o
PostInv ==
    /\ \A o \in Ids : Fresh(o) => ex[o].posts = 0 /\ \A s \in Senders : ~Posting(s, o)
    /\ \A s \in Senders : snd[s].pc = "post" => ex[Head(snd[s].todo)].posts = 0
    /\ \A o \in Ids, s, t \in Senders : Posting(s, o) /\ Posting(t, o) => s = t
    /\ PostedOnce

\* One entry is saved, ever.
OneOpen == \A o, p \in Opens : o = p

LedgerInv == Shape /\ TodoInv /\ PostInv /\ OneOpen

-----------------------------------------------------------------------------
(* Sequences.                                                               *)

LEMMA ListFacts ==
  ASSUME NEW f, IsList(f)
  PROVE  /\ Len(f) \in Nat /\ DOMAIN f = 1 .. Len(f)
         /\ \A S : (\A i \in DOMAIN f : f[i] \in S) => f \in Seq(S)
<1>1. PICK n \in Nat : f = [i \in 1 .. n |-> f[i]]
  BY DEF IsList
<1>2. DOMAIN f = 1 .. n
  BY <1>1
<1>3. ASSUME NEW S, \A i \in DOMAIN f : f[i] \in S PROVE f \in Seq(S)
  <2>1. f \in [1 .. n -> S]
    BY <1>1, <1>2, <1>3
  <2> QED
    BY <2>1, SeqDef
<1>4. f \in Seq({f[i] : i \in DOMAIN f})
  BY <1>3
<1>5. Len(f) \in Nat /\ DOMAIN f = 1 .. Len(f)
  BY <1>4, LenProperties
<1> QED
  BY <1>3, <1>5

LEMMA ListOf ==
  ASSUME NEW S, NEW f \in Seq(S)
  PROVE  IsList(f)
  BY LenProperties DEF IsList

LEMMA ListExcept ==
  ASSUME NEW f, IsList(f), NEW i, NEW x
  PROVE  LET g == [f EXCEPT ![i] = x] IN
         /\ IsList(g) /\ Len(g) = Len(f) /\ DOMAIN g = DOMAIN f
         /\ i \in DOMAIN f => g[i] = x
         /\ \A j \in DOMAIN f : j # i => g[j] = f[j]
<1> DEFINE g == [f EXCEPT ![i] = x]
<1>1. PICK n \in Nat : f = [j \in 1 .. n |-> f[j]]
  BY DEF IsList
<1>2. g = [j \in 1 .. n |-> g[j]]
  BY <1>1
<1>3. IsList(g)
  BY <1>2 DEF IsList
<1>4. DOMAIN g = DOMAIN f
  OBVIOUS
<1> HIDE DEF g
<1>5. 1 .. Len(g) = 1 .. Len(f) /\ Len(g) \in Nat /\ Len(f) \in Nat
  BY <1>3, <1>4, ListFacts
<1>6. Len(g) = Len(f)
  BY <1>5
<1> QED
  BY <1>3, <1>4, <1>6 DEF g

LEMMA ListConcat ==
  ASSUME NEW f, NEW g, IsList(f), IsList(g)
  PROVE  /\ IsList(f \o g) /\ Len(f \o g) = Len(f) + Len(g)
         /\ DOMAIN (f \o g) = 1 .. Len(f) + Len(g)
         /\ \A i \in 1 .. Len(f) : (f \o g)[i] = f[i]
         /\ \A i \in 1 .. Len(g) : (f \o g)[Len(f) + i] = g[i]
<1> DEFINE S == {f[i] : i \in DOMAIN f} \cup {g[i] : i \in DOMAIN g}
<1>1. f \in Seq(S) /\ g \in Seq(S)
  BY ListFacts
<1> HIDE DEF S
<1>2. f \o g \in Seq(S) /\ Len(f \o g) = Len(f) + Len(g)
  BY <1>1, ConcatProperties
<1>3. DOMAIN (f \o g) = 1 .. Len(f) + Len(g)
  BY <1>2, LenProperties
<1>4. /\ \A i \in 1 .. Len(f) : (f \o g)[i] = f[i]
      /\ \A i \in 1 .. Len(g) : (f \o g)[Len(f) + i] = g[i]
  <2>1. Len(f) \in Nat /\ Len(g) \in Nat
    BY ListFacts
  <2> QED
    BY <1>1, <2>1, ConcatProperties
<1> QED
  BY <1>2, <1>3, <1>4, ListOf

\* SetToSeq of a finite set is a list, not empty unless the set is.
LEMMA SetToSeqIsList ==
  ASSUME NEW S, IsFiniteSet(S)
  PROVE  IsList(SetToSeq(S)) /\ (S # {} => Len(SetToSeq(S)) > 0)
<1>1. Cardinality(S) \in Nat
  BY FS_CardinalityType
<1>2. \E f \in [1 .. Cardinality(S) -> S] : IsInjective(f)
  <2>1. PICK f : f \in Bijection(1 .. Cardinality(S), S)
    BY FS_CardinalityType DEF ExistsBijection
  <2> QED
    BY <2>1 DEF Bijection, Injection
<1>3. SetToSeq(S) \in [1 .. Cardinality(S) -> S]
  BY <1>2 DEF SetToSeq
<1>4. IsList(SetToSeq(S))
  BY <1>1, <1>3 DEF IsList
<1>5. S # {} => Len(SetToSeq(S)) > 0
  <2> SUFFICES ASSUME S # {} PROVE Len(SetToSeq(S)) > 0
    OBVIOUS
  <2>1. Cardinality(S) # 0
    BY FS_EmptySet
  <2>2. 1 .. Len(SetToSeq(S)) = 1 .. Cardinality(S) /\ Len(SetToSeq(S)) \in Nat
    BY <1>3, <1>4, ListFacts
  <2> QED
    BY <1>1, <2>1, <2>2
<1> QED
  BY <1>4, <1>5

-----------------------------------------------------------------------------
(* Steps that let no order be sent again.                                   *)

\* What a row r may become: what it is for stays, an order that may be sent was
\* so before, none is sent that is to be cancelled, one that is final stays so,
\* and the deadline of one that is final is forgotten.
KeepsOrder(x, r) ==
    /\ OrderFields \subseteq DOMAIN x /\ x.cancel \in BOOLEAN
    /\ x.act = r.act /\ x.tp = r.tp /\ x.pos = r.pos
    /\ x.st = "queued" /\ ~x.cancel => r.st = "queued" /\ ~r.cancel
    /\ r.st = "queued" /\ x.st = "sending" => ~r.cancel
    /\ x.st # "final" => r.st # "final"
    /\ (r.late => r.st # "final") => (x.late => x.st # "final")

Calm ==
    /\ IsList(order') /\ Len(order') = Len(order) /\ Ids' = Ids
    /\ \A o \in Ids : KeepsOrder(order'[o], order[o])

ExCalm ==
    /\ IsList(ex') /\ Len(ex') = Len(ex)
    /\ \A o \in Ids : ExFields \subseteq DOMAIN ex'[o] /\ ex'[o].posts = ex[o].posts

SendersCalm ==
    /\ DOMAIN snd' = Senders
    /\ \A s \in Senders :
          /\ SenderFields \subseteq DOMAIN snd'[s]
          /\ IsList(snd'[s].legs)
          /\ snd'[s].pc = "begin" /\ snd'[s].act = "close" => Len(snd'[s].legs) > 0
          /\ Sending(s)' => snd'[s].todo \in Seq(Ids) /\ Len(snd'[s].todo) > 0
          /\ snd'[s].pc \in {"post", "settle"} =>
                snd'[s].todo = snd[s].todo /\ snd[s].pc \in {"post", "settle"}
          /\ snd'[s].pc = "post" => snd[s].pc = "post"

LEMMA CalmStep ==
  ASSUME LedgerInv, Calm, ExCalm, SendersCalm, IsFiniteSet(Positions')
  PROVE  LedgerInv'
<1> USE DEF LedgerInv
<1>1. Ids' = Ids /\ Opens' = Opens
  BY DEF Calm, KeepsOrder, Opens
<1>2. Shape'
  <2>1. Len(ex') = Len(order')
    BY DEF Shape, Calm, ExCalm
  <2>2. \A o \in Ids : OrderFields \subseteq DOMAIN order'[o] /\ order'[o].cancel \in BOOLEAN
    BY DEF Calm, KeepsOrder
  <2>3. \A o \in Ids : ExFields \subseteq DOMAIN ex'[o] /\ ex'[o].posts \in Nat
    BY DEF Shape, ExCalm
  <2>4. DOMAIN snd' = Senders /\ \A s \in Senders : SenderFields \subseteq DOMAIN snd'[s]
    BY DEF SendersCalm
  <2> QED
    BY <1>1, <2>1, <2>2, <2>3, <2>4 DEF Shape, Calm, ExCalm
<1>3. TodoInv'
  BY <1>1 DEF TodoInv, SendersCalm
<1>4. \A s \in Senders : \A o : Posting(s, o)' => Posting(s, o)
  BY DEF SendersCalm, Posting
<1>5. PostInv'
  <2>1. \A o \in Ids : Fresh(o)' => ex'[o].posts = 0 /\ \A s \in Senders : ~Posting(s, o)'
    BY <1>4 DEF Calm, KeepsOrder, Fresh, ExCalm, PostInv
  <2>2. ASSUME NEW s \in Senders, snd'[s].pc = "post"
        PROVE  ex'[Head(snd'[s].todo)].posts = 0
    <3>1. snd'[s].todo = snd[s].todo /\ snd[s].pc = "post"
      BY <2>2 DEF SendersCalm
    <3>2. Head(snd[s].todo) \in Ids
      BY <3>1, HeadTailProperties, EmptySeq DEF TodoInv, Sending
    <3> QED
      BY <3>1, <3>2 DEF ExCalm, PostInv
  <2>3. \A o \in Ids, s, t \in Senders : Posting(s, o)' /\ Posting(t, o)' => s = t
    BY <1>4 DEF PostInv
  <2>4. PostedOnce'
    BY <1>1 DEF PostInv, PostedOnce, ExCalm
  <2> QED
    BY <1>1, <2>1, <2>2, <2>3, <2>4 DEF PostInv
<1>6. OneOpen'
  BY <1>1 DEF OneOpen
<1> QED
  BY <1>2, <1>3, <1>5, <1>6

LEMMA CalmOrder ==
  ASSUME Shape, UNCHANGED order
  PROVE  Calm
  BY DEF Shape, Calm, KeepsOrder, Ids

LEMMA CalmEx ==
  ASSUME Shape, UNCHANGED ex
  PROVE  ExCalm
  BY DEF Shape, ExCalm

LEMMA CalmSenders ==
  ASSUME LedgerInv, UNCHANGED snd
  PROVE  SendersCalm
  BY DEF LedgerInv, Shape, TodoInv, SendersCalm, Sending

\* One row changes.
LEMMA CalmRow ==
  ASSUME Shape, NEW o, NEW x, order' = [order EXCEPT ![o] = x],
         o \in Ids => KeepsOrder(x, order[o])
  PROVE  Calm
<1>1. /\ IsList(order') /\ Len(order') = Len(order) /\ DOMAIN order' = DOMAIN order
      /\ o \in DOMAIN order => order'[o] = x
      /\ \A j \in DOMAIN order : j # o => order'[j] = order[j]
  <2>1. IsList(order)
    BY DEF Shape
  <2> QED
    BY <2>1, ListExcept
<1> QED
  BY <1>1 DEF Shape, Calm, KeepsOrder, Ids

LEMMA CalmExRow ==
  ASSUME Shape, NEW o, NEW x, ex' = [ex EXCEPT ![o] = x],
         o \in Ids => ExFields \subseteq DOMAIN x /\ x.posts = ex[o].posts
  PROVE  ExCalm
<1>1. /\ IsList(ex') /\ Len(ex') = Len(ex)
      /\ o \in DOMAIN ex => ex'[o] = x
      /\ \A j \in DOMAIN ex : j # o => ex'[j] = ex[j]
  <2>1. IsList(ex)
    BY DEF Shape
  <2>2. LET g == [ex EXCEPT ![o] = x] IN
        /\ IsList(g) /\ Len(g) = Len(ex) /\ DOMAIN g = DOMAIN ex
        /\ o \in DOMAIN ex => g[o] = x
        /\ \A j \in DOMAIN ex : j # o => g[j] = ex[j]
    BY <2>1, ListExcept
  <2> QED
    BY <2>2
<1>2. Ids = DOMAIN ex
  BY ListFacts DEF Shape, Ids
<1> QED
  BY <1>1, <1>2 DEF Shape, ExCalm

LEMMA CalmAsk ==
  ASSUME Shape, NEW O, order' = AskCancel(O)
  PROVE  Calm
<1>1. order' = [o \in Ids |-> [order[o] EXCEPT !.cancel = order[o].cancel \/ o \in O]]
  BY DEF AskCancel
<1>2. Ids = 1 .. Len(order) /\ Len(order) \in Nat
  BY ListFacts DEF Shape, Ids
<1>3. IsList(order')
  BY <1>1, <1>2 DEF IsList
<1>4. Ids' = Ids /\ Len(order') = Len(order)
  <2>1. DOMAIN order' = 1 .. Len(order)
    BY <1>1, <1>2
  <2>2. Len(order') \in Nat /\ DOMAIN order' = 1 .. Len(order')
    BY <1>3, ListFacts
  <2> QED
    BY <1>2, <2>1, <2>2 DEF Ids
<1>5. ASSUME NEW o \in Ids
      PROVE  KeepsOrder(order'[o], order[o])
  <2>1. OrderFields \subseteq DOMAIN order[o] /\ order[o].cancel \in BOOLEAN
    BY DEF Shape
  <2>2. order'[o] = [order[o] EXCEPT !.cancel = order[o].cancel \/ o \in O]
    BY <1>1
  <2> QED
    BY <2>1, <2>2 DEF KeepsOrder, OrderFields
<1> QED
  BY <1>3, <1>4, <1>5 DEF Calm

-----------------------------------------------------------------------------
(* The steps of the workers, of time and of Binance.                        *)

LEMMA CalmRelease ==
  ASSUME Shape, NEW w, Release(w)
  PROVE  Calm
<1> DEFINE o == wrk[w].o
           x == [order[o] EXCEPT !.lease = IF order[o].lease = w THEN NoOne ELSE order[o].lease]
<1>1. order' = [order EXCEPT ![o] = x]
  BY DEF Release, FreeLease
<1>2. o \in Ids => KeepsOrder(x, order[o])
  BY DEF Shape, OrderFields, KeepsOrder
<1> HIDE DEF x, o
<1> QED
  BY <1>1, <1>2, CalmRow

LEMMA CalmGiveUp ==
  ASSUME Shape, NEW w, GiveUp(w)
  PROVE  Calm
<1> DEFINE o == wrk[w].o
           y == [order[o] EXCEPT !.st = IF order[o].st = "final" THEN order[o].st ELSE "attention"]
           x == [y EXCEPT !.lease = IF y.lease = w THEN NoOne ELSE y.lease]
<1>1. order' = [order EXCEPT ![o] = x]
  <2>1. MarkAttention(o) = [order EXCEPT ![o] = y]
    BY DEF MarkAttention
  <2>2. order' = [MarkAttention(o) EXCEPT
                    ![o].lease = IF MarkAttention(o)[o].lease = w THEN NoOne ELSE MarkAttention(o)[o].lease]
    BY DEF GiveUp, FreeLease
  <2> HIDE DEF y, o
  <2>3. order' = [[order EXCEPT ![o] = y] EXCEPT
                    ![o].lease = IF [order EXCEPT ![o] = y][o].lease = w THEN NoOne
                                 ELSE [order EXCEPT ![o] = y][o].lease]
    BY <2>1, <2>2
  <2>4. CASE o \in Ids
    <3>1. [order EXCEPT ![o] = y][o] = y
      BY <2>4 DEF Ids
    <3> QED
      BY <2>3, <3>1
  <2>5. CASE o \notin Ids
    BY <2>3, <2>5 DEF Ids
  <2> QED
    BY <2>4, <2>5
<1>2. o \in Ids => KeepsOrder(x, order[o])
  BY DEF Shape, OrderFields, KeepsOrder
<1> HIDE DEF x, o
<1> QED
  BY <1>1, <1>2, CalmRow

LEMMA CalmFinish ==
  ASSUME Shape, NEW o, order' = Finish(o)
  PROVE  Calm
<1> DEFINE x == [order[o] EXCEPT !.st = "final", !.lease = NoOne, !.cancel = FALSE, !.late = FALSE]
<1>1. order' = [order EXCEPT ![o] = x]
  BY DEF Finish
<1>2. o \in Ids => KeepsOrder(x, order[o])
  BY DEF Shape, OrderFields, KeepsOrder
<1> HIDE DEF x
<1> QED
  BY <1>1, <1>2, CalmRow

LEMMA CalmActive ==
  ASSUME Shape, NEW o, order' = [order EXCEPT ![o].st = "active"], CanMarkActive(o)
  PROVE  Calm
<1> DEFINE x == [order[o] EXCEPT !.st = "active"]
<1>1. order' = [order EXCEPT ![o] = x]
  OBVIOUS
<1>2. o \in Ids => KeepsOrder(x, order[o])
  BY DEF Shape, OrderFields, KeepsOrder, CanMarkActive
<1> HIDE DEF x
<1> QED
  BY <1>1, <1>2, CalmRow

\* A field that says nothing of whether the order may be sent.
LEMMA CalmField ==
  ASSUME Shape, NEW o, NEW v,
         \/ order' = [order EXCEPT ![o].lease = v]
         \/ order' = [order EXCEPT ![o].late = v] /\ Unresolved(o)
         \/ order' = [order EXCEPT ![o].booked = v]
  PROVE  Calm
<1>1. CASE order' = [order EXCEPT ![o].lease = v]
  <2> DEFINE x == [order[o] EXCEPT !.lease = v]
  <2>1. order' = [order EXCEPT ![o] = x]
    BY <1>1
  <2>2. o \in Ids => KeepsOrder(x, order[o])
    BY DEF Shape, OrderFields, KeepsOrder
  <2> HIDE DEF x
  <2> QED
    BY <2>1, <2>2, CalmRow
<1>2. CASE order' = [order EXCEPT ![o].late = v] /\ Unresolved(o)
  <2> DEFINE x == [order[o] EXCEPT !.late = v]
  <2>1. order' = [order EXCEPT ![o] = x]
    BY <1>2
  <2>2. o \in Ids => KeepsOrder(x, order[o])
    BY <1>2 DEF Shape, OrderFields, KeepsOrder, Unresolved
  <2> HIDE DEF x
  <2> QED
    BY <2>1, <2>2, CalmRow
<1>3. CASE order' = [order EXCEPT ![o].booked = v]
  <2> DEFINE x == [order[o] EXCEPT !.booked = v]
  <2>1. order' = [order EXCEPT ![o] = x]
    BY <1>3
  <2>2. o \in Ids => KeepsOrder(x, order[o])
    BY DEF Shape, OrderFields, KeepsOrder
  <2> HIDE DEF x
  <2> QED
    BY <2>1, <2>2, CalmRow
<1> QED
  BY <1>1, <1>2, <1>3

\* Positions stay finite.
LEMMA FiniteSame ==
  ASSUME Shape, UNCHANGED held
  PROVE  IsFiniteSet(Positions')
  BY DEF Shape, Positions

LEMMA FiniteBook ==
  ASSUME Shape, NEW o, NEW n, NEW q, Book(o, n, q)
  PROVE  IsFiniteSet(Positions')
<1>1. CASE order[o].act = "open"
  <2>1. Positions' = Positions \cup {<<o, n>>}
    BY <1>1 DEF Book, Positions
  <2> QED
    BY <2>1, FS_AddElement DEF Shape
<1>2. CASE order[o].act # "open"
  BY <1>2 DEF Book, Positions, Shape
<1> QED
  BY <1>1, <1>2

LEMMA WorkerCalm ==
  ASSUME Shape, NEW w \in Workers, WorkerStep(w)
  PROVE  Calm
<1>1. ASSUME NEW o \in Ids, Claim(w, o) PROVE Calm
  BY <1>1, CalmField DEF Claim
<1>2. CASE Begin(w)
  BY <1>2, CalmAsk, CalmOrder DEF Begin
<1>3. CASE FinishQueued(w)
  BY <1>3, CalmFinish, CalmRelease, CalmGiveUp DEF FinishQueued
<1>4. CASE Get(w)
  BY <1>4, CalmActive, CalmGiveUp DEF Get
<1>5. CASE Cancel(w)
  BY <1>5, CalmOrder, CalmGiveUp DEF Cancel
<1>6. CASE Trades(w)
  BY <1>6, CalmOrder, CalmGiveUp DEF Trades
<1>7. CASE Apply(w)
  BY <1>7, CalmOrder, CalmGiveUp, CalmField DEF Apply, Book
<1>8. CASE Conclude(w)
  BY <1>8, CalmGiveUp, CalmRelease, CalmFinish DEF Conclude
<1>9. CASE Fail(w) \/ CrashWorker(w)
  BY <1>9, CalmGiveUp, CalmOrder DEF Fail, CrashWorker, ledger
<1> QED
  BY <1>1, <1>2, <1>3, <1>4, <1>5, <1>6, <1>7, <1>8, <1>9 DEF WorkerStep

LEMMA WorkerSteps ==
  ASSUME LedgerInv, NEW w \in Workers, WorkerStep(w)
  PROVE  LedgerInv'
<1> USE DEF LedgerInv
<1>1. SendersCalm
  <2>1. UNCHANGED snd
    BY DEF WorkerStep, Claim, Begin, FinishQueued, Get, Cancel, Trades, Apply, Conclude, Fail,
           CrashWorker
  <2> QED
    BY <2>1, CalmSenders
<1>2. Calm
  BY WorkerCalm
<1>3. ExCalm
  <2>1. CASE UNCHANGED ex
    BY <2>1, CalmEx
  <2>2. ASSUME NEW o, ex' = [ex EXCEPT ![o].st = "done"] PROVE ExCalm
    <3> DEFINE x == [ex[o] EXCEPT !.st = "done"]
    <3>1. ex' = [ex EXCEPT ![o] = x]
      BY <2>2
    <3>2. o \in Ids => ExFields \subseteq DOMAIN x /\ x.posts = ex[o].posts
      BY DEF Shape, ExFields
    <3> HIDE DEF x
    <3> QED
      BY <3>1, <3>2, CalmExRow
  <2> QED
    BY <2>1, <2>2 DEF WorkerStep, Claim, Begin, FinishQueued, Get, Cancel, Trades, Apply, Conclude,
                      Fail, CrashWorker
<1>4. IsFiniteSet(Positions')
  <2>1. \/ UNCHANGED held
        \/ \E o, n, q : Book(o, n, q)
    BY DEF WorkerStep, Claim, Begin, FinishQueued, Get, Cancel, Trades, Apply, Conclude, Fail,
           CrashWorker, ledger
  <2> QED
    BY <2>1, FiniteSame, FiniteBook
<1> QED
  BY <1>1, <1>2, <1>3, <1>4, CalmStep

LEMMA EnvironmentCalm ==
  ASSUME Shape, NEW o \in Ids,
         \/ LeaseLapse(o) \/ DeadlinePasses(o) \/ EndByExchange(o)
         \/ \E k \in Sizes : Fill(o, k)
  PROVE  Calm
  BY CalmField, CalmOrder DEF LeaseLapse, DeadlinePasses, EndByExchange, Fill, ledger

LEMMA EnvironmentSteps ==
  ASSUME LedgerInv, NEW o \in Ids,
         \/ LeaseLapse(o) \/ DeadlinePasses(o) \/ EndByExchange(o)
         \/ \E k \in Sizes : Fill(o, k)
  PROVE  LedgerInv'
<1> USE DEF LedgerInv
<1>1. SendersCalm /\ IsFiniteSet(Positions')
  <2>1. UNCHANGED <<snd, held>>
    BY DEF LeaseLapse, DeadlinePasses, EndByExchange, Fill, ledger
  <2> QED
    BY <2>1, CalmSenders, FiniteSame
<1>2. Calm
  BY EnvironmentCalm
<1>3. ExCalm
  <2>1. CASE LeaseLapse(o) \/ DeadlinePasses(o)
    BY <2>1, CalmEx DEF LeaseLapse, DeadlinePasses
  <2>2. CASE EndByExchange(o)
    <3> DEFINE x == [ex[o] EXCEPT !.st = "done"]
    <3>1. ex' = [ex EXCEPT ![o] = x]
      BY <2>2 DEF EndByExchange
    <3>2. ExFields \subseteq DOMAIN x /\ x.posts = ex[o].posts
      BY DEF Shape, ExFields
    <3> HIDE DEF x
    <3> QED
      BY <3>1, <3>2, CalmExRow
  <2>3. ASSUME NEW k \in Sizes, Fill(o, k) PROVE ExCalm
    <3> DEFINE left == order[o].qty - Total(ex[o].fills)
               x == [ex[o] EXCEPT !.fills = Append(ex[o].fills, k),
                                  !.st = IF k = left THEN "done" ELSE ex[o].st]
    <3>1. ex' = [ex EXCEPT ![o] = x]
      BY <2>3 DEF Fill
    <3>2. ExFields \subseteq DOMAIN x /\ x.posts = ex[o].posts
      BY DEF Shape, ExFields
    <3> HIDE DEF x
    <3> QED
      BY <3>1, <3>2, CalmExRow
  <2> QED
    BY <2>1, <2>2, <2>3
<1> QED
  BY <1>1, <1>2, <1>3, CalmStep

-----------------------------------------------------------------------------
(* The steps of requests and senders.                                       *)

\* A call begins or stops: nothing is being sent by it.
LEMMA CalmCall ==
  ASSUME LedgerInv, NEW s, NEW c, snd' = [snd EXCEPT ![s] = c],
         SenderFields \subseteq DOMAIN c, IsList(c.legs),
         c.pc = "begin" /\ c.act = "close" => Len(c.legs) > 0,
         c.pc \in {"idle", "begin", "next"},
         c.pc = "next" => c.todo \in Seq(Ids) /\ Len(c.todo) > 0
  PROVE  SendersCalm
<1>1. DOMAIN snd' = Senders
  BY DEF LedgerInv, Shape
<1>2. s \in Senders => snd'[s] = c
  BY DEF LedgerInv, Shape
<1>3. \A t \in Senders : t # s => snd'[t] = snd[t]
  BY DEF LedgerInv, Shape
<1> QED
  BY <1>1, <1>2, <1>3 DEF LedgerInv, Shape, TodoInv, SendersCalm, Sending

LEMMA IdleFacts ==
  /\ SenderFields \subseteq DOMAIN IdleSender /\ IsList(IdleSender.legs)
  /\ IdleSender.pc = "idle"
<1>1. IsList(<<>>)
  BY EmptySeq, ListOf
<1> QED
  BY <1>1 DEF IdleSender, SenderFields

LEMMA CalmStop ==
  ASSUME LedgerInv, NEW s, Stop(s)
  PROVE  SendersCalm
  BY IdleFacts, CalmCall DEF Stop

LEMMA StartOpenStep ==
  ASSUME LedgerInv, NEW s \in Senders, StartOpen(s)
  PROVE  LedgerInv'
<1> DEFINE c == [IdleSender EXCEPT !.pc = "begin", !.act = "open", !.net = ExchangeNet]
<1>1. snd' = [snd EXCEPT ![s] = c] /\ UNCHANGED <<ledger, ex>>
  BY DEF StartOpen
<1>2. /\ SenderFields \subseteq DOMAIN c /\ IsList(c.legs) /\ c.pc = "begin" /\ c.act = "open"
  BY IdleFacts DEF SenderFields
<1> HIDE DEF c
<1>3. SendersCalm
  BY <1>1, <1>2, CalmCall
<1> QED
  BY <1>1, <1>3, CalmOrder, CalmEx, FiniteSame, CalmStep DEF LedgerInv, ledger

LEMMA StartTpStep ==
  ASSUME LedgerInv, NEW s \in Senders, NEW o \in Ids, StartTp(s, o)
  PROVE  LedgerInv'
<1> DEFINE c == [IdleSender EXCEPT !.pc = "next", !.todo = <<o>>]
<1>1. snd' = [snd EXCEPT ![s] = c] /\ UNCHANGED <<ledger, ex>>
  BY DEF StartTp
<1>2. /\ SenderFields \subseteq DOMAIN c /\ IsList(c.legs) /\ c.pc = "next"
      /\ c.todo \in Seq(Ids) /\ Len(c.todo) > 0
  BY IdleFacts DEF SenderFields
<1> HIDE DEF c
<1>3. SendersCalm
  BY <1>1, <1>2, CalmCall
<1> QED
  BY <1>1, <1>3, CalmOrder, CalmEx, FiniteSame, CalmStep DEF LedgerInv, ledger

LEMMA StartCloseStep ==
  ASSUME LedgerInv, NEW s \in Senders, NEW P \in SUBSET OpenPositions, StartClose(s, P)
  PROVE  LedgerInv'
<1> DEFINE S == {<<p, held[p]>> : p \in P}
           c == [IdleSender EXCEPT !.pc = "begin", !.act = "close", !.net = ExchangeNet,
                                   !.legs = SetToSeq(S)]
<1>1. snd' = [snd EXCEPT ![s] = c] /\ UNCHANGED <<ledger, ex>> /\ P # {}
  BY DEF StartClose
<1>2. IsFiniteSet(S) /\ S # {}
  <2>1. IsFiniteSet(P)
    BY FS_Subset DEF LedgerInv, Shape, OpenPositions
  <2>2. [p \in P |-> <<p, held[p]>>] \in Surjection(P, S)
    BY DEF Surjection
  <2>3. IsFiniteSet(S)
    BY <2>1, <2>2, FS_Surjection
  <2> QED
    BY <1>1, <2>3
<1> HIDE DEF S
<1>3. IsList(SetToSeq(S)) /\ Len(SetToSeq(S)) > 0
  BY <1>2, SetToSeqIsList
<1>4. SenderFields \subseteq DOMAIN c /\ c.legs = SetToSeq(S) /\ c.pc = "begin"
  BY IdleFacts DEF SenderFields
<1> HIDE DEF c
<1>5. SendersCalm
  BY <1>1, <1>3, <1>4, CalmCall
<1> QED
  BY <1>1, <1>5, CalmOrder, CalmEx, FiniteSame, CalmStep DEF LedgerInv, ledger

LEMMA AskSteps ==
  ASSUME LedgerInv,
         \/ \E P \in SUBSET OpenPositions : DeferExit(P)
         \/ QueueReversal
         \/ \E o \in Ids : RequestCancel(o)
  PROVE  LedgerInv'
<1>1. Calm
  BY CalmAsk DEF DeferExit, QueueReversal, RequestCancel, LedgerInv
<1>2. UNCHANGED <<held, ex, snd>>
  BY DEF DeferExit, QueueReversal, RequestCancel
<1> QED
  BY <1>1, <1>2, CalmEx, CalmSenders, FiniteSame, CalmStep DEF LedgerInv

\* The rows of a batch are added to the ledger, and a call may be to send them.
SendersAdd ==
    /\ DOMAIN snd' = Senders
    /\ \A s \in Senders :
          /\ SenderFields \subseteq DOMAIN snd'[s]
          /\ snd'[s].legs = snd[s].legs
          /\ snd'[s].pc = "begin" => snd[s].pc = "begin" /\ snd'[s].act = snd[s].act
          /\ Sending(s)' => snd'[s].todo \in Seq(Ids') /\ Len(snd'[s].todo) > 0
          /\ snd'[s].pc \in {"post", "settle"} =>
                snd'[s].todo = snd[s].todo /\ snd'[s].pc = snd[s].pc

LEMMA HeadInLedger ==
  ASSUME LedgerInv, NEW s \in Senders, Sending(s)
  PROVE  Head(snd[s].todo) \in Ids
  BY HeadTailProperties, EmptySeq DEF LedgerInv, TodoInv

LEMMA InsertFacts ==
  ASSUME Shape, NEW rows, IsList(rows), Insert(rows)
  PROVE  LET n == Len(order)  k == Len(rows) IN
         /\ n \in Nat /\ k \in Nat /\ Ids = 1 .. n /\ Ids' = 1 .. n + k
         /\ IsList(order') /\ IsList(ex') /\ Len(ex') = Len(order')
         /\ \A o \in Ids : order'[o] = order[o] /\ ex'[o] = ex[o]
         /\ \A i \in 1 .. k : order'[n + i] = rows[i] /\ ex'[n + i] = NewOnExchange
<1> DEFINE new == [i \in DOMAIN rows |-> NewOnExchange]
<1>1. order' = order \o rows /\ ex' = ex \o new
  BY DEF Insert
<1>2. DOMAIN rows = 1 .. Len(rows) /\ Len(rows) \in Nat
  BY ListFacts
<1>3. IsList(new)
  BY <1>2 DEF IsList
<1>4. Len(new) = Len(rows)
  <2>1. DOMAIN new = 1 .. Len(rows)
    BY <1>2
  <2> HIDE DEF new
  <2>2. DOMAIN new = 1 .. Len(new) /\ Len(new) \in Nat
    BY <1>3, ListFacts
  <2> QED
    BY <1>2, <2>1, <2>2
<1>5. \A i \in 1 .. Len(rows) : new[i] = NewOnExchange
  BY <1>2
<1> HIDE DEF new
<1>6. Len(order) \in Nat /\ Ids = 1 .. Len(order) /\ Len(ex) = Len(order)
  BY ListFacts DEF Shape, Ids
<1>7. /\ IsList(order') /\ Len(order') = Len(order) + Len(rows)
      /\ Ids' = 1 .. Len(order) + Len(rows)
      /\ \A i \in 1 .. Len(order) : order'[i] = order[i]
      /\ \A i \in 1 .. Len(rows) : order'[Len(order) + i] = rows[i]
  BY <1>1, ListConcat DEF Shape, Ids
<1>8. /\ IsList(ex') /\ Len(ex') = Len(ex) + Len(new)
      /\ \A i \in 1 .. Len(ex) : ex'[i] = ex[i]
      /\ \A i \in 1 .. Len(new) : ex'[Len(ex) + i] = new[i]
  <2>1. IsList(ex)
    BY DEF Shape
  <2>2. LET h == ex \o new IN
        /\ IsList(h) /\ Len(h) = Len(ex) + Len(new)
        /\ \A i \in 1 .. Len(ex) : h[i] = ex[i]
        /\ \A i \in 1 .. Len(new) : h[Len(ex) + i] = new[i]
    BY <1>3, <2>1, ListConcat
  <2> QED
    BY <1>1, <2>2
<1> QED
  BY <1>2, <1>4, <1>5, <1>6, <1>7, <1>8

LEMMA InsertStep ==
  ASSUME LedgerInv, NEW rows, IsList(rows), Insert(rows), SendersAdd, UNCHANGED held,
         \A i \in 1 .. Len(rows) :
            OrderFields \subseteq DOMAIN rows[i] /\ rows[i].cancel \in BOOLEAN,
         \/ \A i \in 1 .. Len(rows) : rows[i].act # "open"
         \/ Opens = {} /\ Len(rows) = 1
  PROVE  LedgerInv'
<1> DEFINE n == Len(order)
           k == Len(rows)
<1> USE DEF LedgerInv
<1>1. /\ n \in Nat /\ k \in Nat /\ Ids = 1 .. n /\ Ids' = 1 .. n + k
      /\ IsList(order') /\ IsList(ex') /\ Len(ex') = Len(order')
      /\ \A o \in Ids : order'[o] = order[o] /\ ex'[o] = ex[o]
      /\ \A i \in 1 .. k : order'[n + i] = rows[i] /\ ex'[n + i] = NewOnExchange
  BY InsertFacts
<1>2. ASSUME NEW o \in Ids', o \notin Ids PROVE \E i \in 1 .. k : o = n + i
  <2>1. o - n \in 1 .. k /\ o = n + (o - n)
    BY <1>1, <1>2
  <2> QED
    BY <2>1
<1>3. Ids \subseteq Ids'
  BY <1>1
<1> HIDE DEF n, k
<1>4. Shape'
  <2>1. \A o \in Ids' : OrderFields \subseteq DOMAIN order'[o] /\ order'[o].cancel \in BOOLEAN
    BY <1>1, <1>2 DEF Shape, k
  <2>2. \A o \in Ids' : ExFields \subseteq DOMAIN ex'[o] /\ ex'[o].posts \in Nat
    BY <1>1, <1>2 DEF Shape, NewOnExchange, ExFields
  <2>3. IsFiniteSet(Positions')
    BY FiniteSame
  <2> QED
    BY <1>1, <2>1, <2>2, <2>3 DEF Shape, SendersAdd
<1>5. TodoInv'
  BY DEF TodoInv, SendersAdd
<1>6. ASSUME NEW s \in Senders, snd'[s].pc \in {"post", "settle"}
      PROVE  /\ Head(snd'[s].todo) = Head(snd[s].todo) /\ Head(snd[s].todo) \in Ids
             /\ snd'[s].pc = snd[s].pc
  BY <1>6, HeadInLedger DEF SendersAdd, Sending
<1>7. \A s \in Senders : \A o : Posting(s, o)' => Posting(s, o) /\ o \in Ids
  BY <1>6 DEF Posting
<1>8. PostInv'
  <2>1. ASSUME NEW o \in Ids', Fresh(o)'
        PROVE  ex'[o].posts = 0 /\ \A s \in Senders : ~Posting(s, o)'
    <3>1. CASE o \in Ids
      BY <1>1, <1>7, <2>1, <3>1 DEF PostInv, Fresh
    <3>2. CASE o \notin Ids
      <4>1. PICK i \in 1 .. k : o = n + i
        BY <1>2, <3>2
      <4>2. ex'[o] = NewOnExchange
        BY <1>1, <4>1
      <4> QED
        BY <1>7, <3>2, <4>2 DEF NewOnExchange
    <3> QED
      BY <3>1, <3>2
  <2>2. \A s \in Senders : snd'[s].pc = "post" => ex'[Head(snd'[s].todo)].posts = 0
    BY <1>1, <1>6 DEF PostInv
  <2>3. \A o \in Ids', s, t \in Senders : Posting(s, o)' /\ Posting(t, o)' => s = t
    BY <1>7 DEF PostInv
  <2>4. ASSUME NEW o \in Ids' PROVE ex'[o].posts <= 1
    <3>1. CASE o \in Ids
      <4>1. ex[o].posts <= 1
        BY <3>1 DEF PostInv, PostedOnce
      <4> QED
        BY <1>1, <3>1, <4>1
    <3>2. CASE o \notin Ids
      <4>1. PICK i \in 1 .. k : o = n + i
        BY <1>2, <3>2
      <4>2. ex'[o] = NewOnExchange
        BY <1>1, <4>1
      <4> QED
        BY <4>2 DEF NewOnExchange
    <3> QED
      BY <3>1, <3>2
  <2>5. PostedOnce'
    BY <2>4 DEF PostedOnce
  <2> QED
    BY <2>1, <2>2, <2>3, <2>5 DEF PostInv
<1>9. OneOpen'
  <2>1. CASE \A i \in 1 .. k : rows[i].act # "open"
    <3>1. ASSUME NEW o \in Ids', order'[o].act = "open"
          PROVE  o \in Ids /\ order[o].act = "open"
      <4>1. CASE o \in Ids
        BY <1>1, <3>1, <4>1
      <4>2. CASE o \notin Ids
        <5>1. PICK i \in 1 .. k : o = n + i
          BY <1>2, <4>2
        <5> QED
          BY <1>1, <2>1, <3>1, <5>1
      <4> QED
        BY <4>1, <4>2
    <3> QED
      BY <3>1 DEF OneOpen, Opens
  <2>2. CASE Opens = {} /\ k = 1
    <3>1. \A o \in Ids' : order'[o].act = "open" => o = n + 1
      BY <1>1, <1>2, <2>2 DEF Opens
    <3> QED
      BY <3>1 DEF OneOpen, Opens
  <2> QED
    BY <2>1, <2>2 DEF k
<1> QED
  BY <1>4, <1>5, <1>8, <1>9

RowOf(r, act) == OrderFields \subseteq DOMAIN r /\ r.cancel \in BOOLEAN /\ r.act = act

LEMMA RowFacts ==
  \A act, tp, pos, qty : RowOf(Row(act, tp, pos, qty), act)
  BY DEF Row, OrderFields, RowOf

LEMMA CreateTpStep ==
  ASSUME LedgerInv, NEW p \in OpenPositions, CreateTp(p)
  PROVE  LedgerInv'
<1> DEFINE r == Row("close", TRUE, p, held[p])
<1>1. Insert(<<r>>) /\ UNCHANGED <<held, snd>>
  BY DEF CreateTp
<1>2. RowOf(r, "close")
  BY RowFacts
<1> HIDE DEF r
<1>3. Ids \subseteq Ids'
  <2>1. IsList(<<r>>)
    BY DEF IsList
  <2> QED
    BY <1>1, <2>1, InsertFacts DEF LedgerInv
<1>4. SendersAdd
  BY <1>1, <1>3, SeqMonotonic DEF LedgerInv, Shape, TodoInv, SendersAdd, Sending
<1>5. IsList(<<r>>) /\ Len(<<r>>) = 1 /\ \A i \in 1 .. 1 : <<r>>[i] = r
  BY DEF IsList
<1> QED
  BY <1>1, <1>2, <1>4, <1>5, InsertStep DEF RowOf

LEMMA SendStep ==
  ASSUME LedgerInv, NEW s \in Senders, NEW rows, IsList(rows), Send(s, rows), Len(rows) > 0,
         snd[s].pc = "begin", UNCHANGED held,
         \A i \in 1 .. Len(rows) :
            OrderFields \subseteq DOMAIN rows[i] /\ rows[i].cancel \in BOOLEAN,
         \/ \A i \in 1 .. Len(rows) : rows[i].act # "open"
         \/ Opens = {} /\ Len(rows) = 1
  PROVE  LedgerInv'
<1> DEFINE todo == [i \in DOMAIN rows |-> Len(order) + i]
           c == [snd[s] EXCEPT !.pc = "next", !.todo = todo]
<1>1. Insert(rows) /\ snd' = [snd EXCEPT ![s] = c]
  BY DEF Send
<1>2. /\ Len(order) \in Nat /\ Len(rows) \in Nat
      /\ Ids = 1 .. Len(order) /\ Ids' = 1 .. Len(order) + Len(rows)
  BY <1>1, InsertFacts DEF LedgerInv
<1>3. DOMAIN rows = 1 .. Len(rows)
  BY ListFacts
<1>4. todo \in [1 .. Len(rows) -> Ids']
  BY <1>2, <1>3
<1>5. todo \in Seq(Ids') /\ Len(todo) = Len(rows)
  <2>1. todo \in Seq(Ids')
    BY <1>2, <1>4, SeqDef
  <2>2. DOMAIN todo = 1 .. Len(rows)
    BY <1>4
  <2> HIDE DEF todo
  <2>3. DOMAIN todo = 1 .. Len(todo) /\ Len(todo) \in Nat
    BY <2>1, LenProperties
  <2>4. Len(todo) = Len(rows)
    BY <1>2, <2>2, <2>3
  <2> QED
    BY <2>1, <2>4
<1> HIDE DEF todo
<1>6. /\ SenderFields \subseteq DOMAIN c /\ c.legs = snd[s].legs
      /\ c.pc = "next" /\ c.todo = todo
  BY DEF LedgerInv, Shape, SenderFields
<1> HIDE DEF c
<1>7. /\ DOMAIN snd' = Senders /\ snd'[s] = c
      /\ \A t \in Senders : t # s => snd'[t] = snd[t]
  BY <1>1 DEF LedgerInv, Shape
<1>8. Ids \subseteq Ids'
  BY <1>2
<1>9. \A t \in Senders : Sending(t) => snd[t].todo \in Seq(Ids') /\ Len(snd[t].todo) > 0
  BY <1>8, SeqMonotonic DEF LedgerInv, TodoInv
<1>10. SendersAdd
  BY <1>5, <1>6, <1>7, <1>9 DEF LedgerInv, Shape, SendersAdd, Sending
<1> QED
  BY <1>1, <1>10, InsertStep

LEMMA BeginBatchStep ==
  ASSUME LedgerInv, NEW s \in Senders, BeginBatch(s)
  PROVE  LedgerInv'
<1> DEFINE c == snd[s]
           P == LegPositions(c.legs)
<1>1. c.pc = "begin" /\ UNCHANGED held
  BY DEF BeginBatch
<1>2. CASE Stop(s) /\ UNCHANGED ex /\ (UNCHANGED order \/ order' = AskCancel(Guards(P)))
  <2>1. Calm
    BY <1>2, CalmOrder, CalmAsk DEF LedgerInv
  <2> QED
    BY <1>1, <1>2, <2>1, CalmStop, CalmEx, FiniteSame, CalmStep DEF LedgerInv
<1>3. CASE /\ c.act = "close"
           /\ Send(s, [i \in DOMAIN c.legs |->
                         Row("close", FALSE, c.legs[i][1], c.legs[i][2])])
  <2> DEFINE rows == [i \in DOMAIN c.legs |-> Row("close", FALSE, c.legs[i][1], c.legs[i][2])]
  <2>1. /\ Len(c.legs) \in Nat /\ DOMAIN c.legs = 1 .. Len(c.legs) /\ Len(c.legs) > 0
    BY <1>1, <1>3, ListFacts DEF LedgerInv, TodoInv
  <2>2. IsList(rows) /\ DOMAIN rows = 1 .. Len(c.legs)
    BY <2>1 DEF IsList
  <2>3. \A i \in 1 .. Len(c.legs) : RowOf(rows[i], "close")
    BY <2>1, RowFacts
  <2>4. Send(s, rows)
    BY <1>3
  <2> HIDE DEF rows
  <2>5. Len(rows) = Len(c.legs)
    <3>1. DOMAIN rows = 1 .. Len(rows) /\ Len(rows) \in Nat
      BY <2>2, ListFacts
    <3> QED
      BY <2>1, <2>2, <3>1
  <2>6. \A i \in 1 .. Len(rows) :
           /\ OrderFields \subseteq DOMAIN rows[i] /\ rows[i].cancel \in BOOLEAN
           /\ rows[i].act # "open"
    BY <2>3, <2>5 DEF RowOf
  <2> HIDE DEF c
  <2>7. snd[s].pc = "begin" /\ UNCHANGED held /\ Len(rows) > 0
    BY <1>1, <2>1, <2>5 DEF c
  <2> QED
    BY <2>2, <2>4, <2>6, <2>7, SendStep
<1>4. ASSUME OpenAllowed, NEW q \in Sizes, Send(s, <<Row("open", FALSE, NoPosition, q)>>)
      PROVE  LedgerInv'
  <2> DEFINE r == Row("open", FALSE, NoPosition, q)
  <2>1. RowOf(r, "open")
    BY RowFacts
  <2>2. Send(s, <<r>>) /\ Opens = {}
    BY <1>4 DEF OpenAllowed
  <2> HIDE DEF r
  <2>3. IsList(<<r>>) /\ Len(<<r>>) = 1 /\ \A i \in 1 .. 1 : <<r>>[i] = r
    BY DEF IsList
  <2>4. snd[s].pc = "begin" /\ UNCHANGED held
    BY <1>1
  <2> HIDE DEF c
  <2> QED
    BY <2>1, <2>2, <2>3, <2>4, SendStep DEF RowOf
<1>5. \/ Stop(s) /\ UNCHANGED ex /\ (UNCHANGED order \/ order' = AskCancel(Guards(P)))
      \/ /\ c.act = "close"
         /\ Send(s, [i \in DOMAIN c.legs |->
                       Row("close", FALSE, c.legs[i][1], c.legs[i][2])])
      \/ /\ ~BatchRefused(s) /\ c.act = "open"
         /\ \E q \in Sizes : Send(s, <<Row("open", FALSE, NoPosition, q)>>)
  BY DEF BeginBatch
<1>6. ~BatchRefused(s) /\ c.act = "open" => OpenAllowed
  BY DEF BatchRefused
<1> QED
  BY <1>2, <1>3, <1>4, <1>5, <1>6

\* Claimed for sending: it may be sent no more, and nobody else sends it.
LEMMA MarkSendingStep ==
  ASSUME LedgerInv, NEW s \in Senders, MarkSending(s)
  PROVE  LedgerInv'
<1> DEFINE o == Head(snd[s].todo)
<1> USE DEF LedgerInv
<1>1. /\ snd[s].pc = "next" /\ UNCHANGED <<held, ex>> /\ o \in Ids
  BY HeadInLedger DEF MarkSending, Sending
<1>2. CASE ~MaySend(o)
  <2>1. Stop(s) /\ UNCHANGED order
    BY <1>2 DEF MarkSending
  <2> QED
    BY <1>1, <2>1, CalmOrder, CalmStop, CalmEx, FiniteSame, CalmStep
<1>3. CASE MaySend(o)
  <2> DEFINE x == [order[o] EXCEPT !.st = "sending"]
             c == [snd[s] EXCEPT !.pc = "post"]
  <2>1. order' = [order EXCEPT ![o] = x] /\ snd' = [snd EXCEPT ![s] = c]
    BY <1>3 DEF MarkSending
  <2>2. KeepsOrder(x, order[o]) /\ x.st = "sending"
    BY <1>1, <1>3 DEF Shape, OrderFields, KeepsOrder, MaySend
  <2>3. /\ SenderFields \subseteq DOMAIN c /\ c.pc = "post"
        /\ c.todo = snd[s].todo /\ c.legs = snd[s].legs
    BY DEF Shape, SenderFields
  <2> HIDE DEF x, c
  <2>4. Calm
    BY <2>1, <2>2, CalmRow
  <2>5. /\ DOMAIN snd' = Senders /\ snd'[s] = c
        /\ \A t \in Senders : t # s => snd'[t] = snd[t]
    BY <2>1 DEF Shape
  <2>6. Fresh(o) /\ order'[o].st = "sending"
    <3>1. order'[o] = x
      BY <1>1, <2>1 DEF Ids
    <3> QED
      BY <1>3, <2>2, <3>1 DEF MaySend, Fresh
  <2>7. ex[o].posts = 0 /\ \A t \in Senders : ~Posting(t, o)
    BY <1>1, <2>6 DEF PostInv
  <2>8. Ids' = Ids /\ Opens' = Opens
    BY <2>4 DEF Calm, KeepsOrder, Opens
  <2>9. Shape'
    BY <1>1, <2>3, <2>4, <2>5, <2>8 DEF Shape, Calm, KeepsOrder, Positions
  <2>10. TodoInv'
    BY <1>1, <2>3, <2>5, <2>8 DEF TodoInv, Sending
  <2>11. \A t \in Senders : \A p : Posting(t, p)' => Posting(t, p) \/ (t = s /\ p = o)
    BY <2>3, <2>5 DEF Posting
  <2>12. PostInv'
    <3>1. ASSUME NEW p \in Ids, order'[p].st = "queued" /\ ~order'[p].cancel
          PROVE  ex[p].posts = 0 /\ \A t \in Senders : ~Posting(t, p)'
      <4>1. Fresh(p)
        BY <2>4, <3>1 DEF Calm, KeepsOrder, Fresh
      <4>2. p # o
        BY <2>6, <3>1
      <4> QED
        BY <2>11, <4>1, <4>2 DEF PostInv
    <3>2. \A t \in Senders : snd'[t].pc = "post" => ex[Head(snd'[t].todo)].posts = 0
      BY <2>3, <2>5, <2>7 DEF PostInv
    <3>3. \A p \in Ids, t, u \in Senders : Posting(t, p)' /\ Posting(u, p)' => t = u
      BY <2>7, <2>11 DEF PostInv
    <3> QED
      BY <1>1, <2>8, <3>1, <3>2, <3>3 DEF PostInv, PostedOnce, Fresh
  <2> QED
    BY <2>8, <2>9, <2>10, <2>12 DEF OneOpen
<1> QED
  BY <1>2, <1>3

LEMMA PostStep ==
  ASSUME LedgerInv, NEW s \in Senders, Post(s)
  PROVE  LedgerInv'
<1> DEFINE o == Head(snd[s].todo)
<1> USE DEF LedgerInv
<1>1. PICK st, ans :
        /\ ex' = [ex EXCEPT ![o].st = st, ![o].posts = @ + 1]
        /\ snd' = [snd EXCEPT ![s].pc = "settle", ![s].ans = ans]
  BY DEF Post
<1>2. snd[s].pc = "post" /\ UNCHANGED <<order, held>> /\ o \in Ids
  BY HeadInLedger DEF Post, ledger, Sending
<1>3. ex[o].posts = 0 /\ Posting(s, o)
  BY <1>2 DEF PostInv, Posting
<1> DEFINE x == [ex[o] EXCEPT !.st = st, !.posts = ex[o].posts + 1]
           c == [snd[s] EXCEPT !.pc = "settle", !.ans = ans]
<1>4. ex' = [ex EXCEPT ![o] = x] /\ snd' = [snd EXCEPT ![s] = c]
  <2>1. snd' = [snd EXCEPT ![s] = c]
    BY <1>1 DEF Shape
  <2>2. o \in DOMAIN ex
    BY <1>2, ListFacts DEF Shape, Ids
  <2>3. ex' = [ex EXCEPT ![o] = x]
    BY <1>1, <1>2, <2>2 DEF Shape, ExFields
  <2> QED
    BY <2>1, <2>3
<1>5. ExFields \subseteq DOMAIN x /\ x.posts = 1
  BY <1>2, <1>3 DEF Shape, ExFields
<1>6. /\ SenderFields \subseteq DOMAIN c /\ c.pc = "settle"
      /\ c.todo = snd[s].todo /\ c.legs = snd[s].legs
  BY DEF Shape, SenderFields
<1> HIDE DEF x, c, o
<1>7. /\ IsList(ex') /\ Len(ex') = Len(ex) /\ ex'[o] = x
      /\ \A p \in Ids : p # o => ex'[p] = ex[p]
  <2>1. IsList(ex) /\ Ids = DOMAIN ex
    BY ListFacts DEF Shape, Ids
  <2>2. LET g == [ex EXCEPT ![o] = x] IN
        /\ IsList(g) /\ Len(g) = Len(ex) /\ (o \in DOMAIN ex => g[o] = x)
        /\ \A p \in DOMAIN ex : p # o => g[p] = ex[p]
    BY <2>1, ListExcept
  <2> QED
    BY <1>2, <1>4, <2>1, <2>2
<1>8. /\ DOMAIN snd' = Senders /\ snd'[s] = c
      /\ \A t \in Senders : t # s => snd'[t] = snd[t]
  BY <1>4 DEF Shape
<1>9. Ids' = Ids /\ Opens' = Opens
  BY <1>2 DEF Ids, Opens
<1>10. Shape'
  BY <1>2, <1>5, <1>6, <1>7, <1>8, <1>9 DEF Shape, Positions
<1>11. TodoInv'
  BY <1>2, <1>6, <1>8, <1>9 DEF TodoInv, Sending
<1>12. \A t \in Senders : \A p : Posting(t, p)' => Posting(t, p)
  BY <1>2, <1>6, <1>8 DEF Posting
<1>13. PostInv'
  <2>1. ASSUME NEW p \in Ids, Fresh(p)'
        PROVE  ex'[p].posts = 0 /\ \A t \in Senders : ~Posting(t, p)'
    <3>1. Fresh(p)
      BY <1>2, <2>1 DEF Fresh
    <3>2. p # o
      BY <1>3, <3>1 DEF PostInv
    <3> QED
      BY <1>7, <1>12, <3>1, <3>2 DEF PostInv
  <2>2. ASSUME NEW t \in Senders, snd'[t].pc = "post"
        PROVE  ex'[Head(snd'[t].todo)].posts = 0
    <3>1. t # s /\ snd'[t] = snd[t]
      BY <1>6, <1>8, <2>2
    <3>2. Head(snd[t].todo) \in Ids
      BY <2>2, <3>1, HeadInLedger DEF Sending
    <3>3. Head(snd[t].todo) # o
      BY <1>2, <1>3, <2>2, <3>1 DEF PostInv, Posting
    <3> QED
      BY <1>7, <2>2, <3>1, <3>2, <3>3 DEF PostInv
  <2>3. \A p \in Ids, t, u \in Senders : Posting(t, p)' /\ Posting(u, p)' => t = u
    BY <1>12 DEF PostInv
  <2>4. \A p \in Ids : ex'[p].posts <= 1
    BY <1>5, <1>7 DEF PostInv, PostedOnce
  <2> QED
    BY <1>9, <2>1, <2>2, <2>3, <2>4 DEF PostInv, PostedOnce
<1> QED
  BY <1>9, <1>10, <1>11, <1>13 DEF OneOpen

\* The answer is taken: the call stops, or goes on to its next order.
LEMMA SettleCalm ==
  ASSUME Shape, NEW s \in Senders, Settle(s)
  PROVE  Calm
<1> DEFINE o == Head(snd[s].todo)
<1>1. CASE order' = [order EXCEPT ![o].st = "active"] /\ CanMarkActive(o)
  BY <1>1, CalmActive
<1>2. CASE order' = Rejected(o) /\ order[o].st = "sending"
  <2> DEFINE x == [order[o] EXCEPT !.st = "queued", !.cancel = TRUE]
  <2>1. order' = [order EXCEPT ![o] = x]
    BY <1>2 DEF Rejected
  <2>2. o \in Ids => KeepsOrder(x, order[o])
    BY <1>2 DEF Shape, OrderFields, KeepsOrder
  <2> HIDE DEF x, o
  <2> QED
    BY <2>1, <2>2, CalmRow
<1>3. CASE order' = MarkAttention(o)
  <2> DEFINE x == [order[o] EXCEPT !.st = IF order[o].st = "final" THEN order[o].st
                                          ELSE "attention"]
  <2>1. order' = [order EXCEPT ![o] = x]
    BY <1>3 DEF MarkAttention
  <2>2. o \in Ids => KeepsOrder(x, order[o])
    BY DEF Shape, OrderFields, KeepsOrder
  <2> HIDE DEF x, o
  <2> QED
    BY <2>1, <2>2, CalmRow
<1> QED
  BY <1>1, <1>2, <1>3 DEF Settle

LEMMA SettleStep ==
  ASSUME LedgerInv, NEW s \in Senders, Settle(s)
  PROVE  LedgerInv'
<1> DEFINE o == Head(snd[s].todo)
<1> USE DEF LedgerInv
<1>1. UNCHANGED <<held, ex>>
  BY DEF Settle
<1>2. Calm
  BY SettleCalm
<1>3. SendersCalm
  <2>1. CASE Stop(s)
    BY <2>1, CalmStop
  <2>2. CASE /\ snd[s].pc = "settle" /\ Len(snd[s].todo) > 1
             /\ snd' = [snd EXCEPT ![s].pc = "next", ![s].todo = Tail(@)]
    <3> DEFINE c == [snd[s] EXCEPT !.pc = "next", !.todo = Tail(snd[s].todo)]
    <3>1. snd' = [snd EXCEPT ![s] = c]
      BY <2>2
    <3>2. snd[s].todo \in Seq(Ids)
      BY <2>2 DEF TodoInv, Sending
    <3>3. Tail(snd[s].todo) \in Seq(Ids) /\ Len(Tail(snd[s].todo)) > 0
      <4>1. snd[s].todo # <<>>
        BY <2>2, <3>2, EmptySeq
      <4>2. Tail(snd[s].todo) \in Seq(Ids) /\ Len(Tail(snd[s].todo)) = Len(snd[s].todo) - 1
        BY <3>2, <4>1, HeadTailProperties
      <4>3. Len(snd[s].todo) \in Nat
        BY <3>2, LenProperties
      <4> QED
        BY <2>2, <4>2, <4>3
    <3>4. /\ SenderFields \subseteq DOMAIN c /\ c.pc = "next"
          /\ c.todo = Tail(snd[s].todo) /\ c.legs = snd[s].legs
      BY DEF Shape, SenderFields
    <3>5. IsList(snd[s].legs)
      BY DEF TodoInv
    <3> HIDE DEF c
    <3> QED
      BY <3>1, <3>3, <3>4, <3>5, CalmCall
  <2> QED
    BY <2>1, <2>2 DEF Settle
<1> QED
  BY <1>1, <1>2, <1>3, CalmEx, FiniteSame, CalmStep

LEMMA CrashSenderStep ==
  ASSUME LedgerInv, NEW s \in Senders, CrashSender(s)
  PROVE  LedgerInv'
<1>1. Stop(s) /\ UNCHANGED <<order, held, ex>>
  BY DEF CrashSender, ledger
<1> QED
  BY <1>1, CalmStop, CalmOrder, CalmEx, FiniteSame, CalmStep DEF LedgerInv

-----------------------------------------------------------------------------
(* The invariant, and the properties.                                       *)

LEMMA LedgerInit == Init => LedgerInv
<1> SUFFICES ASSUME Init PROVE LedgerInv
  OBVIOUS
<1>1. /\ order = <<>> /\ ex = <<>> /\ IsList(<<>>) /\ Len(<<>>) = 0 /\ Ids = {}
  <2>1. Len(<<>>) = 0 /\ DOMAIN <<>> = {}
    OBVIOUS
  <2>2. IsList(<<>>)
    BY EmptySeq, ListOf
  <2> QED
    BY <2>1, <2>2 DEF Init, Ids
<1>2. /\ DOMAIN snd = Senders
      /\ \A s \in Senders : snd[s] = IdleSender
  BY DEF Init
<1>3. Shape
  <2>1. Positions = {}
    BY DEF Init, Positions
  <2> QED
    BY <1>1, <1>2, <2>1, IdleFacts, FS_EmptySet DEF Shape
<1>4. TodoInv
  BY <1>2, IdleFacts DEF TodoInv, Sending
<1>5. PostInv
  BY <1>1, <1>2, IdleFacts DEF PostInv, PostedOnce
<1>6. OneOpen
  BY <1>1 DEF OneOpen, Opens
<1> QED
  BY <1>3, <1>4, <1>5, <1>6 DEF LedgerInv

LEMMA LedgerStep == LedgerInv /\ [Next]_vars => LedgerInv'
<1> SUFFICES ASSUME LedgerInv, [Next]_vars PROVE LedgerInv'
  OBVIOUS
<1>1. CASE Request
  <2>1. ASSUME NEW s \in Senders, NEW p \in OpenPositions, DeferredExit(s, p)
        PROVE  LedgerInv'
    <3>1. StartClose(s, {p}) /\ {p} \in SUBSET OpenPositions
      BY <2>1 DEF DeferredExit
    <3> QED
      BY <3>1, StartCloseStep
  <2> QED
    BY <1>1, <2>1, StartOpenStep, StartCloseStep, StartTpStep, CreateTpStep, AskSteps DEF Request
<1>2. CASE Environment
  BY <1>2, EnvironmentSteps DEF Environment
<1>3. ASSUME NEW s \in Senders, SenderStep(s)
      PROVE  LedgerInv'
  BY <1>3, BeginBatchStep, MarkSendingStep, PostStep, SettleStep, CrashSenderStep DEF SenderStep
<1>4. ASSUME NEW w \in Workers, WorkerStep(w)
      PROVE  LedgerInv'
  BY <1>4, WorkerSteps
<1>5. CASE UNCHANGED vars
  <2>1. UNCHANGED <<order, held, ex, snd>>
    BY <1>5 DEF vars, ledger
  <2> QED
    BY <2>1, CalmOrder, CalmEx, CalmSenders, FiniteSame, CalmStep DEF LedgerInv
<1> QED
  BY <1>1, <1>2, <1>3, <1>4, <1>5 DEF Next

\* No order is sent twice, whatever crashes between the intention and the
\* answer, and whoever finds it queued: the invariant says that an order that
\* markSending would take was never sent and is in no call's hands.
THEOREM NeverSentTwice == Spec => []PostedOnce
<1>1. LedgerInv => PostedOnce
  BY DEF LedgerInv, PostInv
<1> QED
  BY <1>1, LedgerInit, LedgerStep, PTL DEF Spec

\* The pilot buys once, ever: the ledger holds one entry at most, since
\* beginBatch counts the entries of every status in the transaction that
\* inserts one.
THEOREM PilotBuysOnce == Spec => []OnePilotEntry
<1>1. LedgerInv => OnePilotEntry
  <2> SUFFICES ASSUME LedgerInv PROVE OnePilotEntry
    OBVIOUS
  <2> DEFINE S == {o \in Opens : ex[o].posts > 0}
  <2>1. \A o, p \in S : o = p
    BY DEF LedgerInv, OneOpen
  <2> SUFFICES Cardinality(S) <= 1
    BY DEF OnePilotEntry
  <2> HIDE DEF S
  <2>2. CASE S = {}
    BY <2>2, FS_EmptySet
  <2>3. CASE S # {}
    <3>1. PICK o \in S : S = {o}
      BY <2>1, <2>3
    <3> QED
      BY <3>1, FS_Singleton
  <2> QED
    BY <2>2, <2>3
<1> QED
  BY <1>1, LedgerInit, LedgerStep, PTL DEF Spec

-----------------------------------------------------------------------------
(* Once an exit is asked for, no take-profit (TP) is sent.                  *)

\* Every TP that may be sent is of a position nobody has asked the exit of; a
\* position has one live TP at most, which is the one its deadline cancels; and
\* the deadline of an order that is final is nobody's concern.
WorkerFields == {"pc", "o"}
StartsTp(w) == wrk[w].pc = "start" => wrk[w].o \in Ids /\ order[wrk[w].o].tp
LiveTp(o) == order[o].tp /\ Unresolved(o)
ExitInv ==
    /\ \A o \in Ids : order[o].tp /\ Fresh(o) => order[o].pos \notin exits
    /\ \A o, q \in Ids : LiveTp(o) /\ LiveTp(q) /\ order[o].pos = order[q].pos => o = q
    /\ \A o \in Ids : order[o].late => Unresolved(o)
    /\ DOMAIN wrk = Workers
    /\ \A w \in Workers : WorkerFields \subseteq DOMAIN wrk[w] /\ StartsTp(w)

\* The workers that begin with a deadline did so before, or have a TP.
WorkersCalm ==
    /\ DOMAIN wrk' = Workers
    /\ \A w \in Workers :
          /\ WorkerFields \subseteq DOMAIN wrk'[w]
          /\ wrk'[w].pc = "start" =>
                \/ wrk[w].pc = "start" /\ wrk'[w].o = wrk[w].o
                \/ wrk'[w].o \in Ids /\ order[wrk'[w].o].tp

\* The TPs of the positions whose exit is asked for now are not sent.
LEMMA ExitCalm ==
  ASSUME ExitInv, Calm, WorkersCalm,
         \A o \in Ids : order[o].tp /\ order[o].pos \in exits' \ exits => ~Fresh(o)'
  PROVE  ExitInv'
<1>1. Ids' = Ids
  BY DEF Calm
<1>2. ASSUME NEW o \in Ids
      PROVE  /\ order'[o].tp = order[o].tp /\ order'[o].pos = order[o].pos
             /\ Fresh(o)' => Fresh(o)
             /\ Unresolved(o)' => Unresolved(o)
             /\ (order[o].late => Unresolved(o)) => (order'[o].late => Unresolved(o)')
  BY DEF Calm, KeepsOrder, Fresh, Unresolved
<1>3. \A o \in Ids : order'[o].tp /\ Fresh(o)' => order'[o].pos \notin exits'
  BY <1>2 DEF ExitInv
<1>4. \A o, q \in Ids : LiveTp(o)' /\ LiveTp(q)' /\ order'[o].pos = order'[q].pos => o = q
  BY <1>2 DEF ExitInv, LiveTp
<1>5. \A o \in Ids : order'[o].late => Unresolved(o)'
  BY <1>2 DEF ExitInv
<1>6. \A w \in Workers : StartsTp(w)'
  BY <1>1, <1>2 DEF ExitInv, WorkersCalm, StartsTp
<1> QED
  BY <1>1, <1>3, <1>4, <1>5, <1>6 DEF ExitInv, WorkersCalm

LEMMA WorkersSame ==
  ASSUME ExitInv, UNCHANGED wrk
  PROVE  WorkersCalm
  BY DEF ExitInv, WorkersCalm

\* One worker changes, and does not come to the deadline.
LEMMA WorkersOne ==
  ASSUME ExitInv, NEW w \in Workers, NEW c, wrk' = [wrk EXCEPT ![w] = c],
         WorkerFields \subseteq DOMAIN c,
         c.pc = "start" => c.o \in Ids /\ order[c.o].tp
  PROVE  WorkersCalm
<1>1. DOMAIN wrk' = Workers /\ wrk'[w] = c /\ \A v \in Workers : v # w => wrk'[v] = wrk[v]
  BY DEF ExitInv
<1> QED
  BY <1>1 DEF ExitInv, WorkersCalm

\* What is asked to be cancelled is not sent.
LEMMA AskedFacts ==
  ASSUME Shape, NEW O, order' = AskCancel(O), NEW o \in Ids, o \in O
  PROVE  ~Fresh(o)'
<1>1. order'[o] = [order[o] EXCEPT !.cancel = order[o].cancel \/ o \in O]
  BY DEF AskCancel
<1>2. order'[o].cancel
  BY <1>1 DEF Shape, OrderFields
<1> QED
  BY <1>2 DEF Fresh

\* The guards of an exit are its TPs: the others may not be sent anyway.
LEMMA GuardedFacts ==
  ASSUME Shape, NEW P, order' = AskCancel(Guards(P)), NEW o \in Ids,
         order[o].tp, order[o].pos \in P
  PROVE  ~Fresh(o)'
<1>1. CASE Unresolved(o)
  BY <1>1, AskedFacts DEF Guards
<1>2. CASE ~Unresolved(o)
  <2>1. KeepsOrder(order'[o], order[o])
    BY CalmAsk DEF Calm
  <2> QED
    BY <1>2, <2>1 DEF Unresolved, KeepsOrder, Fresh
<1> QED
  BY <1>1, <1>2

\* New rows: no TP, or one for a position without a live one and without an exit.
LEMMA ExitInsert ==
  ASSUME Shape, ExitInv, NEW rows, IsList(rows), Insert(rows), UNCHANGED wrk,
         \A i \in 1 .. Len(rows) : rows[i].late = FALSE,
         \/ \A i \in 1 .. Len(rows) : rows[i].tp = FALSE
         \/ /\ Len(rows) = 1
            /\ \A o \in Ids : LiveTp(o) => order[o].pos # rows[1].pos
            /\ rows[1].pos \notin exits'
         ,
         \A o \in Ids : order[o].tp /\ order[o].pos \in exits' \ exits => ~Fresh(o)
  PROVE  ExitInv'
<1> DEFINE n == Len(order)
           k == Len(rows)
<1>1. /\ n \in Nat /\ k \in Nat /\ Ids = 1 .. n /\ Ids' = 1 .. n + k
      /\ \A o \in Ids : order'[o] = order[o]
      /\ \A i \in 1 .. k : order'[n + i] = rows[i]
  BY InsertFacts
<1>2. ASSUME NEW o \in Ids', o \notin Ids
      PROVE  \E i \in 1 .. k : o = n + i /\ order'[o] = rows[i]
  <2>1. o - n \in 1 .. k /\ o = n + (o - n)
    BY <1>1, <1>2
  <2> QED
    BY <1>1, <2>1
<1>3. Ids \subseteq Ids'
  BY <1>1
<1>4. \A o \in Ids : order'[o] = order[o]
  BY <1>1
<1> HIDE DEF n, k
<1>5. ASSUME NEW o \in Ids', o \notin Ids PROVE order'[o].late = FALSE
  BY <1>2, <1>5 DEF k
\* A new TP, if any.
<1>6. ASSUME NEW o \in Ids', o \notin Ids, order'[o].tp
      PROVE  /\ order'[o].pos \notin exits' /\ o = n + 1
             /\ \A q \in Ids : LiveTp(q) => order[q].pos # order'[o].pos
  <2>1. PICK i \in 1 .. k : o = n + i /\ order'[o] = rows[i]
    BY <1>2, <1>6
  <2>2. k = 1 /\ (\A q \in Ids : LiveTp(q) => order[q].pos # rows[1].pos) /\ rows[1].pos \notin exits'
    BY <1>6, <2>1 DEF k
  <2>3. i = 1
    BY <2>1, <2>2
  <2> QED
    BY <2>1, <2>2, <2>3
<1>7. ASSUME NEW o \in Ids', order'[o].tp, Fresh(o)' PROVE order'[o].pos \notin exits'
  <2>1. CASE o \in Ids
    BY <1>4, <1>7, <2>1 DEF ExitInv, Fresh
  <2>2. CASE o \notin Ids
    BY <1>6, <1>7, <2>2
  <2> QED
    BY <2>1, <2>2
<1>8. \A q \in Ids : LiveTp(q)' = LiveTp(q)
  BY <1>4 DEF LiveTp, Unresolved
<1>9. ASSUME NEW o \in Ids', NEW q \in Ids', LiveTp(o)', LiveTp(q)',
             order'[o].pos = order'[q].pos
      PROVE  o = q
  <2>0. order'[o].tp /\ order'[q].tp
    BY <1>9 DEF LiveTp
  <2>1. CASE o \in Ids /\ q \in Ids
    <3>1. LiveTp(o) /\ LiveTp(q) /\ order[o].pos = order[q].pos
      BY <1>4, <1>8, <1>9, <2>1
    <3> QED
      BY <2>1, <3>1 DEF ExitInv
  <2>2. CASE o \in Ids /\ q \notin Ids
    BY <1>4, <1>6, <1>8, <1>9, <2>0, <2>2
  <2>3. CASE o \notin Ids /\ q \in Ids
    BY <1>4, <1>6, <1>8, <1>9, <2>0, <2>3
  <2>4. CASE o \notin Ids /\ q \notin Ids
    BY <1>6, <2>0, <2>4
  <2> QED
    BY <2>1, <2>2, <2>3, <2>4
<1>10. ASSUME NEW o \in Ids', order'[o].late PROVE order'[o].st # "final"
  <2>1. CASE o \in Ids
    BY <1>4, <1>10, <2>1 DEF ExitInv, Unresolved
  <2>2. CASE o \notin Ids
    BY <1>5, <1>10, <2>2
  <2> QED
    BY <2>1, <2>2
<1>11. ASSUME NEW w \in Workers PROVE WorkerFields \subseteq DOMAIN wrk'[w] /\ StartsTp(w)'
  BY <1>3, <1>4 DEF ExitInv, StartsTp
<1> QED
  BY <1>7, <1>9, <1>10, <1>11 DEF ExitInv, Unresolved

LEMMA WorkerExit ==
  ASSUME Shape, ExitInv, NEW w \in Workers, WorkerStep(w)
  PROVE  ExitInv'
<1>0. Calm
  BY WorkerCalm
<1>1. ASSUME WorkersCalm, exits' = exits PROVE ExitInv'
  BY <1>0, <1>1, ExitCalm
<1>2. WorkerFields \subseteq DOMAIN wrk[w]
  BY DEF ExitInv
<1>3. IdleWorker.pc = "idle" /\ WorkerFields \subseteq DOMAIN IdleWorker
  BY DEF IdleWorker, WorkerFields
<1>4. Rest(w) => WorkersCalm
  BY <1>3, WorkersOne DEF Rest
<1>5. ASSUME NEW pc, pc # "start", Step(w, pc) PROVE WorkersCalm
  <2> DEFINE c == [wrk[w] EXCEPT !.pc = pc]
  <2>1. wrk' = [wrk EXCEPT ![w] = c]
    BY <1>5 DEF Step
  <2>2. WorkerFields \subseteq DOMAIN c /\ c.pc = pc
    BY <1>2 DEF WorkerFields
  <2> HIDE DEF c
  <2> QED
    BY <1>5, <2>1, <2>2, WorkersOne
<1>6. ASSUME NEW o \in Ids, Claim(w, o) PROVE ExitInv'
  <2> DEFINE c == [IdleWorker EXCEPT
                     !.pc = IF order[o].tp THEN "start" ELSE Start(order[o].st = "queued"),
                     !.o = o, !.queued = order[o].st = "queued", !.cancel = order[o].cancel]
  <2>1. wrk' = [wrk EXCEPT ![w] = c] /\ exits' = exits
    BY <1>6 DEF Claim
  <2>2. WorkerFields \subseteq DOMAIN c /\ (c.pc = "start" => c.o = o /\ order[o].tp)
    <3>1. DOMAIN c = DOMAIN IdleWorker
      OBVIOUS
    <3>2. c.o = o /\ c.pc = IF order[o].tp THEN "start" ELSE Start(order[o].st = "queued")
      BY DEF IdleWorker
    <3> HIDE DEF c
    <3> QED
      BY <1>3, <3>1, <3>2 DEF Start
  <2> HIDE DEF c
  <2> QED
    BY <1>1, <2>1, <2>2, WorkersOne
<1>7. CASE Begin(w)
  <2>0. PICK o : o = wrk[w].o
    OBVIOUS
  <2>1. wrk[w].pc = "start" /\ o \in Ids /\ order[o].tp /\ Step(w, Start(wrk[w].queued))
    BY <1>7, <2>0 DEF Begin, ExitInv, StartsTp
  <2>2. WorkersCalm
    BY <1>5, <2>1 DEF Start
  <2>3. CASE UNCHANGED exits
    BY <1>1, <2>2, <2>3
  <2>4. CASE /\ order[o].late /\ exits' = exits \cup {order[o].pos}
             /\ order' = AskCancel({o} \ {q \in Ids : ~Unresolved(q)})
    <3>1. Unresolved(o)
      BY <2>1, <2>4 DEF ExitInv
    <3>2. ~Fresh(o)'
      BY <2>1, <2>4, <3>1, AskedFacts
    <3>3. ASSUME NEW q \in Ids, order[q].tp, order[q].pos = order[o].pos PROVE ~Fresh(q)'
      <4>1. CASE Unresolved(q)
        <5>1. q = o
          BY <2>1, <3>1, <3>3, <4>1 DEF ExitInv, LiveTp
        <5> QED
          BY <3>2, <5>1
      <4>2. CASE ~Unresolved(q)
        BY <1>0, <4>2 DEF Calm, KeepsOrder, Fresh, Unresolved
      <4> QED
        BY <4>1, <4>2
    <3> QED
      BY <1>0, <2>2, <2>4, <3>3, ExitCalm
  <2> QED
    BY <1>7, <2>0, <2>3, <2>4 DEF Begin
<1>8. CASE FinishQueued(w)
  BY <1>1, <1>4, <1>8 DEF FinishQueued, Release, GiveUp
<1>9. CASE Get(w)
  <2>1. ASSUME NEW pc \in {"cancel", "trades"}, NEW done, NEW exec,
               wrk' = [wrk EXCEPT ![w].pc = pc, ![w].done = done, ![w].exec = exec]
        PROVE  WorkersCalm
    <3> DEFINE c == [wrk[w] EXCEPT !.pc = pc, !.done = done, !.exec = exec]
    <3>1. wrk' = [wrk EXCEPT ![w] = c]
      BY <2>1
    <3>2. WorkerFields \subseteq DOMAIN c /\ c.pc # "start"
      BY <1>2 DEF WorkerFields
    <3> HIDE DEF c
    <3> QED
      BY <3>1, <3>2, WorkersOne
  <2> DEFINE e == ex[wrk[w].o]
             due == CancelDue(w) /\ e.st = "open"
             done == e.st = "done"
             exec == Total(e.fills)
  <2>2. \/ Rest(w)
        \/ wrk' = [wrk EXCEPT ![w].pc = IF due THEN "cancel" ELSE "trades",
                              ![w].done = done, ![w].exec = exec]
    BY <1>9 DEF Get, GiveUp
  <2> HIDE DEF due, done, exec
  <2>3. WorkersCalm
    BY <1>4, <2>1, <2>2
  <2> QED
    BY <1>1, <1>9, <2>3 DEF Get
<1>10. CASE Cancel(w)
  <2>1. ASSUME wrk' = [wrk EXCEPT ![w].pc = "trades", ![w].keep = TRUE] PROVE WorkersCalm
    <3> DEFINE c == [wrk[w] EXCEPT !.pc = "trades", !.keep = TRUE]
    <3>1. wrk' = [wrk EXCEPT ![w] = c]
      BY <2>1
    <3>2. WorkerFields \subseteq DOMAIN c /\ c.pc # "start"
      BY <1>2 DEF WorkerFields
    <3> HIDE DEF c
    <3> QED
      BY <3>1, <3>2, WorkersOne
  <2>2. ASSUME NEW exec, wrk' = [wrk EXCEPT ![w].pc = "trades", ![w].done = TRUE, ![w].exec = exec]
        PROVE  WorkersCalm
    <3> DEFINE c == [wrk[w] EXCEPT !.pc = "trades", !.done = TRUE, !.exec = exec]
    <3>1. wrk' = [wrk EXCEPT ![w] = c]
      BY <2>2
    <3>2. WorkerFields \subseteq DOMAIN c /\ c.pc # "start"
      BY <1>2 DEF WorkerFields
    <3> HIDE DEF c
    <3> QED
      BY <3>1, <3>2, WorkersOne
  <2>3. WorkersCalm
    BY <1>4, <1>10, <2>1, <2>2 DEF Cancel, GiveUp
  <2> QED
    BY <1>1, <1>10, <2>3 DEF Cancel
<1>11. CASE Trades(w)
  <2>1. ASSUME NEW fills, NEW n,
               wrk' = [wrk EXCEPT ![w].pc = "apply", ![w].fills = fills, ![w].n = n]
        PROVE  WorkersCalm
    <3> DEFINE c == [wrk[w] EXCEPT !.pc = "apply", !.fills = fills, !.n = n]
    <3>1. wrk' = [wrk EXCEPT ![w] = c]
      BY <2>1
    <3>2. WorkerFields \subseteq DOMAIN c /\ c.pc # "start"
      BY <1>2 DEF WorkerFields
    <3> HIDE DEF c
    <3> QED
      BY <3>1, <3>2, WorkersOne
  <2>2. WorkersCalm
    BY <1>4, <1>11, <2>1 DEF Trades, GiveUp
  <2> QED
    BY <1>1, <1>11, <2>2 DEF Trades
<1>12. CASE Apply(w)
  <2>1. ASSUME NEW n, wrk' = [wrk EXCEPT ![w].n = n], wrk[w].pc = "apply" PROVE WorkersCalm
    <3> DEFINE c == [wrk[w] EXCEPT !.n = n]
    <3>1. wrk' = [wrk EXCEPT ![w] = c]
      BY <2>1
    <3>2. WorkerFields \subseteq DOMAIN c /\ c.pc # "start"
      BY <1>2, <2>1 DEF WorkerFields
    <3> HIDE DEF c
    <3> QED
      BY <3>1, <3>2, WorkersOne
  <2>2. WorkersCalm
    BY <1>4, <1>12, <2>1 DEF Apply, GiveUp
  <2> QED
    BY <1>1, <1>12, <2>2 DEF Apply
<1>13. CASE Conclude(w)
  BY <1>1, <1>4, <1>13 DEF Conclude, GiveUp, Release
<1>14. CASE Fail(w) \/ CrashWorker(w)
  BY <1>1, <1>4, <1>14 DEF Fail, CrashWorker, GiveUp, ledger
<1> QED
  BY <1>6, <1>7, <1>8, <1>9, <1>10, <1>11, <1>12, <1>13, <1>14 DEF WorkerStep

\* Requests, calls and time.
LEMMA ExitAsk ==
  ASSUME Shape, ExitInv, NEW P, order' = AskCancel(Guards(P)), exits' = exits \cup P,
         UNCHANGED wrk
  PROVE  ExitInv'
<1>1. Calm /\ WorkersCalm
  BY CalmAsk, WorkersSame
<1>2. \A o \in Ids : order[o].tp /\ order[o].pos \in P => ~Fresh(o)'
  BY GuardedFacts
<1> QED
  BY <1>1, <1>2, ExitCalm

LEMMA RequestExit ==
  ASSUME Shape, ExitInv, Request
  PROVE  ExitInv'
<1>1. ASSUME UNCHANGED <<order, exits, wrk>> PROVE ExitInv'
  BY <1>1, CalmOrder, WorkersSame, ExitCalm
<1>2. ASSUME NEW s, NEW P, StartClose(s, P) PROVE ExitInv'
  BY <1>1, <1>2 DEF StartClose, ledger
<1>3. CASE (\E s \in Senders : StartOpen(s)) \/ \E s \in Senders, o \in Ids : StartTp(s, o)
  BY <1>1, <1>3 DEF StartOpen, StartTp, ledger
<1>4. ASSUME NEW P \in SUBSET OpenPositions, DeferExit(P) PROVE ExitInv'
  BY <1>4, ExitAsk DEF DeferExit
<1>5. CASE QueueReversal
  BY <1>5, ExitAsk DEF QueueReversal
<1>6. ASSUME NEW o \in Ids, RequestCancel(o) PROVE ExitInv'
  <2>1. Calm /\ WorkersCalm /\ exits' = exits
    BY <1>6, CalmAsk, WorkersSame DEF RequestCancel
  <2> QED
    BY <2>1, ExitCalm
<1>7. ASSUME NEW p \in OpenPositions, CreateTp(p) PROVE ExitInv'
  <2> DEFINE r == Row("close", TRUE, p, held[p])
  <2>1. Insert(<<r>>) /\ UNCHANGED <<exits, wrk>> /\ TpAllowed(p)
    BY <1>7 DEF CreateTp
  <2>2. r.late = FALSE /\ r.pos = p
    BY DEF Row
  <2> HIDE DEF r
  <2>3. IsList(<<r>>) /\ Len(<<r>>) = 1 /\ \A i \in 1 .. 1 : <<r>>[i] = r
    BY DEF IsList
  <2>4. p \notin exits' /\ \A o \in Ids : LiveTp(o) => order[o].pos # p
    BY <2>1 DEF TpAllowed, LiveTp
  <2> QED
    BY <2>1, <2>2, <2>3, <2>4, ExitInsert
<1> QED
  BY <1>2, <1>3, <1>4, <1>5, <1>6, <1>7 DEF Request, DeferredExit

LEMMA BatchExit ==
  ASSUME LedgerInv, ExitInv, NEW s \in Senders, BeginBatch(s)
  PROVE  ExitInv'
<1> DEFINE c == snd[s]
           P == LegPositions(c.legs)
<1>0. Shape /\ UNCHANGED wrk /\ c.pc = "begin"
  BY DEF LedgerInv, BeginBatch
<1>1. CASE UNCHANGED <<order, exits>>
  BY <1>0, <1>1, CalmOrder, WorkersSame, ExitCalm
<1>2. CASE exits' = exits \cup P /\ order' = AskCancel(Guards(P))
  BY <1>0, <1>2, ExitAsk
<1>3. CASE /\ c.act = "close" /\ Guards(P) = {} /\ exits' = exits \cup P
           /\ Send(s, [i \in DOMAIN c.legs |->
                         Row("close", FALSE, c.legs[i][1], c.legs[i][2])])
  <2> DEFINE rows == [i \in DOMAIN c.legs |-> Row("close", FALSE, c.legs[i][1], c.legs[i][2])]
  <2>1. Len(c.legs) \in Nat /\ DOMAIN c.legs = 1 .. Len(c.legs)
    BY ListFacts DEF LedgerInv, TodoInv
  <2>2. IsList(rows) /\ DOMAIN rows = 1 .. Len(c.legs)
    BY <2>1 DEF IsList
  <2>3. \A i \in DOMAIN rows : rows[i].late = FALSE /\ rows[i].tp = FALSE
    BY DEF Row
  <2>4. Insert(rows)
    BY <1>3 DEF Send
  <2> HIDE DEF rows
  <2>5. DOMAIN rows = 1 .. Len(rows)
    BY <2>2, ListFacts
  <2>6. \A o \in Ids : order[o].tp /\ order[o].pos \in exits' \ exits => ~Fresh(o)
    BY <1>3 DEF Guards, Fresh, Unresolved
  <2> HIDE DEF P
  <2> QED
    BY <1>0, <2>2, <2>3, <2>4, <2>5, <2>6, ExitInsert
<1>4. ASSUME NEW q \in Sizes, Send(s, <<Row("open", FALSE, NoPosition, q)>>), exits' = exits
      PROVE  ExitInv'
  <2> DEFINE r == Row("open", FALSE, NoPosition, q)
  <2>1. Insert(<<r>>)
    BY <1>4 DEF Send
  <2>2. r.late = FALSE /\ r.tp = FALSE
    BY DEF Row
  <2> HIDE DEF r
  <2>3. IsList(<<r>>) /\ Len(<<r>>) = 1 /\ \A i \in 1 .. 1 : <<r>>[i] = r
    BY DEF IsList
  <2> QED
    BY <1>0, <1>4, <2>1, <2>2, <2>3, ExitInsert
<1> QED
  BY <1>1, <1>2, <1>3, <1>4 DEF BeginBatch

LEMMA MarkSendingCalm ==
  ASSUME Shape, NEW s \in Senders, MarkSending(s)
  PROVE  Calm
<1> DEFINE o == Head(snd[s].todo)
           x == [order[o] EXCEPT !.st = "sending"]
<1>1. CASE UNCHANGED order
  BY <1>1, CalmOrder
<1>2. CASE MaySend(o) /\ order' = [order EXCEPT ![o] = x]
  <2>1. o \in Ids => KeepsOrder(x, order[o])
    BY <1>2 DEF Shape, OrderFields, KeepsOrder, MaySend
  <2> HIDE DEF x, o
  <2> QED
    BY <1>2, <2>1, CalmRow
<1> QED
  BY <1>1, <1>2 DEF MarkSending

LEMMA SenderExit ==
  ASSUME LedgerInv, ExitInv, NEW s \in Senders, SenderStep(s)
  PROVE  ExitInv'
<1>0. Shape
  BY DEF LedgerInv
<1>1. ASSUME Calm, UNCHANGED <<exits, wrk>> PROVE ExitInv'
  BY <1>1, WorkersSame, ExitCalm
<1>2. CASE MarkSending(s)
  BY <1>0, <1>1, <1>2, MarkSendingCalm DEF MarkSending
<1>3. CASE Post(s) \/ CrashSender(s)
  BY <1>0, <1>1, <1>3, CalmOrder DEF Post, CrashSender, ledger
<1>4. CASE Settle(s)
  BY <1>0, <1>1, <1>4, SettleCalm DEF Settle
<1> QED
  BY <1>2, <1>3, <1>4, BatchExit DEF SenderStep

LEMMA ExitStep == LedgerInv /\ ExitInv /\ [Next]_vars => ExitInv'
<1> SUFFICES ASSUME LedgerInv, ExitInv, [Next]_vars PROVE ExitInv'
  OBVIOUS
<1>0. Shape
  BY DEF LedgerInv
<1>1. CASE Environment
  <2>1. Calm
    BY <1>0, <1>1, EnvironmentCalm DEF Environment
  <2>2. UNCHANGED <<exits, wrk>>
    BY <1>1 DEF Environment, LeaseLapse, DeadlinePasses, EndByExchange, Fill, ledger
  <2> QED
    BY <2>1, <2>2, WorkersSame, ExitCalm
<1>2. CASE UNCHANGED vars
  BY <1>0, <1>2, CalmOrder, WorkersSame, ExitCalm DEF vars, ledger
<1> QED
  BY <1>0, <1>1, <1>2, RequestExit, SenderExit, WorkerExit DEF Next

LEMMA ExitInit == Init => ExitInv
<1> SUFFICES ASSUME Init PROVE ExitInv
  OBVIOUS
<1>1. Ids = {} /\ wrk = [w \in Workers |-> IdleWorker]
  BY DEF Init, Ids
<1>2. IdleWorker.pc = "idle" /\ WorkerFields \subseteq DOMAIN IdleWorker
  BY DEF IdleWorker, WorkerFields
<1> QED
  BY <1>1, <1>2 DEF ExitInv, StartsTp

\* A row becomes what KeepsOrder allows, or rows are added.
LEMMA StepShape ==
  ASSUME LedgerInv, [Next]_vars
  PROVE  \A o \in Ids : KeepsOrder(order'[o], order[o])
<1> USE DEF LedgerInv
<1>a. Calm => \A o \in Ids : KeepsOrder(order'[o], order[o])
  BY DEF Calm
<1>b. ASSUME NEW rows, IsList(rows), Insert(rows)
      PROVE  \A o \in Ids : KeepsOrder(order'[o], order[o])
  <2>1. \A o \in Ids : order'[o] = order[o]
    BY <1>b, InsertFacts
  <2> QED
    BY <2>1 DEF KeepsOrder, Shape
<1>c. UNCHANGED order => Calm
  BY CalmOrder
<1>1. CASE Request
  <2>1. ASSUME NEW p \in OpenPositions, CreateTp(p) PROVE \E r : Insert(<<r>>)
    BY <2>1 DEF CreateTp
  <2>2. \A r : IsList(<<r>>)
    BY DEF IsList
  <2>3. CASE \E p \in OpenPositions : CreateTp(p)
    BY <1>b, <2>1, <2>2, <2>3
  <2>4. ASSUME NEW s, NEW P, StartClose(s, P) PROVE Calm
    BY <1>c, <2>4 DEF StartClose, ledger
  <2>5. CASE \/ \E s \in Senders : StartOpen(s)
             \/ \E P \in SUBSET OpenPositions : DeferExit(P)
             \/ \E s \in Senders, o \in Ids : StartTp(s, o)
             \/ \E o \in Ids : RequestCancel(o)
             \/ QueueReversal
    BY <1>a, <1>c, <2>5, CalmAsk DEF StartOpen, DeferExit, StartTp, RequestCancel, QueueReversal, ledger
  <2> QED
    BY <1>1, <1>a, <2>3, <2>4, <2>5 DEF Request, DeferredExit
<1>2. ASSUME NEW s \in Senders, SenderStep(s)
      PROVE  \A o \in Ids : KeepsOrder(order'[o], order[o])
  <2>1. CASE BeginBatch(s)
    <3> DEFINE c == snd[s]
               rows == [i \in DOMAIN c.legs |-> Row("close", FALSE, c.legs[i][1], c.legs[i][2])]
    <3>1. \/ Calm
          \/ Insert(rows)
          \/ \E q \in Sizes : Insert(<<Row("open", FALSE, NoPosition, q)>>)
      BY <1>c, <2>1, CalmAsk DEF BeginBatch, Send
    <3>2. IsList(rows)
      <4>1. Len(c.legs) \in Nat /\ DOMAIN c.legs = 1 .. Len(c.legs)
        BY ListFacts DEF TodoInv
      <4> QED
        BY <4>1 DEF IsList
    <3>3. \A r : IsList(<<r>>)
      BY DEF IsList
    <3> HIDE DEF rows
    <3> QED
      BY <1>a, <1>b, <3>1, <3>2, <3>3
  <2>2. CASE MarkSending(s)
    BY <1>a, <2>2, MarkSendingCalm
  <2>3. CASE Post(s) \/ CrashSender(s)
    BY <1>a, <1>c, <2>3 DEF Post, CrashSender, ledger
  <2>4. CASE Settle(s)
    BY <1>a, <2>4, SettleCalm
  <2> QED
    BY <1>2, <2>1, <2>2, <2>3, <2>4 DEF SenderStep
<1>3. CASE Environment
  BY <1>a, <1>3, EnvironmentCalm DEF Environment
<1>4. CASE UNCHANGED vars
  BY <1>a, <1>c, <1>4 DEF vars, ledger
<1> QED
  BY <1>a, <1>1, <1>2, <1>3, <1>4, WorkerCalm DEF Next

\* Once an exit of a position is saved, no TP of it is claimed for sending,
\* whoever finds it queued: only an order whose cancellation nobody has asked
\* for is claimed, and every exit asks for the cancellation of the TPs of its
\* positions, or is saved when there is none.
THEOREM NoTpOnceExitAskedTheorem == Spec => NoTpOnceExitAsked
<1>1. LedgerInv /\ ExitInv /\ [Next]_vars =>
        [\A o \in Ids : order[o].tp /\ order[o].st = "queued" /\ order'[o].st = "sending"
                          => order[o].pos \notin exits]_vars
  BY StepShape DEF KeepsOrder, ExitInv, Fresh
<1>2. Init => LedgerInv /\ ExitInv
  BY LedgerInit, ExitInit
<1>3. LedgerInv /\ ExitInv /\ [Next]_vars => (LedgerInv /\ ExitInv)'
  BY LedgerStep, ExitStep
<1> QED
  BY <1>1, <1>2, <1>3, PTL DEF Spec, NoTpOnceExitAsked

-----------------------------------------------------------------------------
(* Sums.                                                                    *)

\* The sum over a set is the value at that set of the function that picks the
\* members of each subset one by one.
Picked(s) == CHOOSE x \in s : TRUE
OneLess(f, g, s) == IF s = {} THEN 0 ELSE f[Picked(s)] + g[s \ {Picked(s)}]
Adds(f, S, g) == g = [s \in SUBSET S |-> OneLess(f, g, s)]

LEMMA SumIs ==
  ASSUME NEW f, NEW S
  PROVE  SumFunctionOnSet(f, S) = (CHOOSE g : Adds(f, S, g))[S]
  BY DEF SumFunctionOnSet, FoldFunctionOnSet, MapThenFoldSet, Adds, OneLess, Picked

LEMMA PickedIsIn ==
  ASSUME NEW s, s # {}
  PROVE  Picked(s) \in s
  BY DEF Picked

\* A set of numbers with 0 and the successor of each of its members is Nat.
LEMMA Successors ==
  ASSUME NEW N \in SUBSET Nat, 0 \in N, \A n \in N : n + 1 \in N
  PROVE  N = Nat
<1> SUFFICES ASSUME Nat \ N # {} PROVE FALSE
  OBVIOUS
<1>1. PICK x \in Nat \ N : \A y \in Nat \ N : ~ (<<y, x>> \in OpToRel(<, Nat))
  BY NatLessThanWellFounded, WFMin
<1>2. x - 1 \in Nat /\ x - 1 < x
  OBVIOUS
<1>3. x - 1 \in N
  BY <1>1, <1>2, Zenon DEF OpToRel
<1> QED
  BY <1>2, <1>3

\* The members of a finite set can be counted down.
LEMMA OneOut ==
  ASSUME NEW S, IsFiniteSet(S), NEW s \in SUBSET S
  PROVE  /\ IsFiniteSet(s) /\ Cardinality(s) \in Nat
         /\ Cardinality(s) = 0 <=> s = {}
         /\ \A x \in s : Cardinality(s \ {x}) = Cardinality(s) - 1 /\ s \ {x} \in SUBSET S
<1>1. IsFiniteSet(s)
  BY FS_Subset
<1> QED
  BY <1>1, FS_CardinalityType, FS_EmptySet, FS_RemoveElement

\* There is a function that adds as SumFunctionOnSet does.
LEMMA SumExists ==
  ASSUME NEW f, NEW S, IsFiniteSet(S), \A x \in S : f[x] \in Int
  PROVE  \E g \in [SUBSET S -> Int] : Adds(f, S, g)
<1> DEFINE Upto(n, g) == \A s \in SUBSET S : Cardinality(s) <= n => g[s] = OneLess(f, g, s)
           N == {n \in Nat : \E g \in [SUBSET S -> Int] : Upto(n, g)}
<1>1. 0 \in N
  <2>1. [s \in SUBSET S |-> 0] \in [SUBSET S -> Int]
    OBVIOUS
  <2>2. Upto(0, [s \in SUBSET S |-> 0])
    BY OneOut DEF OneLess
  <2> QED
    BY <2>1, <2>2
<1>2. ASSUME NEW n \in N PROVE n + 1 \in N
  <2>1. PICK g \in [SUBSET S -> Int] : Upto(n, g)
    OBVIOUS
  <2> DEFINE h == [s \in SUBSET S |-> IF Cardinality(s) <= n THEN g[s] ELSE OneLess(f, g, s)]
  <2>2. \A s \in SUBSET S : OneLess(f, g, s) \in Int
    BY PickedIsIn, OneOut DEF OneLess
  <2>3. h \in [SUBSET S -> Int]
    BY <2>2
  <2>4. ASSUME NEW s \in SUBSET S, Cardinality(s) <= n + 1 PROVE h[s] = OneLess(f, h, s)
    <3>1. h[s] = OneLess(f, g, s)
      BY <2>1
    <3>2. s # {} => Picked(s) \in s /\ s \ {Picked(s)} \in SUBSET S /\ Cardinality(s \ {Picked(s)}) <= n
      BY <2>4, PickedIsIn, OneOut
    <3>3. s # {} => h[s \ {Picked(s)}] = g[s \ {Picked(s)}]
      BY <3>2
    <3> QED
      BY <3>1, <3>3 DEF OneLess
  <2>5. Upto(n + 1, h)
    BY <2>4
  <2> HIDE DEF h
  <2>6. n + 1 \in Nat
    OBVIOUS
  <2> QED
    BY <2>3, <2>5, <2>6
<1>3. N = Nat
  <2> HIDE DEF N
  <2>1. N \in SUBSET Nat
    BY DEF N
  <2> QED
    BY <1>1, <1>2, <2>1, Successors
<1>4. Cardinality(S) \in N
  BY <1>3, FS_CardinalityType
<1>5. PICK g \in [SUBSET S -> Int] : Upto(Cardinality(S), g)
  BY <1>4
<1>6. \A s \in SUBSET S : Cardinality(s) <= Cardinality(S)
  BY FS_Subset
<1>7. \A s \in SUBSET S : g[s] = OneLess(f, g, s)
  BY <1>5, <1>6
<1>8. g = [s \in SUBSET S |-> OneLess(f, g, s)]
  BY <1>7
<1> QED
  BY <1>8 DEF Adds

LEMMA SumFacts ==
  ASSUME NEW f, NEW S, IsFiniteSet(S), \A x \in S : f[x] \in Int
  PROVE  \E g : /\ \A s \in SUBSET S : g[s] = OneLess(f, g, s)
                /\ SumFunctionOnSet(f, S) = g[S]
<1> DEFINE g == CHOOSE g : Adds(f, S, g)
<1>1. Adds(f, S, g)
  BY SumExists
<1>2. SumFunctionOnSet(f, S) = g[S]
  BY SumIs
<1> HIDE DEF g
<1>3. \A s \in SUBSET S : g[s] = OneLess(f, g, s)
  BY <1>1 DEF Adds
<1> QED
  BY <1>2, <1>3

\* Functions that add alike agree where they both add, whatever they add to.
LEMMA SumsAgree ==
  ASSUME NEW f, NEW g, NEW S, NEW T, NEW u, NEW v,
         IsFiniteSet(S), IsFiniteSet(T), S \subseteq T,
         \A x \in S : f[x] = g[x],
         \A s \in SUBSET S : u[s] = OneLess(f, u, s),
         \A s \in SUBSET T : v[s] = OneLess(g, v, s)
  PROVE  \A s \in SUBSET S : u[s] = v[s]
<1> DEFINE N == {n \in Nat : \A s \in SUBSET S : Cardinality(s) <= n => u[s] = v[s]}
<1>1. 0 \in N
  <2>1. ASSUME NEW s \in SUBSET S, Cardinality(s) <= 0 PROVE s = {}
    BY <2>1, OneOut
  <2>2. u[{}] = 0 /\ v[{}] = 0
    BY DEF OneLess
  <2> QED
    BY <2>1, <2>2
<1>2. ASSUME NEW n \in N PROVE n + 1 \in N
  <2>1. ASSUME NEW s \in SUBSET S, Cardinality(s) <= n + 1, s # {} PROVE u[s] = v[s]
    <3>1. Picked(s) \in s /\ s \ {Picked(s)} \in SUBSET S /\ Cardinality(s \ {Picked(s)}) <= n
      BY <2>1, PickedIsIn, OneOut
    <3>2. u[s \ {Picked(s)}] = v[s \ {Picked(s)}] /\ f[Picked(s)] = g[Picked(s)]
      BY <3>1
    <3>3. u[s] = OneLess(f, u, s) /\ v[s] = OneLess(g, v, s)
      OBVIOUS
    <3> QED
      BY <2>1, <3>2, <3>3 DEF OneLess
  <2>2. u[{}] = 0 /\ v[{}] = 0
    BY DEF OneLess
  <2>3. \A s \in SUBSET S : Cardinality(s) <= n + 1 => u[s] = v[s]
    BY <2>1, <2>2
  <2> QED
    BY <2>3
<1>3. N = Nat
  <2> HIDE DEF N
  <2>1. N \in SUBSET Nat
    BY DEF N
  <2> QED
    BY <1>1, <1>2, <2>1, Successors
<1>4. ASSUME NEW s \in SUBSET S PROVE u[s] = v[s]
  <2>1. Cardinality(s) \in N
    BY <1>3, OneOut
  <2>2. Cardinality(s) <= Cardinality(s)
    BY OneOut
  <2> QED
    BY <2>1, <2>2
<1> QED
  BY <1>4

\* What is added first makes no difference.
LEMMA AnyFirst ==
  ASSUME NEW f, NEW S, IsFiniteSet(S), \A x \in S : f[x] \in Int, NEW g,
         \A s \in SUBSET S : g[s] = OneLess(f, g, s)
  PROVE  \A s \in SUBSET S : g[s] \in Int /\ \A x \in s : g[s] = f[x] + g[s \ {x}]
<1> DEFINE Ok(s) == g[s] \in Int /\ \A x \in s : g[s] = f[x] + g[s \ {x}]
           N == {n \in Nat : \A s \in SUBSET S : Cardinality(s) <= n => Ok(s)}
<1>1. 0 \in N
  <2>1. ASSUME NEW s \in SUBSET S, Cardinality(s) <= 0 PROVE s = {}
    BY <2>1, OneOut
  <2>2. Ok({})
    <3>1. g[{}] = OneLess(f, g, {})
      OBVIOUS
    <3>2. g[{}] = 0
      BY <3>1 DEF OneLess
    <3> QED
      BY <3>2
  <2> QED
    BY <2>1, <2>2
<1>2. ASSUME NEW n \in N PROVE n + 1 \in N
  <2>1. ASSUME NEW s \in SUBSET S, Cardinality(s) <= n + 1, s # {} PROVE Ok(s)
    <3> DEFINE p == Picked(s)
    <3>1. p \in s /\ s \ {p} \in SUBSET S /\ Cardinality(s \ {p}) <= n
      BY <2>1, PickedIsIn, OneOut
    <3>2. g[s] = f[p] + g[s \ {p}]
      BY <2>1 DEF OneLess
    <3> HIDE DEF p
    <3>3. Ok(s \ {p})
      BY <3>1
    <3>4. g[s] \in Int
      BY <3>1, <3>2, <3>3
    <3>5. ASSUME NEW x \in s, x # p PROVE g[s] = f[x] + g[s \ {x}]
      <4>1. x \in s \ {p} /\ p \in s \ {x} /\ (s \ {p}) \ {x} = (s \ {x}) \ {p}
        BY <3>1, <3>5
      <4>2. s \ {x} \in SUBSET S /\ Cardinality(s \ {x}) <= n
        BY <2>1, OneOut
      <4>3. Ok(s \ {x})
        BY <4>2
      <4>4. g[s \ {p}] = f[x] + g[(s \ {x}) \ {p}] /\ g[s \ {x}] = f[p] + g[(s \ {x}) \ {p}]
        <5>1. g[s \ {p}] = f[x] + g[(s \ {p}) \ {x}]
          BY <3>3, <4>1
        <5>2. g[(s \ {p}) \ {x}] = g[(s \ {x}) \ {p}]
          BY <4>1, Zenon
        <5> QED
          BY <4>1, <4>3, <5>1, <5>2
      <4>5. (s \ {x}) \ {p} \in SUBSET S /\ Cardinality((s \ {x}) \ {p}) <= n
        BY <4>1, <4>2, OneOut
      <4>6. g[(s \ {x}) \ {p}] \in Int /\ f[x] \in Int /\ f[p] \in Int
        BY <3>1, <4>5
      <4> QED
        BY <3>2, <4>4, <4>6
    <3> QED
      BY <3>2, <3>4, <3>5
  <2>2. Ok({})
    <3>1. g[{}] = OneLess(f, g, {})
      OBVIOUS
    <3>2. g[{}] = 0
      BY <3>1 DEF OneLess
    <3> QED
      BY <3>2
  <2> HIDE DEF Ok
  <2>3. ASSUME NEW s \in SUBSET S, Cardinality(s) <= n + 1 PROVE Ok(s)
    <3>1. CASE s = {}
      BY <2>2, <3>1, Zenon
    <3> QED
      BY <2>1, <2>3, <3>1
  <2>4. n + 1 \in Nat
    OBVIOUS
  <2> QED
    BY <2>3, <2>4
<1>3. N = Nat
  <2> HIDE DEF N
  <2>1. N \in SUBSET Nat
    BY DEF N
  <2> QED
    BY <1>1, <1>2, <2>1, Successors
<1>4. ASSUME NEW s \in SUBSET S PROVE Ok(s)
  <2>1. Cardinality(s) \in N
    BY <1>3, OneOut
  <2>2. Cardinality(s) <= Cardinality(s)
    BY OneOut
  <2> HIDE DEF Ok
  <2> QED
    BY <2>1, <2>2
<1> QED
  BY <1>4

-----------------------------------------------------------------------------
(* The facts about sums that the ledger needs.                              *)

LEMMA SumEmpty ==
  ASSUME NEW f
  PROVE  SumFunctionOnSet(f, {}) = 0
<1>1. IsFiniteSet({}) /\ \A x \in {} : f[x] \in Int
  BY FS_EmptySet
<1>2. PICK g : g[{}] = OneLess(f, g, {}) /\ SumFunctionOnSet(f, {}) = g[{}]
  BY <1>1, SumFacts
<1> QED
  BY <1>2 DEF OneLess

LEMMA SumSame ==
  ASSUME NEW f, NEW g, NEW S, IsFiniteSet(S), \A x \in S : f[x] \in Int /\ f[x] = g[x]
  PROVE  SumFunctionOnSet(f, S) = SumFunctionOnSet(g, S)
<1>1. PICK u : /\ \A s \in SUBSET S : u[s] = OneLess(f, u, s)
               /\ SumFunctionOnSet(f, S) = u[S]
  BY SumFacts
<1>2. \A x \in S : g[x] \in Int
  OBVIOUS
<1>3. PICK v : /\ \A s \in SUBSET S : v[s] = OneLess(g, v, s)
               /\ SumFunctionOnSet(g, S) = v[S]
  BY <1>2, SumFacts
<1> QED
  BY <1>1, <1>3, SumsAgree

LEMMA SumType ==
  ASSUME NEW f, NEW S, IsFiniteSet(S), \A x \in S : f[x] \in Int
  PROVE  SumFunctionOnSet(f, S) \in Int
<1>1. PICK g : /\ \A s \in SUBSET S : g[s] = OneLess(f, g, s)
               /\ SumFunctionOnSet(f, S) = g[S]
  BY SumFacts
<1> QED
  BY <1>1, AnyFirst

LEMMA SumAdd ==
  ASSUME NEW f, NEW S, IsFiniteSet(S), NEW x, x \notin S,
         \A y \in S \cup {x} : f[y] \in Int
  PROVE  SumFunctionOnSet(f, S \cup {x}) = f[x] + SumFunctionOnSet(f, S)
<1> DEFINE T == S \cup {x}
<1>1. IsFiniteSet(T) /\ T \ {x} = S /\ S \subseteq T
  BY FS_AddElement
<1>2. PICK v : /\ \A s \in SUBSET T : v[s] = OneLess(f, v, s)
               /\ SumFunctionOnSet(f, T) = v[T]
  BY <1>1, SumFacts
<1>3. PICK u : /\ \A s \in SUBSET S : u[s] = OneLess(f, u, s)
               /\ SumFunctionOnSet(f, S) = u[S]
  BY SumFacts
<1>4. u[S] = v[S]
  BY <1>1, <1>2, <1>3, SumsAgree
<1>5. v[T] = f[x] + v[T \ {x}]
  BY <1>1, <1>2, AnyFirst
<1> QED
  BY <1>1, <1>2, <1>3, <1>4, <1>5

\* A family of subsets of a finite set that has the empty one, and each of its
\* members with one element more, has the whole set.
LEMMA OneMore ==
  ASSUME NEW S, IsFiniteSet(S), NEW F, {} \in F,
         \A T \in SUBSET S : \A x \in S \ T : T \in F => T \cup {x} \in F
  PROVE  S \in F
<1> DEFINE N == {n \in Nat : \A T \in SUBSET S : Cardinality(T) <= n => T \in F}
<1>1. 0 \in N
  <2>1. ASSUME NEW T \in SUBSET S, Cardinality(T) <= 0 PROVE T = {}
    BY <2>1, OneOut
  <2> QED
    BY <2>1
<1>2. ASSUME NEW n \in N PROVE n + 1 \in N
  <2>1. ASSUME NEW T \in SUBSET S, Cardinality(T) <= n + 1, T # {} PROVE T \in F
    <3>1. PICK x \in T : TRUE
      BY <2>1
    <3> DEFINE R == T \ {x}
    <3>2. R \in SUBSET S /\ Cardinality(R) <= n
      BY <2>1, OneOut
    <3>3. R \in F /\ x \in S \ R /\ R \cup {x} = T
      BY <3>1, <3>2
    <3> HIDE DEF R
    <3>4. R \cup {x} \in F
      BY <3>2, <3>3
    <3> QED
      BY <3>3, <3>4
  <2>2. \A T \in SUBSET S : Cardinality(T) <= n + 1 => T \in F
    BY <2>1
  <2> QED
    BY <2>2
<1>3. N = Nat
  <2> HIDE DEF N
  <2>1. N \in SUBSET Nat
    BY DEF N
  <2> QED
    BY <1>1, <1>2, <2>1, Successors
<1>4. Cardinality(S) \in N /\ Cardinality(S) <= Cardinality(S)
  BY <1>3, FS_CardinalityType
<1> QED
  BY <1>4

\* Two sums over the same set differ by the sum of the differences, which is
\* taken where they differ.
LEMMA SumDifference ==
  ASSUME NEW f, NEW g, NEW h, NEW S, IsFiniteSet(S), NEW U \in SUBSET S,
         \A x \in S : f[x] \in Int /\ g[x] \in Int,
         \A x \in S \ U : f[x] = g[x],
         \A x \in U : h[x] = f[x] - g[x]
  PROVE  SumFunctionOnSet(f, S) - SumFunctionOnSet(g, S) = SumFunctionOnSet(h, U)
<1> DEFINE Ok(T) == SumFunctionOnSet(f, T) - SumFunctionOnSet(g, T)
                      = SumFunctionOnSet(h, T \cap U)
           F == {T \in SUBSET S : Ok(T)}
<1>1. {} \in F
  <2>1. {} \cap U = {}
    OBVIOUS
  <2>2. Ok({})
    BY <2>1, SumEmpty
  <2> QED
    BY <2>2
<1>2. ASSUME NEW T \in F, NEW x \in S \ T PROVE T \cup {x} \in F
  <2>1. /\ T \cup {x} \in SUBSET S /\ IsFiniteSet(T) /\ IsFiniteSet(T \cap U)
        /\ \A y \in T \cup {x} : f[y] \in Int /\ g[y] \in Int
        /\ \A y \in (T \cup {x}) \cap U : h[y] \in Int
    BY FS_Subset
  <2>2. SumFunctionOnSet(f, T \cup {x}) = f[x] + SumFunctionOnSet(f, T)
    BY <2>1, SumAdd
  <2>3. SumFunctionOnSet(g, T \cup {x}) = g[x] + SumFunctionOnSet(g, T)
    BY <2>1, SumAdd
  <2>4. SumFunctionOnSet(f, T) \in Int /\ SumFunctionOnSet(g, T) \in Int
    BY <2>1, SumType
  <2>5. Ok(T)
    OBVIOUS
  <2>6. CASE x \in U
    <3>1. (T \cup {x}) \cap U = (T \cap U) \cup {x} /\ x \notin T \cap U
      BY <2>6
    <3>2. SumFunctionOnSet(h, (T \cap U) \cup {x}) = h[x] + SumFunctionOnSet(h, T \cap U)
      BY <2>1, <3>1, SumAdd
    <3>3. h[x] = f[x] - g[x] /\ f[x] \in Int /\ g[x] \in Int
      BY <2>6
    <3>4. SumFunctionOnSet(h, (T \cup {x}) \cap U) = h[x] + SumFunctionOnSet(h, T \cap U)
      BY <3>1, <3>2, Zenon
    <3>5. Ok(T \cup {x})
      BY <2>2, <2>3, <2>4, <2>5, <3>3, <3>4
    <3> HIDE DEF Ok
    <3> QED
      BY <2>1, <3>5
  <2>7. CASE x \notin U
    <3>1. (T \cup {x}) \cap U = T \cap U
      BY <2>7
    <3>2. f[x] = g[x] /\ f[x] \in Int
      BY <2>7
    <3>3. SumFunctionOnSet(h, (T \cup {x}) \cap U) = SumFunctionOnSet(h, T \cap U)
      BY <3>1, Zenon
    <3>4. Ok(T \cup {x})
      BY <2>2, <2>3, <2>4, <2>5, <3>2, <3>3
    <3> HIDE DEF Ok
    <3> QED
      BY <2>1, <3>4
  <2> QED
    BY <2>6, <2>7
<1>3. S \in F
  <2> HIDE DEF F
  <2> QED
    BY <1>1, <1>2, OneMore
<1>4. S \cap U = U
  OBVIOUS
<1> QED
  BY <1>3, <1>4

LEMMA SumOne ==
  ASSUME NEW f, NEW x, f[x] \in Int
  PROVE  SumFunctionOnSet(f, {x}) = f[x]
<1>1. {} \cup {x} = {x} /\ IsFiniteSet({}) /\ \A y \in {} \cup {x} : f[y] \in Int
  BY FS_EmptySet
<1>2. SumFunctionOnSet(f, {} \cup {x}) = f[x] + SumFunctionOnSet(f, {})
  BY <1>1, SumAdd
<1> QED
  BY <1>1, <1>2, SumEmpty

\* One term changes.
LEMMA SumChange ==
  ASSUME NEW f, NEW g, NEW S, IsFiniteSet(S), NEW x \in S,
         \A y \in S : f[y] \in Int /\ g[y] \in Int,
         \A y \in S : y # x => f[y] = g[y]
  PROVE  SumFunctionOnSet(f, S) = SumFunctionOnSet(g, S) + (f[x] - g[x])
<1> DEFINE h == [y \in {x} |-> f[x] - g[x]]
<1>1. {x} \in SUBSET S /\ (\A y \in S \ {x} : f[y] = g[y]) /\ f[x] \in Int /\ g[x] \in Int
  OBVIOUS
<1>2. h[x] = f[x] - g[x] /\ \A y \in {x} : h[y] = f[y] - g[y]
  OBVIOUS
<1> HIDE DEF h
<1>3. SumFunctionOnSet(f, S) - SumFunctionOnSet(g, S) = SumFunctionOnSet(h, {x})
  BY <1>1, <1>2, SumDifference
<1>4. SumFunctionOnSet(h, {x}) = h[x]
  <2>1. h[x] \in Int
    BY <1>1, <1>2
  <2> QED
    BY <2>1, SumOne
<1>5. SumFunctionOnSet(f, S) \in Int /\ SumFunctionOnSet(g, S) \in Int
  BY SumType
<1> QED
  BY <1>1, <1>2, <1>3, <1>4, <1>5

\* Terms that are nothing may be left out.
LEMMA SumZeros ==
  ASSUME NEW f, NEW S, IsFiniteSet(S), NEW U \in SUBSET S,
         \A x \in S : f[x] \in Int, \A x \in S \ U : f[x] = 0
  PROVE  SumFunctionOnSet(f, S) = SumFunctionOnSet(f, U)
<1> DEFINE g == [x \in S |-> 0]
<1>1. \A x \in S : g[x] = 0
  OBVIOUS
<1> HIDE DEF g
<1>2. SumFunctionOnSet(f, S) - SumFunctionOnSet(g, S) = SumFunctionOnSet(f, U)
  <2>1. \A x \in S \ U : f[x] = g[x]
    BY <1>1
  <2>2. \A x \in U : f[x] = f[x] - g[x]
    BY <1>1
  <2>3. \A x \in S : f[x] \in Int /\ g[x] \in Int
    BY <1>1
  <2> QED
    BY <2>1, <2>2, <2>3, SumDifference
<1>3. SumFunctionOnSet(f, S) - SumFunctionOnSet(f, S) = SumFunctionOnSet(g, S)
  <2>1. \A x \in S : g[x] = f[x] - f[x]
    BY <1>1
  <2>2. \A x \in S \ S : f[x] = f[x]
    OBVIOUS
  <2>3. S \in SUBSET S
    OBVIOUS
  <2> QED
    BY <2>1, <2>2, <2>3, SumDifference
<1>4. SumFunctionOnSet(f, S) \in Int /\ SumFunctionOnSet(g, S) \in Int
  <2>1. \A x \in S : g[x] \in Int
    BY <1>1
  <2> QED
    BY <2>1, SumType
<1>5. IsFiniteSet(U) /\ \A x \in U : f[x] \in Int
  BY FS_Subset
<1>6. SumFunctionOnSet(f, U) \in Int
  BY <1>5, SumType
<1> QED
  BY <1>2, <1>3, <1>4, <1>6

\* What has been executed, fill by fill.
LEMMA PartSum ==
  ASSUME NEW s \in Seq(Nat), NEW n \in 0 .. Len(s)
  PROVE  /\ Total(SubSeq(s, 1, n)) = SumFunctionOnSet(s, 1 .. n)
         /\ Total(SubSeq(s, 1, n)) \in Int
<1> DEFINE t == SubSeq(s, 1, n)
<1>1. Len(s) \in Nat /\ \A i \in 1 .. Len(s) : s[i] \in Nat
  BY LenProperties, ElementOfSeq
<1>2. t \in Seq(Nat) /\ Len(t) = n /\ \A i \in 1 .. n : t[i] = s[i]
  <2>1. 1 \in Int /\ n \in Int /\ \A i \in 1 .. n : s[i] \in Nat
    BY <1>1
  <2> QED
    BY <2>1, SubSeqProperties
<1> HIDE DEF t
<1>3. DOMAIN t = 1 .. n
  BY <1>2, LenProperties
<1>4. IsFiniteSet(1 .. n) /\ \A i \in 1 .. n : t[i] \in Int /\ t[i] = s[i]
  <2>1. IsFiniteSet(1 .. n)
    BY FS_Interval
  <2>2. \A i \in 1 .. n : i \in 1 .. Len(s)
    BY <1>1
  <2> QED
    BY <1>1, <1>2, <2>1, <2>2
<1>5. SumFunctionOnSet(t, 1 .. n) = SumFunctionOnSet(s, 1 .. n) /\ SumFunctionOnSet(t, 1 .. n) \in Int
  BY <1>4, SumSame, SumType
<1>6. Total(t) = SumFunctionOnSet(t, 1 .. n)
  BY <1>3, Zenon DEF Total, SumFunction
<1> QED
  BY <1>5, <1>6 DEF t

LEMMA PartNext ==
  ASSUME NEW s \in Seq(Nat), NEW n \in 0 .. Len(s), n < Len(s)
  PROVE  Total(SubSeq(s, 1, n + 1)) = Total(SubSeq(s, 1, n)) + s[n + 1]
<1>1. Len(s) \in Nat /\ \A i \in 1 .. Len(s) : s[i] \in Nat
  BY LenProperties, ElementOfSeq
<1>2. 1 .. n + 1 = (1 .. n) \cup {n + 1} /\ n + 1 \notin 1 .. n /\ n + 1 \in 0 .. Len(s)
  BY <1>1
<1>3. IsFiniteSet(1 .. n) /\ \A i \in (1 .. n) \cup {n + 1} : s[i] \in Int
  <2>1. IsFiniteSet(1 .. n)
    BY FS_Interval
  <2>2. \A i \in 1 .. n + 1 : s[i] \in Int
    BY <1>1
  <2> QED
    BY <1>2, <2>1, <2>2
<1>4. SumFunctionOnSet(s, (1 .. n) \cup {n + 1}) = s[n + 1] + SumFunctionOnSet(s, 1 .. n)
  BY <1>2, <1>3, SumAdd
<1>5. Total(SubSeq(s, 1, n + 1)) = SumFunctionOnSet(s, 1 .. n + 1)
  BY <1>2, PartSum
<1>6. Total(SubSeq(s, 1, n)) = SumFunctionOnSet(s, 1 .. n) /\ Total(SubSeq(s, 1, n)) \in Int
  BY PartSum
<1>7. Total(SubSeq(s, 1, n + 1)) = s[n + 1] + SumFunctionOnSet(s, 1 .. n)
  BY <1>2, <1>4, <1>5, Zenon
<1>8. s[n + 1] \in Int
  BY <1>3
<1> QED
  BY <1>6, <1>7, <1>8

LEMMA TotalNone == Total(<<>>) = 0
<1>1. DOMAIN <<>> = {}
  OBVIOUS
<1> QED
  BY <1>1, SumEmpty, Zenon DEF Total, SumFunction

LEMMA PartNone ==
  ASSUME NEW s
  PROVE  Total(SubSeq(s, 1, 0)) = 0
<1>1. SubSeq(s, 1, 0) = <<>>
  BY SubSeqEmpty
<1> QED
  BY <1>1, TotalNone

\* Fills are of one contract at least: each adds to the sum.
LEMMA PartGrows ==
  ASSUME NEW s \in Seq(Nat \ {0}), NEW n \in 0 .. Len(s)
  PROVE  /\ Total(SubSeq(s, 1, n)) \in Nat /\ Total(s) \in Nat
         /\ Total(SubSeq(s, 1, n)) <= Total(s)
         /\ n < Len(s) => Total(SubSeq(s, 1, n)) < Total(s)
<1> DEFINE Part(i) == Total(SubSeq(s, 1, i))
<1>0. s \in Seq(Nat)
  BY SeqMonotonic
<1>1. Len(s) \in Nat /\ \A i \in 1 .. Len(s) : s[i] \in Nat \ {0}
  BY LenProperties, ElementOfSeq
<1>2. \A i \in 0 .. Len(s) : Part(i) \in Int
  BY <1>0, PartSum
<1>3. \A i \in 0 .. Len(s) : i < Len(s) => Part(i + 1) = Part(i) + s[i + 1]
  BY <1>0, PartNext
<1>4. Part(0) = 0 /\ Part(Len(s)) = Total(s)
  BY PartNone, SubSeqFull
<1> HIDE DEF Part
<1>5. ASSUME NEW m \in 0 .. Len(s)
      PROVE  \A k \in Nat : m + k <= Len(s) => Part(m) + k <= Part(m + k)
  <2> DEFINE N == {k \in Nat : m + k <= Len(s) => Part(m) + k <= Part(m + k)}
  <2>1. 0 \in N
    BY <1>1, <1>2
  <2>2. ASSUME NEW k \in N PROVE k + 1 \in N
    <3>1. CASE m + k + 1 <= Len(s)
      <4>1. m + k \in 0 .. Len(s) /\ m + k < Len(s) /\ m + k + 1 \in 1 .. Len(s)
        BY <1>1, <3>1
      <4>2. Part(m + k + 1) = Part(m + k) + s[m + k + 1]
        BY <1>3, <4>1
      <4>3. Part(m + k) \in Int /\ Part(m) \in Int /\ s[m + k + 1] \in Nat \ {0}
        BY <1>1, <1>2, <4>1
      <4>4. Part(m) + k <= Part(m + k)
        BY <1>1, <4>1
      <4>5. Part(m) + (k + 1) <= Part(m + k + 1)
        BY <4>2, <4>3, <4>4
      <4>6. m + k + 1 = m + (k + 1)
        OBVIOUS
      <4> QED
        BY <4>5, <4>6
    <3> QED
      BY <1>1, <3>1
  <2> HIDE DEF N
  <2>3. N = Nat
    <3>1. N \in SUBSET Nat
      BY DEF N
    <3> QED
      BY <2>1, <2>2, <3>1, Successors
  <2> QED
    BY <2>3 DEF N
<1>6. Part(n) \in Int /\ Total(s) \in Int
  BY <1>1, <1>2, <1>4
<1>7. n <= Part(n)
  <2>1. 0 \in 0 .. Len(s) /\ n \in Nat /\ 0 + n <= Len(s) /\ 0 + n = n
    BY <1>1
  <2> QED
    BY <1>4, <1>5, <2>1
<1>8. Part(n) + (Len(s) - n) <= Total(s)
  <2>1. Len(s) - n \in Nat /\ n + (Len(s) - n) = Len(s)
    BY <1>1
  <2>2. Part(n) + (Len(s) - n) <= Part(n + (Len(s) - n))
    BY <1>1, <1>5, <2>1
  <2>3. Part(n + (Len(s) - n)) = Total(s)
    BY <1>4, <2>1, Zenon
  <2> QED
    BY <2>2, <2>3
<1>9. Part(n) \in Nat /\ Total(s) \in Nat /\ Part(n) <= Total(s) /\ (n < Len(s) => Part(n) < Total(s))
  BY <1>1, <1>6, <1>7, <1>8
<1> QED
  BY <1>9 DEF Part

LEMMA TotalAppend ==
  ASSUME NEW s \in Seq(Nat), NEW k \in Nat
  PROVE  /\ Total(Append(s, k)) = Total(s) + k
         /\ Len(Append(s, k)) = Len(s) + 1 /\ Len(s) \in Nat
         /\ \A n \in 0 .. Len(s) : SubSeq(Append(s, k), 1, n) = SubSeq(s, 1, n)
         /\ \A i \in 1 .. Len(s) : Append(s, k)[i] = s[i]
<1> DEFINE t == Append(s, k)
<1>1. /\ t \in Seq(Nat) /\ Len(t) = Len(s) + 1 /\ t[Len(s) + 1] = k
      /\ \A i \in 1 .. Len(s) : t[i] = s[i]
  BY AppendProperties
<1>2. Len(s) \in Nat /\ (\A i \in 1 .. Len(s) : s[i] \in Nat) /\ (\A i \in 1 .. Len(t) : t[i] \in Nat)
  BY <1>1, LenProperties, ElementOfSeq
<1> HIDE DEF t
<1>3. ASSUME NEW n \in 0 .. Len(s) PROVE SubSeq(t, 1, n) = SubSeq(s, 1, n)
  <2>1. 1 \in Int /\ n \in Int /\ (\A i \in 1 .. n : s[i] \in Nat) /\ \A i \in 1 .. n : t[i] \in Nat
    BY <1>1, <1>2
  <2>2. SubSeq(s, 1, n) \in Seq(Nat) /\ Len(SubSeq(s, 1, n)) = n /\ \A i \in 1 .. n : SubSeq(s, 1, n)[i] = s[i]
    BY <2>1, SubSeqProperties
  <2>3. SubSeq(t, 1, n) \in Seq(Nat) /\ Len(SubSeq(t, 1, n)) = n /\ \A i \in 1 .. n : SubSeq(t, 1, n)[i] = t[i]
    BY <2>1, SubSeqProperties
  <2>4. \A i \in 1 .. n : SubSeq(t, 1, n)[i] = SubSeq(s, 1, n)[i]
    BY <1>1, <1>2, <2>2, <2>3
  <2> QED
    BY <2>2, <2>3, <2>4, SeqEqual
<1>4. Len(s) \in 0 .. Len(t) /\ Len(s) < Len(t) /\ Len(s) + 1 = Len(t)
  BY <1>1, <1>2
<1>5. Total(SubSeq(t, 1, Len(s) + 1)) = Total(SubSeq(t, 1, Len(s))) + k
  BY <1>1, <1>4, PartNext
<1>6. SubSeq(t, 1, Len(s) + 1) = t /\ SubSeq(t, 1, Len(s)) = s
  <2>1. SubSeq(t, 1, Len(t)) = t
    BY <1>1, SubSeqFull
  <2>2. SubSeq(s, 1, Len(s)) = s
    BY SubSeqFull
  <2>3. Len(s) \in 0 .. Len(s)
    BY <1>2
  <2> QED
    BY <1>3, <1>4, <2>1, <2>2, <2>3
<1>7. Total(t) = Total(s) + k
  BY <1>5, <1>6, Zenon
<1> QED
  BY <1>1, <1>2, <1>3, <1>7 DEF t

-----------------------------------------------------------------------------
(* Nothing is oversold, and differences are explained.                      *)

\* What Binance has executed of each order, and what the ledger has booked of
\* it; what has been sold of a position, as the ledger has booked it.
Executed == [o \in Ids |-> Total(ex[o].fills)]
Booked == [o \in Ids |-> BookedQty(o)]
Sold(p) == SumFunctionOnSet(Booked, Closers(p))

\* The row r of an order and Binance's record e of it: no more is executed than
\* its quantity, and nothing that was not accepted; the ledger books the first
\* of its fills; it is final when Binance can execute no more of it and all
\* that it executed is booked.
RowOk(r, e) ==
    /\ r.act \in {"open", "close"} /\ r.qty \in Nat
    /\ e.fills \in Seq(Nat \ {0}) /\ Total(e.fills) <= r.qty
    /\ r.booked \in 0 .. Len(e.fills)
    /\ e.posts = 0 => e.st = "none"
    /\ e.st \in {"none", "refused"} => e.fills = <<>>
    /\ r.st = "queued" => e.st \in {"none", "refused"}
    /\ r.st = "final" => /\ e.st # "open"
                         /\ Total(SubSeq(e.fills, 1, r.booked)) = Total(e.fills)
RowsInv == \A o \in Ids : RowOk(order[o], ex[o])

\* The order a call is about to post is neither in the queue nor final, and one
\* that was refused is not at Binance; a call about to save closing orders has
\* read of each of its positions once.
CallOk(s) ==
    /\ snd[s].pc = "post" => order[Head(snd[s].todo)].st \notin {"queued", "final"}
    /\ snd[s].pc = "settle" /\ snd[s].ans = "refused" =>
          ex[Head(snd[s].todo)].st = "refused"
    /\ snd[s].pc = "begin" /\ snd[s].act = "close" =>
          /\ \A i \in DOMAIN snd[s].legs :
                snd[s].legs[i][1] \in Positions /\ snd[s].legs[i][2] \in Nat
          /\ \A i, j \in DOMAIN snd[s].legs :
                snd[s].legs[i][1] = snd[s].legs[j][1] => i = j
CallsInv == \A s \in Senders : CallOk(s)

\* What a pass c has read of its order: of one that Binance has ended, all
\* there is; and it books the fills in their order.
PassOk(c, r, e) ==
    /\ c.pc \in {"trades", "apply"} /\ c.done => e.st = "done" /\ c.exec = Total(e.fills)
    /\ c.pc = "cancel" => e.st \in {"open", "done"} /\ ~c.done
    /\ c.pc = "apply" => /\ Len(c.fills) \in 0 .. Len(e.fills)
                         /\ c.fills = SubSeq(e.fills, 1, Len(c.fills))
                         /\ c.n \in 1 .. r.booked + 1
PassFields == DOMAIN IdleWorker
PassInv ==
    /\ DOMAIN wrk = Workers
    /\ \A w \in Workers :
          /\ DOMAIN wrk[w] = PassFields
          /\ wrk[w].pc # "idle" =>
                wrk[w].o \in Ids /\ PassOk(wrk[w], order[wrk[w].o], ex[wrk[w].o])

\* A position is a booked fill of an entry, and what is left of it is what was
\* not booked of the orders that close it.
IsFillOf(p) == /\ p = <<p[1], p[2]>> /\ p[1] \in Opens
               /\ p[2] \in 1 .. order[p[1]].booked
HeldInv ==
    /\ \A o \in Ids \ Opens : order[o].pos \in Positions
    /\ \A o \in Opens : order[o].pos = NoPosition
    /\ \A p \in Positions :
          /\ IsFillOf(p) /\ held[p] \in Nat
          /\ held[p] + Sold(p) = ex[p[1]].fills[p[2]]

\* Of the orders that close a position one is alive at most, and what it may
\* still sell is there.
AliveInv ==
    /\ \A o, q \in Ids \ Opens :
          Unresolved(o) /\ Unresolved(q) /\ order[o].pos = order[q].pos => o = q
    /\ \A o \in Ids \ Opens :
          Unresolved(o) => order[o].qty - BookedQty(o) <= held[order[o].pos]

\* The positions of the ledger are what it has booked.
NetInv == LedgerNet = SumFunctionOnSet(Booked, Opens) - SumFunctionOnSet(Booked, Ids \ Opens)

SoldInv == RowsInv /\ CallsInv /\ PassInv /\ HeldInv /\ AliveInv /\ NetInv

-----------------------------------------------------------------------------
(* Steps that book nothing.                                                 *)

\* What a row is for is not changed, nothing is booked of it.
BooksKept ==
    \A o \in Ids : order'[o].qty = order[o].qty /\ order'[o].booked = order[o].booked

\* No order becomes final, or goes back to the queue.
NoneSettled ==
    \A o \in Ids : order'[o].st \in {"queued", "final"} => order'[o].st = order[o].st

\* Binance's record f of an order follows e with nothing executed.
NothingFilled(f, e) ==
    /\ f.fills = e.fills /\ f.posts = e.posts
    /\ f.st = e.st \/ (f.st = "done" /\ e.st \in {"open", "done"})
ExKept == \A o \in Ids : NothingFilled(ex'[o], ex[o])

LEMMA OneRow ==
  ASSUME Shape, NEW o, NEW x, order' = [order EXCEPT ![o] = x]
  PROVE  /\ o \in Ids => order'[o] = x
         /\ \A q \in Ids : q # o => order'[q] = order[q]
  BY ListExcept DEF Shape, Ids

\* The row of one order gets a field that is not of its books.
LEMMA KeptField ==
  ASSUME Shape, NEW o, NEW v,
         \/ order' = [order EXCEPT ![o].lease = v]
         \/ order' = [order EXCEPT ![o].late = v]
         \/ order' = [order EXCEPT ![o].st = v] /\ v \notin {"queued", "final"}
  PROVE  BooksKept /\ NoneSettled
<1>1. ASSUME NEW x, order' = [order EXCEPT ![o] = x],
             o \in Ids => /\ x.qty = order[o].qty /\ x.booked = order[o].booked
                          /\ x.st \in {"queued", "final"} => x.st = order[o].st
      PROVE  BooksKept /\ NoneSettled
  <2>1. /\ o \in Ids => order'[o] = x
        /\ \A q \in Ids : q # o => order'[q] = order[q]
    BY <1>1, OneRow
  <2> QED
    BY <1>1, <2>1 DEF BooksKept, NoneSettled
<1>2. CASE order' = [order EXCEPT ![o].lease = v]
  <2> DEFINE x == [order[o] EXCEPT !.lease = v]
  <2>1. x.qty = order[o].qty /\ x.booked = order[o].booked /\ x.st = order[o].st
    OBVIOUS
  <2>2. order' = [order EXCEPT ![o] = x]
    BY <1>2
  <2> HIDE DEF x
  <2> QED
    BY <1>1, <2>1, <2>2
<1>3. CASE order' = [order EXCEPT ![o].late = v]
  <2> DEFINE x == [order[o] EXCEPT !.late = v]
  <2>1. x.qty = order[o].qty /\ x.booked = order[o].booked /\ x.st = order[o].st
    OBVIOUS
  <2>2. order' = [order EXCEPT ![o] = x]
    BY <1>3
  <2> HIDE DEF x
  <2> QED
    BY <1>1, <2>1, <2>2
<1>4. CASE order' = [order EXCEPT ![o].st = v] /\ v \notin {"queued", "final"}
  <2> DEFINE x == [order[o] EXCEPT !.st = v]
  <2>1. o \in Ids => x.qty = order[o].qty /\ x.booked = order[o].booked /\ x.st = v
    BY DEF Shape, OrderFields
  <2>2. order' = [order EXCEPT ![o] = x]
    BY <1>4
  <2> HIDE DEF x
  <2> QED
    BY <1>1, <1>4, <2>1, <2>2
<1> QED
  BY <1>2, <1>3, <1>4

LEMMA KeptAsk ==
  ASSUME Shape, NEW O, order' = AskCancel(O)
  PROVE  BooksKept /\ NoneSettled
<1>1. ASSUME NEW o \in Ids
      PROVE  /\ order'[o].qty = order[o].qty /\ order'[o].booked = order[o].booked
             /\ order'[o].st = order[o].st
  <2>1. order'[o] = [order[o] EXCEPT !.cancel = order[o].cancel \/ o \in O]
    BY DEF AskCancel
  <2> QED
    BY <2>1
<1> QED
  BY <1>1 DEF BooksKept, NoneSettled

LEMMA KeptSame ==
  ASSUME UNCHANGED order
  PROVE  BooksKept /\ NoneSettled
  BY DEF BooksKept, NoneSettled, Ids

LEMMA KeptRelease ==
  ASSUME Shape, NEW w, Release(w)
  PROVE  BooksKept /\ NoneSettled
<1> DEFINE o == wrk[w].o
           v == IF order[o].lease = w THEN NoOne ELSE order[o].lease
<1>1. order' = [order EXCEPT ![o].lease = v]
  BY DEF Release, FreeLease
<1> HIDE DEF o, v
<1> QED
  BY <1>1, KeptField

LEMMA KeptGiveUp ==
  ASSUME Shape, NEW w, GiveUp(w)
  PROVE  BooksKept /\ NoneSettled
<1> DEFINE o == wrk[w].o
           y == [order[o] EXCEPT !.st = IF order[o].st = "final" THEN order[o].st ELSE "attention"]
           x == [y EXCEPT !.lease = IF y.lease = w THEN NoOne ELSE y.lease]
<1>1. order' = [order EXCEPT ![o] = x]
  <2>1. MarkAttention(o) = [order EXCEPT ![o] = y]
    BY DEF MarkAttention
  <2>2. order' = [MarkAttention(o) EXCEPT
                    ![o].lease = IF MarkAttention(o)[o].lease = w THEN NoOne ELSE MarkAttention(o)[o].lease]
    BY DEF GiveUp, FreeLease
  <2> HIDE DEF y, o
  <2>3. order' = [[order EXCEPT ![o] = y] EXCEPT
                    ![o].lease = IF [order EXCEPT ![o] = y][o].lease = w THEN NoOne
                                 ELSE [order EXCEPT ![o] = y][o].lease]
    BY <2>1, <2>2
  <2>4. CASE o \in Ids
    <3>1. [order EXCEPT ![o] = y][o] = y
      BY <2>4 DEF Ids
    <3> QED
      BY <2>3, <3>1
  <2>5. CASE o \notin Ids
    BY <2>3, <2>5 DEF Ids
  <2> QED
    BY <2>4, <2>5
<1>2. o \in Ids => /\ x.qty = order[o].qty /\ x.booked = order[o].booked
                   /\ x.st \in {"queued", "final"} => x.st = order[o].st
  BY DEF Shape, OrderFields
<1> HIDE DEF x, o
<1>3. /\ o \in Ids => order'[o] = x
      /\ \A q \in Ids : q # o => order'[q] = order[q]
  BY <1>1, OneRow
<1> QED
  BY <1>2, <1>3 DEF BooksKept, NoneSettled

LEMMA KeptFinish ==
  ASSUME Shape, NEW o \in Ids, order' = Finish(o)
  PROVE  /\ BooksKept /\ order'[o].st = "final"
         /\ \A q \in Ids : q # o => order'[q] = order[q]
<1> DEFINE x == [order[o] EXCEPT !.st = "final", !.lease = NoOne, !.cancel = FALSE, !.late = FALSE]
<1>1. order' = [order EXCEPT ![o] = x]
  BY DEF Finish
<1>2. x.qty = order[o].qty /\ x.booked = order[o].booked /\ x.st = "final"
  BY DEF Shape, OrderFields
<1> HIDE DEF x
<1>3. order'[o] = x /\ \A q \in Ids : q # o => order'[q] = order[q]
  BY <1>1, OneRow
<1> QED
  BY <1>2, <1>3 DEF BooksKept

LEMMA KeptRejected ==
  ASSUME Shape, NEW o \in Ids, order' = Rejected(o)
  PROVE  /\ BooksKept /\ order'[o].st = "queued"
         /\ \A q \in Ids : q # o => order'[q] = order[q]
<1> DEFINE x == [order[o] EXCEPT !.st = "queued", !.cancel = TRUE]
<1>1. order' = [order EXCEPT ![o] = x]
  BY DEF Rejected
<1>2. x.qty = order[o].qty /\ x.booked = order[o].booked /\ x.st = "queued"
  BY DEF Shape, OrderFields
<1> HIDE DEF x
<1>3. order'[o] = x /\ \A q \in Ids : q # o => order'[q] = order[q]
  BY <1>1, OneRow
<1> QED
  BY <1>2, <1>3 DEF BooksKept

\* What a row r and Binance's record e may become, x and y, with no pass that
\* has read them misled.
Grows(r, e, x, y) ==
    /\ r.booked <= x.booked
    /\ e.st = "done" => y.st = "done" /\ y.fills = e.fills
    /\ e.st \in {"open", "done"} => y.st \in {"open", "done"}
    /\ Len(e.fills) <= Len(y.fills)
    /\ \A n \in 0 .. Len(e.fills) : SubSeq(y.fills, 1, n) = SubSeq(e.fills, 1, n)
    /\ \A n \in 1 .. Len(e.fills) : y.fills[n] = e.fills[n]
RowsGrow == \A o \in Ids : Grows(order[o], ex[o], order'[o], ex'[o])

LEMMA FillsType ==
  ASSUME NEW r, NEW e, RowOk(r, e)
  PROVE  Len(e.fills) \in Nat /\ r.booked \in Nat /\ e.fills \in Seq(Nat \ {0})
<1>1. e.fills \in Seq(Nat \ {0}) /\ r.booked \in 0 .. Len(e.fills)
  BY DEF RowOk
<1>2. Len(e.fills) \in Nat
  BY <1>1, LenProperties
<1> QED
  BY <1>1, <1>2

LEMMA PassKept ==
  ASSUME NEW c, NEW r, NEW e, NEW x, NEW y,
         PassOk(c, r, e), RowOk(r, e), RowOk(x, y), Grows(r, e, x, y)
  PROVE  PassOk(c, x, y)
<1>1. /\ Len(e.fills) \in Nat /\ r.booked \in Nat
      /\ Len(y.fills) \in Nat /\ x.booked \in Nat
  BY FillsType
<1>2. c.pc \in {"trades", "apply"} /\ c.done => y.st = "done" /\ c.exec = Total(y.fills)
  BY DEF PassOk, Grows
<1>3. c.pc = "cancel" => y.st \in {"open", "done"} /\ ~c.done
  BY DEF PassOk, Grows
<1>4. ASSUME c.pc = "apply"
      PROVE  /\ Len(c.fills) \in 0 .. Len(y.fills)
             /\ c.fills = SubSeq(y.fills, 1, Len(c.fills))
             /\ c.n \in 1 .. x.booked + 1
  <2>1. /\ Len(c.fills) \in 0 .. Len(e.fills)
        /\ c.fills = SubSeq(e.fills, 1, Len(c.fills))
        /\ c.n \in 1 .. r.booked + 1
    BY <1>4 DEF PassOk
  <2>2. r.booked <= x.booked /\ Len(e.fills) <= Len(y.fills)
    BY DEF Grows
  <2>3. SubSeq(y.fills, 1, Len(c.fills)) = SubSeq(e.fills, 1, Len(c.fills))
    BY <2>1 DEF Grows
  <2> QED
    BY <1>1, <2>1, <2>2, <2>3
<1> QED
  BY <1>2, <1>3, <1>4 DEF PassOk

LEMMA PassesKept ==
  ASSUME PassInv, RowsInv, RowsInv', Ids \subseteq Ids', RowsGrow, DOMAIN wrk' = Workers,
         \A w \in Workers :
            \/ wrk'[w] = wrk[w]
            \/ /\ DOMAIN wrk'[w] = PassFields
               /\ wrk'[w].pc # "idle" =>
                     wrk'[w].o \in Ids' /\ PassOk(wrk'[w], order'[wrk'[w].o], ex'[wrk'[w].o])
  PROVE  PassInv'
<1>1. ASSUME NEW w \in Workers, wrk'[w] = wrk[w], wrk[w].pc # "idle"
      PROVE  wrk[w].o \in Ids' /\ PassOk(wrk[w], order'[wrk[w].o], ex'[wrk[w].o])
  <2>1. PICK c : c = wrk[w]
    OBVIOUS
  <2>2. PICK o : o = c.o
    OBVIOUS
  <2>3. o \in Ids /\ PassOk(c, order[o], ex[o])
    BY <1>1, <2>1, <2>2 DEF PassInv
  <2>4. PICK r, e, x, y : r = order[o] /\ e = ex[o] /\ x = order'[o] /\ y = ex'[o]
    OBVIOUS
  <2>5. PassOk(c, r, e) /\ RowOk(r, e) /\ RowOk(x, y) /\ Grows(r, e, x, y)
    BY <2>3, <2>4 DEF RowsInv, RowsGrow
  <2>6. PassOk(c, x, y)
    BY <2>5, PassKept
  <2> QED
    BY <2>1, <2>2, <2>3, <2>4, <2>6
<1>2. \A w \in Workers :
         /\ DOMAIN wrk'[w] = PassFields
         /\ wrk'[w].pc # "idle" =>
               wrk'[w].o \in Ids' /\ PassOk(wrk'[w], order'[wrk'[w].o], ex'[wrk'[w].o])
  BY <1>1 DEF PassInv
<1> QED
  BY <1>2 DEF PassInv, PassFields

LEMMA PassesOne ==
  ASSUME PassInv, RowsInv, RowsInv', Ids \subseteq Ids', RowsGrow,
         NEW w, NEW c, wrk' = [wrk EXCEPT ![w] = c], DOMAIN c = PassFields,
         c.pc # "idle" => c.o \in Ids' /\ PassOk(c, order'[c.o], ex'[c.o])
  PROVE  PassInv'
<1>1. DOMAIN wrk' = Workers /\ \A v \in Workers : wrk'[v] = wrk[v] \/ wrk'[v] = c
  BY DEF PassInv
<1> QED
  BY <1>1, PassesKept

LEMMA PassesSame ==
  ASSUME PassInv, RowsInv, RowsInv', Ids \subseteq Ids', RowsGrow, UNCHANGED wrk
  PROVE  PassInv'
<1>1. DOMAIN wrk' = Workers /\ \A v \in Workers : wrk'[v] = wrk[v]
  BY DEF PassInv
<1> QED
  BY <1>1, PassesKept

\* The calls that a step leaves alone.
SentKept ==
    /\ Positions \subseteq Positions'
    /\ \A o \in Ids :
          order'[o].st \in {"queued", "final"} =>
             order[o].st \in {"queued", "final"} \/ ex[o].posts # 0
    /\ \A o \in Ids : ex[o].st = "refused" => ex'[o].st = "refused"

LEMMA CallKept ==
  ASSUME LedgerInv, CallsInv, SentKept, NEW s \in Senders, snd'[s] = snd[s]
  PROVE  CallOk(s)'
<1>1. CallOk(s)
  BY DEF CallsInv
<1>2. Sending(s) => Head(snd[s].todo) \in Ids
  BY HeadInLedger
<1>3. ASSUME snd[s].pc = "post" PROVE order'[Head(snd[s].todo)].st \notin {"queued", "final"}
  <2>1. ex[Head(snd[s].todo)].posts = 0
    BY <1>3 DEF LedgerInv, PostInv
  <2> QED
    BY <1>1, <1>2, <1>3, <2>1 DEF CallOk, SentKept, Sending
<1>4. ASSUME snd[s].pc = "settle", snd[s].ans = "refused"
      PROVE  ex'[Head(snd[s].todo)].st = "refused"
  BY <1>1, <1>2, <1>4 DEF CallOk, SentKept, Sending
<1> QED
  BY <1>1, <1>3, <1>4 DEF CallOk, SentKept

LEMMA CallsKept ==
  ASSUME LedgerInv, CallsInv, SentKept,
         \A t \in Senders : snd'[t] = snd[t] \/ CallOk(t)'
  PROVE  CallsInv'
<1>1. ASSUME NEW t \in Senders PROVE CallOk(t)'
  BY CallKept
<1> QED
  BY <1>1 DEF CallsInv

LEMMA QuietRow ==
  ASSUME NEW r, NEW e, NEW x, NEW y, RowOk(r, e), NothingFilled(y, e),
         x.act = r.act, x.qty = r.qty, x.booked = r.booked,
         x.st \in {"queued", "final"} => x.st = r.st
  PROVE  RowOk(x, y) /\ Grows(r, e, x, y)
<1>1. Len(e.fills) \in Nat /\ r.booked \in Nat
  BY FillsType
<1>2. Grows(r, e, x, y)
  BY <1>1 DEF Grows, NothingFilled
<1>3. RowOk(x, y)
  BY DEF RowOk, NothingFilled
<1> QED
  BY <1>2, <1>3

LEMMA QuietRows ==
  ASSUME RowsInv, Calm, BooksKept, NoneSettled, ExKept
  PROVE  RowsInv' /\ RowsGrow
<1>1. ASSUME NEW o \in Ids
      PROVE  RowOk(order'[o], ex'[o]) /\ Grows(order[o], ex[o], order'[o], ex'[o])
  <2>1. PICK r, e, x, y : r = order[o] /\ e = ex[o] /\ x = order'[o] /\ y = ex'[o]
    OBVIOUS
  <2>2. /\ RowOk(r, e) /\ NothingFilled(y, e)
        /\ x.act = r.act /\ x.qty = r.qty /\ x.booked = r.booked
        /\ x.st \in {"queued", "final"} => x.st = r.st
    BY <2>1 DEF RowsInv, Calm, KeepsOrder, BooksKept, NoneSettled, ExKept
  <2>3. RowOk(x, y) /\ Grows(r, e, x, y)
    BY <2>2, QuietRow
  <2> QED
    BY <2>1, <2>3
<1> QED
  BY <1>1 DEF Calm, RowsInv, RowsGrow

\* An order becomes final.
LEMMA FinishRows ==
  ASSUME Shape, RowsInv, NEW o \in Ids, order' = Finish(o), UNCHANGED ex,
         ex[o].st # "open", BookedQty(o) = Total(ex[o].fills)
  PROVE  RowsInv' /\ RowsGrow
<1>1. Calm
  BY CalmFinish
<1>2. /\ BooksKept /\ order'[o].st = "final"
      /\ \A q \in Ids : q # o => order'[q] = order[q]
  BY KeptFinish
<1>3. ASSUME NEW q \in Ids
      PROVE  RowOk(order'[q], ex'[q]) /\ Grows(order[q], ex[q], order'[q], ex'[q])
  <2>1. PICK r, e, x : r = order[q] /\ e = ex[q] /\ x = order'[q]
    OBVIOUS
  <2>2. /\ RowOk(r, e) /\ x.act = r.act /\ x.qty = r.qty /\ x.booked = r.booked
        /\ q # o => x.st = r.st
        /\ q = o => x.st = "final" /\ e.st # "open"
                    /\ Total(SubSeq(e.fills, 1, r.booked)) = Total(e.fills)
    BY <1>1, <1>2, <2>1 DEF RowsInv, Calm, KeepsOrder, BooksKept, BookedQty
  <2>3. Len(e.fills) \in Nat /\ r.booked \in Nat
    BY <2>2, FillsType
  <2>4. RowOk(x, e) /\ Grows(r, e, x, e)
    BY <2>2, <2>3 DEF RowOk, Grows
  <2> QED
    BY <2>1, <2>4
<1> QED
  BY <1>1, <1>3 DEF Calm, RowsInv, RowsGrow

\* A step that saves no order and books nothing.
Plain ==
    /\ Calm /\ BooksKept /\ RowsGrow /\ UNCHANGED held
    /\ RowsInv' /\ CallsInv' /\ PassInv'

LEMMA BookedType ==
  ASSUME RowsInv, NEW o \in Ids
  PROVE  /\ BookedQty(o) \in Nat /\ Total(ex[o].fills) \in Nat /\ order[o].qty \in Nat
         /\ BookedQty(o) <= Total(ex[o].fills)
<1>1. PICK r, e : r = order[o] /\ e = ex[o]
  OBVIOUS
<1>2. RowOk(r, e)
  BY <1>1 DEF RowsInv
<1>3. e.fills \in Seq(Nat \ {0}) /\ r.booked \in 0 .. Len(e.fills)
  BY <1>2 DEF RowOk
<1>4. /\ Total(SubSeq(e.fills, 1, r.booked)) \in Nat /\ Total(e.fills) \in Nat
      /\ Total(SubSeq(e.fills, 1, r.booked)) <= Total(e.fills)
  BY <1>3, PartGrows
<1>5. r.qty \in Nat
  BY <1>2 DEF RowOk
<1> QED
  BY <1>1, <1>4, <1>5 DEF BookedQty

LEMMA FillsKept ==
  ASSUME RowsInv, RowsGrow, NEW o \in Ids
  PROVE  /\ order'[o].booked = order[o].booked => BookedQty(o)' = BookedQty(o)
         /\ \A n \in 1 .. order[o].booked : ex'[o].fills[n] = ex[o].fills[n]
<1>1. PICK r, e, x, y : r = order[o] /\ e = ex[o] /\ x = order'[o] /\ y = ex'[o]
  OBVIOUS
<1>2. RowOk(r, e) /\ Grows(r, e, x, y)
  BY <1>1 DEF RowsInv, RowsGrow
<1>3. r.booked \in 0 .. Len(e.fills) /\ r.booked \in Nat /\ Len(e.fills) \in Nat
  BY <1>2, FillsType DEF RowOk
<1>4. SubSeq(y.fills, 1, r.booked) = SubSeq(e.fills, 1, r.booked)
  BY <1>2, <1>3 DEF Grows
<1>5. \A n \in 1 .. r.booked : y.fills[n] = e.fills[n]
  BY <1>2, <1>3 DEF Grows
<1>6. x.booked = r.booked => Total(SubSeq(y.fills, 1, x.booked)) = Total(SubSeq(e.fills, 1, r.booked))
  BY <1>4
<1> QED
  BY <1>1, <1>5, <1>6 DEF BookedQty

LEMMA PlainStep ==
  ASSUME LedgerInv, SoldInv, Plain
  PROVE  SoldInv'
<1> USE DEF SoldInv, Plain
<1>1. Ids' = Ids /\ Opens' = Opens
  BY DEF Calm, KeepsOrder, Opens
<1>2. \A p : Closers(p)' = Closers(p)
  BY <1>1 DEF Calm, KeepsOrder, Closers
<1>3. \A o \in Ids : BookedQty(o)' = BookedQty(o)
  BY FillsKept DEF BooksKept
<1>4. Booked' = Booked
  BY <1>1, <1>3 DEF Booked
<1>5. \A p : Sold(p)' = Sold(p)
  BY <1>2, <1>4 DEF Sold
<1>6. \A o \in Ids : /\ order'[o].pos = order[o].pos
                     /\ order'[o].booked = order[o].booked /\ order'[o].qty = order[o].qty
                     /\ Unresolved(o)' => Unresolved(o)
  BY DEF Calm, KeepsOrder, BooksKept, Unresolved
<1>7. Positions' = Positions
  BY DEF Positions
<1>8. HeldInv'
  <2>1. ASSUME NEW p \in Positions
        PROVE  /\ IsFillOf(p)' /\ held'[p] \in Nat
               /\ held'[p] + Sold(p)' = ex'[p[1]].fills[p[2]]
    <3>1. /\ p = <<p[1], p[2]>> /\ p[1] \in Opens /\ p[2] \in 1 .. order[p[1]].booked
          /\ held[p] \in Nat /\ held[p] + Sold(p) = ex[p[1]].fills[p[2]]
      BY DEF HeldInv, IsFillOf
    <3>2. p[1] \in Ids
      BY <3>1 DEF Opens
    <3>3. ex'[p[1]].fills[p[2]] = ex[p[1]].fills[p[2]]
      BY <3>1, <3>2, FillsKept
    <3> QED
      BY <1>1, <1>5, <1>6, <3>1, <3>2, <3>3 DEF IsFillOf
  <2>2. \A o \in Ids' \ Opens' : order'[o].pos \in Positions'
    BY <1>1, <1>6, <1>7 DEF HeldInv
  <2>3. \A o \in Opens' : order'[o].pos = NoPosition
    BY <1>1, <1>6 DEF HeldInv, Opens
  <2> QED
    BY <1>7, <2>1, <2>2, <2>3 DEF HeldInv
<1>9. AliveInv'
  <2>1. \A o, q \in Ids' \ Opens' :
          Unresolved(o)' /\ Unresolved(q)' /\ order'[o].pos = order'[q].pos => o = q
    BY <1>1, <1>6 DEF AliveInv
  <2>2. ASSUME NEW o \in Ids' \ Opens', Unresolved(o)'
        PROVE  order'[o].qty - BookedQty(o)' <= held'[order'[o].pos]
    <3>1. order[o].qty - BookedQty(o) <= held[order[o].pos]
      BY <1>1, <1>6, <2>2 DEF AliveInv
    <3> QED
      BY <1>1, <1>3, <1>6, <3>1
  <2> QED
    BY <2>1, <2>2 DEF AliveInv
<1>10. NetInv'
  <2>1. LedgerNet' = LedgerNet
    BY DEF LedgerNet
  <2> QED
    BY <1>1, <1>4, <2>1 DEF NetInv
<1> QED
  BY <1>8, <1>9, <1>10

\* Plain steps in which no order becomes final or goes back to the queue.
LEMMA QuietPlain ==
  ASSUME LedgerInv, SoldInv, Calm, BooksKept, NoneSettled, ExKept, UNCHANGED held,
         \A t \in Senders : snd'[t] = snd[t] \/ CallOk(t)',
         PassInv'
  PROVE  SoldInv'
<1>1. RowsInv' /\ RowsGrow
  BY QuietRows DEF SoldInv
<1>2. SentKept
  BY DEF SentKept, NoneSettled, ExKept, NothingFilled, Positions
<1>3. CallsInv'
  BY <1>2, CallsKept DEF SoldInv
<1> QED
  BY <1>1, <1>3, PlainStep DEF Plain

-----------------------------------------------------------------------------
(* The passes of the reconciler, but for what they book.                    *)

\* The pass goes on as c, and its order and Binance's record of it are as well.
LEMMA QuietPass ==
  ASSUME LedgerInv, SoldInv, Calm, BooksKept, NoneSettled, ExKept, UNCHANGED <<held, snd>>,
         NEW w, NEW c, wrk' = [wrk EXCEPT ![w] = c], DOMAIN c = PassFields,
         c.pc # "idle" => c.o \in Ids /\ PassOk(c, order'[c.o], ex'[c.o])
  PROVE  SoldInv'
<1>1. RowsInv' /\ RowsGrow
  BY QuietRows DEF SoldInv
<1>2. Ids' = Ids
  BY DEF Calm
<1>3. PassInv'
  BY <1>1, <1>2, PassesOne DEF SoldInv
<1> QED
  BY <1>3, QuietPlain

LEMMA QuietRest ==
  ASSUME LedgerInv, SoldInv, Calm, BooksKept, NoneSettled, ExKept, UNCHANGED <<held, snd>>,
         NEW w, Rest(w)
  PROVE  SoldInv'
<1>1. wrk' = [wrk EXCEPT ![w] = IdleWorker] /\ DOMAIN IdleWorker = PassFields /\ IdleWorker.pc = "idle"
  BY DEF Rest, PassFields, IdleWorker
<1> HIDE DEF PassFields
<1>2. PICK c : c = IdleWorker
  OBVIOUS
<1> QED
  BY <1>1, <1>2, QuietPass

LEMMA ExSame ==
  ASSUME UNCHANGED ex
  PROVE  ExKept
  BY DEF ExKept, NothingFilled

LEMMA RestGiveUp ==
  ASSUME LedgerInv, SoldInv, ExKept, UNCHANGED <<held, snd>>, NEW w, GiveUp(w)
  PROVE  SoldInv'
<1>1. Calm /\ BooksKept /\ NoneSettled
  BY CalmGiveUp, KeptGiveUp DEF LedgerInv
<1> QED
  BY <1>1, QuietRest DEF GiveUp

LEMMA RestRelease ==
  ASSUME LedgerInv, SoldInv, UNCHANGED <<held, ex, snd>>, NEW w, Release(w)
  PROVE  SoldInv'
<1>1. Calm /\ BooksKept /\ NoneSettled
  BY CalmRelease, KeptRelease DEF LedgerInv
<1> QED
  BY <1>1, ExSame, QuietRest DEF Release

LEMMA RestFinish ==
  ASSUME LedgerInv, SoldInv, UNCHANGED <<held, ex, snd>>, NEW w \in Workers, NEW o \in Ids,
         order' = Finish(o), Rest(w), ex[o].st # "open", BookedQty(o) = Total(ex[o].fills),
         order[o].st \in {"queued", "final"} \/ ex[o].posts # 0
  PROVE  SoldInv'
<1>1. Calm /\ BooksKept
  BY CalmFinish, KeptFinish DEF LedgerInv
<1>2. RowsInv' /\ RowsGrow
  BY FinishRows DEF SoldInv, LedgerInv
<1>3. SentKept
  <2>1. \A q \in Ids : q # o => order'[q] = order[q]
    BY KeptFinish DEF LedgerInv
  <2> QED
    BY <2>1 DEF SentKept, Positions
<1>4. CallsInv'
  BY <1>3, CallsKept DEF SoldInv
<1>5. PassInv'
  <2>1. wrk' = [wrk EXCEPT ![w] = IdleWorker] /\ DOMAIN IdleWorker = PassFields /\ IdleWorker.pc = "idle"
    BY DEF Rest, PassFields, IdleWorker
  <2> HIDE DEF PassFields
  <2>2. PICK c : c = IdleWorker
    OBVIOUS
  <2>3. Ids' = Ids
    BY <1>1 DEF Calm
  <2> QED
    BY <1>2, <2>1, <2>2, <2>3, PassesOne DEF SoldInv
<1> QED
  BY <1>1, <1>2, <1>4, <1>5, PlainStep DEF Plain

\* What a pass knows of its order.
LEMMA PassFacts ==
  ASSUME SoldInv, NEW w \in Workers
  PROVE  LET c == wrk[w] IN
         /\ DOMAIN c = PassFields
         /\ c.pc # "idle" => c.o \in Ids /\ PassOk(c, order[c.o], ex[c.o])
                             /\ RowOk(order[c.o], ex[c.o])
  BY DEF SoldInv, PassInv, RowsInv

LEMMA ClaimSold ==
  ASSUME LedgerInv, SoldInv, NEW w \in Workers, NEW o \in Ids, Claim(w, o)
  PROVE  SoldInv'
<1> DEFINE c == [IdleWorker EXCEPT
                   !.pc = IF order[o].tp THEN "start" ELSE Start(order[o].st = "queued"),
                   !.o = o, !.queued = order[o].st = "queued", !.cancel = order[o].cancel]
<1>1. /\ wrk' = [wrk EXCEPT ![w] = c] /\ order' = [order EXCEPT ![o].lease = w]
      /\ UNCHANGED <<held, ex, snd>>
  BY DEF Claim
<1>2. DOMAIN c = PassFields /\ c.o = o /\ c.pc \in {"start", "finish0", "get"}
  <2>1. DOMAIN c = DOMAIN IdleWorker
    OBVIOUS
  <2>2. c.o = o /\ c.pc = IF order[o].tp THEN "start" ELSE Start(order[o].st = "queued")
    BY DEF IdleWorker
  <2> HIDE DEF c
  <2> QED
    BY <2>1, <2>2 DEF Start, PassFields
<1> HIDE DEF c
<1>3. PassOk(c, order'[c.o], ex'[c.o])
  BY <1>2 DEF PassOk
<1>4. Calm /\ BooksKept /\ NoneSettled
  BY <1>1, CalmField, KeptField DEF LedgerInv
<1>5. PICK d : d = c
  OBVIOUS
<1> QED
  BY <1>1, <1>2, <1>3, <1>4, <1>5, ExSame, QuietPass

LEMMA BeginSold ==
  ASSUME LedgerInv, SoldInv, NEW w \in Workers, Begin(w)
  PROVE  SoldInv'
<1> DEFINE pc == Start(wrk[w].queued)
           c == [wrk[w] EXCEPT !.pc = pc]
<1>1. wrk[w].pc = "start" /\ wrk' = [wrk EXCEPT ![w] = c] /\ UNCHANGED <<held, ex, snd>>
  BY DEF Begin, Step
<1>2. pc \in {"finish0", "get"}
  BY DEF Start
<1>3. DOMAIN wrk[w] = PassFields /\ wrk[w].o \in Ids
  BY <1>1, PassFacts
<1> HIDE DEF pc
<1>4. DOMAIN c = PassFields /\ c.pc = pc /\ c.o = wrk[w].o
  BY <1>3 DEF PassFields, IdleWorker
<1> HIDE DEF c
<1>5. PassOk(c, order'[c.o], ex'[c.o])
  BY <1>2, <1>4 DEF PassOk
<1>6. UNCHANGED order \/ \E O : order' = AskCancel(O)
  BY DEF Begin
<1>7. Calm /\ BooksKept /\ NoneSettled
  BY <1>6, CalmOrder, CalmAsk, KeptSame, KeptAsk DEF LedgerInv
<1>8. PICK d : d = c
  OBVIOUS
<1> QED
  BY <1>1, <1>3, <1>4, <1>5, <1>7, <1>8, ExSame, QuietPass

LEMMA FinishQueuedSold ==
  ASSUME LedgerInv, SoldInv, NEW w \in Workers, FinishQueued(w)
  PROVE  SoldInv'
<1>0. PICK o : o = wrk[w].o
  OBVIOUS
<1>1. wrk[w].pc = "finish0" /\ UNCHANGED <<held, ex, snd>>
  BY DEF FinishQueued
<1>2. o \in Ids /\ RowOk(order[o], ex[o])
  BY <1>0, <1>1, PassFacts
<1>3. CASE order[o].st = "queued" /\ order' = Finish(o) /\ Rest(w)
  <2>1. ex[o].st \in {"none", "refused"} /\ ex[o].fills = <<>>
    BY <1>2, <1>3 DEF RowOk
  <2>2. Len(ex[o].fills) = 0
    BY <2>1
  <2>3. order[o].booked = 0
    BY <1>2, <2>2 DEF RowOk
  <2>4. BookedQty(o) = 0
    BY <2>3, PartNone DEF BookedQty
  <2>5. Total(ex[o].fills) = 0
    BY <2>1, TotalNone
  <2> QED
    BY <1>1, <1>2, <1>3, <2>1, <2>4, <2>5, RestFinish
<1>4. CASE Release(w)
  BY <1>1, <1>4, RestRelease
<1>5. CASE GiveUp(w)
  BY <1>1, <1>5, ExSame, RestGiveUp
<1> QED
  BY <1>0, <1>3, <1>4, <1>5 DEF FinishQueued

LEMMA GetSold ==
  ASSUME LedgerInv, SoldInv, NEW w \in Workers, Get(w)
  PROVE  SoldInv'
<1>0. PICK o, e : o = wrk[w].o /\ e = ex[o]
  OBVIOUS
<1>1. wrk[w].pc = "get" /\ UNCHANGED <<held, ex, snd>>
  BY DEF Get
<1>2. DOMAIN wrk[w] = PassFields /\ o \in Ids
  BY <1>0, <1>1, PassFacts
<1>3. CASE GiveUp(w)
  BY <1>1, <1>3, ExSame, RestGiveUp
<1>4. CASE ~GiveUp(w)
  <2> DEFINE pc == IF CancelDue(w) /\ e.st = "open" THEN "cancel" ELSE "trades"
             done == e.st = "done"
             exec == Total(e.fills)
             c == [wrk[w] EXCEPT !.pc = pc, !.done = done, !.exec = exec]
  <2>1. /\ e.st \in {"open", "done"} /\ CanMarkActive(o)
        /\ order' = [order EXCEPT ![o].st = "active"]
        /\ wrk' = [wrk EXCEPT ![w] = c]
    BY <1>0, <1>4 DEF Get
  <2>2. DOMAIN c = PassFields /\ c.pc = pc /\ c.done = done /\ c.exec = exec /\ c.o = o
    BY <1>0, <1>2 DEF PassFields, IdleWorker
  <2> HIDE DEF c
  <2>3. PassOk(c, order'[o], e)
    BY <2>1, <2>2 DEF PassOk
  <2>4. Calm /\ BooksKept /\ NoneSettled
    <3>1. Shape
      BY DEF LedgerInv
    <3>2. Calm
      BY <2>1, <3>1, CalmActive
    <3>3. PICK v : v = "active"
      OBVIOUS
    <3>4. order' = [order EXCEPT ![o].st = v] /\ v \notin {"queued", "final"}
      BY <2>1, <3>3
    <3> QED
      BY <3>1, <3>2, <3>4, KeptField
  <2>5. PICK d : d = c
    OBVIOUS
  <2>6. ex'[o] = e
    BY <1>0, <1>1
  <2> QED
    BY <1>1, <1>2, <2>1, <2>2, <2>3, <2>4, <2>5, <2>6, ExSame, QuietPass
<1> QED
  BY <1>3, <1>4

\* A cancellation: only of an order that Binance has.
LEMMA CancelSold ==
  ASSUME LedgerInv, SoldInv, NEW w \in Workers, Cancel(w)
  PROVE  SoldInv'
<1>0. PICK o, e : o = wrk[w].o /\ e = ex[o]
  OBVIOUS
<1>1. wrk[w].pc = "cancel" /\ UNCHANGED <<held, snd>>
  BY DEF Cancel
<1>2. /\ DOMAIN wrk[w] = PassFields /\ o \in Ids
      /\ e.st \in {"open", "done"} /\ ~wrk[w].done /\ ExFields \subseteq DOMAIN e
      /\ PassOk(wrk[w], order[o], e)
  BY <1>0, <1>1, PassFacts DEF PassOk, LedgerInv, Shape
<1>3. CASE wrk' = [wrk EXCEPT ![w].pc = "trades", ![w].keep = TRUE] /\ UNCHANGED <<order, ex>>
  <2> DEFINE c == [wrk[w] EXCEPT !.pc = "trades", !.keep = TRUE]
  <2>1. wrk' = [wrk EXCEPT ![w] = c]
    BY <1>3
  <2>2. DOMAIN c = PassFields /\ c.pc = "trades" /\ c.done = wrk[w].done /\ c.o = o
    BY <1>0, <1>2 DEF PassFields, IdleWorker
  <2> HIDE DEF c
  <2>3. PassOk(c, order'[c.o], ex'[c.o])
    BY <1>2, <2>2 DEF PassOk
  <2>4. Calm /\ BooksKept /\ NoneSettled /\ ExKept
    BY <1>3, CalmOrder, KeptSame, ExSame DEF LedgerInv
  <2>5. PICK d : d = c
    OBVIOUS
  <2> QED
    BY <1>1, <1>2, <2>1, <2>2, <2>3, <2>4, <2>5, QuietPass
<1>4. CASE ex' = [ex EXCEPT ![o].st = "done"]
  <2> DEFINE f == [e EXCEPT !.st = "done"]
  <2>1. ex' = [ex EXCEPT ![o] = f]
    BY <1>0, <1>4
  <2>2. f.st = "done" /\ f.fills = e.fills /\ f.posts = e.posts
    BY <1>2 DEF ExFields
  <2> HIDE DEF f
  <2>3. o \in DOMAIN ex
    BY <1>2, ListFacts DEF LedgerInv, Shape, Ids
  <2>4. ex'[o] = f /\ \A q \in Ids : q # o => ex'[q] = ex[q]
    <3>1. IsList(ex) /\ Ids = DOMAIN ex
      BY ListFacts DEF LedgerInv, Shape, Ids
    <3> QED
      BY <2>1, <2>3, <3>1, ListExcept
  <2>5. ExKept
    BY <1>0, <1>2, <2>2, <2>4 DEF ExKept, NothingFilled
  <2>6. CASE GiveUp(w)
    BY <1>1, <2>5, <2>6, RestGiveUp
  <2>7. CASE /\ wrk' = [wrk EXCEPT ![w].pc = "trades", ![w].done = TRUE, ![w].exec = Total(ex[o].fills)]
             /\ UNCHANGED order
    <3> DEFINE exec == Total(e.fills)
               c == [wrk[w] EXCEPT !.pc = "trades", !.done = TRUE, !.exec = exec]
    <3>1. wrk' = [wrk EXCEPT ![w] = c]
      BY <1>0, <2>7
    <3>2. DOMAIN c = PassFields /\ c.pc = "trades" /\ c.exec = exec /\ c.o = o
      BY <1>0, <1>2 DEF PassFields, IdleWorker
    <3> HIDE DEF c
    <3>3. PassOk(c, order'[o], f)
      BY <2>2, <3>2 DEF PassOk
    <3>4. Calm /\ BooksKept /\ NoneSettled
      BY <2>7, CalmOrder, KeptSame DEF LedgerInv
    <3>5. PICK d : d = c
      OBVIOUS
    <3>6. c.o \in Ids /\ PassOk(c, order'[c.o], ex'[c.o])
      BY <1>2, <2>4, <3>2, <3>3
    <3> QED
      BY <1>1, <2>5, <3>1, <3>2, <3>4, <3>5, <3>6, QuietPass
  <2> QED
    BY <1>0, <1>3, <2>6, <2>7 DEF Cancel
<1> QED
  BY <1>0, <1>3, <1>4 DEF Cancel

LEMMA TradesSold ==
  ASSUME LedgerInv, SoldInv, NEW w \in Workers, Trades(w)
  PROVE  SoldInv'
<1>0. PICK o, r, e : o = wrk[w].o /\ r = order[o] /\ e = ex[o]
  OBVIOUS
<1>1. wrk[w].pc = "trades" /\ UNCHANGED <<held, ex, snd>>
  BY DEF Trades
<1>2. /\ DOMAIN wrk[w] = PassFields /\ o \in Ids
      /\ PassOk(wrk[w], r, e) /\ RowOk(r, e)
  BY <1>0, <1>1, PassFacts
<1>3. PICK shown \in r.booked .. Len(e.fills) :
         \/ GiveUp(w)
         \/ /\ wrk' = [wrk EXCEPT ![w].pc = "apply", ![w].fills = SubSeq(e.fills, 1, shown),
                                  ![w].n = r.booked + 1]
            /\ UNCHANGED order
  BY <1>0 DEF Trades
<1>4. CASE GiveUp(w)
  BY <1>1, <1>4, ExSame, RestGiveUp
<1>5. CASE /\ wrk' = [wrk EXCEPT ![w].pc = "apply", ![w].fills = SubSeq(e.fills, 1, shown),
                                 ![w].n = r.booked + 1]
           /\ UNCHANGED order
  <2> DEFINE fills == SubSeq(e.fills, 1, shown)
             n == r.booked + 1
             c == [wrk[w] EXCEPT !.pc = "apply", !.fills = fills, !.n = n]
  <2>1. wrk' = [wrk EXCEPT ![w] = c]
    BY <1>5
  <2>2. DOMAIN c = PassFields /\ c.pc = "apply" /\ c.fills = fills /\ c.n = n /\ c.o = o
        /\ c.done = wrk[w].done /\ c.exec = wrk[w].exec
    BY <1>0, <1>2 DEF PassFields, IdleWorker
  <2> HIDE DEF c
  <2>3. Len(e.fills) \in Nat /\ r.booked \in Nat /\ e.fills \in Seq(Nat \ {0})
    BY <1>2, FillsType
  <2>4. Len(fills) = shown /\ shown \in 0 .. Len(e.fills)
    <3>1. shown \in Int /\ \A i \in 1 .. shown : e.fills[i] \in Nat \ {0}
      BY <2>3, ElementOfSeq
    <3>2. Len(SubSeq(e.fills, 1, shown)) = IF 1 <= shown THEN shown - 1 + 1 ELSE 0
      BY <3>1, SubSeqProperties
    <3> QED
      BY <2>3, <3>1, <3>2
  <2>5. PassOk(c, r, e)
    <3>1. c.done => e.st = "done" /\ c.exec = Total(e.fills)
      BY <1>0, <1>1, <1>2, <2>2 DEF PassOk
    <3>2. c.fills = SubSeq(e.fills, 1, Len(c.fills)) /\ Len(c.fills) \in 0 .. Len(e.fills)
      BY <2>2, <2>4
    <3>3. c.n \in 1 .. r.booked + 1
      BY <2>2, <2>3
    <3> QED
      BY <2>2, <3>1, <3>2, <3>3 DEF PassOk
  <2>6. Calm /\ BooksKept /\ NoneSettled
    BY <1>5, CalmOrder, KeptSame DEF LedgerInv
  <2>7. PICK d : d = c
    OBVIOUS
  <2>8. PassOk(c, order'[c.o], ex'[c.o])
    BY <1>0, <1>1, <1>5, <2>2, <2>5
  <2> QED
    BY <1>1, <1>2, <2>1, <2>2, <2>6, <2>7, <2>8, ExSame, QuietPass
<1> QED
  BY <1>3, <1>4, <1>5

\* A pass ends: an order becomes final only when Binance has ended it, and all
\* that it executed is booked.
LEMMA ConcludeSold ==
  ASSUME LedgerInv, SoldInv, NEW w \in Workers, Conclude(w)
  PROVE  SoldInv'
<1>0. PICK o : o = wrk[w].o
  OBVIOUS
<1>1. wrk[w].pc = "apply" /\ UNCHANGED <<held, ex, snd>>
  BY DEF Conclude
<1>2. o \in Ids /\ PassOk(wrk[w], order[o], ex[o]) /\ RowOk(order[o], ex[o])
  BY <1>0, <1>1, PassFacts
<1>3. CASE GiveUp(w)
  BY <1>1, <1>3, ExSame, RestGiveUp
<1>4. CASE Release(w)
  BY <1>1, <1>4, RestRelease
<1>5. CASE wrk[w].done /\ BookedQty(o) = wrk[w].exec /\ order' = Finish(o) /\ Rest(w)
  <2>1. ex[o].st = "done" /\ wrk[w].exec = Total(ex[o].fills)
    BY <1>1, <1>2, <1>5 DEF PassOk
  <2>2. ex[o].posts # 0
    BY <1>2, <2>1 DEF RowOk
  <2> QED
    BY <1>1, <1>2, <1>5, <2>1, <2>2, RestFinish
<1> QED
  BY <1>0, <1>3, <1>4, <1>5 DEF Conclude

LEMMA FailSold ==
  ASSUME LedgerInv, SoldInv, NEW w \in Workers, Fail(w) \/ CrashWorker(w)
  PROVE  SoldInv'
<1>1. CASE Fail(w)
  <2>1. UNCHANGED <<held, ex, snd>> /\ GiveUp(w)
    BY <1>1 DEF Fail
  <2> QED
    BY <2>1, ExSame, RestGiveUp
<1>2. CASE CrashWorker(w)
  <2>1. UNCHANGED <<order, held, ex, snd>> /\ Rest(w)
    BY <1>2 DEF CrashWorker, ledger
  <2>2. Calm /\ BooksKept /\ NoneSettled
    BY <2>1, CalmOrder, KeptSame DEF LedgerInv
  <2> QED
    BY <2>1, <2>2, ExSame, QuietRest
<1> QED
  BY <1>1, <1>2

-----------------------------------------------------------------------------
(* A fill is booked.                                                        *)

LEMMA IdsFinite ==
  ASSUME Shape
  PROVE  /\ IsFiniteSet(Ids) /\ IsFiniteSet(Opens) /\ IsFiniteSet(Ids \ Opens)
         /\ \A p : IsFiniteSet(Closers(p)) /\ Closers(p) \subseteq Ids
<1>1. Ids = 1 .. Len(order) /\ Len(order) \in Nat
  BY ListFacts DEF Shape, Ids
<1>2. IsFiniteSet(1 .. Len(order))
  <2>1. Len(order) \in Int
    BY <1>1
  <2> QED
    BY <2>1, FS_Interval
<1>3. IsFiniteSet(Ids)
  BY <1>1, <1>2
<1>4. Opens \subseteq Ids /\ \A p : Closers(p) \subseteq Ids
  BY DEF Opens, Closers
<1> QED
  BY <1>3, <1>4, FS_Subset

LEMMA BookedIs ==
  ASSUME RowsInv
  PROVE  \A o \in Ids : Booked[o] = BookedQty(o) /\ Booked[o] \in Int
<1>1. \A o \in Ids : BookedQty(o) \in Int
  BY BookedType
<1> QED
  BY <1>1 DEF Booked

\* The fill n of order o, of q contracts, is the next one to be booked; the
\* order is not final.
Booking(o, n, q) ==
    /\ o \in Ids /\ Unresolved(o) /\ n = order[o].booked + 1
    /\ n \in 1 .. Len(ex[o].fills) /\ q = ex[o].fills[n] /\ q \in Nat \ {0}
    /\ order'[o].booked = n /\ BookedQty(o)' = BookedQty(o) + q
    /\ \A p \in Ids : p # o => order'[p] = order[p] /\ BookedQty(p)' = BookedQty(p)
    /\ \A p \in Ids : order'[p].qty = order[p].qty /\ order'[p].st = order[p].st
    /\ UNCHANGED <<ex, snd>>
    /\ Calm /\ RowsInv' /\ RowsGrow

LEMMA BookingIs ==
  ASSUME LedgerInv, SoldInv, NEW w \in Workers, wrk[w].pc = "apply", ~Known(w),
         NEW o, NEW n, NEW q, o = wrk[w].o, n = wrk[w].n, q = wrk[w].fills[n],
         n <= Len(wrk[w].fills), Book(o, n, q), UNCHANGED <<ex, snd>>
  PROVE  Booking(o, n, q)
<1>1. PICK r, e, c : r = order[o] /\ e = ex[o] /\ c = wrk[w]
  OBVIOUS
<1>2. o \in Ids /\ PassOk(c, r, e) /\ RowOk(r, e)
  BY <1>1, PassFacts
<1>3. Len(e.fills) \in Nat /\ r.booked \in Nat /\ e.fills \in Seq(Nat \ {0})
  BY <1>2, FillsType
<1>4. /\ Len(c.fills) \in 0 .. Len(e.fills)
      /\ c.fills = SubSeq(e.fills, 1, Len(c.fills))
      /\ c.n \in 1 .. r.booked + 1
  BY <1>1, <1>2 DEF PassOk
<1>5. n = r.booked + 1 /\ n \in 1 .. Len(c.fills) /\ n \in 1 .. Len(e.fills)
  <2>1. n = c.n /\ n <= Len(c.fills) /\ ~(n <= r.booked)
    BY <1>1 DEF Known
  <2>2. n \in 1 .. r.booked + 1
    BY <1>4, <2>1
  <2> QED
    BY <1>3, <1>4, <2>1, <2>2
<1>6. q = e.fills[n] /\ q \in Nat \ {0}
  <2>1. PICK k : k = Len(c.fills)
    OBVIOUS
  <2>2. 1 \in Int /\ k \in Int /\ \A i \in 1 .. k : e.fills[i] \in Nat \ {0}
    BY <1>3, <1>4, <2>1, ElementOfSeq
  <2>3. \A i \in 1 .. k - 1 + 1 : SubSeq(e.fills, 1, k)[i] = e.fills[1 + i - 1]
    BY <2>2, SubSeqProperties
  <2>4. n \in 1 .. k - 1 + 1 /\ 1 + n - 1 = n
    BY <1>3, <1>4, <1>5, <2>1
  <2>5. SubSeq(e.fills, 1, k)[n] = e.fills[n]
    BY <2>3, <2>4
  <2> QED
    BY <1>1, <1>4, <1>5, <2>1, <2>2, <2>4, <2>5
<1>7. r.st # "final"
  <2>1. r.booked \in 0 .. Len(e.fills) /\ r.booked < Len(e.fills)
    BY <1>3, <1>5
  <2>2. Total(SubSeq(e.fills, 1, r.booked)) < Total(e.fills) /\ Total(e.fills) \in Nat
        /\ Total(SubSeq(e.fills, 1, r.booked)) \in Nat
    BY <1>3, <2>1, PartGrows
  <2> QED
    BY <1>2, <2>2 DEF RowOk
<1> DEFINE x == [order[o] EXCEPT !.booked = n]
<1>8. order' = [order EXCEPT ![o] = x]
  BY DEF Book
<1>9. /\ x.booked = n /\ x.act = r.act /\ x.qty = r.qty /\ x.st = r.st
  BY <1>1, <1>2 DEF LedgerInv, Shape, OrderFields
<1> HIDE DEF x
<1>10. order'[o] = x /\ \A p \in Ids : p # o => order'[p] = order[p]
  <2>1. Shape /\ o \in Ids
    BY <1>2 DEF LedgerInv
  <2>2. /\ o \in Ids => order'[o] = x
        /\ \A p \in Ids : p # o => order'[p] = order[p]
    BY <1>8, <2>1 DEF Ids
  <2> QED
    BY <2>1, <2>2
<1>11. Calm
  <2>1. order' = [order EXCEPT ![o].booked = n]
    BY DEF Book
  <2> QED
    BY <2>1, CalmField DEF LedgerInv
<1>12. Total(SubSeq(e.fills, 1, n)) = Total(SubSeq(e.fills, 1, r.booked)) + q
  <2>1. e.fills \in Seq(Nat) /\ r.booked \in 0 .. Len(e.fills) /\ r.booked < Len(e.fills)
    BY <1>3, <1>5, SeqMonotonic
  <2>2. Total(SubSeq(e.fills, 1, r.booked + 1))
          = Total(SubSeq(e.fills, 1, r.booked)) + e.fills[r.booked + 1]
    BY <2>1, PartNext
  <2> QED
    BY <1>5, <1>6, <2>2
<1>13. RowOk(x, e) /\ Grows(r, e, x, e)
  <2>1. RowOk(x, e)
    BY <1>2, <1>3, <1>5, <1>7, <1>9 DEF RowOk
  <2>2. Grows(r, e, x, e)
    BY <1>3, <1>5, <1>9 DEF Grows
  <2> QED
    BY <2>1, <2>2
<1>14. ASSUME NEW p \in Ids
       PROVE  RowOk(order'[p], ex'[p]) /\ Grows(order[p], ex[p], order'[p], ex'[p])
  <2>1. CASE p = o
    BY <1>1, <1>10, <1>13, <2>1
  <2>2. CASE p # o
    <3>1. PICK s, f : s = order[p] /\ f = ex[p]
      OBVIOUS
    <3>2. RowOk(s, f)
      BY <3>1 DEF SoldInv, RowsInv
    <3>3. Len(f.fills) \in Nat /\ s.booked \in Nat
      BY <3>2, FillsType
    <3>4. Grows(s, f, s, f)
      BY <3>3 DEF Grows
    <3> QED
      BY <1>10, <2>2, <3>1, <3>2, <3>4
  <2> QED
    BY <2>1, <2>2
<1>15. RowsInv' /\ RowsGrow
  BY <1>11, <1>14 DEF Calm, RowsInv, RowsGrow
<1>16. BookedQty(o)' = BookedQty(o) + q
  BY <1>1, <1>9, <1>10, <1>12 DEF BookedQty
<1>17. \A p \in Ids : p # o => BookedQty(p)' = BookedQty(p)
  BY <1>10 DEF BookedQty
<1>18. Unresolved(o)
  BY <1>1, <1>7 DEF Unresolved
<1>19. \A p \in Ids : order'[p].qty = order[p].qty /\ order'[p].st = order[p].st
  BY <1>1, <1>9, <1>10
<1> QED
  BY <1>1, <1>2, <1>5, <1>6, <1>9, <1>10, <1>11, <1>15, <1>16, <1>17, <1>18, <1>19 DEF Booking

\* What the sums become.
LEMMA BookedOne ==
  ASSUME LedgerInv, SoldInv, NEW o, NEW n, NEW q, Booking(o, n, q),
         NEW S \in SUBSET Ids
  PROVE  /\ SumFunctionOnSet(Booked, S) \in Int
         /\ SumFunctionOnSet(Booked', S)
              = IF o \in S THEN SumFunctionOnSet(Booked, S) + q ELSE SumFunctionOnSet(Booked, S)
<1>1. PICK f, g : f = Booked' /\ g = Booked
  OBVIOUS
<1>2. IsFiniteSet(S)
  BY IdsFinite, FS_Subset DEF LedgerInv
<1>3. \A p \in S : g[p] = BookedQty(p) /\ g[p] \in Int
  BY <1>1, BookedIs DEF SoldInv
<1>4. \A p \in S : f[p] = BookedQty(p)'
  BY <1>1 DEF Booked, Booking, Calm
<1>5. q \in Int /\ \A p \in S : f[p] = IF p = o THEN g[p] + q ELSE g[p]
  BY <1>3, <1>4 DEF Booking
<1>6. \A p \in S : f[p] \in Int /\ g[p] \in Int
  BY <1>3, <1>5
<1>7. SumFunctionOnSet(g, S) \in Int
  BY <1>2, <1>6, SumType
<1>8. CASE o \in S
  <2>1. \A p \in S : p # o => f[p] = g[p]
    BY <1>5
  <2>2. SumFunctionOnSet(f, S) = SumFunctionOnSet(g, S) + (f[o] - g[o])
    BY <1>2, <1>6, <1>8, <2>1, SumChange
  <2>3. f[o] - g[o] = q
    BY <1>5, <1>6, <1>8
  <2> QED
    BY <1>1, <1>7, <1>8, <2>2, <2>3
<1>9. CASE o \notin S
  <2>1. \A p \in S : f[p] \in Int /\ f[p] = g[p]
    BY <1>5, <1>6, <1>9
  <2>2. SumFunctionOnSet(f, S) = SumFunctionOnSet(g, S)
    BY <1>2, <2>1, SumSame
  <2> QED
    BY <1>1, <1>7, <1>9, <2>2
<1> QED
  BY <1>8, <1>9

LEMMA BookSums ==
  ASSUME LedgerInv, SoldInv, NEW o, NEW n, NEW q, Booking(o, n, q)
  PROVE  /\ Ids' = Ids /\ Opens' = Opens
         /\ \A p : Sold(p) \in Int
         /\ \A p : Sold(p)' = IF order[o].pos = p THEN Sold(p) + q ELSE Sold(p)
         /\ o \in Opens => NetInv' = (LedgerNet' = LedgerNet + q)
         /\ o \notin Opens => NetInv' = (LedgerNet' = LedgerNet - q)
<1>1. Ids' = Ids /\ Opens' = Opens /\ \A p : Closers(p)' = Closers(p) /\ Closers(p) \in SUBSET Ids
  BY DEF Booking, Calm, KeepsOrder, Opens, Closers
<1>2. \A p : Sold(p) \in Int
  BY <1>1, BookedOne DEF Sold
<1>3. ASSUME NEW p PROVE Sold(p)' = IF order[o].pos = p THEN Sold(p) + q ELSE Sold(p)
  <2>1. Sold(p)' = SumFunctionOnSet(Booked', Closers(p))
    BY <1>1 DEF Sold
  <2>2. o \in Closers(p) <=> order[o].pos = p
    BY DEF Closers, Booking
  <2> QED
    BY <1>1, <2>1, <2>2, BookedOne DEF Sold
<1>4. /\ SumFunctionOnSet(Booked, Opens) \in Int /\ SumFunctionOnSet(Booked, Ids \ Opens) \in Int
      /\ q \in Int /\ o \in Ids
      /\ LedgerNet = SumFunctionOnSet(Booked, Opens) - SumFunctionOnSet(Booked, Ids \ Opens)
  <2>1. Opens \in SUBSET Ids /\ Ids \ Opens \in SUBSET Ids
    BY DEF Opens
  <2> QED
    BY <2>1, BookedOne DEF SoldInv, NetInv, Booking
<1>5. /\ SumFunctionOnSet(Booked', Opens)
           = IF o \in Opens THEN SumFunctionOnSet(Booked, Opens) + q ELSE SumFunctionOnSet(Booked, Opens)
      /\ SumFunctionOnSet(Booked', Ids \ Opens)
           = IF o \in Ids \ Opens THEN SumFunctionOnSet(Booked, Ids \ Opens) + q
             ELSE SumFunctionOnSet(Booked, Ids \ Opens)
  <2>1. Opens \in SUBSET Ids /\ Ids \ Opens \in SUBSET Ids
    BY DEF Opens
  <2> QED
    BY <2>1, BookedOne
<1>6. NetInv' = (LedgerNet' = SumFunctionOnSet(Booked', Opens) - SumFunctionOnSet(Booked', Ids \ Opens))
  BY <1>1 DEF NetInv
<1>7. o \in Opens => NetInv' = (LedgerNet' = LedgerNet + q)
  BY <1>4, <1>5, <1>6
<1>8. o \notin Opens => NetInv' = (LedgerNet' = LedgerNet - q)
  BY <1>4, <1>5, <1>6
<1> QED
  BY <1>1, <1>2, <1>3, <1>7, <1>8

\* A booked fill of a closing order is taken from its position.
LEMMA BookClose ==
  ASSUME LedgerInv, SoldInv, NEW o, NEW n, NEW q, Booking(o, n, q),
         o \notin Opens, q <= held[order[o].pos],
         held' = [held EXCEPT ![order[o].pos] = held[order[o].pos] - q]
  PROVE  HeldInv' /\ AliveInv' /\ NetInv'
<1> DEFINE p0 == order[o].pos
<1>0. /\ o \in Ids /\ Unresolved(o) /\ q \in Nat \ {0} /\ UNCHANGED ex
      /\ order'[o].booked = order[o].booked + 1
      /\ BookedQty(o)' = BookedQty(o) + q
      /\ \A p \in Ids : p # o => BookedQty(p)' = BookedQty(p) /\ order'[p] = order[p]
      /\ \A p \in Ids : /\ order'[p].qty = order[p].qty /\ order'[p].pos = order[p].pos
                        /\ Unresolved(p)' <=> Unresolved(p)
  BY DEF Booking, Unresolved, Calm, KeepsOrder
<1>1. /\ Ids' = Ids /\ Opens' = Opens
      /\ \A p : Sold(p) \in Int
      /\ \A p : Sold(p)' = IF order[o].pos = p THEN Sold(p) + q ELSE Sold(p)
      /\ NetInv' = (LedgerNet' = LedgerNet - q)
  BY BookSums
<1>2. p0 \in Positions /\ \A p \in Positions : held[p] \in Nat
  BY <1>0 DEF SoldInv, HeldInv
<1>3. /\ Positions' = Positions
      /\ held'[p0] = held[p0] - q /\ \A p \in Positions : p # p0 => held'[p] = held[p]
  BY <1>2 DEF Positions
<1> HIDE DEF p0
<1>4. HeldInv'
  <2>1. ASSUME NEW p \in Positions
        PROVE  /\ IsFillOf(p)' /\ held'[p] \in Nat
               /\ held'[p] + Sold(p)' = ex'[p[1]].fills[p[2]]
    <3>1. IsFillOf(p) /\ held[p] + Sold(p) = ex[p[1]].fills[p[2]] /\ held[p] \in Nat /\ Sold(p) \in Int
      BY <1>1 DEF SoldInv, HeldInv
    <3>2. IsFillOf(p)'
      <4>1. p[1] # o /\ p[1] \in Ids
        BY <3>1 DEF IsFillOf, Opens
      <4>2. order'[p[1]].booked = order[p[1]].booked
        BY <1>0, <4>1
      <4> QED
        BY <1>1, <3>1, <4>2 DEF IsFillOf
    <3>3. CASE p = p0
      <4>1. held'[p] = held[p] - q /\ Sold(p)' = Sold(p) + q /\ q <= held[p]
        BY <1>1, <1>3, <3>3 DEF p0
      <4>2. held'[p] \in Nat /\ held'[p] + Sold(p)' = held[p] + Sold(p)
        BY <1>0, <3>1, <4>1
      <4> QED
        BY <1>0, <3>1, <3>2, <4>2
    <3>4. CASE p # p0
      BY <1>0, <1>1, <1>3, <3>1, <3>2, <3>4 DEF p0
    <3> QED
      BY <3>3, <3>4
  <2>2. \A y \in Ids' \ Opens' : order'[y].pos \in Positions'
    BY <1>0, <1>1, <1>3 DEF SoldInv, HeldInv
  <2>3. \A y \in Opens' : order'[y].pos = NoPosition
    BY <1>0, <1>1 DEF SoldInv, HeldInv, Opens
  <2> QED
    BY <1>3, <2>1, <2>2, <2>3 DEF HeldInv
<1>5. AliveInv'
  <2>1. \A y, z \in Ids' \ Opens' :
          Unresolved(y)' /\ Unresolved(z)' /\ order'[y].pos = order'[z].pos => y = z
    BY <1>0, <1>1 DEF SoldInv, AliveInv
  <2>2. ASSUME NEW y \in Ids' \ Opens', Unresolved(y)'
        PROVE  order'[y].qty - BookedQty(y)' <= held'[order'[y].pos]
    <3>1. /\ y \in Ids \ Opens /\ Unresolved(y) /\ order[y].pos \in Positions
          /\ order[y].qty - BookedQty(y) <= held[order[y].pos]
      BY <1>0, <1>1, <2>2 DEF SoldInv, AliveInv, HeldInv
    <3>2. order[y].qty \in Nat /\ BookedQty(y) \in Nat
      BY <3>1, BookedType DEF SoldInv
    <3>3. CASE y = o
      <4>1. held'[order'[y].pos] = held[order[y].pos] - q /\ held[order[y].pos] \in Nat
        BY <1>0, <1>2, <1>3, <3>3 DEF p0
      <4>2. order'[y].qty = order[y].qty /\ BookedQty(y)' = BookedQty(y) + q
        BY <1>0, <3>3
      <4> QED
        BY <1>0, <3>1, <3>2, <4>1, <4>2
    <3>4. CASE y # o
      <4>1. order[y].pos # p0
        BY <1>0, <3>1, <3>4 DEF SoldInv, AliveInv, p0
      <4>2. held'[order'[y].pos] = held[order[y].pos]
        BY <1>0, <1>3, <3>1, <4>1
      <4> QED
        BY <1>0, <3>1, <3>4, <4>2
    <3> QED
      BY <3>3, <3>4
  <2> QED
    BY <2>1, <2>2 DEF AliveInv
<1>6. LedgerNet' = LedgerNet - q
  <2>1. PICK f, g : f = held' /\ g = held
    OBVIOUS
  <2>2. LedgerNet = SumFunctionOnSet(g, Positions) /\ LedgerNet' = SumFunctionOnSet(f, Positions)
    BY <1>3, <2>1 DEF LedgerNet, SumFunction, Positions
  <2>3. IsFiniteSet(Positions)
    BY DEF LedgerInv, Shape
  <2>4. \A p \in Positions : f[p] \in Int /\ g[p] \in Int
    BY <1>0, <1>2, <1>3, <2>1
  <2>5. \A p \in Positions : p # p0 => f[p] = g[p]
    BY <1>3, <2>1
  <2>6. SumFunctionOnSet(f, Positions) = SumFunctionOnSet(g, Positions) + (f[p0] - g[p0])
    BY <1>2, <2>3, <2>4, <2>5, SumChange
  <2>7. SumFunctionOnSet(g, Positions) \in Int
    BY <2>3, <2>4, SumType
  <2>8. f[p0] = g[p0] - q /\ g[p0] \in Int
    BY <1>2, <1>3, <2>1
  <2> QED
    BY <1>0, <2>2, <2>6, <2>7, <2>8
<1> QED
  BY <1>1, <1>4, <1>5, <1>6

\* A booked fill of an entry is a position of its own.
LEMMA BookOpen ==
  ASSUME LedgerInv, SoldInv, NEW o, NEW n, NEW q, Booking(o, n, q), o \in Opens,
         held' = [p \in Positions \cup {<<o, n>>} |-> IF p = <<o, n>> THEN q ELSE held[p]]
  PROVE  HeldInv' /\ AliveInv' /\ NetInv'
<1> DEFINE new == <<o, n>>
<1>0. /\ o \in Ids /\ q \in Nat \ {0} /\ UNCHANGED ex
      /\ n = order[o].booked + 1 /\ order'[o].booked = n /\ q = ex[o].fills[n]
      /\ \A p \in Ids : p # o => BookedQty(p)' = BookedQty(p) /\ order'[p] = order[p]
      /\ \A p \in Ids : /\ order'[p].qty = order[p].qty /\ order'[p].pos = order[p].pos
                        /\ Unresolved(p)' <=> Unresolved(p)
  BY DEF Booking, Unresolved, Calm, KeepsOrder
<1>1. /\ Ids' = Ids /\ Opens' = Opens
      /\ \A p : Sold(p) \in Int
      /\ \A p : Sold(p)' = IF order[o].pos = p THEN Sold(p) + q ELSE Sold(p)
      /\ NetInv' = (LedgerNet' = LedgerNet + q)
  BY BookSums
<1>2. new[1] = o /\ new[2] = n
  OBVIOUS
<1>3. Positions' = Positions \cup {new} /\ held'[new] = q
      /\ \A p \in Positions : p # new => held'[p] = held[p]
  BY DEF Positions
<1>4. order[o].booked \in Nat
  <2>1. PICK r, e : r = order[o] /\ e = ex[o]
    OBVIOUS
  <2>2. RowOk(r, e)
    BY <1>0, <2>1 DEF SoldInv, RowsInv
  <2> QED
    BY <2>1, <2>2, FillsType
<1>5. new \notin Positions
  BY <1>0, <1>2, <1>4 DEF SoldInv, HeldInv, IsFillOf
<1>6. order[o].pos = NoPosition /\ NoPosition # new /\ NoPosition \notin Positions
  <2>1. \A y \in Ids : y # 0
    BY ListFacts DEF LedgerInv, Shape, Ids
  <2>2. NoPosition[1] = 0
    BY DEF NoPosition
  <2>3. NoPosition # new
    BY <1>0, <1>2, <2>1, <2>2
  <2>4. ASSUME NoPosition \in Positions PROVE FALSE
    <3>1. NoPosition[1] \in Ids
      BY <2>4 DEF SoldInv, HeldInv, IsFillOf, Opens
    <3> QED
      BY <2>1, <2>2, <3>1
  <2> QED
    BY <2>3, <2>4 DEF SoldInv, HeldInv
<1>7. Sold(new) = 0
  <2>1. ASSUME NEW y \in Closers(new) PROVE FALSE
    BY <1>5, <1>6, <2>1 DEF Closers, SoldInv, HeldInv
  <2>2. Closers(new) = {}
    BY <2>1
  <2> QED
    BY <2>2, SumEmpty DEF Sold
<1> HIDE DEF new
<1>8. HeldInv'
  <2>1. ASSUME NEW p \in Positions
        PROVE  /\ IsFillOf(p)' /\ held'[p] \in Nat
               /\ held'[p] + Sold(p)' = ex'[p[1]].fills[p[2]]
    <3>1. IsFillOf(p) /\ held[p] + Sold(p) = ex[p[1]].fills[p[2]] /\ held[p] \in Nat
      BY DEF SoldInv, HeldInv
    <3>2. held'[p] = held[p] /\ Sold(p)' = Sold(p)
      BY <1>1, <1>3, <1>5, <1>6
    <3>3. p[1] \in Ids /\ p[2] \in 1 .. order'[p[1]].booked
      <4>1. p[1] \in Ids /\ p[2] \in 1 .. order[p[1]].booked
        BY <3>1 DEF IsFillOf, Opens
      <4>2. CASE p[1] = o
        BY <1>0, <1>4, <4>1, <4>2
      <4>3. CASE p[1] # o
        BY <1>0, <4>1, <4>3
      <4> QED
        BY <4>1, <4>2, <4>3
    <3> QED
      BY <1>0, <1>1, <3>1, <3>2, <3>3 DEF IsFillOf
  <2>2. /\ IsFillOf(new)' /\ held'[new] \in Nat
        /\ held'[new] + Sold(new)' = ex'[new[1]].fills[new[2]]
    <3>1. n \in 1 .. order'[o].booked
      BY <1>0, <1>4
    <3>2. new = <<new[1], new[2]>>
      BY DEF new
    <3>3. Sold(new)' = 0
      BY <1>1, <1>6, <1>7
    <3> QED
      BY <1>0, <1>1, <1>2, <1>3, <3>1, <3>2, <3>3 DEF IsFillOf
  <2>3. \A y \in Ids' \ Opens' : order'[y].pos \in Positions'
    BY <1>0, <1>1, <1>3 DEF SoldInv, HeldInv
  <2>4. \A y \in Opens' : order'[y].pos = NoPosition
    BY <1>0, <1>1 DEF SoldInv, HeldInv, Opens
  <2> QED
    BY <1>3, <2>1, <2>2, <2>3, <2>4 DEF HeldInv
<1>9. AliveInv'
  <2>1. \A y, z \in Ids' \ Opens' :
          Unresolved(y)' /\ Unresolved(z)' /\ order'[y].pos = order'[z].pos => y = z
    BY <1>0, <1>1 DEF SoldInv, AliveInv
  <2>2. ASSUME NEW y \in Ids' \ Opens', Unresolved(y)'
        PROVE  order'[y].qty - BookedQty(y)' <= held'[order'[y].pos]
    <3>1. /\ y \in Ids \ Opens /\ Unresolved(y) /\ order[y].pos \in Positions
          /\ order[y].qty - BookedQty(y) <= held[order[y].pos]
      BY <1>0, <1>1, <2>2 DEF SoldInv, AliveInv, HeldInv
    <3>2. held'[order'[y].pos] = held[order[y].pos] /\ y # o
      BY <1>0, <1>3, <1>5, <3>1
    <3> QED
      BY <1>0, <3>1, <3>2
  <2> QED
    BY <2>1, <2>2 DEF AliveInv
<1>10. LedgerNet' = LedgerNet + q
  <2>1. PICK f, g : f = held' /\ g = held
    OBVIOUS
  <2>2. LedgerNet = SumFunctionOnSet(g, Positions)
        /\ LedgerNet' = SumFunctionOnSet(f, Positions \cup {new})
    BY <1>3, <2>1 DEF LedgerNet, SumFunction, Positions
  <2>3. IsFiniteSet(Positions)
    BY DEF LedgerInv, Shape
  <2>4. \A p \in Positions : f[p] \in Int /\ f[p] = g[p]
    BY <1>3, <1>5, <2>1 DEF SoldInv, HeldInv
  <2>5. f[new] = q /\ q \in Int /\ \A p \in Positions \cup {new} : f[p] \in Int
    BY <1>0, <1>3, <2>1, <2>4
  <2>6. SumFunctionOnSet(f, Positions \cup {new}) = f[new] + SumFunctionOnSet(f, Positions)
    BY <1>5, <2>3, <2>5, SumAdd
  <2>7. SumFunctionOnSet(f, Positions) = SumFunctionOnSet(g, Positions)
    BY <2>3, <2>4, SumSame
  <2>8. SumFunctionOnSet(f, Positions) \in Int
    BY <2>3, <2>4, SumType
  <2> QED
    BY <2>2, <2>5, <2>6, <2>7, <2>8
<1> QED
  BY <1>1, <1>8, <1>9, <1>10

LEMMA ApplySold ==
  ASSUME LedgerInv, SoldInv, NEW w \in Workers, Apply(w)
  PROVE  SoldInv'
<1>0. PICK o, n, q, c : o = wrk[w].o /\ n = wrk[w].n /\ q = wrk[w].fills[n] /\ c = wrk[w]
  OBVIOUS
<1>1. wrk[w].pc = "apply" /\ n <= Len(wrk[w].fills) /\ UNCHANGED <<exits, ex, snd>>
  BY <1>0 DEF Apply
<1>2. /\ DOMAIN c = PassFields /\ o \in Ids
      /\ PassOk(c, order[o], ex[o]) /\ RowOk(order[o], ex[o])
  BY <1>0, <1>1, PassFacts
<1> DEFINE d == [c EXCEPT !.n = n + 1]
<1>3. /\ DOMAIN d = PassFields /\ d.pc = "apply" /\ d.o = o /\ d.n = n + 1
      /\ d.done = c.done /\ d.exec = c.exec /\ d.fills = c.fills
  BY <1>0, <1>1, <1>2 DEF PassFields, IdleWorker
<1> HIDE DEF d
<1>4. PICK x : x = d
  OBVIOUS
<1>5. CASE Known(w) /\ UNCHANGED <<order, held>> /\ wrk' = [wrk EXCEPT ![w].n = wrk[w].n + 1]
  <2>1. wrk' = [wrk EXCEPT ![w] = d]
    BY <1>0, <1>5 DEF d
  <2>2. c.n <= order[o].booked /\ order[o].booked \in Nat
    BY <1>0, <1>2, <1>5, FillsType DEF Known
  <2>3. PassOk(d, order[o], ex[o])
    BY <1>0, <1>1, <1>2, <1>3, <2>2 DEF PassOk
  <2>4. Calm /\ BooksKept /\ NoneSettled
    BY <1>5, CalmOrder, KeptSame DEF LedgerInv
  <2>5. PassOk(d, order'[d.o], ex'[d.o])
    BY <1>1, <1>3, <1>5, <2>3
  <2> QED
    BY <1>1, <1>2, <1>3, <1>4, <1>5, <2>1, <2>4, <2>5, ExSame, QuietPass
<1>6. CASE GiveUp(w) /\ UNCHANGED held
  BY <1>1, <1>6, ExSame, RestGiveUp
<1>7. CASE /\ ~Known(w) /\ ~(order[o].act = "close" /\ held[order[o].pos] < q)
           /\ Book(o, n, q) /\ wrk' = [wrk EXCEPT ![w].n = wrk[w].n + 1]
  <2>1. Booking(o, n, q)
    BY <1>0, <1>1, <1>7, BookingIs
  <2>2. wrk' = [wrk EXCEPT ![w] = d]
    BY <1>0, <1>7 DEF d
  <2>3. RowsInv' /\ RowsGrow /\ Ids' = Ids /\ order'[o].booked = n /\ UNCHANGED ex /\ n \in Nat
    BY <2>1 DEF Booking, Calm
  <2>4. PassOk(d, order'[o], ex[o])
    BY <1>0, <1>1, <1>2, <1>3, <2>3 DEF PassOk
  <2>5. PassInv'
    <3>1. d.o \in Ids' /\ PassOk(d, order'[d.o], ex'[d.o])
      BY <1>2, <1>3, <2>3, <2>4
    <3> QED
      BY <1>3, <1>4, <2>2, <2>3, <3>1, PassesOne DEF SoldInv
  <2>6. Positions \subseteq Positions'
    BY <1>7 DEF Book, Positions
  <2>7. CallsInv'
    <3>1. SentKept
      BY <2>1, <2>6 DEF SentKept, Booking
    <3> QED
      BY <1>1, <3>1, CallsKept DEF SoldInv
  <2>8. HeldInv' /\ AliveInv' /\ NetInv'
    <3>1. CASE order[o].act = "open"
      <4>1. o \in Opens
        BY <1>2, <3>1 DEF Opens
      <4>2. held' = [p \in Positions \cup {<<o, n>>} |-> IF p = <<o, n>> THEN q ELSE held[p]]
        BY <1>7, <3>1 DEF Book
      <4> QED
        BY <2>1, <4>1, <4>2, BookOpen
    <3>2. CASE order[o].act # "open"
      <4>1. o \notin Opens /\ order[o].act = "close"
        BY <1>2, <3>2 DEF Opens, RowOk
      <4>2. held' = [held EXCEPT ![order[o].pos] = held[order[o].pos] - q]
        BY <1>7, <3>2 DEF Book
      <4>3. held[order[o].pos] \in Nat /\ q \in Nat
        BY <1>2, <2>1, <4>1 DEF SoldInv, HeldInv, Booking
      <4>4. q <= held[order[o].pos]
        BY <1>7, <4>1, <4>3
      <4> QED
        BY <2>1, <4>1, <4>2, <4>4, BookClose
    <3> QED
      BY <3>1, <3>2
  <2> QED
    BY <2>3, <2>5, <2>7, <2>8 DEF SoldInv
<1> QED
  BY <1>0, <1>5, <1>6, <1>7 DEF Apply

LEMMA WorkerSold ==
  ASSUME LedgerInv, SoldInv, NEW w \in Workers, WorkerStep(w)
  PROVE  SoldInv'
  BY ClaimSold, BeginSold, FinishQueuedSold, GetSold, CancelSold, TradesSold, ApplySold,
     ConcludeSold, FailSold DEF WorkerStep

-----------------------------------------------------------------------------
(* Time and Binance, requests and calls.                                    *)

LEMMA QuietCalls ==
  ASSUME LedgerInv, SoldInv, Calm, BooksKept, NoneSettled, ExKept, UNCHANGED <<held, wrk>>,
         \A t \in Senders : snd'[t] = snd[t] \/ CallOk(t)'
  PROVE  SoldInv'
<1>1. RowsInv' /\ RowsGrow
  BY QuietRows DEF SoldInv
<1>2. PassInv'
  BY <1>1, PassesSame DEF SoldInv, Calm
<1> QED
  BY <1>2, QuietPlain

LEMMA FillSold ==
  ASSUME LedgerInv, SoldInv, NEW o \in Ids, NEW k \in Sizes, Fill(o, k)
  PROVE  SoldInv'
<1>1. PICK r, e : r = order[o] /\ e = ex[o]
  OBVIOUS
<1> DEFINE left == r.qty - Total(e.fills)
           f == [e EXCEPT !.fills = Append(e.fills, k), !.st = IF k = left THEN "done" ELSE e.st]
<1>2. /\ e.st = "open" /\ k \in 1 .. left /\ UNCHANGED <<order, held, snd, wrk>>
      /\ ex' = [ex EXCEPT ![o] = f]
  BY <1>1 DEF Fill, ledger
<1>3. /\ f.fills = Append(e.fills, k) /\ f.posts = e.posts /\ f.st \in {"open", "done"}
  BY <1>1, <1>2 DEF LedgerInv, Shape, ExFields
<1> HIDE DEF f
<1>4. ex'[o] = f /\ \A q \in Ids : q # o => ex'[q] = ex[q]
  <2>1. IsList(ex) /\ Ids = DOMAIN ex
    BY ListFacts DEF LedgerInv, Shape, Ids
  <2> QED
    BY <1>2, <2>1
<1>5. RowOk(r, e)
  BY <1>1 DEF SoldInv, RowsInv
<1>6. /\ e.fills \in Seq(Nat \ {0}) /\ Len(e.fills) \in Nat /\ r.booked \in 0 .. Len(e.fills)
      /\ Total(e.fills) \in Nat /\ r.qty \in Nat
  <2>1. e.fills \in Seq(Nat \ {0}) /\ Len(e.fills) \in Nat
    BY <1>5, FillsType
  <2>2. 0 \in 0 .. Len(e.fills)
    BY <2>1
  <2>3. Total(e.fills) \in Nat
    BY <2>1, <2>2, PartGrows
  <2> QED
    BY <1>5, <2>1, <2>3 DEF RowOk
<1>7. k \in Nat \ {0} /\ Total(e.fills) + k <= r.qty
  BY <1>2, <1>6
<1>8. /\ Total(f.fills) = Total(e.fills) + k
      /\ Len(f.fills) = Len(e.fills) + 1 /\ f.fills \in Seq(Nat \ {0})
      /\ \A n \in 0 .. Len(e.fills) : SubSeq(f.fills, 1, n) = SubSeq(e.fills, 1, n)
      /\ \A n \in 1 .. Len(e.fills) : f.fills[n] = e.fills[n]
  <2>1. e.fills \in Seq(Nat)
    BY <1>6, SeqMonotonic
  <2>2. Append(e.fills, k) \in Seq(Nat \ {0})
    BY <1>6, <1>7, AppendProperties
  <2> QED
    BY <1>3, <1>7, <2>1, <2>2, TotalAppend
<1>9. RowOk(r, f)
  BY <1>2, <1>3, <1>5, <1>6, <1>7, <1>8 DEF RowOk
<1>10. Grows(r, e, r, f)
  BY <1>2, <1>3, <1>6, <1>8 DEF Grows
<1>11. ASSUME NEW p \in Ids
       PROVE  RowOk(order'[p], ex'[p]) /\ Grows(order[p], ex[p], order'[p], ex'[p])
  <2>1. CASE p = o
    BY <1>1, <1>2, <1>4, <1>9, <1>10, <2>1
  <2>2. CASE p # o
    <3>1. PICK s, g : s = order[p] /\ g = ex[p]
      OBVIOUS
    <3>2. RowOk(s, g)
      BY <3>1 DEF SoldInv, RowsInv
    <3>3. Len(g.fills) \in Nat /\ s.booked \in Nat
      BY <3>2, FillsType
    <3>4. Grows(s, g, s, g)
      BY <3>3 DEF Grows
    <3> QED
      BY <1>2, <1>4, <2>2, <3>1, <3>2, <3>4
  <2> QED
    BY <2>1, <2>2
<1>12. Calm /\ BooksKept
  BY <1>2, CalmOrder, KeptSame DEF LedgerInv
<1>13. RowsInv' /\ RowsGrow
  BY <1>11, <1>12 DEF Calm, RowsInv, RowsGrow
<1>14. CallsInv'
  <2>1. SentKept
    BY <1>1, <1>2, <1>4 DEF SentKept, Positions
  <2> QED
    BY <1>2, <2>1, CallsKept DEF SoldInv
<1>15. PassInv'
  BY <1>2, <1>12, <1>13, PassesSame DEF SoldInv, Calm
<1> QED
  BY <1>2, <1>12, <1>13, <1>14, <1>15, PlainStep DEF Plain

LEMMA EnvironmentSold ==
  ASSUME LedgerInv, SoldInv, Environment
  PROVE  SoldInv'
<1>0. Shape
  BY DEF LedgerInv
<1>1. ASSUME NEW o \in Ids, LeaseLapse(o) \/ DeadlinePasses(o) PROVE SoldInv'
  <2>1. UNCHANGED <<held, ex, snd, wrk>>
    BY <1>1 DEF LeaseLapse, DeadlinePasses
  <2>2. Calm
    BY <1>0, <1>1, EnvironmentCalm
  <2>3. BooksKept /\ NoneSettled
    <3>1. CASE order' = [order EXCEPT ![o].lease = NoOne]
      BY <1>0, <3>1, KeptField
    <3>2. CASE order' = [order EXCEPT ![o].late = TRUE]
      BY <1>0, <3>2, KeptField
    <3> QED
      BY <1>1, <3>1, <3>2 DEF LeaseLapse, DeadlinePasses
  <2> QED
    BY <2>1, <2>2, <2>3, ExSame, QuietCalls
<1>2. ASSUME NEW o \in Ids, EndByExchange(o) PROVE SoldInv'
  <2> DEFINE f == [ex[o] EXCEPT !.st = "done"]
  <2>1. ex[o].st = "open" /\ ex' = [ex EXCEPT ![o] = f] /\ UNCHANGED <<order, held, snd, wrk>>
    BY <1>2 DEF EndByExchange, ledger
  <2>2. f.st = "done" /\ f.fills = ex[o].fills /\ f.posts = ex[o].posts
    BY <1>0 DEF Shape, ExFields
  <2> HIDE DEF f
  <2>3. ex'[o] = f /\ \A q \in Ids : q # o => ex'[q] = ex[q]
    <3>1. IsList(ex) /\ Ids = DOMAIN ex
      BY <1>0, ListFacts DEF Shape, Ids
    <3> QED
      BY <2>1, <3>1
  <2>4. ExKept
    BY <2>1, <2>2, <2>3 DEF ExKept, NothingFilled
  <2>5. Calm /\ BooksKept /\ NoneSettled
    BY <1>0, <2>1, CalmOrder, KeptSame
  <2> QED
    BY <2>1, <2>4, <2>5, QuietCalls
<1> QED
  BY <1>1, <1>2, FillSold DEF Environment

\* A call that starts, stops or goes on, and nothing else.
LEMMA CallSold ==
  ASSUME LedgerInv, SoldInv, UNCHANGED <<ledger, ex, wrk>>, NEW s,
         \A t \in Senders : t # s => snd'[t] = snd[t],
         s \in Senders => CallOk(s)'
  PROVE  SoldInv'
<1>1. Calm /\ BooksKept /\ NoneSettled /\ UNCHANGED held
  BY CalmOrder, KeptSame DEF LedgerInv, ledger
<1>2. \A t \in Senders : snd'[t] = snd[t] \/ CallOk(t)'
  OBVIOUS
<1> QED
  BY <1>1, <1>2, ExSame, QuietCalls

LEMMA OneCall ==
  ASSUME LedgerInv, NEW s \in Senders, NEW c, snd' = [snd EXCEPT ![s] = c]
  PROVE  snd'[s] = c /\ \A t \in Senders : t # s => snd'[t] = snd[t]
  BY DEF LedgerInv, Shape

LEMMA StopOk ==
  ASSUME LedgerInv, NEW s \in Senders, Stop(s)
  PROVE  CallOk(s)' /\ \A t \in Senders : t # s => snd'[t] = snd[t]
<1>1. PICK c : c = IdleSender
  OBVIOUS
<1>2. snd'[s] = c /\ \A t \in Senders : t # s => snd'[t] = snd[t]
  BY <1>1, OneCall DEF Stop
<1> QED
  BY <1>1, <1>2, IdleFacts DEF CallOk

LEMMA StartsSold ==
  ASSUME LedgerInv, SoldInv, NEW s \in Senders, StartOpen(s) \/ \E o \in Ids : StartTp(s, o)
  PROVE  SoldInv'
<1>0. PICK idle : idle = IdleSender
  OBVIOUS
<1>a. DOMAIN IdleSender = SenderFields
  BY DEF IdleSender, SenderFields
<1>1. CASE StartOpen(s)
  <2>1. PICK c : c = [IdleSender EXCEPT !.pc = "begin", !.act = "open", !.net = ExchangeNet]
    OBVIOUS
  <2>2. c.pc = "begin" /\ c.act = "open"
    BY <1>a, <2>1 DEF SenderFields
  <2>3. snd' = [snd EXCEPT ![s] = c] /\ UNCHANGED <<ledger, ex, wrk>>
    BY <1>1, <2>1 DEF StartOpen
  <2>4. snd'[s] = c /\ \A t \in Senders : t # s => snd'[t] = snd[t]
    BY <2>3, OneCall
  <2>5. CallOk(s)'
    BY <2>2, <2>4 DEF CallOk
  <2> QED
    BY <2>3, <2>4, <2>5, CallSold
<1>2. ASSUME NEW o \in Ids, StartTp(s, o) PROVE SoldInv'
  <2>1. PICK c : c = [IdleSender EXCEPT !.pc = "next", !.todo = <<o>>]
    OBVIOUS
  <2>2. c.pc = "next"
    BY <1>a, <2>1 DEF SenderFields
  <2>3. snd' = [snd EXCEPT ![s] = c] /\ UNCHANGED <<ledger, ex, wrk>>
    BY <1>2, <2>1 DEF StartTp
  <2>4. snd'[s] = c /\ \A t \in Senders : t # s => snd'[t] = snd[t]
    BY <2>3, OneCall
  <2>5. CallOk(s)'
    BY <2>2, <2>4 DEF CallOk
  <2> QED
    BY <2>3, <2>4, <2>5, CallSold
<1> QED
  BY <1>1, <1>2

\* SetToSeq lists each member of a finite set once.
LEMMA SetToSeqFacts ==
  ASSUME NEW S, IsFiniteSet(S)
  PROVE  /\ \A i \in DOMAIN SetToSeq(S) : SetToSeq(S)[i] \in S
         /\ \A i, j \in DOMAIN SetToSeq(S) : SetToSeq(S)[i] = SetToSeq(S)[j] => i = j
<1>1. \E f \in [1 .. Cardinality(S) -> S] : IsInjective(f)
  <2>1. PICK f : f \in Bijection(1 .. Cardinality(S), S)
    BY FS_CardinalityType DEF ExistsBijection
  <2> QED
    BY <2>1 DEF Bijection, Injection
<1>2. SetToSeq(S) \in [1 .. Cardinality(S) -> S] /\ IsInjective(SetToSeq(S))
  BY <1>1 DEF SetToSeq
<1> QED
  BY <1>2 DEF IsInjective

LEMMA StartCloseSold ==
  ASSUME LedgerInv, SoldInv, NEW s \in Senders, NEW P \in SUBSET OpenPositions, StartClose(s, P)
  PROVE  SoldInv'
<1> DEFINE legs == SetToSeq({<<p, held[p]>> : p \in P})
<1>1. PICK c : c = [IdleSender EXCEPT !.pc = "begin", !.act = "close", !.net = ExchangeNet,
                                      !.legs = legs]
  OBVIOUS
<1>2. snd' = [snd EXCEPT ![s] = c] /\ UNCHANGED <<ledger, ex, wrk>>
  BY <1>1 DEF StartClose
<1>3. c.pc = "begin" /\ c.act = "close" /\ c.legs = legs
  <2>1. DOMAIN IdleSender = SenderFields
    BY DEF IdleSender, SenderFields
  <2> HIDE DEF legs
  <2> QED
    BY <1>1, <2>1 DEF SenderFields
<1>4. IsFiniteSet({<<p, held[p]>> : p \in P})
  <2>1. IsFiniteSet(P)
    BY FS_Subset DEF LedgerInv, Shape, OpenPositions
  <2>2. [p \in P |-> <<p, held[p]>>] \in Surjection(P, {<<p, held[p]>> : p \in P})
    BY DEF Surjection
  <2> QED
    BY <2>1, <2>2, FS_Surjection
<1>5. /\ \A i \in DOMAIN legs : legs[i] \in {<<p, held[p]>> : p \in P}
      /\ \A i, j \in DOMAIN legs : legs[i] = legs[j] => i = j
  BY <1>4, SetToSeqFacts
<1> HIDE DEF legs
<1>6. ASSUME NEW i \in DOMAIN legs
      PROVE  legs[i] = <<legs[i][1], held[legs[i][1]]>> /\ legs[i][1] \in Positions /\ legs[i][2] \in Nat
  <2>1. PICK p \in P : legs[i] = <<p, held[p]>>
    BY <1>5
  <2>2. legs[i][1] = p /\ legs[i][2] = held[p] /\ p \in Positions
    BY <2>1 DEF OpenPositions
  <2> QED
    BY <2>1, <2>2 DEF SoldInv, HeldInv
<1>7. \A i, j \in DOMAIN legs : legs[i][1] = legs[j][1] => i = j
  BY <1>5, <1>6
<1>8. snd'[s] = c /\ \A t \in Senders : t # s => snd'[t] = snd[t]
  BY <1>2, OneCall
<1>9. CallOk(s)'
  <2>1. Positions' = Positions
    BY <1>2 DEF ledger, Positions
  <2>2. /\ \A i \in DOMAIN c.legs : c.legs[i][1] \in Positions' /\ c.legs[i][2] \in Nat
        /\ \A i, j \in DOMAIN c.legs : c.legs[i][1] = c.legs[j][1] => i = j
    BY <1>3, <1>6, <1>7, <2>1
  <2> QED
    BY <1>3, <1>8, <2>2 DEF CallOk
<1> QED
  BY <1>2, <1>8, <1>9, CallSold

LEMMA AskSold ==
  ASSUME LedgerInv, SoldInv, NEW O, order' = AskCancel(O), UNCHANGED <<held, ex, wrk>>,
         \A t \in Senders : snd'[t] = snd[t] \/ CallOk(t)'
  PROVE  SoldInv'
<1>1. Calm /\ BooksKept /\ NoneSettled
  BY CalmAsk, KeptAsk DEF LedgerInv
<1> QED
  BY <1>1, ExSame, QuietCalls

-----------------------------------------------------------------------------
(* Orders are saved.                                                        *)

\* Orders that close positions, one each, of which no other order alive does,
\* and no more than there is; or an entry.
NewRow(r) == r.st = "queued" /\ r.booked = 0 /\ r.qty \in Nat
ClosingRow(r) ==
    /\ r.act = "close" /\ r.pos \in Positions /\ r.qty <= held[r.pos]
    /\ \A o \in Ids \ Opens : Unresolved(o) => order[o].pos # r.pos
ClosingRows(rows) ==
    /\ \A i \in 1 .. Len(rows) : ClosingRow(rows[i])
    /\ \A i, j \in 1 .. Len(rows) : rows[i].pos = rows[j].pos => i = j
OpeningRow(rows) == Len(rows) = 1 /\ rows[1].act = "open" /\ rows[1].pos = NoPosition

LEMMA NewRowOk ==
  ASSUME NEW r, NewRow(r), r.act \in {"open", "close"}
  PROVE  RowOk(r, NewOnExchange) /\ Total(SubSeq(NewOnExchange.fills, 1, r.booked)) = 0
<1>1. NewOnExchange.st = "none" /\ NewOnExchange.fills = <<>>
  BY DEF NewOnExchange
<1>2. <<>> \in Seq(Nat \ {0}) /\ Len(<<>>) = 0
  BY EmptySeq
<1>3. Total(SubSeq(NewOnExchange.fills, 1, r.booked)) = 0
  BY PartNone DEF NewRow
<1>4. Total(NewOnExchange.fills) = 0
  BY <1>1, TotalNone
<1> QED
  BY <1>1, <1>2, <1>3, <1>4 DEF RowOk, NewRow

LEMMA InsertSold ==
  ASSUME LedgerInv, SoldInv, NEW rows, IsList(rows), Insert(rows), UNCHANGED <<held, wrk>>,
         \A i \in 1 .. Len(rows) : NewRow(rows[i]),
         ClosingRows(rows) \/ OpeningRow(rows),
         \A t \in Senders : snd'[t] = snd[t] \/ CallOk(t)'
  PROVE  SoldInv'
<1> DEFINE n == Len(order)
           k == Len(rows)
<1>1. /\ n \in Nat /\ k \in Nat /\ Ids = 1 .. n /\ Ids' = 1 .. n + k
      /\ \A o \in Ids : order'[o] = order[o] /\ ex'[o] = ex[o]
      /\ \A i \in 1 .. k : order'[n + i] = rows[i] /\ ex'[n + i] = NewOnExchange
  BY InsertFacts DEF LedgerInv
<1>2. ASSUME NEW o \in Ids', o \notin Ids PROVE \E i \in 1 .. k : o = n + i
  <2>1. o - n \in 1 .. k /\ o = n + (o - n)
    BY <1>1, <1>2
  <2> QED
    BY <2>1
<1>3. Ids \subseteq Ids' /\ Positions' = Positions
  BY <1>1 DEF Positions
<1>4. \A i \in 1 .. k : rows[i].act \in {"open", "close"}
  BY DEF ClosingRows, ClosingRow, OpeningRow
<1> HIDE DEF n, k
<1>5. ASSUME NEW o \in Ids', o \notin Ids
      PROVE  RowOk(order'[o], ex'[o]) /\ BookedQty(o)' = 0 /\ NewRow(order'[o])
  <2>1. PICK i \in 1 .. k : o = n + i
    BY <1>2, <1>5
  <2>2. PICK r : r = rows[i]
    OBVIOUS
  <2>3. order'[o] = r /\ ex'[o] = NewOnExchange
    BY <1>1, <2>1, <2>2
  <2>4. NewRow(r) /\ r.act \in {"open", "close"}
    BY <1>4, <2>2 DEF k
  <2>5. RowOk(r, NewOnExchange) /\ Total(SubSeq(NewOnExchange.fills, 1, r.booked)) = 0
    BY <2>4, NewRowOk
  <2> QED
    BY <2>3, <2>4, <2>5 DEF BookedQty
<1>6. RowsInv'
  BY <1>1, <1>5 DEF SoldInv, RowsInv
<1>7. RowsGrow
  <2>1. ASSUME NEW o \in Ids PROVE Grows(order[o], ex[o], order'[o], ex'[o])
    <3>1. PICK r, e : r = order[o] /\ e = ex[o]
      OBVIOUS
    <3>2. RowOk(r, e)
      BY <3>1 DEF SoldInv, RowsInv
    <3>3. Grows(r, e, r, e)
      BY <3>2, FillsType DEF Grows
    <3> QED
      BY <1>1, <3>1, <3>3
  <2> QED
    BY <2>1 DEF RowsGrow
<1>8. PassInv'
  BY <1>3, <1>6, <1>7, PassesSame DEF SoldInv
<1>9. CallsInv'
  <2>1. SentKept
    BY <1>1, <1>3 DEF SentKept
  <2> QED
    BY <2>1, CallsKept DEF SoldInv
<1>10. \A o \in Ids : BookedQty(o)' = BookedQty(o) /\ (Unresolved(o)' <=> Unresolved(o))
  BY <1>1 DEF BookedQty, Unresolved
\* Nothing is booked of what is new.
<1>11. ASSUME NEW S \in SUBSET Ids'
       PROVE  SumFunctionOnSet(Booked', S) = SumFunctionOnSet(Booked, S \cap Ids)
  <2>1. PICK f, g : f = Booked' /\ g = Booked
    OBVIOUS
  <2>2. IsFiniteSet(S)
    <3>1. Ids' = 1 .. n + k /\ n + k \in Int /\ 1 \in Int
      BY <1>1
    <3>2. IsFiniteSet(1 .. n + k)
      BY <3>1, FS_Interval
    <3> QED
      BY <3>1, <3>2, FS_Subset
  <2>3. \A o \in Ids : g[o] = BookedQty(o) /\ g[o] \in Int
    BY <2>1, BookedIs DEF SoldInv
  <2>4. \A o \in S : f[o] = BookedQty(o)'
    BY <2>1 DEF Booked
  <2>5. /\ \A o \in S : f[o] \in Int
        /\ \A o \in S \ (S \cap Ids) : f[o] = 0
        /\ \A o \in S \cap Ids : f[o] \in Int /\ f[o] = g[o]
    BY <1>5, <1>10, <2>3, <2>4
  <2>6. SumFunctionOnSet(f, S) = SumFunctionOnSet(f, S \cap Ids)
    BY <2>2, <2>5, SumZeros
  <2>7. IsFiniteSet(S \cap Ids)
    BY <2>2, FS_Subset
  <2>8. SumFunctionOnSet(f, S \cap Ids) = SumFunctionOnSet(g, S \cap Ids)
    BY <2>5, <2>7, SumSame
  <2> QED
    BY <2>1, <2>6, <2>8
<1>12. ASSUME NEW p PROVE Sold(p)' = Sold(p)
  <2>1. Closers(p)' \in SUBSET Ids' /\ Closers(p)' \cap Ids = Closers(p)
    BY <1>1, <1>3 DEF Closers
  <2>2. SumFunctionOnSet(Booked', Closers(p)') = SumFunctionOnSet(Booked, Closers(p)' \cap Ids)
    BY <1>11, <2>1
  <2> QED
    BY <2>1, <2>2 DEF Sold
<1>13. /\ Opens' \cap Ids = Opens /\ (Ids' \ Opens') \cap Ids = Ids \ Opens
       /\ Opens' \in SUBSET Ids' /\ Ids' \ Opens' \in SUBSET Ids'
  BY <1>1, <1>3 DEF Opens
<1>14. NetInv'
  <2>1. SumFunctionOnSet(Booked', Opens') = SumFunctionOnSet(Booked, Opens)
    <3>1. SumFunctionOnSet(Booked', Opens') = SumFunctionOnSet(Booked, Opens' \cap Ids)
      BY <1>11, <1>13
    <3> QED
      BY <1>13, <3>1
  <2>2. SumFunctionOnSet(Booked', Ids' \ Opens') = SumFunctionOnSet(Booked, Ids \ Opens)
    <3>1. SumFunctionOnSet(Booked', Ids' \ Opens') = SumFunctionOnSet(Booked, (Ids' \ Opens') \cap Ids)
      BY <1>11, <1>13
    <3> QED
      BY <1>13, <3>1
  <2>3. LedgerNet' = LedgerNet
    BY DEF LedgerNet
  <2> QED
    BY <2>1, <2>2, <2>3 DEF SoldInv, NetInv
<1>15. HeldInv'
  <2>1. ASSUME NEW p \in Positions
        PROVE  /\ IsFillOf(p)' /\ held'[p] \in Nat
               /\ held'[p] + Sold(p)' = ex'[p[1]].fills[p[2]]
    <3>1. IsFillOf(p) /\ held[p] + Sold(p) = ex[p[1]].fills[p[2]] /\ held[p] \in Nat
      BY DEF SoldInv, HeldInv
    <3>2. p[1] \in Ids /\ p[1] \in Opens'
      BY <1>13, <3>1 DEF IsFillOf, Opens
    <3> QED
      BY <1>1, <1>12, <3>1, <3>2 DEF IsFillOf
  <2>2. ASSUME NEW o \in Ids' \ Opens' PROVE order'[o].pos \in Positions
    <3>1. CASE o \in Ids
      BY <1>1, <1>13, <3>1 DEF SoldInv, HeldInv
    <3>2. CASE o \notin Ids
      <4>1. PICK i \in 1 .. k : o = n + i
        BY <1>2, <3>2
      <4>2. order'[o] = rows[i] /\ rows[i].act # "open"
        BY <1>1, <4>1 DEF Opens
      <4> QED
        BY <4>2 DEF k, ClosingRows, ClosingRow, OpeningRow
    <3> QED
      BY <3>1, <3>2
  <2>3. ASSUME NEW o \in Opens' PROVE order'[o].pos = NoPosition
    <3>1. CASE o \in Ids
      BY <1>1, <1>13, <3>1 DEF SoldInv, HeldInv
    <3>2. CASE o \notin Ids
      <4>1. PICK i \in 1 .. k : o = n + i
        BY <1>2, <1>13, <3>2
      <4>2. order'[o] = rows[i] /\ rows[i].act = "open"
        BY <1>1, <4>1 DEF Opens
      <4> QED
        BY <4>2 DEF k, ClosingRows, ClosingRow, OpeningRow
    <3> QED
      BY <3>1, <3>2
  <2> QED
    BY <1>3, <2>1, <2>2, <2>3 DEF HeldInv
<1>16. ASSUME NEW o \in Ids' \ Opens', o \notin Ids
       PROVE  \E i \in 1 .. k : o = n + i /\ order'[o] = rows[i] /\ ClosingRow(rows[i]) /\ ClosingRows(rows)
  <2>1. PICK i \in 1 .. k : o = n + i
    BY <1>2, <1>16
  <2>2. order'[o] = rows[i] /\ rows[i].act # "open"
    BY <1>1, <2>1, <1>16 DEF Opens
  <2> QED
    BY <2>1, <2>2 DEF k, ClosingRows, OpeningRow
<1>17. AliveInv'
  <2>1. ASSUME NEW y \in Ids' \ Opens', NEW z \in Ids' \ Opens',
               Unresolved(y)', Unresolved(z)', order'[y].pos = order'[z].pos
        PROVE  y = z
    <3>1. ASSUME NEW a \in Ids' \ Opens', NEW b \in Ids' \ Opens', a \notin Ids, b \in Ids,
                 Unresolved(b)'
          PROVE  order'[a].pos # order'[b].pos
      <4>1. PICK i \in 1 .. k : order'[a] = rows[i] /\ ClosingRow(rows[i])
        BY <1>16, <3>1
      <4>2. b \in Ids \ Opens /\ Unresolved(b) /\ order'[b] = order[b]
        BY <1>1, <1>10, <1>13, <3>1
      <4> QED
        BY <4>1, <4>2 DEF ClosingRow
    <3>2. CASE y \in Ids /\ z \in Ids
      BY <1>1, <1>10, <1>13, <2>1, <3>2 DEF SoldInv, AliveInv
    <3>3. CASE y \notin Ids /\ z \notin Ids
      <4>1. PICK i \in 1 .. k : y = n + i /\ order'[y] = rows[i] /\ ClosingRows(rows)
        BY <1>16, <3>3
      <4>2. PICK j \in 1 .. k : z = n + j /\ order'[z] = rows[j]
        BY <1>16, <3>3
      <4> QED
        BY <2>1, <4>1, <4>2 DEF ClosingRows, k
    <3> QED
      BY <2>1, <3>1, <3>2, <3>3
  <2>2. ASSUME NEW y \in Ids' \ Opens', Unresolved(y)'
        PROVE  order'[y].qty - BookedQty(y)' <= held'[order'[y].pos]
    <3>1. CASE y \in Ids
      BY <1>1, <1>10, <1>13, <2>2, <3>1 DEF SoldInv, AliveInv
    <3>2. CASE y \notin Ids
      <4>1. PICK i \in 1 .. k : order'[y] = rows[i] /\ ClosingRow(rows[i])
        BY <1>16, <3>2
      <4>2. BookedQty(y)' = 0 /\ order'[y].qty \in Nat
        BY <1>5, <3>2 DEF NewRow
      <4> QED
        BY <4>1, <4>2 DEF ClosingRow
    <3> QED
      BY <3>1, <3>2
  <2> QED
    BY <2>1, <2>2 DEF AliveInv
<1> QED
  BY <1>6, <1>8, <1>9, <1>14, <1>15, <1>17 DEF SoldInv

LEMMA CreateTpSold ==
  ASSUME LedgerInv, SoldInv, NEW p \in OpenPositions, CreateTp(p)
  PROVE  SoldInv'
<1>1. PICK r : r = Row("close", TRUE, p, held[p])
  OBVIOUS
<1>2. Insert(<<r>>) /\ UNCHANGED <<held, snd, wrk>> /\ TpAllowed(p)
  BY <1>1 DEF CreateTp
<1>3. p \in Positions /\ held[p] \in Nat
  BY DEF OpenPositions, SoldInv, HeldInv
<1>4. NewRow(r) /\ r.act = "close" /\ r.pos = p /\ r.qty = held[p]
  <2>1. PICK q : q = held[p]
    OBVIOUS
  <2>2. q \in Nat /\ r = Row("close", TRUE, p, q)
    BY <1>1, <1>3, <2>1
  <2>3. NewRow(r) /\ r.act = "close" /\ r.pos = p /\ r.qty = q
    BY <2>2 DEF Row, NewRow
  <2> QED
    BY <2>1, <2>3
<1>5. IsList(<<r>>) /\ Len(<<r>>) = 1 /\ \A i \in 1 .. 1 : <<r>>[i] = r
  BY DEF IsList
<1>6. ClosingRow(r)
  BY <1>2, <1>3, <1>4 DEF ClosingRow, TpAllowed
<1>7. ClosingRows(<<r>>)
  <2>1. \A i, j \in 1 .. 1 : i = j
    OBVIOUS
  <2> QED
    BY <1>5, <1>6, <2>1 DEF ClosingRows
<1> QED
  BY <1>2, <1>4, <1>5, <1>7, InsertSold

\* The rows of a batch are saved, and the call goes on to send them.
LEMMA SendSold ==
  ASSUME LedgerInv, SoldInv, NEW s \in Senders, NEW rows, IsList(rows), Send(s, rows),
         UNCHANGED <<held, wrk>>,
         \A i \in 1 .. Len(rows) : NewRow(rows[i]),
         ClosingRows(rows) \/ OpeningRow(rows)
  PROVE  SoldInv'
<1> DEFINE todo == [i \in DOMAIN rows |-> Len(order) + i]
<1>1. PICK c : c = [snd[s] EXCEPT !.pc = "next", !.todo = todo]
  OBVIOUS
<1>2. Insert(rows) /\ snd' = [snd EXCEPT ![s] = c]
  BY <1>1 DEF Send
<1> HIDE DEF todo
<1>3. c.pc = "next"
  BY <1>1 DEF LedgerInv, Shape, SenderFields
<1>4. snd'[s] = c /\ \A t \in Senders : t # s => snd'[t] = snd[t]
  BY <1>2, OneCall
<1>5. CallOk(s)'
  BY <1>3, <1>4 DEF CallOk
<1> QED
  BY <1>2, <1>4, <1>5, InsertSold

\* The orders of a batch that closes positions: they hold what is to be sold,
\* and no other order alive sells it.
LEMMA CloseBatch ==
  ASSUME LedgerInv, SoldInv, NEW s \in Senders, NEW legs, legs = snd[s].legs,
         snd[s].pc = "begin", snd[s].act = "close", ~BatchRefused(s),
         Guards(LegPositions(legs)) = {}, UNCHANGED <<held, wrk>>,
         Send(s, [i \in DOMAIN legs |-> Row("close", FALSE, legs[i][1], legs[i][2])])
  PROVE  SoldInv'
<1>1. PICK rows : rows = [i \in DOMAIN legs |-> Row("close", FALSE, legs[i][1], legs[i][2])]
  OBVIOUS
<1>2. Len(legs) \in Nat /\ DOMAIN legs = 1 .. Len(legs)
  BY ListFacts DEF LedgerInv, TodoInv
<1>3. IsList(rows) /\ DOMAIN rows = 1 .. Len(legs)
  BY <1>1, <1>2 DEF IsList
<1>4. Len(rows) = Len(legs)
  <2>1. DOMAIN rows = 1 .. Len(rows) /\ Len(rows) \in Nat
    BY <1>3, ListFacts
  <2> QED
    BY <1>2, <1>3, <2>1
<1>5. /\ \A i \in DOMAIN legs : legs[i][1] \in Positions /\ legs[i][2] \in Nat
      /\ \A i, j \in DOMAIN legs : legs[i][1] = legs[j][1] => i = j
  BY DEF SoldInv, CallsInv, CallOk
<1>6. ASSUME NEW i \in 1 .. Len(rows)
      PROVE  /\ NewRow(rows[i]) /\ rows[i].act = "close"
             /\ rows[i].pos = legs[i][1] /\ rows[i].qty = legs[i][2]
  <2>1. PICK p, q, r : p = legs[i][1] /\ q = legs[i][2] /\ r = rows[i]
    OBVIOUS
  <2>2. r = Row("close", FALSE, p, q) /\ q \in Nat
    BY <1>1, <1>2, <1>4, <1>5, <2>1
  <2>3. NewRow(r) /\ r.act = "close" /\ r.pos = p /\ r.qty = q
    BY <2>2 DEF Row, NewRow
  <2> QED
    BY <2>1, <2>3
<1>7. ASSUME NEW o \in Ids \ Opens, Unresolved(o)
      PROVE  order[o].pos \notin LegPositions(legs)
  <2>1. order[o].act # "open"
    BY <1>7 DEF Opens
  <2>2. order[o].tp
    BY <1>7, <2>1 DEF BatchRefused, Blocked, Standard
  <2> QED
    BY <1>7, <2>2 DEF Guards
<1>8. ASSUME NEW i \in 1 .. Len(rows) PROVE ClosingRow(rows[i])
  <2>1. rows[i].pos \in Positions /\ rows[i].pos \in LegPositions(legs)
    BY <1>2, <1>4, <1>5, <1>6 DEF LegPositions
  <2>2. LegsHold(legs)
    BY DEF BatchRefused
  <2>3. held[legs[i][1]] >= legs[i][2] /\ held[legs[i][1]] \in Nat /\ legs[i][2] \in Nat
    BY <1>2, <1>4, <1>5, <2>2 DEF LegsHold, SoldInv, HeldInv
  <2>4. rows[i].qty <= held[rows[i].pos]
    BY <1>6, <2>3
  <2> QED
    BY <1>6, <1>7, <2>1, <2>4 DEF ClosingRow
<1>9. ClosingRows(rows)
  BY <1>2, <1>4, <1>5, <1>6, <1>8 DEF ClosingRows
<1> QED
  BY <1>1, <1>3, <1>6, <1>9, SendSold

LEMMA BeginBatchSold ==
  ASSUME LedgerInv, SoldInv, NEW s \in Senders, BeginBatch(s)
  PROVE  SoldInv'
<1>1. PICK legs, P : legs = snd[s].legs /\ P = LegPositions(legs)
  OBVIOUS
<1>2. snd[s].pc = "begin" /\ UNCHANGED <<held, wrk>>
  BY DEF BeginBatch
<1>3. CASE Stop(s) /\ UNCHANGED <<order, exits, ex>>
  <2>1. UNCHANGED <<ledger, ex, wrk>>
    BY <1>2, <1>3 DEF ledger
  <2> QED
    BY <1>3, <2>1, StopOk, CallSold
<1>4. CASE Stop(s) /\ UNCHANGED ex /\ order' = AskCancel(Guards(P))
  <2>1. CallOk(s)' /\ \A t \in Senders : t # s => snd'[t] = snd[t]
    BY <1>4, StopOk
  <2>2. \A t \in Senders : snd'[t] = snd[t] \/ CallOk(t)'
    BY <2>1
  <2> QED
    BY <1>2, <1>4, <2>2, AskSold
<1>5. CASE /\ ~BatchRefused(s) /\ snd[s].act = "close" /\ Guards(P) = {}
           /\ Send(s, [i \in DOMAIN legs |-> Row("close", FALSE, legs[i][1], legs[i][2])])
  BY <1>1, <1>2, <1>5, CloseBatch
<1>6. ASSUME NEW q \in Sizes, Send(s, <<Row("open", FALSE, NoPosition, q)>>)
      PROVE  SoldInv'
  <2>1. PICK r : r = Row("open", FALSE, NoPosition, q)
    OBVIOUS
  <2>2. q \in Nat
    BY SizesAssumption DEF Sizes
  <2>3. NewRow(r) /\ r.act = "open" /\ r.pos = NoPosition
    BY <2>1, <2>2 DEF Row, NewRow
  <2>4. IsList(<<r>>) /\ Len(<<r>>) = 1 /\ \A i \in 1 .. 1 : <<r>>[i] = r
    BY DEF IsList
  <2>5. OpeningRow(<<r>>)
    BY <2>3, <2>4 DEF OpeningRow
  <2> QED
    BY <1>2, <1>6, <2>1, <2>3, <2>4, <2>5, SendSold
<1>7. \/ Stop(s) /\ UNCHANGED <<order, exits, ex>>
      \/ Stop(s) /\ UNCHANGED ex /\ order' = AskCancel(Guards(P))
      \/ /\ ~BatchRefused(s) /\ snd[s].act = "close" /\ Guards(P) = {}
         /\ Send(s, [i \in DOMAIN legs |-> Row("close", FALSE, legs[i][1], legs[i][2])])
      \/ \E q \in Sizes : Send(s, <<Row("open", FALSE, NoPosition, q)>>)
  BY <1>1 DEF BeginBatch
<1> QED
  BY <1>3, <1>4, <1>5, <1>6, <1>7

LEMMA MarkSendingSold ==
  ASSUME LedgerInv, SoldInv, NEW s \in Senders, MarkSending(s)
  PROVE  SoldInv'
<1>1. PICK o : o = Head(snd[s].todo)
  OBVIOUS
<1>2. o \in Ids /\ snd[s].pc = "next" /\ UNCHANGED <<held, exits, ex, wrk>>
  BY <1>1, HeadInLedger DEF MarkSending, Sending
<1>3. CASE ~MaySend(o)
  <2>1. Stop(s) /\ UNCHANGED <<ledger, ex, wrk>>
    BY <1>1, <1>2, <1>3 DEF MarkSending, ledger
  <2> QED
    BY <2>1, StopOk, CallSold
<1>4. CASE MaySend(o)
  <2>1. PICK st, c : st = "sending" /\ c = [snd[s] EXCEPT !.pc = "post"]
    OBVIOUS
  <2>2. order' = [order EXCEPT ![o].st = st] /\ snd' = [snd EXCEPT ![s] = c]
    BY <1>1, <1>4, <2>1 DEF MarkSending
  <2>3. Calm
    BY MarkSendingCalm DEF LedgerInv
  <2>4. BooksKept /\ NoneSettled
    <3>1. Shape /\ st \notin {"queued", "final"}
      BY <2>1 DEF LedgerInv
    <3> QED
      BY <2>2, <3>1, KeptField
  <2>5. c.pc = "post" /\ c.todo = snd[s].todo
    BY <2>1 DEF LedgerInv, Shape, SenderFields
  <2>6. snd'[s] = c /\ \A t \in Senders : t # s => snd'[t] = snd[t]
    BY <2>2, OneCall
  <2>7. order'[o].st = "sending"
    BY <1>2, <2>1, <2>2 DEF LedgerInv, Shape, OrderFields, Ids
  <2>8. CallOk(s)'
    BY <1>1, <2>5, <2>6, <2>7 DEF CallOk
  <2>9. \A t \in Senders : snd'[t] = snd[t] \/ CallOk(t)'
    BY <2>6, <2>8
  <2> QED
    BY <1>2, <2>3, <2>4, <2>9, ExSame, QuietCalls
<1> QED
  BY <1>3, <1>4

\* The answer of the one POST of an order: it was not at Binance before.
LEMMA PostSold ==
  ASSUME LedgerInv, SoldInv, NEW s \in Senders, Post(s)
  PROVE  SoldInv'
<1>0. PICK o : o = Head(snd[s].todo)
  OBVIOUS
<1>1. PICK st \in {"open", "none", "refused"}, ans \in {"ack", "lost", "refused"} :
        /\ ans = "refused" <=> st = "refused"
        /\ ex' = [ex EXCEPT ![o].st = st, ![o].posts = @ + 1]
        /\ snd' = [snd EXCEPT ![s].pc = "settle", ![s].ans = ans]
  BY <1>0, Zenon DEF Post
<1>2. snd[s].pc = "post" /\ UNCHANGED <<order, held, wrk>> /\ o \in Ids
  BY <1>0, HeadInLedger DEF Post, ledger, Sending
<1>3. PICK r, e, x, c :
        /\ r = order[o] /\ e = ex[o] /\ x = [e EXCEPT !.st = st, !.posts = e.posts + 1]
        /\ c = [snd[s] EXCEPT !.pc = "settle", !.ans = ans]
  OBVIOUS
<1>4. IsList(ex) /\ Ids = DOMAIN ex
  BY ListFacts DEF LedgerInv, Shape, Ids
<1>5. ex' = [ex EXCEPT ![o] = x] /\ snd' = [snd EXCEPT ![s] = c]
  BY <1>1, <1>2, <1>3, <1>4 DEF LedgerInv, Shape, ExFields
<1>6. x.st = st /\ x.posts = e.posts + 1 /\ x.fills = e.fills
  BY <1>2, <1>3 DEF LedgerInv, Shape, ExFields
<1>7. c.pc = "settle" /\ c.ans = ans /\ c.todo = snd[s].todo
  BY <1>3 DEF LedgerInv, Shape, SenderFields
<1>8. ex'[o] = x /\ \A q \in Ids : q # o => ex'[q] = ex[q]
  BY <1>2, <1>4, <1>5
<1>9. snd'[s] = c /\ \A t \in Senders : t # s => snd'[t] = snd[t]
  BY <1>5, OneCall
<1>10. e.posts = 0 /\ r.st \notin {"queued", "final"} /\ RowOk(r, e)
  BY <1>0, <1>2, <1>3 DEF LedgerInv, PostInv, SoldInv, CallsInv, CallOk, RowsInv
<1>11. e.st = "none" /\ e.fills = <<>>
  BY <1>10 DEF RowOk
<1>12. Len(e.fills) \in Nat /\ r.booked \in Nat
  BY <1>10, FillsType
<1>13. RowOk(r, x) /\ Grows(r, e, r, x)
  <2>1. RowOk(r, x)
    BY <1>6, <1>10, <1>11 DEF RowOk
  <2>2. Grows(r, e, r, x)
    BY <1>6, <1>11, <1>12 DEF Grows
  <2> QED
    BY <2>1, <2>2
<1>14. ASSUME NEW p \in Ids
       PROVE  RowOk(order'[p], ex'[p]) /\ Grows(order[p], ex[p], order'[p], ex'[p])
  <2>1. CASE p = o
    BY <1>2, <1>3, <1>8, <1>13, <2>1
  <2>2. CASE p # o
    <3>1. PICK u, g : u = order[p] /\ g = ex[p]
      OBVIOUS
    <3>2. RowOk(u, g)
      BY <3>1 DEF SoldInv, RowsInv
    <3>3. Len(g.fills) \in Nat /\ u.booked \in Nat
      BY <3>2, FillsType
    <3>4. Grows(u, g, u, g)
      BY <3>3 DEF Grows
    <3> QED
      BY <1>2, <1>8, <2>2, <3>1, <3>2, <3>4
  <2> QED
    BY <2>1, <2>2
<1>15. Calm /\ BooksKept
  BY <1>2, CalmOrder, KeptSame DEF LedgerInv
<1>16. RowsInv' /\ RowsGrow
  BY <1>14, <1>15 DEF Calm, RowsInv, RowsGrow
<1>17. CallsInv'
  <2>1. SentKept
    BY <1>2, <1>3, <1>8, <1>11 DEF SentKept, Positions
  <2>2. CallOk(s)'
    BY <1>0, <1>1, <1>6, <1>7, <1>8, <1>9 DEF CallOk
  <2>3. \A t \in Senders : snd'[t] = snd[t] \/ CallOk(t)'
    BY <1>9, <2>2
  <2> QED
    BY <2>1, <2>3, CallsKept DEF SoldInv
<1>18. PassInv'
  BY <1>2, <1>15, <1>16, PassesSame DEF SoldInv, Calm
<1> QED
  BY <1>2, <1>15, <1>16, <1>17, <1>18, PlainStep DEF Plain

LEMMA KeptAttention ==
  ASSUME Shape, NEW o, order' = MarkAttention(o)
  PROVE  BooksKept /\ NoneSettled
<1>0. PICK st, x : /\ st = IF order[o].st = "final" THEN order[o].st ELSE "attention"
                   /\ x = [order[o] EXCEPT !.st = st]
  OBVIOUS
<1>1. order' = [order EXCEPT ![o] = x]
  BY <1>0 DEF MarkAttention
<1>2. st \in {"queued", "final"} => st = order[o].st
  BY <1>0
<1>3. o \in Ids => x.qty = order[o].qty /\ x.booked = order[o].booked /\ x.st = st
  BY <1>0 DEF Shape, OrderFields
<1>4. /\ o \in Ids => order'[o] = x
      /\ \A q \in Ids : q # o => order'[q] = order[q]
  BY <1>1 DEF Ids
<1>5. ASSUME NEW q \in Ids
      PROVE  /\ order'[q].qty = order[q].qty /\ order'[q].booked = order[q].booked
             /\ order'[q].st \in {"queued", "final"} => order'[q].st = order[q].st
  <2>1. CASE q = o
    BY <1>2, <1>3, <1>4, <2>1
  <2>2. CASE q # o
    BY <1>4, <2>2
  <2> QED
    BY <2>1, <2>2
<1> QED
  BY <1>5 DEF BooksKept, NoneSettled

\* After its answer a call stops, or goes on to its next order.
LEMMA AnsweredCall ==
  ASSUME LedgerInv, NEW s \in Senders, Settle(s)
  PROVE  CallOk(s)' /\ \A t \in Senders : t # s => snd'[t] = snd[t]
<1>1. CASE Stop(s)
  BY <1>1, StopOk
<1>2. CASE snd' = [snd EXCEPT ![s].pc = "next", ![s].todo = Tail(@)]
  <2>1. PICK c : c = [snd[s] EXCEPT !.pc = "next", !.todo = Tail(snd[s].todo)]
    OBVIOUS
  <2>2. snd' = [snd EXCEPT ![s] = c]
    BY <1>2, <2>1
  <2>3. c.pc = "next"
    BY <2>1 DEF LedgerInv, Shape, SenderFields
  <2>4. snd'[s] = c /\ \A t \in Senders : t # s => snd'[t] = snd[t]
    BY <2>2, OneCall
  <2> QED
    BY <2>3, <2>4 DEF CallOk
<1> QED
  BY <1>1, <1>2 DEF Settle

LEMMA SettleSold ==
  ASSUME LedgerInv, SoldInv, NEW s \in Senders, Settle(s)
  PROVE  SoldInv'
<1>0. Shape
  BY DEF LedgerInv
<1>1. PICK o : o = Head(snd[s].todo)
  OBVIOUS
<1>2. o \in Ids /\ snd[s].pc = "settle" /\ UNCHANGED <<held, exits, ex, wrk>>
  BY <1>1, HeadInLedger DEF Settle, Sending
<1>3. Calm
  BY <1>0, SettleCalm
<1>4. CallOk(s)' /\ \A t \in Senders : t # s => snd'[t] = snd[t]
  BY AnsweredCall
<1>5. \A t \in Senders : snd'[t] = snd[t] \/ CallOk(t)'
  BY <1>4
<1>6. CASE BooksKept /\ NoneSettled
  BY <1>2, <1>3, <1>5, <1>6, ExSame, QuietCalls
<1>7. CASE order' = Rejected(o) /\ snd[s].ans = "refused"
  <2>1. /\ BooksKept /\ order'[o].st = "queued"
        /\ \A q \in Ids : q # o => order'[q] = order[q]
    BY <1>0, <1>2, <1>7, KeptRejected
  <2>2. ex[o].st = "refused" /\ RowOk(order[o], ex[o])
    BY <1>1, <1>2, <1>7 DEF SoldInv, CallsInv, CallOk, RowsInv
  <2>3. ex[o].posts # 0
    BY <2>2 DEF RowOk
  <2>4. ASSUME NEW q \in Ids
        PROVE  RowOk(order'[q], ex'[q]) /\ Grows(order[q], ex[q], order'[q], ex'[q])
    <3>1. PICK r, e, x : r = order[q] /\ e = ex[q] /\ x = order'[q]
      OBVIOUS
    <3>2. /\ RowOk(r, e) /\ x.act = r.act /\ x.qty = r.qty /\ x.booked = r.booked
          /\ q # o => x.st = r.st
          /\ q = o => x.st = "queued" /\ e.st = "refused"
      BY <1>3, <2>1, <2>2, <3>1 DEF SoldInv, RowsInv, Calm, KeepsOrder, BooksKept
    <3>3. Len(e.fills) \in Nat /\ r.booked \in Nat
      BY <3>2, FillsType
    <3>4. RowOk(x, e)
      BY <3>2 DEF RowOk
    <3>5. Grows(r, e, x, e)
      BY <3>2, <3>3 DEF Grows
    <3> QED
      BY <1>2, <3>1, <3>4, <3>5
  <2>5. RowsInv' /\ RowsGrow
    BY <1>3, <2>4 DEF Calm, RowsInv, RowsGrow
  <2>6. SentKept
    BY <1>2, <2>1, <2>3 DEF SentKept, Positions
  <2>7. CallsInv'
    BY <1>5, <2>6, CallsKept DEF SoldInv
  <2>8. PassInv'
    BY <1>2, <1>3, <2>5, PassesSame DEF SoldInv, Calm
  <2> QED
    BY <1>2, <1>3, <2>1, <2>5, <2>7, <2>8, PlainStep DEF Plain
<1>8. CASE order' = [order EXCEPT ![o].st = "active"]
  <2>1. PICK v : v = "active"
    OBVIOUS
  <2>2. v \notin {"queued", "final"} /\ order' = [order EXCEPT ![o].st = v]
    BY <1>8, <2>1
  <2>3. BooksKept /\ NoneSettled
    BY <1>0, <2>2, KeptField
  <2> QED
    BY <1>6, <2>3
<1>9. CASE order' = MarkAttention(o)
  <2>1. BooksKept /\ NoneSettled
    BY <1>0, <1>9, KeptAttention
  <2> QED
    BY <1>6, <2>1
<1> QED
  BY <1>1, <1>7, <1>8, <1>9 DEF Settle

LEMMA SenderSold ==
  ASSUME LedgerInv, SoldInv, NEW s \in Senders, SenderStep(s)
  PROVE  SoldInv'
<1>1. ASSUME CrashSender(s) PROVE SoldInv'
  BY <1>1, StopOk, CallSold DEF CrashSender
<1> QED
  BY <1>1, BeginBatchSold, MarkSendingSold, PostSold, SettleSold DEF SenderStep

LEMMA RequestSold ==
  ASSUME LedgerInv, SoldInv, Request
  PROVE  SoldInv'
<1>1. ASSUME NEW O, order' = AskCancel(O), UNCHANGED <<held, ex, snd, wrk>>
      PROVE  SoldInv'
  BY <1>1, AskSold
<1>2. ASSUME NEW s \in Senders, NEW p \in OpenPositions, DeferredExit(s, p)
      PROVE  SoldInv'
  <2>1. StartClose(s, {p}) /\ {p} \in SUBSET OpenPositions
    BY <1>2 DEF DeferredExit
  <2> QED
    BY <2>1, StartCloseSold
<1>3. CASE \/ \E P \in SUBSET OpenPositions : DeferExit(P)
           \/ \E o \in Ids : RequestCancel(o)
           \/ QueueReversal
  BY <1>1, <1>3 DEF DeferExit, RequestCancel, QueueReversal
<1>4. CASE \/ \E s \in Senders : StartOpen(s)
           \/ \E s \in Senders, o \in Ids : StartTp(s, o)
  BY <1>4, StartsSold
<1>5. CASE \E s \in Senders, P \in SUBSET OpenPositions : StartClose(s, P)
  BY <1>5, StartCloseSold
<1>6. CASE \E p \in OpenPositions : CreateTp(p)
  BY <1>6, CreateTpSold
<1> QED
  BY <1>2, <1>3, <1>4, <1>5, <1>6 DEF Request

LEMMA SoldInit == Init => SoldInv
<1> SUFFICES ASSUME Init PROVE SoldInv
  OBVIOUS
<1>1. Ids = {} /\ Opens = {} /\ Positions = {}
  BY DEF Init, Ids, Opens, Positions
<1>2. RowsInv
  BY <1>1 DEF RowsInv
<1>3. CallsInv
  BY IdleFacts DEF Init, CallsInv, CallOk
<1>4. PassInv
  <2>1. PICK c : c = IdleWorker
    OBVIOUS
  <2>2. c.pc = "idle" /\ DOMAIN c = PassFields
    BY <2>1 DEF IdleWorker, PassFields
  <2>3. DOMAIN wrk = Workers /\ \A w \in Workers : wrk[w] = c
    BY <2>1 DEF Init
  <2> QED
    BY <2>2, <2>3 DEF PassInv
<1>5. HeldInv /\ AliveInv
  BY <1>1 DEF HeldInv, AliveInv
<1>6. NetInv
  <2>1. LedgerNet = SumFunctionOnSet(held, {})
    BY <1>1 DEF LedgerNet, Positions, SumFunction, SumFunctionOnSet, FoldFunction
  <2>2. LedgerNet = 0
    BY <2>1, SumEmpty
  <2>3. SumFunctionOnSet(Booked, {}) = 0
    BY SumEmpty
  <2>4. Ids \ Opens = {}
    BY <1>1
  <2> QED
    BY <1>1, <2>2, <2>3, <2>4 DEF NetInv
<1> QED
  BY <1>2, <1>3, <1>4, <1>5, <1>6 DEF SoldInv

LEMMA SoldStep == LedgerInv /\ SoldInv /\ [Next]_vars => SoldInv'
<1> SUFFICES ASSUME LedgerInv, SoldInv, [Next]_vars PROVE SoldInv'
  OBVIOUS
<1>1. CASE UNCHANGED vars
  <2>1. UNCHANGED <<ledger, ex, snd, wrk, held>>
    BY <1>1 DEF vars, ledger
  <2>2. Calm /\ BooksKept /\ NoneSettled
    BY <2>1, CalmOrder, KeptSame DEF LedgerInv, ledger
  <2> QED
    BY <2>1, <2>2, ExSame, QuietCalls
<1> QED
  BY <1>1, RequestSold, EnvironmentSold, SenderSold, WorkerSold DEF Next

-----------------------------------------------------------------------------
(* The properties of the sums.                                              *)

LEMMA ExecutedIs ==
  ASSUME RowsInv
  PROVE  /\ \A o \in Ids : Executed[o] = Total(ex[o].fills) /\ Executed[o] \in Int
         /\ \A o \in Ids : Executed[o] <= order[o].qty
         /\ \A o \in Ids : ~Unresolved(o) => Executed[o] = Booked[o]
         /\ \A o \in Ids : ex[o].st = "open" => Unresolved(o)
         /\ \A S : ExSum(S) = SumFunctionOnSet(Executed, S)
<1>1. ASSUME NEW o \in Ids
      PROVE  /\ Executed[o] = Total(ex[o].fills) /\ Executed[o] \in Int
             /\ Executed[o] <= order[o].qty
             /\ ~Unresolved(o) => Executed[o] = Booked[o]
             /\ ex[o].st = "open" => Unresolved(o)
  <2>1. Executed[o] = Total(ex[o].fills) /\ Booked[o] = BookedQty(o)
    BY DEF Executed, Booked
  <2>2. PICK r, e : r = order[o] /\ e = ex[o]
    OBVIOUS
  <2>3. RowOk(r, e)
    BY <2>2 DEF RowsInv
  <2>4. Total(e.fills) <= r.qty
    BY <2>3 DEF RowOk
  <2>5. r.st = "final" => e.st # "open" /\ Total(SubSeq(e.fills, 1, r.booked)) = Total(e.fills)
    BY <2>3 DEF RowOk
  <2>6. Executed[o] \in Int
    BY <2>1, BookedType
  <2> QED
    BY <2>1, <2>2, <2>4, <2>5, <2>6 DEF Unresolved, BookedQty
<1>2. ASSUME NEW S PROVE ExSum(S) = SumFunctionOnSet(Executed, S)
  BY DEF ExSum, Executed
<1> QED
  BY <1>1, <1>2

LEMMA SoldIsThere ==
  ASSUME LedgerInv, SoldInv
  PROVE  NeverOversold
<1> SUFFICES ASSUME NEW p \in Positions
             PROVE  ExSum(Closers(p)) <= ex[p[1]].fills[p[2]]
  BY DEF NeverOversold
<1>1. PICK S, f, g : S = Closers(p) /\ f = Executed /\ g = Booked
  OBVIOUS
<1>2. IsFiniteSet(S) /\ S \subseteq Ids
  BY <1>1, IdsFinite DEF LedgerInv
<1>3. \A o \in S : f[o] \in Int /\ g[o] \in Int
  BY <1>1, <1>2, ExecutedIs, BookedIs DEF SoldInv
<1>4. SumFunctionOnSet(f, S) \in Int /\ SumFunctionOnSet(g, S) \in Int
  BY <1>2, <1>3, SumType
<1>5. held[p] \in Nat /\ held[p] + SumFunctionOnSet(g, S) = ex[p[1]].fills[p[2]]
  <2>1. held[p] + Sold(p) = ex[p[1]].fills[p[2]] /\ held[p] \in Nat
    BY DEF SoldInv, HeldInv
  <2> QED
    BY <1>1, <2>1 DEF Sold
\* An entry closes nothing.
<1>6. S \subseteq Ids \ Opens
  <2>1. ASSUME NEW o \in S, o \in Opens PROVE FALSE
    <3>1. order[o].pos = p /\ order[o].pos = NoPosition
      BY <1>1, <2>1 DEF Closers, SoldInv, HeldInv
    <3>2. p[1] = 0
      BY <3>1 DEF NoPosition
    <3>3. p[1] \in Ids
      BY DEF SoldInv, HeldInv, IsFillOf, Opens
    <3>4. Ids = 1 .. Len(order) /\ Len(order) \in Nat
      BY ListFacts DEF LedgerInv, Shape, Ids
    <3> QED
      BY <3>2, <3>3, <3>4
  <2> QED
    BY <1>2, <2>1
<1>7. \A o \in S : ~Unresolved(o) => f[o] = g[o]
  BY <1>1, <1>2, ExecutedIs DEF SoldInv
<1>8. CASE \A o \in S : ~Unresolved(o)
  <2>1. \A o \in S : f[o] \in Int /\ f[o] = g[o]
    BY <1>3, <1>7, <1>8
  <2>2. SumFunctionOnSet(f, S) = SumFunctionOnSet(g, S)
    BY <1>2, <2>1, SumSame
  <2>3. ExSum(S) = SumFunctionOnSet(f, S)
    BY <1>1, ExecutedIs DEF SoldInv
  <2> QED
    BY <1>1, <1>4, <1>5, <2>2, <2>3
<1>9. ASSUME NEW u \in S, Unresolved(u)
      PROVE  ExSum(S) <= ex[p[1]].fills[p[2]]
  <2>1. \A o \in S : o # u => ~Unresolved(o)
    <3>1. \A o \in S : order[o].pos = p
      BY <1>1 DEF Closers
    <3> QED
      BY <1>6, <1>9, <3>1 DEF SoldInv, AliveInv
  <2>2. \A o \in S : o # u => f[o] = g[o]
    BY <1>7, <2>1
  <2>3. SumFunctionOnSet(f, S) = SumFunctionOnSet(g, S) + (f[u] - g[u])
    BY <1>2, <1>3, <2>2, SumChange
  <2>4. order[u].pos = p /\ u \in Ids \ Opens
    BY <1>1, <1>6 DEF Closers
  <2>5. order[u].qty - BookedQty(u) <= held[p]
    BY <1>9, <2>4 DEF SoldInv, AliveInv
  <2>6. f[u] <= order[u].qty /\ g[u] = BookedQty(u) /\ order[u].qty \in Nat
    BY <1>1, <2>4, ExecutedIs, BookedIs, BookedType DEF SoldInv
  <2>7. f[u] - g[u] <= held[p]
    BY <1>3, <1>5, <2>5, <2>6
  <2>8. ExSum(S) = SumFunctionOnSet(f, S)
    BY <1>1, ExecutedIs DEF SoldInv
  <2>9. f[u] \in Int /\ g[u] \in Int
    BY <1>3
  <2> QED
    BY <1>4, <1>5, <2>3, <2>7, <2>8, <2>9
<1> QED
  BY <1>1, <1>8, <1>9

LEMMA DifferenceIsPending ==
  ASSUME LedgerInv, SoldInv, NEW S \in SUBSET Ids
  PROVE  ExSum(S) - SumFunctionOnSet(Booked, S) = Pending(S)
<1>1. PICK f, g, h, U :
        /\ f = Executed /\ g = Booked
        /\ h = [o \in Ids |-> Total(ex[o].fills) - BookedQty(o)]
        /\ U = {o \in S : Unresolved(o)}
  OBVIOUS
<1>2. IsFiniteSet(S)
  BY IdsFinite, FS_Subset DEF LedgerInv
<1>3. \A o \in S : f[o] \in Int /\ g[o] \in Int
  BY <1>1, ExecutedIs, BookedIs DEF SoldInv
<1>4. U \in SUBSET S
  BY <1>1
<1>5. \A o \in S \ U : f[o] = g[o]
  BY <1>1, ExecutedIs DEF SoldInv
<1>6. \A o \in U : h[o] = f[o] - g[o]
  <2>1. \A o \in Ids : h[o] = Total(ex[o].fills) - BookedQty(o)
    BY <1>1
  <2>2. \A o \in Ids : f[o] = Total(ex[o].fills) /\ g[o] = BookedQty(o)
    BY <1>1, ExecutedIs, BookedIs DEF SoldInv
  <2> QED
    BY <1>4, <2>1, <2>2
<1>7. SumFunctionOnSet(f, S) - SumFunctionOnSet(g, S) = SumFunctionOnSet(h, U)
  <2>1. \A o \in S : f[o] \in Int /\ g[o] \in Int
    BY <1>3
  <2>2. \A x \in S \ U : f[x] = g[x]
    BY <1>5
  <2>3. \A x \in U : h[x] = f[x] - g[x]
    BY <1>6
  <2>4. IsFiniteSet(S) /\ U \in SUBSET S
    BY <1>2, <1>4
  <2> HIDE <1>1
  <2> QED
    BY <2>1, <2>2, <2>3, <2>4, SumDifference
<1>8. ExSum(S) = SumFunctionOnSet(f, S)
  BY <1>1, ExecutedIs DEF SoldInv
<1>9. Pending(S) = SumFunctionOnSet(h, U)
  BY <1>1 DEF Pending
<1> QED
  BY <1>1, <1>7, <1>8, <1>9

LEMMA DifferenceExplained ==
  ASSUME LedgerInv, SoldInv
  PROVE  ExposureExplained
<1>1. Opens \in SUBSET Ids /\ Ids \ Opens \in SUBSET Ids
  BY DEF Opens
<1>2. PICK a, b, c, d :
        /\ a = ExSum(Opens) /\ b = ExSum(Ids \ Opens)
        /\ c = SumFunctionOnSet(Booked, Opens) /\ d = SumFunctionOnSet(Booked, Ids \ Opens)
  OBVIOUS
<1>3. a - c = Pending(Opens) /\ b - d = Pending(Ids \ Opens)
  BY <1>1, <1>2, DifferenceIsPending
<1>4. a \in Int /\ b \in Int /\ c \in Int /\ d \in Int
  <2>1. PICK f, g, S, T : f = Executed /\ g = Booked /\ S = Opens /\ T = Ids \ Opens
    OBVIOUS
  <2>2. IsFiniteSet(S) /\ IsFiniteSet(T)
    BY <2>1, IdsFinite DEF LedgerInv
  <2>3. \A o \in S \cup T : f[o] \in Int /\ g[o] \in Int
    BY <1>1, <2>1, ExecutedIs, BookedIs DEF SoldInv
  <2>4. /\ SumFunctionOnSet(f, S) \in Int /\ SumFunctionOnSet(f, T) \in Int
        /\ SumFunctionOnSet(g, S) \in Int /\ SumFunctionOnSet(g, T) \in Int
    BY <2>2, <2>3, SumType
  <2>5. a = SumFunctionOnSet(f, S) /\ b = SumFunctionOnSet(f, T)
    BY <1>2, <2>1, ExecutedIs DEF SoldInv
  <2> QED
    BY <1>2, <2>1, <2>4, <2>5
<1>5. LedgerNet = c - d
  BY <1>2 DEF SoldInv, NetInv
<1>6. ExchangeNet = a - b
  BY <1>2 DEF ExchangeNet
<1>7. ExchangeNet - LedgerNet = Pending(Opens) - Pending(Ids \ Opens)
  BY <1>3, <1>4, <1>5, <1>6
<1>8. \A o \in Ids : ex[o].st = "open" => Unresolved(o)
  BY ExecutedIs DEF SoldInv
<1> QED
  BY <1>7, <1>8 DEF ExposureExplained

\* Never more sold than bought, at Binance itself and for each position,
\* whoever reconciles what and whenever, and whatever fails or crashes: of the
\* orders that close a position one is alive at most, for no more than is held
\* of the position and not booked of it, and an order is final only when
\* Binance can execute no more of it and all that it executed is booked.
THEOREM NeverOversoldTheorem == Spec => []NeverOversold
<1>1. Init => LedgerInv /\ SoldInv
  BY LedgerInit, SoldInit
<1>2. LedgerInv /\ SoldInv /\ [Next]_vars => (LedgerInv /\ SoldInv)'
  BY LedgerStep, SoldStep
<1>3. LedgerInv /\ SoldInv => NeverOversold
  BY SoldIsThere
<1> QED
  BY <1>1, <1>2, <1>3, PTL DEF Spec

\* A difference between the positions of Binance and the ledger is always made
\* of fills of orders that are not final, and an order open at Binance is not:
\* no order is closed with fills missing, or booked twice, by however many
\* passes that reconcile it at once.
THEOREM ExposureExplainedTheorem == Spec => []ExposureExplained
<1>1. Init => LedgerInv /\ SoldInv
  BY LedgerInit, SoldInit
<1>2. LedgerInv /\ SoldInv /\ [Next]_vars => (LedgerInv /\ SoldInv)'
  BY LedgerStep, SoldStep
<1>3. LedgerInv /\ SoldInv => ExposureExplained
  BY DifferenceExplained
<1> QED
  BY <1>1, <1>2, <1>3, PTL DEF Spec
=============================================================================
