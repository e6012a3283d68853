------------------------ MODULE AccountRuntimesProofs ------------------------
(***************************************************************************)
(* Proof that the runtimes in use are those of the registries and of the   *)
(* account as saved, for any number of requests and builds.                *)
(***************************************************************************)
EXTENDS AccountRuntimes, TLAPS, SequenceTheorems

States == {"begun", "waits", "reads", "live", "stopped", "discarded", "failed"}
InProgress(b) == build[b].st \in {"begun", "waits", "reads"}

PCs == {"idle", "saved", "unheeded", "waits", "deleted", "done"}

Runtime == [kind : Registries, st : States, rev : Nat, cred : Nat,
            client : Nat, gives : Nat]

TypeInv ==
    /\ cred \in Nat /\ gone \in BOOLEAN
    /\ reg \in [Registries -> [live : Nat, pending : Nat, rev : Nat]]
    /\ build \in Seq(Runtime)
    /\ req \in [Updates \cup Deletes -> [pc : PCs, waits : Nat]]

\* What a registry, a build or a request refers to is a build.
RefsInv ==
    /\ \A k \in Registries : reg[k].pending \in Builds \cup {None}
    /\ \A b \in Builds :
          /\ build[b].gives \in Builds \cup {None}
          /\ build[b].st = "waits" => build[b].client \in Builds /\ build[b].kind = "hedge"
    /\ \A r \in Updates \cup Deletes : req[r].pc = "waits" => req[r].waits \in Builds

\* The runtime in the map of a registry is a live one of its kind, and no
\* other is live.
LiveInv ==
    /\ \A k \in Registries : reg[k].live # None =>
          /\ reg[k].live \in Builds
          /\ build[reg[k].live].kind = k
          /\ build[reg[k].live].st = "live"
    /\ NoDoubles

\* A build begun under the current revision is the pending one, and nothing is
\* live beside it: no other can go live before it.
PendingInv ==
    \A b \in Builds :
        /\ build[b].rev <= reg[build[b].kind].rev
        /\ InProgress(b) /\ GoesLive(b) =>
              /\ reg[build[b].kind].pending = b
              /\ reg[build[b].kind].live = None

\* Once the runtimes of a deleted account are destroyed, no build that could
\* still read it goes live.
Deleting == \E r \in Deletes : req[r].pc = "deleted"
GoneInv ==
    gone /\ ~Deleting =>
        /\ \A k \in Registries : reg[k].live = None
        /\ \A b \in Builds : build[b].st \in {"waits", "reads"} => ~GoesLive(b)

\* Without a save that awaits its reload, the client of the map and the ones
\* that will go into it have the credentials saved.
Saving == \E r \in Updates : req[r].pc \in {"saved", "unheeded"}
CredInv ==
    ~Saving => \A b \in Builds :
        build[b].kind = "client" /\ (build[b].st = "live" \/ (build[b].st = "reads" /\ GoesLive(b)))
        => build[b].cred = cred

RuntimesInv == TypeInv /\ RefsInv /\ LiveInv /\ PendingInv /\ GoneInv /\ CredInv

-----------------------------------------------------------------------------

LEMMA RuntimesInit == Init => RuntimesInv
<1> SUFFICES ASSUME Init PROVE RuntimesInv
  OBVIOUS
<1> USE DEF Init
<1>1. Builds = {} /\ build \in Seq(Runtime)
  BY EmptySeq DEF Builds
<1>2. TypeInv
  BY <1>1 DEF TypeInv, PCs, None
<1>3. RefsInv
  BY <1>1 DEF RefsInv
<1>4. LiveInv /\ PendingInv /\ GoneInv /\ CredInv
  BY <1>1 DEF LiveInv, NoDoubles, PendingInv, GoneInv, CredInv
<1> QED
  BY <1>2, <1>3, <1>4 DEF RuntimesInv

LEMMA BuildFacts ==
  ASSUME TypeInv
  PROVE  /\ Builds = 1 .. Len(build) /\ Len(build) \in Nat
         /\ \A b \in Builds : b \in Nat /\ b # None /\ build[b] \in Runtime
  BY LenProperties, ElementOfSeq DEF TypeInv, Builds, None

\* One build changes.
LEMMA Changed ==
  ASSUME TypeInv, NEW b \in Builds, NEW x \in Runtime
  PROVE  LET new == [build EXCEPT ![b] = x] IN
         /\ new \in Seq(Runtime) /\ DOMAIN new = Builds /\ Len(new) = Len(build)
         /\ new[b] = x /\ \A c \in Builds : c # b => new[c] = build[c]
<1>1. build \in Seq(Runtime) /\ Builds = 1 .. Len(build)
  BY BuildFacts DEF TypeInv
<1> QED
  BY <1>1, ExceptSeq, LenProperties DEF Builds

\* A new build is added to those there are.
LEMMA Added ==
  ASSUME TypeInv, NEW old \in Seq(Runtime), Len(old) = Len(build),
         NEW k \in Registries, NEW rev \in Nat
  PROVE  LET new == Append(old, Fresh(k, rev)) IN
         /\ new \in Seq(Runtime)
         /\ DOMAIN new = Builds \cup {Len(build) + 1}
         /\ Len(build) + 1 \notin Builds
         /\ \A b \in Builds : new[b] = old[b]
         /\ new[Len(build) + 1] = Fresh(k, rev)
<1>1. Fresh(k, rev) \in Runtime
  BY DEF Fresh, Runtime, States, None
<1>2. build \in Seq(Runtime)
  BY DEF TypeInv
<1> QED
  BY <1>1, <1>2, AppendProperties DEF Builds

\* The runtimes of a registry end: nothing else of a build changes.
LEMMA StoppedType ==
  ASSUME TypeInv, NEW kinds \in SUBSET Registries
  PROVE  /\ Stopped(kinds) \in Seq(Runtime)
         /\ Len(Stopped(kinds)) = Len(build)
         /\ \A b \in Builds :
               Stopped(kinds)[b] = IF b \in {reg[k].live : k \in kinds}
                                   THEN [build[b] EXCEPT !.st = "stopped"] ELSE build[b]
<1>1. /\ build \in Seq(Runtime) /\ Builds = 1 .. Len(build) /\ Len(build) \in Nat
      /\ \A b \in Builds : build[b] \in Runtime
  BY DEF TypeInv, Builds
<1>2. \A b \in Builds : [build[b] EXCEPT !.st = "stopped"] \in Runtime
  BY <1>1 DEF Runtime, States
<1>3. Stopped(kinds) \in [1 .. Len(build) -> Runtime]
  BY <1>1, <1>2 DEF Stopped
<1>4. Stopped(kinds) \in Seq(Runtime)
  BY <1>1, <1>3, SeqDef
<1>5. DOMAIN Stopped(kinds) = 1 .. Len(build)
  BY <1>3
<1>6. Len(Stopped(kinds)) \in Nat /\ DOMAIN Stopped(kinds) = 1 .. Len(Stopped(kinds))
  BY <1>4, LenProperties
<1>7. Len(Stopped(kinds)) = Len(build)
  BY <1>1, <1>5, <1>6
<1> QED
  BY <1>1, <1>4, <1>7 DEF Stopped

\* The requests of the settings that touch no runtime.
LEMMA RequestStep ==
  ASSUME RuntimesInv, NEW r \in Updates \cup Deletes,
         Saves(r) \/ SaveUnheeded(r) \/ DeletesRow(r)
  PROVE  RuntimesInv'
<1> USE DEF RuntimesInv
<1>1. UNCHANGED <<reg, build>> /\ Builds' = Builds
  BY DEF Saves, SaveUnheeded, DeletesRow, Builds
<1>2. TypeInv'
  <2>1. cred' \in Nat
    BY DEF TypeInv, Saves, SaveUnheeded, DeletesRow
  <2>3. gone' \in BOOLEAN
    BY ZenonT(10) DEF TypeInv, Saves, SaveUnheeded, DeletesRow
  <2>2. req' \in [Updates \cup Deletes -> [pc : PCs, waits : Nat]]
    BY DEF TypeInv, PCs, Saves, SaveUnheeded, DeletesRow
  <2> QED
    BY <1>1, <2>1, <2>2, <2>3 DEF TypeInv
<1>3. RefsInv'
  BY <1>1 DEF RefsInv, TypeInv, Saves, SaveUnheeded, DeletesRow
<1>4. LiveInv' /\ PendingInv'
  BY <1>1 DEF LiveInv, NoDoubles, PendingInv, InProgress, GoesLive
<1>5. GoneInv'
  <2>1. CASE DeletesRow(r)
    BY <2>1 DEF TypeInv, GoneInv, Deleting, DeletesRow
  <2>2. CASE Saves(r) \/ SaveUnheeded(r)
    BY <2>2, <1>1 DEF TypeInv, GoneInv, Deleting, Saves, SaveUnheeded, GoesLive
  <2> QED
    BY <2>1, <2>2
<1>6. CredInv'
  <2>1. CASE Saves(r)
    BY <2>1 DEF TypeInv, CredInv, Saving, Saves
  <2>2. CASE SaveUnheeded(r)
    BY <2>2, <1>1 DEF TypeInv, CredInv, Saving, SaveUnheeded, GoesLive
  <2>3. CASE DeletesRow(r)
    BY <2>3, <1>1 DEF TypeInv, CredInv, Saving, DeletesRow, GoesLive
  <2> QED
    BY <2>1, <2>2, <2>3
<1> QED
  BY <1>2, <1>3, <1>4, <1>5, <1>6

\* A build that begins where there was nothing in hand.
LEMMA BeginStep ==
  ASSUME RuntimesInv, NEW k \in Registries, Asks(k)
  PROVE  RuntimesInv'
<1> DEFINE n == Len(build) + 1
<1> USE DEF RuntimesInv
<1>1. /\ build' \in Seq(Runtime) /\ Builds' = Builds \cup {n} /\ n \notin Builds
      /\ \A b \in Builds : build'[b] = build[b]
      /\ build'[n] = Fresh(k, reg[k].rev)
      /\ reg' = [reg EXCEPT ![k].pending = n]
      /\ reg[k].live = None /\ reg[k].pending = None
      /\ n \in Nat
  BY Added, BuildFacts DEF Asks, Begin, InHand, TypeInv, Builds
<1>2. /\ UNCHANGED <<cred, gone, req>>
      /\ \A j \in Registries : /\ reg'[j].live = reg[j].live /\ reg'[j].rev = reg[j].rev
                               /\ j # k => reg'[j].pending = reg[j].pending
      /\ reg'[k].pending = n
  BY <1>1 DEF Asks, TypeInv
<1>3. /\ \A b \in Builds : build[b].kind \in Registries /\ build[b].rev \in Nat /\ b # None
      /\ \A j \in Registries : reg[j].rev \in Nat
      /\ build'[n].kind = k /\ build'[n].rev = reg[k].rev /\ build'[n].st = "begun"
      /\ build'[n].gives = None
  <2>1. \A b \in Builds : build[b].kind \in Registries /\ build[b].rev \in Nat /\ b # None
    BY BuildFacts DEF Runtime
  <2> QED
    BY <1>1, <2>1 DEF TypeInv, Fresh
<1>4. TypeInv'
  BY <1>1, <1>2 DEF TypeInv
<1>5. RefsInv'
  BY <1>1, <1>2, <1>3 DEF RefsInv
<1>6. LiveInv'
  BY <1>1, <1>2, <1>3 DEF LiveInv, NoDoubles
<1>7. PendingInv'
  BY <1>1, <1>2, <1>3 DEF PendingInv, InProgress, GoesLive
<1>8. GoneInv'
  BY <1>1, <1>2, <1>3 DEF GoneInv, Deleting, GoesLive
<1>9. CredInv'
  BY <1>1, <1>2, <1>3 DEF CredInv, Saving, GoesLive
<1> QED
  BY <1>4, <1>5, <1>6, <1>7, <1>8, <1>9

\* A build that reads, hands itself to another, or fails.
LEMMA ReadStep ==
  ASSUME RuntimesInv, NEW b \in Builds, ClientReads(b)
  PROVE  RuntimesInv'
<1> USE DEF RuntimesInv
<1> DEFINE x == [build[b] EXCEPT !.st = "reads", !.cred = cred]
<1>1. x \in Runtime /\ build' = [build EXCEPT ![b] = x]
  BY BuildFacts DEF ClientReads, TypeInv, Runtime, States
<1>2. /\ build' \in Seq(Runtime) /\ Builds' = Builds
      /\ build'[b] = x /\ \A c \in Builds : c # b => build'[c] = build[c]
  BY <1>1, Changed DEF Builds
<1>3. /\ UNCHANGED <<cred, gone, reg, req>> /\ ~gone
      /\ build[b].kind = "client" /\ build[b].st = "begun"
      /\ x.st = "reads" /\ x.cred = cred /\ x.rev = build[b].rev
      /\ x.kind = build[b].kind /\ x.gives = build[b].gives
  BY BuildFacts DEF ClientReads, Runtime
<1> HIDE DEF x
<1>4. TypeInv' /\ RefsInv'
  BY <1>2, <1>3 DEF TypeInv, RefsInv
<1>5. LiveInv'
  BY <1>2, <1>3 DEF LiveInv, NoDoubles
<1>6. PendingInv'
  BY <1>2, <1>3 DEF PendingInv, InProgress, GoesLive
<1>7. GoneInv' /\ CredInv'
  BY <1>2, <1>3 DEF GoneInv, CredInv, Deleting, Saving, GoesLive
<1> QED
  BY <1>4, <1>5, <1>6, <1>7

\* A build is over without a runtime that goes live.
LEMMA OverStep ==
  ASSUME RuntimesInv, NEW b \in Builds, InProgress(b), NEW x \in Runtime,
         x.st \in {"failed", "discarded"}, x.kind = build[b].kind,
         x.rev = build[b].rev, x.gives \in Builds \cup {None},
         build' = [build EXCEPT ![b] = x], reg' = Settled(reg, b),
         UNCHANGED <<cred, gone, req>>
  PROVE  RuntimesInv'
<1> USE DEF RuntimesInv
<1>1. build[b].kind \in Registries
  BY BuildFacts DEF Runtime
<1>2. /\ build' \in Seq(Runtime) /\ Builds' = Builds
      /\ build'[b] = x /\ \A c \in Builds : c # b => build'[c] = build[c]
  BY Changed DEF Builds
<1>3. /\ reg' \in [Registries -> [live : Nat, pending : Nat, rev : Nat]]
      /\ \A k \in Registries : reg'[k].live = reg[k].live /\ reg'[k].rev = reg[k].rev
      /\ \A k \in Registries : reg'[k].pending \in {reg[k].pending, None}
      /\ \A k \in Registries : reg[k].pending # b => reg'[k].pending = reg[k].pending
  BY <1>1 DEF Settled, TypeInv, None
<1>4. TypeInv'
  BY <1>2, <1>3 DEF TypeInv
<1>5. RefsInv'
  BY <1>2, <1>3 DEF RefsInv
<1>6. \A c \in Builds : build[c].kind \in Registries /\ build'[c].kind = build[c].kind
                       /\ build'[c].rev = build[c].rev
  BY <1>2, BuildFacts DEF Runtime
<1>7. \A c \in Builds : build'[c].st \notin {"failed", "discarded"}
                       => c # b /\ build'[c] = build[c]
  BY <1>2
<1>8. LiveInv'
  <2>1. ASSUME NEW k \in Registries, reg'[k].live # None
        PROVE  LET c == reg'[k].live IN
               c \in Builds /\ build'[c].kind = k /\ build'[c].st = "live"
    <3>1. reg'[k].live = reg[k].live
      BY <1>3
    <3>2. reg[k].live \in Builds /\ build[reg[k].live].kind = k /\ build[reg[k].live].st = "live"
      BY <2>1, <3>1 DEF LiveInv
    <3>3. reg[k].live # b
      BY <3>2 DEF InProgress
    <3> QED
      BY <1>2, <3>1, <3>2, <3>3
  <2>2. ASSUME NEW c \in Builds, build'[c].st = "live"
        PROVE  reg'[build'[c].kind].live = c
    BY <1>3, <1>6, <1>7, <2>2 DEF LiveInv, NoDoubles
  <2> QED
    BY <1>2, <2>1, <2>2 DEF LiveInv, NoDoubles
<1>9. \A c \in Builds : GoesLive(c)' <=> GoesLive(c)
  BY <1>2, <1>3, <1>6 DEF GoesLive
<1>10. PendingInv'
  <2>1. ASSUME NEW c \in Builds
        PROVE  build'[c].rev <= reg'[build'[c].kind].rev
    BY <1>3, <1>6 DEF PendingInv
  <2>2. ASSUME NEW c \in Builds, InProgress(c)', GoesLive(c)'
        PROVE  reg'[build'[c].kind].pending = c /\ reg'[build'[c].kind].live = None
    <3>1. c # b /\ InProgress(c) /\ GoesLive(c)
      BY <1>7, <1>9, <2>2 DEF InProgress
    <3> QED
      BY <1>3, <1>6, <3>1 DEF PendingInv
  <2> QED
    BY <1>2, <2>1, <2>2 DEF PendingInv
<1>11. GoneInv'
  BY <1>2, <1>3, <1>7, <1>9 DEF GoneInv, Deleting
<1>12. CredInv'
  BY <1>2, <1>6, <1>7, <1>9 DEF CredInv, Saving
<1> QED
  BY <1>4, <1>5, <1>8, <1>10, <1>11, <1>12

LEMMA FailStep ==
  ASSUME RuntimesInv, NEW b \in Builds, Fails(b)
  PROVE  RuntimesInv'
<1> DEFINE x == [build[b] EXCEPT !.st = "failed"]
<1>1. /\ x \in Runtime /\ x.st = "failed" /\ x.kind = build[b].kind
      /\ x.rev = build[b].rev /\ x.gives = build[b].gives
  BY BuildFacts DEF RuntimesInv, Runtime, States
<1>2. x.gives \in Builds \cup {None}
  BY <1>1 DEF RuntimesInv, RefsInv
<1>3. /\ build' = [build EXCEPT ![b] = x] /\ reg' = Settled(reg, b)
      /\ InProgress(b) /\ UNCHANGED <<cred, gone, req>>
  BY DEF Fails, InProgress
<1> QED
  BY <1>1, <1>2, <1>3, OverStep

\* The promise of the client.
LEMMA GetStep ==
  ASSUME RuntimesInv, NEW b \in Builds, HedgeGetsClient(b)
  PROVE  RuntimesInv'
<1> USE DEF RuntimesInv
<1> DEFINE c == build[b].client
           st == IF build[c].gives \in {c, None} THEN "reads" ELSE "waits"
           x == [build[b] EXCEPT !.client = build[c].gives, !.st = st]
<1>1. c \in Builds /\ build[c].gives \in Builds \cup {None} /\ build[c].gives \in Nat
  BY BuildFacts DEF HedgeGetsClient, RefsInv, None
<1>2. x \in Runtime /\ build' = [build EXCEPT ![b] = x]
  <2>1. st \in States
    BY DEF States
  <2> HIDE DEF st, c
  <2> QED
    BY <1>1, <2>1, BuildFacts DEF HedgeGetsClient, Runtime, st, c
<1>3. /\ build' \in Seq(Runtime) /\ Builds' = Builds
      /\ build'[b] = x /\ \A d \in Builds : d # b => build'[d] = build[d]
  BY <1>2, Changed DEF Builds
<1>4. /\ UNCHANGED <<cred, gone, reg, req>> /\ build[b].st = "waits"
      /\ x.st \in {"reads", "waits"} /\ x.rev = build[b].rev
      /\ x.kind = build[b].kind /\ x.gives = build[b].gives
      /\ x.st = "waits" => x.client \in Builds
  BY <1>1, BuildFacts DEF HedgeGetsClient, Runtime
<1>5. x.kind # "client"
  BY <1>4 DEF RefsInv
<1> HIDE DEF x, st, c
<1>6. TypeInv' /\ RefsInv'
  BY <1>3, <1>4 DEF TypeInv, RefsInv
<1>7. LiveInv'
  BY <1>3, <1>4 DEF LiveInv, NoDoubles
<1>8. PendingInv'
  BY <1>3, <1>4 DEF PendingInv, InProgress, GoesLive
<1>9. GoneInv' /\ CredInv'
  BY <1>3, <1>4, <1>5 DEF GoneInv, CredInv, Deleting, Saving, GoesLive
<1> QED
  BY <1>6, <1>7, <1>8, <1>9

\* buildFn is over under a new revision: nobody is given the runtime.
LEMMA DiscardStep ==
  ASSUME RuntimesInv, NEW b \in Builds, Built(b), ~GoesLive(b)
  PROVE  RuntimesInv'
<1> DEFINE k == build[b].kind
           x == [build[b] EXCEPT !.st = "discarded", !.gives = InHand(k)]
<1>1. InHand(k) \in Builds \cup {None} /\ InHand(k) \in Nat
  BY BuildFacts DEF RuntimesInv, Runtime, InHand, LiveInv, RefsInv, None
<1>2. build[b] \in Runtime
  BY BuildFacts DEF RuntimesInv
<1>3. /\ x \in Runtime /\ x.st = "discarded" /\ x.kind = build[b].kind
      /\ x.rev = build[b].rev /\ x.gives = InHand(k)
  BY <1>1, <1>2 DEF Runtime, States
<1>4. /\ build' = [build EXCEPT ![b] = x] /\ reg' = Settled(reg, b)
      /\ InProgress(b) /\ UNCHANGED <<cred, gone, req>>
  BY DEF Built, Ends, InProgress
<1> QED
  BY <1>1, <1>3, <1>4, OverStep

\* buildFn is over and the runtime goes live: nothing else can any more.
LEMMA LiveStep ==
  ASSUME RuntimesInv, NEW b \in Builds, Built(b), GoesLive(b)
  PROVE  RuntimesInv'
<1> USE DEF RuntimesInv
<1> DEFINE k == build[b].kind
           x == [build[b] EXCEPT !.st = "live", !.gives = b]
<1>1. k \in Registries /\ build[b] \in Runtime /\ b \in Nat /\ b # None
  BY BuildFacts DEF Runtime
<1>2. /\ x \in Runtime /\ x.st = "live" /\ x.kind = k /\ x.rev = build[b].rev
      /\ x.gives = b /\ x.cred = build[b].cred
  BY <1>1 DEF Runtime, States
<1>3. /\ build' \in Seq(Runtime) /\ Builds' = Builds
      /\ build'[b] = x /\ \A c \in Builds : c # b => build'[c] = build[c]
  BY <1>2, Changed DEF Built, Ends, Builds
<1>4. /\ UNCHANGED <<cred, gone, req>> /\ build[b].st = "reads"
      /\ reg[k].pending = b /\ reg[k].live = None
  BY <1>1 DEF Built, PendingInv, InProgress
<1>5. /\ reg' \in [Registries -> [live : Nat, pending : Nat, rev : Nat]]
      /\ \A j \in Registries : reg'[j].rev = reg[j].rev
      /\ \A j \in Registries : reg'[j].pending \in {reg[j].pending, None}
      /\ reg'[k].live = b
      /\ \A j \in Registries : j # k => reg'[j] = reg[j]
  <2>1. reg' = Settled([reg EXCEPT ![k].live = b], b)
    BY DEF Built, Ends
  <2> HIDE DEF k
  <2> QED
    BY <1>1, <2>1 DEF Settled, TypeInv, None, k
<1> HIDE DEF x, k
<1>6. \A c \in Builds : build[c].kind \in Registries /\ build'[c].kind = build[c].kind
                       /\ build'[c].rev = build[c].rev
  BY <1>2, <1>3, BuildFacts DEF Runtime, k
<1>7. \A c \in Builds : c # b /\ build[c].kind = k /\ InProgress(c) => ~GoesLive(c)
  BY <1>4 DEF PendingInv
<1>8. \A c \in Builds : build[c].kind = k => build[c].st # "live"
  BY <1>1, <1>4, BuildFacts DEF LiveInv, NoDoubles
<1>9. TypeInv' /\ RefsInv'
  BY <1>1, <1>2, <1>3, <1>4, <1>5 DEF TypeInv, RefsInv
<1>10. LiveInv'
  <2>1. ASSUME NEW j \in Registries, j # k, reg[j].live # None
        PROVE  LET c == reg[j].live IN
               c \in Builds /\ build'[c].kind = j /\ build'[c].st = "live"
    BY <1>1, <1>2, <1>3, <1>4, <2>1 DEF LiveInv, k
  <2>2. ASSUME NEW c \in Builds, c # b, build'[c].st = "live"
        PROVE  reg'[build'[c].kind].live = c
    BY <1>3, <1>5, <1>6, <1>8, <2>2 DEF LiveInv, NoDoubles
  <2>3. ASSUME NEW j \in Registries, reg'[j].live # None
        PROVE  LET c == reg'[j].live IN
               c \in Builds' /\ build'[c].kind = j /\ build'[c].st = "live"
    <3>1. CASE j = k
      BY <1>2, <1>3, <1>5, <3>1
    <3>2. CASE j # k
      BY <1>3, <1>5, <2>1, <2>3, <3>2
    <3> QED
      BY <3>1, <3>2
  <2>4. reg'[build'[b].kind].live = b
    BY <1>2, <1>3, <1>5
  <2> QED
    BY <1>3, <2>2, <2>3, <2>4 DEF LiveInv, NoDoubles
<1>11. \A c \in Builds : GoesLive(c)' <=> GoesLive(c)
  BY <1>3, <1>5, <1>6 DEF GoesLive
<1>12. \A c \in Builds : InProgress(c)' => c # b /\ InProgress(c)
  BY <1>2, <1>3 DEF InProgress
<1>13. PendingInv'
  BY <1>3, <1>5, <1>6, <1>7, <1>11, <1>12 DEF PendingInv
<1>14. GoneInv'
  BY <1>4 DEF GoneInv, Deleting
<1>15. CredInv'
  BY <1>2, <1>3, <1>4, <1>6, <1>11 DEF CredInv, Saving, k
<1> QED
  BY <1>9, <1>10, <1>13, <1>14, <1>15

\* The client of a hedge service, in hand or begun for it.
LEMMA AskStep ==
  ASSUME RuntimesInv, NEW b \in Builds, HedgeAsksClient(b), InHand("client") # None
  PROVE  RuntimesInv'
<1> USE DEF RuntimesInv
<1> DEFINE x == [build[b] EXCEPT !.st = "waits", !.client = InHand("client")]
<1>1. InHand("client") \in Builds /\ InHand("client") \in Nat
  BY BuildFacts DEF InHand, LiveInv, RefsInv, Registries
<1>2. /\ x \in Runtime /\ x.st = "waits" /\ x.client \in Builds /\ x.kind = "hedge"
      /\ x.rev = build[b].rev /\ x.gives = build[b].gives /\ build[b].st = "begun"
      /\ build[b].kind = "hedge"
  BY <1>1, BuildFacts DEF Runtime, States, HedgeAsksClient
<1>3. /\ build' \in Seq(Runtime) /\ Builds' = Builds
      /\ build'[b] = x /\ \A c \in Builds : c # b => build'[c] = build[c]
  BY <1>2, Changed DEF HedgeAsksClient, Builds
<1>4. UNCHANGED <<cred, gone, req, reg>> /\ ~gone
  BY DEF HedgeAsksClient
<1> HIDE DEF x
<1>5. TypeInv' /\ RefsInv'
  BY <1>2, <1>3, <1>4 DEF TypeInv, RefsInv
<1>6. LiveInv'
  BY <1>2, <1>3, <1>4 DEF LiveInv, NoDoubles
<1>7. PendingInv'
  BY <1>2, <1>3, <1>4 DEF PendingInv, InProgress, GoesLive
<1>8. GoneInv' /\ CredInv'
  BY <1>2, <1>3, <1>4 DEF GoneInv, CredInv, Deleting, Saving, GoesLive
<1> QED
  BY <1>5, <1>6, <1>7, <1>8

LEMMA AskBeginStep ==
  ASSUME RuntimesInv, NEW b \in Builds, HedgeAsksClient(b), InHand("client") = None
  PROVE  RuntimesInv'
<1> USE DEF RuntimesInv
<1> DEFINE k == "client"
           n == Len(build) + 1
           x == [build[b] EXCEPT !.st = "waits", !.client = n]
           old == [build EXCEPT ![b] = x]
<1>1. /\ x \in Runtime /\ x.st = "waits" /\ x.client = n /\ x.kind = "hedge"
      /\ x.rev = build[b].rev /\ x.gives = build[b].gives /\ build[b].st = "begun"
      /\ build[b].kind = "hedge" /\ n \in Nat
  <2>1. n \in Nat /\ build[b] \in Runtime
    BY BuildFacts
  <2> HIDE DEF n
  <2> QED
    BY <2>1 DEF Runtime, States, HedgeAsksClient
<1>2. /\ old \in Seq(Runtime) /\ Len(old) = Len(build)
      /\ old[b] = x /\ \A c \in Builds : c # b => old[c] = build[c]
  BY <1>1, Changed
<1>3. /\ k \in Registries /\ k = "client" /\ reg[k].rev \in Nat
      /\ reg[k].live = None /\ reg[k].pending = None
  BY DEF Registries, TypeInv, InHand
<1>4. build' = Append(old, Fresh(k, reg[k].rev))
  BY DEF HedgeAsksClient
<1>17. reg' = [reg EXCEPT ![k].pending = n] /\ UNCHANGED <<cred, gone, req>> /\ ~gone
  BY DEF HedgeAsksClient
<1> HIDE DEF old, x, k
<1>5. /\ build' \in Seq(Runtime) /\ Builds' = Builds \cup {n} /\ n \notin Builds
      /\ \A c \in Builds : build'[c] = old[c]
      /\ build'[n] = Fresh(k, reg[k].rev)
  BY <1>2, <1>3, <1>4, Added DEF Builds
<1>6. build'[b] = x /\ \A c \in Builds : c # b => build'[c] = build[c]
  BY <1>2, <1>5
<1>7. /\ UNCHANGED <<cred, gone, req>> /\ ~gone
      /\ \A j \in Registries : /\ reg'[j].live = reg[j].live /\ reg'[j].rev = reg[j].rev
                               /\ j # k => reg'[j].pending = reg[j].pending
      /\ reg'[k].pending = n
  BY <1>3, <1>17 DEF TypeInv
<1>8. /\ \A c \in Builds : /\ build[c].kind \in Registries /\ build[c].rev \in Nat /\ c # None
                           /\ build'[c].kind = build[c].kind /\ build'[c].rev = build[c].rev
      /\ build'[n].kind = k /\ build'[n].rev = reg[k].rev
      /\ build'[n].st = "begun" /\ build'[n].gives = None
  <2>1. \A c \in Builds : build[c].kind \in Registries /\ build[c].rev \in Nat /\ c # None
    BY BuildFacts DEF Runtime
  <2> QED
    BY <1>1, <1>5, <1>6, <2>1 DEF Fresh
<1> HIDE DEF n
<1>9. TypeInv'
  BY <1>1, <1>3, <1>5, <1>7, <1>17 DEF TypeInv
<1>10. RefsInv'
  <2>1. \A j \in Registries : reg'[j].pending \in Builds' \cup {None}
    BY <1>5, <1>7 DEF RefsInv
  <2>2. \A c \in Builds : c # b =>
           /\ build'[c].gives \in Builds' \cup {None}
           /\ build'[c].st = "waits" => build'[c].client \in Builds' /\ build'[c].kind = "hedge"
    BY <1>5, <1>6 DEF RefsInv
  <2>3. /\ build'[b].gives \in Builds' \cup {None}
        /\ build'[b].client \in Builds' /\ build'[b].kind = "hedge"
    BY <1>1, <1>5, <1>6 DEF RefsInv
  <2>4. build'[n].gives \in Builds' \cup {None} /\ build'[n].st # "waits"
    BY <1>8
  <2>5. \A r \in Updates \cup Deletes : req'[r].pc = "waits" => req'[r].waits \in Builds'
    BY <1>5, <1>7 DEF RefsInv
  <2> QED
    BY <1>5, <2>1, <2>2, <2>3, <2>4, <2>5 DEF RefsInv
<1>11. LiveInv'
  <2>1. ASSUME NEW j \in Registries, reg[j].live # None
        PROVE  LET c == reg[j].live IN
               c \in Builds /\ build'[c].kind = j /\ build'[c].st = "live"
    BY <1>1, <1>6, <2>1 DEF LiveInv
  <2>2. ASSUME NEW c \in Builds, build'[c].st = "live"
        PROVE  reg'[build'[c].kind].live = c
    BY <1>1, <1>6, <1>7, <1>8, <2>2 DEF LiveInv, NoDoubles
  <2> QED
    BY <1>5, <1>7, <1>8, <2>1, <2>2 DEF LiveInv, NoDoubles
<1>12. \A c \in Builds : GoesLive(c)' <=> GoesLive(c)
  BY <1>7, <1>8 DEF GoesLive
<1>13. \A c \in Builds : InProgress(c)' => InProgress(c)
  BY <1>1, <1>6 DEF InProgress
<1>14. PendingInv'
  <2>1. ASSUME NEW c \in Builds
        PROVE  build'[c].rev <= reg'[build'[c].kind].rev
    BY <1>7, <1>8 DEF PendingInv
  <2>2. ASSUME NEW c \in Builds, InProgress(c)', GoesLive(c)'
        PROVE  reg'[build'[c].kind].pending = c /\ reg'[build'[c].kind].live = None
    <3>1. reg[build[c].kind].pending = c /\ reg[build[c].kind].live = None
      BY <1>12, <1>13, <2>2 DEF PendingInv
    <3>2. build[c].kind # k
      BY <1>3, <1>8, <3>1
    <3> QED
      BY <1>7, <1>8, <3>1, <3>2
  <2>3. /\ build'[n].rev <= reg'[build'[n].kind].rev
        /\ reg'[build'[n].kind].pending = n /\ reg'[build'[n].kind].live = None
    BY <1>3, <1>7, <1>8
  <2> QED
    BY <1>5, <2>1, <2>2, <2>3 DEF PendingInv
<1>15. GoneInv'
  BY <1>7 DEF GoneInv
<1>16. CredInv'
  <2>1. ASSUME ~Saving', NEW c \in Builds, build'[c].kind = "client",
               build'[c].st = "live" \/ (build'[c].st = "reads" /\ GoesLive(c)')
        PROVE  build'[c].cred = cred'
    <3>1. c # b
      BY <1>1, <1>6, <2>1
    <3> QED
      BY <1>6, <1>7, <1>12, <2>1, <3>1 DEF CredInv, Saving
  <2> QED
    BY <1>5, <1>8, <2>1 DEF CredInv
<1> QED
  BY <1>9, <1>10, <1>11, <1>14, <1>15, <1>16

\* A reload: whatever was in progress is of an older revision.
LEMMA ReloadKeeps ==
  ASSUME RuntimesInv, NEW k \in Registries, Reload(k), UNCHANGED <<cred, gone>>,
         req' \in [Updates \cup Deletes -> [pc : PCs, waits : Nat]],
         \A r \in Updates \cup Deletes : req'[r].pc = "waits" => req'[r].waits \in Builds',
         gone /\ ~Deleting' => ~Deleting /\ reg[k].live # None,
         ~Saving' => ~Saving \/ k = "client"
  PROVE  RuntimesInv'
<1> USE DEF RuntimesInv
<1> DEFINE n == Len(build) + 1
           old == Stopped({k})
           rev == reg[k].rev + 1
<1>1. /\ old \in Seq(Runtime) /\ Len(old) = Len(build) /\ rev \in Nat
  BY StoppedType DEF TypeInv
<1>2. /\ \A b \in Builds : build[b].kind \in Registries /\ build[b].rev \in Nat /\ b # None
      /\ \A b \in Builds : build[b] \in Runtime
      /\ n \in Nat
  BY BuildFacts DEF Runtime
<1>3. /\ \A b \in Builds : b # reg[k].live => old[b] = build[b]
      /\ \A b \in Builds : b = reg[k].live => old[b] = [build[b] EXCEPT !.st = "stopped"]
  <2>1. \A b : b \in {reg[j].live : j \in {k}} <=> b = reg[k].live
    OBVIOUS
  <2> QED
    BY <2>1, StoppedType
<1>4. build' = Append(old, Fresh(k, rev))
  <2>1. Emptied(k).rev = rev
    BY DEF Emptied
  <2> QED
    BY <2>1 DEF Reload
<1>5. reg' = [reg EXCEPT ![k] = [live |-> None, pending |-> n, rev |-> rev]]
  <2>1. [Emptied(k) EXCEPT !.pending = n] = [live |-> None, pending |-> n, rev |-> rev]
    BY DEF Emptied
  <2> QED
    BY <2>1 DEF Reload
<1>19. rev = reg[k].rev + 1
  OBVIOUS
<1> HIDE DEF old, rev
<1>6. /\ build' \in Seq(Runtime) /\ Builds' = Builds \cup {n} /\ n \notin Builds
      /\ \A b \in Builds : build'[b] = old[b]
      /\ build'[n] = Fresh(k, rev)
  BY <1>1, <1>4, Added DEF Builds
<1>7. /\ reg'[k].live = None /\ reg'[k].pending = n /\ reg'[k].rev = rev
      /\ \A j \in Registries : j # k => reg'[j] = reg[j]
      /\ reg' \in [Registries -> [live : Nat, pending : Nat, rev : Nat]]
  BY <1>1, <1>2, <1>5 DEF TypeInv, None
<1>8. /\ build'[n].kind = k /\ build'[n].rev = rev
      /\ build'[n].st = "begun" /\ build'[n].gives = None
  BY <1>6 DEF Fresh
<1>9. \A b \in Builds : /\ build'[b].kind = build[b].kind /\ build'[b].rev = build[b].rev
                        /\ build'[b].gives = build[b].gives /\ build'[b].client = build[b].client
                        /\ build'[b].cred = build[b].cred
                        /\ build'[b].st # "stopped" => build'[b].st = build[b].st /\ b # reg[k].live
  <2>1. ASSUME NEW b \in Builds, b # reg[k].live PROVE build'[b] = build[b]
    BY <1>3, <1>6, <2>1
  <2>2. ASSUME NEW b \in Builds, b = reg[k].live
        PROVE  build'[b] = [build[b] EXCEPT !.st = "stopped"]
    BY <1>3, <1>6, <2>2
  <2> QED
    BY <1>2, <2>1, <2>2 DEF Runtime
<1>10. \A b \in Builds : build[b].kind = k => build'[b].st # "live"
  BY <1>2, <1>9 DEF LiveInv, NoDoubles
<1>11. \A b \in Builds : build[b].kind = k => ~GoesLive(b)'
  <2>1. \A b \in Builds : build[b].kind = k => build[b].rev <= reg[k].rev
    BY DEF PendingInv
  <2>2. reg[k].rev \in Nat
    BY DEF TypeInv
  <2> QED
    BY <1>2, <1>7, <1>9, <1>19, <2>1, <2>2 DEF GoesLive
<1>12. \A b \in Builds : build[b].kind # k => (GoesLive(b)' <=> GoesLive(b))
  BY <1>2, <1>7, <1>9 DEF GoesLive
<1>13. TypeInv'
  BY <1>6, <1>7 DEF TypeInv
<1>14. RefsInv'
  <2>1. \A j \in Registries : reg'[j].pending \in Builds' \cup {None}
    BY <1>6, <1>7 DEF RefsInv
  <2>2. \A b \in Builds :
           /\ build'[b].gives \in Builds' \cup {None}
           /\ build'[b].st = "waits" => build'[b].client \in Builds' /\ build'[b].kind = "hedge"
    BY <1>6, <1>9 DEF RefsInv
  <2> QED
    BY <1>6, <1>8, <2>1, <2>2 DEF RefsInv
<1>15. LiveInv'
  <2>1. ASSUME NEW j \in Registries, reg'[j].live # None
        PROVE  LET b == reg'[j].live IN
               b \in Builds' /\ build'[b].kind = j /\ build'[b].st = "live"
    <3>1. j # k /\ reg'[j].live = reg[j].live
      BY <1>7, <2>1
    <3>2. reg[j].live \in Builds /\ build[reg[j].live].kind = j /\ build[reg[j].live].st = "live"
      BY <2>1, <3>1 DEF LiveInv
    <3>3. reg[j].live # reg[k].live
      BY <2>1, <3>1, <3>2 DEF LiveInv
    <3> QED
      BY <1>3, <1>6, <3>1, <3>2, <3>3
  <2>2. ASSUME NEW b \in Builds, build'[b].st = "live"
        PROVE  reg'[build'[b].kind].live = b
    <3>1. build[b].kind # k /\ build[b].st = "live"
      BY <1>9, <1>10, <2>2
    <3> QED
      BY <1>2, <1>7, <1>9, <3>1 DEF LiveInv, NoDoubles
  <2> QED
    BY <1>6, <1>8, <2>1, <2>2 DEF LiveInv, NoDoubles
<1>16. PendingInv'
  <2>1. ASSUME NEW b \in Builds
        PROVE  build'[b].rev <= reg'[build'[b].kind].rev
    <3>1. build[b].rev <= reg[build[b].kind].rev /\ reg[k].rev \in Nat
      BY DEF PendingInv, TypeInv
    <3> QED
      BY <1>2, <1>7, <1>9, <1>19, <3>1
  <2>2. ASSUME NEW b \in Builds, InProgress(b)', GoesLive(b)'
        PROVE  reg'[build'[b].kind].pending = b /\ reg'[build'[b].kind].live = None
    <3>1. build[b].kind # k
      BY <1>11, <2>2
    <3>2. InProgress(b) /\ GoesLive(b)
      BY <1>9, <1>12, <2>2, <3>1 DEF InProgress
    <3> QED
      BY <1>2, <1>7, <1>9, <3>1, <3>2 DEF PendingInv
  <2>3. /\ build'[n].rev <= reg'[build'[n].kind].rev
        /\ reg'[build'[n].kind].pending = n /\ reg'[build'[n].kind].live = None
    BY <1>1, <1>7, <1>8
  <2> QED
    BY <1>6, <2>1, <2>2, <2>3 DEF PendingInv
<1>17. GoneInv'
  BY DEF GoneInv
<1>18. CredInv'
  <2>1. ASSUME ~Saving', NEW b \in Builds, build'[b].kind = "client",
               build'[b].st = "live" \/ (build'[b].st = "reads" /\ GoesLive(b)')
        PROVE  build'[b].cred = cred'
    <3>1. build[b].kind # k
      BY <1>9, <1>10, <1>11, <2>1
    <3>2. ~Saving
      BY <1>9, <2>1, <3>1
    <3>3. build[b].st = "live" \/ (build[b].st = "reads" /\ GoesLive(b))
      BY <1>9, <1>12, <2>1, <3>1
    <3> QED
      BY <1>9, <2>1, <3>2, <3>3 DEF CredInv
  <2> QED
    BY <1>6, <1>8, <2>1 DEF CredInv
<1> QED
  BY <1>13, <1>14, <1>15, <1>16, <1>17, <1>18

LEMMA ReloadAdds ==
  ASSUME TypeInv, NEW k \in Registries, Reload(k)
  PROVE  Builds' = Builds \cup {Len(build) + 1} /\ Len(build) + 1 \in Nat
<1> DEFINE old == Stopped({k})
           rev == Emptied(k).rev
<1>1. old \in Seq(Runtime) /\ Len(old) = Len(build)
  BY StoppedType
<1>2. rev \in Nat /\ Len(build) + 1 \in Nat
  BY BuildFacts DEF TypeInv, Emptied
<1>3. build' = Append(old, Fresh(k, rev))
  BY DEF Reload
<1> HIDE DEF old, rev
<1> QED
  BY <1>1, <1>2, <1>3, Added DEF Builds

\* The request reloads the client; then the hedge service, if there is one.
LEMMA ReloadsClientStep ==
  ASSUME RuntimesInv, NEW r \in Updates \cup Deletes, ReloadsClient(r)
  PROVE  RuntimesInv'
<1> DEFINE n == Len(build) + 1
           k == "client"
<1>1. /\ k \in Registries /\ Reload(k) /\ UNCHANGED <<cred, gone>> /\ ~gone
      /\ k = "client"
      /\ req' = [req EXCEPT ![r] = [pc |-> "waits", waits |-> n]]
  BY DEF ReloadsClient, Registries
<1> HIDE DEF k
<1>2. Builds' = Builds \cup {n} /\ n \in Nat
  BY <1>1, ReloadAdds DEF RuntimesInv
<1> HIDE DEF n
<1>3. req' \in [Updates \cup Deletes -> [pc : PCs, waits : Nat]]
  BY <1>1, <1>2 DEF RuntimesInv, TypeInv, PCs
<1>4. \A q \in Updates \cup Deletes : req'[q].pc = "waits" => req'[q].waits \in Builds'
  BY <1>1, <1>2 DEF RuntimesInv, TypeInv, RefsInv
<1> QED
  BY <1>1, <1>3, <1>4, ReloadKeeps

LEMMA ReloadsHedgeStep ==
  ASSUME RuntimesInv, NEW r \in Updates \cup Deletes, ReloadsHedge(r)
  PROVE  RuntimesInv'
<1> USE DEF RuntimesInv
<1> DEFINE c == req[r].waits
           k == "hedge"
<1>1. c \in Builds /\ build[c].gives \in Builds \cup {None} /\ req[r].pc = "waits"
  BY DEF ReloadsHedge, RefsInv
<1>2. UNCHANGED <<cred, gone>> /\ k \in Registries
  BY DEF ReloadsHedge, Registries
<1>3. \/ Answers(r) /\ Reload(k) /\ reg[k].live # None
      \/ Answers(r) /\ UNCHANGED <<reg, build>>
      \/ req' = [req EXCEPT ![r].waits = build[c].gives] /\ build[c].gives # None
         /\ UNCHANGED <<reg, build>>
  BY DEF ReloadsHedge
<1> HIDE DEF c, k
<1>4. /\ \A q \in Updates \cup Deletes : q # r => req'[q] = req[q]
      /\ req'[r].pc \in {"done", "waits"}
      /\ req'[r].pc = "waits" => req'[r].waits \in Builds
      /\ req' \in [Updates \cup Deletes -> [pc : PCs, waits : Nat]]
  <2>1. \A b \in Builds : b \in Nat
    BY BuildFacts
  <2>2. CASE Answers(r)
    BY <2>1, <2>2 DEF Answers, TypeInv, PCs, None
  <2>3. CASE /\ req' = [req EXCEPT ![r].waits = build[c].gives]
             /\ build[c].gives # None
    BY <1>1, <2>1, <2>3 DEF TypeInv, PCs
  <2> QED
    BY <1>3, <2>2, <2>3
<1>5. (Deleting' <=> Deleting) /\ (Saving' <=> Saving)
  BY <1>1, <1>4 DEF Deleting, Saving
<1>6. CASE Reload(k) /\ reg[k].live # None
  <2>1. \A q \in Updates \cup Deletes : req'[q].pc = "waits" => req'[q].waits \in Builds'
    BY <1>2, <1>4, <1>6, ReloadAdds DEF RefsInv
  <2> QED
    BY <1>2, <1>4, <1>5, <1>6, <2>1, ReloadKeeps
<1>7. CASE UNCHANGED <<reg, build>>
  <2>1. Builds' = Builds
    BY <1>7 DEF Builds
  <2>2. TypeInv'
    BY <1>2, <1>4, <1>7 DEF TypeInv
  <2>3. RefsInv'
    BY <1>4, <1>7, <2>1 DEF RefsInv
  <2>4. LiveInv' /\ PendingInv'
    BY <1>7, <2>1 DEF LiveInv, NoDoubles, PendingInv, InProgress, GoesLive
  <2>5. GoneInv' /\ CredInv'
    BY <1>2, <1>5, <1>7, <2>1 DEF GoneInv, CredInv, GoesLive
  <2> QED
    BY <2>2, <2>3, <2>4, <2>5
<1> QED
  BY <1>3, <1>6, <1>7

\* Both runtimes of a deleted account end.
LEMMA DestroyStep ==
  ASSUME RuntimesInv, NEW r \in Updates \cup Deletes, DestroysRuntimes(r)
  PROVE  RuntimesInv'
<1> USE DEF RuntimesInv
<1>1. /\ UNCHANGED <<cred, gone>> /\ req[r].pc = "deleted"
      /\ req' = [req EXCEPT ![r] = [pc |-> "done", waits |-> None]]
      /\ build' = Stopped(Registries)
      /\ reg' = [k \in Registries |-> [live |-> None, pending |-> None, rev |-> reg[k].rev + 1]]
  BY DEF DestroysRuntimes, DestroyBoth, Answers, Emptied
<1>2. /\ build' \in Seq(Runtime) /\ Builds' = Builds
      /\ \A b \in Builds : build'[b] = IF b \in {reg[k].live : k \in Registries}
                                       THEN [build[b] EXCEPT !.st = "stopped"] ELSE build[b]
  BY <1>1, StoppedType, BuildFacts, LenProperties DEF Builds
<1>3. \A b \in Builds : build[b] \in Runtime /\ build[b].kind \in Registries /\ build[b].rev \in Nat
  BY BuildFacts DEF Runtime
<1>4. \A b \in Builds : /\ build'[b].kind = build[b].kind /\ build'[b].rev = build[b].rev
                        /\ build'[b].gives = build[b].gives /\ build'[b].client = build[b].client
                        /\ build'[b].st # "stopped" => build'[b].st = build[b].st
  BY <1>2, <1>3 DEF Runtime
<1>5. \A b \in Builds : build'[b].st # "live"
  <2> SUFFICES ASSUME NEW b \in Builds, build'[b].st = "live" PROVE FALSE
    OBVIOUS
  <2>1. build[b].st = "live" /\ reg[build[b].kind].live = b
    BY <1>4 DEF LiveInv, NoDoubles
  <2>2. build'[b] = [build[b] EXCEPT !.st = "stopped"]
    BY <1>2, <1>3, <2>1
  <2> QED
    BY <1>3, <2>2 DEF Runtime
<1>6. /\ \A k \in Registries : reg'[k].live = None /\ reg'[k].pending = None
      /\ \A k \in Registries : reg'[k].rev = reg[k].rev + 1
  BY <1>1
<1>7. \A k \in Registries : reg[k].rev \in Nat
  BY DEF TypeInv
<1>8. \A b \in Builds : build[b].rev <= reg[build[b].kind].rev
  BY DEF PendingInv
<1>9. \A b \in Builds : ~GoesLive(b)' /\ build'[b].rev <= reg'[build'[b].kind].rev
  BY <1>3, <1>4, <1>6, <1>7, <1>8 DEF GoesLive
<1>10. reg' \in [Registries -> [live : Nat, pending : Nat, rev : Nat]]
  BY <1>1, <1>7 DEF None
<1>11. req' \in [Updates \cup Deletes -> [pc : PCs, waits : Nat]]
  BY <1>1 DEF TypeInv, PCs, None
<1>12. TypeInv'
  BY <1>1, <1>2, <1>10, <1>11 DEF TypeInv
<1>13. RefsInv'
  BY <1>1, <1>2, <1>4, <1>6 DEF RefsInv, TypeInv
<1>14. LiveInv'
  BY <1>2, <1>5, <1>6 DEF LiveInv, NoDoubles
<1>15. PendingInv' /\ GoneInv'
  BY <1>2, <1>6, <1>9 DEF PendingInv, GoneInv
<1>16. CredInv'
  BY <1>2, <1>5, <1>9 DEF CredInv
<1> QED
  BY <1>12, <1>13, <1>14, <1>15, <1>16

LEMMA RuntimesStep == RuntimesInv /\ [Next]_vars => RuntimesInv'
<1> SUFFICES ASSUME RuntimesInv, [Next]_vars PROVE RuntimesInv'
  OBVIOUS
<1>1. ASSUME NEW k \in Registries, Asks(k) PROVE RuntimesInv'
  BY <1>1, BeginStep
<1>2. ASSUME NEW b \in Builds,
             ClientReads(b) \/ HedgeAsksClient(b) \/ HedgeGetsClient(b) \/ Built(b) \/ Fails(b)
      PROVE  RuntimesInv'
  BY <1>2, ReadStep, AskStep, AskBeginStep, GetStep, LiveStep, DiscardStep, FailStep
<1>3. ASSUME NEW r \in Updates \cup Deletes,
             \/ Saves(r) \/ ReloadsClient(r) \/ SaveUnheeded(r) \/ ReloadsHedge(r)
             \/ DeletesRow(r) \/ DestroysRuntimes(r)
      PROVE  RuntimesInv'
  BY <1>3, RequestStep, ReloadsClientStep, ReloadsHedgeStep, DestroyStep
<1>4. CASE UNCHANGED vars
  BY <1>4 DEF vars, RuntimesInv, TypeInv, RefsInv, LiveInv, NoDoubles, PendingInv, InProgress,
              GoesLive, GoneInv, Deleting, CredInv, Saving, Builds
<1> QED
  BY <1>1, <1>2, <1>3, <1>4 DEF Next

LEMMA RuntimesInvImplies == RuntimesInv => RuntimesMatchAccount
<1> SUFFICES ASSUME RuntimesInv PROVE RuntimesMatchAccount
  OBVIOUS
<1>1. NoDoubles
  BY DEF RuntimesInv, LiveInv
<1>2. NoneOutlives
  BY DEF RuntimesInv, GoneInv, Deleting, NoneOutlives
<1>3. ClientIsCurrent
  <2>1. ASSUME reg["client"].live # None, ~Saving
        PROVE  build[reg["client"].live].cred = cred
    BY <2>1 DEF RuntimesInv, LiveInv, CredInv, Registries
  <2> QED
    BY <2>1 DEF ClientIsCurrent, Saving
<1> QED
  BY <1>1, <1>2, <1>3 DEF RuntimesMatchAccount

\* No runtime runs beside the one of its registry, none outlives its account,
\* and the client in use has the last credentials saved, whatever the requests
\* of the settings and the builds they overlap with.
THEOREM RuntimesAreOfTheAccount == Spec => []RuntimesMatchAccount
  BY RuntimesInit, RuntimesStep, RuntimesInvImplies, PTL DEF Spec
=============================================================================
