--------------------------- MODULE AccountRuntimes ---------------------------
(***************************************************************************)
(* The two runtimes of one exchange account: its client, built from the    *)
(* saved credentials (hyperliquid.registry.js), and its hedge service,     *)
(* built on the client (hedge.registry.js), which starts a monitor.  Both  *)
(* registries are instances of registry.factory.js: one runtime per key,   *)
(* built on first use, and thrown away when the settings of the account    *)
(* change or the account is deleted (settings.routes.js).                  *)
(*                                                                         *)
(* A build lasts several reads of the database.  The code between two      *)
(* reads is one step: what destroys a runtime returns at once, and the one *)
(* microtask reload waits for it is too short for another request.         *)
(***************************************************************************)
EXTENDS Naturals, Sequences

CONSTANTS
    Updates,      \* requests that change the credentials
    Deletes,      \* requests that delete the account
    MaxBuilds     \* bound: runtimes built

VARIABLES
    cred,         \* version of the credentials in the database
    gone,         \* whether the account is deleted there
    reg,          \* map, pending and revisions of each registry
    build,        \* every buildFn called, by registry
    req           \* requests of the settings in progress

vars == <<cred, gone, reg, build, req>>

Registries == {"client", "hedge"}
None == 0
Builds == DOMAIN build

Fresh(kind, rev) == [kind |-> kind, st |-> "begun", rev |-> rev,
                     cred |-> 0, client |-> None, gives |-> None]

Init ==
    /\ cred = 1 /\ gone = FALSE
    /\ reg = [k \in Registries |-> [live |-> None, pending |-> None, rev |-> 0]]
    /\ build = <<>>
    /\ req = [r \in Updates \cup Deletes |-> [pc |-> "idle", waits |-> None]]

-----------------------------------------------------------------------------
(* registry.factory.js.                                                     *)

\* get, or the promise of a build in progress.
InHand(k) == IF reg[k].live # None THEN reg[k].live ELSE reg[k].pending

\* Variant: the revision stays, and builds in progress do not learn of it.
EmptiedSilently(k) == [live |-> None, pending |-> None, rev |-> reg[k].rev]

Emptied(k) == [live |-> None, pending |-> None, rev |-> reg[k].rev + 1]

Stopped(kinds) ==
    [b \in Builds |-> IF b \in {reg[k].live : k \in kinds}
                      THEN [build[b] EXCEPT !.st = "stopped"] ELSE build[b]]

\* getOrCreate without a runtime in hand: a build begins and is pending.
Begin(k) ==
    /\ Len(build) < MaxBuilds
    /\ build' = Append(build, Fresh(k, reg[k].rev))
    /\ reg' = [reg EXCEPT ![k].pending = Len(build) + 1]

\* reload: the revision, the end of the runtime, and a new build.
Reload(k) ==
    /\ Len(build) < MaxBuilds
    /\ build' = Append(Stopped({k}), Fresh(k, Emptied(k).rev))
    /\ reg' = [reg EXCEPT ![k] = [Emptied(k) EXCEPT !.pending = Len(build) + 1]]

DestroyBoth ==
    /\ build' = Stopped(Registries)
    /\ reg' = [k \in Registries |-> Emptied(k)]

Settled(rs, b) ==
    LET k == build[b].kind IN
    [rs EXCEPT ![k].pending = IF @ = b THEN None ELSE @]

\* buildFn is over: the runtime goes into the map, unless a reload or a
\* destroy came meanwhile; then who waits is given what there is now.
GoesLive(b) == reg[build[b].kind].rev = build[b].rev

Ends(b) ==
    LET k == build[b].kind IN
    IF GoesLive(b)
    THEN /\ build' = [build EXCEPT ![b].st = "live", ![b].gives = b]
         /\ reg' = Settled([reg EXCEPT ![k].live = b], b)
    ELSE /\ build' = [build EXCEPT ![b].st = "discarded", ![b].gives = InHand(k)]
         /\ reg' = Settled(reg, b)

Fails(b) ==
    /\ build[b].st \in {"begun", "waits", "reads"}
    /\ build' = [build EXCEPT ![b].st = "failed"]
    /\ reg' = Settled(reg, b)
    /\ UNCHANGED <<cred, gone, req>>

-----------------------------------------------------------------------------
(* buildFn of the two registries.                                           *)

\* Somebody asks for a runtime: a request, a protection, the web socket.
Asks(k) ==
    /\ InHand(k) = None /\ Begin(k)
    /\ UNCHANGED <<cred, gone, req>>

\* resolveAccount with its private key, and then the client made of it.
ClientReads(b) ==
    /\ build[b].kind = "client" /\ build[b].st = "begun" /\ ~gone
    /\ build' = [build EXCEPT ![b].st = "reads", ![b].cred = cred]
    /\ UNCHANGED <<cred, gone, reg, req>>

\* resolveAccount and the client of the account, built if there is none.
HedgeAsksClient(b) ==
    /\ build[b].kind = "hedge" /\ build[b].st = "begun" /\ ~gone
    /\ IF InHand("client") # None
       THEN /\ build' = [build EXCEPT ![b].st = "waits", ![b].client = InHand("client")]
            /\ UNCHANGED reg
       ELSE /\ Len(build) < MaxBuilds
            /\ build' = Append([build EXCEPT ![b].st = "waits", ![b].client = Len(build) + 1],
                               Fresh("client", reg["client"].rev))
            /\ reg' = [reg EXCEPT !["client"].pending = Len(build) + 1]
    /\ UNCHANGED <<cred, gone, req>>

Over(b) == build[b].st \in {"live", "stopped", "discarded", "failed"}

\* The promise of the client: given, handed on to a later build, or refused.
HedgeGetsClient(b) ==
    LET c == build[b].client IN
    /\ build[b].st = "waits" /\ Over(c) /\ build[c].st # "failed"
    /\ build' = [build EXCEPT ![b].client = build[c].gives,
                   ![b].st = IF build[c].gives \in {c, None} THEN "reads" ELSE "waits"]
    /\ UNCHANGED <<cred, gone, reg, req>>

\* The constructor of the client; init of the hedge service and its monitor.
Built(b) ==
    /\ build[b].st = "reads" /\ Ends(b)
    /\ UNCHANGED <<cred, gone, req>>

-----------------------------------------------------------------------------
(* settings.routes.js.                                                      *)

Saves(r) ==
    /\ r \in Updates /\ req[r].pc = "idle" /\ ~gone
    /\ cred' = cred + 1
    /\ req' = [req EXCEPT ![r].pc = "saved"]
    /\ UNCHANGED <<gone, reg, build>>

ReloadsClient(r) ==
    /\ req[r].pc = "saved" /\ ~gone /\ Reload("client")
    /\ req' = [req EXCEPT ![r] = [pc |-> "waits", waits |-> Len(build) + 1]]
    /\ UNCHANGED <<cred, gone>>

\* The account cannot be read between the save and the reload: error 500.
SaveUnheeded(r) ==
    /\ req[r].pc = "saved"
    /\ req' = [req EXCEPT ![r].pc = "unheeded"]
    /\ UNCHANGED <<cred, gone, reg, build>>

Answers(r) == req' = [req EXCEPT ![r] = [pc |-> "done", waits |-> None]]

\* hedgeRegistry.get, and a reload only of a service that is there.
ReloadsHedge(r) ==
    LET c == req[r].waits IN
    /\ req[r].pc = "waits" /\ Over(c) /\ UNCHANGED <<cred, gone>>
    /\ \/ /\ build[c].st = "failed" /\ Answers(r) /\ UNCHANGED <<reg, build>>
       \/ /\ build[c].st # "failed" /\ build[c].gives \notin {c, None}
          /\ req' = [req EXCEPT ![r].waits = build[c].gives]
          /\ UNCHANGED <<reg, build>>
       \/ /\ build[c].st # "failed" /\ build[c].gives \in {c, None}
          /\ Answers(r)
          /\ IF reg["hedge"].live # None THEN Reload("hedge") ELSE UNCHANGED <<reg, build>>

DeletesRow(r) ==
    /\ r \in Deletes /\ req[r].pc = "idle" /\ ~gone
    /\ gone' = TRUE
    /\ req' = [req EXCEPT ![r].pc = "deleted"]
    /\ UNCHANGED <<cred, reg, build>>

DestroysRuntimes(r) ==
    /\ req[r].pc = "deleted" /\ DestroyBoth /\ Answers(r)
    /\ UNCHANGED <<cred, gone>>

-----------------------------------------------------------------------------

Next ==
    \/ \E k \in Registries : Asks(k)
    \/ \E b \in Builds :
          \/ ClientReads(b) \/ HedgeAsksClient(b) \/ HedgeGetsClient(b)
          \/ Built(b) \/ Fails(b)
    \/ \E r \in Updates \cup Deletes :
          \/ Saves(r) \/ ReloadsClient(r) \/ SaveUnheeded(r) \/ ReloadsHedge(r)
          \/ DeletesRow(r) \/ DestroysRuntimes(r)

Spec == Init /\ [][Next]_vars

-----------------------------------------------------------------------------
(* Properties.                                                              *)

\* No runtime is left running beside the one of the registry
\* (registry.factory.js:44-45), none outlives its account, and the client of
\* the registry has the last credentials saved, unless a request has not come
\* yet to its reload or could not: whatever builds were going on meanwhile.
NoDoubles ==
    \A b \in Builds : build[b].st = "live" => reg[build[b].kind].live = b
NoneOutlives ==
    gone /\ (\A r \in Deletes : req[r].pc # "deleted")
    => \A k \in Registries : reg[k].live = None
ClientIsCurrent ==
    LET c == reg["client"].live IN
    c # None /\ (\A r \in Updates : req[r].pc \notin {"saved", "unheeded"})
    => build[c].cred = cred
RuntimesMatchAccount == NoDoubles /\ NoneOutlives /\ ClientIsCurrent
=============================================================================
