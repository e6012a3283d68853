----------------------------- MODULE LpCreation -----------------------------
(***************************************************************************)
(* The creation of an orchestrated LP after its mint has been signed:      *)
(* LpCreateSaga (server/src/services/lp-orchestrator/create-saga.js), run  *)
(* by HTTP requests and by the worker of uniswap-operation.service.js,     *)
(* which share a lease in the row of the operation.                        *)
(*                                                                         *)
(* One operation is modelled.  A call is a run of commitIntent: Commits    *)
(* and Retries are requests, Claims are the tokens under which the workers *)
(* resume it; how many there are bounds how often each happens.  An action *)
(* is one call of the database or of the services below, so that other     *)
(* calls, other processes and crashes come between any two.                *)
(***************************************************************************)
EXTENDS Naturals, FiniteSets

CONSTANTS
    Commits,        \* requests of POST commit-intent
    Retries,        \* requests of POST retry-commit
    Claims,         \* tokens of claimPending
    Procs,          \* processes of the server
    ProcOf,         \* the process that runs a call
    NoCall,         \* claim_token IS NULL
    MaxMishaps      \* bound: processes that stop, database calls that fail,
                    \* leases that lapse although their holder lives

Calls == Commits \cup Retries \cup Claims

ASSUME CreationAssumption ==
    /\ NoCall \notin Calls
    /\ ProcOf \in [Calls -> Procs]
    /\ Commits \cap Retries = {}
    /\ (Commits \cup Retries) \cap Claims = {}
    /\ MaxMishaps \in Nat

VARIABLES
    plan,       \* what the wizard asked for, and whether the request knows the
                \* identifier of the minted position
    op,         \* the row of position_action_operations, with its lease
    orch,       \* the orchestrator with this creation_operation_id; id 0: none
    prot,       \* the status of the protection with this creation_operation_id
    call,       \* the state of each call
    crashes,
    troubles

vars == <<plan, op, orch, prot, call, crashes, troubles>>
rows == <<op, orch, prot>>
bounds == <<crashes, troubles>>

Ended == {"done", "compensated", "failed", "needs_reconcile"}
Statuses == Ended \cup {"awaiting_signature", "committing"}

Plans == [mode : {"standalone", "bare", "covered"}, lp : BOOLEAN]
Operations == [status : Statuses, claim : Calls \cup {NoCall}, live : BOOLEAN]
Orchestrators == [id : Nat, linked : BOOLEAN, made : Nat]
Protections == {"none", "active", "closing", "inactive"}

Working == {"mark", "create", "attach", "open", "link",
            "undoHedge", "closeHedge", "undoRow", "finish"}
Stages == Working \cup {"idle", "reopen", "read", "claim", "reread",
                        "release", "confirm", "reconcile", "leave", "over"}
CallStates == [pc : Stages, mine : Nat,
               outcome : {"completed", "compensated"}, threw : BOOLEAN]

TypeOK ==
    /\ plan \in Plans
    /\ op \in Operations
    /\ orch \in Orchestrators
    /\ prot \in Protections
    /\ call \in [Calls -> CallStates]
    /\ {crashes, troubles} \subseteq Nat

-----------------------------------------------------------------------------
(* Shorthands.                                                             *)

\* commitIntent begins; what a call knew is gone when it is over.
Fresh(pc) == [pc |-> pc, mine |-> 0, outcome |-> "completed", threw |-> FALSE]

At(c, pc) == call[c].pc = pc
Busy(c) == call[c].pc \notin {"idle", "over"}
Moved(r, pc) == IF pc = "over" THEN Fresh("over") ELSE [r EXCEPT !.pc = pc]
Goto(c, pc) == call' = [call EXCEPT ![c] = Moved(@, pc)]

\* Where a call goes that has its answer, or an error: the requests end, the
\* worker reads the row for its log, or gives the operation up.
Answered(c) == IF c \in Claims THEN "confirm" ELSE "over"
Thrown(c) == IF c \in Claims THEN "reconcile" ELSE "over"

\* claim_lease_until > now.
Held == op.claim # NoCall /\ op.live

MayFail == crashes + troubles < MaxMishaps

Covering == prot \in {"active", "closing"}

-----------------------------------------------------------------------------
(* The writes.                                                             *)

Reopened ==
    /\ op' = [op EXCEPT !.status = "committing"]
    /\ UNCHANGED <<orch, prot>>

Taken(c) ==
    /\ op' = [op EXCEPT !.claim = c, !.live = TRUE]
    /\ UNCHANGED <<orch, prot>>

Marked ==
    /\ op' = [op EXCEPT !.status = "committing"]
    /\ UNCHANGED <<orch, prot>>

\* One orchestrator per operation: ON CONFLICT returns the one there is.
Created ==
    /\ orch' = IF orch.id = 0
               THEN [id |-> orch.made + 1, linked |-> FALSE,
                     made |-> orch.made + 1]
               ELSE orch
    /\ UNCHANGED <<op, prot>>

\* The row is made or reactivated; if another call has made it meanwhile, ON
\* CONFLICT leaves it as it is.
Opened ==
    /\ prot' \in {"active"} \cup ({prot} \cap {"closing"})
    /\ UNCHANGED <<op, orch>>

\* The transaction of attachLp.
Linked ==
    /\ orch' = [orch EXCEPT !.linked = TRUE]
    /\ UNCHANGED <<op, prot>>

\* requestDeactivate: the position is closed and the row deactivated at once,
\* or the monitor goes on with it at its next tick.
Deactivated(to) ==
    /\ prot' = IF Covering THEN to ELSE prot
    /\ UNCHANGED <<op, orch>>

\* removeOwnedByOperation: never a row with a live LP.
Removed(c) ==
    /\ orch' = IF orch.id = call[c].mine /\ ~orch.linked
               THEN [orch EXCEPT !.id = 0] ELSE orch
    /\ UNCHANGED <<op, prot>>

StatusOf(c) == IF call[c].outcome = "completed" THEN "done" ELSE "compensated"

\* updateState with a final status drops the lease, whoever holds it.
Final(status) ==
    /\ op' = [status |-> status, claim |-> NoCall, live |-> FALSE]
    /\ UNCHANGED <<orch, prot>>

\* Variant: the lease is dropped without comparing the token.
ReleasedAny(c) ==
    /\ op' = [op EXCEPT !.claim = NoCall, !.live = FALSE]
    /\ UNCHANGED <<orch, prot>>

Released(c) ==
    /\ op' = IF op.claim = c
             THEN [op EXCEPT !.claim = NoCall, !.live = FALSE] ELSE op
    /\ UNCHANGED <<orch, prot>>

-----------------------------------------------------------------------------
(* Who begins.                                                             *)

Init ==
    /\ plan \in Plans
    /\ op = [status |-> "awaiting_signature", claim |-> NoCall, live |-> FALSE]
    /\ orch = [id |-> 0, linked |-> FALSE, made |-> 0]
    /\ prot = "none"
    /\ call = [c \in Calls |-> Fresh("idle")]
    /\ crashes = 0
    /\ troubles = 0

\* The browser has the receipt of the mint and asks for the commit.
CommitAsked(c) ==
    /\ c \in Commits /\ At(c, "idle")
    /\ Goto(c, "read")
    /\ UNCHANGED <<plan, rows, bounds>>

\* retryCommit, up to its check that there is something to retry.
RetryAsked(c) ==
    /\ c \in Retries /\ At(c, "idle")
    /\ op.status = "compensated" /\ plan.lp
    /\ Goto(c, "reopen")
    /\ UNCHANGED <<plan, rows, bounds>>

Reopens(c) ==
    /\ At(c, "reopen")
    /\ IF op.status = "compensated"
       THEN Reopened /\ Goto(c, "read")
       ELSE Goto(c, "over") /\ UNCHANGED rows
    /\ UNCHANGED <<plan, bounds>>

\* Variant: a lease that has lapsed is not taken over.
ResumableUnclaimed == op.status = "committing" /\ op.claim = NoCall

Resumable == op.status = "committing" /\ ~Held

\* processPending claims the operation; a process handles one at a time.
WorkerClaims(c) ==
    /\ c \in Claims /\ At(c, "idle")
    /\ \A d \in Claims : ProcOf[d] = ProcOf[c] => ~Busy(d)
    /\ Resumable
    /\ Taken(c)
    /\ Goto(c, "read")
    /\ UNCHANGED <<plan, bounds>>

-----------------------------------------------------------------------------
(* commitIntent: the lease.                                                *)

Reads(c) ==
    /\ At(c, "read")
    /\ Goto(c, IF op.status \in {"done", "compensated"} THEN Answered(c)
               ELSE IF c \in Claims /\ op.claim = c /\ op.live THEN "mark"
               ELSE "claim")
    /\ UNCHANGED <<plan, rows, bounds>>

\* Variant: any call may take the lease.
ClaimableHeld == op.status \notin Ended

\* Variant: the claim does not look at the status.
ClaimableEnded == ~Held

\* The token of claimByOperationKey is new: it is never the one in the row.
Claimable == op.status \notin Ended /\ ~Held

Claimed(c) ==
    /\ At(c, "claim")
    /\ IF Claimable
       THEN Taken(c) /\ Goto(c, "mark")
       ELSE Goto(c, "reread") /\ UNCHANGED rows
    /\ UNCHANGED <<plan, bounds>>

Rereads(c) ==
    /\ At(c, "reread")
    /\ Goto(c, IF op.status \in {"done", "compensated"} THEN Answered(c)
               ELSE Thrown(c))
    /\ UNCHANGED <<plan, rows, bounds>>

-----------------------------------------------------------------------------
(* commitIntent and commit.                                                *)

\* The operation is marked.  A plan without orchestrator ends here, and so
\* does a request that does not know the position.
Marks(c) ==
    /\ At(c, "mark")
    /\ Marked
    /\ call' = [call EXCEPT
         ![c].pc = IF plan.mode # "standalone" /\ plan.lp THEN "create"
                   ELSE "finish",
         ![c].outcome = IF plan.mode = "standalone" \/ plan.lp THEN "completed"
                        ELSE "compensated"]
    /\ UNCHANGED <<plan, bounds>>

\* Variant: commit does not look whether the orchestrator has its LP already.
CreatesAnew(c) ==
    /\ At(c, "create")
    /\ Created
    /\ call' = [call EXCEPT ![c].mine = orch'.id, ![c].pc = "attach"]
    /\ UNCHANGED <<plan, bounds>>

\* createOrchestrator; one that has its LP has been linked by an earlier call.
Creates(c) ==
    /\ At(c, "create")
    /\ Created
    /\ call' = [call EXCEPT ![c].mine = orch'.id,
                            ![c].pc = IF orch'.linked THEN "finish"
                                      ELSE "attach"]
    /\ UNCHANGED <<plan, bounds>>

\* attachLp, up to the look at the protection of the position: an active one
\* of the same operation is taken as it is.
Attaches(c) ==
    /\ At(c, "attach")
    /\ Goto(c, IF orch.id # call[c].mine \/ orch.linked THEN "undoHedge"
               ELSE IF plan.mode = "bare" \/ Covering THEN "link"
               ELSE "open")
    /\ UNCHANGED <<plan, rows, bounds>>

\* The snapshot, the account, the exchange or the asset do not allow it.
CoverRefused(c) ==
    /\ At(c, "attach") /\ plan.mode = "covered"
    /\ Goto(c, "undoHedge")
    /\ UNCHANGED <<plan, rows, bounds>>

OpensProtection(c) ==
    /\ At(c, "open")
    /\ Opened
    /\ Goto(c, "link")
    /\ UNCHANGED <<plan, bounds>>

\* Without its row the transaction fails on the foreign key of the log.
Links(c) ==
    /\ At(c, "link")
    /\ IF orch.id = call[c].mine
       THEN Linked /\ Goto(c, "finish")
       ELSE Goto(c, "undoHedge") /\ UNCHANGED rows
    /\ UNCHANGED <<plan, bounds>>

-----------------------------------------------------------------------------
(* _compensate.                                                            *)

\* A protection an active orchestrator refers to is left alone.
FindsHedge(c) ==
    /\ At(c, "undoHedge")
    /\ Goto(c, IF Covering /\ ~orch.linked THEN "closeHedge" ELSE "undoRow")
    /\ UNCHANGED <<plan, rows, bounds>>

\* What is not closed at once has been asked for.
ClosesHedge(c) ==
    /\ At(c, "closeHedge")
    /\ Deactivated("closing") \/ Deactivated("inactive")
    /\ Goto(c, "undoRow")
    /\ UNCHANGED <<plan, bounds>>

RemovesRow(c) ==
    /\ At(c, "undoRow")
    /\ Removed(c)
    /\ call' = [call EXCEPT ![c].pc = "finish", ![c].outcome = "compensated"]
    /\ UNCHANGED <<plan, bounds>>

-----------------------------------------------------------------------------
(* The end of commitIntent, and what the worker does after it.             *)

Finishes(c) ==
    /\ At(c, "finish")
    /\ Final(StatusOf(c))
    /\ Goto(c, "release")
    /\ UNCHANGED <<plan, bounds>>

Releases(c) ==
    /\ At(c, "release")
    /\ Released(c)
    /\ Goto(c, IF call[c].threw THEN Thrown(c) ELSE Answered(c))
    /\ UNCHANGED <<plan, bounds>>

Confirms(c) ==
    /\ At(c, "confirm")
    /\ Goto(c, "leave")
    /\ UNCHANGED <<plan, rows, bounds>>

\* The catch of _processOrchestratedLpCreate, which looks at nothing.
Reconciles(c) ==
    /\ At(c, "reconcile")
    /\ Final("needs_reconcile")
    /\ Goto(c, "leave")
    /\ UNCHANGED <<plan, bounds>>

\* The finally of _processClaimed.
Leaves(c) ==
    /\ At(c, "leave")
    /\ Released(c)
    /\ Goto(c, "over")
    /\ UNCHANGED <<plan, bounds>>

Step(c) ==
    \/ Reopens(c) \/ Reads(c) \/ Claimed(c) \/ Rereads(c)
    \/ Marks(c) \/ Creates(c) \/ Attaches(c) \/ CoverRefused(c)
    \/ OpensProtection(c) \/ Links(c)
    \/ FindsHedge(c) \/ ClosesHedge(c) \/ RemovesRow(c)
    \/ Finishes(c) \/ Releases(c) \/ Confirms(c) \/ Reconciles(c) \/ Leaves(c)

-----------------------------------------------------------------------------
(* What happens to the calls and to the rows.                              *)

\* The write a call was at has been done, but its answer is lost.
Unanswered(c) ==
    \/ At(c, "reopen") /\ op.status = "compensated" /\ Reopened
    \/ At(c, "claim") /\ Claimable /\ Taken(c)
    \/ At(c, "mark") /\ Marked
    \/ At(c, "create") /\ Created
    \/ At(c, "open") /\ Opened
    \/ At(c, "link") /\ orch.id = call[c].mine /\ Linked
    \/ At(c, "closeHedge") /\ Deactivated("closing")
    \/ At(c, "undoRow") /\ Removed(c)
    \/ At(c, "finish") /\ Final(StatusOf(c))
    \/ At(c, "reconcile") /\ Final("needs_reconcile")

\* Where the catch and finally blocks take a call whose database call throws.
AfterError(c) ==
    CASE call[c].pc \in {"read", "claim", "reread", "confirm"} ->
           Moved(call[c], Thrown(c))
      [] call[c].pc \in {"mark", "finish"} ->
           [call[c] EXCEPT !.pc = "release", !.threw = TRUE]
      [] call[c].pc \in {"create", "attach", "open", "link"} ->
           [call[c] EXCEPT !.pc = "undoHedge"]
      [] call[c].pc \in {"undoHedge", "closeHedge"} ->
           [call[c] EXCEPT !.pc = "undoRow"]
      [] At(c, "undoRow") ->
           [call[c] EXCEPT !.pc = "finish", !.outcome = "compensated"]
      [] At(c, "release") ->
           Moved(call[c], IF call[c].threw THEN Thrown(c) ELSE Answered(c))
      [] At(c, "reconcile") -> Moved(call[c], "leave")
      [] OTHER -> Fresh("over")

DatabaseFails(c) ==
    /\ Busy(c)
    /\ MayFail
    /\ troubles' = troubles + 1
    /\ UNCHANGED rows \/ Unanswered(c)
    /\ call' = [call EXCEPT ![c] = AfterError(c)]
    /\ UNCHANGED <<plan, crashes>>

\* The lease runs out 120 s after its last renewal: when its holder has gone,
\* or when the renewals every 40 s fail while it goes on.
LeaseLapses ==
    /\ Held
    /\ op' = [op EXCEPT !.live = FALSE]
    /\ IF Busy(op.claim)
       THEN MayFail /\ troubles' = troubles + 1
       ELSE UNCHANGED troubles
    /\ UNCHANGED <<plan, orch, prot, call, crashes>>

\* A renewal that comes late finds its token still there.
Renews(c) ==
    /\ op.claim = c /\ ~op.live
    /\ call[c].pc \in Working \/ (c \in Claims /\ Busy(c))
    /\ op' = [op EXCEPT !.live = TRUE]
    /\ UNCHANGED <<plan, orch, prot, call, bounds>>

\* expireStaleIntents, 30 minutes after anybody has touched the row.
Expires ==
    /\ op.status = "awaiting_signature" /\ ~Held
    /\ op' = [op EXCEPT !.status = "failed"]
    /\ UNCHANGED <<plan, orch, prot, call, bounds>>

\* The monitor of the protection goes on with the deactivation asked for.
DeactivationEnds ==
    /\ prot = "closing"
    /\ prot' = "inactive"
    /\ UNCHANGED <<plan, op, orch, call, bounds>>

\* A process stops and another takes its place.
Crash(p) ==
    /\ MayFail
    /\ \E c \in Calls : ProcOf[c] = p /\ Busy(c)
    /\ crashes' = crashes + 1
    /\ call' = [c \in Calls |-> IF ProcOf[c] = p /\ Busy(c)
                                THEN Fresh("over") ELSE call[c]]
    /\ UNCHANGED <<plan, rows, troubles>>

Next ==
    \/ \E c \in Calls :
         \/ CommitAsked(c) \/ RetryAsked(c) \/ WorkerClaims(c)
         \/ Step(c) \/ DatabaseFails(c) \/ Renews(c)
    \/ LeaseLapses \/ Expires \/ DeactivationEnds
    \/ \E p \in Procs : Crash(p)

Spec == Init /\ [][Next]_vars

\* Calls of the database return or fail, a process that has stopped is started
\* again, its worker polls every 3 s, and time passes for the lease of a holder
\* that is gone.  Nobody has to ask for anything.
Fairness ==
    /\ \A c \in Calls : WF_vars(Step(c))
    /\ WF_vars(\E c \in Claims : WorkerClaims(c))
    /\ WF_vars(LeaseLapses /\ ~Busy(op.claim))

FairSpec == Spec /\ Fairness

-----------------------------------------------------------------------------
(* Properties.                                                             *)

\* No database call has failed and no lease has lapsed under its holder.
Untroubled == troubles = 0

\* A call that works holds the lease, and so does a worker that has just
\* claimed the operation.
Holding(c) == call[c].pc \in Working \/ (c \in Claims /\ At(c, "read"))

\* The lease of a call that holds it runs until the call gives it up: nobody
\* else takes it, drops it or ends the operation meanwhile, whichever calls
\* come late or processes stop (the invariant that makes the next ones hold).
LeaseKept ==
    Untroubled => \A c \in Calls :
        /\ Holding(c) => op.claim = c /\ op.live /\ op.status \notin Ended
        /\ c \in Claims => call[c].pc \notin {"reopen", "claim", "reread"}
        /\ ~At(c, "reconcile") /\ ~call[c].threw

\* The inductive invariant: the types of the rows and calls, and the lease.
IInv == TypeOK /\ LeaseKept

\* "HTTP and worker cannot execute the same intention at the same time"
\* (migration 017): between its claim and its final state a call is alone,
\* whatever processes stop and whoever resumes.
OneCommitAtATime ==
    Untroubled => \A c, d \in Calls :
        call[c].pc \in Working /\ call[d].pc \in Working => c = d

\* All or nothing: a creation that is said to be done has its orchestrator
\* linked, and has opened its protection; one that is said to be compensated
\* has left no orchestrator and no protection but one that is being closed.
OutcomeIsTrue ==
    Untroubled =>
        /\ op.status = "done" /\ plan.mode # "standalone" =>
             /\ orch.linked
             /\ plan.mode = "covered" => prot # "none"
        /\ op.status = "compensated" =>
             /\ orch.id = 0
             /\ prot # "active"

\* The pieces agree with the step of the call that works on them: between two
\* blocks, whatever has been made is known to the call that will link it or
\* undo it (the invariant that makes OutcomeIsTrue hold).
Undoing == {"undoHedge", "closeHedge", "undoRow"}
Building == {"create", "attach", "open", "link"}

PiecesMatch ==
    Untroubled =>
        /\ orch.linked =>
             /\ orch.id # 0
             /\ plan.mode = "covered" => prot # "none"
        /\ plan.mode = "standalone" \/ ~plan.lp => orch.id = 0 /\ prot = "none"
        /\ \A c \in Calls :
             /\ call[c].pc \in Building \cup Undoing =>
                  plan.mode # "standalone" /\ plan.lp
             /\ call[c].pc \in (Building \cup Undoing) \ {"create"} =>
                  orch.id = call[c].mine /\ orch.id # 0 /\ ~orch.linked
             /\ call[c].pc \in Building => call[c].outcome = "completed"
             /\ At(c, "link") /\ plan.mode = "covered" => prot # "none"
             /\ At(c, "undoRow") => prot # "active"
             /\ At(c, "finish") =>
                  IF call[c].outcome = "completed"
                  THEN plan.mode = "standalone" \/ orch.linked
                  ELSE orch.id = 0 /\ prot # "active"

\* A creation that is done is never taken up again, nor declared otherwise.
DoneIsFinal ==
    [][troubles' = 0 /\ op.status = "done" => op'.status = "done"]_vars

\* A commit that has begun gets an end: from its request, from another one or
\* from a worker, or it is left for a human to reconcile.
CommitEnds == op.status = "committing" ~> op.status \in Ended

\* What "never happens" according to the saga: an active orchestrator without
\* the hedge it says it has.
NeverUncovered ==
    Untroubled /\ plan.mode = "covered" /\ orch.linked =>
        prot \in {"active", "closing"}
=============================================================================
