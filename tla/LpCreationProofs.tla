-------------------------- MODULE LpCreationProofs --------------------------
(***************************************************************************)
(* Proofs about the lease of a creation, for any number of requests,       *)
(* workers, processes and mishaps.                                         *)
(***************************************************************************)
EXTENDS LpCreation, TLAPS

USE DEF Calls

\* What the writes of the rows have in common.
LEMMA WritesTyped ==
  ASSUME TypeOK, NEW c \in Calls
  PROVE  /\ Reopened \/ Taken(c) \/ Marked \/ Released(c) => op' \in Operations
         /\ Final(StatusOf(c)) => op' \in Operations
         /\ Final("needs_reconcile") => op' \in Operations
         /\ Created \/ Linked \/ Removed(c) => orch' \in Orchestrators
         /\ Opened \/ Deactivated("closing") \/ Deactivated("inactive")
              => prot' \in Protections
<1>1. op \in Operations /\ orch \in Orchestrators
  BY DEF TypeOK
<1>2. Reopened \/ Taken(c) \/ Marked \/ Released(c) => op' \in Operations
  BY <1>1 DEF Reopened, Taken, Marked, Released, Operations, Statuses, Ended
<1>3. Final(StatusOf(c)) => op' \in Operations
  BY <1>1 DEF Final, StatusOf, Operations, Statuses, Ended
<1>4. Final("needs_reconcile") => op' \in Operations
  BY DEF Final, Operations, Statuses, Ended
<1>5. Created => orch' \in Orchestrators
  BY <1>1 DEF Created, Orchestrators
<1>6. Linked => orch' \in Orchestrators
  BY <1>1 DEF Linked, Orchestrators
<1>7. Removed(c) => orch' \in Orchestrators
  BY <1>1 DEF Removed, Orchestrators
<1>8. Opened \/ Deactivated("closing") \/ Deactivated("inactive")
         => prot' \in Protections
  BY DEF TypeOK, Opened, Deactivated, Protections
<1> QED
  BY <1>2, <1>3, <1>4, <1>5, <1>6, <1>7, <1>8

\* A call that moves to a stage keeps its shape.
LEMMA MovesTyped ==
  ASSUME TypeOK, NEW c \in Calls, NEW pc \in Stages
  PROVE  /\ Fresh(pc) \in CallStates
         /\ Moved(call[c], pc) \in CallStates
         /\ Goto(c, pc) => call' \in [Calls -> CallStates]
<1>1. Fresh(pc) \in CallStates
  BY DEF Fresh, CallStates
<1>2. Fresh("over") \in CallStates
  BY DEF Fresh, CallStates, Stages
<1>3. [call[c] EXCEPT !.pc = pc] \in CallStates
  BY DEF TypeOK, CallStates
<1>4. Moved(call[c], pc) \in CallStates
  BY <1>2, <1>3 DEF Moved
<1>5. Goto(c, pc) => call' \in [Calls -> CallStates]
  BY <1>4 DEF Goto, TypeOK
<1> QED
  BY <1>1, <1>4, <1>5

LEMMA TypeInit == Init => TypeOK
<1> SUFFICES ASSUME Init PROVE TypeOK
  OBVIOUS
<1>1. Fresh("idle") \in CallStates
  BY DEF Fresh, CallStates, Stages
<1>2. op \in Operations /\ orch \in Orchestrators /\ prot \in Protections
  BY DEF Init, Operations, Statuses, Orchestrators, Protections
<1> QED
  BY <1>1, <1>2 DEF Init, TypeOK

\* One block of a call, seen as a write and a move.
LEMMA StepTyped ==
  ASSUME TypeOK, NEW c \in Calls, Step(c)
  PROVE  TypeOK'
<1> USE DEF TypeOK
<1>a. /\ {"read", "claim", "mark", "reread", "create", "attach", "open", "link",
          "undoHedge", "closeHedge", "undoRow", "finish", "release",
          "confirm", "reconcile", "leave", "over"} \subseteq Stages
      /\ Answered(c) \in Stages /\ Thrown(c) \in Stages
  BY DEF Stages, Working, Answered, Thrown
<1>1. CASE Reopens(c)
  BY <1>1, <1>a, WritesTyped, MovesTyped DEF Reopens, Reopened, rows, bounds
<1>2. CASE Reads(c)
  BY <1>2, <1>a, MovesTyped DEF Reads, rows, bounds
<1>3. CASE Claimed(c)
  BY <1>3, <1>a, WritesTyped, MovesTyped DEF Claimed, Taken, rows, bounds
<1>4. CASE Rereads(c)
  BY <1>4, <1>a, MovesTyped DEF Rereads, rows, bounds
<1>5. CASE Marks(c)
  <2>1. \A pc \in {"create", "finish"}, o \in {"completed", "compensated"} :
          [call[c] EXCEPT !.pc = pc, !.outcome = o] \in CallStates
    BY <1>a DEF CallStates
  <2>2. call' \in [Calls -> CallStates]
    BY <1>5, <2>1 DEF Marks
  <2> QED
    BY <1>5, <2>2, WritesTyped DEF Marks, Marked, bounds
<1>6. CASE Creates(c)
  <2>1. orch' \in Orchestrators
    BY <1>6, WritesTyped DEF Creates
  <2>2. orch'.id \in Nat
    BY <2>1 DEF Orchestrators
  <2>3. \A pc \in {"finish", "attach"} :
          [call[c] EXCEPT !.mine = orch'.id, !.pc = pc] \in CallStates
    BY <2>2, <1>a DEF CallStates
  <2>4. call' \in [Calls -> CallStates]
    BY <1>6, <2>3 DEF Creates
  <2> QED
    BY <1>6, <2>1, <2>4 DEF Creates, Created, bounds
<1>7. CASE Attaches(c) \/ CoverRefused(c)
  BY <1>7, <1>a, MovesTyped DEF Attaches, CoverRefused, rows, bounds
<1>8. CASE OpensProtection(c)
  BY <1>8, <1>a, WritesTyped, MovesTyped DEF OpensProtection, Opened, bounds
<1>9. CASE Links(c)
  BY <1>9, <1>a, WritesTyped, MovesTyped DEF Links, Linked, rows, bounds
<1>10. CASE FindsHedge(c)
  BY <1>10, <1>a, MovesTyped DEF FindsHedge, rows, bounds
<1>11. CASE ClosesHedge(c)
  BY <1>11, <1>a, WritesTyped, MovesTyped DEF ClosesHedge, Deactivated, bounds
<1>12. CASE RemovesRow(c)
  <2>1. [call[c] EXCEPT !.pc = "finish", !.outcome = "compensated"] \in CallStates
    BY <1>a DEF CallStates
  <2>2. orch' \in Orchestrators
    BY <1>12, WritesTyped DEF RemovesRow
  <2>3. call' \in [Calls -> CallStates]
    BY <1>12, <2>1 DEF RemovesRow
  <2> QED
    BY <1>12, <2>2, <2>3 DEF RemovesRow, Removed, bounds
<1>13. CASE Finishes(c)
  BY <1>13, <1>a, WritesTyped, MovesTyped DEF Finishes, Final, bounds
<1>14. CASE Releases(c) \/ Leaves(c)
  BY <1>14, <1>a, WritesTyped, MovesTyped DEF Releases, Leaves, Released, bounds
<1>15. CASE Confirms(c)
  BY <1>15, <1>a, MovesTyped DEF Confirms, rows, bounds
<1>16. CASE Reconciles(c)
  BY <1>16, <1>a, WritesTyped, MovesTyped DEF Reconciles, Final, bounds
<1> QED
  BY <1>1, <1>2, <1>3, <1>4, <1>5, <1>6, <1>7, <1>8, <1>9, <1>10, <1>11,
     <1>12, <1>13, <1>14, <1>15, <1>16 DEF Step

\* Where an error takes a call is a stage, whichever call of the database fails.
LEMMA ErrorTyped ==
  ASSUME TypeOK, NEW c \in Calls, DatabaseFails(c)
  PROVE  TypeOK'
<1>1. AfterError(c) \in CallStates
  <2>1. /\ Answered(c) \in Stages /\ Thrown(c) \in Stages
        /\ {"release", "undoHedge", "undoRow", "finish", "leave", "over"}
              \subseteq Stages
    BY DEF Stages, Working, Answered, Thrown
  <2>2. /\ Moved(call[c], Thrown(c)) \in CallStates
        /\ Moved(call[c], Answered(c)) \in CallStates
        /\ Moved(call[c], "leave") \in CallStates
        /\ Fresh("over") \in CallStates
    BY <2>1, MovesTyped
  <2>3. call[c] \in CallStates
    BY DEF TypeOK
  <2>4. /\ [call[c] EXCEPT !.pc = "release", !.threw = TRUE] \in CallStates
        /\ [call[c] EXCEPT !.pc = "undoHedge"] \in CallStates
        /\ [call[c] EXCEPT !.pc = "undoRow"] \in CallStates
        /\ [call[c] EXCEPT !.pc = "finish", !.outcome = "compensated"] \in CallStates
    BY <2>1, <2>3 DEF CallStates
  <2> QED
    BY <2>2, <2>4 DEF AfterError, At
<1>2. call' \in [Calls -> CallStates]
  BY <1>1 DEF DatabaseFails, TypeOK
<1>3. op' \in Operations /\ orch' \in Orchestrators /\ prot' \in Protections
  <2>1. CASE UNCHANGED rows
    BY <2>1 DEF rows, TypeOK
  <2>2. CASE Unanswered(c)
    <3>1. CASE Reopened \/ Taken(c) \/ Marked
      BY <3>1, WritesTyped DEF Reopened, Taken, Marked, TypeOK
    <3>2. CASE Created \/ Linked \/ Removed(c)
      BY <3>2, WritesTyped DEF Created, Linked, Removed, TypeOK
    <3>3. CASE Opened \/ Deactivated("closing")
      BY <3>3, WritesTyped DEF Opened, Deactivated, TypeOK
    <3>4. CASE Final(StatusOf(c)) \/ Final("needs_reconcile")
      BY <3>4, WritesTyped DEF Final, TypeOK
    <3> QED
      BY <2>2, <3>1, <3>2, <3>3, <3>4 DEF Unanswered
  <2> QED
    BY <2>1, <2>2 DEF DatabaseFails
<1> QED
  BY <1>2, <1>3 DEF DatabaseFails, TypeOK

LEMMA TypeStep == TypeOK /\ [Next]_vars => TypeOK'
<1> SUFFICES ASSUME TypeOK, [Next]_vars PROVE TypeOK'
  OBVIOUS
<1>a. \A c \in Calls : /\ Goto(c, "read") => call' \in [Calls -> CallStates]
                       /\ Goto(c, "reopen") => call' \in [Calls -> CallStates]
  BY MovesTyped DEF Stages
<1>b. [op EXCEPT !.live = TRUE] \in Operations /\ [op EXCEPT !.live = FALSE] \in Operations
      /\ [op EXCEPT !.status = "failed"] \in Operations
  BY DEF TypeOK, Operations, Statuses, Ended
<1>1. ASSUME NEW c \in Calls, CommitAsked(c) PROVE TypeOK'
  BY <1>1, <1>a DEF CommitAsked, rows, bounds, TypeOK
<1>2. ASSUME NEW c \in Calls, RetryAsked(c) PROVE TypeOK'
  BY <1>2, <1>a DEF RetryAsked, rows, bounds, TypeOK
<1>3. ASSUME NEW c \in Calls, WorkerClaims(c) PROVE TypeOK'
  BY <1>3, <1>a, WritesTyped DEF WorkerClaims, Taken, bounds, TypeOK
<1>4. ASSUME NEW c \in Calls, Renews(c) PROVE TypeOK'
  BY <1>4, <1>b DEF Renews, bounds, TypeOK
<1>5. CASE LeaseLapses
  BY <1>5, <1>b DEF LeaseLapses, TypeOK
<1>6. CASE Expires
  BY <1>6, <1>b DEF Expires, bounds, TypeOK
<1>7. CASE DeactivationEnds
  BY <1>7 DEF DeactivationEnds, bounds, TypeOK, Protections
<1>8. ASSUME NEW p \in Procs, Crash(p) PROVE TypeOK'
  <2>1. Fresh("over") \in CallStates
    BY MovesTyped DEF Fresh, CallStates, Stages
  <2> QED
    BY <1>8, <2>1 DEF Crash, rows, TypeOK
<1>9. CASE UNCHANGED vars
  BY <1>9 DEF vars, TypeOK
<1> QED
  BY <1>1, <1>2, <1>3, <1>4, <1>5, <1>6, <1>7, <1>8, <1>9,
     StepTyped, ErrorTyped DEF Next

\* Type correctness: the rows and the calls keep their shape.
THEOREM TypeCorrect == Spec => []TypeOK
  BY TypeInit, TypeStep, PTL DEF Spec

-----------------------------------------------------------------------------

\* What LeaseKept says of one call.
Kept(c) ==
    /\ Holding(c) => op.claim = c /\ op.live /\ op.status \notin Ended
    /\ c \in Claims => call[c].pc \notin {"reopen", "claim", "reread"}
    /\ ~At(c, "reconcile") /\ ~call[c].threw

\* It is enough to look at the call that moves, and at what its write does to
\* the lease of the others.
LEMMA OneMoves ==
  ASSUME TypeOK, LeaseKept, Untroubled, NEW c \in Calls,
         \A d \in Calls \ {c} : call'[d] = call[d],
         \A d \in Calls \ {c} : Holding(d) =>
             op'.claim = d /\ op'.live /\ op'.status \notin Ended,
         Kept(c)'
  PROVE  LeaseKept'
  BY DEF LeaseKept, Kept, Holding, At

\* A call that works is the holder: a step of it that leaves the lease alone
\* and goes on working disturbs nobody.
LEMMA WorkGoesOn ==
  ASSUME TypeOK, LeaseKept, Untroubled, NEW c \in Calls,
         call[c].pc \in Working,
         \A d \in Calls \ {c} : call'[d] = call[d],
         call'[c].pc \in Working, call'[c].threw = call[c].threw,
         op' = op \/ op' = [op EXCEPT !.status = "committing"]
  PROVE  LeaseKept'
<1>1. op.claim = c /\ op.live /\ op.status \notin Ended /\ ~call[c].threw
  BY DEF LeaseKept, Holding
<1>2. op'.claim = c /\ op'.live /\ op'.status \notin Ended
  BY <1>1 DEF TypeOK, Operations, Ended
<1>3. \A d \in Calls \ {c} : ~Holding(d)
  BY <1>1 DEF LeaseKept
<1>4. Kept(c)'
  BY <1>1, <1>2 DEF Kept, Working, At
<1> QED
  BY <1>3, <1>4, OneMoves

\* A call that does not hold the lease, and does not get it, moves without
\* touching the row.
LEMMA StandsBy ==
  ASSUME TypeOK, LeaseKept, Untroubled, NEW c \in Calls,
         \A d \in Calls \ {c} : call'[d] = call[d],
         UNCHANGED op,
         call'[c].pc \notin Working,
         c \in Claims => call'[c].pc \notin {"read", "reopen", "claim", "reread"},
         call'[c].pc # "reconcile", ~call'[c].threw
  PROVE  LeaseKept'
<1>1. Kept(c)'
  BY DEF Kept, Holding, At
<1>2. \A d \in Calls \ {c} : Holding(d) =>
        op'.claim = d /\ op'.live /\ op'.status \notin Ended
  BY DEF LeaseKept
<1> QED
  BY <1>1, <1>2, OneMoves

\* Whatever a call does next, it is the only one that moves.
LEMMA Moves ==
  ASSUME TypeOK, NEW c \in Calls, NEW pc, Goto(c, pc)
  PROVE  /\ \A d \in Calls \ {c} : call'[d] = call[d]
         /\ call'[c].pc = pc
         /\ call'[c].threw => call[c].threw
<1>1. Moved(call[c], pc).pc = pc /\ (Moved(call[c], pc).threw => call[c].threw)
  BY DEF Moved, Fresh, TypeOK, CallStates
<1>2. call' = [call EXCEPT ![c] = Moved(call[c], pc)]
  BY DEF Goto
<1>3. call'[c] = Moved(call[c], pc)
  BY <1>2 DEF TypeOK
<1>4. \A d \in Calls \ {c} : call'[d] = call[d]
  BY <1>2 DEF TypeOK
<1> QED
  BY <1>1, <1>3, <1>4

\* The blocks of a call that works, up to its last write.
LEMMA WorkKeepsLease ==
  ASSUME TypeOK, LeaseKept, Untroubled, NEW c \in Calls,
         \/ Marks(c) \/ Creates(c) \/ Attaches(c) \/ CoverRefused(c)
         \/ OpensProtection(c) \/ Links(c) \/ FindsHedge(c) \/ ClosesHedge(c)
         \/ RemovesRow(c)
  PROVE  LeaseKept'
<1> SUFFICES /\ call[c].pc \in Working
             /\ \A d \in Calls \ {c} : call'[d] = call[d]
             /\ call'[c].pc \in Working /\ call'[c].threw = call[c].threw
             /\ op' = op \/ op' = [op EXCEPT !.status = "committing"]
  BY WorkGoesOn
<1> USE DEF TypeOK, CallStates, Working, At
<1>0. ASSUME NEW pc \in Working, Goto(c, pc)
      PROVE  /\ \A d \in Calls \ {c} : call'[d] = call[d]
             /\ call'[c].pc = pc /\ call'[c].threw = call[c].threw
  BY <1>0 DEF Goto, Moved
<1>1. CASE Marks(c)
  BY <1>1 DEF Marks, Marked
<1>2. CASE Creates(c)
  BY <1>2 DEF Creates, Created
<1>3. CASE Attaches(c) \/ CoverRefused(c)
  BY <1>3, <1>0 DEF Attaches, CoverRefused, rows
<1>4. CASE OpensProtection(c)
  BY <1>4, <1>0 DEF OpensProtection, Opened
<1>5. CASE Links(c)
  BY <1>5, <1>0 DEF Links, Linked, rows
<1>6. CASE FindsHedge(c)
  BY <1>6, <1>0 DEF FindsHedge, rows
<1>7. CASE ClosesHedge(c)
  BY <1>7, <1>0 DEF ClosesHedge, Deactivated
<1>8. CASE RemovesRow(c)
  BY <1>8 DEF RemovesRow, Removed
<1> QED
  BY <1>1, <1>2, <1>3, <1>4, <1>5, <1>6, <1>7, <1>8

\* The blocks before the claim and after the last write.
LEMMA StepKeepsLease ==
  ASSUME TypeOK, LeaseKept, Untroubled, NEW c \in Calls, Step(c)
  PROVE  LeaseKept'
<1> USE CreationAssumption DEF TypeOK
<1>a. /\ \A pc \in {"reopen", "read", "claim", "reread", "release", "confirm",
                   "reconcile", "leave", "over"} : pc \notin Working
      /\ {"mark", "finish"} \subseteq Working
  BY DEF Working
<1>b. /\ ~call[c].threw /\ ~At(c, "reconcile")
      /\ c \in Claims => call[c].pc \notin {"reopen", "claim", "reread"}
  BY DEF LeaseKept
<1>c. Answered(c) = IF c \in Claims THEN "confirm" ELSE "over"
  BY DEF Answered
<1>d. At(c, "finish") => \A d \in Calls \ {c} : ~Holding(d)
  BY <1>a DEF LeaseKept, Holding, At
<1>1. CASE Reopens(c)
  <2>0. c \notin Claims
    BY <1>1, <1>b DEF Reopens, At
  <2>1. CASE op.status = "compensated"
    <3>1. Goto(c, "read")
      BY <1>1, <2>1 DEF Reopens
    <3>2. Kept(c)'
      BY <2>0, <3>1, <1>a, <1>b, Moves DEF Kept, Holding, At
    <3>3. \A d \in Calls : ~Holding(d)
      BY <2>1 DEF Ended, LeaseKept
    <3> QED
      BY <3>1, <3>2, <3>3, Moves, OneMoves
  <2>2. CASE op.status # "compensated"
    BY <1>1, <2>2, <1>a, <1>b, Moves, StandsBy DEF Reopens, rows
  <2> QED
    BY <2>1, <2>2
<1>2. CASE Reads(c)
  <2>1. CASE c \in Claims
    <3>1. op.claim = c /\ op.live /\ op.status \notin Ended
      BY <1>2, <2>1 DEF Reads, LeaseKept, Holding
    <3>2. Goto(c, "mark") /\ op' = op
      BY <1>2, <2>1, <3>1 DEF Reads, rows, Ended
    <3>3. Kept(c)'
      BY <3>1, <3>2, <1>a, <1>b, Moves DEF Kept, Holding, At
    <3> QED
      BY <3>2, <3>3, Moves, OneMoves DEF LeaseKept
  <2>2. CASE c \notin Claims
    <3>1. op' = op /\ (Goto(c, "over") \/ Goto(c, "claim"))
      BY <1>2, <2>2, <1>c DEF Reads, rows
    <3> QED
      BY <2>2, <3>1, <1>a, <1>b, Moves, StandsBy
  <2> QED
    BY <2>1, <2>2
<1>3. CASE Claimed(c)
  <2>0. c \notin Claims
    BY <1>3, <1>b DEF Claimed, At
  <2>1. CASE Claimable
    <3>1. Taken(c) /\ Goto(c, "mark")
      BY <1>3, <2>1 DEF Claimed
    <3>2. op'.claim = c /\ op'.live /\ op'.status \notin Ended
      BY <3>1, <2>1 DEF Taken, Claimable, Operations
    <3>3. Kept(c)'
      BY <2>0, <3>1, <3>2, <1>a, <1>b, Moves DEF Kept, Holding, At
    <3>4. \A d \in Calls : ~Holding(d)
      BY <2>1 DEF Claimable, Held, LeaseKept
    <3> QED
      BY <3>1, <3>3, <3>4, Moves, OneMoves
  <2>2. CASE ~Claimable
    BY <2>0, <1>3, <2>2, <1>a, <1>b, Moves, StandsBy DEF Claimed, rows
  <2> QED
    BY <2>1, <2>2
<1>4. CASE Rereads(c)
  <2>1. c \notin Claims
    BY <1>4, <1>b DEF Rereads, At
  <2>2. op' = op /\ Goto(c, "over")
    BY <1>4, <2>1, <1>c DEF Rereads, Thrown, rows
  <2> QED
    BY <2>1, <2>2, <1>a, <1>b, Moves, StandsBy
<1>5. CASE Finishes(c)
  <2>1. Goto(c, "release")
    BY <1>5 DEF Finishes
  <2>2. Kept(c)'
    BY <2>1, <1>a, <1>b, Moves DEF Kept, Holding, At
  <2> QED
    BY <1>5, <1>d, <2>1, <2>2, Moves, OneMoves DEF Finishes
<1>6. CASE Releases(c) \/ Leaves(c)
  <2>1. Released(c) /\ (Goto(c, "confirm") \/ Goto(c, "over"))
    BY <1>6, <1>b, <1>c DEF Releases, Leaves
  <2>2. Kept(c)'
    BY <2>1, <1>a, <1>b, Moves DEF Kept, Holding, At
  <2>3. \A d \in Calls \ {c} : Holding(d) =>
          op'.claim = d /\ op'.live /\ op'.status \notin Ended
    BY <2>1 DEF Released, LeaseKept
  <2> QED
    BY <2>1, <2>2, <2>3, Moves, OneMoves
<1>7. CASE Confirms(c)
  BY <1>7, <1>a, <1>b, Moves, StandsBy DEF Confirms, rows
<1>8. CASE Reconciles(c)
  BY <1>8, <1>b DEF Reconciles
<1> QED
  BY <1>1, <1>2, <1>3, <1>4, <1>5, <1>6, <1>7, <1>8, WorkKeepsLease DEF Step

-----------------------------------------------------------------------------

LEMMA LeaseInit == Init => LeaseKept
  BY DEF Init, LeaseKept, Holding, At, Working, Fresh

LEMMA LeaseStep == IInv /\ [Next]_vars => LeaseKept'
<1> SUFFICES ASSUME TypeOK, LeaseKept, [Next]_vars, troubles' = 0
             PROVE  LeaseKept'
  BY DEF IInv, LeaseKept, Untroubled
<1> USE CreationAssumption
<1>a. /\ \A pc \in {"idle", "over", "read", "reopen"} : pc \notin Working
      /\ \A c \in Calls : ~call[c].threw \/ ~Untroubled
  BY DEF Working, LeaseKept
<1>1. ASSUME NEW c \in Calls, CommitAsked(c) PROVE LeaseKept'
  <2>1. Untroubled /\ op' = op /\ Goto(c, "read") /\ c \notin Claims
    BY <1>1 DEF CommitAsked, rows, bounds, Untroubled
  <2> QED
    BY <2>1, <1>a, Moves, StandsBy
<1>2. ASSUME NEW c \in Calls, RetryAsked(c) PROVE LeaseKept'
  <2>1. Untroubled /\ op' = op /\ Goto(c, "reopen") /\ c \notin Claims
    BY <1>2 DEF RetryAsked, rows, bounds, Untroubled
  <2> QED
    BY <2>1, <1>a, Moves, StandsBy
<1>3. ASSUME NEW c \in Calls, WorkerClaims(c) PROVE LeaseKept'
  <2>1. Untroubled /\ Goto(c, "read") /\ c \in Claims /\ Taken(c) /\ Resumable
    BY <1>3 DEF WorkerClaims, bounds, Untroubled
  <2>2. op'.claim = c /\ op'.live /\ op'.status \notin Ended
    BY <2>1 DEF Taken, Resumable, TypeOK, Operations, Ended
  <2>3. \A d \in Calls : ~Holding(d)
    BY <2>1 DEF Resumable, Held, LeaseKept
  <2>4. Kept(c)'
    BY <2>1, <2>2, <1>a, Moves DEF Kept, Holding, At
  <2> QED
    BY <2>1, <2>3, <2>4, Moves, OneMoves
<1>4. ASSUME NEW c \in Calls, Renews(c) PROVE LeaseKept'
  BY <1>4 DEF Renews, bounds, Untroubled, LeaseKept, Holding, At, TypeOK, Operations
<1>5. CASE LeaseLapses
  <2>1. ~Busy(op.claim) /\ Untroubled /\ call' = call
    BY <1>5 DEF LeaseLapses, TypeOK, Untroubled
  <2>2. \A d \in Calls : ~Holding(d)
    BY <2>1 DEF LeaseKept, Holding, Busy, At, Working
  <2> QED
    BY <2>1, <2>2 DEF LeaseKept, Holding, At
<1>6. CASE Expires
  <2>1. Untroubled /\ call' = call /\ \A d \in Calls : ~Holding(d)
    BY <1>6 DEF Expires, Held, bounds, Untroubled, LeaseKept
  <2> QED
    BY <2>1 DEF LeaseKept, Holding, At
<1>7. CASE DeactivationEnds
  BY <1>7 DEF DeactivationEnds, bounds, Untroubled, LeaseKept, Holding, At
<1>8. ASSUME NEW p \in Procs, Crash(p) PROVE LeaseKept'
  <2>1. Untroubled /\ op' = op
    BY <1>8 DEF Crash, rows, Untroubled
  <2>2. \A c \in Calls : call'[c] = call[c] \/ call'[c] = Fresh("over")
    BY <1>8 DEF Crash, TypeOK
  <2> QED
    BY <2>1, <2>2, <1>a DEF LeaseKept, Holding, At, Fresh
<1>9. ASSUME NEW c \in Calls, Step(c) PROVE LeaseKept'
  <2>1. Untroubled
    BY <1>9 DEF Step, bounds, Untroubled, Reopens, Reads, Claimed, Rereads,
       Marks, Creates, Attaches, CoverRefused, OpensProtection, Links,
       FindsHedge, ClosesHedge, RemovesRow, Finishes, Releases, Confirms,
       Reconciles, Leaves
  <2> QED
    BY <1>9, <2>1, StepKeepsLease
<1>10. ASSUME NEW c \in Calls, DatabaseFails(c) PROVE FALSE
  BY <1>10 DEF DatabaseFails, TypeOK
<1>11. CASE UNCHANGED vars
  BY <1>11 DEF vars, LeaseKept, Untroubled, Holding, At
<1> QED
  BY <1>1, <1>2, <1>3, <1>4, <1>5, <1>6, <1>7, <1>8, <1>9, <1>10, <1>11
  DEF Next

\* The rows and calls keep their types, and the lease of a call that works is
\* its own, for any number of requests, workers, processes, crashes.
THEOREM IInvHolds == Spec => []IInv
<1>1. Init => IInv
  BY TypeInit, LeaseInit DEF IInv
<1>2. IInv /\ [Next]_vars => IInv'
  BY TypeStep, LeaseStep DEF IInv
<1> QED
  BY <1>1, <1>2, PTL DEF Spec

\* The lease of a call that works is its own until it gives it up.
THEOREM LeaseIsKept == Spec => []LeaseKept
<1>1. IInv => LeaseKept
  BY DEF IInv
<1> QED
  BY <1>1, IInvHolds, PTL

\* No two calls carry out the same intention at the same time.
THEOREM OneCommit == Spec => []OneCommitAtATime
<1>1. LeaseKept => OneCommitAtATime
  BY DEF LeaseKept, OneCommitAtATime, Holding
<1> QED
  BY <1>1, LeaseIsKept, PTL

\* No call is at a write that ends or reopens an operation that is done.
LEMMA StepKeepsDone ==
  ASSUME IInv, Next, troubles' = 0, op.status = "done"
  PROVE  op'.status = "done"
<1>1. ASSUME NEW c \in Calls, DatabaseFails(c) PROVE FALSE
  BY <1>1 DEF DatabaseFails, IInv, TypeOK
<1>2. ASSUME NEW c \in Calls, Step(c) PROVE op'.status = "done"
  <2>1. Untroubled
    BY <1>2 DEF Step, bounds, Untroubled, Reopens, Reads, Claimed, Rereads,
       Marks, Creates, Attaches, CoverRefused, OpensProtection, Links,
       FindsHedge, ClosesHedge, RemovesRow, Finishes, Releases, Confirms,
       Reconciles, Leaves
  <2>2. call[c].pc \notin Working /\ ~At(c, "reconcile")
    BY <2>1 DEF IInv, LeaseKept, Holding, Ended
  <2>3. \/ Reopens(c) \/ Reads(c) \/ Claimed(c) \/ Rereads(c)
        \/ Releases(c) \/ Confirms(c) \/ Leaves(c)
    BY <1>2, <2>2 DEF Step, At, Working, Marks, Creates, Attaches,
       CoverRefused, OpensProtection, Links, FindsHedge, ClosesHedge,
       RemovesRow, Finishes, Reconciles
  <2>4. CASE Releases(c) \/ Leaves(c)
    BY <2>4 DEF Releases, Leaves, Released, IInv, TypeOK, Operations
  <2>5. CASE Reopens(c) \/ Reads(c) \/ Claimed(c) \/ Rereads(c) \/ Confirms(c)
    BY <2>5 DEF Reopens, Reads, Claimed, Claimable, Ended, Rereads, Confirms, rows
  <2> QED
    BY <2>3, <2>4, <2>5
<1>3. ASSUME NEW c \in Calls,
             CommitAsked(c) \/ RetryAsked(c) \/ WorkerClaims(c) \/ Renews(c)
      PROVE  op'.status = "done"
  BY <1>3 DEF CommitAsked, RetryAsked, WorkerClaims, Resumable, Renews, rows,
     IInv, TypeOK, Operations
<1>4. CASE LeaseLapses \/ Expires \/ DeactivationEnds
  BY <1>4 DEF LeaseLapses, Expires, DeactivationEnds, IInv, TypeOK, Operations
<1>5. ASSUME NEW p \in Procs, Crash(p) PROVE op'.status = "done"
  BY <1>5 DEF Crash, rows
<1> QED
  BY <1>1, <1>2, <1>3, <1>4, <1>5 DEF Next

\* A creation that is done stays done.
THEOREM DoneStays == Spec => DoneIsFinal
<1>1. Init => IInv
  BY TypeInit, LeaseInit DEF IInv
<1>2. IInv /\ [Next]_vars => IInv'
  BY TypeStep, LeaseStep DEF IInv
<1>3. IInv /\ [Next]_vars
        => [troubles' = 0 /\ op.status = "done" => op'.status = "done"]_vars
  BY StepKeepsDone
<1> QED
  BY <1>1, <1>2, <1>3, PTL DEF Spec, DoneIsFinal

-----------------------------------------------------------------------------

\* What PiecesMatch says of the rows, and of one call.
RowsMatch ==
    /\ orch.linked => orch.id # 0 /\ (plan.mode = "covered" => prot # "none")
    /\ plan.mode = "standalone" \/ ~plan.lp => orch.id = 0 /\ prot = "none"

PieceOf(c) ==
    /\ call[c].pc \in Building \cup Undoing =>
         plan.mode # "standalone" /\ plan.lp
    /\ call[c].pc \in (Building \cup Undoing) \ {"create"} =>
         orch.id = call[c].mine /\ orch.id # 0 /\ ~orch.linked
    /\ call[c].pc \in Building => call[c].outcome = "completed"
    /\ At(c, "link") /\ plan.mode = "covered" => prot # "none"
    /\ At(c, "undoRow") => prot # "active"
    /\ At(c, "finish") =>
         IF call[c].outcome = "completed"
         THEN plan.mode = "standalone" \/ orch.linked
         ELSE orch.id = 0 /\ prot # "active"

\* Done and compensated mean what they say.
StatusMatches ==
    /\ op.status = "done" => plan.mode = "standalone" \/ orch.linked
    /\ op.status = "compensated" => orch.id = 0 /\ prot # "active"

OInv == IInv /\ PiecesMatch /\ (Untroubled => StatusMatches)

LEMMA PiecesSplit ==
  PiecesMatch <=> (Untroubled => RowsMatch /\ \A c \in Calls : PieceOf(c))
  BY DEF PiecesMatch, RowsMatch, PieceOf

LEMMA OutsideWork ==
  ASSUME NEW c, call[c].pc \notin Working
  PROVE  PieceOf(c)
  BY DEF PieceOf, Building, Undoing, Working, At

\* An action that makes, links or undoes nothing and brings no call further in
\* its work; the monitor may end a deactivation meanwhile.
LEMMA PiecesStay ==
  ASSUME RowsMatch, StatusMatches, \A c \in Calls : PieceOf(c),
         plan' = plan, orch' = orch,
         prot' = prot \/ (prot = "closing" /\ prot' = "inactive"),
         \A c \in Calls : \/ call'[c] = call[c]
                          \/ call'[c].pc \notin Working \/ call'[c].pc = "mark",
         op'.status = op.status \/ op'.status \notin {"done", "compensated"}
  PROVE  RowsMatch' /\ StatusMatches' /\ \A c \in Calls : PieceOf(c)'
<1>1. RowsMatch'
  BY DEF RowsMatch
<1>2. StatusMatches'
  BY DEF StatusMatches
<1>3. ASSUME NEW c \in Calls PROVE PieceOf(c)'
  <2>1. CASE call'[c] = call[c]
    BY <2>1 DEF PieceOf, At
  <2>2. CASE call'[c].pc \notin Working \/ call'[c].pc = "mark"
    BY <2>2 DEF PieceOf, Building, Undoing, Working, At
  <2> QED
    BY <2>1, <2>2
<1> QED
  BY <1>1, <1>2, <1>3

\* A call that works is alone, and its operation has not ended.
LEMMA WorksAlone ==
  ASSUME IInv, Untroubled, NEW c \in Calls, call[c].pc \in Working
  PROVE  /\ \A d \in Calls \ {c} : call[d].pc \notin Working
         /\ op.status \notin Ended
  BY DEF IInv, LeaseKept, Holding

\* So it is enough to look at what it makes of the rows, and at itself.
LEMMA WorkMatches ==
  ASSUME IInv, Untroubled, NEW c \in Calls, call[c].pc \in Working,
         \A d \in Calls \ {c} : call'[d] = call[d],
         PieceOf(c)'
  PROVE  \A d \in Calls : PieceOf(d)'
<1>1. ASSUME NEW d \in Calls \ {c} PROVE PieceOf(d)'
  BY <1>1, WorksAlone DEF PieceOf, Building, Undoing, Working, At
<1> QED
  BY <1>1

LEMMA WorkKeepsPieces ==
  ASSUME IInv, Untroubled, RowsMatch, StatusMatches, NEW c \in Calls, PieceOf(c),
         \/ Marks(c) \/ Creates(c) \/ Attaches(c) \/ CoverRefused(c)
         \/ OpensProtection(c) \/ Links(c) \/ FindsHedge(c) \/ ClosesHedge(c)
         \/ RemovesRow(c) \/ Finishes(c)
  PROVE  RowsMatch' /\ StatusMatches' /\ \A d \in Calls : PieceOf(d)'
<1>0. ASSUME NEW pc, Goto(c, pc), pc # "over"
      PROVE  /\ \A d \in Calls \ {c} : call'[d] = call[d]
             /\ call'[c] = [call[c] EXCEPT !.pc = pc]
  BY <1>0 DEF IInv, TypeOK, Goto, Moved
<1>a. call[c] \in CallStates /\ call \in [Calls -> CallStates]
      /\ orch \in Orchestrators /\ plan \in Plans /\ op \in Operations
  BY DEF IInv, TypeOK
<1>b. call[c].pc \in Working
  BY DEF Marks, Creates, Attaches, CoverRefused, OpensProtection, Links,
     FindsHedge, ClosesHedge, RemovesRow, Finishes, At, Working
<1>c. op.status \notin {"done", "compensated"}
  BY <1>b, WorksAlone DEF Ended
<1> SUFFICES /\ RowsMatch' /\ StatusMatches' /\ PieceOf(c)'
             /\ \A d \in Calls \ {c} : call'[d] = call[d]
  BY <1>b, WorkMatches
<1> USE DEF Building, Undoing, At
<1>1. CASE Marks(c)
  <2>1. /\ UNCHANGED <<plan, orch, prot>> /\ op'.status = "committing"
        /\ \A d \in Calls \ {c} : call'[d] = call[d]
        /\ call'[c] = [call[c] EXCEPT
             !.pc = IF plan.mode # "standalone" /\ plan.lp THEN "create"
                    ELSE "finish",
             !.outcome = IF plan.mode = "standalone" \/ plan.lp THEN "completed"
                         ELSE "compensated"]
    BY <1>1, <1>a DEF Marks, Marked, Operations
  <2> QED
    BY <2>1, <1>a DEF RowsMatch, StatusMatches, PieceOf, CallStates, Plans
<1>2. CASE Creates(c)
  <2>1. /\ UNCHANGED <<plan, op, prot>> /\ Created
        /\ plan.mode # "standalone" /\ plan.lp
        /\ \A d \in Calls \ {c} : call'[d] = call[d]
        /\ call'[c] = [call[c] EXCEPT !.mine = orch'.id,
                        !.pc = IF orch'.linked THEN "finish" ELSE "attach"]
    BY <1>2, <1>a DEF Creates, Created, PieceOf
  <2>2. /\ orch'.id # 0 /\ orch'.linked \in BOOLEAN
        /\ orch'.linked => orch.linked
    <3>1. CASE orch.id = 0
      <4>1. orch.made \in Nat
        BY <1>a DEF Orchestrators
      <4>2. orch' = [id |-> orch.made + 1, linked |-> FALSE, made |-> orch.made + 1]
        BY <2>1, <3>1 DEF Created
      <4> QED
        BY <4>1, <4>2
    <3>2. CASE orch.id # 0
      BY <2>1, <3>2, <1>a DEF Created, Orchestrators
    <3> QED
      BY <3>1, <3>2
  <2>3. call[c].outcome = "completed"
    BY <1>2 DEF PieceOf, Creates
  <2> QED
    BY <2>1, <2>2, <2>3, <1>a, <1>c DEF RowsMatch, StatusMatches, PieceOf, CallStates
<1>3. CASE Attaches(c) \/ CoverRefused(c)
  <2>1. /\ UNCHANGED <<plan, op, orch, prot>>
        /\ \E pc \in {"undoHedge", "link", "open"} :
             /\ Goto(c, pc)
             /\ pc = "link" => plan.mode = "bare" \/ Covering
    BY <1>3 DEF Attaches, CoverRefused, rows
  <2>2. PICK pc \in {"undoHedge", "link", "open"} :
             /\ call'[c] = [call[c] EXCEPT !.pc = pc]
             /\ \A d \in Calls \ {c} : call'[d] = call[d]
             /\ pc = "link" => plan.mode = "bare" \/ Covering
    BY <2>1, <1>0
  <2>3. call[c].pc = "attach"
    BY <1>3 DEF Attaches, CoverRefused
  <2> QED
    BY <2>1, <2>2, <2>3, <1>a, <1>c
    DEF RowsMatch, StatusMatches, PieceOf, CallStates, Covering
<1>4. CASE OpensProtection(c)
  <2>1. /\ UNCHANGED <<plan, op, orch>> /\ prot' # "none"
        /\ call[c].pc = "open" /\ call'[c] = [call[c] EXCEPT !.pc = "link"]
        /\ \A d \in Calls \ {c} : call'[d] = call[d]
    BY <1>4, <1>0 DEF OpensProtection, Opened
  <2> QED
    BY <2>1, <1>a, <1>c DEF RowsMatch, StatusMatches, PieceOf, CallStates
<1>5. CASE Links(c)
  <2>1. /\ UNCHANGED <<plan, op, prot>> /\ call[c].pc = "link"
        /\ orch' = [orch EXCEPT !.linked = TRUE]
        /\ call'[c] = [call[c] EXCEPT !.pc = "finish"]
        /\ \A d \in Calls \ {c} : call'[d] = call[d]
    BY <1>5, <1>0 DEF Links, Linked, PieceOf
  <2> QED
    BY <2>1, <1>a, <1>c DEF RowsMatch, StatusMatches, PieceOf, CallStates,
       Orchestrators
<1>6. CASE FindsHedge(c)
  <2>1. /\ UNCHANGED <<plan, op, orch, prot>> /\ call[c].pc = "undoHedge"
        /\ \E pc \in {"closeHedge", "undoRow"} :
             /\ call'[c] = [call[c] EXCEPT !.pc = pc]
             /\ pc = "undoRow" => ~Covering
        /\ \A d \in Calls \ {c} : call'[d] = call[d]
    BY <1>6, <1>0 DEF FindsHedge, PieceOf, rows
  <2> QED
    BY <2>1, <1>a, <1>c DEF RowsMatch, StatusMatches, PieceOf, CallStates, Covering
<1>7. CASE ClosesHedge(c)
  <2>1. /\ UNCHANGED <<plan, op, orch>> /\ prot' # "active"
        /\ (prot # "none" => prot' # "none")
        /\ call[c].pc = "closeHedge" /\ call'[c] = [call[c] EXCEPT !.pc = "undoRow"]
        /\ \A d \in Calls \ {c} : call'[d] = call[d]
    BY <1>7, <1>0 DEF ClosesHedge, Deactivated, Covering
  <2> QED
    BY <2>1, <1>a, <1>c DEF RowsMatch, StatusMatches, PieceOf, CallStates
<1>8. CASE RemovesRow(c)
  <2>1. /\ UNCHANGED <<plan, op, prot>> /\ call[c].pc = "undoRow"
        /\ orch' = [orch EXCEPT !.id = 0]
        /\ call'[c] = [call[c] EXCEPT !.pc = "finish", !.outcome = "compensated"]
        /\ \A d \in Calls \ {c} : call'[d] = call[d]
    BY <1>8, <1>a DEF RemovesRow, Removed, PieceOf
  <2> QED
    BY <2>1, <1>a, <1>c DEF RowsMatch, StatusMatches, PieceOf, CallStates,
       Orchestrators
<1>9. CASE Finishes(c)
  <2>1. /\ UNCHANGED <<plan, orch, prot>> /\ call[c].pc = "finish"
        /\ op'.status = StatusOf(c)
        /\ call'[c] = [call[c] EXCEPT !.pc = "release"]
        /\ \A d \in Calls \ {c} : call'[d] = call[d]
    BY <1>9, <1>0 DEF Finishes, Final
  <2> QED
    BY <2>1, <1>a DEF RowsMatch, StatusMatches, PieceOf, CallStates, StatusOf
<1> QED
  BY <1>1, <1>2, <1>3, <1>4, <1>5, <1>6, <1>7, <1>8, <1>9

LEMMA PiecesInit == Init => PiecesMatch /\ (Untroubled => StatusMatches)
  BY DEF Init, PiecesMatch, StatusMatches, Plans, Building, Undoing, At, Fresh

LEMMA PiecesStep ==
  OInv /\ IInv' /\ [Next]_vars => PiecesMatch' /\ (Untroubled => StatusMatches)'
<1> SUFFICES ASSUME OInv, IInv', [Next]_vars, troubles' = 0
             PROVE  RowsMatch' /\ StatusMatches' /\ \A c \in Calls : PieceOf(c)'
  <2>1. (RowsMatch /\ \A c \in Calls : PieceOf(c))' => PiecesMatch'
    BY DEF PiecesMatch, RowsMatch, PieceOf
  <2> QED
    BY <2>1 DEF Untroubled, PiecesMatch, StatusMatches
<1> DEFINE Match == RowsMatch /\ StatusMatches /\ \A c \in Calls : PieceOf(c)
           Stays == /\ plan' = plan /\ orch' = orch
                    /\ prot' = prot \/ (prot = "closing" /\ prot' = "inactive")
                    /\ \A c \in Calls :
                         \/ call'[c] = call[c]
                         \/ call'[c].pc \notin Working \/ call'[c].pc = "mark"
                    /\ \/ op'.status = op.status
                       \/ op'.status \notin {"done", "compensated"}
<1>0. ASSUME Untroubled PROVE Match
  BY <1>0, PiecesSplit DEF OInv
<1>s. ASSUME Untroubled, Stays PROVE Match'
  BY <1>0, <1>s, PiecesStay
<1>t. TypeOK /\ op \in Operations
  BY DEF OInv, IInv, TypeOK
<1>g. ASSUME NEW c \in Calls, NEW pc, Goto(c, pc),
             pc \notin Working \/ pc = "mark"
      PROVE  \A d \in Calls : \/ call'[d] = call[d]
                              \/ call'[d].pc \notin Working \/ call'[d].pc = "mark"
  BY <1>g, <1>t, Moves
<1>p. {"over", "read", "reopen", "claim", "reread", "release", "confirm",
       "reconcile", "leave"} \cap Working = {}
  BY DEF Working
<1>1. ASSUME NEW c \in Calls, CommitAsked(c) PROVE Match'
  <2>1. Untroubled /\ Stays
    BY <1>1, <1>g, <1>p DEF CommitAsked, rows, bounds, Untroubled
  <2> QED BY <2>1, <1>s
<1>2. ASSUME NEW c \in Calls, RetryAsked(c) PROVE Match'
  <2>1. Untroubled /\ Stays
    BY <1>2, <1>g, <1>p DEF RetryAsked, rows, bounds, Untroubled
  <2> QED BY <2>1, <1>s
<1>3. ASSUME NEW c \in Calls, WorkerClaims(c) PROVE Match'
  <2>1. Untroubled /\ Stays
    BY <1>3, <1>g, <1>p, <1>t DEF WorkerClaims, Taken, bounds, Untroubled, Operations
  <2> QED BY <2>1, <1>s
<1>4. ASSUME NEW c \in Calls, Renews(c) PROVE Match'
  <2>1. Untroubled /\ Stays
    BY <1>4, <1>t DEF Renews, bounds, Untroubled, Operations
  <2> QED BY <2>1, <1>s
<1>5. CASE LeaseLapses \/ Expires \/ DeactivationEnds
  <2>1. Untroubled
    BY <1>5, <1>t DEF LeaseLapses, Expires, DeactivationEnds, bounds, Untroubled, TypeOK
  <2>2. Stays
    BY <1>5, <1>t DEF LeaseLapses, Expires, DeactivationEnds, Operations
  <2> QED BY <2>1, <2>2, <1>s
<1>6. ASSUME NEW p \in Procs, Crash(p) PROVE Match'
  <2>1. \A c \in Calls : call'[c] = call[c] \/ call'[c].pc = "over"
    BY <1>6, <1>t DEF Crash, TypeOK, Fresh
  <2>2. Untroubled /\ Stays
    BY <1>6, <2>1, <1>p DEF Crash, rows, Untroubled
  <2> QED BY <2>2, <1>s
<1>7. ASSUME NEW c \in Calls, Step(c) PROVE Match'
  <2>1. Untroubled
    BY <1>7 DEF Step, bounds, Untroubled, Reopens, Reads, Claimed, Rereads,
       Marks, Creates, Attaches, CoverRefused, OpensProtection, Links,
       FindsHedge, ClosesHedge, RemovesRow, Finishes, Releases, Confirms,
       Reconciles, Leaves
  <2>2. CASE \/ Marks(c) \/ Creates(c) \/ Attaches(c) \/ CoverRefused(c)
             \/ OpensProtection(c) \/ Links(c) \/ FindsHedge(c)
             \/ ClosesHedge(c) \/ RemovesRow(c) \/ Finishes(c)
    BY <2>1, <2>2, <1>0, WorkKeepsPieces DEF OInv
  <2>3. CASE Reads(c) \/ Rereads(c) \/ Confirms(c)
    <3>1. Stays
      BY <2>3, <1>g, <1>p DEF Reads, Rereads, Confirms, rows, Answered, Thrown
    <3> QED BY <2>1, <3>1, <1>s
  <2>4. CASE Reopens(c) \/ Claimed(c)
    <3>1. Stays
      BY <2>4, <1>g, <1>p, <1>t
      DEF Reopens, Reopened, Claimed, Taken, rows, Operations
    <3> QED BY <2>1, <3>1, <1>s
  <2>5. CASE Releases(c) \/ Leaves(c)
    <3>1. Stays
      BY <2>5, <1>g, <1>p, <1>t
      DEF Releases, Leaves, Released, Operations, Answered, Thrown
    <3> QED BY <2>1, <3>1, <1>s
  <2>6. CASE Reconciles(c)
    <3>1. Stays
      BY <2>6, <1>g, <1>p DEF Reconciles, Final
    <3> QED BY <2>1, <3>1, <1>s
  <2> QED
    BY <1>7, <2>2, <2>3, <2>4, <2>5, <2>6 DEF Step
<1>8. ASSUME NEW c \in Calls, DatabaseFails(c) PROVE FALSE
  BY <1>8, <1>t DEF DatabaseFails, TypeOK
<1>9. CASE UNCHANGED vars
  <2>1. Untroubled /\ Stays
    BY <1>9 DEF vars, Untroubled
  <2> QED BY <2>1, <1>s
<1> QED
  BY <1>1, <1>2, <1>3, <1>4, <1>5, <1>6, <1>7, <1>8, <1>9 DEF Next

\* All or nothing: what the operation is said to be is what there is, whatever
\* processes stop and whoever resumes or retries.
THEOREM OutcomeHolds == Spec => []OutcomeIsTrue
<1>1. Init => OInv
  BY TypeInit, LeaseInit, PiecesInit DEF OInv, IInv
<1>2. OInv /\ [Next]_vars => OInv'
  BY TypeStep, LeaseStep, PiecesStep DEF OInv, IInv
<1>3. OInv => OutcomeIsTrue
  BY DEF OInv, StatusMatches, PiecesMatch, OutcomeIsTrue
<1> QED
  BY <1>1, <1>2, <1>3, PTL DEF Spec

\* The pieces agree with the step of the call that works on them.
THEOREM PiecesHold == Spec => []PiecesMatch
<1>1. Init => OInv
  BY TypeInit, LeaseInit, PiecesInit DEF OInv, IInv
<1>2. OInv /\ [Next]_vars => OInv'
  BY TypeStep, LeaseStep, PiecesStep DEF OInv, IInv
<1>3. OInv => PiecesMatch
  BY DEF OInv
<1> QED
  BY <1>1, <1>2, <1>3, PTL DEF Spec
=============================================================================
