---------------------------- MODULE ApprovalGate ----------------------------
(***************************************************************************)
(* `idemra approve', `idemra reject' and `idemra sweep': the people who    *)
(* decide, and the cron job that gives up on them, over the same approval  *)
(* rows.                                                                   *)
(***************************************************************************)
EXTENDS Session, SequencesExt

CONSTANTS Approvers, Rejecters, Sweepers

ASSUME GateAssumption ==
  /\ Approvers \cup Rejecters \cup Sweepers \subseteq Procs
  /\ Approvers \cap Rejecters = {} /\ Approvers \cap Sweepers = {}
  /\ Rejecters \cap Sweepers = {}

VARIABLES overdue,  \* runs whose approval is past expires_at
          expiring  \* the approvals a sweep has selected and not yet written

gateVars == <<overdue, expiring>>

GateInit ==
  /\ overdue = {}
  /\ expiring = [p \in Sweepers |-> <<>>]

\* The TTL of a requested approval runs out.
Lapse(r) ==
  /\ approvals[r] # Absent /\ r \notin overdue
  /\ overdue' = overdue \cup {r}
  /\ UNCHANGED <<storeVars, sessionVars, expiring>>

-----------------------------------------------------------------------------
(* approve and reject: record_approval_decision. *)

Decision(p) == IF p \in Approvers THEN "approved" ELSE "rejected"

\* Faulty variant: a rejection has a key of its own.
DecisionKeyPerAnswer(decision) ==
  IF decision = "approved" THEN "approval:decision" ELSE "fail"

\* One key whatever the decision: the second of two decisions clashes.
DecisionKey(decision) == "approval:decision"

\* The approval is read; it is pending.  Every other answer of the reads (no
\* run, no approval, the same decision, another one) ends the command with
\* nothing written.  expires_at is not looked at.
ReadApproval(p) ==
  \E r \in Runs :
    /\ approvals[r] = "pending"
    /\ Begin(p, r, "decide")
    /\ UNCHANGED <<queue, faults, storeVars, gateVars>>

\* Faulty variant: the run is moved, the approval row forgotten.
RecordDecisionOnRunOnly(p) ==
  /\ Goto(p, "decide", IF p \in Approvers THEN "mark_queued" ELSE "commit")
  /\ WriteStatusEvent(p, target[p], Decision(p), DecisionKey(Decision(p)))
  /\ UNCHANGED <<dirtyApprovals, gateVars>>

\* The status checked when it was read is not checked again.  The approval and then
\* the run are flushed, and the event is inserted, once both rows are free.
RecordDecision(p) ==
  /\ Goto(p, "decide", IF p \in Approvers THEN "mark_queued" ELSE "commit")
  /\ WriteStatusEvent(p, target[p], Decision(p), DecisionKey(Decision(p)))
  /\ SetApproval(p, target[p], Decision(p))
  /\ UNCHANGED gateVars

\* Another decision was committed since: IntegrityError, ApprovalConflict.
ConflictingDecision(p) ==
  /\ pc[p] = "decide"
  /\ RunRowFree(p, target[p])
  /\ ApprovalRowFree(p, target[p])
  /\ KeyUsed(p, target[p], DecisionKey(Decision(p)))
  /\ AbortSession(p)
  /\ UNCHANGED <<queue, faults, gateVars>>

\* mark_queued_for_apply of an approved run; enqueue_apply comes next.
QueueApproved(p) ==
  /\ Goto(p, "mark_queued", "enqueue")
  /\ WriteStatusEvent(p, target[p], "queued", "queued-for-apply")
  /\ UNCHANGED <<dirtyApprovals, gateVars>>

DecideStep(p) ==
  \/ RecordDecision(p) \/ ConflictingDecision(p) \/ QueueApproved(p)
  \/ (EnqueueApply(p) \/ CommitSession(p)) /\ UNCHANGED gateVars

-----------------------------------------------------------------------------
(* sweep: expire_stale_approvals. *)

Due == {r \in Runs : approvals[r] = "pending" /\ r \in overdue}

\* One SELECT, with no ORDER BY: the rows come in any order.
SelectOverdue(p) ==
  /\ Due # {}
  /\ \E rows \in SetToSeqs(Due) :
       /\ Begin(p, Head(rows), "expire")
       /\ expiring' = [expiring EXCEPT ![p] = rows]
  /\ UNCHANGED <<queue, faults, storeVars, overdue>>

\* Faulty variant: the sweep moves runs only.
ExpireNothing(p) == Goto(p, "expire", "mark_stale") /\ UNCHANGED <<storeVars, gateVars>>

\* The approval is flushed when its run is read.
ExpireApproval(p) ==
  /\ Goto(p, "expire", "mark_stale")
  /\ SetApproval(p, target[p], "expired")
  /\ UNCHANGED <<committed, dirtyRuns, dirtyEvents, gateVars>>

\* Faulty variant: the loop does not go on.
MarkStaleAgain(p) ==
  /\ Goto(p, "mark_stale", "expire")
  /\ WriteStatusEvent(p, target[p], "stale", "approval:expired")
  /\ UNCHANGED <<dirtyApprovals, gateVars>>

\* The run becomes stale, and the loop goes on to the next row.
MarkStale(p) ==
  LET rest == Tail(expiring[p])
  IN  /\ pc[p] = "mark_stale"
      /\ WriteStatusEvent(p, target[p], "stale", "approval:expired")
      /\ expiring' = [expiring EXCEPT ![p] = rest]
      /\ IF rest = <<>>
         THEN pc' = [pc EXCEPT ![p] = "commit"] /\ UNCHANGED target
         ELSE /\ pc' = [pc EXCEPT ![p] = "expire"]
              /\ target' = [target EXCEPT ![p] = Head(rest)]
      /\ UNCHANGED <<dirtyApprovals, queue, faults, overdue>>

\* Faulty variant: the conflict is swallowed and the row tried again.
ConflictingSweepRetries(p) ==
  /\ pc[p] = "mark_stale"
  /\ KeyUsed(p, target[p], "approval:expired")
  /\ UNCHANGED <<storeVars, sessionVars, gateVars>>

\* Another sweep has expired it: IntegrityError, uncaught, and the rest of
\* this sweep is rolled back with it.
ConflictingSweep(p) ==
  /\ pc[p] = "mark_stale"
  /\ RunRowFree(p, target[p])
  /\ KeyUsed(p, target[p], "approval:expired")
  /\ AbortSession(p)
  /\ expiring' = [expiring EXCEPT ![p] = <<>>]
  /\ UNCHANGED <<queue, faults, overdue>>

SweepStep(p) ==
  \/ ExpireApproval(p) \/ MarkStale(p) \/ ConflictingSweep(p)
  \/ CommitSession(p) /\ UNCHANGED gateVars

-----------------------------------------------------------------------------
(***************************************************************************)
(* Deadlock.  A flush writes approvals before runs (the ORM orders its     *)
(* mappers by name), so a decision locks the two rows of a run in the      *)
(* order a sweep does.  But two sweeps may take the same approvals in      *)
(* different orders, and each keeps what it has.  Postgres aborts one      *)
(* process of a cycle.                                                     *)
(***************************************************************************)
WaitsFor(p, q) == p # q /\ pc[p] = "expire" /\ OwnsApproval(q, target[p])

InDeadlock(p) ==
  \E cycle \in SUBSET Sweepers :
    /\ p \in cycle
    /\ \A q \in cycle : /\ \E w \in cycle : WaitsFor(q, w)
                        /\ \E w \in cycle : WaitsFor(w, q)

BreakDeadlock(p) ==
  /\ InDeadlock(p)
  /\ AbortSession(p)
  /\ expiring' = [expiring EXCEPT ![p] = <<>>]
  /\ UNCHANGED <<queue, faults, overdue>>

GateFault(p) ==
  /\ Fault(p)
  /\ expiring' = [q \in Sweepers |-> IF q = p THEN <<>> ELSE expiring[q]]
  /\ UNCHANGED <<queue, overdue>>
=============================================================================
