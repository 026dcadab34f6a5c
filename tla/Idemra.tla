------------------------------- MODULE Idemra -------------------------------
(***************************************************************************)
(* The life of a run across all its processes: `idemra run', `approve',    *)
(* `reject', `sweep' and the workers, over one event store, one apply      *)
(* queue and one repository.                                               *)
(***************************************************************************)
EXTENDS RunCommand, ApprovalGate, ApplyWorker

ASSUME RolesAssumption ==
  /\ Procs = Runners \cup Approvers \cup Rejecters \cup Sweepers \cup Workers
  /\ Runners \cap (Approvers \cup Rejecters \cup Sweepers \cup Workers) = {}
  /\ Workers \cap (Approvers \cup Rejecters \cup Sweepers) = {}

vars == <<storeVars, sessionVars, issued, gateVars, workerVars>>

Init == StoreInit /\ SessionInit /\ RunCommandInit /\ GateInit /\ WorkerInit

-----------------------------------------------------------------------------
RunnerNext(p) ==
  /\ CreateRun(p) \/ RunStep(p) \/ UncaughtError(p) \/ RunFault(p)
  /\ UNCHANGED <<gateVars, workerVars>>

DeciderNext(p) ==
  /\ ReadApproval(p) \/ DecideStep(p) \/ GateFault(p)
  /\ UNCHANGED <<issued, workerVars>>

SweeperNext(p) ==
  /\ SelectOverdue(p) \/ SweepStep(p) \/ BreakDeadlock(p) \/ GateFault(p)
  /\ UNCHANGED <<issued, workerVars>>

WorkerNext(w) ==
  /\ TakeJob(w) \/ WorkerStep(w) \/ UncaughtJobError(w) \/ WorkerFault(w)
  /\ UNCHANGED <<issued, gateVars>>

OperatorNext == \E r \in Runs : RequeueJob(r) /\ UNCHANGED <<issued, gateVars>>

ClockNext == \E r \in Runs : Lapse(r) /\ UNCHANGED <<issued, workerVars>>

Next ==
  \/ \E p \in Runners : RunnerNext(p)
  \/ \E p \in Approvers \cup Rejecters : DeciderNext(p)
  \/ \E p \in Sweepers : SweeperNext(p)
  \/ \E w \in Workers : WorkerNext(w)
  \/ OperatorNext
  \/ ClockNext

Spec == Init /\ [][Next]_vars

-----------------------------------------------------------------------------
(* The stages a process of each role goes through. *)

Creating == {"fetch", "route", "refused", "start", "permissions", "world_model", "propose",
             "validate", "gate"}

Stages(p) ==
  {"idle", "commit"} \cup
    CASE p \in Runners -> Creating \cup {"enqueue"}
      [] p \in Approvers \cup Rejecters -> {"decide", "mark_queued", "enqueue"}
      [] p \in Sweepers -> {"expire", "mark_stale"}
      [] OTHER -> {"load", "apply", "write", "complete", "ack"}

TypeOK ==
  /\ StoreTypeOK
  /\ pc \in [Procs -> UNION {Stages(p) : p \in Procs}]
  /\ \A p \in Procs : pc[p] \in Stages(p)
  /\ target \in [Procs -> Runs \cup {NoRun}]
  /\ queue \in Seq(Runs)
  /\ faults \in 0..MaxFaults
  /\ issued \subseteq Runs
  /\ overdue \subseteq Runs
  /\ expiring \in [Sweepers -> Seq(Runs)]
  /\ disk \in [Files -> Runs \cup {Original}]
  /\ cursor \in [Workers -> Nat]
  /\ filed \in [Runs -> Nat]
  /\ since \in [Files -> [Runs -> SUBSET Runs]]

\* The rows a process holds at each stage: a session that is over, or has only
\* read, holds none; one that goes on to write holds or has seen its run.
RowsHeld(p) ==
  /\ ~Idle(p) => target[p] \in Runs
  /\ pc[p] \in {"idle", "decide", "load", "apply", "ack"} =>
       \A r \in Runs : ~OwnsRun(p, r) /\ ~OwnsApproval(p, r)
  /\ pc[p] \in Creating \cup {"mark_queued", "write", "complete"} => OwnsRun(p, target[p])
  /\ pc[p] \in {"decide", "expire", "mark_stale", "apply"} => runs[target[p]] # Absent
  /\ \A r \in Runs : OwnsApproval(p, r) => Exists(p, r)

\* An id is issued once; approvals and selected rows belong to runs there are.
RowsKnown ==
  /\ \A r \in Runs : runs[r] # Absent => r \in issued
  /\ \A p \in Procs, r \in Runs : OwnsRun(p, r) => r \in issued
  /\ \A r \in Runs : approvals[r] # Absent => runs[r] # Absent
  /\ \A p \in Sweepers :
       /\ pc[p] \in {"expire", "mark_stale"} => expiring[p] # <<>>
       /\ \A i \in DOMAIN expiring[p] : runs[expiring[p][i]] # Absent

\* No process leaves a lock behind, and none writes what it has not locked.
LockDiscipline == RowsKnown /\ \A p \in Procs : RowsHeld(p)

\* Every command is a client the event store was proved for.
ImplementsStore == StoreSpec

-----------------------------------------------------------------------------
(* Safety. *)

Has(L, k) == \E e \in L : e.key = k
HasStatus(L, s) == \E e \in L : e.status = s

\* The second of two keys was written right after the first.
Follows(L, first, second) ==
  \A d \in L : d.key = first => \E e \in L : e.key = second /\ e.seq = d.seq + 1

Writes(r) == {Proposal[r][i] : i \in DOMAIN Proposal[r]}

\* runs.py:134-140: however many people answer at the same moment, at most
\* one decision about a run is ever committed.
OneDecision ==
  \A r \in Runs : \A d, e \in events[r] :
    d.status \in {"approved", "rejected"} /\ e.status \in {"approved", "rejected"} => d = e

\* The approval row and the log are written by the same transactions in the
\* same order: the row tells what the last event about it did.
ApprovalMatchesLog ==
  \A r \in Runs :
    LET L == {e \in events[r] : e.key \in {"await-approval", "approval:decision", "approval:expired"}}
    IN  approvals[r] = IF L = {} THEN Absent
                       ELSE CASE Latest(L).status = "awaiting_approval" -> "pending"
                              [] Latest(L).status = "stale" -> "expired"
                              [] OTHER -> Latest(L).status

\* What one command does is seen whole: an approval with its queueing, the
\* start of an apply with its files and its completion, nothing in between.
CommandsAreAtomic ==
  \A r \in Runs :
    /\ HasStatus(events[r], "approved") => Follows(events[r], "approval:decision", "queued-for-apply")
    /\ Follows(events[r], "apply-start", "files-applied")
    /\ Follows(events[r], "files-applied", "complete")

\* No file holds a run's content unless that run was queued, was approved if
\* anyone had to approve it, and was not rejected.
WritesAreAuthorised ==
  \A r \in Runs :
    (\E f \in Files : disk[f] = r) =>
      /\ Has(events[r], "queued-for-apply")
      /\ ~HasStatus(events[r], "rejected")
      /\ approvals[r] # Absent => HasStatus(events[r], "approved")

\* jobs.py:49-51: while one job of a run writes files, no other job of it
\* does, and none has done so to the end before.
NeverDoubleApplied ==
  \A w \in Workers : pc[w] = "write" =>
    /\ ~Has(events[target[w]], "files-applied")
    /\ \A v \in Workers \ {w} : target[v] = target[w] => pc[v] # "write"

\* A run that says completed has written all of its proposal: each file holds
\* what the job that completed it put there, or what a run that proposes the file
\* has put there after that; what was there before does not stand.
CompletedMeansWritten ==
  \A r \in Runs : Has(events[r], "complete") =>
    \A f \in Writes(r) : disk[f] \in since[f][r] /\ f \in Writes(disk[f])

\* A run that was rejected, has failed or has been completed never waits, queues or
\* runs again (another end or the sweep may still overwrite how it ended), and one
\* that was rejected has never been queued and never will be (runs.py:124-140).
EndedForGood ==
  \A r \in Runs : \A e \in events[r] :
    /\ e.status \in {"rejected", "completed", "failed"} =>
         runs[r] \in {"rejected", "completed", "failed", "stale"}
    /\ e.status = "rejected" => ~Has(events[r], "queued-for-apply") /\ ~Has(events[r], "fail")

\* A decision is final for everybody but a sweep that selected the approval while it
\* was pending, and the sweep can make nothing of it but "expired" (runs.py:275-291).
DecisionYieldsToSweepOnly ==
  [][\A r \in Runs :
       approvals[r] \in {"approved", "rejected"} /\ approvals'[r] # approvals[r] =>
         /\ approvals'[r] = "expired"
         /\ \E p \in Sweepers : pc[p] = "commit" /\ OwnsApproval(p, r)]_vars

Life == INSTANCE RunLife WITH
  status <- runs,
  done <- [r \in Runs |-> {e.key : e \in events[r]} \cap
             {"await-approval", "approval:decision", "approval:expired",
              "queued-for-apply", "complete", "fail"}]

\* A commit, whatever it races with, moves each run by one step of its life: what
\* was rejected, failed or completed is not queued or asked about again, nothing
\* is decided or ended twice the same way, and nothing is applied unasked.
RefinesRunLife == Life!Spec

-----------------------------------------------------------------------------
(***************************************************************************)
(* Fairness.  A command that has begun goes on; one that waits for a row   *)
(* lock gets it in the end (Postgres queues the waiters), hence SF.  A     *)
(* cycle of waiters is broken.  A worker is running and takes jobs; cron   *)
(* runs the sweep.  Nobody has to start a run, to decide or to requeue a   *)
(* job, and nothing has to go wrong.                                       *)
(***************************************************************************)
Continue(p) ==
  \/ p \in Runners /\ RunStep(p) /\ UNCHANGED <<gateVars, workerVars>>
  \/ p \in Approvers \cup Rejecters /\ DecideStep(p) /\ UNCHANGED <<issued, workerVars>>
  \/ p \in Sweepers /\ SweepStep(p) /\ UNCHANGED <<issued, workerVars>>
  \/ p \in Workers /\ WorkerStep(p) /\ UNCHANGED <<issued, gateVars>>

Fairness ==
  /\ \A p \in Procs : SF_vars(Continue(p))
  /\ \A p \in Sweepers : WF_vars(BreakDeadlock(p) /\ UNCHANGED <<issued, workerVars>>)
  /\ \A p \in Sweepers : WF_vars(SelectOverdue(p) /\ UNCHANGED <<issued, workerVars>>)
  /\ \A w \in Workers : WF_vars(TakeJob(w) /\ UNCHANGED <<issued, gateVars>>)

FairSpec == Spec /\ Fairness

\* No command hangs: locks, deadlocks and lost races all end its session.
SessionsFinish == \A p \in Procs : ~Idle(p) ~> Idle(p)

\* Somebody decides, or the sweep gives up, on every overdue approval.
OverdueSettled == \A r \in Runs : r \in Due ~> r \notin Due

InQueue(r) == \E i \in DOMAIN queue : queue[i] = r

\* A job that is in Redis when its run is committed is not lost in silence: the run
\* leaves the queue, or RQ has a job of it filed as failed, for the operator to see.
QueuedJobSettles ==
  \A r \in Runs : runs[r] = "queued" /\ InQueue(r) ~> runs[r] # "queued" \/ filed[r] > 0

-----------------------------------------------------------------------------
(* What the repository says of itself, checked against what it does. *)

\* runs.py:271-273: "an already-decided approval is never reclassified".
DecidedNeverReclassified ==
  [][\A r \in Runs : approvals[r] \in {"approved", "rejected"} => approvals'[r] = approvals[r]]_vars

\* A queued run is picked up by a running worker, if nothing goes wrong with it.
QueuedRunsSettle ==
  \A r \in Runs : runs[r] = "queued" ~> runs[r] # "queued" \/ filed[r] > 0

\* Every run is auditable from the moment it is created.
EveryRunAuditable ==
  \A r \in issued : (\A p \in Runners : target[p] # r) => runs[r] # Absent

\* A job does not reprocess a run that is already terminal.
TerminalIsFinal ==
  [][\A r \in Runs : runs[r] \in {"completed", "failed"} => runs'[r] = runs[r]]_vars
=============================================================================
