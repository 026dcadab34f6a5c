----------------------------- MODULE ApplyWorker -----------------------------
(***************************************************************************)
(* `idemra worker': RQ hands a process one job at a time; apply_run_job    *)
(* (queue/jobs.py) runs in one session and apply_run (runs.py) writes the  *)
(* proposal to the repository file by file.  The disk is not part of the   *)
(* transaction.                                                            *)
(***************************************************************************)
EXTENDS Session

CONSTANTS Workers,   \* processes that execute `idemra worker'
          Files,     \* paths in the target repository
          Original,  \* the content of a file no run has written
          Proposal   \* the paths each run proposes to write, in order

ASSUME WorkerAssumption ==
  /\ Workers \subseteq Procs
  /\ Original \notin Runs
  /\ Proposal \in [Runs -> Seq(Files)]

VARIABLES disk,   \* which run's content each file holds
          cursor, \* how many files of the proposal a worker has written
          filed,  \* how many jobs of each run RQ has filed as failed
          since   \* auxiliary: who has written a file since the last apply of
                  \* a run did, that run included; nobody if it has not yet

workerVars == <<disk, cursor, filed, since>>

WorkerInit ==
  /\ disk = [f \in Files |-> Original]
  /\ cursor = [w \in Workers |-> 0]
  /\ filed = [r \in Runs |-> 0]
  /\ since = [f \in Files |-> [r \in Runs |-> {}]]

Rewind(w) == cursor' = [cursor EXCEPT ![w] = 0]

\* RQ's FailedJobRegistry: the operator can see the job there, and requeue it.
FileAsFailed(r) == filed' = [filed EXCEPT ![r] = @ + 1]

-----------------------------------------------------------------------------
\* RQ takes the oldest job; it is gone from the list.
TakeJob(w) ==
  /\ queue # <<>>
  /\ Begin(w, Head(queue), "load")
  /\ queue' = Tail(queue)
  /\ UNCHANGED <<faults, storeVars, workerVars>>

\* Faulty variant: no guard.
LoadAnyRun(w) == Goto(w, "load", "apply") /\ UNCHANGED <<storeVars, workerVars>>

\* The guard of apply_run_job, on the status read now.
LoadRun(w) ==
  /\ Goto(w, "load", "apply")
  /\ runs[target[w]] = "queued"
  /\ UNCHANGED <<storeVars, workerVars>>

\* Faulty variant: the guard of approve.
SkipUnapprovedJob(w) ==
  /\ pc[w] = "load"
  /\ runs[target[w]] # "approved"
  /\ AbortSession(w)
  /\ UNCHANGED <<queue, faults, workerVars>>

\* Not queued: the job returns.  No such run: it raises RunNotFound.  Either way
\* it is consumed and nothing is written.
SkipJob(w) ==
  /\ pc[w] = "load"
  /\ runs[target[w]] # "queued"
  /\ IF runs[target[w]] = Absent THEN FileAsFailed(target[w]) ELSE UNCHANGED filed
  /\ AbortSession(w)
  /\ UNCHANGED <<queue, faults, disk, cursor, since>>

\* No or invalid permissions, or a proposed path they now forbid: fail_run.
RefuseApply(w) ==
  /\ Goto(w, "apply", "commit")
  /\ WriteStatusEvent(w, target[w], "failed", "fail")
  /\ UNCHANGED <<dirtyApprovals, workerVars>>

\* What an earlier job of the run has written counts no more.
StartOver(r) == since' = [f \in Files |-> [since[f] EXCEPT ![r] = {}]]

\* Faulty variant: the start of the apply is not recorded.
StartApplyUnrecorded(w) ==
  /\ Goto(w, "apply", "write")
  /\ StartOver(target[w])
  /\ UNCHANGED <<storeVars, disk, cursor, filed>>

StartApply(w) ==
  /\ Goto(w, "apply", "write")
  /\ WriteStatusEvent(w, target[w], "applying", "apply-start")
  /\ StartOver(target[w])
  /\ UNCHANGED <<dirtyApprovals, disk, cursor, filed>>

\* A second job of a run that was applied or failed since the guard was read:
\* IntegrityError on the key of the step it takes.
ConflictingJob(w) ==
  /\ pc[w] = "apply"
  /\ RunRowFree(w, target[w])
  /\ KeyUsed(w, target[w], "apply-start") \/ KeyUsed(w, target[w], "fail")
  /\ FileAsFailed(target[w])
  /\ AbortSession(w)
  /\ UNCHANGED <<queue, faults, disk, cursor, since>>

\* A file is written over all that was written to it before.
Over(past, q) ==
  [r \in Runs |-> IF r = q THEN {q} ELSE IF past[r] = {} THEN {} ELSE past[r] \cup {q}]

NextFile(w) == Proposal[target[w]][cursor[w] + 1]

\* Faulty variant: a file that a run has written is left alone.
WriteNewFile(w) ==
  /\ Goto(w, "write", "write")
  /\ cursor[w] < Len(Proposal[target[w]])
  /\ cursor' = [cursor EXCEPT ![w] = @ + 1]
  /\ IF disk[NextFile(w)] = Original
       THEN /\ disk' = [disk EXCEPT ![NextFile(w)] = target[w]]
            /\ since' = [since EXCEPT ![NextFile(w)] = Over(@, target[w])]
       ELSE UNCHANGED <<disk, since>>
  /\ UNCHANGED <<storeVars, filed>>

\* mkdir and write_text of the next file.
WriteFile(w) ==
  /\ Goto(w, "write", "write")
  /\ cursor[w] < Len(Proposal[target[w]])
  /\ cursor' = [cursor EXCEPT ![w] = @ + 1]
  /\ disk' = [disk EXCEPT ![NextFile(w)] = target[w]]
  /\ since' = [since EXCEPT ![NextFile(w)] = Over(@, target[w])]
  /\ UNCHANGED <<storeVars, filed>>

\* Faulty variants: the files are not all written yet; they are not recorded.
RecordAppliedEarly(w) ==
  /\ Goto(w, "write", "complete")
  /\ RecordEvent(w, target[w], "files_applied", "files-applied")
  /\ Rewind(w)
  /\ UNCHANGED <<disk, filed, since>>

RecordNothing(w) ==
  /\ Goto(w, "write", "complete")
  /\ cursor[w] = Len(Proposal[target[w]])
  /\ Rewind(w)
  /\ UNCHANGED <<storeVars, disk, filed, since>>

RecordApplied(w) ==
  /\ Goto(w, "write", "complete")
  /\ cursor[w] = Len(Proposal[target[w]])
  /\ RecordEvent(w, target[w], "files_applied", "files-applied")
  /\ Rewind(w)
  /\ UNCHANGED <<disk, filed, since>>

CompleteRun(w) ==
  /\ Goto(w, "complete", "commit")
  /\ WriteStatusEvent(w, target[w], "completed", "complete")
  /\ UNCHANGED <<dirtyApprovals, workerVars>>

\* The job's transaction commits; RQ does not know it yet.
CommitJob(w) ==
  /\ Goto(w, "commit", "ack")
  /\ Commit(w)
  /\ UNCHANGED workerVars

AckJob(w) ==
  /\ pc[w] = "ack"
  /\ Close(w)
  /\ UNCHANGED <<queue, faults, storeVars, workerVars>>

WorkerStep(w) ==
  \/ LoadRun(w) \/ SkipJob(w) \/ RefuseApply(w) \/ StartApply(w) \/ ConflictingJob(w)
  \/ WriteFile(w) \/ RecordApplied(w) \/ CompleteRun(w) \/ CommitJob(w) \/ AckJob(w)

\* An exception the job does not catch: permissions.yml is not YAML or not a
\* mapping, a path that the checks cannot resolve, a content that is not text, a
\* directory in the place of a file.  The session is rolled back, what is written
\* stays, the run stays queued, and the job is gone but for RQ's registry.
UncaughtJobError(w) ==
  /\ pc[w] \in {"apply", "write"}
  /\ FileAsFailed(target[w])
  /\ AbortSession(w)
  /\ Rewind(w)
  /\ UNCHANGED <<queue, faults, disk, since>>

\* A killed worker or a lost connection, before or after any write.
WorkerFault(w) ==
  /\ Fault(w)
  /\ FileAsFailed(target[w])
  /\ Rewind(w)
  /\ UNCHANGED <<queue, disk, since>>

\* rq requeue: the operator puts a failed job back.
RequeueJob(r) ==
  /\ filed[r] > 0
  /\ filed' = [filed EXCEPT ![r] = @ - 1]
  /\ queue' = Append(queue, r)
  /\ UNCHANGED <<storeVars, pc, target, faults, disk, cursor, since>>
=============================================================================
