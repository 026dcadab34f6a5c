---------------------------- MODULE AccountProofs ----------------------------
(***************************************************************************)
(* What a run leaves behind: its approval row, its log and its files give  *)
(* one account of it.  The row says what the last event about the approval *)
(* says, the log shows each command whole, and no file shows what the log  *)
(* does not allow or lacks what the log calls completed.                   *)
(***************************************************************************)
EXTENDS LifeProofs

-----------------------------------------------------------------------------
(* The approval row. *)

ApprovalKeys == {"await-approval", "approval:decision", "approval:expired"}

ApprovalTurns == {"awaiting_approval", "approved", "rejected", "stale"}

\* The status of an approval by that of the last event about it.
Means(s) == CASE s = "awaiting_approval" -> "pending"
              [] s = "stale" -> "expired"
              [] OTHER -> s

ApprovalEvents(L) == {e \in L : e.key \in ApprovalKeys}

ApprovalOf(L) ==
  IF ApprovalEvents(L) = {} THEN Absent ELSE Means(Latest(ApprovalEvents(L)).status)

\* The property, run by run.
LEMMA MatchIsApprovalOf == ApprovalMatchesLog <=> \A r \in Runs : approvals[r] = ApprovalOf(events[r])
BY DEF ApprovalMatchesLog, ApprovalOf, ApprovalEvents, ApprovalKeys, Means

\* The events about an approval are those that turn it.
LEMMA ApprovalForms ==
  ASSUME NEW e, Formed(e)
  PROVE  /\ e.key \in ApprovalKeys <=> e.status \in ApprovalTurns
         /\ e.status = "awaiting_approval" <=> e.key = "await-approval"
         /\ e.status = "stale" <=> e.key = "approval:expired"
BY DEF Formed, Forms, ApprovalKeys, ApprovalTurns, NoStatus

\* A session that has not turned an approval leaves what the log says of it.
LEMMA NoTurnNoNews ==
  ASSUME WellFormed, NEW p \in Procs, NEW r \in Runs,
         Turned(dirtyEvents[p][r]) \cap ApprovalTurns = {}
  PROVE  ApprovalOf(SeenLog(p, r)) = ApprovalOf(events[r])
<1>1. ASSUME NEW e \in dirtyEvents[p][r] PROVE e.key \notin ApprovalKeys
  <2>1. e.status \in ApprovalTurns => e.status \in Turned(dirtyEvents[p][r])
    BY DEF Turned, ApprovalTurns, Turns, Statuses
  <2> QED
    BY <2>1, ApprovalForms DEF WellFormed
<1>2. ApprovalEvents(SeenLog(p, r)) = ApprovalEvents(events[r])
  BY <1>1 DEF ApprovalEvents, SeenLog
<1> QED
  BY <1>2 DEF ApprovalOf

\* One that has turned it once has the last word.
LEMMA TurnIsNews ==
  ASSUME SysInv, WellFormed, NEW p \in Procs, NEW r \in Runs, NEW s \in ApprovalTurns,
         Turned(dirtyEvents[p][r]) \cap ApprovalTurns = {s}
  PROVE  ApprovalOf(SeenLog(p, r)) = Means(s)
<1>1. PICK n \in dirtyEvents[p][r] : n.status = s
  BY DEF Turned
<1>2. Formed(n) /\ n.key \in ApprovalKeys
  BY <1>1, ApprovalForms DEF WellFormed
<1>3. ASSUME NEW e \in dirtyEvents[p][r], e.key \in ApprovalKeys PROVE e = n
  <2>1. Formed(e) /\ e.status \in ApprovalTurns
    BY <1>3, ApprovalForms DEF WellFormed
  <2>2. e.status \in Turned(dirtyEvents[p][r])
    BY <2>1 DEF Turned, ApprovalTurns, Turns, Statuses
  <2>3. e.status = n.status
    BY <1>1, <2>1, <2>2
  <2>4. e.key = n.key
    BY <1>2, <2>1, <2>3 DEF Formed, Forms, ApprovalTurns, NoStatus
  <2>5. e \in SeenLog(p, r) /\ n \in SeenLog(p, r) /\ Sequenced(SeenLog(p, r))
    BY DEF SeenLog, SysInv, StoreInv, LogsSound, Sound
  <2> QED
    BY <2>4, <2>5 DEF Sequenced
<1> DEFINE A == ApprovalEvents(SeenLog(p, r))
<1>4. n \in A /\ A \in SUBSET Event
  BY <1>2, SeenLogType DEF ApprovalEvents, SeenLog, SysInv, StoreInv
<1>5. \A d \in A : d = n \/ d.seq < n.seq
  BY <1>3 DEF ApprovalEvents, SeenLog, SysInv, StoreInv, NewAfterOld
<1>6. Latest(A) = n
  BY <1>4, <1>5, GreatestIsLatest
<1> QED
  BY <1>1, <1>4, <1>6 DEF ApprovalOf

\* A session that commits has written of an approval what it has turned it to.
LEMMA DraftApproval ==
  ASSUME NEW p \in Procs, DraftOK(p), pc[p] = "commit", NEW r \in Runs
  PROVE  \/ /\ dirtyApprovals[p][r] = Absent
            /\ Turned(dirtyEvents[p][r]) \cap ApprovalTurns = {}
         \/ \E s \in ApprovalTurns : /\ dirtyApprovals[p][r] = Means(s) /\ Means(s) # Absent
                                     /\ Turned(dirtyEvents[p][r]) \cap ApprovalTurns = {s}
<1> USE RoleOfProc DEF ApprovalTurns, Means
<1>1. CASE Untouched(p, r)
  BY <1>1 DEF Untouched, Wrote
<1>2. CASE p \in Sweepers
  BY <1>1, <1>2 DEF DraftOK, SweeperDraft, Wrote, Absent
<1>3. CASE p \notin Sweepers /\ r # target[p]
  BY <1>1, <1>3 DEF DraftOK
<1>4. CASE p \in Runners /\ r = target[p]
  BY <1>4 DEF DraftOK, RunnerDraft, Wrote, Absent
<1>5. CASE p \in Approvers \cup Rejecters /\ r = target[p]
  BY <1>5 DEF DraftOK, DeciderDraft, Wrote, Absent
<1>6. CASE p \in Workers /\ r = target[p]
  BY <1>6 DEF DraftOK, WorkerDraft, Wrote, Absent
<1> QED
  BY <1>2, <1>3, <1>4, <1>5, <1>6, RolesAssumption

\* A commit keeps row and log together.
LEMMA CommitMatches ==
  ASSUME SysInv, WellFormed, Drafts, NEW p \in Procs, pc[p] = "commit", Commit(p), NEW r \in Runs,
         approvals[r] = ApprovalOf(events[r])
  PROVE  approvals'[r] = ApprovalOf(events'[r])
<1>1. /\ approvals'[r] = IF dirtyApprovals[p][r] = Absent THEN approvals[r] ELSE dirtyApprovals[p][r]
      /\ events'[r] = SeenLog(p, r)
  BY DEF Commit, Overwrite
<1>2. \/ /\ dirtyApprovals[p][r] = Absent
         /\ Turned(dirtyEvents[p][r]) \cap ApprovalTurns = {}
      \/ \E s \in ApprovalTurns : /\ dirtyApprovals[p][r] = Means(s) /\ Means(s) # Absent
                                  /\ Turned(dirtyEvents[p][r]) \cap ApprovalTurns = {s}
  BY DraftApproval DEF Drafts
<1> QED
  BY <1>1, <1>2, NoTurnNoNews, TurnIsNews

\* So does every step.
LEMMA StepMatches ==
  ASSUME LifeInv, ApprovalMatchesLog, [Next]_vars
  PROVE  ApprovalMatchesLog'
<1>1. CASE UNCHANGED <<approvals, events>>
  BY <1>1 DEF ApprovalMatchesLog
<1>2. ASSUME NEW p \in Procs, pc[p] = "commit", Commit(p) PROVE ApprovalMatchesLog'
  <2>1. \A r \in Runs : approvals'[r] = ApprovalOf(events'[r])
    BY <1>2, CommitMatches, MatchIsApprovalOf DEF LifeInv
  <2> QED
    BY <2>1 DEF ApprovalMatchesLog, ApprovalOf, ApprovalEvents, ApprovalKeys, Means
<1> QED
  BY <1>1, <1>2, DraftsStep, CommitOrNot DEF LifeInv, storeVars

\* An empty log and no row match.
LEMMA InitMatches == Init => ApprovalMatchesLog
BY DEF Init, StoreInit, NoWrites, NoEvents, ApprovalMatchesLog

\* The approval row tells what the last event about it did: the transactions
\* that write the one write the other, in the same order.
THEOREM ApprovalIsLogged == Spec => []ApprovalMatchesLog
BY LifeInvariant, InitMatches, StepMatches, PTL DEF Spec

-----------------------------------------------------------------------------
(* The files. *)

\* A run has written each of its files since it last started over.
Applied(r) == \A f \in Writes(r) : since[f][r] # {}

\* What a file holds was proposed by a run that has been queued, and that run is
\* the last of those that have written it.
FilesOwned ==
  \A f \in Files :
    /\ disk[f] # Original => f \in Writes(disk[f]) /\ "queued" \in Turned(events[disk[f]])
    /\ \A r \in Runs : since[f][r] # {} => disk[f] \in since[f][r]

\* How far a worker has got: the files before its cursor are written, and all
\* of them when it goes on to complete the run.
Progress(w) ==
  /\ pc[w] # "write" => cursor[w] = 0
  /\ pc[w] = "write" =>
       /\ cursor[w] <= Len(Proposal[target[w]])
       /\ \A i \in 1..cursor[w] : since[Proposal[target[w]][i]][target[w]] # {}
  /\ pc[w] = "complete" => Applied(target[w])

FilesOK ==
  /\ FilesOwned
  /\ \A w \in Workers : Progress(w)
  /\ \A p \in Procs, r \in Runs : "completed" \in Turned(dirtyEvents[p][r]) => Applied(r)
  /\ \A r \in Runs : "completed" \in Turned(events[r]) => Applied(r)

\* What counts as written of a run still does.
FilesKept(r) == \A f \in Files : since[f][r] # {} => since'[f][r] # {}

\* A worker starts the run over: what its earlier jobs wrote counts no more.
Restarts(p, r) == p \in Workers /\ r = target[p] /\ StartApply(p)

\* The files of a proposal.
LEMMA ProposalFiles ==
  ASSUME NEW r \in Runs
  PROVE  /\ Writes(r) = {Proposal[r][i] : i \in 1..Len(Proposal[r])} /\ Len(Proposal[r]) \in Nat
         /\ \A i \in 1..Len(Proposal[r]) : Proposal[r][i] \in Files
<1>1. Proposal[r] \in Seq(Files)
  BY WorkerAssumption
<1> QED
  BY <1>1 DEF Writes

\* So what is applied stays applied.
LEMMA AppliedStays ==
  ASSUME NEW r \in Runs, Applied(r), FilesKept(r)
  PROVE  \A f \in Writes(r) : since'[f][r] # {}
BY ProposalFiles DEF Applied, FilesKept

\* The types of the files.
LEMMA FileTypes ==
  ASSUME SysInv
  PROVE  /\ disk \in [Files -> Runs \cup {Original}]
         /\ since \in [Files -> [Runs -> SUBSET Runs]]
         /\ cursor \in [Workers -> Nat]
BY DEF SysInv, TypeOK

\* A step that writes no file, and one that starts a run over.
LEMMA NoFileWritten ==
  ASSUME SysInv, FilesOwned, UNCHANGED disk,
         \A r \in Runs : Turned(events[r]) \subseteq Turned(events'[r]),
         \/ UNCHANGED since
         \/ \E r \in Runs : StartOver(r)
  PROVE  FilesOwned'
<1>1. \A f \in Files, r \in Runs : since'[f][r] \in {{}, since[f][r]}
  BY FileTypes DEF StartOver
<1> QED
  BY <1>1, FileTypes DEF FilesOwned, Writes

\* Only the run that is started over loses what it has written.
LEMMA OthersKept ==
  ASSUME SysInv, NEW r \in Runs, NEW q, StartOver(q), q # r
  PROVE  FilesKept(r)
BY FileTypes DEF StartOver, FilesKept

\* A step of a worker that writes a file.
LEMMA FileWritten ==
  ASSUME SysInv, NEW w \in Workers, BaseOK(w), FilesOwned, WriteFile(w)
  PROVE  /\ FilesOwned' /\ target[w] \in Runs
         /\ \A r \in Runs : FilesKept(r)
         /\ since'[NextFile(w)][target[w]] = {target[w]}
         /\ NextFile(w) \in Files
<1> DEFINE r == target[w]
           f == NextFile(w)
<1>1. /\ pc[w] = "write" /\ cursor[w] < Len(Proposal[r])
      /\ disk' = [disk EXCEPT ![f] = r] /\ UNCHANGED storeVars
      /\ since' = [since EXCEPT ![f] = Over(since[f], r)]
  BY DEF WriteFile, Goto
<1>2. cursor[w] \in Nat /\ r \in Runs /\ r # Original
  BY <1>1, FileTypes, SessionTypes, RoleOfProc, WorkerAssumption DEF Idle
<1>3. cursor[w] + 1 \in 1..Len(Proposal[r])
  BY <1>1, <1>2, ProposalFiles
<1>4. f \in Files /\ f \in Writes(r)
  BY <1>2, <1>3, ProposalFiles DEF NextFile
<1>5. "queued" \in Turned(events[r])
  BY <1>1 DEF BaseOK
<1> HIDE DEF f
<1>6. /\ \A g \in Files : disk'[g] = IF g = f THEN r ELSE disk[g]
      /\ \A g \in Files : since'[g] = IF g = f THEN Over(since[f], r) ELSE since[g]
  BY <1>1, <1>2, <1>4, FileTypes
<1>7. /\ since'[f][r] = {r}
      /\ \A u \in Runs \ {r} : since'[f][u] = IF since[f][u] = {} THEN {} ELSE since[f][u] \cup {r}
  BY <1>2, <1>4, <1>6 DEF Over
<1>8. ASSUME NEW u \in Runs PROVE FilesKept(u)
  BY <1>6, <1>7 DEF FilesKept
<1>9. ASSUME NEW g \in Files
      PROVE  /\ disk'[g] # Original =>
                  g \in Writes(disk'[g]) /\ "queued" \in Turned(events'[disk'[g]])
             /\ \A u \in Runs : since'[g][u] # {} => disk'[g] \in since'[g][u]
  <2>1. CASE g = f
    <3>1. disk'[g] = r /\ UNCHANGED events
      BY <1>1, <1>6, <2>1 DEF storeVars
    <3>2. ASSUME NEW u \in Runs, since'[g][u] # {} PROVE r \in since'[g][u]
      BY <1>7, <2>1, <3>2
    <3> QED
      BY <1>4, <1>5, <2>1, <3>1, <3>2
  <2>2. CASE g # f
    BY <1>1, <1>6, <2>2 DEF FilesOwned, storeVars
  <2> QED
    BY <2>1, <2>2
<1>10. FilesOwned'
  BY <1>9 DEF FilesOwned, Writes
<1> QED
  BY <1>2, <1>4, <1>7, <1>8, <1>10 DEF f

\* Every step of a process keeps the owners of the files, and what it does not
\* start over.
LEMMA OwnersStep ==
  ASSUME LifeInv, FilesOwned, [Next]_vars, NEW p \in Procs, Acts(p)
  PROVE  FilesOwned' /\ \A r \in Runs : FilesKept(r) \/ Restarts(p, r)
<1>1. \A r \in Runs : Turned(events[r]) \subseteq Turned(events'[r])
  BY StepSettles, TurnsGrow DEF LifeInv
<1>2. CASE UNCHANGED <<disk, since>>
  BY <1>1, <1>2, NoFileWritten DEF LifeInv, FilesKept
<1>3. CASE p \in Workers /\ WriteFile(p)
  BY <1>3, FileWritten DEF LifeInv, Bases
<1>4. CASE p \in Workers /\ StartApply(p)
  <2>1. UNCHANGED disk /\ StartOver(target[p]) /\ target[p] \in Runs
    BY <1>4, SessionTypes DEF LifeInv, StartApply, Goto, Idle
  <2>2. FilesOwned'
    BY <1>1, <2>1, NoFileWritten DEF LifeInv
  <2> QED
    BY <1>4, <2>1, <2>2, OthersKept DEF LifeInv, Restarts
<1>5. CASE p \in Workers /\ WorkerNext(p) /\ ~WriteFile(p) /\ ~StartApply(p)
  <2>1. UNCHANGED <<disk, since>>
    BY <1>5 DEF WorkerNext, WorkerStep, TakeJob, LoadRun, SkipJob, RefuseApply, ConflictingJob,
                RecordApplied, CompleteRun, CommitJob, AckJob, UncaughtJobError, WorkerFault, workerVars
  <2> QED
    BY <1>2, <2>1
<1>6. CASE RunnerNext(p) \/ DeciderNext(p) \/ SweeperNext(p)
  BY <1>2, <1>6 DEF RunnerNext, DeciderNext, SweeperNext, workerVars
<1> QED
  BY <1>3, <1>4, <1>5, <1>6 DEF Acts

\* Only a worker that is about to commit has completed a run.
CompletionsAtCommit ==
  \A p \in Procs, r \in Runs : "completed" \in Turned(dirtyEvents[p][r]) =>
    p \in Workers /\ pc[p] = "commit" /\ r = target[p]

LEMMA CompletedDraft == LifeInv => CompletionsAtCommit
<1> SUFFICES ASSUME LifeInv, NEW p \in Procs, NEW r \in Runs, "completed" \in Turned(dirtyEvents[p][r])
             PROVE  p \in Workers /\ pc[p] = "commit" /\ r = target[p]
  BY DEF CompletionsAtCommit
<1>0. TypeOK /\ DraftOK(p)
  BY DEF LifeInv, SysInv, Drafts
<1>1. pc[p] \in Stages(p)
  BY <1>0 DEF TypeOK
<1>2. ~Untouched(p, r)
  BY DEF Untouched, Wrote
<1>3. p \notin Sweepers /\ r = target[p]
  BY <1>0, <1>2 DEF DraftOK, SweeperDraft, Wrote
<1>4. p \notin Runners
  BY <1>0, <1>1, <1>2, <1>3, StagesOfRole DEF DraftOK, RunnerDraft, Wrote
<1>5. p \notin Approvers \cup Rejecters
  BY <1>0, <1>1, <1>2, <1>3, StagesOfRole DEF DraftOK, DeciderDraft, Wrote
<1>6. p \in Workers
  BY <1>3, <1>4, <1>5, RolesAssumption
<1> QED
  BY <1>0, <1>1, <1>2, <1>3, <1>6, StagesOfRole DEF DraftOK, WorkerDraft, Wrote

\* A run is started over before anybody has completed it, and while nobody else
\* is applying it.
LEMMA RestartsInTime ==
  ASSUME LifeInv, ApplyRecorded, CompletionsAtCommit, NEW p \in Procs, NEW r \in Runs, Restarts(p, r)
  PROVE  /\ "completed" \notin Turned(events[r])
         /\ \A q \in Procs : "completed" \notin Turned(dirtyEvents[q][r])
         /\ \A v \in Workers \ {p} : pc[v] \in {"write", "complete"} => target[v] # r
<1>1. /\ pc[p] = "apply" /\ r = target[p] /\ RunRowFree(p, r)
      /\ \A e \in events[r] : e.key # "apply-start"
  BY DEF Restarts, StartApply, Goto, WriteStatusEvent, InsertEvent, KeyUsed, SeenLog
<1>2. ASSUME "completed" \in Turned(events[r]) PROVE FALSE
  <2>1. PICK e \in events[r] : e.status = "completed"
    BY <1>2 DEF Turned
  <2>2. e.key = "complete"
    BY <2>1 DEF LifeInv, WellFormed, Formed, Forms, NoStatus
  <2>3. Has(events[r], "apply-start")
    BY <2>2 DEF ApplyRecorded, Late, Has
  <2> QED
    BY <1>1, <2>3 DEF Has
<1>3. ASSUME NEW q \in Procs, "completed" \in Turned(dirtyEvents[q][r]) PROVE FALSE
  <2>1. q \in Workers /\ pc[q] = "commit" /\ r = target[q]
    BY <1>3 DEF CompletionsAtCommit
  <2>2. OwnsRun(q, r)
    BY <2>1 DEF LifeInv, Drafts, DraftOK, WorkerDraft, Wrote, OwnsRun, Absent
  <2> QED
    BY <1>1, <2>1, <2>2 DEF RunRowFree
<1>4. ASSUME NEW v \in Workers \ {p}, pc[v] \in {"write", "complete"}, target[v] = r PROVE FALSE
  <2>1. OwnsRun(v, r)
    BY <1>4, RoleOfProc DEF LifeInv, SysInv, LockDiscipline, RowsHeld
  <2> QED
    BY <1>1, <1>4, <2>1, RoleOfProc DEF RunRowFree
<1> QED
  BY <1>2, <1>3, <1>4

\* A worker gets on with the files of its own proposal.
LEMMA WorkerProgress ==
  ASSUME SysInv, NEW w \in Workers, BaseOK(w), FilesOwned, Progress(w), WorkerNext(w)
  PROVE  Progress(w)'
<1> USE RoleOfProc
<1>0. /\ cursor \in [Workers -> Nat] /\ StoreTypeOK
      /\ pc \in [Procs -> UNION {Stages(q) : q \in Procs}]
      /\ target \in [Procs -> Runs \cup {NoRun}] /\ (~Idle(w) => target[w] \in Runs)
  BY SessionTypes, FileTypes
<1>1. CASE TakeJob(w) \/ LoadRun(w) \/ RefuseApply(w) \/ CompleteRun(w) \/ CommitJob(w)
           \/ SkipJob(w) \/ ConflictingJob(w) \/ AckJob(w)
  <2>1. pc'[w] \notin {"write", "complete"} /\ pc[w] # "write" /\ UNCHANGED cursor
    BY <1>0, <1>1 DEF TakeJob, LoadRun, RefuseApply, CompleteRun, CommitJob, SkipJob, ConflictingJob,
                      AckJob, Begin, Goto, AbortSession, Close, Idle, workerVars
  <2> QED
    BY <2>1 DEF Progress
<1>2. CASE StartApply(w)
  <2>1. pc[w] = "apply" /\ pc'[w] = "write" /\ UNCHANGED <<target, cursor>>
    BY <1>0, <1>2 DEF StartApply, Goto
  <2>2. cursor'[w] = 0 /\ target'[w] \in Runs
    BY <1>0, <2>1 DEF Progress, Idle
  <2>3. 0 <= Len(Proposal[target'[w]])
    BY <2>2, ProposalFiles
  <2> QED
    BY <2>1, <2>2, <2>3 DEF Progress
<1>3. CASE WriteFile(w)
  <2> DEFINE r == target[w]
             n == cursor[w] + 1
  <2>1. /\ r \in Runs /\ Proposal[r][n] \in Files /\ FilesKept(r)
        /\ since'[Proposal[r][n]][r] # {}
    BY <1>3, FileWritten DEF NextFile
  <2>2. /\ pc[w] = "write" /\ pc'[w] = "write" /\ UNCHANGED target
        /\ cursor[w] < Len(Proposal[r]) /\ cursor'[w] = n
    BY <1>0, <1>3 DEF WriteFile, Goto
  <2>3. ASSUME NEW i \in 1..cursor[w] PROVE since'[Proposal[r][i]][r] # {}
    <3>1. Proposal[r][i] \in Files
      BY <1>0, <2>1, <2>2, ProposalFiles
    <3>2. since[Proposal[r][i]][r] # {}
      BY <2>2 DEF Progress
    <3> QED
      BY <2>1, <3>1, <3>2 DEF FilesKept
  <2>4. \A i \in 1..n : since'[Proposal[r][i]][r] # {}
    BY <1>0, <2>1, <2>3
  <2>5. n <= Len(Proposal[r])
    BY <1>0, <2>1, <2>2, ProposalFiles
  <2> QED
    BY <2>2, <2>4, <2>5 DEF Progress
<1>4. CASE RecordApplied(w)
  <2>1. /\ pc[w] = "write" /\ pc'[w] = "complete" /\ UNCHANGED <<target, since>>
        /\ cursor[w] = Len(Proposal[target[w]]) /\ cursor'[w] = 0
    BY <1>0, <1>4 DEF RecordApplied, Goto, Rewind
  <2>2. target[w] \in Runs
    BY <1>0, <2>1 DEF Idle
  <2>3. \A f \in Writes(target[w]) : since[f][target[w]] # {}
    BY <2>1, <2>2, ProposalFiles DEF Progress
  <2>4. \A f \in Writes(target'[w]) : since'[f][target'[w]] # {}
    BY <2>1, <2>3
  <2> QED
    BY <2>1, <2>4 DEF Progress, Applied, Writes
<1>5. CASE UncaughtJobError(w) \/ WorkerFault(w)
  BY <1>0, <1>5 DEF UncaughtJobError, WorkerFault, Fault, AbortSession, Close, Rewind, Progress
<1> QED
  BY <1>1, <1>2, <1>3, <1>4, <1>5 DEF WorkerNext, WorkerStep

\* Where it has got to is its own.
LEMMA CursorsApart ==
  ASSUME SysInv, NEW p \in Procs, Acts(p), NEW v \in Workers \ {p}
  PROVE  cursor'[v] = cursor[v]
<1>1. CASE RunnerNext(p) \/ DeciderNext(p) \/ SweeperNext(p)
  BY <1>1 DEF RunnerNext, DeciderNext, SweeperNext, workerVars
<1>2. CASE WorkerNext(p)
  BY <1>2, FileTypes
     DEF WorkerNext, WorkerStep, TakeJob, LoadRun, SkipJob, RefuseApply, StartApply, Rewind,
         ConflictingJob, WriteFile, RecordApplied, CompleteRun, CommitJob, AckJob, UncaughtJobError,
         WorkerFault, workerVars
<1> QED
  BY <1>1, <1>2 DEF Acts

\* What another has done leaves its progress.
LEMMA ProgressStays ==
  ASSUME SysInv, NEW v \in Workers, Progress(v),
         pc'[v] = pc[v], target'[v] = target[v], cursor'[v] = cursor[v],
         pc[v] \in {"write", "complete"} => FilesKept(target[v])
  PROVE  Progress(v)'
<1>1. ~Idle(v) => target[v] \in Runs
  BY SessionTypes, RoleOfProc
<1>2. CASE pc[v] = "write"
  <2>1. target[v] \in Runs /\ cursor[v] \in Nat /\ cursor[v] <= Len(Proposal[target[v]])
    BY <1>1, <1>2, FileTypes DEF Idle, Progress
  <2>2. \A i \in 1..cursor[v] : Proposal[target[v]][i] \in Files
    BY <2>1, ProposalFiles
  <2>3. \A i \in 1..cursor[v] : since'[Proposal[target[v]][i]][target[v]] # {}
    BY <1>2, <2>2 DEF Progress, FilesKept
  <2> QED
    BY <1>2, <2>3 DEF Progress
<1>3. CASE pc[v] # "write"
  <2>1. pc'[v] = "complete" => \A f \in Writes(target'[v]) : since'[f][target'[v]] # {}
    BY <1>1, AppliedStays DEF Idle, Progress
  <2> QED
    BY <1>3, <2>1 DEF Progress, Applied, Writes
<1> QED
  BY <1>2, <1>3

\* It has written the files of the run.
LEMMA CompletionWritten ==
  ASSUME LifeInv, FilesOK, CompletionsAtCommit', NEW p \in Procs, Acts(p), NEW r \in Runs,
         "completed" \in Turned(dirtyEvents'[p][r])
  PROVE  \A f \in Writes(r) : since'[f][r] # {}
<1> USE DEF LifeInv
<1>1. p \in Workers /\ pc'[p] = "commit" /\ r = target'[p]
  BY DEF CompletionsAtCommit
<1>2. WorkerNext(p)
  BY <1>1, OneRole DEF Acts
<1>3. CASE CompleteRun(p)
  <2>1. pc[p] = "complete" /\ UNCHANGED <<target, since>>
    BY <1>3 DEF CompleteRun, Goto, workerVars
  <2>2. Applied(r)
    BY <1>1, <2>1 DEF FilesOK, Progress
  <2> QED
    BY <2>1, <2>2 DEF Applied
<1>4. ~RefuseApply(p)
  <2> SUFFICES ASSUME RefuseApply(p) PROVE FALSE
    OBVIOUS
  <2>1. /\ pc[p] = "apply" /\ UNCHANGED target
        /\ InsertEvent(p, target[p], "status_changed", "failed", "fail")
    BY DEF RefuseApply, Goto, WriteStatusEvent
  <2>2. Turned(dirtyEvents[p][target[p]]) = {}
    BY <1>1, <2>1 DEF Drafts, DraftOK, Untouched, Wrote
  <2>3. InsertEvent(p, r, "status_changed", "failed", "fail") /\ Turned(dirtyEvents[p][r]) = {}
    BY <1>1, <2>1, <2>2
  <2>4. Turned(dirtyEvents'[p][r]) \subseteq Turned(dirtyEvents[p][r]) \cup {"failed"}
    BY <2>3, InsertionDrafted, SessionTypes
  <2> QED
    BY <2>3, <2>4
<1>5. pc'[p] = "commit" => CompleteRun(p) \/ RefuseApply(p)
  BY <1>2, SessionTypes
     DEF WorkerNext, WorkerStep, TakeJob, LoadRun, SkipJob, StartApply, ConflictingJob, WriteFile,
         RecordApplied, CommitJob, AckJob, UncaughtJobError, WorkerFault, Fault, AbortSession, Begin,
         Goto, Close, Idle
<1> QED
  BY <1>1, <1>3, <1>4, <1>5

\* Every step keeps files and log together.
LEMMA FilesStep ==
  ASSUME LifeInv, ApplyRecorded, CompletionsAtCommit, CompletionsAtCommit', FilesOK, [Next]_vars
  PROVE  FilesOK'
<1> USE DEF LifeInv
<1>1. CASE UNCHANGED <<storeVars, pc, target, expiring, disk, cursor, since>>
  <2>1. FilesOwned'
    BY <1>1 DEF storeVars, FilesOK, FilesOwned, Writes
  <2>2. \A w \in Workers : Progress(w)'
    BY <1>1 DEF FilesOK, Progress, Applied, Writes
  <2> QED
    BY <1>1, <2>1, <2>2 DEF storeVars, FilesOK, Applied, Writes
<1>2. ASSUME NEW p \in Procs, Acts(p), Apart(p) PROVE FilesOK'
  <2>1. FilesOwned' /\ \A r \in Runs : FilesKept(r) \/ Restarts(p, r)
    BY <1>2, OwnersStep DEF FilesOK
  <2>2. ASSUME NEW v \in Workers PROVE Progress(v)'
    <3>1. CASE v = p
      BY <1>2, <3>1, WorkerProgress, OneRole DEF Acts, FilesOK, Bases
    <3>2. CASE v # p
      <4>1. pc[v] \in {"write", "complete"} => FilesKept(target[v])
        BY <2>1, <3>2, RestartsInTime, SessionTypes, RoleOfProc DEF Idle
      <4> QED
        BY <1>2, <3>2, <4>1, ProgressStays, CursorsApart, RoleOfProc DEF Apart, FilesOK
    <3> QED
      BY <3>1, <3>2
  <2>3. ASSUME NEW q \in Procs, NEW r \in Runs, "completed" \in Turned(dirtyEvents'[q][r])
        PROVE  \A f \in Writes(r) : since'[f][r] # {}
    <3>1. CASE q = p
      BY <1>2, <2>3, <3>1, CompletionWritten
    <3>2. CASE q # p
      BY <1>2, <2>1, <2>3, <3>2, AppliedStays, RestartsInTime DEF Apart, FilesOK
    <3> QED
      BY <3>1, <3>2
  <2>4. ASSUME NEW r \in Runs, "completed" \in Turned(events'[r])
        PROVE  \A f \in Writes(r) : since'[f][r] # {}
    <3>1. "completed" \in Turned(events[r]) \/ "completed" \in Turned(dirtyEvents[p][r])
      BY <1>2, <2>4, CommitOrNot, TurnedUnion DEF Commit, SeenLog
    <3> QED
      BY <2>1, <3>1, AppliedStays, RestartsInTime DEF FilesOK
  <2> QED
    BY <2>1, <2>2, <2>3, <2>4 DEF FilesOK, Applied, Writes, Turned
<1> QED
  BY <1>1, <1>2, DraftsStep

\* No file has been written at first.
LEMMA FilesInit == Init => FilesOK
BY RoleOfProc, TurnedNone
   DEF Init, StoreInit, SessionInit, WorkerInit, NoEvents, FilesOK, FilesOwned, Progress

\* The invariant of the files.
LEMMA FilesInvariant == Spec => []FilesOK
BY LifeInvariant, AppliesRecorded, CompletedDraft, FilesInit, FilesStep, PTL DEF Spec

\* A file that holds a run's content was written by a queued run: it was
\* approved if it was ever asked about, and a rejection excludes that.
LEMMA FilesGiveAuthority ==
  ASSUME LifeInv, FilesOK
  PROVE  WritesAreAuthorised
<1> SUFFICES ASSUME NEW r \in Runs, NEW f \in Files, disk[f] = r
             PROVE  /\ Has(events[r], "queued-for-apply")
                    /\ ~HasStatus(events[r], "rejected")
                    /\ approvals[r] # Absent => HasStatus(events[r], "approved")
  BY DEF WritesAreAuthorised
<1> DEFINE T == Turned(events[r])
<1>1. "queued" \in T
  BY WorkerAssumption DEF FilesOK, FilesOwned
<1>2. /\ approvals[r] # Absent => "approved" \in T
      /\ "rejected" \in T => FALSE
  BY <1>1 DEF LifeInv, Histories, HistoryOK
<1>3. Has(events[r], "queued-for-apply")
  <2>1. PICK e \in events[r] : e.status = "queued"
    BY <1>1 DEF Turned
  <2>2. e.key = "queued-for-apply"
    BY <2>1 DEF LifeInv, WellFormed, Formed, Forms, NoStatus
  <2> QED
    BY <2>2 DEF Has
<1>4. /\ HasStatus(events[r], "rejected") => "rejected" \in T
      /\ "approved" \in T => HasStatus(events[r], "approved")
  BY DEF HasStatus, Turned, Turns, Statuses
<1> QED
  BY <1>2, <1>3, <1>4

\* No file shows what the log does not allow: whatever was rejected, or waits
\* for an approval, has written nothing.
THEOREM WritesAuthorised == Spec => []WritesAreAuthorised
BY LifeInvariant, FilesInvariant, FilesGiveAuthority, PTL

\* A completed run has written its files since it started, and what a file holds
\* was put there by the last of those that have written it.
LEMMA FilesGiveCompletion ==
  ASSUME LifeInv, FilesOK
  PROVE  CompletedMeansWritten
<1> SUFFICES ASSUME NEW r \in Runs, Has(events[r], "complete"), NEW f \in Writes(r)
             PROVE  disk[f] \in since[f][r] /\ f \in Writes(disk[f])
  BY DEF CompletedMeansWritten
<1>1. PICK e \in events[r] : e.key = "complete"
  BY DEF Has
<1>2. e.status = "completed"
  BY <1>1 DEF LifeInv, WellFormed, Formed, Forms
<1>3. Applied(r)
  BY <1>1, <1>2 DEF FilesOK, Turned, Turns, Statuses
<1>4. f \in Files
  BY ProposalFiles DEF Writes
<1>5. disk[f] \in since[f][r]
  BY <1>3, <1>4 DEF Applied, FilesOK, FilesOwned
<1>6. disk[f] # Original
  BY <1>4, <1>5, FileTypes, WorkerAssumption DEF LifeInv
<1> QED
  BY <1>4, <1>5, <1>6 DEF FilesOK, FilesOwned

\* A run that says completed has written every file it proposed, though the
\* files are outside the transaction that says so: each holds what the job that
\* completed the run put there, or what another run has put there after it.
THEOREM CompletedIsWritten == Spec => []CompletedMeansWritten
BY LifeInvariant, FilesInvariant, FilesGiveCompletion, PTL

-----------------------------------------------------------------------------
(* Commands. *)

NoKey == "no key"

\* The event that has to come right after one of this status and this key.
Sequel(s, k) ==
  CASE s = "approved" -> "queued-for-apply"
    [] k = "apply-start" -> "files-applied"
    [] k = "files-applied" -> "complete"
    [] OTHER -> NoKey

\* The stages of a session that has yet to write one.
Owed(stage) ==
  CASE stage = "mark_queued" -> "queued-for-apply"
    [] stage = "write" -> "files-applied"
    [] stage = "complete" -> "complete"
    [] OTHER -> NoKey

Followed(L, d) ==
  \/ Sequel(d.status, d.key) = NoKey
  \/ \E e \in L : e.key = Sequel(d.status, d.key) /\ e.seq = d.seq + 1

\* What a session has written is followed, except by what it writes next.
Chained(p) ==
  \A r \in Runs : \A d \in dirtyEvents[p][r] :
    \/ Followed(dirtyEvents[p][r], d)
    \/ /\ r = target[p] /\ Owed(pc[p]) = Sequel(d.status, d.key)
       /\ \A e \in dirtyEvents[p][r] : e.seq <= d.seq

Chains ==
  /\ \A p \in Procs : Chained(p)
  /\ \A r \in Runs : \A d \in events[r] : Followed(events[r], d)

\* Does nothing of the kind; writes the next event; or ends.
ChainMoves(p) ==
  \/ /\ UNCHANGED events /\ dirtyEvents'[p] = dirtyEvents[p]
     /\ Owed(pc[p]) = NoKey \/ (pc'[p] = pc[p] /\ target'[p] = target[p])
  \/ /\ UNCHANGED events /\ ~Idle(p)
     /\ \E t, s, k :
          /\ InsertEvent(p, target[p], t, s, k)
          /\ Owed(pc[p]) \in {NoKey, k}
          /\ Sequel(s, k) # NoKey => target'[p] = target[p] /\ Owed(pc'[p]) = Sequel(s, k)
  \/ Ends(p) /\ (UNCHANGED events \/ Owed(pc[p]) = NoKey)

\* What follows an event of a log follows it in every longer one.
LEMMA FollowedGrows ==
  ASSUME NEW L, NEW M, L \subseteq M, NEW d, Followed(L, d)
  PROVE  Followed(M, d)
BY DEF Followed

\* An event is inserted above those of its session, right above the last.
LEMMA InsertedNext ==
  ASSUME SysInv, NEW p \in Procs, NEW r \in Runs, NEW t, NEW s, NEW k, InsertEvent(p, r, t, s, k)
  PROVE  \E n :
           /\ n.status = s /\ n.key = k /\ n.seq \in Nat
           /\ dirtyEvents' = [dirtyEvents EXCEPT ![p][r] = dirtyEvents[p][r] \cup {n}]
           /\ \A d \in dirtyEvents[p][r] : d.seq < n.seq
           /\ \A d \in dirtyEvents[p][r] :
                (\A e \in dirtyEvents[p][r] : e.seq <= d.seq) => n.seq = d.seq + 1
<1> DEFINE L == SeenLog(p, r)
           n == NewEvent(p, r, t, s, k)
<1>1. L \in SUBSET Event /\ Sound(L)
  BY SeenLogType DEF SysInv, StoreInv, LogsSound
<1>2. n.status = s /\ n.key = k /\ n.seq = NextSeq(L)
  BY DEF NewEvent
<1>3. dirtyEvents' = [dirtyEvents EXCEPT ![p][r] = dirtyEvents[p][r] \cup {n}]
  BY DEF InsertEvent
<1>4. dirtyEvents[p][r] \subseteq L /\ \A e \in L : e.seq \in Nat
  BY <1>1 DEF SeenLog, Event
<1>5. NextSeq(L) \in Nat /\ \A d \in L : d.seq < NextSeq(L)
  BY <1>1, NextSeqIsNext
<1>6. ASSUME NEW d \in dirtyEvents[p][r], \A e \in dirtyEvents[p][r] : e.seq <= d.seq
      PROVE  NextSeq(L) = d.seq + 1
  <2>1. \A e \in L : e.seq <= d.seq
    BY <1>4, <1>6 DEF SeenLog, SysInv, StoreInv, NewAfterOld
  <2>2. \A e \in L : e = d \/ e.seq < d.seq
    BY <1>1, <1>4, <2>1 DEF Sound, Sequenced
  <2>3. Latest(L) = d
    BY <1>1, <1>4, <2>2, GreatestIsLatest
  <2> QED
    BY <1>4, <2>3 DEF NextSeq
<1> HIDE DEF n, L
<1> QED
  BY <1>2, <1>3, <1>4, <1>5, <1>6

\* A session that ends keeps its chain: it commits only when it owes nothing.
LEMMA EndMoves ==
  ASSUME NEW p \in Procs, AbortSession(p) \/ (pc[p] \in {"commit"} /\ Commit(p))
  PROVE  ChainMoves(p)
<1>1. CASE AbortSession(p)
  BY <1>1, SessionEnds DEF ChainMoves, AbortSession, Rollback, committed
<1>2. CASE pc[p] = "commit" /\ Commit(p)
  BY <1>2, SessionEnds DEF ChainMoves, Owed
<1> QED
  BY <1>1, <1>2

\* The stages of `idemra run' owe nothing.
LEMMA RunnerChain ==
  ASSUME SysInv, NEW p \in Runners, RunnerNext(p)
  PROVE  ChainMoves(p)
<1> USE RoleOfProc
<1>1. CASE CreateRun(p)
  BY <1>1 DEF ChainMoves, CreateRun, Begin, InsertRun, Idle, Owed
<1>2. CASE FetchTask(p) \/ LoadPermissions(p) \/ BuildWorldModel(p) \/ ValidateProposal(p)
           \/ EnqueueApply(p)
  BY <1>2 DEF ChainMoves, FetchTask, LoadPermissions, BuildWorldModel, ValidateProposal, Proceed,
              EnqueueApply, Goto, storeVars, Owed
<1>3. CASE RouteTask(p) \/ ProposeChanges(p)
  <2>1. /\ Owed(pc[p]) = NoKey /\ ~Idle(p) /\ UNCHANGED events
        /\ \/ InsertEvent(p, target[p], "routing_decision", NoStatus, "routing")
           \/ InsertEvent(p, target[p], "change_proposed", NoStatus, "proposal")
    BY <1>3 DEF RouteTask, ProposeChanges, RecordEvent, Goto, Owed, Idle
  <2>2. Sequel(NoStatus, "routing") = NoKey /\ Sequel(NoStatus, "proposal") = NoKey
    BY DEF Sequel, NoStatus
  <2> QED
    BY <2>1, <2>2 DEF ChainMoves
<1>4. CASE StartRun(p) \/ FailRun(p) \/ QueueRun(p) \/ RequestApproval(p)
  <2>1. /\ Owed(pc[p]) = NoKey /\ ~Idle(p) /\ UNCHANGED events
        /\ \/ InsertEvent(p, target[p], "status_changed", "running", "start")
           \/ InsertEvent(p, target[p], "status_changed", "failed", "fail")
           \/ InsertEvent(p, target[p], "status_changed", "queued", "queued-for-apply")
           \/ InsertEvent(p, target[p], "status_changed", "awaiting_approval", "await-approval")
    BY <1>4 DEF StartRun, FailRun, QueueRun, RequestApproval, WriteStatusEvent, committed, Goto, Owed, Idle
  <2>2. /\ Sequel("running", "start") = NoKey /\ Sequel("failed", "fail") = NoKey
        /\ Sequel("queued", "queued-for-apply") = NoKey
        /\ Sequel("awaiting_approval", "await-approval") = NoKey
    BY DEF Sequel
  <2> QED
    BY <2>1, <2>2 DEF ChainMoves
<1>5. CASE CommitSession(p) \/ UncaughtError(p) \/ RunFault(p)
  BY <1>5, EndMoves DEF CommitSession, UncaughtError, RunFault, Fault
<1> QED
  BY <1>1, <1>2, <1>3, <1>4, <1>5 DEF RunnerNext, RunStep

\* An approval owes its queueing, a rejection nothing.
LEMMA DeciderChain ==
  ASSUME SysInv, NEW p \in Approvers \cup Rejecters, DeciderNext(p)
  PROVE  ChainMoves(p)
<1> USE RoleOfProc
<1>1. CASE ReadApproval(p) \/ EnqueueApply(p)
  BY <1>1 DEF ChainMoves, ReadApproval, EnqueueApply, Begin, Idle, storeVars, Owed
<1>2. CASE RecordDecision(p)
  <2>1. /\ pc[p] = "decide" /\ target' = target /\ UNCHANGED events
        /\ pc'[p] = IF p \in Approvers THEN "mark_queued" ELSE "commit"
        /\ InsertEvent(p, target[p], "status_changed", Decision(p), "approval:decision")
    BY <1>2, GotoMoves DEF RecordDecision, Goto, WriteStatusEvent, committed, DecisionKey
  <2>2. /\ Owed("decide") = NoKey
        /\ Sequel("approved", "approval:decision") = Owed("mark_queued")
        /\ Sequel("rejected", "approval:decision") = NoKey
    BY DEF Owed, Sequel
  <2>3. Sequel(Decision(p), "approval:decision") # NoKey => Owed(pc'[p]) = Sequel(Decision(p), "approval:decision")
    BY <2>1, <2>2 DEF Decision
  <2> QED
    BY <2>1, <2>2, <2>3 DEF ChainMoves, Idle
<1>3. CASE QueueApproved(p)
  <2>1. /\ pc[p] = "mark_queued" /\ UNCHANGED events
        /\ InsertEvent(p, target[p], "status_changed", "queued", "queued-for-apply")
    BY <1>3 DEF QueueApproved, Goto, WriteStatusEvent, committed
  <2>2. Owed("mark_queued") = "queued-for-apply" /\ Sequel("queued", "queued-for-apply") = NoKey
    BY DEF Owed, Sequel
  <2> QED
    BY <2>1, <2>2 DEF ChainMoves, Idle
<1>4. CASE CommitSession(p) \/ ConflictingDecision(p) \/ GateFault(p)
  BY <1>4, EndMoves DEF CommitSession, ConflictingDecision, GateFault, Fault
<1> QED
  BY <1>1, <1>2, <1>3, <1>4 DEF DeciderNext, DecideStep

\* A sweep owes nothing.
LEMMA SweeperChain ==
  ASSUME SysInv, NEW p \in Sweepers, SweeperNext(p)
  PROVE  ChainMoves(p)
<1> USE RoleOfProc
<1>1. CASE SelectOverdue(p) \/ ExpireApproval(p)
  BY <1>1 DEF ChainMoves, SelectOverdue, ExpireApproval, Begin, Idle, Goto, storeVars, committed, Owed
<1>2. CASE MarkStale(p)
  <2>1. /\ Owed(pc[p]) = NoKey /\ ~Idle(p) /\ UNCHANGED events
        /\ InsertEvent(p, target[p], "status_changed", "stale", "approval:expired")
    BY <1>2 DEF MarkStale, WriteStatusEvent, committed, Owed, Idle
  <2>2. Sequel("stale", "approval:expired") = NoKey
    BY DEF Sequel
  <2> QED
    BY <2>1, <2>2 DEF ChainMoves
<1>3. CASE CommitSession(p) \/ ConflictingSweep(p) \/ BreakDeadlock(p) \/ GateFault(p)
  BY <1>3, EndMoves DEF CommitSession, ConflictingSweep, BreakDeadlock, GateFault, Fault
<1> QED
  BY <1>1, <1>2, <1>3 DEF SweeperNext, SweepStep

\* A worker that has started owes the record of the files, and then the
\* completion.
LEMMA WorkerChain ==
  ASSUME SysInv, NEW w \in Workers, WorkerNext(w)
  PROVE  ChainMoves(w)
<1> USE RoleOfProc
<1>1. CASE TakeJob(w) \/ LoadRun(w) \/ AckJob(w)
  BY <1>1 DEF ChainMoves, TakeJob, LoadRun, AckJob, Begin, Idle, Goto, storeVars, Owed
<1>2. CASE WriteFile(w)
  <2>1. pc'[w] = pc[w] /\ UNCHANGED <<target, events, dirtyEvents>>
    BY <1>2, GotoMoves DEF WriteFile, storeVars
  <2> QED
    BY <2>1 DEF ChainMoves
<1>3. CASE RefuseApply(w) \/ CompleteRun(w)
  <2>1. /\ UNCHANGED events
        /\ \/ pc[w] = "apply" /\ InsertEvent(w, target[w], "status_changed", "failed", "fail")
           \/ pc[w] = "complete" /\ InsertEvent(w, target[w], "status_changed", "completed", "complete")
    BY <1>3 DEF RefuseApply, CompleteRun, WriteStatusEvent, committed, Goto
  <2>2. /\ Owed("apply") = NoKey /\ Owed("complete") = "complete"
        /\ Sequel("failed", "fail") = NoKey /\ Sequel("completed", "complete") = NoKey
    BY DEF Owed, Sequel
  <2> QED
    BY <2>1, <2>2 DEF ChainMoves, Idle
<1>4. CASE StartApply(w)
  <2>1. /\ pc[w] = "apply" /\ pc'[w] = "write" /\ UNCHANGED <<target, events>>
        /\ InsertEvent(w, target[w], "status_changed", "applying", "apply-start")
    BY <1>4, GotoMoves DEF StartApply, Goto, WriteStatusEvent, committed
  <2>2. Owed("apply") = NoKey /\ Sequel("applying", "apply-start") = Owed("write")
    BY DEF Owed, Sequel
  <2> QED
    BY <2>1, <2>2 DEF ChainMoves, Idle
<1>5. CASE RecordApplied(w)
  <2>1. /\ pc[w] = "write" /\ pc'[w] = "complete" /\ UNCHANGED <<target, events>>
        /\ InsertEvent(w, target[w], "files_applied", NoStatus, "files-applied")
    BY <1>5, GotoMoves DEF RecordApplied, Goto, RecordEvent
  <2>2. Owed("write") = "files-applied" /\ Sequel(NoStatus, "files-applied") = Owed("complete")
    BY DEF Owed, Sequel, NoStatus
  <2> QED
    BY <2>1, <2>2 DEF ChainMoves, Idle
<1>6. CASE CommitJob(w) \/ SkipJob(w) \/ ConflictingJob(w) \/ UncaughtJobError(w) \/ WorkerFault(w)
  BY <1>6, EndMoves DEF CommitJob, Goto, SkipJob, ConflictingJob, UncaughtJobError, WorkerFault, Fault
<1> QED
  BY <1>1, <1>2, <1>3, <1>4, <1>5, <1>6 DEF WorkerNext, WorkerStep

\* A step of p keeps its chain and those of the committed logs.
LEMMA ChainKept ==
  ASSUME SysInv, Chains, NEW p \in Procs, ChainMoves(p)
  PROVE  /\ Chained(p)'
         /\ \A r \in Runs : \A d \in events'[r] : Followed(events'[r], d)
<1>1. ASSUME UNCHANGED events, dirtyEvents'[p] = dirtyEvents[p],
             Owed(pc[p]) = NoKey \/ (pc'[p] = pc[p] /\ target'[p] = target[p])
      PROVE  Chained(p)'
  <2>1. ASSUME NEW r \in Runs, NEW d \in dirtyEvents[p][r], ~Followed(dirtyEvents[p][r], d)
        PROVE  Owed(pc[p]) # NoKey
    BY <2>1 DEF Chains, Chained, Followed
  <2> QED
    BY <1>1, <2>1 DEF Chains, Chained, Followed
<1>2. ASSUME NEW t, NEW s, NEW k, InsertEvent(p, target[p], t, s, k), Owed(pc[p]) \in {NoKey, k},
             target[p] \in Runs,
             Sequel(s, k) # NoKey => target'[p] = target[p] /\ Owed(pc'[p]) = Sequel(s, k)
      PROVE  Chained(p)'
  <2> DEFINE r == target[p]
             old == dirtyEvents[p][r]
  <2>1. PICK n :
          /\ n.status = s /\ n.key = k /\ n.seq \in Nat
          /\ dirtyEvents' = [dirtyEvents EXCEPT ![p][r] = old \cup {n}]
          /\ \A d \in old : d.seq < n.seq
          /\ \A d \in old : (\A e \in old : e.seq <= d.seq) => n.seq = d.seq + 1
    BY <1>2, InsertedNext
  <2>2. /\ dirtyEvents'[p][r] = old \cup {n}
        /\ \A u \in Runs \ {r} : dirtyEvents'[p][u] = dirtyEvents[p][u]
    BY <1>2, <2>1, CellWritten, SessionTypes DEF StoreTypeOK
  <2>3. ASSUME NEW u \in Runs \ {r}, NEW d \in dirtyEvents[p][u] PROVE Followed(dirtyEvents'[p][u], d)
    BY <2>2 DEF Chains, Chained
  <2>4. ASSUME NEW d \in old PROVE Followed(old \cup {n}, d)
    <3>1. CASE Followed(old, d)
      BY <3>1, FollowedGrows
    <3>2. CASE Owed(pc[p]) = Sequel(d.status, d.key) /\ \A e \in old : e.seq <= d.seq
      BY <1>2, <2>1, <3>2 DEF Followed
    <3> QED
      BY <1>2, <3>1, <3>2 DEF Chains, Chained
  <2>5. /\ \A e \in old \cup {n} : e.seq <= n.seq
        /\ \/ Followed(old \cup {n}, n)
           \/ r = target'[p] /\ Owed(pc'[p]) = Sequel(n.status, n.key)
    <3>1. \A e \in old : e.seq \in Nat
      BY <1>2, SessionTypes DEF StoreTypeOK, Event
    <3>2. \A e \in old \cup {n} : e.seq <= n.seq
      BY <2>1, <3>1
    <3>3. Sequel(s, k) = NoKey => Followed(old \cup {n}, n)
      BY <2>1 DEF Followed
    <3> QED
      BY <1>2, <2>1, <3>2, <3>3
  <2>6. ASSUME NEW u \in Runs, NEW d \in dirtyEvents'[p][u]
        PROVE  \/ Followed(dirtyEvents'[p][u], d)
               \/ /\ u = target'[p] /\ Owed(pc'[p]) = Sequel(d.status, d.key)
                  /\ \A e \in dirtyEvents'[p][u] : e.seq <= d.seq
    <3>1. CASE u # r
      BY <2>3, <2>6, <3>1, <2>2
    <3>2. CASE u = r /\ d \in old
      BY <2>2, <2>4, <3>2
    <3>3. CASE u = r /\ d = n
      BY <2>2, <2>5, <3>3
    <3> QED
      BY <2>2, <2>6, <3>1, <3>2, <3>3
  <2> QED
    BY <2>6 DEF Chained, Followed
<1>3. Ends(p) => Chained(p)'
  BY EndsEffect DEF Chained
<1>4. ASSUME Ends(p), Owed(pc[p]) = NoKey, NEW r \in Runs, NEW d \in events'[r]
      PROVE  Followed(events'[r], d)
  <2>1. events'[r] = events[r] \/ events'[r] = events[r] \cup dirtyEvents[p][r]
    BY <1>4, EndsEffect
  <2>2. \A e \in dirtyEvents[p][r] : Followed(dirtyEvents[p][r], e)
    BY <1>4 DEF Chains, Chained, Followed
  <2>3. \A e \in events[r] : Followed(events[r], e)
    BY DEF Chains
  <2> QED
    BY <1>4, <2>1, <2>2, <2>3, FollowedGrows
<1>5. UNCHANGED events => \A r \in Runs : \A d \in events'[r] : Followed(events'[r], d)
  BY DEF Chains
<1> QED
  BY <1>1, <1>2, <1>3, <1>4, <1>5, SessionTypes DEF ChainMoves

\* A process whose stage and events stay keeps its chain.
LEMMA ChainFrame ==
  ASSUME NEW q \in Procs, Chained(q), pc'[q] = pc[q], target'[q] = target[q],
         dirtyEvents'[q] = dirtyEvents[q]
  PROVE  Chained(q)'
BY DEF Chained, Followed

\* Every step keeps the chains.
LEMMA ChainsStep ==
  ASSUME LifeInv, Chains, [Next]_vars
  PROVE  Chains'
<1> USE DEF LifeInv
<1>1. CASE UNCHANGED <<storeVars, pc, target, expiring, disk, cursor, since>>
  BY <1>1, ChainFrame DEF storeVars, Chains, Followed
<1>2. ASSUME NEW p \in Procs, Acts(p), Apart(p) PROVE Chains'
  <2>1. ChainMoves(p)
    BY <1>2, RunnerChain, DeciderChain, SweeperChain, WorkerChain DEF Acts
  <2>2. /\ Chained(p)'
        /\ \A r \in Runs : \A d \in events'[r] : Followed(events'[r], d)
    BY <2>1, ChainKept
  <2>3. \A q \in Procs \ {p} : Chained(q)'
    BY <1>2, ChainFrame DEF Chains, Apart
  <2> QED
    BY <2>2, <2>3 DEF Chains, Followed
<1> QED
  BY <1>1, <1>2, DraftsStep

\* There are no events at first.
LEMMA ChainsInit == Init => Chains
BY DEF Init, StoreInit, NoEvents, Chains, Chained

\* The invariant of the commands.
LEMMA ChainsInvariant == Spec => []Chains
BY LifeInvariant, ChainsInit, ChainsStep, PTL DEF Spec

\* A committed chain is whole; the decision of an approved run is the approval.
LEMMA ChainsGiveAtomicity ==
  ASSUME LifeInv, Chains
  PROVE  CommandsAreAtomic
<1> SUFFICES ASSUME NEW r \in Runs
             PROVE  /\ HasStatus(events[r], "approved") =>
                         Follows(events[r], "approval:decision", "queued-for-apply")
                    /\ Follows(events[r], "apply-start", "files-applied")
                    /\ Follows(events[r], "files-applied", "complete")
  BY DEF CommandsAreAtomic
<1>1. \A d \in events[r] : Formed(d) /\ Followed(events[r], d)
  BY DEF LifeInv, WellFormed, Chains
<1>2. ASSUME HasStatus(events[r], "approved"), NEW d \in events[r], d.key = "approval:decision"
      PROVE  \E e \in events[r] : e.key = "queued-for-apply" /\ e.seq = d.seq + 1
  <2>1. PICK a \in events[r] : a.status = "approved"
    BY <1>2 DEF HasStatus
  <2>2. a.key = "approval:decision"
    BY <1>1, <2>1 DEF Formed, Forms, NoStatus
  <2>3. d = a
    BY <1>2, <2>2 DEF LifeInv, SysInv, StoreInv, LogsSound, Sound, Sequenced
  <2>4. Sequel(d.status, d.key) = "queued-for-apply" /\ "queued-for-apply" # NoKey
    BY <1>2, <2>1, <2>3 DEF Sequel, NoKey
  <2> QED
    BY <1>1, <2>4 DEF Followed
<1>3. ASSUME NEW d \in events[r], NEW k, NEW m, d.key = k,
             <<k, m>> \in {<<"apply-start", "files-applied">>, <<"files-applied", "complete">>}
      PROVE  \E e \in events[r] : e.key = m /\ e.seq = d.seq + 1
  <2>1. d.status # "approved"
    BY <1>1, <1>3 DEF Formed, Forms, NoStatus
  <2>2. Sequel(d.status, d.key) = m /\ m # NoKey
    BY <1>3, <2>1 DEF Sequel, NoKey
  <2> QED
    BY <1>1, <2>2 DEF Followed
<1> QED
  BY <1>2, <1>3 DEF Follows

\* What one command does is seen whole: an approval with its queueing, the
\* start of an apply with its files and its completion, nothing in between.
THEOREM CommandsAtomic == Spec => []CommandsAreAtomic
BY LifeInvariant, ChainsInvariant, ChainsGiveAtomicity, PTL
=============================================================================
