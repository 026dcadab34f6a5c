----------------------------- MODULE LifeProofs -----------------------------
(***************************************************************************)
(* The life of a run.  What a session has drafted and what it read before  *)
(* decide which of eight outcomes its commit has for a run, so the commits *)
(* implement RunLife; and the two histories of a run, its rows and its     *)
(* log, tell the same.                                                     *)
(***************************************************************************)
EXTENDS DraftProofs

-----------------------------------------------------------------------------
(* What a session counts on when it commits. *)

Asked(r) == "awaiting_approval" \in Turned(events[r])

BaseOK(p) ==
  /\ p \in Runners /\ ~Idle(p) => runs[target[p]] = Absent
  /\ p \in Approvers \cup Rejecters /\ ~Idle(p) => Asked(target[p])
  /\ p \in Sweepers =>
       /\ \A i \in DOMAIN expiring[p] : Asked(expiring[p][i])
       /\ pc[p] \in {"expire", "mark_stale"} => Asked(target[p])
       /\ \A r \in Runs : OwnsApproval(p, r) => Asked(r)
  /\ p \in Workers /\ pc[p] \in {"apply", "write", "complete", "commit"} =>
       "queued" \in Turned(events[target[p]])

Bases == \A p \in Procs : BaseOK(p)

\* What the turns of a run say of its rows and of each other.
HistoryOK(r) ==
  LET T == Turned(events[r])
  IN  /\ runs[r] # Absent => runs[r] \in T \ {"approved", "applying"}
      /\ runs[r] = "awaiting_approval" => T = {"awaiting_approval"}
      /\ approvals[r] # Absent \/ T \cap {"approved", "rejected", "stale"} # {} =>
           "awaiting_approval" \in T
      /\ {"awaiting_approval", "queued"} \subseteq T => "approved" \in T
      /\ "completed" \in T \/ {"awaiting_approval", "failed"} \subseteq T => "queued" \in T
      /\ ~({"approved", "rejected"} \subseteq T)

Histories == \A r \in Runs : HistoryOK(r)

-----------------------------------------------------------------------------
(* Commits. *)

\* A commit gives run r status s, approval a unless it has none, and the turns
\* T, which are new.
Outcome(r, s, a, T) ==
  /\ runs'[r] = s
  /\ approvals'[r] = IF a = Absent THEN approvals[r] ELSE a
  /\ Turned(events'[r]) = Turned(events[r]) \cup T
  /\ T \cap Turned(events[r]) = {}
  /\ T \cap {"approved", "rejected"} # {} => Turned(events[r]) \cap {"approved", "rejected"} = {}

\* The eight commits, and what each finds.
Settles(r) ==
  \/ /\ runs[r] = Absent
     /\ \/ Outcome(r, "failed", Absent, {"failed"})
        \/ Outcome(r, "awaiting_approval", "pending", {"awaiting_approval"})
        \/ Outcome(r, "queued", Absent, {"queued"})
  \/ /\ Asked(r)
     /\ \/ Outcome(r, "queued", "approved", {"approved", "queued"})
        \/ Outcome(r, "rejected", "rejected", {"rejected"})
        \/ Outcome(r, "stale", "expired", {"stale"})
  \/ /\ "queued" \in Turned(events[r])
     /\ \/ Outcome(r, "completed", Absent, {"applying", "completed"})
        \/ Outcome(r, "failed", Absent, {"failed"})

Stays(r) == runs'[r] = runs[r] /\ approvals'[r] = approvals[r] /\ events'[r] = events[r]

\* A key of an open transaction is not among the committed ones.
LEMMA KeysAreNew ==
  ASSUME SysInv, NEW p \in Procs, NEW r \in Runs, NEW d \in dirtyEvents[p][r], NEW e \in events[r]
  PROVE  d.key # e.key
<1>1. d \in SeenLog(p, r) /\ e \in SeenLog(p, r) /\ Sequenced(SeenLog(p, r))
  BY DEF SeenLog, SysInv, StoreInv, LogsSound, Sound
<1>2. e.seq < d.seq /\ e.seq \in Nat
  BY DEF SysInv, StoreInv, StoreTypeOK, NewAfterOld, Event
<1> QED
  BY <1>1, <1>2 DEF Sequenced

\* Neither, then, are its turns, and the two decisions count as one.
LEMMA TurnsAreNew ==
  ASSUME SysInv, WellFormed, NEW p \in Procs, NEW r \in Runs
  PROVE  /\ Turned(dirtyEvents[p][r]) \cap Turned(events[r]) = {}
         /\ Turned(dirtyEvents[p][r]) \cap {"approved", "rejected"} # {} =>
              Turned(events[r]) \cap {"approved", "rejected"} = {}
<1>1. ASSUME NEW s \in Turned(dirtyEvents[p][r]), NEW t \in Turned(events[r]),
             s = t \/ {s, t} \subseteq {"approved", "rejected"}
      PROVE  FALSE
  <2>1. PICK d \in dirtyEvents[p][r] : d.status = s
    BY DEF Turned
  <2>2. PICK e \in events[r] : e.status = t
    BY DEF Turned
  <2>3. s \in Turns /\ t \in Turns
    BY DEF Turned
  <2>4. Formed(d) /\ Formed(e)
    BY DEF WellFormed
  <2>5. d.key = e.key
    BY <1>1, <2>1, <2>2, <2>3, <2>4 DEF Formed, Forms, Turns, Statuses, NoStatus
  <2> QED
    BY <2>5, KeysAreNew
<1> QED
  BY <1>1

\* The outcome of a commit is the draft.
LEMMA CommitOutcome ==
  ASSUME SysInv, WellFormed, NEW p \in Procs, Commit(p), NEW r \in Runs, NEW s, NEW a, NEW T,
         Wrote(p, r, s, a, T), s # Absent
  PROVE  Outcome(r, s, a, T)
<1>1. /\ runs'[r] = s /\ approvals'[r] = IF a = Absent THEN approvals[r] ELSE a
      /\ events'[r] = events[r] \cup dirtyEvents[p][r]
  BY DEF Commit, Overwrite, SeenLog, Wrote
<1>2. Turned(events'[r]) = Turned(events[r]) \cup T
  BY <1>1, TurnedUnion DEF Wrote
<1>3. /\ T \cap Turned(events[r]) = {}
      /\ T \cap {"approved", "rejected"} # {} => Turned(events[r]) \cap {"approved", "rejected"} = {}
  BY TurnsAreNew DEF Wrote
<1> QED
  BY <1>1, <1>2, <1>3 DEF Outcome

\* Without a draft there is none.
LEMMA CommitNothing ==
  ASSUME SysInv, NEW p \in Procs, Commit(p), NEW r \in Runs, Untouched(p, r)
  PROVE  Stays(r)
<1>1. dirtyEvents[p][r] = {}
  BY DEF Untouched, Wrote, SysInv, StoreInv, WritersOwn, OwnsRun
<1> QED
  BY <1>1 DEF Commit, Overwrite, SeenLog, Untouched, Wrote, Stays

\* Every step leaves what is committed, or is the commit of a session.
LEMMA CommitOrNot ==
  ASSUME SysInv, NEW p \in Procs, Acts(p)
  PROVE  UNCHANGED <<runs, approvals, events>> \/ (pc[p] = "commit" /\ Commit(p))
<1>1. CASE RunnerNext(p)
  <2>1. CASE CreateRun(p) \/ FetchTask(p) \/ LoadPermissions(p) \/ BuildWorldModel(p)
             \/ ValidateProposal(p) \/ EnqueueApply(p) \/ RouteTask(p) \/ ProposeChanges(p)
             \/ UncaughtError(p) \/ RunFault(p)
    BY <2>1 DEF CreateRun, InsertRun, FetchTask, LoadPermissions, BuildWorldModel, ValidateProposal,
                Proceed, EnqueueApply, RouteTask, ProposeChanges, RecordEvent, UncaughtError,
                RunFault, Fault, AbortSession, Rollback, storeVars, committed
  <2>2. CASE StartRun(p) \/ FailRun(p) \/ QueueRun(p) \/ RequestApproval(p)
    BY <2>2 DEF StartRun, FailRun, QueueRun, RequestApproval, WriteStatusEvent, committed
  <2> QED
    BY <1>1, <2>1, <2>2 DEF RunnerNext, RunStep, CommitSession
<1>2. CASE DeciderNext(p)
  BY <1>2 DEF DeciderNext, DecideStep, CommitSession, ReadApproval, RecordDecision, QueueApproved,
              WriteStatusEvent, EnqueueApply, ConflictingDecision, GateFault, Fault,
              AbortSession, Rollback, storeVars, committed
<1>3. CASE SweeperNext(p)
  BY <1>3 DEF SweeperNext, SweepStep, CommitSession, SelectOverdue, ExpireApproval, MarkStale,
              WriteStatusEvent, ConflictingSweep, BreakDeadlock, GateFault, Fault,
              AbortSession, Rollback, storeVars, committed
<1>4. CASE WorkerNext(p)
  <2>1. CASE TakeJob(p) \/ LoadRun(p) \/ WriteFile(p) \/ AckJob(p) \/ CommitJob(p)
    BY <2>1 DEF TakeJob, LoadRun, WriteFile, AckJob, CommitJob, Goto, storeVars
  <2>2. CASE RefuseApply(p) \/ StartApply(p) \/ CompleteRun(p) \/ RecordApplied(p)
    BY <2>2 DEF RefuseApply, StartApply, CompleteRun, RecordApplied, WriteStatusEvent, RecordEvent,
                committed
  <2>3. CASE SkipJob(p) \/ ConflictingJob(p) \/ UncaughtJobError(p) \/ WorkerFault(p)
    BY <2>3 DEF SkipJob, ConflictingJob, UncaughtJobError, WorkerFault, Fault, AbortSession, Rollback, committed
  <2> QED
    BY <1>4, <2>1, <2>2, <2>3 DEF WorkerNext, WorkerStep
<1> QED
  BY <1>1, <1>2, <1>3, <1>4 DEF Acts

\* A commit settles each run it touches.
LEMMA CommitSettles ==
  ASSUME SysInv, WellFormed, NEW p \in Procs, DraftOK(p), BaseOK(p), pc[p] = "commit", Commit(p),
         NEW r \in Runs
  PROVE  Stays(r) \/ Settles(r)
<1> USE RoleOfProc DEF Absent
<1>1. CASE Untouched(p, r)
  BY <1>1, CommitNothing
<1>2. CASE p \notin Sweepers /\ r # target[p]
  BY <1>2, CommitNothing DEF DraftOK
<1>3. CASE r = target[p] /\ p \in Runners
  <2>1. runs[r] = Absent
    BY <1>3 DEF BaseOK, Idle
  <2> QED
    BY <1>3, <2>1, CommitOutcome DEF DraftOK, RunnerDraft, Settles
<1>4. CASE r = target[p] /\ p \in Approvers \cup Rejecters
  <2>1. Asked(r)
    BY <1>4 DEF BaseOK, Idle
  <2> QED
    BY <1>4, <2>1, CommitOutcome DEF DraftOK, DeciderDraft, Settles
<1>5. CASE r = target[p] /\ p \in Workers
  <2>1. "queued" \in Turned(events[r])
    BY <1>5 DEF BaseOK
  <2> QED
    BY <1>5, <2>1, CommitOutcome DEF DraftOK, WorkerDraft, Settles
<1>6. CASE ~Untouched(p, r) /\ p \in Sweepers
  <2>1. Wrote(p, r, "stale", "expired", {"stale"})
    BY <1>6 DEF DraftOK, SweeperDraft
  <2>2. Asked(r)
    BY <1>6, <2>1 DEF BaseOK, OwnsApproval, Wrote
  <2> QED
    BY <2>1, <2>2, CommitOutcome DEF Settles
<1> QED
  BY <1>1, <1>2, <1>3, <1>4, <1>5, <1>6, RolesAssumption

\* So does every step of a session, and it leaves the runs others hold.
LEMMA ActSettles ==
  ASSUME SysInv, WellFormed, Drafts, Bases, NEW p \in Procs, Acts(p)
  PROVE  /\ \A r \in Runs : Stays(r) \/ Settles(r)
         /\ \A q \in Procs \ {p}, r \in Runs : OwnsRun(q, r) => runs'[r] = runs[r]
<1>1. CASE UNCHANGED <<runs, approvals, events>>
  BY <1>1 DEF Stays
<1>2. CASE pc[p] = "commit" /\ Commit(p)
  <2>1. \A r \in Runs : Stays(r) \/ Settles(r)
    BY <1>2, CommitSettles DEF Drafts, Bases
  <2>2. \A r \in Runs : ~OwnsRun(p, r) => runs'[r] = runs[r]
    BY <1>2, CommitKeepsInv DEF SysInv
  <2> QED
    BY <2>1, <2>2 DEF SysInv, StoreInv, OneOwner
<1> QED
  BY <1>1, <1>2, CommitOrNot

\* So does every step.
LEMMA StepSettles ==
  ASSUME SysInv, WellFormed, Drafts, Bases, [Next]_vars
  PROVE  \A r \in Runs : Stays(r) \/ Settles(r)
<1>1. CASE UNCHANGED storeVars
  BY <1>1 DEF storeVars, Stays
<1> QED
  BY <1>1, ActSettles, DraftsStep

\* What a run has gone through it has gone through.
LEMMA TurnsGrow ==
  ASSUME NEW r \in Runs, Stays(r) \/ Settles(r)
  PROVE  Turned(events[r]) \subseteq Turned(events'[r])
BY DEF Stays, Settles, Outcome

\* Each outcome keeps the history of its run.
LEMMA HistoryStep ==
  ASSUME NEW r \in Runs, HistoryOK(r), Stays(r) \/ Settles(r), runs[r] = Absent => Turned(events[r]) = {}
  PROVE  HistoryOK(r)'
<1>1. CASE Stays(r)
  BY <1>1 DEF Stays, HistoryOK
<1>2. CASE Settles(r) /\ runs[r] = Absent /\ ~Asked(r) /\ "queued" \notin Turned(events[r])
  BY <1>2 DEF Settles, Outcome, HistoryOK, Asked, Absent
<1>3. CASE Asked(r) /\ \/ Outcome(r, "queued", "approved", {"approved", "queued"})
                       \/ Outcome(r, "rejected", "rejected", {"rejected"})
                       \/ Outcome(r, "stale", "expired", {"stale"})
  BY <1>3 DEF Outcome, HistoryOK, Asked, Absent
<1>4. CASE /\ "queued" \in Turned(events[r])
           /\ \/ Outcome(r, "completed", Absent, {"applying", "completed"})
              \/ Outcome(r, "failed", Absent, {"failed"})
  BY <1>4 DEF Outcome, HistoryOK, Asked, Absent
<1> QED
  BY <1>1, <1>2, <1>3, <1>4 DEF Settles, Asked

\* A run that is not committed has no committed events.
LEMMA NoRowNoTurns ==
  ASSUME SysInv, NEW r \in Runs, runs[r] = Absent
  PROVE  events[r] = {} /\ Turned(events[r]) = {}
BY TurnedNone DEF SysInv, StoreInv, EventsHaveRun

-----------------------------------------------------------------------------
(* What a session counts on lasts until it commits. *)

\* What does not depend on the process that steps: it stays asked, it stays
\* queued, and a new run is not committed by anyone else.
LEMMA BaseFrame ==
  ASSUME SysInv, NEW q \in Procs, DraftOK(q), BaseOK(q), pc'[q] = pc[q], target'[q] = target[q],
         dirtyApprovals'[q] = dirtyApprovals[q], q \in Sweepers => expiring'[q] = expiring[q],
         \A r \in Runs : OwnsRun(q, r) => runs'[r] = runs[r],
         \A r \in Runs : Turned(events[r]) \subseteq Turned(events'[r])
  PROVE  BaseOK(q)'
<1>0. /\ ~Idle(q) => target[q] \in Runs
      /\ q \in Sweepers => expiring[q] \in Seq(Runs)
  BY SessionTypes
<1>1. \A r \in Runs : Asked(r) => Asked(r)'
  BY DEF Asked
<1>2. q \in Runners /\ ~Idle(q) => OwnsRun(q, target[q])
  <2> SUFFICES ASSUME q \in Runners, ~Idle(q) PROVE OwnsRun(q, target[q])
    OBVIOUS
  <2>1. pc[q] \in Creating \cup {"enqueue", "commit"}
    BY StagesOfRole DEF SysInv, TypeOK, Idle
  <2>2. pc[q] \in Creating => OwnsRun(q, target[q])
    BY DEF SysInv, LockDiscipline, RowsHeld
  <2> QED
    BY <2>1, <2>2 DEF DraftOK, RunnerDraft, Wrote, OwnsRun, Absent
<1>3. (q \in Runners /\ ~Idle(q) => runs[target[q]] = Absent)'
  BY <1>0, <1>2 DEF BaseOK, Idle
<1>4. (q \in Approvers \cup Rejecters /\ ~Idle(q) => Asked(target[q]))'
  BY <1>0, <1>1 DEF BaseOK, Idle, Asked
<1>5. q \in Sweepers =>
        /\ \A i \in DOMAIN expiring'[q] : "awaiting_approval" \in Turned(events'[expiring'[q][i]])
        /\ pc'[q] \in {"expire", "mark_stale"} => "awaiting_approval" \in Turned(events'[target'[q]])
        /\ \A r \in Runs : OwnsApproval(q, r)' => "awaiting_approval" \in Turned(events'[r])
  <2> SUFFICES ASSUME q \in Sweepers
               PROVE  /\ \A i \in DOMAIN expiring[q] :
                           "awaiting_approval" \in Turned(events'[expiring[q][i]])
                      /\ pc[q] \in {"expire", "mark_stale"} =>
                           "awaiting_approval" \in Turned(events'[target[q]])
                      /\ \A r \in Runs : OwnsApproval(q, r)' =>
                           "awaiting_approval" \in Turned(events'[r])
    OBVIOUS
  <2>1. \A i \in DOMAIN expiring[q] : expiring[q][i] \in Runs /\ Asked(expiring[q][i])
    BY <1>0 DEF BaseOK
  <2>2. \A r \in Runs : OwnsApproval(q, r)' => Asked(r)
    BY DEF BaseOK, OwnsApproval
  <2>3. pc[q] \in {"expire", "mark_stale"} => target[q] \in Runs /\ Asked(target[q])
    BY <1>0 DEF BaseOK, Idle
  <2> QED
    BY <2>1, <2>2, <2>3 DEF Asked
<1>6. (q \in Workers /\ pc[q] \in {"apply", "write", "complete", "commit"} =>
         "queued" \in Turned(events[target[q]]))'
  BY <1>0 DEF BaseOK, Idle
<1> QED
  BY <1>3, <1>4, <1>5, <1>6 DEF BaseOK, Asked

\* `idemra run' works on a run nobody has committed.
LEMMA RunnerBase ==
  ASSUME SysInv, NEW p \in Runners, RunnerNext(p), BaseOK(p)
  PROVE  BaseOK(p)'
<1> USE RoleOfProc
<1>0. p \notin Approvers \cup Rejecters \cup Sweepers \cup Workers
  BY OneRole
<1>1. CASE CreateRun(p)
  <2>1. PICK r \in Runs \ issued, stage \in {"fetch", "route"} : Begin(p, r, stage) /\ InsertRun(p, r)
    BY <1>1 DEF CreateRun
  <2>2. target'[p] = r /\ UNCHANGED runs
    BY <2>1, SessionTypes DEF Begin, InsertRun
  <2>3. runs[r] = Absent
    BY DEF SysInv, LockDiscipline, RowsKnown
  <2> QED
    BY <1>0, <2>2, <2>3 DEF BaseOK
<1>2. CASE FetchTask(p) \/ LoadPermissions(p) \/ BuildWorldModel(p) \/ ValidateProposal(p)
           \/ RouteTask(p) \/ ProposeChanges(p) \/ StartRun(p) \/ FailRun(p) \/ QueueRun(p)
           \/ RequestApproval(p)
  <2>1. UNCHANGED runs
    BY <1>2 DEF FetchTask, LoadPermissions, BuildWorldModel, ValidateProposal, Proceed, RouteTask,
                ProposeChanges, StartRun, FailRun, QueueRun, RequestApproval, RecordEvent,
                WriteStatusEvent, storeVars, committed
  <2>2. \E from \in Creating : \E to : Goto(p, from, to)
    BY <1>2 DEF FetchTask, LoadPermissions, BuildWorldModel, ValidateProposal, Proceed, RouteTask,
                ProposeChanges, StartRun, FailRun, QueueRun, RequestApproval, Creating
  <2>3. ~Idle(p) /\ UNCHANGED target
    BY <2>2 DEF Goto, Creating, Idle
  <2> QED
    BY <1>0, <2>1, <2>3 DEF BaseOK
<1>3. CASE EnqueueApply(p)
  <2>1. ~Idle(p) /\ UNCHANGED <<target, runs>>
    BY <1>3 DEF EnqueueApply, Idle, storeVars
  <2> QED
    BY <1>0, <2>1 DEF BaseOK
<1>4. CASE CommitSession(p) \/ UncaughtError(p) \/ RunFault(p)
  <2>1. Idle(p)'
    BY <1>4, CloseMoves DEF CommitSession, UncaughtError, RunFault, Fault, AbortSession, Idle
  <2> QED
    BY <1>0, <2>1 DEF BaseOK
<1> QED
  BY <1>1, <1>2, <1>3, <1>4 DEF RunnerNext, RunStep

\* A decider has read the approval of a run that was asked about.
LEMMA DeciderBase ==
  ASSUME SysInv, Histories, NEW p \in Approvers \cup Rejecters, DeciderNext(p), BaseOK(p),
         \A r \in Runs : Turned(events[r]) \subseteq Turned(events'[r])
  PROVE  BaseOK(p)'
<1> USE RoleOfProc
<1>0. p \notin Runners \cup Sweepers \cup Workers
  BY OneRole
<1>1. CASE ReadApproval(p)
  <2>1. PICK r \in Runs : approvals[r] = "pending" /\ Begin(p, r, "decide")
    BY <1>1 DEF ReadApproval
  <2>2. target'[p] = r
    BY <2>1, SessionTypes DEF Begin
  <2>3. "awaiting_approval" \in Turned(events[r])
    BY <2>1 DEF Histories, HistoryOK, Absent
  <2> QED
    BY <1>0, <2>2, <2>3 DEF BaseOK, Asked
<1>2. CASE RecordDecision(p) \/ QueueApproved(p) \/ EnqueueApply(p)
  <2>1. ~Idle(p) /\ UNCHANGED target
    BY <1>2 DEF RecordDecision, QueueApproved, EnqueueApply, Goto, Idle
  <2>2. target[p] \in Runs /\ Asked(target[p])
    BY <2>1, SessionTypes DEF BaseOK
  <2> QED
    BY <1>0, <2>1, <2>2 DEF BaseOK, Asked
<1>3. CASE CommitSession(p) \/ ConflictingDecision(p) \/ GateFault(p)
  <2>1. Idle(p)'
    BY <1>3, CloseMoves DEF CommitSession, ConflictingDecision, GateFault, Fault,
                            AbortSession, Idle
  <2> QED
    BY <1>0, <2>1 DEF BaseOK
<1> QED
  BY <1>1, <1>2, <1>3 DEF DeciderNext, DecideStep

\* A sweep has selected runs that were asked about.
LEMMA SweeperBase ==
  ASSUME SysInv, Histories, NEW p \in Sweepers, SweeperNext(p), BaseOK(p), DraftOK(p),
         \A r \in Runs : Turned(events[r]) \subseteq Turned(events'[r])
  PROVE  BaseOK(p)'
<1> USE RoleOfProc
<1>0. /\ p \notin Runners \cup Approvers \cup Rejecters \cup Workers
      /\ expiring[p] \in Seq(Runs) /\ StoreTypeOK
      /\ \A i \in DOMAIN expiring[p] : Asked(expiring[p][i])
      /\ pc[p] \in {"expire", "mark_stale"} =>
           target[p] \in Runs /\ Asked(target[p]) /\ expiring[p] # <<>>
      /\ \A r \in Runs : OwnsApproval(p, r) => Asked(r)
      /\ \A r \in Runs : Asked(r) => "awaiting_approval" \in Turned(events'[r])
  BY OneRole, SessionTypes DEF BaseOK, Asked, Idle, SysInv, LockDiscipline, RowsKnown
<1> SUFFICES
      /\ \A i \in DOMAIN expiring'[p] : expiring'[p][i] \in Runs /\ Asked(expiring'[p][i])
      /\ pc'[p] \in {"expire", "mark_stale"} => target'[p] \in Runs /\ Asked(target'[p])
      /\ \A r \in Runs : OwnsApproval(p, r)' => Asked(r)
  BY <1>0 DEF BaseOK, Asked
<1>1. CASE SelectOverdue(p)
  <2>1. PICK rows \in SetToSeqs(Due) :
          /\ Begin(p, Head(rows), "expire") /\ expiring' = [expiring EXCEPT ![p] = rows]
          /\ UNCHANGED storeVars /\ Due # {}
    BY <1>1 DEF SelectOverdue
  <2>2. rows \in Seq(Due) /\ Head(rows) \in Due
    BY <2>1, SelectionIsSeq, DueFinite DEF SysInv
  <2>3. \A r \in Due : r \in Runs /\ Asked(r)
    BY DEF Due, Histories, HistoryOK, Asked, Absent
  <2>4. expiring'[p] = rows /\ target'[p] = Head(rows)
    BY <2>1, SessionTypes DEF Begin
  <2>5. \A i \in DOMAIN rows : rows[i] \in Due
    BY <2>2
  <2>6. \A r \in Runs : ~OwnsApproval(p, r)'
    BY <2>1 DEF Begin, Idle, DraftOK, Untouched, Wrote, OwnsApproval, storeVars
  <2> QED
    BY <2>2, <2>3, <2>4, <2>5, <2>6
<1>2. CASE ExpireApproval(p)
  <2>1. /\ pc[p] = "expire" /\ UNCHANGED <<target, expiring>>
        /\ dirtyApprovals' = [dirtyApprovals EXCEPT ![p][target[p]] = "expired"]
    BY <1>2 DEF ExpireApproval, Goto, SetApproval, gateVars
  <2>2. \A u \in Runs \ {target[p]} : dirtyApprovals'[p][u] = dirtyApprovals[p][u]
    BY <1>0, <2>1, CellWritten DEF StoreTypeOK
  <2>3. \A i \in DOMAIN expiring[p] : expiring[p][i] \in Runs
    BY <1>0
  <2> QED
    BY <1>0, <2>1, <2>2, <2>3 DEF OwnsApproval
<1>3. CASE MarkStale(p)
  <2> DEFINE rest == Tail(expiring[p])
  <2>1. /\ pc[p] = "mark_stale" /\ expiring' = [expiring EXCEPT ![p] = rest]
        /\ IF rest = <<>>
           THEN pc' = [pc EXCEPT ![p] = "commit"] /\ UNCHANGED target
           ELSE pc' = [pc EXCEPT ![p] = "expire"] /\ target' = [target EXCEPT ![p] = Head(rest)]
        /\ UNCHANGED dirtyApprovals
    BY <1>3 DEF MarkStale
  <2>2. \A i \in DOMAIN rest : rest[i] \in Runs /\ Asked(rest[i])
    BY <1>0, <2>1
  <2>3. rest \in Seq(Runs) /\ (rest # <<>> => Head(rest) = rest[1] /\ 1 \in DOMAIN rest)
    BY <1>0, <2>1
  <2> HIDE DEF rest
  <2>4. /\ rest = <<>> => pc'[p] = "commit"
        /\ rest # <<>> => target'[p] = Head(rest)
        /\ expiring'[p] = rest
    BY <2>1, SessionTypes
  <2> QED
    BY <1>0, <2>1, <2>2, <2>3, <2>4 DEF OwnsApproval
<1>4. CASE \/ CommitSession(p) /\ UNCHANGED gateVars
           \/ ConflictingSweep(p) \/ BreakDeadlock(p) \/ GateFault(p)
  <2>1. pc'[p] = "idle" /\ \A r \in Runs : Untouched(p, r)'
    BY <1>4, CloseMoves, DiscardDrafted, SessionTypes
       DEF CommitSession, Commit, ConflictingSweep, BreakDeadlock, GateFault, Fault, AbortSession,
           Rollback
  <2>2. expiring'[p] = expiring[p] \/ expiring'[p] = <<>>
    BY <1>4, SessionTypes DEF ConflictingSweep, BreakDeadlock, GateFault, gateVars
  <2>3. \A i \in DOMAIN expiring'[p] : expiring'[p][i] \in Runs /\ Asked(expiring'[p][i])
    BY <1>0, <2>2
  <2> QED
    BY <2>1, <2>3 DEF OwnsApproval, Untouched, Wrote
<1> QED
  BY <1>1, <1>2, <1>3, <1>4 DEF SweeperNext, SweepStep

\* A job works on a run that has been queued.
LEMMA WorkerBase ==
  ASSUME SysInv, Histories, NEW w \in Workers, WorkerNext(w), BaseOK(w),
         \A r \in Runs : Turned(events[r]) \subseteq Turned(events'[r])
  PROVE  BaseOK(w)'
<1> USE RoleOfProc
<1>0. /\ w \notin Runners \cup Approvers \cup Rejecters \cup Sweepers
      /\ ~Idle(w) => target[w] \in Runs
  BY OneRole, SessionTypes
<1>1. CASE LoadRun(w)
  <2>1. runs[target[w]] = "queued" /\ UNCHANGED target /\ ~Idle(w)
    BY <1>1 DEF LoadRun, Goto, Idle
  <2>2. "queued" \in Turned(events[target[w]])
    BY <1>0, <2>1 DEF Histories, HistoryOK, Absent
  <2> QED
    BY <1>0, <2>1, <2>2 DEF BaseOK
<1>2. CASE RefuseApply(w) \/ StartApply(w) \/ WriteFile(w) \/ RecordApplied(w) \/ CompleteRun(w)
  <2>1. pc[w] \in {"apply", "write", "complete"} /\ UNCHANGED target
    BY <1>2 DEF RefuseApply, StartApply, WriteFile, RecordApplied, CompleteRun, Goto
  <2> QED
    BY <1>0, <2>1 DEF BaseOK, Idle
<1>3. CASE TakeJob(w) \/ SkipJob(w) \/ ConflictingJob(w) \/ CommitJob(w) \/ AckJob(w)
           \/ UncaughtJobError(w) \/ WorkerFault(w)
  <2>1. pc'[w] \in {"load", "idle", "ack"}
    BY <1>3, CloseMoves, GotoMoves, SessionTypes
       DEF TakeJob, Begin, SkipJob, ConflictingJob, CommitJob, AckJob, UncaughtJobError, WorkerFault,
           Fault, AbortSession
  <2> QED
    BY <1>0, <2>1 DEF BaseOK
<1> QED
  BY <1>1, <1>2, <1>3 DEF WorkerNext, WorkerStep

\* A step of p leaves the selections of the other sweeps.
LEMMA SelectionsApart ==
  ASSUME SysInv, NEW p \in Procs, Acts(p), NEW q \in Sweepers \ {p}
  PROVE  expiring'[q] = expiring[q]
<1>0. expiring \in [Sweepers -> Seq(Runs)]
  BY SessionTypes
<1>1. CASE RunnerNext(p) \/ WorkerNext(p)
  BY <1>1 DEF RunnerNext, WorkerNext, gateVars
<1>2. CASE DeciderNext(p)
  BY <1>0, <1>2 DEF DeciderNext, DecideStep, ReadApproval, RecordDecision, QueueApproved,
                    ConflictingDecision, GateFault, gateVars
<1>3. CASE SweeperNext(p)
  BY <1>0, <1>3 DEF SweeperNext, SweepStep, SelectOverdue, ExpireApproval, MarkStale,
                    ConflictingSweep, BreakDeadlock, GateFault, gateVars
<1> QED
  BY <1>1, <1>2, <1>3 DEF Acts

LifeInv == SysInv /\ WellFormed /\ Drafts /\ Bases /\ Histories

\* The initial states.
LEMMA LifeInit == Init => Bases /\ Histories
<1> SUFFICES ASSUME Init PROVE Bases /\ Histories
  OBVIOUS
<1> USE RoleOfProc
<1>1. /\ \A p \in Procs : pc[p] = "idle"
      /\ \A p \in Sweepers : expiring[p] = <<>>
      /\ \A r \in Runs : runs[r] = Absent /\ approvals[r] = Absent /\ Turned(events[r]) = {}
      /\ \A p \in Procs, r \in Runs : ~OwnsApproval(p, r)
  BY TurnedNone DEF Init, StoreInit, SessionInit, GateInit, NoWrites, NoEvents, OwnsApproval
<1>2. Histories
  BY <1>1 DEF Histories, HistoryOK, Absent
<1>3. Bases
  BY <1>1 DEF Bases, BaseOK, Idle
<1> QED
  BY <1>2, <1>3

\* Every step keeps what the sessions count on, and the histories.
LEMMA LifeStep == LifeInv /\ [Next]_vars => Bases' /\ Histories'
<1> SUFFICES ASSUME LifeInv, [Next]_vars PROVE Bases' /\ Histories'
  OBVIOUS
<1> USE DEF LifeInv
<1>1. \A r \in Runs : Stays(r) \/ Settles(r)
  BY StepSettles
<1>2. \A r \in Runs : Turned(events[r]) \subseteq Turned(events'[r])
  BY <1>1, TurnsGrow
<1>3. Histories'
  <2>1. ASSUME NEW r \in Runs PROVE HistoryOK(r)'
    BY <1>1, HistoryStep, NoRowNoTurns DEF Histories
  <2> QED
    BY <2>1 DEF Histories
<1>4. Bases'
  <2>1. CASE UNCHANGED <<storeVars, pc, target, expiring, disk, cursor, since>>
    BY <2>1 DEF Bases, BaseOK, Asked, OwnsApproval, Idle, storeVars
  <2>2. ASSUME NEW p \in Procs, Acts(p), Apart(p) PROVE Bases'
    <3>1. BaseOK(p)'
      BY <1>2, <2>2, RunnerBase, DeciderBase, SweeperBase, WorkerBase DEF Acts, Drafts, Bases
    <3>2. ASSUME NEW q \in Procs \ {p} PROVE BaseOK(q)'
      <4>1. /\ pc'[q] = pc[q] /\ target'[q] = target[q] /\ dirtyApprovals'[q] = dirtyApprovals[q]
            /\ DraftOK(q) /\ BaseOK(q)
        BY <2>2 DEF Apart, Drafts, Bases
      <4>2. q \in Sweepers => expiring'[q] = expiring[q]
        BY <2>2, SelectionsApart
      <4>3. \A r \in Runs : OwnsRun(q, r) => runs'[r] = runs[r]
        BY <2>2, ActSettles
      <4> QED
        BY <1>2, <4>1, <4>2, <4>3, BaseFrame
    <3> QED
      BY <3>1, <3>2 DEF Bases
  <2> QED
    BY <2>1, <2>2, DraftsStep
<1> QED
  BY <1>3, <1>4

\* The sessions and the histories keep to this in every behaviour.
LEMMA LifeInvariant == Spec => []LifeInv
<1>1. Init => Drafts /\ Bases /\ Histories
  BY DraftsInit, LifeInit
<1>2. SysInv /\ WellFormed /\ Drafts /\ Bases /\ Histories /\ SysInv' /\ WellFormed' /\ [Next]_vars =>
        (Drafts /\ Bases /\ Histories)'
  BY DraftsStep, LifeStep DEF LifeInv
<1> QED
  BY <1>1, <1>2, SysInvariant, EventsWellFormed, PTL DEF Spec, LifeInv

-----------------------------------------------------------------------------
(* The refinement. *)

MilestoneKeys == {"await-approval", "approval:decision", "approval:expired",
                  "queued-for-apply", "complete", "fail"}

Done(L) == {e.key : e \in L} \cap MilestoneKeys

\* The milestones a log has passed, by its turns.
LEMMA DoneByTurns ==
  ASSUME NEW L, \A e \in L : Formed(e)
  PROVE  /\ "await-approval" \in Done(L) <=> "awaiting_approval" \in Turned(L)
         /\ "approval:decision" \in Done(L) <=> "approved" \in Turned(L) \/ "rejected" \in Turned(L)
         /\ "approval:expired" \in Done(L) <=> "stale" \in Turned(L)
         /\ "queued-for-apply" \in Done(L) <=> "queued" \in Turned(L)
         /\ "complete" \in Done(L) <=> "completed" \in Turned(L)
         /\ "fail" \in Done(L) <=> "failed" \in Turned(L)
         /\ Done(L) \subseteq MilestoneKeys
<1>1. \A e \in L : /\ e.key = "await-approval" <=> e.status = "awaiting_approval"
                   /\ e.key = "approval:decision" <=> e.status \in {"approved", "rejected"}
                   /\ e.key = "approval:expired" <=> e.status = "stale"
                   /\ e.key = "queued-for-apply" <=> e.status = "queued"
                   /\ e.key = "complete" <=> e.status = "completed"
                   /\ e.key = "fail" <=> e.status = "failed"
  BY DEF Formed, Forms, NoStatus
<1> QED
  BY <1>1 DEF Done, MilestoneKeys, Turned, Turns, Statuses

\* Passing milestones, as the log tells it.
Passes(r, M, s) ==
  /\ M \cap Done(events[r]) = {}
  /\ Done(events'[r]) = Done(events[r]) \cup M
  /\ runs'[r] = s

\* Each outcome passes the milestones of its turns.
LEMMA OutcomePasses ==
  ASSUME WellFormed, WellFormed', NEW r \in Runs, NEW s, NEW a
  PROVE  /\ Outcome(r, s, a, {"awaiting_approval"}) => Passes(r, {"await-approval"}, s)
         /\ Outcome(r, s, a, {"queued"}) => Passes(r, {"queued-for-apply"}, s)
         /\ Outcome(r, s, a, {"failed"}) => Passes(r, {"fail"}, s)
         /\ Outcome(r, s, a, {"approved", "queued"}) =>
              Passes(r, {"approval:decision", "queued-for-apply"}, s)
         /\ Outcome(r, s, a, {"rejected"}) => Passes(r, {"approval:decision"}, s)
         /\ Outcome(r, s, a, {"stale"}) => Passes(r, {"approval:expired"}, s)
         /\ Outcome(r, s, a, {"applying", "completed"}) => Passes(r, {"complete"}, s)
<1>1. (\A e \in events[r] : Formed(e)) /\ (\A e \in events'[r] : Formed(e))
  BY DEF WellFormed
<1> DEFINE D == Done(events[r])
           E == Done(events'[r])
<1>2. /\ "await-approval" \in D <=> "awaiting_approval" \in Turned(events[r])
      /\ "approval:decision" \in D <=>
           "approved" \in Turned(events[r]) \/ "rejected" \in Turned(events[r])
      /\ "approval:expired" \in D <=> "stale" \in Turned(events[r])
      /\ "queued-for-apply" \in D <=> "queued" \in Turned(events[r])
      /\ "complete" \in D <=> "completed" \in Turned(events[r])
      /\ "fail" \in D <=> "failed" \in Turned(events[r])
      /\ D \subseteq MilestoneKeys
  BY <1>1, DoneByTurns
<1>3. /\ "await-approval" \in E <=> "awaiting_approval" \in Turned(events'[r])
      /\ "approval:decision" \in E <=>
           "approved" \in Turned(events'[r]) \/ "rejected" \in Turned(events'[r])
      /\ "approval:expired" \in E <=> "stale" \in Turned(events'[r])
      /\ "queued-for-apply" \in E <=> "queued" \in Turned(events'[r])
      /\ "complete" \in E <=> "completed" \in Turned(events'[r])
      /\ "fail" \in E <=> "failed" \in Turned(events'[r])
      /\ E \subseteq MilestoneKeys
  BY <1>1, DoneByTurns
<1> HIDE DEF D, E
<1>4. ASSUME NEW M, NEW T,
             \/ T = {"awaiting_approval"} /\ M = {"await-approval"}
             \/ T = {"queued"} /\ M = {"queued-for-apply"}
             \/ T = {"failed"} /\ M = {"fail"}
             \/ T = {"approved", "queued"} /\ M = {"approval:decision", "queued-for-apply"}
             \/ T = {"rejected"} /\ M = {"approval:decision"}
             \/ T = {"stale"} /\ M = {"approval:expired"}
             \/ T = {"applying", "completed"} /\ M = {"complete"},
             Outcome(r, s, a, T)
      PROVE  Passes(r, M, s)
  <2>1. M \cap D = {}
    BY <1>2, <1>4 DEF Outcome
  <2>2. E = D \cup M
    <3>1. Turned(events'[r]) = Turned(events[r]) \cup T
      BY <1>4 DEF Outcome
    <3>2. M \subseteq MilestoneKeys
      BY <1>4 DEF MilestoneKeys
    <3>3. \A k \in MilestoneKeys : k \in E <=> k \in D \/ k \in M
      BY <1>2, <1>3, <1>4, <3>1 DEF MilestoneKeys
    <3> QED
      BY <1>2, <1>3, <3>2, <3>3
  <2> QED
    BY <1>4, <2>1, <2>2 DEF Passes, Outcome, D, E
<1> QED
  BY <1>4

\* The same in the words of RunLife.
LEMMA PassesIsPass ==
  ASSUME NEW r \in Runs, NEW M, NEW s, Passes(r, M, s)
  PROVE  Life!Pass(r, M, s)
BY DEF Passes, Life!Pass, Done, MilestoneKeys

\* A commit that finds no row opens the run; one that finds it asked about
\* decides or expires it; one that finds it queued ends it.
LEMMA SettlesIsStep ==
  ASSUME LifeInv, WellFormed', NEW r \in Runs, Settles(r)
  PROVE  Life!Step(r)
<1> USE DEF LifeInv
<1> DEFINE T == Turned(events[r])
<1>1. /\ "await-approval" \in Done(events[r]) <=> "awaiting_approval" \in T
      /\ "queued-for-apply" \in Done(events[r]) <=> "queued" \in T
  BY DoneByTurns DEF WellFormed
<1>2. [q \in Runs |-> {e.key : e \in events[q]} \cap MilestoneKeys][r] = Done(events[r])
  BY DEF Done
<1>3. HistoryOK(r)
  BY DEF Histories
<1>4. runs[r] \in Statuses \cup {Absent}
  BY DEF SysInv, StoreInv, StoreTypeOK
<1>5. ASSUME runs[r] = Absent,
             \/ Outcome(r, "failed", Absent, {"failed"})
             \/ Outcome(r, "awaiting_approval", "pending", {"awaiting_approval"})
             \/ Outcome(r, "queued", Absent, {"queued"})
      PROVE  Life!Open(r)
  BY <1>5, OutcomePasses, PassesIsPass DEF Life!Open, Absent, Life!Absent
<1>6. ASSUME Asked(r),
             \/ Outcome(r, "queued", "approved", {"approved", "queued"})
             \/ Outcome(r, "rejected", "rejected", {"rejected"})
      PROVE  Life!Decide(r)
  <2>1. "awaiting_approval" \in T /\ "approved" \notin T /\ "rejected" \notin T
    BY <1>6 DEF Asked, Outcome
  <2>2. runs[r] # Absent
    BY <2>1, NoRowNoTurns
  <2>3. "queued" \notin T /\ "completed" \notin T /\ "failed" \notin T
    BY <1>3, <2>1 DEF HistoryOK
  <2>4. runs[r] \in {"awaiting_approval", "stale"}
    BY <1>3, <2>1, <2>2, <2>3 DEF HistoryOK, Turned, Turns, Statuses
  <2> QED
    BY <1>1, <1>2, <1>6, <2>1, <2>4, OutcomePasses, PassesIsPass DEF Life!Decide, MilestoneKeys
<1>7. ASSUME Asked(r), Outcome(r, "stale", "expired", {"stale"}) PROVE Life!Expire(r)
  BY <1>1, <1>2, <1>7, OutcomePasses, PassesIsPass DEF Life!Expire, Asked, MilestoneKeys
<1>8. ASSUME "queued" \in T
      PROVE  runs[r] \in {"queued", "stale", "failed", "completed"}
  <2>1. runs[r] # Absent
    BY <1>8, NoRowNoTurns
  <2>2. runs[r] # "awaiting_approval" /\ runs[r] # "rejected"
    BY <1>3, <1>8, <2>1 DEF HistoryOK
  <2> QED
    BY <1>3, <2>1, <2>2 DEF HistoryOK, Turned, Turns, Statuses
<1>9. ASSUME "queued" \in T, Outcome(r, "completed", Absent, {"applying", "completed"})
      PROVE  Life!Apply(r)
  <2>1. runs[r] # "completed"
    BY <1>3, <1>9, NoRowNoTurns DEF HistoryOK, Outcome, Absent
  <2> QED
    BY <1>1, <1>2, <1>8, <1>9, <2>1, OutcomePasses, PassesIsPass DEF Life!Apply, MilestoneKeys, Absent
<1>10. ASSUME "queued" \in T, Outcome(r, "failed", Absent, {"failed"})
       PROVE  Life!Refuse(r)
  <2>1. runs[r] # "failed"
    BY <1>3, <1>10, NoRowNoTurns DEF HistoryOK, Outcome, Absent
  <2> QED
    BY <1>1, <1>2, <1>8, <1>10, <2>1, OutcomePasses, PassesIsPass DEF Life!Refuse, MilestoneKeys, Absent
<1> QED
  BY <1>5, <1>6, <1>7, <1>9, <1>10 DEF Settles, Life!Step

\* A run that stays passes nothing.
LEMMA StaysIsStutter ==
  ASSUME NEW r \in Runs, Stays(r)
  PROVE  UNCHANGED <<runs[r],
                     [q \in Runs |-> {e.key : e \in events[q]} \cap
                        {"await-approval", "approval:decision", "approval:expired",
                         "queued-for-apply", "complete", "fail"}][r]>>
BY DEF Stays

\* Whatever it races with, a commit moves each run by one step of its life:
\* what was rejected, failed or completed is not queued or asked about again,
\* nothing is decided or ended twice the same way, nothing is applied unasked.
THEOREM SystemImplementsRunLife == Spec => RefinesRunLife
<1>1. Init => Life!Init
  <2>1. Init => runs = [r \in Runs |-> Absent] /\ \A r \in Runs : events[r] = {}
    BY DEF Init, StoreInit, NoWrites, NoEvents
  <2> QED
    BY <2>1 DEF Life!Init, Absent, Life!Absent
<1>2. LifeInv /\ WellFormed' /\ [Next]_vars => Life!Next
  <2> SUFFICES ASSUME LifeInv, WellFormed', [Next]_vars PROVE Life!Next
    OBVIOUS
  <2>1. \A r \in Runs : Stays(r) \/ Settles(r)
    BY StepSettles DEF LifeInv
  <2> QED
    BY <2>1, SettlesIsStep, StaysIsStutter DEF Life!Next
<1> QED
  BY <1>1, <1>2, LifeInvariant, EventsWellFormed, PTL DEF Spec, RefinesRunLife, Life!Spec

-----------------------------------------------------------------------------
(* What races may overwrite, and what they may not. *)

\* In the words of the turns: who has come to an end is at one, and who was rejected
\* has neither queued nor failed.
Ended == {"rejected", "completed", "failed"}

Endings ==
  \A r \in Runs : Turned(events[r]) \cap Ended # {} => runs[r] \in Ended \cup {"stale"}

\* A decided approval has a decision.
Decided ==
  \A r \in Runs : approvals[r] \in {"approved", "rejected"} =>
    Turned(events[r]) \cap {"approved", "rejected"} # {}

\* Whose approval is answered only now has come to no end before: it would have been
\* queued, and so decided.
LEMMA EndingsStep == LifeInv /\ Endings /\ Decided /\ [Next]_vars => Endings' /\ Decided'
<1> SUFFICES ASSUME LifeInv, Endings, Decided, [Next]_vars,
                    NEW r \in Runs
             PROVE  /\ Turned(events'[r]) \cap Ended # {} => runs'[r] \in Ended \cup {"stale"}
                    /\ approvals'[r] \in {"approved", "rejected"} =>
                         Turned(events'[r]) \cap {"approved", "rejected"} # {}
  BY DEF Endings, Decided
<1>1. Stays(r) \/ Settles(r)
  BY StepSettles DEF LifeInv
<1>2. HistoryOK(r)
  BY DEF LifeInv, Histories
<1>3. runs[r] = Absent => Turned(events[r]) = {} /\ approvals[r] = Absent
  BY <1>2, NoRowNoTurns DEF LifeInv, HistoryOK
<1>4. CASE Stays(r)
  BY <1>4 DEF Stays, Endings, Decided
<1>5. CASE runs[r] = Absent /\ Settles(r)
  BY <1>3, <1>5 DEF Settles, Outcome, Asked, Ended, Absent
<1>6. CASE Asked(r) /\ \/ Outcome(r, "queued", "approved", {"approved", "queued"})
                       \/ Outcome(r, "rejected", "rejected", {"rejected"})
                       \/ Outcome(r, "stale", "expired", {"stale"})
  BY <1>2, <1>6 DEF Outcome, HistoryOK, Asked, Endings, Ended, Absent
<1>7. CASE /\ "queued" \in Turned(events[r])
           /\ \/ Outcome(r, "completed", Absent, {"applying", "completed"})
              \/ Outcome(r, "failed", Absent, {"failed"})
  BY <1>7 DEF Outcome, Decided, Ended, Absent
<1> QED
  BY <1>1, <1>4, <1>5, <1>6, <1>7 DEF Settles

LEMMA EndingsInvariant == Spec => [](LifeInv /\ Endings /\ Decided)
<1>1. Init => Endings /\ Decided
  BY TurnedNone DEF Init, StoreInit, NoWrites, NoEvents, Endings, Decided, Absent
<1> QED
  BY <1>1, EndingsStep, LifeInvariant, PTL DEF Spec

\* Nobody brings back a run that was rejected, has failed or has been completed,
\* and what was rejected is never queued.
THEOREM EndsStand == Spec => []EndedForGood
<1>1. ASSUME LifeInv, Endings PROVE EndedForGood
  <2> SUFFICES ASSUME NEW r \in Runs, NEW e \in events[r], e.status \in Ended
               PROVE  /\ runs[r] \in Ended \cup {"stale"}
                      /\ e.status = "rejected" =>
                           ~Has(events[r], "queued-for-apply") /\ ~Has(events[r], "fail")
    BY DEF EndedForGood, Ended
  <2> DEFINE T == Turned(events[r])
  <2>1. e.status \in T
    BY DEF Turned, Turns, Statuses, Ended
  <2>2. runs[r] \in Ended \cup {"stale"}
    BY <1>1, <2>1 DEF Endings
  <2>3. e.status = "rejected" => "queued" \notin T /\ "failed" \notin T
    BY <1>1, <2>1 DEF LifeInv, Histories, HistoryOK
  <2>4. /\ Has(events[r], "queued-for-apply") => "queued" \in T
        /\ Has(events[r], "fail") => "failed" \in T
    <3>1. \A d \in events[r] : Formed(d)
      BY <1>1 DEF LifeInv, WellFormed
    <3>2. \A d \in events[r] : /\ d.key = "queued-for-apply" => d.status = "queued"
                               /\ d.key = "fail" => d.status = "failed"
      BY <3>1 DEF Formed, Forms
    <3> QED
      BY <3>2 DEF Has, Turned, Turns, Statuses
  <2> QED
    BY <2>2, <2>3, <2>4
<1> QED
  BY <1>1, EndingsInvariant, PTL

\* Of all sessions only a sweep's has an expiry to commit.
LEMMA ExpiryIsSweeps ==
  ASSUME NEW p \in Procs, DraftOK(p), pc[p] = "commit", NEW r \in Runs,
         Turned(dirtyEvents[p][r]) \cap {"awaiting_approval", "approved", "rejected"} = {},
         dirtyApprovals[p][r] # Absent
  PROVE  p \in Sweepers /\ dirtyApprovals[p][r] = "expired"
<1>1. CASE p \in Sweepers
  BY <1>1 DEF DraftOK, SweeperDraft, Untouched, Wrote
<1>2. CASE p \notin Sweepers /\ r # target[p]
  BY <1>2 DEF DraftOK, Untouched, Wrote
<1>3. CASE p \in Runners /\ r = target[p]
  BY <1>3 DEF DraftOK, RunnerDraft, Wrote
<1>4. CASE p \in Approvers \cup Rejecters /\ r = target[p]
  BY <1>4 DEF DraftOK, DeciderDraft, Wrote
<1>5. CASE p \in Workers /\ r = target[p]
  BY <1>5 DEF DraftOK, WorkerDraft, Wrote
<1> QED
  BY <1>1, <1>2, <1>3, <1>4, <1>5, RolesAssumption

\* The commit that overwrites a decided approval is a sweep's: there is one decision
\* to an approval, and who asks does so of a run that has none.
THEOREM DecisionsStand == Spec => DecisionYieldsToSweepOnly
<1> DEFINE Yields(r) ==
      /\ approvals'[r] = "expired"
      /\ \E p \in Sweepers : pc[p] = "commit" /\ OwnsApproval(p, r)
<1>1. ASSUME LifeInv, Decided, [Next]_vars, NEW r \in Runs,
             approvals[r] \in {"approved", "rejected"}, approvals'[r] # approvals[r]
      PROVE  Yields(r)
  <2>1. PICK p \in Procs : pc[p] = "commit" /\ Commit(p)
    BY <1>1, DraftsStep, CommitOrNot DEF LifeInv, storeVars
  <2>2. /\ dirtyApprovals[p][r] # Absent
        /\ approvals'[r] = dirtyApprovals[p][r]
    BY <1>1, <2>1 DEF Commit, Overwrite
  <2>3. /\ "awaiting_approval" \in Turned(events[r])
        /\ Turned(events[r]) \cap {"approved", "rejected"} # {}
    BY <1>1 DEF LifeInv, Histories, HistoryOK, Decided, Absent
  <2>4. Turned(dirtyEvents[p][r]) \cap {"awaiting_approval", "approved", "rejected"} = {}
    BY <1>1, <2>3, TurnsAreNew DEF LifeInv
  <2>5. p \in Sweepers /\ dirtyApprovals[p][r] = "expired"
    BY <1>1, <2>1, <2>2, <2>4, ExpiryIsSweeps DEF LifeInv, Drafts
  <2> QED
    BY <2>1, <2>2, <2>5 DEF OwnsApproval
<1>2. LifeInv /\ Decided /\ [Next]_vars =>
        [\A r \in Runs : approvals[r] \in {"approved", "rejected"} /\ approvals'[r] # approvals[r] =>
           Yields(r)]_vars
  BY <1>1
<1> QED
  BY <1>2, EndingsInvariant, PTL DEF Spec, DecisionYieldsToSweepOnly
=============================================================================
