---------------------------- MODULE IdemraProofs ----------------------------
(***************************************************************************)
(* The commands and the worker as clients of the event store: every step   *)
(* of theirs is a step of StoreNext, so what EventStoreProofs proves of    *)
(* any clients holds of Idemra.                                            *)
(***************************************************************************)
EXTENDS Idemra, EventStoreProofs, FiniteSetTheorems

-----------------------------------------------------------------------------
(* Roles and stages. *)

\* A process has one role.
LEMMA RoleOfProc ==
  /\ Runners \subseteq Procs /\ Approvers \subseteq Procs /\ Rejecters \subseteq Procs
  /\ Sweepers \subseteq Procs /\ Workers \subseteq Procs
BY RolesAssumption

\* The stages of a process are those of its role.
LEMMA StagesOfRole ==
  ASSUME NEW p \in Procs
  PROVE  /\ p \in Runners => Stages(p) = {"idle", "commit", "enqueue"} \cup Creating
         /\ p \in Approvers \cup Rejecters =>
              Stages(p) = {"idle", "commit", "decide", "mark_queued", "enqueue"}
         /\ p \in Sweepers => Stages(p) = {"idle", "commit", "expire", "mark_stale"}
         /\ p \in Workers =>
              Stages(p) = {"idle", "commit", "load", "apply", "write", "complete", "ack"}
<1>1. /\ p \in Runners => p \notin Approvers \cup Rejecters \cup Sweepers \cup Workers
      /\ p \in Workers => p \notin Approvers \cup Rejecters \cup Sweepers
      /\ p \in Sweepers => p \notin Approvers \cup Rejecters
  BY RolesAssumption, GateAssumption
<1>2. CASE p \in Runners
  BY <1>1, <1>2 DEF Stages
<1>3. CASE p \in Approvers \cup Rejecters
  BY <1>1, <1>3 DEF Stages
<1>4. CASE p \in Sweepers
  BY <1>1, <1>4 DEF Stages
<1>5. CASE p \in Workers
  BY <1>1, <1>5 DEF Stages
<1> QED
  BY <1>2, <1>3, <1>4, <1>5, RolesAssumption

-----------------------------------------------------------------------------
(* What a step of p leaves alone. *)

Alone(p) ==
  /\ \A q \in Procs \ {p} :
       /\ pc'[q] = pc[q] /\ target'[q] = target[q]
       /\ dirtyRuns'[q] = dirtyRuns[q] /\ dirtyApprovals'[q] = dirtyApprovals[q]
  /\ \A q \in Sweepers \ {p} : expiring'[q] = expiring[q]
  /\ \A r \in Runs : runs[r] # Absent => runs'[r] # Absent

\* The rows the others hold are still theirs.
LEMMA OthersHold ==
  ASSUME NEW p \in Procs, NEW q \in Procs \ {p}, Alone(p), RowsHeld(q), target[q] \in Runs \cup {NoRun}
  PROVE  RowsHeld(q)'
<1>1. /\ pc'[q] = pc[q] /\ target'[q] = target[q]
      /\ dirtyRuns'[q] = dirtyRuns[q] /\ dirtyApprovals'[q] = dirtyApprovals[q]
      /\ \A r \in Runs : runs[r] # Absent => runs'[r] # Absent
  BY DEF Alone
<1> QED
  BY <1>1 DEF RowsHeld, Idle, OwnsRun, OwnsApproval, Exists, Creating

-----------------------------------------------------------------------------
(* The inductive invariant: that of the store, the types, and the locks; the
   ids in use are finitely many, so a sweep's selection is a sequence. *)

SysInv ==
  /\ StoreInv
  /\ TypeOK
  /\ LockDiscipline
  /\ IsFiniteSet(issued)

\* A transition of a run that exists is a step of the store.
LEMMA TransitionIsStoreStep ==
  ASSUME NEW p \in Procs, NEW r \in Runs, Exists(p, r), NEW s \in Statuses, NEW k \in Keys,
         WriteStatusEvent(p, r, s, k),
         UNCHANGED dirtyApprovals \/ \E a \in ApprovalStatuses : SetApproval(p, r, a)
  PROVE  StoreNext
BY DEF StoreNext, TransitionStep

\* So is an event recorded by the owner of the run.
LEMMA RecordIsStoreStep ==
  ASSUME NEW p \in Procs, NEW r \in Runs, OwnsRun(p, r),
         NEW t \in EventTypes \ {"status_changed"}, NEW k \in Keys, RecordEvent(p, r, t, k)
  PROVE  StoreNext
BY DEF StoreNext, RecordStep

\* A run that is held or seen at some stage exists.
LEMMA TargetExists ==
  ASSUME SysInv, NEW p \in Procs,
         pc[p] \in Creating \cup {"mark_queued", "write", "complete", "decide", "expire",
                                  "mark_stale", "apply"}
  PROVE  target[p] \in Runs /\ Exists(p, target[p])
BY DEF SysInv, LockDiscipline, RowsHeld, Idle, Exists, Creating

-----------------------------------------------------------------------------
(* Every step is a step of the store or does not touch it. *)

\* `idemra run' is a client of the store.
LEMMA RunnerImplements ==
  ASSUME SysInv, NEW p \in Runners, RunnerNext(p)
  PROVE  [StoreNext]_storeVars
<1> USE RoleOfProc
<1>1. CASE CreateRun(p)
  <2>1. PICK r \in Runs \ issued : InsertRun(p, r)
    BY <1>1 DEF CreateRun
  <2>2. Fresh(r)
    BY DEF SysInv, LockDiscipline, RowsKnown, Fresh
  <2> QED
    BY <2>1, <2>2 DEF StoreNext, CreateStep
<1>2. CASE FetchTask(p) \/ LoadPermissions(p) \/ BuildWorldModel(p) \/ ValidateProposal(p)
           \/ EnqueueApply(p)
  BY <1>2 DEF FetchTask, LoadPermissions, BuildWorldModel, ValidateProposal, Proceed, EnqueueApply
<1>3. CASE RouteTask(p) \/ ProposeChanges(p)
  <2>1. pc[p] \in Creating
    BY <1>3 DEF RouteTask, ProposeChanges, Goto, Creating
  <2>2. OwnsRun(p, target[p]) /\ target[p] \in Runs
    BY <2>1, TargetExists DEF SysInv, LockDiscipline, RowsHeld
  <2>3. \E t \in EventTypes \ {"status_changed"}, k \in Keys : RecordEvent(p, target[p], t, k)
    BY <1>3 DEF RouteTask, ProposeChanges, EventTypes, Keys
  <2> QED
    BY <2>2, <2>3, RecordIsStoreStep
<1>4. CASE StartRun(p) \/ FailRun(p) \/ QueueRun(p) \/ RequestApproval(p)
  <2>1. pc[p] \in Creating
    BY <1>4 DEF StartRun, FailRun, QueueRun, RequestApproval, Goto, Creating
  <2>2. \E s \in Statuses, k \in Keys : WriteStatusEvent(p, target[p], s, k)
    BY <1>4 DEF StartRun, FailRun, QueueRun, RequestApproval, Statuses, Keys
  <2>3. UNCHANGED dirtyApprovals \/ \E a \in ApprovalStatuses : SetApproval(p, target[p], a)
    BY <1>4 DEF StartRun, FailRun, QueueRun, RequestApproval, ApprovalStatuses
  <2> QED
    BY <2>1, <2>2, <2>3, TargetExists, TransitionIsStoreStep
<1>5. CASE CommitSession(p) \/ UncaughtError(p) \/ RunFault(p)
  BY <1>5 DEF CommitSession, UncaughtError, RunFault, Fault, AbortSession, StoreNext
<1> QED
  BY <1>1, <1>2, <1>3, <1>4, <1>5 DEF RunnerNext, RunStep

\* `idemra approve' and `idemra reject' are clients of the store.
LEMMA DeciderImplements ==
  ASSUME SysInv, NEW p \in Approvers \cup Rejecters, DeciderNext(p)
  PROVE  [StoreNext]_storeVars
<1> USE RoleOfProc
<1>1. CASE ReadApproval(p) \/ EnqueueApply(p)
  BY <1>1 DEF ReadApproval, EnqueueApply
<1>2. CASE RecordDecision(p) \/ QueueApproved(p)
  <2>1. pc[p] \in {"decide", "mark_queued"}
    BY <1>2 DEF RecordDecision, QueueApproved, Goto
  <2>2. \E s \in Statuses, k \in Keys : WriteStatusEvent(p, target[p], s, k)
    BY <1>2 DEF RecordDecision, QueueApproved, Decision, DecisionKey, Statuses, Keys
  <2>3. UNCHANGED dirtyApprovals \/ \E a \in ApprovalStatuses : SetApproval(p, target[p], a)
    BY <1>2 DEF RecordDecision, QueueApproved, Decision, ApprovalStatuses
  <2> QED
    BY <2>1, <2>2, <2>3, TargetExists, TransitionIsStoreStep
<1>3. CASE CommitSession(p) \/ ConflictingDecision(p) \/ GateFault(p)
  BY <1>3 DEF CommitSession, ConflictingDecision, GateFault, Fault, AbortSession, StoreNext
<1> QED
  BY <1>1, <1>2, <1>3 DEF DeciderNext, DecideStep

\* `idemra sweep' is a client of the store.
LEMMA SweeperImplements ==
  ASSUME SysInv, NEW p \in Sweepers, SweeperNext(p)
  PROVE  [StoreNext]_storeVars
<1> USE RoleOfProc
<1>1. CASE SelectOverdue(p)
  BY <1>1 DEF SelectOverdue
<1>2. CASE ExpireApproval(p)
  <2>1. SetApproval(p, target[p], "expired") /\ UNCHANGED <<runs, approvals, events, dirtyRuns, dirtyEvents>>
    BY <1>2 DEF ExpireApproval, committed
  <2>2. target[p] \in Runs /\ Exists(p, target[p])
    BY <1>2, TargetExists DEF ExpireApproval, Goto
  <2> QED
    BY <2>1, <2>2 DEF StoreNext, ApprovalStep, ApprovalStatuses
<1>3. CASE MarkStale(p)
  <2>1. pc[p] = "mark_stale" /\ UNCHANGED dirtyApprovals
        /\ WriteStatusEvent(p, target[p], "stale", "approval:expired")
    BY <1>3 DEF MarkStale
  <2> QED
    BY <2>1, TargetExists, TransitionIsStoreStep DEF Statuses, Keys
<1>4. CASE CommitSession(p) \/ ConflictingSweep(p) \/ BreakDeadlock(p) \/ GateFault(p)
  BY <1>4 DEF CommitSession, ConflictingSweep, BreakDeadlock, GateFault, Fault, AbortSession, StoreNext
<1> QED
  BY <1>1, <1>2, <1>3, <1>4 DEF SweeperNext, SweepStep

\* A worker is a client of the store.
LEMMA WorkerImplements ==
  ASSUME SysInv, NEW w \in Workers, WorkerNext(w)
  PROVE  [StoreNext]_storeVars
<1> USE RoleOfProc
<1>1. CASE TakeJob(w) \/ LoadRun(w) \/ WriteFile(w) \/ AckJob(w)
  BY <1>1 DEF TakeJob, LoadRun, WriteFile, AckJob
<1>2. CASE RefuseApply(w) \/ StartApply(w) \/ CompleteRun(w)
  <2>1. pc[w] \in {"apply", "complete"} /\ UNCHANGED dirtyApprovals
    BY <1>2 DEF RefuseApply, StartApply, CompleteRun, Goto
  <2>2. \E s \in Statuses, k \in Keys : WriteStatusEvent(w, target[w], s, k)
    BY <1>2 DEF RefuseApply, StartApply, CompleteRun, Statuses, Keys
  <2> QED
    BY <2>1, <2>2, TargetExists, TransitionIsStoreStep
<1>3. CASE RecordApplied(w)
  <2>1. pc[w] = "write" /\ RecordEvent(w, target[w], "files_applied", "files-applied")
    BY <1>3 DEF RecordApplied, Goto
  <2>2. OwnsRun(w, target[w]) /\ target[w] \in Runs
    BY <2>1, TargetExists DEF SysInv, LockDiscipline, RowsHeld
  <2> QED
    BY <2>1, <2>2, RecordIsStoreStep DEF EventTypes, Keys
<1>4. CASE SkipJob(w) \/ ConflictingJob(w) \/ CommitJob(w) \/ UncaughtJobError(w) \/ WorkerFault(w)
  BY <1>4 DEF SkipJob, ConflictingJob, CommitJob, UncaughtJobError, WorkerFault, Fault, AbortSession,
              StoreNext
<1> QED
  BY <1>1, <1>2, <1>3, <1>4 DEF WorkerNext, WorkerStep

\* So is every step of the system.
LEMMA NextImplements == SysInv /\ [Next]_vars => [StoreNext]_storeVars
<1> SUFFICES ASSUME SysInv, [Next]_vars PROVE [StoreNext]_storeVars
  OBVIOUS
<1>1. CASE ClockNext \/ OperatorNext
  BY <1>1 DEF ClockNext, Lapse, OperatorNext, RequeueJob
<1>2. CASE UNCHANGED vars
  BY <1>2 DEF vars
<1> QED
  BY <1>1, <1>2, RunnerImplements, DeciderImplements, SweeperImplements, WorkerImplements DEF Next

-----------------------------------------------------------------------------
(* Types. *)

StagesOK ==
  /\ pc \in [Procs -> UNION {Stages(p) : p \in Procs}]
  /\ \A p \in Procs : pc[p] \in Stages(p)

SessionOK ==
  /\ target \in [Procs -> Runs \cup {NoRun}]
  /\ queue \in Seq(Runs)
  /\ faults \in 0..MaxFaults

WorkerOK ==
  /\ disk \in [Files -> Runs \cup {Original}]
  /\ cursor \in [Workers -> Nat]
  /\ filed \in [Runs -> Nat]
  /\ since \in [Files -> [Runs -> SUBSET Runs]]

\* A process that goes to a stage of its role keeps pc well-typed.
LEMMA StageTyped ==
  ASSUME StagesOK, NEW p \in Procs, NEW s \in Stages(p), pc' = [pc EXCEPT ![p] = s]
  PROVE  StagesOK'
<1>1. s \in UNION {Stages(q) : q \in Procs}
  OBVIOUS
<1> QED
  BY <1>1 DEF StagesOK

\* The stage of a session that is over is every role's.
LEMMA IdleIsStage == \A p \in Procs : "idle" \in Stages(p) /\ "commit" \in Stages(p)
BY DEF Stages

\* The end of a session keeps the types.
LEMMA CloseTyped ==
  ASSUME StagesOK, SessionOK, NEW p \in Procs, Close(p)
  PROVE  StagesOK' /\ target' \in [Procs -> Runs \cup {NoRun}]
<1>1. pc' = [pc EXCEPT ![p] = "idle"] /\ target' = [target EXCEPT ![p] = NoRun]
  BY DEF Close
<1> QED
  BY <1>1, StageTyped, IdleIsStage DEF SessionOK

\* A fault keeps the types.
LEMMA FaultTyped ==
  ASSUME StagesOK, SessionOK, NEW p \in Procs, Fault(p)
  PROVE  StagesOK' /\ target' \in [Procs -> Runs \cup {NoRun}] /\ faults' \in 0..MaxFaults
<1>1. Close(p) /\ faults < MaxFaults /\ faults' = faults + 1
  BY DEF Fault, AbortSession
<1> QED
  BY <1>1, CloseTyped, FaultAssumption DEF SessionOK

\* `idemra run' keeps the types.
LEMMA RunnerTyped ==
  ASSUME StagesOK, SessionOK, issued \subseteq Runs, NEW p \in Runners, RunnerNext(p),
         ~Idle(p) => target[p] \in Runs
  PROVE  StagesOK' /\ SessionOK' /\ issued' \subseteq Runs
<1> USE RoleOfProc
<1>0. Stages(p) = {"idle", "commit", "enqueue"} \cup Creating
  BY StagesOfRole
<1>1. CASE CreateRun(p)
  <2>1. PICK r \in Runs \ issued, stage \in {"fetch", "route"} :
          Begin(p, r, stage) /\ issued' = issued \cup {r} /\ UNCHANGED <<queue, faults>>
    BY <1>1 DEF CreateRun
  <2>2. pc' = [pc EXCEPT ![p] = stage] /\ target' = [target EXCEPT ![p] = r] /\ stage \in Stages(p)
    BY <1>0, <2>1 DEF Begin, Creating
  <2> QED
    BY <2>1, <2>2, StageTyped DEF SessionOK
<1>2. CASE FetchTask(p) \/ LoadPermissions(p) \/ BuildWorldModel(p) \/ ValidateProposal(p)
           \/ RouteTask(p) \/ ProposeChanges(p) \/ StartRun(p) \/ FailRun(p) \/ QueueRun(p)
           \/ RequestApproval(p)
  <2>1. \E from \in Creating, to \in Creating \cup {"commit", "enqueue"} : Goto(p, from, to)
    BY <1>2 DEF FetchTask, LoadPermissions, BuildWorldModel, ValidateProposal, Proceed, RouteTask,
                ProposeChanges, StartRun, FailRun, QueueRun, RequestApproval, Creating
  <2>2. issued' = issued
    BY <1>2 DEF FetchTask, LoadPermissions, BuildWorldModel, ValidateProposal, Proceed, RouteTask,
                ProposeChanges, StartRun, FailRun, QueueRun, RequestApproval
  <2> QED
    BY <1>0, <2>1, <2>2, StageTyped DEF Goto, SessionOK
<1>3. CASE EnqueueApply(p) /\ UNCHANGED issued
  <2>1. pc' = [pc EXCEPT ![p] = "commit"] /\ queue' = Append(queue, target[p])
        /\ UNCHANGED <<target, faults>> /\ pc[p] = "enqueue"
    BY <1>3 DEF EnqueueApply
  <2>2. queue' \in Seq(Runs)
    BY <2>1 DEF SessionOK, Idle
  <2> QED
    BY <1>3, <2>1, <2>2, StageTyped, IdleIsStage DEF SessionOK
<1>4. CASE (CommitSession(p) /\ UNCHANGED issued) \/ UncaughtError(p)
  BY <1>4, CloseTyped DEF CommitSession, UncaughtError, AbortSession, SessionOK
<1>5. CASE RunFault(p)
  BY <1>5, FaultTyped DEF RunFault, SessionOK
<1> QED
  BY <1>1, <1>2, <1>3, <1>4, <1>5 DEF RunnerNext, RunStep

\* What SELECT returns: the due rows, each at some place.
LEMMA SelectionIsSeq ==
  ASSUME NEW S, IsFiniteSet(S), S # {}, NEW rows \in SetToSeqs(S)
  PROVE  rows \in Seq(S) /\ rows # <<>> /\ Head(rows) \in S
<1>1. Cardinality(S) \in Nat /\ Cardinality(S) # 0
  BY FS_CardinalityType, FS_EmptySet
<1>2. rows \in [1..Cardinality(S) -> S]
  BY DEF SetToSeqs
<1>3. rows \in Seq(S) /\ Len(rows) = Cardinality(S)
  BY <1>1, <1>2
<1> QED
  BY <1>1, <1>3

\* The overdue rows are those of issued ids, finitely many.
LEMMA DueFinite ==
  ASSUME LockDiscipline, IsFiniteSet(issued)
  PROVE  IsFiniteSet(Due)
<1>1. Due \subseteq issued
  BY DEF LockDiscipline, RowsKnown, Due, Absent
<1> QED
  BY <1>1, FS_Subset

\* `idemra approve' and `idemra reject' keep the types.
LEMMA DeciderTyped ==
  ASSUME StagesOK, SessionOK, expiring \in [Sweepers -> Seq(Runs)], overdue \subseteq Runs,
         NEW p \in Approvers \cup Rejecters, DeciderNext(p), ~Idle(p) => target[p] \in Runs
  PROVE  StagesOK' /\ SessionOK' /\ expiring' \in [Sweepers -> Seq(Runs)] /\ overdue' \subseteq Runs
<1> USE RoleOfProc
<1>0. Stages(p) = {"idle", "commit", "decide", "mark_queued", "enqueue"}
  BY StagesOfRole
<1>1. CASE ReadApproval(p)
  <2>1. PICK r \in Runs : Begin(p, r, "decide") /\ UNCHANGED <<queue, faults, overdue, expiring>>
    BY <1>1 DEF ReadApproval, gateVars
  <2>2. pc' = [pc EXCEPT ![p] = "decide"] /\ target' = [target EXCEPT ![p] = r] /\ "decide" \in Stages(p)
    BY <1>0, <2>1 DEF Begin
  <2> QED
    BY <2>1, <2>2, StageTyped DEF SessionOK
<1>2. CASE RecordDecision(p) \/ QueueApproved(p)
  <2>1. \E from, to \in {"decide", "mark_queued", "commit", "enqueue"} : Goto(p, from, to)
    BY <1>2 DEF RecordDecision, QueueApproved
  <2>2. UNCHANGED <<overdue, expiring>>
    BY <1>2 DEF RecordDecision, QueueApproved, gateVars
  <2> QED
    BY <1>0, <2>1, <2>2, StageTyped DEF Goto, SessionOK
<1>3. CASE EnqueueApply(p) /\ UNCHANGED gateVars
  <2>1. pc' = [pc EXCEPT ![p] = "commit"] /\ queue' = Append(queue, target[p])
        /\ UNCHANGED <<target, faults, overdue, expiring>> /\ pc[p] = "enqueue"
    BY <1>3 DEF EnqueueApply, gateVars
  <2>2. queue' \in Seq(Runs)
    BY <2>1 DEF SessionOK, Idle
  <2> QED
    BY <2>1, <2>2, StageTyped, IdleIsStage DEF SessionOK
<1>4. CASE (CommitSession(p) /\ UNCHANGED gateVars) \/ ConflictingDecision(p)
  BY <1>4, CloseTyped DEF CommitSession, ConflictingDecision, AbortSession, SessionOK, gateVars
<1>5. CASE GateFault(p)
  BY <1>5, FaultTyped DEF GateFault, SessionOK
<1> QED
  BY <1>1, <1>2, <1>3, <1>4, <1>5 DEF DeciderNext, DecideStep

\* `idemra sweep' keeps the types.
LEMMA SweeperTyped ==
  ASSUME StagesOK, SessionOK, expiring \in [Sweepers -> Seq(Runs)], overdue \subseteq Runs,
         IsFiniteSet(Due), NEW p \in Sweepers, SweeperNext(p),
         pc[p] \in {"expire", "mark_stale"} => expiring[p] # <<>>
  PROVE  StagesOK' /\ SessionOK' /\ expiring' \in [Sweepers -> Seq(Runs)] /\ overdue' \subseteq Runs
<1> USE RoleOfProc
<1>0. Stages(p) = {"idle", "commit", "expire", "mark_stale"}
  BY StagesOfRole
<1>1. CASE SelectOverdue(p)
  <2>1. PICK rows \in SetToSeqs(Due) :
          /\ Begin(p, Head(rows), "expire") /\ expiring' = [expiring EXCEPT ![p] = rows]
          /\ UNCHANGED <<queue, faults, overdue>> /\ Due # {}
    BY <1>1 DEF SelectOverdue
  <2>2. rows \in Seq(Due) /\ Head(rows) \in Due
    BY <2>1, SelectionIsSeq
  <2>3. rows \in Seq(Runs) /\ Head(rows) \in Runs
    BY <2>2 DEF Due
  <2>4. /\ pc' = [pc EXCEPT ![p] = "expire"] /\ target' = [target EXCEPT ![p] = Head(rows)]
        /\ "expire" \in Stages(p)
    BY <1>0, <2>1 DEF Begin
  <2> QED
    BY <2>1, <2>3, <2>4, StageTyped DEF SessionOK
<1>2. CASE ExpireApproval(p)
  BY <1>0, <1>2, StageTyped DEF ExpireApproval, Goto, SessionOK, gateVars
<1>3. CASE MarkStale(p)
  <2> DEFINE rest == Tail(expiring[p])
  <2>1. /\ pc[p] = "mark_stale" /\ expiring' = [expiring EXCEPT ![p] = rest]
        /\ IF rest = <<>>
           THEN pc' = [pc EXCEPT ![p] = "commit"] /\ UNCHANGED target
           ELSE pc' = [pc EXCEPT ![p] = "expire"] /\ target' = [target EXCEPT ![p] = Head(rest)]
        /\ UNCHANGED <<queue, faults, overdue>>
    BY <1>3 DEF MarkStale
  <2>2. expiring[p] \in Seq(Runs) /\ expiring[p] # <<>>
    BY <2>1
  <2>3. rest \in Seq(Runs) /\ (rest # <<>> => Head(rest) \in Runs)
    BY <2>2
  <2>4. \E s \in {"commit", "expire"} : pc' = [pc EXCEPT ![p] = s]
    BY <2>1
  <2>5. StagesOK'
    BY <1>0, <2>4, StageTyped
  <2>6. target' \in [Procs -> Runs \cup {NoRun}]
    BY <2>1, <2>3 DEF SessionOK
  <2> HIDE DEF rest
  <2> QED
    BY <2>1, <2>3, <2>5, <2>6 DEF SessionOK
<1>4. CASE (CommitSession(p) /\ UNCHANGED gateVars) \/ ConflictingSweep(p) \/ BreakDeadlock(p)
  <2>1. Close(p) /\ UNCHANGED <<queue, faults, overdue>>
    BY <1>4 DEF CommitSession, ConflictingSweep, BreakDeadlock, AbortSession, gateVars
  <2>2. \/ expiring' = expiring
        \/ expiring' = [expiring EXCEPT ![p] = <<>>]
        \/ expiring' = [q \in Sweepers |-> IF q = p THEN <<>> ELSE expiring[q]]
    BY <1>4 DEF CommitSession, ConflictingSweep, BreakDeadlock, gateVars
  <2>3. <<>> \in Seq(Runs)
    OBVIOUS
  <2>4. expiring' \in [Sweepers -> Seq(Runs)]
    BY <2>2, <2>3
  <2> QED
    BY <2>1, <2>4, CloseTyped DEF SessionOK
<1>5. CASE GateFault(p)
  BY <1>5, FaultTyped DEF GateFault, SessionOK
<1> QED
  BY <1>1, <1>2, <1>3, <1>4, <1>5 DEF SweeperNext, SweepStep

\* What is kept beside the disk stays typed.
LEMMA SinceTyped ==
  ASSUME WorkerOK
  PROVE  /\ \A f \in Files, q \in Runs : Over(since[f], q) \in [Runs -> SUBSET Runs]
         /\ \A r \in Runs : StartOver(r) => since' \in [Files -> [Runs -> SUBSET Runs]]
         /\ \A r \in Runs : FileAsFailed(r) => filed' \in [Runs -> Nat]
<1>1. ASSUME NEW f \in Files, NEW q \in Runs PROVE Over(since[f], q) \in [Runs -> SUBSET Runs]
  BY DEF WorkerOK, Over
<1>2. ASSUME NEW r \in Runs, StartOver(r) PROVE since' \in [Files -> [Runs -> SUBSET Runs]]
  <2>1. \A f \in Files : [since[f] EXCEPT ![r] = {}] \in [Runs -> SUBSET Runs]
    BY DEF WorkerOK
  <2> QED
    BY <1>2, <2>1 DEF StartOver
<1>3. ASSUME NEW r \in Runs, FileAsFailed(r) PROVE filed' \in [Runs -> Nat]
  BY <1>3 DEF WorkerOK, FileAsFailed
<1> QED
  BY <1>1, <1>2, <1>3

\* A worker keeps the types.
LEMMA WorkerTyped ==
  ASSUME StagesOK, SessionOK, WorkerOK, NEW w \in Workers, WorkerNext(w), ~Idle(w) => target[w] \in Runs
  PROVE  StagesOK' /\ SessionOK' /\ WorkerOK'
<1> USE RoleOfProc
<1>0. Stages(w) = {"idle", "commit", "load", "apply", "write", "complete", "ack"}
  BY StagesOfRole
<1>1. CASE TakeJob(w)
  <2>1. /\ queue # <<>> /\ Begin(w, Head(queue), "load") /\ queue' = Tail(queue)
        /\ UNCHANGED <<faults, workerVars>>
    BY <1>1 DEF TakeJob
  <2>2. Head(queue) \in Runs /\ Tail(queue) \in Seq(Runs)
    BY <2>1 DEF SessionOK
  <2>3. /\ pc' = [pc EXCEPT ![w] = "load"] /\ target' = [target EXCEPT ![w] = Head(queue)]
        /\ "load" \in Stages(w)
    BY <1>0, <2>1 DEF Begin
  <2> QED
    BY <2>1, <2>2, <2>3, StageTyped DEF SessionOK, WorkerOK, workerVars
<1>2. CASE LoadRun(w) \/ RefuseApply(w) \/ StartApply(w) \/ CompleteRun(w) \/ CommitJob(w)
           \/ RecordApplied(w)
  <2>1. \E from, to \in {"load", "commit", "apply", "write", "complete", "ack"} : Goto(w, from, to)
    BY <1>2 DEF LoadRun, RefuseApply, StartApply, CompleteRun, CommitJob, RecordApplied
  <2>2. /\ UNCHANGED <<disk, filed>> /\ (UNCHANGED cursor \/ Rewind(w))
        /\ UNCHANGED since \/ (pc[w] = "apply" /\ StartOver(target[w]))
    BY <1>2 DEF LoadRun, RefuseApply, StartApply, CompleteRun, CommitJob, RecordApplied, workerVars, Goto
  <2>3. StagesOK' /\ SessionOK'
    BY <1>0, <2>1, StageTyped DEF Goto, SessionOK
  <2>4. since' \in [Files -> [Runs -> SUBSET Runs]]
    BY <2>2, SinceTyped DEF WorkerOK, Idle
  <2> QED
    BY <2>2, <2>3, <2>4 DEF Rewind, WorkerOK
<1>3. CASE WriteFile(w)
  <2> DEFINE files == Proposal[target[w]]
             file == NextFile(w)
  <2>1. /\ Goto(w, "write", "write") /\ cursor[w] < Len(files) /\ UNCHANGED filed
        /\ cursor' = [cursor EXCEPT ![w] = @ + 1] /\ disk' = [disk EXCEPT ![file] = target[w]]
        /\ since' = [since EXCEPT ![file] = Over(since[file], target[w])]
    BY <1>3 DEF WriteFile
  <2>2. target[w] \in Runs
    BY <2>1 DEF Goto, Idle
  <2>3. files \in Seq(Files) /\ cursor[w] \in Nat
    BY <2>2, WorkerAssumption DEF WorkerOK
  <2>4. file \in Files
    BY <2>1, <2>3 DEF NextFile
  <2>5. StagesOK' /\ SessionOK'
    BY <1>0, <2>1, StageTyped DEF Goto, SessionOK
  <2>6. Over(since[file], target[w]) \in [Runs -> SUBSET Runs]
    BY <2>2, <2>4, SinceTyped
  <2> HIDE DEF files, file
  <2> QED
    BY <2>1, <2>2, <2>3, <2>4, <2>5, <2>6 DEF WorkerOK
<1>4. CASE SkipJob(w) \/ ConflictingJob(w) \/ AckJob(w) \/ UncaughtJobError(w)
  <2>1. /\ Close(w) /\ UNCHANGED <<queue, faults, disk, since>> /\ (UNCHANGED cursor \/ Rewind(w))
        /\ UNCHANGED filed \/ (~Idle(w) /\ FileAsFailed(target[w]))
    BY <1>4 DEF SkipJob, ConflictingJob, AckJob, UncaughtJobError, AbortSession, workerVars, Idle
  <2>2. filed' \in [Runs -> Nat]
    BY <2>1, SinceTyped DEF WorkerOK
  <2> QED
    BY <2>1, <2>2, CloseTyped DEF SessionOK, WorkerOK, Rewind
<1>5. CASE WorkerFault(w)
  <2>1. /\ Fault(w) /\ UNCHANGED <<queue, disk, since>> /\ Rewind(w)
        /\ ~Idle(w) /\ FileAsFailed(target[w])
    BY <1>5 DEF WorkerFault, Fault
  <2>2. filed' \in [Runs -> Nat]
    BY <2>1, SinceTyped
  <2> QED
    BY <2>1, <2>2, FaultTyped DEF SessionOK, WorkerOK, Rewind
<1> QED
  BY <1>1, <1>2, <1>3, <1>4, <1>5 DEF WorkerNext, WorkerStep

-----------------------------------------------------------------------------
(* Locks. *)

\* A step of p that keeps its own rows and what is known of all keeps them all.
LEMMA AloneKeepsLocks ==
  ASSUME SysInv, NEW p \in Procs, Alone(p), RowsHeld(p)', RowsKnown'
  PROVE  LockDiscipline'
<1>1. \A q \in Procs \ {p} : RowsHeld(q)'
  BY OthersHold DEF SysInv, LockDiscipline, TypeOK
<1> QED
  BY <1>1 DEF LockDiscipline

\* A stage at which a session may hold rows.
HoldingStages == (Creating \cup {"commit", "enqueue", "mark_queued", "expire", "mark_stale", "write",
                                 "complete"}) \ {"idle"}

\* A session that goes on, writing nothing or its own run.
LEMMA MoveKeepsLocks ==
  ASSUME SysInv, NEW p \in Procs, NEW to \in HoldingStages,
         ~Idle(p), pc' = [pc EXCEPT ![p] = to], UNCHANGED <<target, issued, expiring, committed>>,
         \/ UNCHANGED <<dirtyRuns, dirtyApprovals>>
         \/ /\ Exists(p, target[p])
            /\ \/ UNCHANGED dirtyRuns
               \/ \E s \in Statuses : dirtyRuns' = [dirtyRuns EXCEPT ![p][target[p]] = s]
            /\ \/ UNCHANGED dirtyApprovals
               \/ \E a \in ApprovalStatuses :
                    dirtyApprovals' = [dirtyApprovals EXCEPT ![p][target[p]] = a],
         to \in Creating \cup {"mark_queued", "write", "complete"} => OwnsRun(p, target[p])',
         to \in {"expire", "mark_stale"} =>
           runs[target[p]] # Absent /\ (p \in Sweepers => expiring[p] # <<>>)
  PROVE  LockDiscipline'
<1>0. /\ StoreTypeOK /\ pc \in [Procs -> UNION {Stages(q) : q \in Procs}]
      /\ RowsHeld(p) /\ RowsKnown /\ target[p] \in Runs
      /\ UNCHANGED <<runs, approvals, events>>
  BY DEF SysInv, StoreInv, TypeOK, LockDiscipline, RowsHeld, committed
<1>1. /\ pc'[p] = to /\ \A q \in Procs \ {p} : pc'[q] = pc[q]
      /\ target' = target /\ issued' = issued /\ expiring' = expiring
  BY <1>0
<1>2. \A q \in Procs \ {p} : dirtyRuns'[q] = dirtyRuns[q] /\ dirtyApprovals'[q] = dirtyApprovals[q]
  BY <1>0 DEF StoreTypeOK
<1>3. Alone(p)
  BY <1>0, <1>1, <1>2 DEF Alone
<1>4. /\ \A r \in Runs \ {target[p]} :
           dirtyRuns'[p][r] = dirtyRuns[p][r] /\ dirtyApprovals'[p][r] = dirtyApprovals[p][r]
      /\ dirtyRuns[p][target[p]] # Absent => dirtyRuns'[p][target[p]] # Absent
      /\ (dirtyRuns'[p][target[p]] # Absent \/ dirtyApprovals'[p][target[p]] # Absent) =>
           \/ Exists(p, target[p])
           \/ dirtyRuns'[p][target[p]] = dirtyRuns[p][target[p]]
              /\ dirtyApprovals'[p][target[p]] = dirtyApprovals[p][target[p]]
  <2>1. \A s \in Statuses \cup ApprovalStatuses : s # Absent
    BY DEF Statuses, ApprovalStatuses, Absent
  <2>2. CASE UNCHANGED <<dirtyRuns, dirtyApprovals>>
    BY <2>2
  <2>3. CASE Exists(p, target[p])
    BY <1>0, <2>1, <2>3 DEF StoreTypeOK
  <2> QED
    BY <2>2, <2>3
<1>5. \A r \in Runs : OwnsApproval(p, r)' => Exists(p, r)'
  BY <1>0, <1>4 DEF RowsHeld, OwnsApproval, Exists, OwnsRun
<1>6. RowsHeld(p)'
  BY <1>0, <1>1, <1>5 DEF RowsHeld, Idle, HoldingStages, Creating
<1>7. \A q \in Procs, r \in Runs : OwnsRun(q, r)' => r \in issued'
  BY <1>0, <1>1, <1>2, <1>4 DEF RowsKnown, OwnsRun, Exists
<1>8. RowsKnown'
  BY <1>0, <1>1, <1>7 DEF RowsKnown
<1> QED
  BY <1>3, <1>6, <1>8, AloneKeepsLocks

\* A session that ends by its rollback.
LEMMA AbortKeepsLocks ==
  ASSUME SysInv, NEW p \in Procs, AbortSession(p), UNCHANGED issued,
         \A q \in Sweepers : expiring'[q] = expiring[q] \/ (q = p /\ expiring'[q] = <<>>)
  PROVE  LockDiscipline'
<1>0. /\ StoreTypeOK /\ pc \in [Procs -> UNION {Stages(q) : q \in Procs}]
      /\ target \in [Procs -> Runs \cup {NoRun}]
      /\ RowsHeld(p) /\ RowsKnown /\ UNCHANGED <<runs, approvals, events>>
  BY DEF SysInv, StoreInv, TypeOK, LockDiscipline, AbortSession, Rollback, committed
<1>1. /\ pc'[p] = "idle" /\ \A q \in Procs \ {p} : pc'[q] = pc[q] /\ target'[q] = target[q]
  BY <1>0 DEF AbortSession, Close
<1>2. /\ \A q \in Procs \ {p} : dirtyRuns'[q] = dirtyRuns[q] /\ dirtyApprovals'[q] = dirtyApprovals[q]
      /\ \A r \in Runs : dirtyRuns'[p][r] = Absent /\ dirtyApprovals'[p][r] = Absent
  BY <1>0 DEF StoreTypeOK, AbortSession, Rollback, Discard, NoWrites
<1>3. Alone(p)
  BY <1>0, <1>1, <1>2 DEF Alone
<1>4. RowsHeld(p)'
  BY <1>1, <1>2 DEF RowsHeld, Idle, OwnsRun, OwnsApproval, Creating
<1>5. \A q \in Procs, r \in Runs : OwnsRun(q, r)' => OwnsRun(q, r)
  BY <1>2 DEF OwnsRun
<1>6. \A q \in Sweepers : /\ pc'[q] \in {"expire", "mark_stale"} => expiring'[q] # <<>>
                          /\ \A i \in DOMAIN expiring'[q] : runs'[expiring'[q][i]] # Absent
  BY <1>0, <1>1, RoleOfProc DEF RowsKnown
<1>7. RowsKnown'
  BY <1>0, <1>5, <1>6 DEF RowsKnown
<1> QED
  BY <1>3, <1>4, <1>7, AloneKeepsLocks

\* A session that commits, and is over or, for a job, reports to its queue.
LEMMA CommitKeepsLocks ==
  ASSUME SysInv, NEW p \in Procs, Commit(p), UNCHANGED <<issued, expiring>>,
         \/ Close(p)
         \/ ~Idle(p) /\ pc' = [pc EXCEPT ![p] = "ack"] /\ UNCHANGED target
  PROVE  LockDiscipline'
<1>0. /\ StoreTypeOK /\ pc \in [Procs -> UNION {Stages(q) : q \in Procs}]
      /\ target \in [Procs -> Runs \cup {NoRun}] /\ RowsHeld(p) /\ RowsKnown
  BY DEF SysInv, StoreInv, TypeOK, LockDiscipline
<1>1. /\ \A q \in Procs \ {p} : pc'[q] = pc[q] /\ target'[q] = target[q]
      /\ pc'[p] = "idle" \/ (pc'[p] = "ack" /\ target'[p] \in Runs)
  BY <1>0 DEF Close, RowsHeld
<1>2. /\ \A q \in Procs \ {p} : dirtyRuns'[q] = dirtyRuns[q] /\ dirtyApprovals'[q] = dirtyApprovals[q]
      /\ \A r \in Runs : dirtyRuns'[p][r] = Absent /\ dirtyApprovals'[p][r] = Absent
  BY <1>0 DEF StoreTypeOK, Commit, Discard, NoWrites
<1>3. /\ \A r \in Runs : runs'[r] # Absent <=> Exists(p, r)
      /\ \A r \in Runs : approvals'[r] # Absent => approvals[r] # Absent \/ OwnsApproval(p, r)
  BY <1>0 DEF StoreTypeOK, Commit, Overwrite, Exists, OwnsRun, OwnsApproval
<1>4. Alone(p)
  BY <1>1, <1>2, <1>3 DEF Alone, Exists
<1>5. RowsHeld(p)'
  BY <1>1, <1>2 DEF RowsHeld, Idle, OwnsRun, OwnsApproval, Creating
<1>6. \A q \in Procs, r \in Runs : OwnsRun(q, r)' => OwnsRun(q, r)
  BY <1>2 DEF OwnsRun
<1>7. /\ \A r \in Runs : runs'[r] # Absent => r \in issued
      /\ \A r \in Runs : approvals'[r] # Absent => runs'[r] # Absent
  BY <1>0, <1>3 DEF RowsKnown, RowsHeld, Exists
<1>8. \A q \in Sweepers : /\ pc'[q] \in {"expire", "mark_stale"} => expiring[q] # <<>>
                          /\ \A i \in DOMAIN expiring[q] : runs'[expiring[q][i]] # Absent
  <2>1. \A q \in Sweepers : \A i \in DOMAIN expiring[q] : expiring[q][i] \in Runs
    BY DEF SysInv, TypeOK
  <2> QED
    BY <1>0, <1>1, <1>3, <2>1, RoleOfProc DEF RowsKnown, Exists
<1>9. RowsKnown'
  BY <1>0, <1>6, <1>7, <1>8 DEF RowsKnown
<1> QED
  BY <1>4, <1>5, <1>9, AloneKeepsLocks

\* A session that begins with a read.
LEMMA BeginKeepsLocks ==
  ASSUME SysInv, NEW p \in Procs, NEW r \in Runs, NEW stage \in {"decide", "load", "expire"},
         Begin(p, r, stage), UNCHANGED <<storeVars, issued>>,
         stage \in {"decide", "expire"} => runs[r] # Absent,
         \A q \in Sweepers : \/ expiring'[q] = expiring[q] /\ (q = p => stage # "expire")
                             \/ /\ q = p /\ expiring'[q] # <<>>
                                /\ \A i \in DOMAIN expiring'[q] : runs[expiring'[q][i]] # Absent
  PROVE  LockDiscipline'
<1>0. /\ StoreTypeOK /\ pc \in [Procs -> UNION {Stages(q) : q \in Procs}]
      /\ target \in [Procs -> Runs \cup {NoRun}] /\ RowsHeld(p) /\ RowsKnown
      /\ UNCHANGED <<runs, approvals, events, dirtyRuns, dirtyApprovals, dirtyEvents>>
  BY DEF SysInv, StoreInv, TypeOK, LockDiscipline, storeVars
<1>1. /\ pc[p] = "idle" /\ pc'[p] = stage /\ target'[p] = r
      /\ \A q \in Procs \ {p} : pc'[q] = pc[q] /\ target'[q] = target[q]
  BY <1>0 DEF Begin, Idle
<1>2. Alone(p)
  BY <1>0, <1>1 DEF Alone
<1>3. RowsHeld(p)'
  BY <1>0, <1>1 DEF RowsHeld, Idle, OwnsRun, OwnsApproval, Exists, Creating
<1>4. \A q \in Sweepers : /\ pc'[q] \in {"expire", "mark_stale"} => expiring'[q] # <<>>
                          /\ \A i \in DOMAIN expiring'[q] : runs[expiring'[q][i]] # Absent
  BY <1>0, <1>1, RoleOfProc DEF RowsKnown
<1>5. RowsKnown'
  BY <1>0, <1>4 DEF RowsKnown, OwnsRun
<1> QED
  BY <1>2, <1>3, <1>5, AloneKeepsLocks

\* A session with nothing in it at all can also just end.
LEMMA AckKeepsLocks ==
  ASSUME SysInv, NEW p \in Procs, pc[p] = "ack", Close(p), UNCHANGED <<storeVars, issued, expiring>>
  PROVE  LockDiscipline'
<1>0. /\ StoreTypeOK /\ pc \in [Procs -> UNION {Stages(q) : q \in Procs}]
      /\ target \in [Procs -> Runs \cup {NoRun}] /\ RowsHeld(p) /\ RowsKnown
      /\ UNCHANGED <<runs, approvals, events, dirtyRuns, dirtyApprovals, dirtyEvents>>
  BY DEF SysInv, StoreInv, TypeOK, LockDiscipline, storeVars
<1>1. pc'[p] = "idle" /\ \A q \in Procs \ {p} : pc'[q] = pc[q] /\ target'[q] = target[q]
  BY <1>0 DEF Close
<1>2. Alone(p)
  BY <1>0, <1>1 DEF Alone
<1>3. RowsHeld(p)'
  BY <1>0, <1>1 DEF RowsHeld, Idle, OwnsRun, OwnsApproval, Creating
<1>4. RowsKnown'
  BY <1>0, <1>1, RoleOfProc DEF RowsKnown, OwnsRun
<1> QED
  BY <1>2, <1>3, <1>4, AloneKeepsLocks

\* `idemra run' keeps the lock discipline.
LEMMA RunnerKeepsLocks ==
  ASSUME SysInv, NEW p \in Runners, RunnerNext(p)
  PROVE  LockDiscipline'
<1> USE RoleOfProc
<1>0. UNCHANGED expiring /\ RowsHeld(p) /\ p \notin Sweepers
  BY RolesAssumption DEF RunnerNext, gateVars, SysInv, LockDiscipline
<1>1. CASE CreateRun(p)
  <2>0. /\ StoreTypeOK /\ pc \in [Procs -> UNION {Stages(q) : q \in Procs}]
        /\ target \in [Procs -> Runs \cup {NoRun}] /\ RowsKnown
    BY DEF SysInv, StoreInv, TypeOK, LockDiscipline
  <2>1. PICK r \in Runs \ issued, stage \in {"fetch", "route"} :
          Begin(p, r, stage) /\ InsertRun(p, r) /\ issued' = issued \cup {r}
    BY <1>1 DEF CreateRun
  <2>2. /\ pc[p] = "idle" /\ pc'[p] = stage /\ target'[p] = r
        /\ \A q \in Procs \ {p} : pc'[q] = pc[q] /\ target'[q] = target[q]
    BY <2>0, <2>1 DEF Begin, Idle
  <2>3. /\ \A q \in Procs \ {p} : dirtyRuns'[q] = dirtyRuns[q]
        /\ dirtyRuns'[p][r] = "pending"
        /\ \A u \in Runs \ {r} : dirtyRuns'[p][u] = dirtyRuns[p][u]
        /\ UNCHANGED <<runs, approvals, events, dirtyApprovals>>
    BY <2>0, <2>1 DEF StoreTypeOK, InsertRun
  <2>4. Alone(p)
    BY <1>0, <2>2, <2>3 DEF Alone
  <2>5. RowsHeld(p)'
    BY <1>0, <2>2, <2>3 DEF RowsHeld, Idle, OwnsRun, OwnsApproval, Exists, Creating, Absent
  <2>6. RowsKnown'
    BY <1>0, <2>0, <2>1, <2>2, <2>3 DEF RowsKnown, OwnsRun
  <2> QED
    BY <2>4, <2>5, <2>6, AloneKeepsLocks
<1>2. CASE FetchTask(p) \/ LoadPermissions(p) \/ BuildWorldModel(p) \/ ValidateProposal(p)
           \/ RouteTask(p) \/ ProposeChanges(p)
  <2>1. PICK to \in Creating : /\ pc[p] \in Creating /\ pc' = [pc EXCEPT ![p] = to] /\ UNCHANGED target
                               /\ UNCHANGED <<issued, committed, dirtyRuns, dirtyApprovals>>
    BY <1>2 DEF FetchTask, LoadPermissions, BuildWorldModel, ValidateProposal, Proceed, RouteTask,
                ProposeChanges, Goto, RecordEvent, Creating, storeVars, committed
  <2>2. OwnsRun(p, target[p]) /\ ~Idle(p)
    BY <1>0, <2>1 DEF RowsHeld, Idle, Creating
  <2>3. OwnsRun(p, target[p])' /\ to \in HoldingStages /\ to \notin {"expire", "mark_stale"}
    BY <2>1, <2>2 DEF OwnsRun, HoldingStages, Creating
  <2> QED
    BY <1>0, <2>1, <2>2, <2>3, MoveKeepsLocks
<1>3. CASE StartRun(p) \/ FailRun(p) \/ QueueRun(p) \/ RequestApproval(p)
  <2>1. PICK to \in {"permissions", "commit", "enqueue"}, s \in Statuses :
          /\ pc[p] \in Creating /\ pc' = [pc EXCEPT ![p] = to] /\ UNCHANGED <<target, issued, committed>>
          /\ dirtyRuns' = [dirtyRuns EXCEPT ![p][target[p]] = s]
    BY <1>3 DEF StartRun, FailRun, QueueRun, RequestApproval, Goto, WriteStatusEvent, Creating, Statuses
  <2>2. \/ UNCHANGED dirtyApprovals
        \/ \E a \in ApprovalStatuses : dirtyApprovals' = [dirtyApprovals EXCEPT ![p][target[p]] = a]
    BY <1>3 DEF StartRun, FailRun, QueueRun, RequestApproval, SetApproval, ApprovalStatuses
  <2>3. Exists(p, target[p]) /\ ~Idle(p) /\ target[p] \in Runs
    BY <2>1, TargetExists DEF Idle, Creating
  <2>4. OwnsRun(p, target[p])'
    BY <2>1, <2>3 DEF OwnsRun, SysInv, StoreInv, StoreTypeOK, Statuses, Absent
  <2>5. to \in HoldingStages /\ to \notin {"expire", "mark_stale"}
    BY DEF HoldingStages, Creating
  <2> QED
    BY <1>0, <2>1, <2>2, <2>3, <2>4, <2>5, MoveKeepsLocks
<1>4. CASE EnqueueApply(p) /\ UNCHANGED issued
  <2>1. /\ pc' = [pc EXCEPT ![p] = "commit"] /\ ~Idle(p)
        /\ UNCHANGED <<target, issued, committed, dirtyRuns, dirtyApprovals>>
    BY <1>4 DEF EnqueueApply, Idle, storeVars, committed
  <2> QED
    BY <1>0, <2>1, MoveKeepsLocks DEF HoldingStages, Creating
<1>5. CASE CommitSession(p) /\ UNCHANGED issued
  BY <1>0, <1>5, CommitKeepsLocks DEF CommitSession
<1>6. CASE UncaughtError(p) \/ RunFault(p)
  BY <1>0, <1>6, AbortKeepsLocks DEF UncaughtError, RunFault, Fault
<1> QED
  BY <1>1, <1>2, <1>3, <1>4, <1>5, <1>6 DEF RunnerNext, RunStep

\* `idemra approve' and `idemra reject' keep it.
LEMMA DeciderKeepsLocks ==
  ASSUME SysInv, NEW p \in Approvers \cup Rejecters, DeciderNext(p)
  PROVE  LockDiscipline'
<1> USE RoleOfProc
<1>0. UNCHANGED issued /\ RowsHeld(p) /\ RowsKnown /\ p \notin Sweepers
  BY GateAssumption DEF DeciderNext, SysInv, LockDiscipline
<1>1. CASE ReadApproval(p)
  <2>1. PICK r \in Runs : /\ approvals[r] = "pending" /\ Begin(p, r, "decide")
                          /\ UNCHANGED <<storeVars, expiring>>
    BY <1>1 DEF ReadApproval, gateVars
  <2>2. runs[r] # Absent
    BY <1>0, <2>1 DEF RowsKnown, Absent
  <2> QED
    BY <1>0, <2>1, <2>2, BeginKeepsLocks
<1>2. CASE RecordDecision(p) \/ QueueApproved(p)
  <2>1. PICK to \in {"mark_queued", "commit", "enqueue"}, s \in Statuses :
          /\ pc[p] \in {"decide", "mark_queued"} /\ pc' = [pc EXCEPT ![p] = to]
          /\ UNCHANGED <<target, committed, expiring>>
          /\ dirtyRuns' = [dirtyRuns EXCEPT ![p][target[p]] = s]
    BY <1>2 DEF RecordDecision, QueueApproved, Goto, WriteStatusEvent, Decision, Statuses, gateVars
  <2>2. \/ UNCHANGED dirtyApprovals
        \/ \E a \in ApprovalStatuses : dirtyApprovals' = [dirtyApprovals EXCEPT ![p][target[p]] = a]
    BY <1>2 DEF RecordDecision, QueueApproved, SetApproval, Decision, ApprovalStatuses
  <2>3. Exists(p, target[p]) /\ ~Idle(p) /\ target[p] \in Runs
    BY <2>1, TargetExists DEF Idle
  <2>4. OwnsRun(p, target[p])'
    BY <2>1, <2>3 DEF OwnsRun, SysInv, StoreInv, StoreTypeOK, Statuses, Absent
  <2>5. to \in HoldingStages /\ to \notin {"expire", "mark_stale"}
    BY DEF HoldingStages
  <2> QED
    BY <1>0, <2>1, <2>2, <2>3, <2>4, <2>5, MoveKeepsLocks
<1>3. CASE EnqueueApply(p) /\ UNCHANGED gateVars
  <2>1. /\ pc' = [pc EXCEPT ![p] = "commit"] /\ ~Idle(p)
        /\ UNCHANGED <<target, expiring, committed, dirtyRuns, dirtyApprovals>>
    BY <1>3 DEF EnqueueApply, Idle, storeVars, committed, gateVars
  <2> QED
    BY <1>0, <2>1, MoveKeepsLocks DEF HoldingStages, Creating
<1>4. CASE CommitSession(p) /\ UNCHANGED gateVars
  BY <1>0, <1>4, CommitKeepsLocks DEF CommitSession, gateVars
<1>5. CASE ConflictingDecision(p)
  BY <1>0, <1>5, AbortKeepsLocks DEF ConflictingDecision, gateVars
<1>6. CASE GateFault(p)
  <2>1. AbortSession(p) /\ \A q \in Sweepers : expiring'[q] = expiring[q] \/ (q = p /\ expiring'[q] = <<>>)
    BY <1>6 DEF GateFault, Fault
  <2> QED
    BY <1>0, <2>1, AbortKeepsLocks
<1> QED
  BY <1>1, <1>2, <1>3, <1>4, <1>5, <1>6 DEF DeciderNext, DecideStep

\* `idemra sweep' keeps it.
LEMMA SweeperKeepsLocks ==
  ASSUME SysInv, NEW p \in Sweepers, SweeperNext(p)
  PROVE  LockDiscipline'
<1> USE RoleOfProc
<1>0. /\ UNCHANGED issued /\ RowsHeld(p) /\ RowsKnown /\ expiring \in [Sweepers -> Seq(Runs)]
  BY DEF SweeperNext, SysInv, LockDiscipline, TypeOK
<1>1. CASE SelectOverdue(p)
  <2>1. PICK rows \in SetToSeqs(Due) :
          /\ Begin(p, Head(rows), "expire") /\ expiring' = [expiring EXCEPT ![p] = rows]
          /\ UNCHANGED storeVars /\ Due # {}
    BY <1>1 DEF SelectOverdue
  <2>2. rows \in Seq(Due) /\ rows # <<>> /\ Head(rows) \in Due
    BY <2>1, SelectionIsSeq, DueFinite DEF SysInv
  <2>3. \A r \in Due : r \in Runs /\ runs[r] # Absent
    BY <1>0 DEF Due, RowsKnown, Absent
  <2>4. \A i \in DOMAIN rows : runs[rows[i]] # Absent
    BY <2>2, <2>3
  <2>5. \A q \in Sweepers : \/ q # p /\ expiring'[q] = expiring[q]
                            \/ q = p /\ expiring'[q] = rows
    BY <1>0, <2>1
  <2> QED
    BY <1>0, <2>1, <2>2, <2>3, <2>4, <2>5, BeginKeepsLocks
<1>2. CASE ExpireApproval(p)
  <2>1. /\ pc[p] = "expire" /\ pc' = [pc EXCEPT ![p] = "mark_stale"]
        /\ UNCHANGED <<target, committed, expiring, dirtyRuns>>
        /\ dirtyApprovals' = [dirtyApprovals EXCEPT ![p][target[p]] = "expired"]
    BY <1>2 DEF ExpireApproval, Goto, SetApproval, gateVars
  <2>2. Exists(p, target[p]) /\ runs[target[p]] # Absent /\ expiring[p] # <<>> /\ ~Idle(p)
    BY <1>0, <2>1, TargetExists DEF RowsHeld, RowsKnown, Idle
  <2> QED
    BY <1>0, <2>1, <2>2, MoveKeepsLocks DEF HoldingStages, ApprovalStatuses, Creating
<1>3. CASE MarkStale(p)
  <2> DEFINE rest == Tail(expiring[p])
  <2>0. /\ StoreTypeOK /\ pc \in [Procs -> UNION {Stages(q) : q \in Procs}]
        /\ target \in [Procs -> Runs \cup {NoRun}]
    BY DEF SysInv, StoreInv, TypeOK
  <2>1. /\ pc[p] = "mark_stale" /\ expiring' = [expiring EXCEPT ![p] = rest]
        /\ IF rest = <<>>
           THEN pc' = [pc EXCEPT ![p] = "commit"] /\ UNCHANGED target
           ELSE pc' = [pc EXCEPT ![p] = "expire"] /\ target' = [target EXCEPT ![p] = Head(rest)]
        /\ UNCHANGED <<runs, approvals, events, dirtyApprovals>>
        /\ dirtyRuns' = [dirtyRuns EXCEPT ![p][target[p]] = "stale"]
    BY <1>3 DEF MarkStale, WriteStatusEvent, committed
  <2>2. /\ target[p] \in Runs /\ runs[target[p]] # Absent /\ expiring[p] # <<>>
        /\ expiring[p] \in Seq(Runs) /\ \A i \in DOMAIN expiring[p] : runs[expiring[p][i]] # Absent
    BY <1>0, <2>1 DEF RowsHeld, RowsKnown, Idle
  <2>3. /\ rest \in Seq(Runs) /\ \A i \in DOMAIN rest : runs[rest[i]] # Absent
        /\ rest # <<>> => Head(rest) \in Runs /\ runs[Head(rest)] # Absent
    BY <2>2
  <2> HIDE DEF rest
  <2>4. /\ rest = <<>> => pc'[p] = "commit" /\ target'[p] = target[p]
        /\ rest # <<>> => pc'[p] = "expire" /\ target'[p] = Head(rest)
        /\ \A q \in Procs \ {p} : pc'[q] = pc[q] /\ target'[q] = target[q]
        /\ \A q \in Sweepers \ {p} : expiring'[q] = expiring[q]
        /\ expiring'[p] = rest
    BY <1>0, <2>0, <2>1
  <2>5. /\ \A q \in Procs \ {p} : dirtyRuns'[q] = dirtyRuns[q]
        /\ \A r \in Runs : OwnsRun(p, r)' <=> OwnsRun(p, r) \/ r = target[p]
    BY <2>0, <2>1, <2>2 DEF StoreTypeOK, OwnsRun, Absent
  <2>6. Alone(p)
    BY <2>1, <2>4, <2>5 DEF Alone
  <2>7. RowsHeld(p)'
    BY <1>0, <2>1, <2>2, <2>3, <2>4, <2>5 DEF RowsHeld, Idle, OwnsApproval, Exists, Creating
  <2>8. \A q \in Procs, r \in Runs : OwnsRun(q, r)' => r \in issued
    BY <1>0, <2>2, <2>5 DEF RowsKnown, OwnsRun
  <2>9. \A q \in Sweepers : /\ pc'[q] \in {"expire", "mark_stale"} => expiring'[q] # <<>>
                            /\ \A i \in DOMAIN expiring'[q] : runs[expiring'[q][i]] # Absent
    BY <1>0, <2>3, <2>4 DEF RowsKnown
  <2>10. RowsKnown'
    BY <1>0, <2>1, <2>8, <2>9 DEF RowsKnown
  <2> QED
    BY <2>6, <2>7, <2>10, AloneKeepsLocks
<1>4. CASE ConflictingSweep(p) \/ BreakDeadlock(p) \/ GateFault(p)
  <2>1. AbortSession(p) /\ \A q \in Sweepers : expiring'[q] = expiring[q] \/ (q = p /\ expiring'[q] = <<>>)
    BY <1>0, <1>4 DEF ConflictingSweep, BreakDeadlock, GateFault, Fault
  <2> QED
    BY <1>0, <2>1, AbortKeepsLocks
<1>5. CASE CommitSession(p) /\ UNCHANGED gateVars
  BY <1>0, <1>5, CommitKeepsLocks DEF CommitSession, gateVars
<1> QED
  BY <1>1, <1>2, <1>3, <1>4, <1>5 DEF SweeperNext, SweepStep

\* A worker keeps it.
LEMMA WorkerKeepsLocks ==
  ASSUME SysInv, NEW w \in Workers, WorkerNext(w)
  PROVE  LockDiscipline'
<1> USE RoleOfProc
<1>0. UNCHANGED <<issued, expiring>> /\ RowsHeld(w) /\ RowsKnown /\ w \notin Sweepers
  BY RolesAssumption DEF WorkerNext, gateVars, SysInv, LockDiscipline
<1>1. CASE TakeJob(w)
  <2>1. queue # <<>> /\ Begin(w, Head(queue), "load") /\ UNCHANGED storeVars
    BY <1>1 DEF TakeJob
  <2>2. Head(queue) \in Runs
    BY <2>1 DEF SysInv, TypeOK
  <2> QED
    BY <1>0, <2>1, <2>2, BeginKeepsLocks
<1>2. CASE LoadRun(w)
  <2>0. /\ pc \in [Procs -> UNION {Stages(q) : q \in Procs}]
    BY DEF SysInv, TypeOK
  <2>1. /\ pc[w] = "load" /\ pc' = [pc EXCEPT ![w] = "apply"] /\ runs[target[w]] # Absent
        /\ UNCHANGED <<target, runs, approvals, dirtyRuns, dirtyApprovals>>
    BY <1>2 DEF LoadRun, Goto, storeVars, Absent
  <2>2. pc'[w] = "apply" /\ \A q \in Procs \ {w} : pc'[q] = pc[q]
    BY <2>0, <2>1
  <2>3. Alone(w)
    BY <1>0, <2>1, <2>2 DEF Alone
  <2>4. RowsHeld(w)'
    BY <1>0, <2>1, <2>2 DEF RowsHeld, Idle, OwnsRun, OwnsApproval, Exists, Creating
  <2>5. RowsKnown'
    BY <1>0, <2>1, <2>2 DEF RowsKnown, OwnsRun
  <2> QED
    BY <2>3, <2>4, <2>5, AloneKeepsLocks
<1>3. CASE RefuseApply(w) \/ StartApply(w) \/ CompleteRun(w)
  <2>1. PICK to \in {"commit", "write"}, s \in Statuses :
          /\ pc[w] \in {"apply", "complete"} /\ pc' = [pc EXCEPT ![w] = to]
          /\ UNCHANGED <<target, committed, dirtyApprovals>>
          /\ dirtyRuns' = [dirtyRuns EXCEPT ![w][target[w]] = s]
    BY <1>3 DEF RefuseApply, StartApply, CompleteRun, Goto, WriteStatusEvent, Statuses
  <2>2. Exists(w, target[w]) /\ ~Idle(w) /\ target[w] \in Runs
    BY <2>1, TargetExists DEF Idle
  <2>3. OwnsRun(w, target[w])'
    BY <2>1, <2>2 DEF OwnsRun, SysInv, StoreInv, StoreTypeOK, Statuses, Absent
  <2>4. to \in HoldingStages /\ to \notin {"expire", "mark_stale"}
    BY DEF HoldingStages
  <2> QED
    BY <1>0, <2>1, <2>2, <2>3, <2>4, MoveKeepsLocks
<1>4. CASE WriteFile(w) \/ RecordApplied(w)
  <2>1. PICK to \in {"write", "complete"} :
          /\ pc[w] = "write" /\ pc' = [pc EXCEPT ![w] = to]
          /\ UNCHANGED <<target, committed, dirtyRuns, dirtyApprovals>>
    BY <1>4 DEF WriteFile, RecordApplied, Goto, RecordEvent, storeVars, committed
  <2>2. OwnsRun(w, target[w])' /\ ~Idle(w)
    BY <1>0, <2>1 DEF RowsHeld, OwnsRun, Idle
  <2>3. to \in HoldingStages /\ to \notin {"expire", "mark_stale"}
    BY DEF HoldingStages
  <2> QED
    BY <1>0, <2>1, <2>2, <2>3, MoveKeepsLocks
<1>5. CASE SkipJob(w) \/ ConflictingJob(w) \/ UncaughtJobError(w) \/ WorkerFault(w)
  BY <1>0, <1>5, AbortKeepsLocks DEF SkipJob, ConflictingJob, UncaughtJobError, WorkerFault, Fault
<1>6. CASE CommitJob(w)
  BY <1>0, <1>6, CommitKeepsLocks DEF CommitJob, Goto, Idle
<1>7. CASE AckJob(w)
  BY <1>0, <1>7, AckKeepsLocks DEF AckJob
<1> QED
  BY <1>1, <1>2, <1>3, <1>4, <1>5, <1>6, <1>7 DEF WorkerNext, WorkerStep

-----------------------------------------------------------------------------
(* The invariant is inductive. *)

\* The clock, the operator at RQ's registry, and a step of nobody.
LEMMA IdleStepKeeps ==
  ASSUME SysInv, ClockNext \/ OperatorNext \/ UNCHANGED vars
  PROVE  TypeOK' /\ LockDiscipline' /\ IsFiniteSet(issued')
<1>0. queue \in Seq(Runs) /\ filed \in [Runs -> Nat] /\ overdue \subseteq Runs
  BY DEF SysInv, TypeOK
<1>1. /\ UNCHANGED <<runs, approvals, events, dirtyRuns, dirtyApprovals, dirtyEvents, pc, target,
                     faults, issued, expiring, disk, cursor, since>>
      /\ overdue' \subseteq Runs /\ queue' \in Seq(Runs) /\ filed' \in [Runs -> Nat]
  <2>1. CASE OperatorNext
    <3>1. PICK r \in Runs : RequeueJob(r) /\ UNCHANGED <<issued, gateVars>>
      BY <2>1 DEF OperatorNext
    <3>2. /\ filed[r] > 0 /\ filed' = [filed EXCEPT ![r] = @ - 1]
          /\ queue' = Append(queue, r) /\ UNCHANGED <<storeVars, pc, target, faults, disk, cursor, since>>
      BY <3>1 DEF RequeueJob
    <3>3. queue' \in Seq(Runs) /\ filed' \in [Runs -> Nat]
      BY <1>0, <3>2
    <3> QED
      BY <1>0, <3>1, <3>2, <3>3 DEF storeVars, gateVars
  <2>2. CASE ClockNext \/ UNCHANGED vars
    BY <1>0, <2>2 DEF ClockNext, Lapse, vars, storeVars, sessionVars, gateVars, workerVars
  <2> QED
    BY <2>1, <2>2
<1>2. TypeOK'
  BY <1>1 DEF SysInv, TypeOK, StoreTypeOK
<1>3. LockDiscipline'
  BY <1>1 DEF SysInv, LockDiscipline, RowsKnown, RowsHeld, OwnsRun, OwnsApproval, Exists, Idle
<1> QED
  BY <1>1, <1>2, <1>3 DEF SysInv

\* The initial states satisfy the invariant.
LEMMA SysInit == Init => SysInv
<1> SUFFICES ASSUME Init PROVE SysInv
  OBVIOUS
<1>1. /\ pc = [p \in Procs |-> "idle"] /\ target = [p \in Procs |-> NoRun] /\ queue = <<>> /\ faults = 0
      /\ issued = {} /\ overdue = {} /\ expiring = [p \in Sweepers |-> <<>>]
      /\ disk = [f \in Files |-> Original] /\ cursor = [w \in Workers |-> 0]
      /\ filed = [r \in Runs |-> 0] /\ since = [f \in Files |-> [r \in Runs |-> {}]]
      /\ runs = [r \in Runs |-> Absent] /\ approvals = [r \in Runs |-> Absent]
      /\ dirtyRuns = [p \in Procs |-> [r \in Runs |-> Absent]]
      /\ dirtyApprovals = [p \in Procs |-> [r \in Runs |-> Absent]]
  BY DEF Init, StoreInit, SessionInit, RunCommandInit, GateInit, WorkerInit, NoWrites
<1>2. StoreInv
  BY InitInv DEF Init
<1>3. TypeOK
  <2>1. \A p \in Procs : pc[p] \in Stages(p)
    BY <1>1, IdleIsStage
  <2>2. pc \in [Procs -> UNION {Stages(p) : p \in Procs}]
    BY <1>1, IdleIsStage
  <2>3. expiring \in [Sweepers -> Seq(Runs)] /\ queue \in Seq(Runs)
    BY <1>1
  <2> QED
    BY <1>1, <1>2, <2>1, <2>2, <2>3, FaultAssumption DEF TypeOK, StoreInv
<1>4. LockDiscipline
  BY <1>1, RoleOfProc
     DEF LockDiscipline, RowsKnown, RowsHeld, OwnsRun, OwnsApproval, Exists, Idle, Creating
<1>5. IsFiniteSet(issued)
  BY <1>1, FS_EmptySet
<1> QED
  BY <1>2, <1>3, <1>4, <1>5 DEF SysInv

\* Every step keeps the invariant.
LEMMA SysStep == SysInv /\ [Next]_vars => SysInv'
<1> SUFFICES ASSUME SysInv, [Next]_vars PROVE SysInv'
  OBVIOUS
<1>1. StoreInv'
  BY NextImplements, StepKeepsInv DEF SysInv
<1>2. StoreTypeOK'
  BY <1>1 DEF StoreInv
<1>3. /\ StagesOK /\ SessionOK /\ issued \subseteq Runs /\ overdue \subseteq Runs
      /\ expiring \in [Sweepers -> Seq(Runs)]
      /\ WorkerOK
      /\ \A p \in Procs : ~Idle(p) => target[p] \in Runs
      /\ \A p \in Sweepers : pc[p] \in {"expire", "mark_stale"} => expiring[p] # <<>>
      /\ IsFiniteSet(Due)
  BY DueFinite DEF SysInv, TypeOK, StagesOK, SessionOK, WorkerOK, LockDiscipline, RowsHeld, RowsKnown
<1>4. StagesOK' /\ SessionOK' => (TypeOK' <=> /\ issued' \subseteq Runs /\ overdue' \subseteq Runs
                                              /\ expiring' \in [Sweepers -> Seq(Runs)]
                                              /\ WorkerOK')
  BY <1>2 DEF TypeOK, StagesOK, SessionOK, WorkerOK
<1>5. ASSUME NEW p \in Runners, RunnerNext(p) PROVE SysInv'
  <2>1. TypeOK'
    BY <1>3, <1>4, <1>5, RunnerTyped, RoleOfProc DEF RunnerNext, gateVars, workerVars, WorkerOK
  <2>2. issued' = issued \/ \E r \in Runs : issued' = issued \cup {r}
    BY <1>5 DEF RunnerNext, RunStep, CreateRun, FetchTask, LoadPermissions, BuildWorldModel,
                ValidateProposal, Proceed, RouteTask, ProposeChanges, StartRun, FailRun, QueueRun,
                RequestApproval, UncaughtError, RunFault
  <2>3. IsFiniteSet(issued')
    BY <2>2, FS_AddElement DEF SysInv
  <2> QED
    BY <1>1, <1>5, <2>1, <2>3, RunnerKeepsLocks DEF SysInv
<1>6. ASSUME NEW p \in Approvers \cup Rejecters, DeciderNext(p) PROVE SysInv'
  <2>1. UNCHANGED issued /\ WorkerOK'
    BY <1>3, <1>6 DEF DeciderNext, workerVars, WorkerOK
  <2>2. TypeOK'
    BY <1>3, <1>4, <1>6, <2>1, DeciderTyped, RoleOfProc
  <2> QED
    BY <1>1, <1>6, <2>1, <2>2, DeciderKeepsLocks DEF SysInv
<1>7. ASSUME NEW p \in Sweepers, SweeperNext(p) PROVE SysInv'
  <2>1. UNCHANGED issued /\ WorkerOK'
    BY <1>3, <1>7 DEF SweeperNext, workerVars, WorkerOK
  <2>2. TypeOK'
    BY <1>3, <1>4, <1>7, <2>1, SweeperTyped, RoleOfProc
  <2> QED
    BY <1>1, <1>7, <2>1, <2>2, SweeperKeepsLocks DEF SysInv
<1>8. ASSUME NEW w \in Workers, WorkerNext(w) PROVE SysInv'
  <2>1. UNCHANGED <<issued, overdue, expiring>>
    BY <1>8 DEF WorkerNext, gateVars
  <2>2. TypeOK'
    BY <1>3, <1>4, <1>8, <2>1, WorkerTyped, RoleOfProc
  <2> QED
    BY <1>1, <1>8, <2>1, <2>2, WorkerKeepsLocks DEF SysInv
<1>9. CASE ClockNext \/ OperatorNext \/ UNCHANGED vars
  BY <1>1, <1>9, IdleStepKeeps DEF SysInv
<1> QED
  BY <1>5, <1>6, <1>7, <1>8, <1>9 DEF Next

\* The invariant holds of every behaviour.
LEMMA SysInvariant == Spec => []SysInv
BY SysInit, SysStep, PTL DEF Spec

-----------------------------------------------------------------------------
(* The theorems. *)

\* Every variable keeps its type, and every process is at a stage of its role.
THEOREM TypeCorrect == Spec => []TypeOK
<1>1. SysInv => TypeOK
  BY DEF SysInv
<1> QED
  BY <1>1, SysInvariant, PTL

\* At every stage a process holds the rows its next writes rely on (what
\* _write_status_event and record_event assume of their callers), and a
\* session that is over or has only read holds none.
THEOREM LocksAreDisciplined == Spec => []LockDiscipline
<1>1. SysInv => LockDiscipline
  BY DEF SysInv
<1> QED
  BY <1>1, SysInvariant, PTL

\* The commands and the worker write runs, approvals and events only as the
\* clients of the event store may.
THEOREM CommandsAreClients == Spec => ImplementsStore
<1>1. Init => StoreInit
  BY DEF Init
<1> QED
  BY <1>1, SysInvariant, NextImplements, PTL DEF Spec, ImplementsStore, StoreSpec

\* runs.py:12-15, for the whole system: however many runs, deciders, sweeps
\* and workers, faults included, a committed status is the fold of its log.
THEOREM SystemCacheIsFold == Spec => []StatusMatchesLog
BY CommandsAreClients, CacheIsFold DEF ImplementsStore

\* The whole system implements the abstract log.
THEOREM SystemImplementsRunLog == Spec => RefinesRunLog
BY CommandsAreClients, StoreImplementsRunLog DEF ImplementsStore
=============================================================================
