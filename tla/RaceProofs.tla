----------------------------- MODULE RaceProofs -----------------------------
(***************************************************************************)
(* Races about one run that its event keys decide: two deciders, and two   *)
(* jobs.  Both theorems rest on the form of the events the commands write, *)
(* on the uniqueness of their keys, and on who holds the run's row.        *)
(***************************************************************************)
EXTENDS IdemraProofs

-----------------------------------------------------------------------------
(* The form of the events. *)

\* Type, status and key of every event the commands and the worker write.
Forms ==
  { <<"routing_decision", NoStatus, "routing">>,
    <<"change_proposed", NoStatus, "proposal">>,
    <<"files_applied", NoStatus, "files-applied">>,
    <<"status_changed", "running", "start">>,
    <<"status_changed", "failed", "fail">>,
    <<"status_changed", "awaiting_approval", "await-approval">>,
    <<"status_changed", "queued", "queued-for-apply">>,
    <<"status_changed", "approved", "approval:decision">>,
    <<"status_changed", "rejected", "approval:decision">>,
    <<"status_changed", "stale", "approval:expired">>,
    <<"status_changed", "applying", "apply-start">>,
    <<"status_changed", "completed", "complete">> }

Formed(e) == <<e.type, e.status, e.key>> \in Forms

\* The events a worker records when it has written the files.
Late == {"files-applied", "complete"}

\* How a step of p can change the events.  The files, and the end of the run, are
\* recorded by a worker that was writing them.
Inserts(p) ==
  /\ UNCHANGED events
  /\ ~Idle(p)
  /\ \E f \in Forms :
       /\ InsertEvent(p, target[p], f[1], f[2], f[3])
       /\ f[3] \in Late => p \in Workers /\ pc[p] \in {"write", "complete"}

Ends(p) == Discard(p) /\ (UNCHANGED events \/ events' = [r \in Runs |-> SeenLog(p, r)])

EventsOf(p) == UNCHANGED <<events, dirtyEvents>> \/ Inserts(p) \/ Ends(p)

\* A step of p moves p alone.
OnlyMoves(p) == \A q \in Procs \ {p} : pc'[q] = pc[q] /\ target'[q] = target[q]

\* A commit, or a rollback, ends a session as Ends says.
LEMMA SessionEnds ==
  ASSUME NEW p \in Procs, Commit(p) \/ AbortSession(p)
  PROVE  Ends(p)
BY DEF Ends, Commit, AbortSession, Rollback, committed

\* The events of `idemra run'.
LEMMA RunnerEvents ==
  ASSUME SysInv, NEW p \in Runners, RunnerNext(p)
  PROVE  EventsOf(p)
<1> USE RoleOfProc
<1>1. CASE CreateRun(p) \/ FetchTask(p) \/ LoadPermissions(p) \/ BuildWorldModel(p)
           \/ ValidateProposal(p) \/ EnqueueApply(p)
  BY <1>1 DEF EventsOf, CreateRun, InsertRun, FetchTask, LoadPermissions, BuildWorldModel,
              ValidateProposal, Proceed, EnqueueApply, storeVars
<1>2. CASE RouteTask(p) \/ ProposeChanges(p) \/ StartRun(p) \/ FailRun(p) \/ QueueRun(p)
           \/ RequestApproval(p)
  <2>1. ~Idle(p)
    BY <1>2 DEF RouteTask, ProposeChanges, StartRun, FailRun, QueueRun, RequestApproval, Goto, Idle
  <2>2. UNCHANGED events
    BY <1>2 DEF RouteTask, ProposeChanges, StartRun, FailRun, QueueRun, RequestApproval,
                RecordEvent, WriteStatusEvent, committed
  <2>3. \E f \in Forms : InsertEvent(p, target[p], f[1], f[2], f[3]) /\ f[3] \notin Late
    <3>1. \/ InsertEvent(p, target[p], "routing_decision", NoStatus, "routing")
          \/ InsertEvent(p, target[p], "change_proposed", NoStatus, "proposal")
          \/ InsertEvent(p, target[p], "status_changed", "running", "start")
          \/ InsertEvent(p, target[p], "status_changed", "failed", "fail")
          \/ InsertEvent(p, target[p], "status_changed", "queued", "queued-for-apply")
          \/ InsertEvent(p, target[p], "status_changed", "awaiting_approval", "await-approval")
      BY <1>2 DEF RouteTask, ProposeChanges, StartRun, FailRun, QueueRun, RequestApproval,
                  RecordEvent, WriteStatusEvent
    <3> QED
      BY <3>1 DEF Forms, Late
  <2> QED
    BY <2>1, <2>2, <2>3 DEF EventsOf, Inserts
<1>3. CASE CommitSession(p) \/ UncaughtError(p) \/ RunFault(p)
  BY <1>3, SessionEnds DEF EventsOf, CommitSession, UncaughtError, RunFault, Fault
<1> QED
  BY <1>1, <1>2, <1>3 DEF RunnerNext, RunStep

\* The events of `idemra approve' and `idemra reject'.
LEMMA DeciderEvents ==
  ASSUME SysInv, NEW p \in Approvers \cup Rejecters, DeciderNext(p)
  PROVE  EventsOf(p)
<1> USE RoleOfProc
<1>1. CASE ReadApproval(p) \/ EnqueueApply(p)
  BY <1>1 DEF EventsOf, ReadApproval, EnqueueApply, storeVars
<1>2. CASE RecordDecision(p) \/ QueueApproved(p)
  <2>1. ~Idle(p) /\ UNCHANGED events
    BY <1>2 DEF RecordDecision, QueueApproved, Goto, Idle, WriteStatusEvent, committed
  <2>2. \/ InsertEvent(p, target[p], "status_changed", "approved", "approval:decision")
        \/ InsertEvent(p, target[p], "status_changed", "rejected", "approval:decision")
        \/ InsertEvent(p, target[p], "status_changed", "queued", "queued-for-apply")
    BY <1>2 DEF RecordDecision, QueueApproved, WriteStatusEvent, Decision, DecisionKey
  <2> QED
    BY <2>1, <2>2 DEF EventsOf, Inserts, Forms, Late
<1>3. CASE CommitSession(p) \/ ConflictingDecision(p) \/ GateFault(p)
  BY <1>3, SessionEnds
     DEF EventsOf, CommitSession, ConflictingDecision, GateFault, Fault
<1> QED
  BY <1>1, <1>2, <1>3 DEF DeciderNext, DecideStep

\* The events of `idemra sweep'.
LEMMA SweeperEvents ==
  ASSUME SysInv, NEW p \in Sweepers, SweeperNext(p)
  PROVE  EventsOf(p)
<1> USE RoleOfProc
<1>1. CASE SelectOverdue(p) \/ ExpireApproval(p)
  BY <1>1 DEF EventsOf, SelectOverdue, ExpireApproval, storeVars, committed
<1>2. CASE MarkStale(p)
  <2>1. ~Idle(p) /\ UNCHANGED events
        /\ InsertEvent(p, target[p], "status_changed", "stale", "approval:expired")
    BY <1>2 DEF MarkStale, Idle, WriteStatusEvent, committed
  <2> QED
    BY <2>1 DEF EventsOf, Inserts, Forms, Late
<1>3. CASE CommitSession(p) \/ ConflictingSweep(p) \/ BreakDeadlock(p) \/ GateFault(p)
  BY <1>3, SessionEnds
     DEF EventsOf, CommitSession, ConflictingSweep, BreakDeadlock, GateFault, Fault
<1> QED
  BY <1>1, <1>2, <1>3 DEF SweeperNext, SweepStep

\* The events of a worker: only what follows its last write records the files.
LEMMA WorkerEvents ==
  ASSUME SysInv, NEW w \in Workers, WorkerNext(w)
  PROVE  EventsOf(w)
<1> USE RoleOfProc
<1>1. CASE TakeJob(w) \/ LoadRun(w) \/ WriteFile(w) \/ AckJob(w)
  BY <1>1 DEF EventsOf, TakeJob, LoadRun, WriteFile, AckJob, storeVars
<1>2. CASE RefuseApply(w) \/ StartApply(w) \/ CompleteRun(w) \/ RecordApplied(w)
  <2>1. ~Idle(w) /\ UNCHANGED events
    BY <1>2 DEF RefuseApply, StartApply, CompleteRun, RecordApplied, Goto, Idle, WriteStatusEvent,
                RecordEvent, committed
  <2>2. \/ InsertEvent(w, target[w], "status_changed", "failed", "fail")
        \/ InsertEvent(w, target[w], "status_changed", "applying", "apply-start")
        \/ InsertEvent(w, target[w], "status_changed", "completed", "complete") /\ pc[w] = "complete"
        \/ InsertEvent(w, target[w], "files_applied", NoStatus, "files-applied") /\ pc[w] = "write"
    BY <1>2 DEF RefuseApply, StartApply, CompleteRun, RecordApplied, WriteStatusEvent, RecordEvent, Goto
  <2> QED
    BY <2>1, <2>2 DEF EventsOf, Inserts, Forms, Late
<1>3. CASE SkipJob(w) \/ ConflictingJob(w) \/ CommitJob(w) \/ UncaughtJobError(w) \/ WorkerFault(w)
  BY <1>3, SessionEnds DEF EventsOf, SkipJob, ConflictingJob, CommitJob, UncaughtJobError, WorkerFault, Fault
<1> QED
  BY <1>1, <1>2, <1>3 DEF WorkerNext, WorkerStep

\* A step is the step of one process, and moves no other.
LEMMA StepEvents ==
  ASSUME SysInv, [Next]_vars
  PROVE  \/ UNCHANGED <<pc, target, events, dirtyEvents>>
         \/ \E p \in Procs : EventsOf(p) /\ OnlyMoves(p) /\ (p \in Workers => WorkerNext(p))
<1> USE RoleOfProc
<1>0. /\ pc \in [Procs -> UNION {Stages(q) : q \in Procs}]
      /\ target \in [Procs -> Runs \cup {NoRun}]
  BY DEF SysInv, TypeOK
<1>1. ASSUME NEW p \in Runners, RunnerNext(p) PROVE OnlyMoves(p)
  <2>1. CASE CreateRun(p)
    BY <1>0, <2>1 DEF OnlyMoves, Begin, Close, Goto, CreateRun
  <2>2. CASE FetchTask(p) \/ LoadPermissions(p) \/ BuildWorldModel(p) \/ ValidateProposal(p)
             \/ RouteTask(p) \/ ProposeChanges(p) \/ StartRun(p) \/ FailRun(p) \/ QueueRun(p)
             \/ RequestApproval(p)
    BY <1>0, <2>2
       DEF OnlyMoves, Begin, Close, Goto, FetchTask, LoadPermissions, BuildWorldModel, ValidateProposal,
           Proceed, RouteTask, ProposeChanges, StartRun, FailRun, QueueRun, RequestApproval
  <2>3. CASE EnqueueApply(p)
    BY <1>0, <2>3 DEF EnqueueApply, OnlyMoves
  <2>4. CASE CommitSession(p) \/ UncaughtError(p) \/ RunFault(p)
    BY <1>0, <2>4
       DEF OnlyMoves, Begin, Close, Goto, CommitSession, UncaughtError, RunFault, Fault, AbortSession
  <2> QED
    BY <1>1, <2>1, <2>2, <2>3, <2>4 DEF RunnerNext, RunStep
<1>2. ASSUME NEW p \in Approvers \cup Rejecters, DeciderNext(p) PROVE OnlyMoves(p)
  <2>1. CASE ReadApproval(p)
    BY <1>0, <2>1 DEF OnlyMoves, Begin, Close, Goto, ReadApproval
  <2>2. CASE RecordDecision(p) \/ QueueApproved(p)
    BY <1>0, <2>2 DEF OnlyMoves, Begin, Close, Goto, RecordDecision, QueueApproved
  <2>3. CASE EnqueueApply(p)
    BY <1>0, <2>3 DEF EnqueueApply, OnlyMoves
  <2>4. CASE CommitSession(p) \/ ConflictingDecision(p) \/ GateFault(p)
    BY <1>0, <2>4
       DEF OnlyMoves, Begin, Close, Goto, CommitSession, ConflictingDecision, GateFault,
           Fault, AbortSession
  <2> QED
    BY <1>2, <2>1, <2>2, <2>3, <2>4 DEF DeciderNext, DecideStep
<1>3. ASSUME NEW p \in Sweepers, SweeperNext(p) PROVE OnlyMoves(p)
  <2>1. CASE SelectOverdue(p)
    BY <1>0, <2>1 DEF SelectOverdue, Begin, OnlyMoves
  <2>2. CASE ExpireApproval(p)
    BY <1>0, <2>2 DEF OnlyMoves, Begin, Close, Goto, ExpireApproval
  <2>3. CASE MarkStale(p)
    BY <1>0, <2>3 DEF MarkStale, OnlyMoves
  <2>4. CASE CommitSession(p) \/ ConflictingSweep(p) \/ BreakDeadlock(p) \/ GateFault(p)
    BY <1>0, <2>4
       DEF OnlyMoves, Begin, Close, Goto, CommitSession, ConflictingSweep, BreakDeadlock, GateFault,
           Fault, AbortSession
  <2> QED
    BY <1>3, <2>1, <2>2, <2>3, <2>4 DEF SweeperNext, SweepStep
<1>4. ASSUME NEW w \in Workers, WorkerNext(w) PROVE OnlyMoves(w)
  <2>1. CASE TakeJob(w)
    BY <1>0, <2>1 DEF TakeJob, Begin, OnlyMoves
  <2>2. CASE LoadRun(w) \/ RefuseApply(w) \/ StartApply(w) \/ WriteFile(w) \/ RecordApplied(w)
             \/ CompleteRun(w) \/ CommitJob(w)
    BY <1>0, <2>2
       DEF OnlyMoves, Begin, Close, Goto, LoadRun, RefuseApply, StartApply, WriteFile, RecordApplied,
           CompleteRun, CommitJob
  <2>3. CASE SkipJob(w) \/ ConflictingJob(w) \/ AckJob(w) \/ UncaughtJobError(w) \/ WorkerFault(w)
    BY <1>0, <2>3
       DEF OnlyMoves, Begin, Close, Goto, SkipJob, ConflictingJob, AckJob, UncaughtJobError,
           WorkerFault, Fault, AbortSession
  <2> QED
    BY <1>4, <2>1, <2>2, <2>3 DEF WorkerNext, WorkerStep
<1>5. CASE ClockNext \/ OperatorNext \/ UNCHANGED vars
  BY <1>5 DEF ClockNext, Lapse, OperatorNext, RequeueJob, vars, storeVars, sessionVars
<1>6. \A p \in Workers : p \notin Runners /\ p \notin Approvers \cup Rejecters \cup Sweepers
  BY RolesAssumption
<1> QED
  BY <1>1, <1>2, <1>3, <1>4, <1>5, <1>6, RunnerEvents, DeciderEvents, SweeperEvents, WorkerEvents DEF Next

\* Every event, committed or not, has one of the forms.
WellFormed ==
  /\ \A r \in Runs : \A e \in events[r] : Formed(e)
  /\ \A p \in Procs, r \in Runs : \A e \in dirtyEvents[p][r] : Formed(e)

\* What an insertion and the end of a session do to the open transactions.
LEMMA InsertsEffect ==
  ASSUME SysInv, NEW p \in Procs, Inserts(p)
  PROVE  /\ target[p] \in Runs /\ UNCHANGED events
         /\ \E n :
              /\ Formed(n)
              /\ n.key \in Late => p \in Workers /\ pc[p] \in {"write", "complete"}
              /\ n \in dirtyEvents'[p][target[p]]
              /\ \A q \in Procs, r \in Runs :
                   /\ dirtyEvents[q][r] \subseteq dirtyEvents'[q][r]
                   /\ \A e \in dirtyEvents'[q][r] :
                        e \in dirtyEvents[q][r] \/ (q = p /\ r = target[p] /\ e = n)
<1>1. target[p] \in Runs /\ StoreTypeOK
  BY DEF SysInv, StoreInv, LockDiscipline, RowsHeld, Inserts
<1>2. PICK f \in Forms : /\ InsertEvent(p, target[p], f[1], f[2], f[3])
                         /\ f[3] \in Late => p \in Workers /\ pc[p] \in {"write", "complete"}
  BY DEF Inserts
<1> DEFINE n == NewEvent(p, target[p], f[1], f[2], f[3])
<1>3. n.type = f[1] /\ n.status = f[2] /\ n.key = f[3]
  BY DEF NewEvent
<1>4. Formed(n)
  BY <1>3 DEF Formed, Forms
<1>5. dirtyEvents' = [dirtyEvents EXCEPT ![p][target[p]] = @ \cup {n}]
  BY <1>2 DEF InsertEvent
<1> HIDE DEF n
<1>6. /\ dirtyEvents'[p][target[p]] = dirtyEvents[p][target[p]] \cup {n}
      /\ \A q \in Procs, r \in Runs :
           ~(q = p /\ r = target[p]) => dirtyEvents'[q][r] = dirtyEvents[q][r]
  BY <1>1, <1>5 DEF StoreTypeOK
<1> QED
  BY <1>1, <1>2, <1>3, <1>4, <1>6 DEF Inserts

\* The end of a session publishes its events or drops them.
LEMMA EndsEffect ==
  ASSUME SysInv, NEW p \in Procs, Ends(p)
  PROVE  /\ \A r \in Runs : dirtyEvents'[p][r] = {}
         /\ \A q \in Procs \ {p}, r \in Runs : dirtyEvents'[q][r] = dirtyEvents[q][r]
         /\ \A r \in Runs : events'[r] = events[r] \/ events'[r] = events[r] \cup dirtyEvents[p][r]
<1>1. StoreTypeOK
  BY DEF SysInv, StoreInv
<1> QED
  BY <1>1, DiscardClears DEF Ends, SeenLog

\* There are no events at first.
LEMMA FormsInit == Init => WellFormed
BY DEF Init, StoreInit, NoEvents, WellFormed

\* Every step keeps the events of the forms.
LEMMA FormsStep == SysInv /\ WellFormed /\ [Next]_vars => WellFormed'
<1> SUFFICES ASSUME SysInv, WellFormed, [Next]_vars PROVE WellFormed'
  OBVIOUS
<1>1. CASE UNCHANGED <<events, dirtyEvents>>
  BY <1>1 DEF WellFormed
<1>2. ASSUME NEW p \in Procs, Inserts(p) PROVE WellFormed'
  <2>1. PICK n :
          /\ Formed(n)
          /\ \A q \in Procs, r \in Runs : \A e \in dirtyEvents'[q][r] : e \in dirtyEvents[q][r] \/ e = n
    BY <1>2, InsertsEffect
  <2>2. UNCHANGED events
    BY <1>2, InsertsEffect
  <2>3. \A q \in Procs, r \in Runs : \A e \in dirtyEvents'[q][r] : Formed(e)
    BY <2>1 DEF WellFormed
  <2> QED
    BY <2>2, <2>3 DEF WellFormed
<1>3. ASSUME NEW p \in Procs, Ends(p) PROVE WellFormed'
  BY <1>3, EndsEffect DEF WellFormed
<1> QED
  BY <1>1, <1>2, <1>3, StepEvents DEF EventsOf

\* Every event the system ever writes has one of the forms.
LEMMA EventsWellFormed == Spec => []WellFormed
BY SysInvariant, FormsInit, FormsStep, PTL DEF Spec

-----------------------------------------------------------------------------
(* Deciders. *)

\* runs.py:134-140: both decisions have one key, and a key is used once.
LEMMA FormsGiveOneDecision ==
  ASSUME SysInv, WellFormed
  PROVE  OneDecision
<1> SUFFICES ASSUME NEW r \in Runs, NEW d \in events[r], NEW e \in events[r],
                    d.status \in {"approved", "rejected"}, e.status \in {"approved", "rejected"}
             PROVE  d = e
  BY DEF OneDecision
<1>1. Formed(d) /\ Formed(e)
  BY DEF WellFormed
<1>2. d.key = "approval:decision" /\ e.key = "approval:decision"
  BY <1>1 DEF Formed, Forms, NoStatus
<1> QED
  BY <1>2 DEF SysInv, StoreInv, LogsSound, Sound, Sequenced

\* However many people answer at the same moment, at most one decision about
\* a run is ever committed.
THEOREM AtMostOneDecision == Spec => []OneDecision
BY SysInvariant, EventsWellFormed, FormsGiveOneDecision, PTL

-----------------------------------------------------------------------------
(* Jobs. *)

\* A worker that writes has recorded in its transaction that it started, and
\* nobody records the files of a run, or its end, without that.
ApplyRecorded ==
  /\ \A w \in Workers :
       pc[w] \in {"write", "complete"} => Has(dirtyEvents[w][target[w]], "apply-start")
  /\ \A r \in Runs, k \in Late : Has(events[r], k) => Has(events[r], "apply-start")
  /\ \A p \in Procs, r \in Runs, k \in Late :
       Has(dirtyEvents[p][r], k) => Has(dirtyEvents[p][r], "apply-start")

\* A worker that goes on writing keeps its events; one that begins adds the
\* start.
LEMMA WritingStage ==
  ASSUME SysInv, NEW w \in Workers, WorkerNext(w), pc'[w] \in {"write", "complete"}
  PROVE  /\ target'[w] = target[w]
         /\ \/ /\ pc[w] \in {"write", "complete"}
               /\ dirtyEvents[w][target[w]] \subseteq dirtyEvents'[w][target[w]]
            \/ Has(dirtyEvents'[w][target[w]], "apply-start")
<1> USE RoleOfProc
<1>0. /\ StoreTypeOK /\ pc \in [Procs -> UNION {Stages(q) : q \in Procs}]
      /\ target \in [Procs -> Runs \cup {NoRun}] /\ (~Idle(w) => target[w] \in Runs)
  BY DEF SysInv, StoreInv, TypeOK, LockDiscipline, RowsHeld
<1>1. CASE WriteFile(w)
  BY <1>0, <1>1 DEF WriteFile, Goto, storeVars
<1>2. CASE RecordApplied(w)
  <2> DEFINE n == NewEvent(w, target[w], "files_applied", NoStatus, "files-applied")
  <2>1. /\ pc[w] = "write" /\ UNCHANGED target
        /\ dirtyEvents' = [dirtyEvents EXCEPT ![w][target[w]] = @ \cup {n}]
    BY <1>2 DEF RecordApplied, Goto, RecordEvent, InsertEvent
  <2> HIDE DEF n
  <2>2. dirtyEvents'[w][target[w]] = dirtyEvents[w][target[w]] \cup {n}
    BY <1>0, <2>1 DEF StoreTypeOK, Idle
  <2> QED
    BY <2>1, <2>2
<1>3. CASE StartApply(w)
  <2> DEFINE n == NewEvent(w, target[w], "status_changed", "applying", "apply-start")
  <2>1. /\ pc[w] = "apply" /\ UNCHANGED target
        /\ dirtyEvents' = [dirtyEvents EXCEPT ![w][target[w]] = @ \cup {n}]
    BY <1>3 DEF StartApply, Goto, WriteStatusEvent, InsertEvent
  <2>2. n.key = "apply-start"
    BY DEF NewEvent
  <2> HIDE DEF n
  <2>3. dirtyEvents'[w][target[w]] = dirtyEvents[w][target[w]] \cup {n}
    BY <1>0, <2>1 DEF StoreTypeOK, Idle
  <2> QED
    BY <2>1, <2>2, <2>3 DEF Has
<1>4. CASE TakeJob(w)
  BY <1>0, <1>4 DEF TakeJob, Begin
<1>5. CASE LoadRun(w) \/ RefuseApply(w) \/ CompleteRun(w) \/ CommitJob(w)
  BY <1>0, <1>5 DEF LoadRun, RefuseApply, CompleteRun, CommitJob, Goto
<1>6. CASE SkipJob(w) \/ ConflictingJob(w) \/ AckJob(w) \/ UncaughtJobError(w) \/ WorkerFault(w)
  BY <1>0, <1>6 DEF SkipJob, ConflictingJob, AckJob, UncaughtJobError, WorkerFault, Fault, AbortSession, Close
<1> QED
  BY <1>1, <1>2, <1>3, <1>4, <1>5, <1>6 DEF WorkerNext, WorkerStep

\* Nothing is applied at first.
LEMMA ApplyInit == Init => ApplyRecorded
BY RoleOfProc DEF Init, StoreInit, SessionInit, NoEvents, ApplyRecorded, Has

\* Every step keeps a record of what is being applied.
LEMMA ApplyStep == SysInv /\ ApplyRecorded /\ [Next]_vars => ApplyRecorded'
<1> SUFFICES ASSUME SysInv, ApplyRecorded, [Next]_vars PROVE ApplyRecorded'
  OBVIOUS
<1>1. CASE UNCHANGED <<pc, target, events, dirtyEvents>>
  BY <1>1 DEF ApplyRecorded, Has
<1>2. ASSUME NEW p \in Procs, EventsOf(p), OnlyMoves(p), p \in Workers => WorkerNext(p)
      PROVE  ApplyRecorded'
  <2>1. \A q \in Procs \ {p}, r \in Runs : dirtyEvents'[q][r] = dirtyEvents[q][r]
    <3>1. CASE UNCHANGED <<events, dirtyEvents>>
      BY <3>1
    <3>2. CASE Inserts(p)
      <4>1. PICK n : dirtyEvents' = [dirtyEvents EXCEPT ![p][target[p]] = @ \cup {n}]
        BY <3>2 DEF Inserts, InsertEvent
      <4> QED
        BY <4>1 DEF SysInv, StoreInv, StoreTypeOK
    <3>3. CASE Ends(p)
      BY <3>3, EndsEffect
    <3> QED
      BY <1>2, <3>1, <3>2, <3>3 DEF EventsOf
  <2>2. ASSUME NEW w \in Workers, pc'[w] \in {"write", "complete"}
        PROVE  Has(dirtyEvents'[w][target'[w]], "apply-start")
    <3>1. CASE w = p
      BY <1>2, <2>2, <3>1, WritingStage DEF ApplyRecorded, Has
    <3>2. CASE w # p
      <4>1. pc'[w] = pc[w] /\ target'[w] = target[w] /\ target[w] \in Runs /\ w \in Procs \ {p}
        BY <1>2, <2>2, <3>2, RoleOfProc DEF OnlyMoves, SysInv, LockDiscipline, RowsHeld, Idle
      <4> QED
        BY <2>1, <2>2, <4>1 DEF ApplyRecorded
    <3> QED
      BY <3>1, <3>2
  <2>3. /\ \A r \in Runs, k \in Late : Has(events'[r], k) => Has(events'[r], "apply-start")
        /\ \A r \in Runs, k \in Late :
             Has(dirtyEvents'[p][r], k) => Has(dirtyEvents'[p][r], "apply-start")
    <3>1. CASE UNCHANGED <<events, dirtyEvents>>
      BY <3>1 DEF ApplyRecorded
    <3>2. CASE Inserts(p)
      <4>1. PICK n :
              /\ n.key \in Late => p \in Workers /\ pc[p] \in {"write", "complete"}
              /\ \A r \in Runs :
                   /\ dirtyEvents[p][r] \subseteq dirtyEvents'[p][r]
                   /\ \A e \in dirtyEvents'[p][r] : e \in dirtyEvents[p][r] \/ (r = target[p] /\ e = n)
        BY <3>2, InsertsEffect
      <4>2. UNCHANGED events
        BY <3>2, InsertsEffect
      <4>3. ASSUME NEW r \in Runs, NEW k \in Late, Has(dirtyEvents'[p][r], k)
            PROVE  Has(dirtyEvents[p][r], "apply-start")
        <5>1. CASE Has(dirtyEvents[p][r], k)
          BY <5>1 DEF ApplyRecorded
        <5>2. CASE r = target[p] /\ n.key = k
          BY <4>1, <5>2 DEF ApplyRecorded
        <5> QED
          BY <4>1, <4>3, <5>1, <5>2 DEF Has
      <4> QED
        BY <4>1, <4>2, <4>3 DEF ApplyRecorded, Has
    <3>3. CASE Ends(p)
      BY <3>3, EndsEffect DEF ApplyRecorded, Has
    <3> QED
      BY <1>2, <3>1, <3>2, <3>3 DEF EventsOf
  <2>4. \A q \in Procs, r \in Runs, k \in Late :
          Has(dirtyEvents'[q][r], k) => Has(dirtyEvents'[q][r], "apply-start")
    BY <2>1, <2>3 DEF ApplyRecorded
  <2> QED
    BY <2>2, <2>3, <2>4 DEF ApplyRecorded, Has
<1> QED
  BY <1>1, <1>2, StepEvents

\* What is being applied, or has been, is always recorded.
LEMMA AppliesRecorded == Spec => []ApplyRecorded
BY SysInvariant, ApplyInit, ApplyStep, PTL DEF Spec

\* The start is in the open transaction and its key is used once, so it is not
\* committed, and neither is an end; and one process holds the run's row.
LEMMA RecordedGivesOneApply ==
  ASSUME SysInv, ApplyRecorded
  PROVE  NeverDoubleApplied
<1> SUFFICES ASSUME NEW w \in Workers, pc[w] = "write"
             PROVE  /\ ~Has(events[target[w]], "files-applied")
                    /\ \A v \in Workers \ {w} : target[v] = target[w] => pc[v] # "write"
  BY DEF NeverDoubleApplied
<1>1. target[w] \in Runs /\ w \in Procs
  BY RoleOfProc DEF SysInv, LockDiscipline, RowsHeld, Idle
<1>2. ~Has(events[target[w]], "files-applied")
  <2> SUFFICES ASSUME Has(events[target[w]], "files-applied") PROVE FALSE
    OBVIOUS
  <2>1. PICK e \in events[target[w]] : e.key = "apply-start"
    BY <1>1 DEF ApplyRecorded, Has, Late
  <2>2. PICK d \in dirtyEvents[w][target[w]] : d.key = "apply-start"
    BY DEF ApplyRecorded, Has
  <2>3. e \in SeenLog(w, target[w]) /\ d \in SeenLog(w, target[w]) /\ Sequenced(SeenLog(w, target[w]))
    BY <1>1, <2>1, <2>2 DEF SeenLog, SysInv, StoreInv, LogsSound, Sound
  <2>4. d = e
    BY <2>1, <2>2, <2>3 DEF Sequenced
  <2>5. e.seq < d.seq /\ e.seq \in Nat
    BY <1>1, <2>1, <2>2 DEF SysInv, StoreInv, StoreTypeOK, NewAfterOld, Event
  <2> QED
    BY <2>4, <2>5
<1>3. ASSUME NEW v \in Workers \ {w}, target[v] = target[w], pc[v] = "write" PROVE FALSE
  BY <1>1, <1>3, RoleOfProc DEF SysInv, LockDiscipline, RowsHeld, StoreInv, OneOwner, Creating
<1> QED
  BY <1>2, <1>3

\* jobs.py:49-51: however often a run's job is delivered, no two workers write
\* its files at once, and none writes them after they have been applied.
THEOREM NoDoubleApply == Spec => []NeverDoubleApplied
BY SysInvariant, AppliesRecorded, RecordedGivesOneApply, PTL
=============================================================================
