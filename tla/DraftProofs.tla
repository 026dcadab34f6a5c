---------------------------- MODULE DraftProofs ----------------------------
(***************************************************************************)
(* What a session has written at each of its stages, and so what its       *)
(* commit can do to a run.  A run goes through its statuses one commit at  *)
(* a time: eight drafts are ever committed, each on a run that some        *)
(* earlier commit has made ready for it.                                   *)
(***************************************************************************)
EXTENDS RaceProofs

-----------------------------------------------------------------------------
(* The statuses a log goes through. *)

\* The ones that outlive the session that writes them.
Turns == Statuses \ {"pending", "running"}

Turned(L) == {e.status : e \in L} \cap Turns

\* Logs add up, and so do their turns.
LEMMA TurnedUnion == \A L, M : Turned(L \cup M) = Turned(L) \cup Turned(M)
BY DEF Turned

\* One more event adds its status.
LEMMA TurnedAdd ==
  \A L, n : Turned(L \cup {n}) = IF n.status \in Turns THEN Turned(L) \cup {n.status} ELSE Turned(L)
BY DEF Turned

\* An empty log has gone through nothing.
LEMMA TurnedNone == Turned({}) = {}
BY DEF Turned

-----------------------------------------------------------------------------
(* Drafts. *)

\* Status, approval and turns p has written of run r.
Wrote(p, r, s, a, T) ==
  /\ dirtyRuns[p][r] = s /\ dirtyApprovals[p][r] = a
  /\ Turned(dirtyEvents[p][r]) = T

Untouched(p, r) == Wrote(p, r, Absent, Absent, {})

RunnerDraft(p) ==
  /\ pc[p] \in Creating =>
       dirtyApprovals[p][target[p]] = Absent /\ Turned(dirtyEvents[p][target[p]]) = {}
  /\ pc[p] = "enqueue" => Wrote(p, target[p], "queued", Absent, {"queued"})
  /\ pc[p] = "commit" =>
       \/ Wrote(p, target[p], "failed", Absent, {"failed"})
       \/ Wrote(p, target[p], "awaiting_approval", "pending", {"awaiting_approval"})
       \/ Wrote(p, target[p], "queued", Absent, {"queued"})

DeciderDraft(p) ==
  /\ pc[p] = "mark_queued" => Wrote(p, target[p], "approved", "approved", {"approved"})
  /\ pc[p] = "enqueue" => Wrote(p, target[p], "queued", "approved", {"approved", "queued"})
  /\ pc[p] = "commit" =>
       \/ Wrote(p, target[p], "queued", "approved", {"approved", "queued"})
       \/ Wrote(p, target[p], "rejected", "rejected", {"rejected"})

\* A sweep has expired some runs, and is perhaps in the middle of one.
SweeperDraft(p) ==
  /\ pc[p] = "mark_stale" => OwnsApproval(p, target[p])
  /\ \A r \in Runs :
       \/ Untouched(p, r)
       \/ Wrote(p, r, "stale", "expired", {"stale"})
       \/ pc[p] = "mark_stale" /\ r = target[p] /\ Wrote(p, r, Absent, "expired", {})

WorkerDraft(w) ==
  /\ pc[w] \in {"write", "complete"} => Wrote(w, target[w], "applying", Absent, {"applying"})
  /\ pc[w] = "commit" =>
       \/ Wrote(w, target[w], "completed", Absent, {"applying", "completed"})
       \/ Wrote(w, target[w], "failed", Absent, {"failed"})

DraftOK(p) ==
  /\ pc[p] \in {"idle", "decide", "load", "apply", "ack"} => \A r \in Runs : Untouched(p, r)
  /\ p \notin Sweepers => \A r \in Runs \ {target[p]} : Untouched(p, r)
  /\ p \in Runners => RunnerDraft(p)
  /\ p \in Approvers \cup Rejecters => DeciderDraft(p)
  /\ p \in Sweepers => SweeperDraft(p)
  /\ p \in Workers => WorkerDraft(p)

Drafts == \A p \in Procs : DraftOK(p)

\* A process has no second role.
LEMMA OneRole ==
  ASSUME NEW p \in Procs
  PROVE  /\ p \in Runners => p \notin Approvers \cup Rejecters \cup Sweepers \cup Workers
         /\ p \in Approvers \cup Rejecters => p \notin Runners \cup Sweepers \cup Workers
         /\ p \in Sweepers => p \notin Runners \cup Approvers \cup Rejecters \cup Workers
         /\ p \in Workers => p \notin Runners \cup Approvers \cup Rejecters \cup Sweepers
BY RolesAssumption, GateAssumption

-----------------------------------------------------------------------------
(* What the writes of p do to its draft. *)

\* The draft of p on its run gets status s, approval a and the turns T, and
\* its other rows stay.
Drafted(p, s, a, T) ==
  LET r == target[p]
  IN  /\ dirtyRuns'[p][r] = s /\ dirtyApprovals'[p][r] = a
      /\ Turned(dirtyEvents'[p][r]) = Turned(dirtyEvents[p][r]) \cup T
      /\ \A u \in Runs \ {r} :
           /\ dirtyRuns'[p][u] = dirtyRuns[p][u] /\ dirtyApprovals'[p][u] = dirtyApprovals[p][u]
           /\ dirtyEvents'[p][u] = dirtyEvents[p][u]

\* The rows of the others stay too.
Apart(p) ==
  \A q \in Procs \ {p} :
    /\ pc'[q] = pc[q] /\ target'[q] = target[q]
    /\ dirtyRuns'[q] = dirtyRuns[q] /\ dirtyApprovals'[q] = dirtyApprovals[q]
    /\ dirtyEvents'[q] = dirtyEvents[q]

\* One cell of a table of rows.
LEMMA CellWritten ==
  ASSUME NEW S, NEW D \in [Procs -> [Runs -> S]], NEW p \in Procs, NEW r \in Runs, NEW v, NEW E,
         E = [D EXCEPT ![p][r] = v]
  PROVE  /\ E[p][r] = v
         /\ \A u \in Runs \ {r} : E[p][u] = D[p][u]
         /\ \A q \in Procs \ {p} : E[q] = D[q]
OBVIOUS

\* An insertion, with the status it carries.
LEMMA InsertionDrafted ==
  ASSUME StoreTypeOK, NEW p \in Procs, NEW r \in Runs, NEW t, NEW s, NEW k, InsertEvent(p, r, t, s, k)
  PROVE  /\ Turned(dirtyEvents'[p][r]) =
              IF s \in Turns THEN Turned(dirtyEvents[p][r]) \cup {s} ELSE Turned(dirtyEvents[p][r])
         /\ \A u \in Runs \ {r} : dirtyEvents'[p][u] = dirtyEvents[p][u]
         /\ \A q \in Procs \ {p} : dirtyEvents'[q] = dirtyEvents[q]
<1> DEFINE n == NewEvent(p, r, t, s, k)
<1>1. n.status = s
  BY DEF NewEvent
<1>2. dirtyEvents' = [dirtyEvents EXCEPT ![p][r] = dirtyEvents[p][r] \cup {n}]
  BY DEF InsertEvent
<1> HIDE DEF n
<1>3. dirtyEvents'[p][r] = dirtyEvents[p][r] \cup {n}
  BY <1>2, CellWritten DEF StoreTypeOK
<1>4. /\ \A u \in Runs \ {r} : dirtyEvents'[p][u] = dirtyEvents[p][u]
      /\ \A q \in Procs \ {p} : dirtyEvents'[q] = dirtyEvents[q]
  BY <1>2, CellWritten DEF StoreTypeOK
<1> QED
  BY <1>1, <1>3, <1>4, TurnedAdd

\* A transition, with the approval it sets or leaves.
LEMMA TransitionDrafted ==
  ASSUME StoreTypeOK, NEW p \in Procs, target[p] \in Runs, NEW s \in Turns, NEW k, NEW a,
         WriteStatusEvent(p, target[p], s, k),
         \/ UNCHANGED dirtyApprovals /\ a = dirtyApprovals[p][target[p]]
         \/ SetApproval(p, target[p], a)
  PROVE  /\ UNCHANGED <<runs, approvals, events>>
         /\ Drafted(p, s, a, {s})
         /\ \A q \in Procs \ {p} : /\ dirtyRuns'[q] = dirtyRuns[q]
                                   /\ dirtyApprovals'[q] = dirtyApprovals[q]
                                   /\ dirtyEvents'[q] = dirtyEvents[q]
<1> DEFINE r == target[p]
<1>1. /\ InsertEvent(p, r, "status_changed", s, k)
      /\ dirtyRuns' = [dirtyRuns EXCEPT ![p][r] = s]
      /\ UNCHANGED <<runs, approvals, events>>
  BY DEF WriteStatusEvent, committed
<1>2. /\ dirtyRuns'[p][r] = s
      /\ \A u \in Runs \ {r} : dirtyRuns'[p][u] = dirtyRuns[p][u]
      /\ \A q \in Procs \ {p} : dirtyRuns'[q] = dirtyRuns[q]
  BY <1>1, CellWritten DEF StoreTypeOK
<1>3. /\ dirtyApprovals'[p][r] = a
      /\ \A u \in Runs \ {r} : dirtyApprovals'[p][u] = dirtyApprovals[p][u]
      /\ \A q \in Procs \ {p} : dirtyApprovals'[q] = dirtyApprovals[q]
  <2>1. CASE UNCHANGED dirtyApprovals /\ a = dirtyApprovals[p][r]
    BY <2>1
  <2>2. CASE SetApproval(p, r, a)
    BY <2>2, CellWritten DEF StoreTypeOK, SetApproval
  <2> QED
    BY <2>1, <2>2
<1>4. /\ Turned(dirtyEvents'[p][r]) = Turned(dirtyEvents[p][r]) \cup {s}
      /\ \A u \in Runs \ {r} : dirtyEvents'[p][u] = dirtyEvents[p][u]
      /\ \A q \in Procs \ {p} : dirtyEvents'[q] = dirtyEvents[q]
  BY <1>1, InsertionDrafted
<1> QED
  BY <1>1, <1>2, <1>3, <1>4 DEF Drafted

\* An event that carries no status.
LEMMA RecordDrafted ==
  ASSUME StoreTypeOK, NEW p \in Procs, target[p] \in Runs, NEW t, NEW k,
         RecordEvent(p, target[p], t, k)
  PROVE  /\ UNCHANGED <<runs, approvals, events, dirtyRuns, dirtyApprovals>>
         /\ Drafted(p, dirtyRuns[p][target[p]], dirtyApprovals[p][target[p]], {})
         /\ \A q \in Procs \ {p} : dirtyEvents'[q] = dirtyEvents[q]
<1>1. NoStatus \notin Turns
  BY DEF NoStatus, Turns, Statuses
<1>2. /\ InsertEvent(p, target[p], t, NoStatus, k)
      /\ UNCHANGED <<runs, approvals, events, dirtyRuns, dirtyApprovals>>
  BY DEF RecordEvent
<1>3. \A S : S \cup {} = S
  OBVIOUS
<1> QED
  BY <1>1, <1>2, <1>3, InsertionDrafted DEF Drafted

\* The end of a session leaves no draft.
LEMMA DiscardDrafted ==
  ASSUME StoreTypeOK, NEW p \in Procs, Discard(p)
  PROVE  /\ \A r \in Runs : Untouched(p, r)'
         /\ \A q \in Procs \ {p} : /\ dirtyRuns'[q] = dirtyRuns[q]
                                   /\ dirtyApprovals'[q] = dirtyApprovals[q]
                                   /\ dirtyEvents'[q] = dirtyEvents[q]
<1>1. /\ dirtyRuns' = [dirtyRuns EXCEPT ![p] = NoWrites]
      /\ dirtyApprovals' = [dirtyApprovals EXCEPT ![p] = NoWrites]
      /\ dirtyEvents' = [dirtyEvents EXCEPT ![p] = NoEvents]
  BY DEF Discard
<1>2. \A r \in Runs : /\ dirtyRuns'[p][r] = Absent /\ dirtyApprovals'[p][r] = Absent
                      /\ dirtyEvents'[p][r] = {}
  BY <1>1 DEF StoreTypeOK, NoWrites, NoEvents
<1>3. \A r \in Runs : Untouched(p, r)'
  BY <1>2, TurnedNone DEF Untouched, Wrote
<1> QED
  BY <1>1, <1>3 DEF StoreTypeOK

-----------------------------------------------------------------------------
(* Every step keeps the drafts. *)

\* A process whose rows and stage stay keeps its draft.
LEMMA DraftFrame ==
  ASSUME NEW q \in Procs, DraftOK(q), pc'[q] = pc[q], target'[q] = target[q],
         dirtyRuns'[q] = dirtyRuns[q], dirtyApprovals'[q] = dirtyApprovals[q],
         dirtyEvents'[q] = dirtyEvents[q]
  PROVE  DraftOK(q)'
<1>1. \A r \in Runs : Untouched(q, r)' <=> Untouched(q, r)
  BY DEF Untouched, Wrote
<1>2. RunnerDraft(q)' <=> RunnerDraft(q)
  BY DEF RunnerDraft, Wrote, Creating
<1>3. DeciderDraft(q)' <=> DeciderDraft(q)
  BY DEF DeciderDraft, Wrote
<1>4. SweeperDraft(q)' <=> SweeperDraft(q)
  BY DEF SweeperDraft, OwnsApproval, Untouched, Wrote
<1>5. WorkerDraft(q)' <=> WorkerDraft(q)
  BY DEF WorkerDraft, Wrote
<1> QED
  BY <1>1, <1>2, <1>3, <1>4, <1>5 DEF DraftOK

\* A step of p leaves the drafts of the others.
LEMMA OthersDrafts ==
  ASSUME Drafts, NEW p \in Procs, Apart(p), DraftOK(p)'
  PROVE  Drafts'
BY DraftFrame DEF Drafts, Apart

\* The types a step starts from.
LEMMA SessionTypes ==
  ASSUME SysInv
  PROVE  /\ StoreTypeOK /\ pc \in [Procs -> UNION {Stages(q) : q \in Procs}]
         /\ target \in [Procs -> Runs \cup {NoRun}]
         /\ expiring \in [Sweepers -> Seq(Runs)]
         /\ \A p \in Procs : ~Idle(p) => target[p] \in Runs
BY DEF SysInv, StoreInv, TypeOK, LockDiscipline, RowsHeld

\* A session that goes from stage to stage on the same run.
LEMMA GotoMoves ==
  ASSUME SysInv, NEW p \in Procs, NEW from, NEW to, Goto(p, from, to)
  PROVE  /\ pc[p] = from /\ pc'[p] = to /\ target' = target
         /\ \A q \in Procs \ {p} : pc'[q] = pc[q] /\ target'[q] = target[q]
BY SessionTypes DEF Goto

\* A session that ends.
LEMMA CloseMoves ==
  ASSUME SysInv, NEW p \in Procs, Close(p)
  PROVE  /\ pc'[p] = "idle"
         /\ \A q \in Procs \ {p} : pc'[q] = pc[q] /\ target'[q] = target[q]
BY SessionTypes DEF Close

\* A session that ends in the database and outside has no draft.
LEMMA EndDrafts ==
  ASSUME SysInv, NEW p \in Procs, Discard(p), Close(p)
  PROVE  DraftOK(p)' /\ Apart(p)
<1>1. pc'[p] = "idle" /\ \A q \in Procs \ {p} : pc'[q] = pc[q] /\ target'[q] = target[q]
  BY CloseMoves
<1>2. \A r \in Runs : Untouched(p, r)'
  BY DiscardDrafted, SessionTypes
<1>3. Apart(p)
  BY <1>1, DiscardDrafted, SessionTypes DEF Apart
<1>4. DraftOK(p)'
  BY <1>1, <1>2 DEF DraftOK, RunnerDraft, DeciderDraft, SweeperDraft, WorkerDraft, Creating
<1> QED
  BY <1>3, <1>4

\* A session that is not over goes on with its run, which it alone drafts.
LEMMA DraftMoves ==
  ASSUME NEW p \in Procs \ Sweepers, DraftOK(p), target[p] \in Runs, NEW s, NEW a, NEW T, NEW W,
         Turned(dirtyEvents[p][target[p]]) = W, Drafted(p, s, a, T), target' = target
  PROVE  /\ \A r \in Runs \ {target[p]} : Untouched(p, r)'
         /\ Wrote(p, target[p], s, a, W \cup T)'
BY DEF DraftOK, Drafted, Untouched, Wrote

\* The drafts of `idemra run'.
LEMMA RunnerDrafts ==
  ASSUME SysInv, Drafts, NEW p \in Runners, RunnerNext(p)
  PROVE  DraftOK(p)' /\ Apart(p)
<1> USE RoleOfProc
<1>0. /\ DraftOK(p) /\ RunnerDraft(p)
      /\ p \notin Approvers \cup Rejecters \cup Sweepers \cup Workers
  BY OneRole DEF Drafts, DraftOK
<1>1. CASE CreateRun(p)
  <2>1. PICK r \in Runs, stage \in {"fetch", "route"} : Begin(p, r, stage) /\ InsertRun(p, r)
    BY <1>1 DEF CreateRun
  <2>2. /\ pc[p] = "idle" /\ pc'[p] = stage /\ target'[p] = r
        /\ \A q \in Procs \ {p} : pc'[q] = pc[q] /\ target'[q] = target[q]
    BY <2>1, SessionTypes DEF Begin, Idle
  <2>3. /\ UNCHANGED <<dirtyApprovals, dirtyEvents>>
        /\ \A u \in Runs \ {r} : dirtyRuns'[p][u] = dirtyRuns[p][u]
        /\ \A q \in Procs \ {p} : dirtyRuns'[q] = dirtyRuns[q]
    BY <2>1, SessionTypes, CellWritten DEF InsertRun, StoreTypeOK
  <2>4. \A u \in Runs : Untouched(p, u)
    BY <1>0, <2>2 DEF DraftOK
  <2>5. DraftOK(p)'
    BY <1>0, <2>2, <2>3, <2>4 DEF DraftOK, RunnerDraft, Untouched, Wrote, Creating
  <2> QED
    BY <2>2, <2>3, <2>5 DEF Apart
<1>2. CASE FetchTask(p) \/ LoadPermissions(p) \/ BuildWorldModel(p) \/ ValidateProposal(p)
  <2>1. PICK from \in Creating, to \in Creating : Goto(p, from, to) /\ UNCHANGED storeVars
    BY <1>2 DEF FetchTask, LoadPermissions, BuildWorldModel, ValidateProposal, Proceed, Creating
  <2> QED
    BY <1>0, <2>1, GotoMoves
       DEF storeVars, DraftOK, RunnerDraft, Untouched, Wrote, Creating, Apart
<1>3. CASE RouteTask(p) \/ ProposeChanges(p)
  <2>1. PICK from \in Creating, to \in Creating :
          Goto(p, from, to) /\ \E t, k : RecordEvent(p, target[p], t, k)
    BY <1>3 DEF RouteTask, ProposeChanges, Creating
  <2>2. pc[p] = from /\ pc'[p] = to /\ target' = target /\ target[p] \in Runs
        /\ \A q \in Procs \ {p} : pc'[q] = pc[q] /\ target'[q] = target[q]
    BY <2>1, GotoMoves, SessionTypes DEF Idle, Creating
  <2>3. /\ UNCHANGED <<dirtyRuns, dirtyApprovals>>
        /\ Drafted(p, dirtyRuns[p][target[p]], dirtyApprovals[p][target[p]], {})
        /\ \A q \in Procs \ {p} : dirtyEvents'[q] = dirtyEvents[q]
    BY <2>1, <2>2, RecordDrafted, SessionTypes
  <2>4. Turned(dirtyEvents[p][target[p]]) = {} /\ dirtyApprovals[p][target[p]] = Absent
    BY <1>0, <2>2 DEF RunnerDraft
  <2>5. \A r \in Runs \ {target[p]} : Untouched(p, r)'
    BY <1>0, <2>2, <2>3, DraftMoves
  <2>6. Turned(dirtyEvents'[p][target[p]]) = {} /\ dirtyApprovals'[p][target[p]] = Absent
    BY <2>3, <2>4 DEF Drafted
  <2>7. DraftOK(p)'
    BY <1>0, <2>2, <2>5, <2>6 DEF DraftOK, RunnerDraft, Creating
  <2> QED
    BY <2>2, <2>3, <2>7 DEF Apart
<1>4. CASE StartRun(p)
  <2>1. Goto(p, "start", "permissions") /\ WriteStatusEvent(p, target[p], "running", "start")
        /\ UNCHANGED dirtyApprovals
    BY <1>4 DEF StartRun
  <2>2. pc[p] = "start" /\ pc'[p] = "permissions" /\ target' = target /\ target[p] \in Runs
        /\ \A q \in Procs \ {p} : pc'[q] = pc[q] /\ target'[q] = target[q]
    BY <2>1, GotoMoves, SessionTypes DEF Idle
  <2>3. InsertEvent(p, target[p], "status_changed", "running", "start")
        /\ dirtyRuns' = [dirtyRuns EXCEPT ![p][target[p]] = "running"]
    BY <2>1 DEF WriteStatusEvent
  <2>4. "running" \notin Turns
    BY DEF Turns
  <2>5. /\ Turned(dirtyEvents'[p][target[p]]) = Turned(dirtyEvents[p][target[p]])
        /\ \A u \in Runs \ {target[p]} : dirtyEvents'[p][u] = dirtyEvents[p][u]
        /\ \A q \in Procs \ {p} : dirtyEvents'[q] = dirtyEvents[q]
    BY <2>2, <2>3, <2>4, InsertionDrafted, SessionTypes
  <2>6. /\ \A u \in Runs \ {target[p]} : dirtyRuns'[p][u] = dirtyRuns[p][u]
        /\ \A q \in Procs \ {p} : dirtyRuns'[q] = dirtyRuns[q]
    BY <2>2, <2>3, CellWritten, SessionTypes DEF StoreTypeOK
  <2>7. DraftOK(p)'
    BY <1>0, <2>1, <2>2, <2>5, <2>6 DEF DraftOK, RunnerDraft, Untouched, Wrote, Creating
  <2> QED
    BY <2>1, <2>2, <2>5, <2>6, <2>7 DEF Apart
<1>5. CASE FailRun(p) \/ RequestApproval(p) \/ QueueRun(p)
  <2>1. PICK from \in Creating, to \in {"commit", "enqueue"},
             s \in {"failed", "awaiting_approval", "queued"}, a \in {Absent, "pending"} :
          /\ Goto(p, from, to) /\ \E k : WriteStatusEvent(p, target[p], s, k)
          /\ \/ s \in {"failed", "queued"} /\ a = Absent /\ UNCHANGED dirtyApprovals
             \/ s = "awaiting_approval" /\ a = "pending" /\ SetApproval(p, target[p], a)
          /\ to = IF s = "queued" THEN "enqueue" ELSE "commit"
    BY <1>5 DEF FailRun, RequestApproval, QueueRun, Creating
  <2>2. pc[p] = from /\ pc'[p] = to /\ target' = target /\ target[p] \in Runs
        /\ \A q \in Procs \ {p} : pc'[q] = pc[q] /\ target'[q] = target[q]
    BY <2>1, GotoMoves, SessionTypes DEF Idle, Creating
  <2>3. Turned(dirtyEvents[p][target[p]]) = {} /\ dirtyApprovals[p][target[p]] = Absent
    BY <1>0, <2>2 DEF RunnerDraft
  <2>4. s \in Turns
    BY DEF Turns, Statuses
  <2>5. /\ Drafted(p, s, a, {s})
        /\ \A q \in Procs \ {p} : /\ dirtyRuns'[q] = dirtyRuns[q]
                                  /\ dirtyApprovals'[q] = dirtyApprovals[q]
                                  /\ dirtyEvents'[q] = dirtyEvents[q]
    BY <2>1, <2>2, <2>3, <2>4, TransitionDrafted, SessionTypes
  <2>6. Wrote(p, target[p], s, a, {} \cup {s})' /\ \A r \in Runs \ {target[p]} : Untouched(p, r)'
    BY <1>0, <2>2, <2>3, <2>5, DraftMoves
  <2>7. Wrote(p, target[p], s, a, {s})'
    BY <2>6
  <2>8. DraftOK(p)'
    BY <1>0, <2>1, <2>2, <2>6, <2>7 DEF DraftOK, RunnerDraft, Creating
  <2> QED
    BY <2>2, <2>5, <2>8 DEF Apart
<1>6. CASE EnqueueApply(p)
  <2>1. /\ pc[p] = "enqueue" /\ pc'[p] = "commit" /\ UNCHANGED <<target, storeVars>>
        /\ \A q \in Procs \ {p} : pc'[q] = pc[q]
    BY <1>6, SessionTypes DEF EnqueueApply
  <2> QED
    BY <1>0, <2>1 DEF storeVars, DraftOK, RunnerDraft, Untouched, Wrote, Creating, Apart
<1>7. CASE CommitSession(p) \/ UncaughtError(p) \/ RunFault(p)
  BY <1>7, EndDrafts DEF CommitSession, Commit, UncaughtError, RunFault, Fault, AbortSession, Rollback
<1> QED
  BY <1>1, <1>2, <1>3, <1>4, <1>5, <1>6, <1>7 DEF RunnerNext, RunStep

\* The drafts of `idemra approve' and `idemra reject'.
LEMMA DeciderDrafts ==
  ASSUME SysInv, Drafts, NEW p \in Approvers \cup Rejecters, DeciderNext(p)
  PROVE  DraftOK(p)' /\ Apart(p)
<1> USE RoleOfProc
<1>0. /\ DraftOK(p) /\ DeciderDraft(p)
      /\ p \notin Runners \cup Sweepers \cup Workers
  BY OneRole DEF Drafts, DraftOK
<1>1. CASE ReadApproval(p)
  <2>1. PICK r \in Runs : Begin(p, r, "decide") /\ UNCHANGED storeVars
    BY <1>1 DEF ReadApproval
  <2>2. /\ pc[p] = "idle" /\ pc'[p] = "decide" /\ target'[p] = r
        /\ \A q \in Procs \ {p} : pc'[q] = pc[q] /\ target'[q] = target[q]
    BY <2>1, SessionTypes DEF Begin, Idle
  <2>3. \A u \in Runs : Untouched(p, u)
    BY <1>0, <2>2 DEF DraftOK
  <2>4. \A u \in Runs : Untouched(p, u)'
    BY <2>1, <2>3 DEF storeVars, Untouched, Wrote
  <2> QED
    BY <1>0, <2>1, <2>2, <2>4 DEF storeVars, DraftOK, DeciderDraft, Apart
<1>2. CASE RecordDecision(p)
  <2> DEFINE s == Decision(p)
             to == IF p \in Approvers THEN "mark_queued" ELSE "commit"
  <2>1. Goto(p, "decide", to) /\ SetApproval(p, target[p], s)
        /\ WriteStatusEvent(p, target[p], s, DecisionKey(s))
    BY <1>2 DEF RecordDecision
  <2>2. pc[p] = "decide" /\ pc'[p] = to /\ target' = target /\ target[p] \in Runs
        /\ \A q \in Procs \ {p} : pc'[q] = pc[q] /\ target'[q] = target[q]
    BY <2>1, GotoMoves, SessionTypes DEF Idle
  <2>3. Turned(dirtyEvents[p][target[p]]) = {}
    BY <1>0, <2>2 DEF DraftOK, Untouched, Wrote
  <2>4. s \in Turns /\ s = IF p \in Approvers THEN "approved" ELSE "rejected"
    BY DEF Turns, Statuses, Decision
  <2>5. /\ Drafted(p, s, s, {s})
        /\ \A q \in Procs \ {p} : /\ dirtyRuns'[q] = dirtyRuns[q]
                                  /\ dirtyApprovals'[q] = dirtyApprovals[q]
                                  /\ dirtyEvents'[q] = dirtyEvents[q]
    BY <2>1, <2>2, <2>4, TransitionDrafted, SessionTypes
  <2>6. Wrote(p, target[p], s, s, {} \cup {s})' /\ \A r \in Runs \ {target[p]} : Untouched(p, r)'
    BY <1>0, <2>2, <2>3, <2>5, DraftMoves
  <2>7. Wrote(p, target[p], s, s, {s})'
    BY <2>6
  <2>8. DraftOK(p)'
    BY <1>0, <2>2, <2>4, <2>6, <2>7 DEF DraftOK, DeciderDraft
  <2> QED
    BY <2>2, <2>5, <2>8 DEF Apart
<1>3. CASE QueueApproved(p)
  <2>1. Goto(p, "mark_queued", "enqueue") /\ UNCHANGED dirtyApprovals
        /\ WriteStatusEvent(p, target[p], "queued", "queued-for-apply")
    BY <1>3 DEF QueueApproved
  <2>2. pc[p] = "mark_queued" /\ pc'[p] = "enqueue" /\ target' = target /\ target[p] \in Runs
        /\ \A q \in Procs \ {p} : pc'[q] = pc[q] /\ target'[q] = target[q]
    BY <2>1, GotoMoves, SessionTypes DEF Idle
  <2>3. Turned(dirtyEvents[p][target[p]]) = {"approved"} /\ dirtyApprovals[p][target[p]] = "approved"
    BY <1>0, <2>2 DEF DeciderDraft, Wrote
  <2>4. "queued" \in Turns
    BY DEF Turns, Statuses
  <2>5. /\ Drafted(p, "queued", "approved", {"queued"})
        /\ \A q \in Procs \ {p} : /\ dirtyRuns'[q] = dirtyRuns[q]
                                  /\ dirtyApprovals'[q] = dirtyApprovals[q]
                                  /\ dirtyEvents'[q] = dirtyEvents[q]
    BY <2>1, <2>2, <2>3, <2>4, TransitionDrafted, SessionTypes
  <2>6. /\ Wrote(p, target[p], "queued", "approved", {"approved"} \cup {"queued"})'
        /\ \A r \in Runs \ {target[p]} : Untouched(p, r)'
    BY <1>0, <2>2, <2>3, <2>5, DraftMoves
  <2>7. Wrote(p, target[p], "queued", "approved", {"approved", "queued"})'
    BY <2>6
  <2>8. DraftOK(p)'
    BY <1>0, <2>2, <2>6, <2>7 DEF DraftOK, DeciderDraft
  <2> QED
    BY <2>2, <2>5, <2>8 DEF Apart
<1>4. CASE EnqueueApply(p)
  <2>1. /\ pc[p] = "enqueue" /\ pc'[p] = "commit" /\ UNCHANGED <<target, storeVars>>
        /\ \A q \in Procs \ {p} : pc'[q] = pc[q]
    BY <1>4, SessionTypes DEF EnqueueApply
  <2> QED
    BY <1>0, <2>1 DEF storeVars, DraftOK, DeciderDraft, Untouched, Wrote, Apart
<1>5. CASE CommitSession(p) \/ ConflictingDecision(p) \/ GateFault(p)
  BY <1>5, EndDrafts
     DEF CommitSession, Commit, ConflictingDecision, GateFault, Fault, AbortSession, Rollback
<1> QED
  BY <1>1, <1>2, <1>3, <1>4, <1>5 DEF DeciderNext, DecideStep

\* The drafts of `idemra sweep'.
LEMMA SweeperDrafts ==
  ASSUME SysInv, Drafts, NEW p \in Sweepers, SweeperNext(p)
  PROVE  DraftOK(p)' /\ Apart(p)
<1> USE RoleOfProc
<1>0. /\ DraftOK(p) /\ SweeperDraft(p)
      /\ p \notin Runners \cup Approvers \cup Rejecters \cup Workers
  BY OneRole DEF Drafts, DraftOK
<1>1. CASE SelectOverdue(p)
  <2>1. PICK r : Begin(p, r, "expire") /\ UNCHANGED storeVars
    BY <1>1 DEF SelectOverdue
  <2>2. /\ pc[p] = "idle" /\ pc'[p] = "expire"
        /\ \A q \in Procs \ {p} : pc'[q] = pc[q] /\ target'[q] = target[q]
    BY <2>1, SessionTypes DEF Begin, Idle
  <2>3. \A u \in Runs : Untouched(p, u)
    BY <1>0, <2>2 DEF DraftOK
  <2>4. \A u \in Runs : Untouched(p, u)'
    BY <2>1, <2>3 DEF storeVars, Untouched, Wrote
  <2> QED
    BY <1>0, <2>1, <2>2, <2>4 DEF storeVars, DraftOK, SweeperDraft, Apart
<1>2. CASE ExpireApproval(p)
  <2>1. Goto(p, "expire", "mark_stale") /\ SetApproval(p, target[p], "expired")
        /\ UNCHANGED <<dirtyRuns, dirtyEvents>>
    BY <1>2 DEF ExpireApproval
  <2>2. pc[p] = "expire" /\ pc'[p] = "mark_stale" /\ target' = target /\ target[p] \in Runs
        /\ \A q \in Procs \ {p} : pc'[q] = pc[q] /\ target'[q] = target[q]
    BY <2>1, GotoMoves, SessionTypes DEF Idle
  <2>3. /\ dirtyApprovals'[p][target[p]] = "expired"
        /\ \A u \in Runs \ {target[p]} : dirtyApprovals'[p][u] = dirtyApprovals[p][u]
        /\ \A q \in Procs \ {p} : dirtyApprovals'[q] = dirtyApprovals[q]
    BY <2>1, <2>2, CellWritten, SessionTypes DEF StoreTypeOK, SetApproval
  <2>4. SweeperDraft(p)'
    BY <1>0, <2>1, <2>2, <2>3 DEF SweeperDraft, OwnsApproval, Untouched, Wrote, Absent
  <2>5. DraftOK(p)'
    BY <1>0, <2>2, <2>4 DEF DraftOK
  <2> QED
    BY <2>1, <2>2, <2>3, <2>5 DEF Apart
<1>3. CASE MarkStale(p)
  <2>1. /\ pc[p] = "mark_stale" /\ UNCHANGED dirtyApprovals
        /\ WriteStatusEvent(p, target[p], "stale", "approval:expired")
        /\ \E to \in {"commit", "expire"} : pc' = [pc EXCEPT ![p] = to]
        /\ target' = target \/ \E r : target' = [target EXCEPT ![p] = r]
    BY <1>3 DEF MarkStale
  <2>2. /\ pc'[p] \in {"commit", "expire"} /\ target[p] \in Runs
        /\ \A q \in Procs \ {p} : pc'[q] = pc[q] /\ target'[q] = target[q]
    BY <2>1, SessionTypes DEF Idle
  <2>3. dirtyApprovals[p][target[p]] = "expired" /\ Turned(dirtyEvents[p][target[p]]) \subseteq {"stale"}
    BY <1>0, <2>1, <2>2 DEF SweeperDraft, OwnsApproval, Untouched, Wrote
  <2>4. "stale" \in Turns
    BY DEF Turns, Statuses
  <2>5. /\ Drafted(p, "stale", "expired", {"stale"})
        /\ \A q \in Procs \ {p} : /\ dirtyRuns'[q] = dirtyRuns[q]
                                  /\ dirtyApprovals'[q] = dirtyApprovals[q]
                                  /\ dirtyEvents'[q] = dirtyEvents[q]
    BY <2>1, <2>2, <2>3, <2>4, TransitionDrafted, SessionTypes
  <2>6. Turned(dirtyEvents'[p][target[p]]) = {"stale"}
    BY <2>3, <2>5 DEF Drafted
  <2>7. \A r \in Runs : Untouched(p, r)' \/ Wrote(p, r, "stale", "expired", {"stale"})'
    BY <1>0, <2>5, <2>6 DEF Drafted, SweeperDraft, Untouched, Wrote
  <2>8. DraftOK(p)'
    BY <1>0, <2>2, <2>7 DEF DraftOK, SweeperDraft
  <2> QED
    BY <2>2, <2>5, <2>8 DEF Apart
<1>4. CASE CommitSession(p) \/ ConflictingSweep(p) \/ BreakDeadlock(p) \/ GateFault(p)
  BY <1>4, EndDrafts
     DEF CommitSession, Commit, ConflictingSweep, BreakDeadlock, GateFault, Fault, AbortSession, Rollback
<1> QED
  BY <1>1, <1>2, <1>3, <1>4 DEF SweeperNext, SweepStep

\* The drafts of a worker.
LEMMA WorkerDrafts ==
  ASSUME SysInv, Drafts, NEW w \in Workers, WorkerNext(w)
  PROVE  DraftOK(w)' /\ Apart(w)
<1> USE RoleOfProc
<1>0. /\ DraftOK(w) /\ WorkerDraft(w)
      /\ w \notin Runners \cup Approvers \cup Rejecters \cup Sweepers
  BY OneRole DEF Drafts, DraftOK
<1>1. CASE TakeJob(w)
  <2>1. PICK r : Begin(w, r, "load") /\ UNCHANGED storeVars
    BY <1>1 DEF TakeJob
  <2>2. /\ pc[w] = "idle" /\ pc'[w] = "load"
        /\ \A q \in Procs \ {w} : pc'[q] = pc[q] /\ target'[q] = target[q]
    BY <2>1, SessionTypes DEF Begin, Idle
  <2>3. \A u \in Runs : Untouched(w, u)
    BY <1>0, <2>2 DEF DraftOK
  <2>4. \A u \in Runs : Untouched(w, u)'
    BY <2>1, <2>3 DEF storeVars, Untouched, Wrote
  <2> QED
    BY <1>0, <2>1, <2>2, <2>4 DEF storeVars, DraftOK, WorkerDraft, Apart
<1>2. CASE LoadRun(w) \/ WriteFile(w)
  <2>1. PICK from \in {"load", "write"}, to \in {"apply", "write"} :
          Goto(w, from, to) /\ UNCHANGED storeVars /\ (from = "load" <=> to = "apply")
    BY <1>2 DEF LoadRun, WriteFile
  <2> QED
    BY <1>0, <2>1, GotoMoves DEF storeVars, DraftOK, WorkerDraft, Untouched, Wrote, Apart
<1>3. CASE RefuseApply(w) \/ StartApply(w) \/ CompleteRun(w)
  <2>1. PICK from \in {"apply", "complete"}, to \in {"commit", "write"},
             s \in {"failed", "applying", "completed"} :
          /\ Goto(w, from, to) /\ \E k : WriteStatusEvent(w, target[w], s, k)
          /\ UNCHANGED dirtyApprovals
          /\ from = "complete" <=> s = "completed"
          /\ to = "write" <=> s = "applying"
    BY <1>3 DEF RefuseApply, StartApply, CompleteRun
  <2>2. pc[w] = from /\ pc'[w] = to /\ target' = target /\ target[w] \in Runs
        /\ \A q \in Procs \ {w} : pc'[q] = pc[q] /\ target'[q] = target[q]
    BY <2>1, GotoMoves, SessionTypes DEF Idle
  <2>3. /\ Turned(dirtyEvents[w][target[w]]) = IF from = "complete" THEN {"applying"} ELSE {}
        /\ dirtyApprovals[w][target[w]] = Absent
    BY <1>0, <2>2 DEF DraftOK, WorkerDraft, Untouched, Wrote
  <2>4. s \in Turns
    BY DEF Turns, Statuses
  <2>5. /\ Drafted(w, s, Absent, {s})
        /\ \A q \in Procs \ {w} : /\ dirtyRuns'[q] = dirtyRuns[q]
                                  /\ dirtyApprovals'[q] = dirtyApprovals[q]
                                  /\ dirtyEvents'[q] = dirtyEvents[q]
    BY <2>1, <2>2, <2>3, <2>4, TransitionDrafted, SessionTypes
  <2>6. /\ dirtyRuns'[w][target[w]] = s /\ dirtyApprovals'[w][target[w]] = Absent
        /\ Turned(dirtyEvents'[w][target[w]]) =
             IF s = "completed" THEN {"applying", "completed"} ELSE {s}
    BY <2>1, <2>3, <2>5 DEF Drafted
  <2>7. \A r \in Runs \ {target[w]} : Untouched(w, r)'
    BY <1>0, <2>2, <2>5, DraftMoves
  <2>8. WorkerDraft(w)'
    BY <2>1, <2>2, <2>6 DEF WorkerDraft, Wrote
  <2>9. DraftOK(w)'
    BY <1>0, <2>2, <2>7, <2>8, <2>1 DEF DraftOK
  <2> QED
    BY <2>2, <2>5, <2>9 DEF Apart
<1>4. CASE RecordApplied(w)
  <2>1. Goto(w, "write", "complete")
        /\ RecordEvent(w, target[w], "files_applied", "files-applied")
    BY <1>4 DEF RecordApplied
  <2>2. pc[w] = "write" /\ pc'[w] = "complete" /\ target' = target /\ target[w] \in Runs
        /\ \A q \in Procs \ {w} : pc'[q] = pc[q] /\ target'[q] = target[q]
    BY <2>1, GotoMoves, SessionTypes DEF Idle
  <2>3. /\ UNCHANGED <<dirtyRuns, dirtyApprovals>>
        /\ Drafted(w, dirtyRuns[w][target[w]], dirtyApprovals[w][target[w]], {})
        /\ \A q \in Procs \ {w} : dirtyEvents'[q] = dirtyEvents[q]
    BY <2>1, <2>2, RecordDrafted, SessionTypes
  <2>4. Wrote(w, target[w], "applying", Absent, {"applying"})
    BY <1>0, <2>2 DEF WorkerDraft
  <2>5. \A r \in Runs \ {target[w]} : Untouched(w, r)'
    BY <1>0, <2>2, <2>3, DraftMoves
  <2>6. Wrote(w, target[w], "applying", Absent, {"applying"})'
    BY <2>2, <2>3, <2>4 DEF Drafted, Wrote
  <2>7. DraftOK(w)'
    BY <1>0, <2>2, <2>5, <2>6 DEF DraftOK, WorkerDraft
  <2> QED
    BY <2>2, <2>3, <2>7 DEF Apart
<1>5. CASE SkipJob(w) \/ ConflictingJob(w) \/ UncaughtJobError(w) \/ WorkerFault(w)
  BY <1>5, EndDrafts DEF SkipJob, ConflictingJob, UncaughtJobError, WorkerFault, Fault, AbortSession, Rollback
<1>6. CASE CommitJob(w) \/ AckJob(w)
  <2>1. /\ pc'[w] \in {"ack", "idle"}
        /\ \A q \in Procs \ {w} : pc'[q] = pc[q] /\ target'[q] = target[q]
    BY <1>6, GotoMoves, CloseMoves DEF CommitJob, AckJob
  <2>2. \/ Discard(w)
        \/ pc[w] = "ack" /\ UNCHANGED storeVars
    BY <1>6 DEF CommitJob, Commit, AckJob
  <2>3. /\ \A r \in Runs : Untouched(w, r)'
        /\ \A q \in Procs \ {w} : /\ dirtyRuns'[q] = dirtyRuns[q]
                                  /\ dirtyApprovals'[q] = dirtyApprovals[q]
                                  /\ dirtyEvents'[q] = dirtyEvents[q]
    <3>1. CASE Discard(w)
      BY <3>1, DiscardDrafted, SessionTypes
    <3>2. CASE pc[w] = "ack" /\ UNCHANGED storeVars
      BY <1>0, <3>2 DEF DraftOK, storeVars, Untouched, Wrote
    <3> QED
      BY <2>2, <3>1, <3>2
  <2>4. DraftOK(w)'
    BY <1>0, <2>1, <2>3 DEF DraftOK, WorkerDraft
  <2> QED
    BY <2>1, <2>3, <2>4 DEF Apart
<1> QED
  BY <1>1, <1>2, <1>3, <1>4, <1>5, <1>6 DEF WorkerNext, WorkerStep

\* Nobody has written anything at first.
LEMMA DraftsInit == Init => Drafts
BY TurnedNone, RoleOfProc
   DEF Init, StoreInit, SessionInit, NoWrites, NoEvents, Drafts, DraftOK, RunnerDraft, DeciderDraft,
       SweeperDraft, WorkerDraft, Untouched, Wrote, Creating

\* A step of p, in its role.
Acts(p) ==
  \/ p \in Runners /\ RunnerNext(p)
  \/ p \in Approvers \cup Rejecters /\ DeciderNext(p)
  \/ p \in Sweepers /\ SweeperNext(p)
  \/ p \in Workers /\ WorkerNext(p)

\* Every step keeps the drafts, and is a step of one process or of none.
LEMMA DraftsStep ==
  ASSUME SysInv, Drafts, [Next]_vars
  PROVE  /\ Drafts'
         /\ \/ UNCHANGED <<storeVars, pc, target, expiring, disk, cursor, since>>
            \/ \E p \in Procs : Acts(p) /\ Apart(p)
<1>1. CASE ClockNext \/ OperatorNext \/ UNCHANGED vars
  <2>1. UNCHANGED <<storeVars, pc, target, expiring, disk, cursor, since>>
    BY <1>1 DEF ClockNext, Lapse, OperatorNext, RequeueJob, vars, sessionVars, gateVars, workerVars
  <2> QED
    BY <2>1, DraftFrame DEF storeVars, Drafts
<1>2. ASSUME NEW p \in Runners, RunnerNext(p) PROVE Drafts' /\ Apart(p) /\ p \in Procs
  BY <1>2, RunnerDrafts, OthersDrafts, RoleOfProc
<1>3. ASSUME NEW p \in Approvers \cup Rejecters, DeciderNext(p) PROVE Drafts' /\ Apart(p) /\ p \in Procs
  BY <1>3, DeciderDrafts, OthersDrafts, RoleOfProc
<1>4. ASSUME NEW p \in Sweepers, SweeperNext(p) PROVE Drafts' /\ Apart(p) /\ p \in Procs
  BY <1>4, SweeperDrafts, OthersDrafts, RoleOfProc
<1>5. ASSUME NEW w \in Workers, WorkerNext(w) PROVE Drafts' /\ Apart(w) /\ w \in Procs
  BY <1>5, WorkerDrafts, OthersDrafts, RoleOfProc
<1> QED
  BY <1>1, <1>2, <1>3, <1>4, <1>5 DEF Next, Acts
=============================================================================
