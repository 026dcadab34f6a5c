----------------------------- MODULE EventStore -----------------------------
(***************************************************************************)
(* The Postgres schema (db/models.py) and the functions of runs.py that    *)
(* write it, as concurrent transactions at READ COMMITTED: a process sees  *)
(* the committed rows and its own writes; writing a row takes its lock     *)
(* until the transaction ends; the unique idempotency key of an event is   *)
(* enforced when the event is inserted.                                    *)
(*                                                                         *)
(* The ORM flushes run.status (UPDATE runs, which waits for the row lock)  *)
(* before the SELECT of _next_seq, so the two and the INSERT of the event  *)
(* are one step here, taken when the row is free.                          *)
(***************************************************************************)
EXTENDS Events

CONSTANTS Runs,   \* ids of runs, fresh uuids
          Procs   \* processes that open a transaction, one at a time each

VARIABLES runs,           \* committed runs.status
          approvals,      \* committed approvals.status, of the run's approval
          events,         \* committed events
          dirtyRuns,      \* status written by an open transaction
          dirtyApprovals, \* approval status written by an open transaction
          dirtyEvents     \* events inserted by an open transaction

committed == <<runs, approvals, events>>
dirty == <<dirtyRuns, dirtyApprovals, dirtyEvents>>
storeVars == <<runs, approvals, events, dirtyRuns, dirtyApprovals, dirtyEvents>>

StoreTypeOK ==
  /\ runs \in [Runs -> Statuses \cup {Absent}]
  /\ approvals \in [Runs -> ApprovalStatuses \cup {Absent}]
  /\ events \in [Runs -> SUBSET Event]
  /\ dirtyRuns \in [Procs -> [Runs -> Statuses \cup {Absent}]]
  /\ dirtyApprovals \in [Procs -> [Runs -> ApprovalStatuses \cup {Absent}]]
  /\ dirtyEvents \in [Procs -> [Runs -> SUBSET Event]]

NoWrites == [r \in Runs |-> Absent]
NoEvents == [r \in Runs |-> {}]

StoreInit ==
  /\ runs = NoWrites
  /\ approvals = NoWrites
  /\ events = NoEvents
  /\ dirtyRuns = [p \in Procs |-> NoWrites]
  /\ dirtyApprovals = [p \in Procs |-> NoWrites]
  /\ dirtyEvents = [p \in Procs |-> NoEvents]

-----------------------------------------------------------------------------
(* What a transaction sees, and the locks it waits for. *)

SeenLog(p, r) == events[r] \cup dirtyEvents[p][r]

OwnsRun(p, r) == dirtyRuns[p][r] # Absent
OwnsApproval(p, r) == dirtyApprovals[p][r] # Absent

RunRowFree(p, r) == \A q \in Procs \ {p} : ~OwnsRun(q, r)
ApprovalRowFree(p, r) == \A q \in Procs \ {p} : ~OwnsApproval(q, r)

\* The INSERT of an event with this key would raise IntegrityError.
KeyUsed(p, r, k) == \E e \in SeenLog(p, r) : e.key = k

NewEvent(p, r, t, s, k) ==
  [seq |-> NextSeq(SeenLog(p, r)), type |-> t, status |-> s, key |-> k]

\* Faulty variant: events.idempotency_key is not unique.
InsertEventUnchecked(p, r, t, s, k) ==
  dirtyEvents' = [dirtyEvents EXCEPT ![p][r] = @ \cup {NewEvent(p, r, t, s, k)}]

InsertEvent(p, r, t, s, k) ==
  /\ ~KeyUsed(p, r, k)
  /\ dirtyEvents' = [dirtyEvents EXCEPT ![p][r] = @ \cup {NewEvent(p, r, t, s, k)}]

-----------------------------------------------------------------------------
(* The writes. *)

\* create_run: the row is flushed, no event is written.
InsertRun(p, r) ==
  /\ dirtyRuns' = [dirtyRuns EXCEPT ![p][r] = "pending"]
  /\ UNCHANGED <<runs, approvals, events, dirtyApprovals, dirtyEvents>>

\* record_event of a type other than status_changed.
RecordEvent(p, r, t, k) ==
  /\ InsertEvent(p, r, t, NoStatus, k)
  /\ UNCHANGED <<runs, approvals, events, dirtyRuns, dirtyApprovals>>

\* Faulty variant: the seq is read before the UPDATE waits for the row.
WriteStatusEventUnlocked(p, r, s, k) ==
  /\ InsertEvent(p, r, "status_changed", s, k)
  /\ dirtyRuns' = [dirtyRuns EXCEPT ![p][r] = s]
  /\ UNCHANGED committed

\* _write_status_event: the cached column and the event of one transition.
\* Whether the run's approval is written with them is left to the caller.
WriteStatusEvent(p, r, s, k) ==
  /\ RunRowFree(p, r)
  /\ InsertEvent(p, r, "status_changed", s, k)
  /\ dirtyRuns' = [dirtyRuns EXCEPT ![p][r] = s]
  /\ UNCHANGED committed

\* An INSERT or UPDATE of the run's approval row.
SetApproval(p, r, a) ==
  /\ ApprovalRowFree(p, r)
  /\ dirtyApprovals' = [dirtyApprovals EXCEPT ![p][r] = a]

Discard(p) ==
  /\ dirtyRuns' = [dirtyRuns EXCEPT ![p] = NoWrites]
  /\ dirtyApprovals' = [dirtyApprovals EXCEPT ![p] = NoWrites]
  /\ dirtyEvents' = [dirtyEvents EXCEPT ![p] = NoEvents]

Overwrite(old, new) == [r \in Runs |-> IF new[r] = Absent THEN old[r] ELSE new[r]]

\* session.commit: an UPDATE overwrites whatever another transaction has
\* committed since this one read the row; nothing re-checks the status.
Commit(p) ==
  /\ runs' = Overwrite(runs, dirtyRuns[p])
  /\ approvals' = Overwrite(approvals, dirtyApprovals[p])
  /\ events' = [r \in Runs |-> SeenLog(p, r)]
  /\ Discard(p)

Rollback(p) == Discard(p) /\ UNCHANGED committed

-----------------------------------------------------------------------------
(***************************************************************************)
(* Any clients that write a run's events only while they hold its row, and *)
(* create a run under an id nobody has used.  What the store guarantees    *)
(* these clients it guarantees the commands and the worker, whose steps    *)
(* are all steps of StoreNext.                                             *)
(***************************************************************************)
Fresh(r) == runs[r] = Absent /\ \A p \in Procs : ~OwnsRun(p, r)

Exists(p, r) == runs[r] # Absent \/ OwnsRun(p, r)

CreateStep(p, r) == Fresh(r) /\ InsertRun(p, r)

RecordStep(p, r) ==
  /\ OwnsRun(p, r)
  /\ \E t \in EventTypes \ {"status_changed"}, k \in Keys : RecordEvent(p, r, t, k)

TransitionStep(p, r) ==
  /\ Exists(p, r)
  /\ \E s \in Statuses, k \in Keys : WriteStatusEvent(p, r, s, k)
  /\ \/ UNCHANGED dirtyApprovals
     \/ \E a \in ApprovalStatuses : SetApproval(p, r, a)

ApprovalStep(p, r) ==
  /\ Exists(p, r)
  /\ \E a \in ApprovalStatuses : SetApproval(p, r, a)
  /\ UNCHANGED <<runs, approvals, events, dirtyRuns, dirtyEvents>>

StoreNext ==
  \E p \in Procs :
    \/ \E r \in Runs : CreateStep(p, r) \/ RecordStep(p, r) \/ TransitionStep(p, r) \/ ApprovalStep(p, r)
    \/ Commit(p)
    \/ Rollback(p)

StoreSpec == StoreInit /\ [][StoreNext]_storeVars

-----------------------------------------------------------------------------
(* The cached column and the log never diverge. *)

\* runs.py:12-15: run.status is a cache of the fold of the committed log.
StatusMatchesLog ==
  \A r \in Runs : runs[r] # Absent => runs[r] = Replay(events[r])

\* The inductive invariant behind it.  A log is sound when it is sequenced and
\* has a greatest seq; the owner of a run's row alone has events of it; they
\* come after the committed ones; and the fold agrees with the column in what
\* is committed and in what every transaction sees.
Sound(L) ==
  /\ Sequenced(L)
  /\ L # {} => \E e \in L : \A d \in L : d.seq <= e.seq

OneOwner ==
  \A p, q \in Procs, r \in Runs : OwnsRun(p, r) /\ OwnsRun(q, r) => p = q

WritersOwn == \A p \in Procs, r \in Runs : dirtyEvents[p][r] # {} => OwnsRun(p, r)

EventsHaveRun == \A r \in Runs : events[r] # {} => runs[r] # Absent

NewAfterOld ==
  \A p \in Procs, r \in Runs : \A d \in dirtyEvents[p][r], e \in events[r] : e.seq < d.seq

LogsSound ==
  /\ \A r \in Runs : Sound(events[r])
  /\ \A p \in Procs, r \in Runs : Sound(SeenLog(p, r))

DirtyMatchesLog ==
  \A p \in Procs, r \in Runs : OwnsRun(p, r) => dirtyRuns[p][r] = Replay(SeenLog(p, r))

StoreInv ==
  /\ StoreTypeOK
  /\ OneOwner
  /\ WritersOwn
  /\ EventsHaveRun
  /\ NewAfterOld
  /\ LogsSound
  /\ StatusMatchesLog
  /\ DirtyMatchesLog

\* The committed rows implement the abstract log: append-only, gapless,
\* one event for an idempotency key, status always the fold.
RL == INSTANCE RunLog WITH status <- runs, log <- events
RefinesRunLog == RL!Spec
=============================================================================
