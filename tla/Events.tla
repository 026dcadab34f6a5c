------------------------------- MODULE Events -------------------------------
(***************************************************************************)
(* The event log of one run and the fold that reconstructs its status.     *)
(* A log is a set of rows of the `events' table, ordered by their `seq'    *)
(* column.  Nothing makes that column unique or gapless: it is computed by *)
(* _next_seq, and what it is worth depends on who else is writing.         *)
(***************************************************************************)
EXTENDS Integers

\* The values of runs.status, in the order of the life cycle.
Statuses == {"pending", "running", "awaiting_approval", "approved", "rejected",
             "queued", "applying", "completed", "failed", "stale"}

ApprovalStatuses == {"pending", "approved", "rejected", "expired"}

\* A row, or a column of an open transaction, that is not there.
Absent == "absent"

EventTypes == {"routing_decision", "status_changed", "change_proposed", "files_applied"}

\* The status an event other than status_changed carries: none.
NoStatus == "none"

\* The suffix of idempotency_key: "<run id>:<suffix>".  The two keys of an
\* approval also hold its id, and a run has at most one approval.
Keys == {"routing", "start", "fail", "proposal", "await-approval", "queued-for-apply",
         "approval:decision", "approval:expired", "apply-start", "files-applied", "complete"}

Event == [seq : Nat \ {0}, type : EventTypes, status : Statuses \cup {NoStatus}, key : Keys]

-----------------------------------------------------------------------------
Latest(L) == CHOOSE e \in L : \A d \in L : d.seq <= e.seq

\* Faulty variant: an empty log starts at 0.
NextSeqFromZero(L) == IF L = {} THEN 0 ELSE Latest(L).seq + 1

\* _next_seq: one more than the greatest seq the transaction can see.
NextSeq(L) == IF L = {} THEN 1 ELSE Latest(L).seq + 1

StatusEvents(L) == {e \in L : e.type = "status_changed"}

\* replay_run: the status after folding the events in the order of seq.
Replay(L) == IF StatusEvents(L) = {} THEN "pending" ELSE Latest(StatusEvents(L)).status

\* What a reader of the log counts on: seq and idempotency key each name one
\* event, and the seqs are 1, 2, 3 ... with no hole.
Sequenced(L) ==
  /\ \A d, e \in L : (d.seq = e.seq \/ d.key = e.key) => d = e
  /\ \A e \in L : e.seq = 1 \/ \E d \in L : d.seq = e.seq - 1
=============================================================================
