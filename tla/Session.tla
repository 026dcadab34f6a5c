------------------------------- MODULE Session -------------------------------
(***************************************************************************)
(* session_scope (db/session.py): every command of the CLI and every job   *)
(* of the worker is one transaction, committed when the body returns or    *)
(* leaves by typer.Exit, rolled back on any other exception.  The apply    *)
(* queue is not part of the transaction: enqueue_apply pushes to Redis at  *)
(* once, before the commit.                                                *)
(***************************************************************************)
EXTENDS EventStore, Sequences

CONSTANTS NoRun,      \* the target of a process with no session
          MaxFaults   \* bound on crashes and lost connections

ASSUME FaultAssumption == NoRun \notin Runs /\ MaxFaults \in Nat

VARIABLES pc,      \* where in its command a process is; "idle" outside one
          target,  \* the run its session is about
          queue,   \* RQ's "apply" list in Redis, oldest job first
          faults   \* how many faults have happened

sessionVars == <<pc, target, queue, faults>>

SessionInit ==
  /\ pc = [p \in Procs |-> "idle"]
  /\ target = [p \in Procs |-> NoRun]
  /\ queue = <<>>
  /\ faults = 0

Idle(p) == pc[p] = "idle"

-----------------------------------------------------------------------------
(* The steps of a session. *)

Begin(p, r, stage) ==
  /\ Idle(p)
  /\ pc' = [pc EXCEPT ![p] = stage]
  /\ target' = [target EXCEPT ![p] = r]

Goto(p, from, to) ==
  /\ pc[p] = from
  /\ pc' = [pc EXCEPT ![p] = to]
  /\ UNCHANGED <<target, queue, faults>>

Close(p) ==
  /\ pc' = [pc EXCEPT ![p] = "idle"]
  /\ target' = [target EXCEPT ![p] = NoRun]

\* The body is done: session.commit.
CommitSession(p) ==
  /\ pc[p] = "commit"
  /\ Commit(p)
  /\ Close(p)
  /\ UNCHANGED <<queue, faults>>

\* Faulty variant: the session is left without a rollback.
AbortWithoutRollback(p) == Close(p) /\ UNCHANGED storeVars

\* The body raised: session.rollback, and nothing of the command is left but
\* what it did outside the database.
AbortSession(p) ==
  /\ Rollback(p)
  /\ Close(p)

\* enqueue_apply, while the transaction is still open.
EnqueueApply(p) ==
  /\ pc[p] = "enqueue"
  /\ queue' = Append(queue, target[p])
  /\ pc' = [pc EXCEPT ![p] = "commit"]
  /\ UNCHANGED <<target, faults, storeVars>>

\* A fault the program does not catch: the process dies, the connection is
\* lost, Redis or the model provider or the disk fails.  Postgres rolls back.
Fault(p) ==
  /\ ~Idle(p)
  /\ faults < MaxFaults
  /\ faults' = faults + 1
  /\ AbortSession(p)
=============================================================================
