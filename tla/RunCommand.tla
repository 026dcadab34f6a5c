----------------------------- MODULE RunCommand -----------------------------
(***************************************************************************)
(* `idemra run' (cli/main.py): one session that creates the run, routes    *)
(* it, builds its context, asks the Coder Agent for a proposal, checks it  *)
(* and either requests approval or queues the run.  What the repository,   *)
(* GitHub and the model answer is a choice; where an answer sends the      *)
(* command is not.                                                         *)
(***************************************************************************)
EXTENDS Session

CONSTANT Runners  \* processes that execute `idemra run'

ASSUME RunnerAssumption == Runners \subseteq Procs

VARIABLE issued  \* ids given to a run so far: a uuid is never given twice

RunCommandInit == issued = {}

\* A step of the body that writes nothing.
Proceed(p, from, to) == Goto(p, from, to) /\ UNCHANGED <<storeVars, issued>>

-----------------------------------------------------------------------------
\* create_run.  A GitHub task is fetched after the row is there.
CreateRun(p) ==
  \E r \in Runs \ issued, stage \in {"fetch", "route"} :
    /\ Begin(p, r, stage)
    /\ InsertRun(p, r)
    /\ issued' = issued \cup {r}
    /\ UNCHANGED <<queue, faults>>

FetchTask(p) == Proceed(p, "fetch", "route")

RouteTask(p) ==
  \E answer \in {"start", "refused"} :
    /\ Goto(p, "route", answer)
    /\ RecordEvent(p, target[p], "routing_decision", "routing")
    /\ UNCHANGED issued

StartRun(p) ==
  /\ Goto(p, "start", "permissions")
  /\ WriteStatusEvent(p, target[p], "running", "start")
  /\ UNCHANGED <<dirtyApprovals, issued>>

LoadPermissions(p) == Proceed(p, "permissions", "world_model")

BuildWorldModel(p) == Proceed(p, "world_model", "propose")

\* propose_changes, then record_proposal.
ProposeChanges(p) ==
  /\ Goto(p, "propose", "validate")
  /\ RecordEvent(p, target[p], "change_proposed", "proposal")
  /\ UNCHANGED issued

ValidateProposal(p) == Proceed(p, "validate", "gate")

\* The failures the command catches: a fetch error, the router's refusal, no
\* or invalid permissions, no git repository, a malformed proposal, a
\* forbidden path.  fail_run, then typer.Exit, which commits.
FailRun(p) ==
  /\ \E stage \in {"fetch", "refused", "permissions", "world_model", "propose", "validate"} :
       Goto(p, stage, "commit")
  /\ WriteStatusEvent(p, target[p], "failed", "fail")
  /\ UNCHANGED <<dirtyApprovals, issued>>

\* The write action needs approval: request_approval.
RequestApproval(p) ==
  /\ Goto(p, "gate", "commit")
  /\ WriteStatusEvent(p, target[p], "awaiting_approval", "await-approval")
  /\ SetApproval(p, target[p], "pending")
  /\ UNCHANGED issued

\* It does not: mark_queued_for_apply; enqueue_apply comes next.
QueueRun(p) ==
  /\ Goto(p, "gate", "enqueue")
  /\ WriteStatusEvent(p, target[p], "queued", "queued-for-apply")
  /\ UNCHANGED <<dirtyApprovals, issued>>

RunStep(p) ==
  \/ FetchTask(p) \/ RouteTask(p) \/ StartRun(p) \/ LoadPermissions(p)
  \/ BuildWorldModel(p) \/ ProposeChanges(p) \/ ValidateProposal(p)
  \/ FailRun(p) \/ RequestApproval(p) \/ QueueRun(p)
  \/ (EnqueueApply(p) \/ CommitSession(p)) /\ UNCHANGED issued

\* An exception the command does not catch: the model provider, the YAML parser,
\* a source that is gone or a link out of the repository, a proposed path that is
\* not text, Redis.  The session is rolled back, the run's row with it.
UncaughtError(p) ==
  /\ pc[p] \in {"fetch", "permissions", "world_model", "propose", "validate", "enqueue"}
  /\ AbortSession(p)
  /\ UNCHANGED <<queue, faults, issued>>

RunFault(p) == Fault(p) /\ UNCHANGED <<queue, issued>>
=============================================================================
