------------------------------ MODULE Proposals ------------------------------
(***************************************************************************)
(* The data of a run, which RunCommand and ApplyWorker leave to choice:    *)
(* the task fetched from GitHub (github/fetch.py), the reply of the model  *)
(* (agents/coder.py), the permissions and symlinks its paths are checked   *)
(* against when it is proposed and again when it is applied, and what the  *)
(* writes do to the repository.  Users change both at any moment.          *)
(*                                                                         *)
(* Sessions, approvals and the queue are those of Idemra: here a run that  *)
(* passed its checks is "queued", and one job of it is at work at a time.  *)
(***************************************************************************)
EXTENDS PathChecks

CONSTANTS Runs,
          Checks,         \* GitHub check runs: sequences of [failed, log]
          Replies,        \* answers of the model: sequences of [path, text]
          Malformed,      \* one that _parse_response refuses
          Layouts,        \* symlinks the repository may have
          Denials,        \* denied_paths of a permissions.yml
          NoPermissions,  \* permissions.yml is missing or invalid
          Unreadable,     \* it is not YAML, or not a mapping: an exception nobody catches
          PermissionsYml, \* where it is
          Repository,     \* the files and directories there are at first
          MaxLogLines, MaxFailedJobs,
          NotText,        \* a proposed path that is not a string
          MaxChanges,     \* bound on what users change
          MaxKills        \* bound on the killed jobs

Directory == "directory"
Original == "original"
Contents == {Directory, Original} \cup Runs
PermissionTexts == Denials \cup {NoPermissions, Unreadable}

ASSUME LimitAssumption ==
  MaxLogLines \in Nat \ {0} /\ MaxFailedJobs \in Nat \ {0} /\ MaxChanges \in Nat /\ MaxKills \in Nat
ASSUME ChoiceAssumption ==
  /\ NoPermissions \notin Denials /\ Unreadable \notin Denials \cup {NoPermissions}
  /\ Malformed \notin Replies
ASSUME ReplyAssumption ==
  \A reply \in Replies : Len(reply) \in Nat /\ DOMAIN reply = 1..Len(reply)
ASSUME ContentAssumption == Runs \cap {Directory, Original} = {}
ASSUME RepositoryAssumption ==
  \A place \in DOMAIN Repository : Repository[place] \in {Directory, Original}

VARIABLES stage,    \* where each run is
          failed,   \* failed jobs of the check run its task comes from
          sections, \* what has been taken of their logs
          omitted,  \* failed jobs past the limit
          loaded,   \* permissions.yml as the run, or its job, has loaded it
          proposal, \* the files the run proposes
          cursor,   \* how many of them its job has written
          calm,     \* auxiliary: the checks since which nothing has changed
          links,    \* symlinks of the repository
          denied,   \* permissions.yml
          tree,     \* what is at each path that exists
          requeued, \* runs whose job was put back, once each
          changes, kills

taskVars == <<failed, sections, omitted>>
runVars == <<loaded, proposal, cursor, calm>>
world == <<links, denied, tree>>
bounds == <<requeued, changes, kills>>
vars == <<stage, taskVars, runVars, world, bounds>>

Init ==
  /\ stage = [r \in Runs |-> "new"]
  /\ failed = [r \in Runs |-> <<>>] /\ sections = failed /\ proposal = failed
  /\ omitted = [r \in Runs |-> 0] /\ cursor = omitted
  /\ calm = [r \in Runs |-> {}]
  /\ links \in Layouts
  /\ denied \in Denials /\ loaded = [r \in Runs |-> denied]
  /\ tree = Repository
  /\ requeued = {} /\ changes = 0 /\ kills = 0

Goto(r, from, to) == stage[r] = from /\ stage' = [stage EXCEPT ![r] = to]

-----------------------------------------------------------------------------
(* The task: given, or of an issue, or of the failed jobs of a check run. *)

\* Given on the command line, or title and body of an issue (two gh calls).
TakeTask(r) ==
  /\ Goto(r, "new", "task")
  /\ UNCHANGED <<taskVars, runVars, world, bounds>>

FailedJobs(check) == SelectSeq(check, LAMBDA job : job.failed)

\* Faulty variant: the limit itself is past the limit.
IncludedBelowLimit(jobs) == IF Len(jobs) < MaxFailedJobs THEN Len(jobs) ELSE MaxFailedJobs - 1

Included(jobs) == IF Len(jobs) <= MaxFailedJobs THEN Len(jobs) ELSE MaxFailedJobs

\* gh run view: the failed jobs, in their order.
ViewCheck(r) ==
  \E check \in Checks :
    /\ FailedJobs(check) # <<>>
    /\ Goto(r, "new", "logs")
    /\ failed' = [failed EXCEPT ![r] = FailedJobs(check)]
    /\ omitted' = [omitted EXCEPT ![r] = Len(FailedJobs(check)) - Included(FailedJobs(check))]
    /\ UNCHANGED <<sections, runVars, world, bounds>>

\* _truncate: the last lines, and a header that says how many are dropped.
Truncate(log) ==
  IF Len(log) <= MaxLogLines
  THEN [dropped |-> 0, lines |-> log]
  ELSE LET dropped == Len(log) - MaxLogLines
       IN  [dropped |-> dropped, lines |-> SubSeq(log, dropped + 1, Len(log))]

\* gh run view --log-failed of the next job, up to the limit.
FetchLog(r) ==
  /\ Len(sections[r]) < Included(failed[r])
  /\ Goto(r, "logs", "logs")
  /\ sections' = [sections EXCEPT ![r] = Append(@, Truncate(failed[r][Len(@) + 1].log))]
  /\ UNCHANGED <<failed, omitted, runVars, world, bounds>>

ComposeTask(r) ==
  /\ Len(sections[r]) = Included(failed[r])
  /\ Goto(r, "logs", "task")
  /\ UNCHANGED <<taskVars, runVars, world, bounds>>

\* A gh call fails, or no job has: GitHubFetchError, and whatever logs were read
\* are of no use.
FailFetch(r) ==
  /\ stage[r] \in {"new", "logs"}
  /\ stage' = [stage EXCEPT ![r] = "failed"]
  /\ UNCHANGED <<taskVars, runVars, world, bounds>>

FetchStep(r) == TakeTask(r) \/ ViewCheck(r) \/ FetchLog(r) \/ ComposeTask(r) \/ FailFetch(r)

-----------------------------------------------------------------------------
(* The proposal, in `idemra run'. *)

\* Faulty variant: a missing permissions.yml is no obstacle.
LoadPermissionsIfAny(r) ==
  /\ Goto(r, "task", "propose")
  /\ loaded' = [loaded EXCEPT ![r] = denied]
  /\ UNCHANGED <<taskVars, proposal, cursor, calm, world, bounds>>

\* load_permissions.  The task is text from here on, whatever it says.
LoadPermissions(r) ==
  /\ denied # Unreadable
  /\ Goto(r, "task", IF denied = NoPermissions THEN "failed" ELSE "propose")
  /\ loaded' = [loaded EXCEPT ![r] = denied]
  /\ calm' = [calm EXCEPT ![r] = {"run"}]
  /\ failed' = [failed EXCEPT ![r] = <<>>] /\ sections' = [sections EXCEPT ![r] = <<>>]
  /\ omitted' = [omitted EXCEPT ![r] = 0]
  /\ UNCHANGED <<proposal, cursor, world, bounds>>

\* propose_changes and record_proposal: all the entries of the reply, or none.
\* _parse_response looks at no type: a path, or a content, may not be a string.
ParseResponse(r) ==
  \E reply \in Replies \cup {Malformed} :
    /\ Goto(r, "propose", IF reply = Malformed THEN "failed" ELSE "validate")
    /\ proposal' = [proposal EXCEPT ![r] = IF reply = Malformed THEN <<>> ELSE reply]
    /\ UNCHANGED <<taskVars, loaded, cursor, calm, world, bounds>>

Paths(r) == [i \in DOMAIN proposal[r] |-> proposal[r][i].path]

\* load_permissions meets what is no YAML mapping, or repo_root / path raises
\* TypeError; uncaught, and the run is rolled back.
LoseRun(r) ==
  /\ \/ stage[r] = "task" /\ denied = Unreadable
     \/ stage[r] = "validate" /\ \E i \in DOMAIN proposal[r] : Paths(r)[i] = NotText
  /\ stage' = [stage EXCEPT ![r] = "lost"]
  /\ UNCHANGED <<taskVars, runVars, world, bounds>>

\* Faulty variant: permissions.yml is not for `idemra run' to look at.
ValidateLayerOneOnly(r) ==
  /\ \A i \in DOMAIN proposal[r] : Paths(r)[i] # NotText
  /\ Goto(r, "validate", IF Violations(links, {}, Paths(r)) = {} THEN "queued" ELSE "failed")
  /\ UNCHANGED <<taskVars, runVars, world, bounds>>

\* validate_proposal, under the permissions loaded before the model was asked.
ValidateProposal(r) ==
  /\ \A i \in DOMAIN proposal[r] : Paths(r)[i] # NotText
  /\ Goto(r, "validate", IF Violations(links, loaded[r], Paths(r)) = {} THEN "queued" ELSE "failed")
  /\ UNCHANGED <<taskVars, runVars, world, bounds>>

ProposeStep(r) == LoadPermissions(r) \/ ParseResponse(r) \/ LoseRun(r) \/ ValidateProposal(r)

-----------------------------------------------------------------------------
(* The job: apply_run_job and apply_run. *)

\* Faulty variant: the permissions of `idemra run' are kept.
KeepPermissions(r) ==
  /\ Goto(r, "queued", "check")
  /\ calm' = [calm EXCEPT ![r] = @ \cup {"job"}]
  /\ UNCHANGED <<taskVars, loaded, proposal, cursor, world, bounds>>

ReloadPermissions(r) ==
  /\ denied # Unreadable
  /\ Goto(r, "queued", IF denied = NoPermissions THEN "failed" ELSE "check")
  /\ loaded' = [loaded EXCEPT ![r] = denied]
  /\ calm' = [calm EXCEPT ![r] = @ \cup {"job"}]
  /\ UNCHANGED <<taskVars, proposal, cursor, world, bounds>>

\* load_permissions again; jobs.py:59 catches two exceptions and neither is this.
\* The job is filed as failed and the run stays queued.
LoseJob(r) ==
  /\ denied = Unreadable
  /\ Goto(r, "queued", "crashed")
  /\ UNCHANGED <<taskVars, runVars, world, bounds>>

\* Every path again, before anything is written.
CheckProposal(r) ==
  /\ Goto(r, "check", IF Violations(links, loaded[r], Paths(r)) = {} THEN "write" ELSE "failed")
  /\ cursor' = [cursor EXCEPT ![r] = 0]
  /\ UNCHANGED <<taskVars, loaded, proposal, calm, world, bounds>>

\* What mkdir and write_text do with the next file: its place, the directories
\* on the way to it, and whether each of the two calls can succeed.
NextFile(r) == proposal[r][cursor[r] + 1]
Place(r) == Resolve(links, Target(NextFile(r).path))
Parents(r) ==
  LET target == Target(NextFile(r).path)
  IN  {Resolve(links, SubSeq(target, 1, k)) : k \in 0..(Len(target) - 1)}

CanMakeParents(r) == \A dir \in Parents(r) \cap DOMAIN tree : tree[dir] = Directory
CanWrite(r) == NextFile(r).text /\ (Place(r) \in DOMAIN tree => tree[Place(r)] # Directory)

\* What is there once there is this in these places.
With(places, this, there) ==
  [place \in places \cup DOMAIN there |-> IF place \in places THEN this ELSE there[place]]

WithParents(r) == With(Parents(r), Directory, tree)

\* A file may be permissions.yml itself, whatever the run makes of it.
Rewrite(place) ==
  IF place = PermissionsYml
  THEN denied' \in PermissionTexts /\ calm' = [r \in Runs |-> {}]
  ELSE UNCHANGED <<denied, calm>>

\* Faulty variant: a file that is there is left alone.
WriteNewFile(r) ==
  /\ stage[r] = "write" /\ cursor[r] < Len(proposal[r])
  /\ CanMakeParents(r) /\ CanWrite(r)
  /\ cursor' = [cursor EXCEPT ![r] = @ + 1]
  /\ tree' = With({Place(r)} \ DOMAIN WithParents(r), r, WithParents(r))
  /\ Rewrite(Place(r))
  /\ UNCHANGED <<stage, taskVars, loaded, proposal, links, bounds>>

WriteFile(r) ==
  /\ stage[r] = "write" /\ cursor[r] < Len(proposal[r])
  /\ CanMakeParents(r) /\ CanWrite(r)
  /\ cursor' = [cursor EXCEPT ![r] = @ + 1]
  /\ tree' = With({Place(r)}, r, WithParents(r))
  /\ Rewrite(Place(r))
  /\ UNCHANGED <<stage, taskVars, loaded, proposal, links, bounds>>

\* A directory where a file should be, or a file on the way, or a content that is
\* not text: the job fails, and with it the transaction, not what it wrote.
FailWrite(r) ==
  /\ Goto(r, "write", "crashed")
  /\ cursor[r] < Len(proposal[r])
  /\ ~(CanMakeParents(r) /\ CanWrite(r))
  /\ tree' = IF CanMakeParents(r) THEN WithParents(r) ELSE tree
  /\ UNCHANGED <<taskVars, runVars, links, denied, bounds>>

CompleteRun(r) ==
  /\ cursor[r] = Len(proposal[r])
  /\ Goto(r, "write", "completed")
  /\ UNCHANGED <<taskVars, runVars, world, bounds>>

JobStep(r) ==
  \/ ReloadPermissions(r) \/ LoseJob(r) \/ CheckProposal(r)
  \/ WriteFile(r) \/ FailWrite(r) \/ CompleteRun(r)

KillJob(r) ==
  /\ kills < MaxKills
  /\ stage[r] \in {"check", "write"}
  /\ kills' = kills + 1
  /\ stage' = [stage EXCEPT ![r] = "crashed"]
  /\ UNCHANGED <<taskVars, runVars, world, requeued, changes>>

-----------------------------------------------------------------------------
(* Users. *)

Change == changes < MaxChanges /\ changes' = changes + 1

Relink ==
  /\ Change
  /\ links' \in Layouts \ {links}
  /\ calm' = [r \in Runs |-> {}]
  /\ UNCHANGED <<stage, taskVars, loaded, proposal, cursor, denied, tree, requeued, kills>>

EditPermissions ==
  /\ Change
  /\ denied' \in PermissionTexts \ {denied}
  /\ calm' = [r \in Runs |-> {}]
  /\ UNCHANGED <<stage, taskVars, loaded, proposal, cursor, links, tree, requeued, kills>>

\* rq requeue, of a job that RQ has filed as failed.
Requeue(r) ==
  /\ r \notin requeued
  /\ requeued' = requeued \cup {r}
  /\ Goto(r, "crashed", "queued")
  /\ UNCHANGED <<taskVars, runVars, world, changes, kills>>

Next ==
  \/ \E r \in Runs : FetchStep(r) \/ ProposeStep(r) \/ JobStep(r) \/ KillJob(r) \/ Requeue(r)
  \/ Relink
  \/ EditPermissions

Spec == Init /\ [][Next]_vars

-----------------------------------------------------------------------------
(* Properties *)

Accepted == {"queued", "check", "write", "crashed", "completed"}

Stages == {"new", "logs", "task", "propose", "validate", "failed", "lost"} \cup Accepted

\* Types; who was let through has permissions and paths that are text.
TypeOK ==
  /\ stage \in [Runs -> Stages]
  /\ \A r \in Runs :
       /\ stage[r] \in Accepted \cup {"propose", "validate"} => loaded[r] \in Denials
       /\ stage[r] \in Accepted => \A i \in DOMAIN proposal[r] : proposal[r][i].path # NotText
       /\ proposal[r] \in Replies \cup {<<>>}
       /\ cursor[r] \in 0..Len(proposal[r])
       /\ omitted[r] \in Nat
  /\ loaded \in [Runs -> PermissionTexts]
  /\ calm \in [Runs -> SUBSET {"run", "job"}]
  /\ links \in Layouts
  /\ denied \in PermissionTexts
  /\ \A place \in DOMAIN tree : tree[place] \in Contents
  /\ requeued \subseteq Runs
  /\ changes \in 0..MaxChanges /\ kills \in 0..MaxKills

\* fetch.py:53-58, 84-94: no line of a log and no failed job is dropped without
\* being counted, none is dropped that fits, and what is kept of a log is its end.
TaskAccountsForLogs ==
  \A r \in Runs : stage[r] = "task" =>
    /\ Len(sections[r]) + omitted[r] = Len(failed[r])
    /\ omitted[r] > 0 => Len(sections[r]) = MaxFailedJobs
    /\ Len(sections[r]) <= MaxFailedJobs
    /\ \A i \in DOMAIN sections[r] :
         LET log == failed[r][i].log
             kept == sections[r][i].lines
             dropped == sections[r][i].dropped
         IN  /\ IsSuffix(kept, log)
             /\ dropped + Len(kept) = Len(log)
             /\ dropped > 0 => Len(kept) = MaxLogLines
             /\ Len(kept) <= MaxLogLines

\* Each place a completed run proposed to write has what a run wrote, itself or one
\* at work beside it, and no directory: also when its job was killed half way and
\* came again, as long as nobody moves the paths while it is at work.
CompletedIsOnDisk ==
  \A r \in Runs : stage[r] = "completed" /\ "job" \in calm[r] =>
    \A i \in DOMAIN proposal[r] :
      LET place == Resolve(links, Target(Paths(r)[i]))
      IN  place \in DOMAIN tree /\ tree[place] \in Runs

\* No file is written whose name Layer 1 or the permissions the job loaded forbid;
\* and if nothing has changed since it loaded them, none before every path of the
\* proposal passes, and none that resolves to a place out of the repository,
\* whatever was the case when it was proposed (runs.py:252, jobs.py:58).
WritesAreAllowed ==
  [][\A r \in Runs : cursor'[r] > cursor[r] =>
       /\ ~Denied(Target(NextFile(r).path), DeniedPathPatterns \cup loaded[r])
       /\ "job" \in calm[r] =>
            /\ denied \in Denials /\ Violations(links, denied, Paths(r)) = {}
            /\ IsPrefix(RepoRoot, Place(r))]_vars

\* The two checks of a proposal, in two processes, agree: what `idemra run' let
\* through the job does not refuse, unless something has changed in between.
UndisturbedNotRefused ==
  [][\A r \in Runs :
       stage[r] \in Accepted /\ stage'[r] = "failed" => "run" \notin calm[r]]_vars

HasWritten(r) == \E place \in DOMAIN tree : tree[place] = r

\* Violated: a run never leaves the repository half-changed (runs.py:248).
AllOrNothing ==
  \A r \in Runs : stage[r] \in {"failed", "crashed", "completed"} /\ HasWritten(r) =>
    cursor[r] = Len(proposal[r])
=============================================================================
