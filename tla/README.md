# A TLA+ verification of Idemra

Idemra lets an AI agent propose a change to a repository and gates the change
on a human decision. A *run* is created, routed, given a proposal, held for
approval, queued, and applied by a background worker. Its record is an
append-only event log in Postgres; `runs.status` is a cache of the fold of that
log. Several processes (the CLI in several terminals, a cron job, workers) work
on the same rows, the same Redis list and the same repository with nothing but
row locks and one unique index between them. This project models that system,
model-checks it with TLC, and proves what the event store promises with TLAPS.

Paths below are relative to the repository's package, `src/src/idemra/`.

## 1. Inventory

| Component | State it keeps | Operations | Where it is modelled |
|---|---|---|---|
| Event store (`db/models.py`, `db/session.py`, `orchestrator/runs.py`) | tables `runs`, `approvals`, `events`; the open transactions | `create_run`, `record_event`, `_write_status_event`, `replay_run`, commit, rollback | `Events`, `RunLog`, `EventStore`, `EventStoreProofs` |
| Run command (`run` of `cli/main.py`, `orchestrator/master.py`) | one session, from the run's creation to its proposal's gate | create, fetch, route, start, load permissions, build world model, propose, validate, fail, request approval, queue | `Session`, `RunCommand` |
| Approval gate (`approve`, `reject`, `sweep`) | `approvals.status`, `expires_at`; the rows a sweep has selected | `record_approval_decision`, `mark_queued_for_apply`, `expire_stale_approvals` | `ApprovalGate`, `LifeProofs`, `AccountProofs` |
| Apply queue and worker (`queue/jobs.py`, `apply_run`) | the Redis list; the files of the repository | `enqueue_apply`, `apply_run_job`, `apply_run` | `Session`, `ApplyWorker`, `AccountProofs` |
| Coder agent (`agents/coder.py`) | none | prompt, parse the reply | `Proposals`; the wording of the prompt is left out |
| Permissions (`permissions/`, `config/permissions.py`) | `permissions.yml` | load, `requires_approval`; Layer 1 and Layer 2 path checks | `PathChecks`, `Proposals`, `ProposalsProofs`; load and gate also in `RepoDir` |
| Scaffold (`config/scaffold.py`) | the `.idemra/` directory and its five files | `init` | `RepoDir`, `RepoDirProofs` |
| World model (`world_model/`) | `brain/snapshot.json`, `brain/symbols.json` | `build_world_model`, from `index` and from `run` | `RepoDir`, `RepoDirProofs`; the parsing of sources is left out |
| GitHub fetch (`github/fetch.py`) | none | `gh` calls, which jobs and log lines are kept | `Proposals`, `ProposalsProofs` |
| LLM router (`llm/router.py`) | none of its own | `complete` | not modelled: configuration of a third-party router |
| `config`, `status`, `log`, `replay` | none | reads | not actions: they change nothing. `replay`'s fold is `Events!Replay` |
| Migrations, scripts, git hook | none of the run's | DDL, seeding, a hook that writes a notes vault | not modelled |

### How the parts interact

* `run` keeps one transaction open from `create_run` to its last line. It ends
  in a request for approval, in the queue, or in a recorded failure. Until it
  commits nobody else sees the run.
* `approve` and `reject` read the approval, check that it is pending, and write
  run, approval and event. `approve` then queues the run in the same
  transaction and pushes the job to Redis **before** the commit.
* `sweep` selects every pending approval past its TTL once, then writes them
  one after the other in one transaction.
* A worker pops a job, reads the run, checks that it is queued, and writes the
  proposal file by file. The files are not part of its transaction. An exception
  it does not catch rolls the transaction back: the run stays queued, and only
  RQ's registry of failed jobs tells of it, from where an operator may requeue it.
* `init` creates `.idemra/` and fills it file by file; `index` and `run` write
  their artifacts below it and create it too if it is not there; users edit what
  is in it, and a worker may, for no default denies a proposal these paths.
  Nothing is locked.
* What serialises the sessions: the row lock an UPDATE takes until its transaction
  ends, and the unique `events.idempotency_key`. There is no `SELECT ... FOR
  UPDATE`, no version column, and no unique constraint on `(run_id, seq)`.

### What is hard here

| Behaviour | Where | What could go wrong |
|---|---|---|
| two deciders | `runs.py:124-140` | both read `pending`; the second must lose |
| a decider against a sweep | `runs.py:275-291` | the sweep's list is stale when it is written |
| two sweeps locking rows in opposite orders | `runs.py:281-291` | deadlock; a victim loses its work |
| `seq` read from the log and written later | `runs.py:83-104` | two events with one seq, or a hole |
| status column and event | `runs.py:175-180` | the cache and the log disagree |
| job visible before the commit | `cli/main.py:206`, `257` | the worker skips it for ever, or would apply what is rolled back |
| duplicate jobs | `jobs.py:53-56` | a run applied twice |
| an exception the job does not catch | `jobs.py:59`, `runs.py:262` | the run stays queued with its job gone |
| a worker that dies between two files | `runs.py:259-262` | a repository half-changed |
| two runs, one repository | `runs.py:259-262` | files of two proposals mixed |
| two inits, or an init and an index | `scaffold.py:68-75` | one truncates what the other wrote, or nobody writes the configuration |
| a file truncated and then written | `scaffold.py:75` | a run reads it empty |
| a proposal that names files of `.idemra/` | `runs.py:262` | a run undoes an edit of the configuration, or opens its own gate |
| two builds of one repository | `snapshot.py:146`, `symbols.py:97` | artifacts of two trees side by side, or torn |
| links and permissions that change between check, re-check and write | `main.py:167`, `runs.py:252` | a file is written where it must not be, or an accepted run is refused for nothing |
| a write that cannot succeed, after one that did | `runs.py:262`, `coder.py:77` | a repository half-changed with nobody at fault |
| a job that died half way and comes again | `jobs.py:58` | its own first attempt stands in its way |
| a log, or a list of failed jobs, at its limit | `fetch.py:53`, `84` | a line or a job that is dropped and not counted |
| an exception `run` does not catch | `cli/main.py:136-206` | the run's row is rolled back with it |

### What makes each component correct

* Event store: the log is append-only, its seqs are 1, 2, 3 ... with no hole, no
  idempotency key occurs twice, and the status is always the fold of the log.
* Approval gate: one decision per run; a decision and its queueing are seen
  together; the approval row says what the last event about it says.
* Fetch: what is dropped is counted, and nothing is that fits.
* Permissions: what is written was allowed, all of it, under the permissions of
  the job; the second check refuses only if something has changed.
* Worker: only a queued, authorised run is written; never two jobs of one run
  at once; what says `completed` has written its whole proposal.
* `.idemra/`: what an init reported stays whole but for a worker at work on it; no
  `init`, `index` or `run` undoes a user's edit; a run goes without approval only if
  a user or a run that was applied has made the configuration so, or while it is
  half written; and a build leaves nothing of the builds before it.
* All: no command hangs; what is overdue is settled; a job that is in the queue
  when its run is committed takes the run out of it, or is filed as failed.

## 2. The modules

```
Events ── RunLog                      (abstract log)
   └───── EventStore ── EventStoreProofs
             └── Session ── RunCommand ───┐
                   ├────── ApprovalGate ──┼── Idemra ── MCIdemra
                   └────── ApplyWorker ───┘      └── IdemraProofs ── RaceProofs
                                                        ┌───────────────┘
                                                   DraftProofs ── LifeProofs ── AccountProofs

        RunLife  (abstract life of a run, which Idemra implements)

PathChecks ── Proposals ── MCProposals      (what is proposed, checked, written)
                  └─────── ProposalsProofs

RepoDir ── MCRepoDir                        (the .idemra/ directory)
   └────── RepoDirProofs
```

**Events** has the data: statuses, event rows, `NextSeq` (`_next_seq`), `Replay`
(`replay_run`), and `Sequenced`, what a reader of a log relies on. A log is a
*set* of rows with a `seq` column, as the table is: nothing in the model makes
seqs unique or orders them by construction.

**RunLog** is the abstract specification: a status and a log for each run, and
one action that publishes a longer log whose fold is the new status. It knows no
transaction, no lock and no cached column.

**RunLife** is the second abstract specification: what a reader who sees only the
committed status and the milestones of a run (asked, decided, expired, queued,
completed, failed, each passed once) may see follow what. It knows no process,
no session and no job. Where a race of the code shows through (an expiry after
the decision, a run that ends twice, each way once) the step says so. All of its
steps are taken: with any of its guards made stricter, TLC finds `Idemra` to take
a step that `RunLife` has not.

**EventStore** is the database as the program uses it, at Postgres' default
isolation level, READ COMMITTED. `runs`, `approvals` and `events` are what is
committed; `dirtyRuns[p]`, `dirtyApprovals[p]` and `dirtyEvents[p]` are what the
open transaction of process `p` has written. A process sees the committed rows
and its own (`SeenLog`). Who has written a row holds its lock until its
transaction ends (`RunRowFree`, `ApprovalRowFree` are the guards of the next
writer). `Commit` overwrites whatever has been committed since the row was read:
nothing in the code re-checks. One step of the model is one flush: SQLAlchemy
issues the `UPDATE runs` (which may wait for the lock), the `SELECT` of
`_next_seq` and the `INSERT` in that order, and no other process can write
events of a run whose row is locked. That the model may join these three is the
reason `WriteStatusEvent` has the row's freedom as its guard; the faulty variant
`WriteStatusEventUnlocked` shows what the log would look like without it. The
module ends with *generic clients* (`StoreNext`): any number of processes that
write a run's events only while they hold its row and create runs under fresh
ids. The theorems are about these clients.

**Session** is `session_scope`: begin, commit on return or `typer.Exit`, roll
back on any other exception; the Redis list, outside the transaction; and
`Fault`, a crash or a lost connection at any point of a session.
`pc[p]` is the line a process is at, `target[p]` the run it works on.

**RunCommand**, **ApprovalGate** and **ApplyWorker** have one action for each
step of their commands, named after the function it calls (`RecordDecision`,
`MarkStale`, `StartApply`, ...). An `IntegrityError` is an action of its own
(`ConflictingDecision`, `ConflictingSweep`, `ConflictingJob`), enabled when the
insert would clash. `ApprovalGate` also has Postgres' deadlock detector: a
sweep on a cycle of `WaitsFor` may be aborted (`BreakDeadlock`). Only sweeps can be
on one. A flush writes approvals before runs (without a `relationship()` SQLAlchemy
orders its mappers by name), so a decision takes its two rows in the order in which
a sweep takes them, and holds no other.

In `RunCommand` and `ApplyWorker` an exception that nobody catches is not a fault:
`UncaughtError` and `UncaughtJobError` need no crash and have no bound. The second
may come at any line of the job from the second load of the permissions to the last
write: the session is rolled back, what is written stays, the run stays queued, the
job is gone. `filed[r]` counts the jobs of `r` in RQ's FailedJobRegistry, where such
jobs, jobs of killed workers, those that lost a race (`ConflictingJob`) and those that
found no run are; `RequeueJob` is the operator's `rq requeue`. `since[f][r]` is an
auxiliary variable, read by no guard: the runs that have written `f` since the last
apply of `r` wrote it, `r` included, and nobody if it has not. It is what gives
`CompletedMeansWritten` its order.

**RepoDir** is the `.idemra/` directory: `init`, the world-model step of `index`
and `run`, the loading of `permissions.yml`, the worker, users who edit the
configuration, and a killed command at any line. `write_text` is two steps, open
(which truncates) and flush. A text is one of those the code tells apart: the
default, one that asks for approval, one that does not, one that does not load; and
whether a user or a run that was applied wrote it. An empty file is `Truncated`. A
worker, once it has loaded the permissions, may write any scaffolded file
(`OpenApplied`, `FlushApplied`; `at[w]` is the one it is at) and both artifacts
(`OverwriteArtifacts`), as often as the jobs it takes propose so. An init and a
worker that meet in a file leave a text of either meaning. A user changes a file
that has a text and that no init is still to write. Of the sources only this
matters: an artifact is of the pass of one builder, so a builder's name stands for
what its pass found, whatever the sources were. RepoDir is a system of its own: it
shares with the others only the outcome of two steps of `RunCommand`. Two builders
who have both truncated a file each write it from its start, so the second may leave
a mixture (`Overlay`, `Torn`). `lone` is an auxiliary variable, the last builder as
long as no other is at work beside it and no worker has written to the artifacts; no
action reads it.

**PathChecks** says where a proposed path leads and whether it may be written. A
path is the sequence of its components; `Resolve` follows symlinks and then `..`
from left to right, as `Path.resolve` does; `Match` compares a pattern from the
right with the path as it is written, as `PurePath.match` does, a component of a
glob being the set of the names it matches. `Violations` is `validate_proposal`.

**Proposals** follows the data of a run that the modules above leave to choice:
the failed jobs and the ends of their logs that become its task; the reply of the
model, all of whose entries or none become a proposal; the check of its paths in
`run`, under permissions loaded before the model was asked; the second load and
check in the job; and the writes, one by one, each into a tree in which a parent
may be a file, a target a directory and a content not text. Users move symlinks
and edit `permissions.yml` at any moment; a run may write `permissions.yml`
itself (the default configuration denies no path); a job may be killed at any
line and put back. A file that is missing or fails validation ends a run as failed;
one that is not YAML, or not a mapping (`Unreadable`), is an exception nobody
catches: it loses the run (`LoseRun`) or the job (`LoseJob`). `calm[r]` is auxiliary, the checks of a run since which
nobody has changed a link or `permissions.yml`; no guard reads it. Sessions,
approvals and the queue are not repeated here: a run that passed is "queued",
and one job of it is at work at a time (what `NeverDoubleApplied` gives).

**Idemra** composes them, and states the properties. **MCIdemra** instantiates
it. Definitions marked *Faulty variant* belong to no specification: each is the
definition below it with a plausible bug, used to show that a property can fail.

What the actions leave out on purpose:

* Reads that end a command with nothing written (no such run, no approval,
  already decided) are stutters.
* `approve`'s retry path, `run.status == "approved"` on a decided approval, is
  not an action: an approved run is only ever visible queued or later
  (this is `CommandsAreAtomic`), so the path has no state to start from.
* `NoProposalFound` cannot be raised on a run that is queued: `run` records the
  proposal before it gates (same session).
* A run has at most one approval (`request_approval` is called once, by `run`),
  so an approval is identified by its run.
* What GitHub, the model, the YAML files and the file system answer is a choice
  made at the step that asks; where each answer leads is the code's.
* The order in which Postgres serves waiters for a row lock. Any waiter may be
  next.

## 3. The runs

| Run | Instance | What it shows |
|---|---|---|
| `core` | 1 run, 1 `run`, 2 approvers, 1 rejecter, 2 sweeps, 2 workers, 1 fault, 2 files | every safety property, the refinement, and that all commands are clients of the proved store |
| `two_runs` | 2 runs with overlapping proposals, 1 approver, 2 sweeps, 2 workers | what needs two runs: sweeps that hold several rows, workers that write the same file |
| `liveness` | 1 run, 1 approver, 2 sweeps, 2 workers, 1 fault | commands end, overdue approvals are settled, no queued job is lost in silence |
| `sweep_liveness` | 2 runs, 1 approver, 2 sweeps | lock cycles end |
| `reclassified` | 1 approver, 1 sweep | **violated**: a decided approval becomes `expired` |
| `lost_job` | 1 approver, 1 worker, no fault | **violated**: a queued run stays queued and no job of it is filed as failed |
| `half_applied` | 1 run, no kill, no user | **violated**: one file of two is written |
| `lost_run` | 1 `run`, no fault | **violated**: a created run has no row |
| `terminal_reprocessed` | 2 jobs of one run, 2 workers | **violated**: a terminal status changes |
| `repo_dir` | 2 inits, 1 `index`, 1 `run`, 1 worker, 2 scaffolded files, 1 kill | every safety property of the directory |
| `index_first` | 1 `index`, 1 init, no kill | **violated**: an init ends and there is no `permissions.yml` |
| `proposals` | 2 runs, 9 replies, 3 layouts of a symlink, 2 denylists, 1 change by a user, 1 kill; at most 1 job and 2 log lines kept | the fetch at its limits, the two checks against changes, the writes against kills and each other |

`repo_dir` and `index_first` use `MCRepoDir`, `proposals` and `half_applied`
`MCProposals`, the others `MCIdemra`. `CHECK_DEADLOCK FALSE` is there because the
system may stop: ids run out (`Runs` is the bound on how often `idemra run` is
called) and then nobody has to do anything. In `MCRepoDir` and
`MCProposals` each command runs once.

### Safety properties

* `TypeOK`, the only type invariant, with the stages each role can be at.
* `StoreInv`, the inductive invariant of the store (section 5), on the real
  commands; `RefinesRunLog`, the abstract log as a property of them.
* `LockDiscipline`: at each stage a process holds the rows its next writes
  rely on, and no process that is idle or has only read holds any.
* `ImplementsStore`: every step of every command is a step of the generic
  clients, so the theorems about these hold of the commands.
* `OneDecision`, `ApprovalMatchesLog`, `CommandsAreAtomic`: the gate.
* `WritesAreAuthorised`, `NeverDoubleApplied`, `CompletedMeansWritten`: the worker.
  The last says that each file of a completed run holds what the job that completed
  it wrote there, or what a run that proposes the file wrote there after that: not
  what an earlier run, or an earlier job of the run itself, had left.
* `RefinesRunLife`: every commit moves each run by one step of `RunLife`. A
  rejected, failed or completed run is never queued or asked about again, nothing
  is decided or ended twice the same way, nothing is applied that was not queued.
* `EndedForGood`, `DecisionYieldsToSweepOnly`: what holds of a run's end and of a
  decision although neither is as final as the repository says (the violations 1
  and 5 below): a run that has ended never runs or queues again, what was
  rejected is never queued, and nothing but a sweep's expiry overwrites a decision.
* `TaskAccountsForLogs`: a log's lines and a check's failed jobs are kept or
  counted as dropped, and the limits are reached before anything is dropped.
* `WritesAreAllowed`, `UndisturbedNotRefused`: a race with a user is decided for
  the permissions the *job* loaded, never for those `run` did; without a race
  both checks agree. What the code does not promise is not claimed: after a link
  has moved under a job at work, only the names of what it writes are known good.
* `CompletedIsOnDisk`: also of a job that was killed half way and came again.
* `UserTextSurvives`, `InitializedIsComplete`: several inits may pass the
  existence check together; only the failing `mkdir` of all but one protects what
  is written, and edited, before the others get there. Both leave out one command
  and name it: the worker, at the file it is writing.
* `GateOpensByChoice`: a run goes without approval only if a user, or a run that
  was applied, has made `permissions.yml` so, or if it reads the file while an init
  or a worker is between its truncation and its text, or was killed there. An empty
  file asks for nothing, so the second case is a real one, and the test of the
  defaults does not meet it. That a run may itself open the gate of the next is what
  the code does: neither Layer 1 nor the default `denied_paths` forbids the path.
* `RebuildIsClean`: a build no other build, and no worker's write to the artifacts,
  is beside leaves both artifacts of its own pass over the sources, whatever killed
  or overlapping builds, or a worker, left.

### The bounds, and why they are enough

`Runs`: the runs of Idemra share nothing but the repository, the queue and the
transactions of a sweep, so one run with every role doubled has all races about
a run, and two have all races between runs. `MaxFaults`, the number of crashes and
lost connections, is 1: a fault ends a session, and two jobs of one run plus a sweep
are the most any property here tells apart. A second job of one run is what a first
approver makes that enqueued and did not commit. Exceptions nobody catches and
requeued jobs have no bound: a job leaves the queue before it can come back, so
there are finitely many states all the same. The roles are doubled where two
of one kind race (deciders, sweeps, workers); a second `run` process would only
create a second run, which one process does too. Two files with an overlap are
enough to see a partial write and an interleaved one. The symmetry of equal
roles is used in the safety runs only.

In `proposals` each limit can be met exactly and exceeded by one. The replies have
a path through a link, one that goes up and comes down again, one that leads out,
an absolute one, one Layer 1 denies, one Layer 2 denies under one of the two
configurations, a directory where a file should be, a file where a directory
should be, `permissions.yml` itself, and the two types of wrong type; a longer
proposal has no case these pairs have not. One change by a user (`MaxChanges`) is
enough to fall between any two steps of either run, and the runs make more of
them; one kill leaves one job half done.

### Fairness

`FairSpec` assumes what the scheduling gives:

* a command that has begun goes on, and who waits for a row gets it in the end
  (strong fairness of `Continue`, as Postgres queues the waiters of a lock);
* a lock cycle is broken (`BreakDeadlock`, after `deadlock_timeout`);
* a worker is running and takes jobs (`TakeJob`; `idemra worker` blocks for ever),
  and cron runs `idemra sweep` (`SelectOverdue`).

The last two are weak. Nobody has to start a run, to decide one or to requeue a job,
and no fault has to happen. `QueuedJobSettles` assumes neither that faults end nor
that jobs meet no exception: a job that is in the queue with its run takes the run
out of it, or is filed as failed, which is all the program leaves of a job that died.
`OverdueSettled` is checked with one run: with two runs and two sweeps the model,
which serves waiters in any order, lets the sweeps be each other's victims for ever,
which the FIFO lock queue of Postgres would not.

### What the violations say

The violation runs each check a sentence of the repository against the
code; `PROJECT.json` quotes the sentence. In short:

1. `DecidedNeverReclassified`. The docstring of `expire_stale_approvals` says a
   decided approval is never reclassified. The sweep selects, an approver
   decides and commits, the sweep writes its stale list: the unique keys of a
   decision and an expiry differ, so nothing stops it. Nothing else does so
   (`DecisionYieldsToSweepOnly`).
2. `QueuedRunsSettle`. The job is in Redis before the run is committed; a quick
   worker sees the old status, returns, and the job is consumed as a success, so that
   no registry has it. `approve` again answers that there is nothing more to queue.
3. `AllOrNothing`. All places are checked before the first write, but not
   whether each can be written. A directory in the place of the second file, or a
   content that is not text, stops the job after the first.
4. `EveryRunAuditable`. An exception other than those `run` catches rolls back
   the row the command created.
5. `TerminalIsFinal`. The status guard of `apply_run_job` is read without a
   lock. Of two jobs that both passed it one may fail the run and the other
   complete it, as the two keys differ. It ends all the same (`EndedForGood`).
6. `InitGivesPermissions`. `index` makes `.idemra/`; `init` then finds it and
   writes nothing, although runs ask for "`idemra init` first".

What TLC does *not* find is as telling: no interleaving of these makes the
log and the status disagree, applies a run twice, or writes one that nobody
queued.

## 4. Mutants

Each property of a passing run has a mutant: a *Faulty variant* that replaces
one mapped definition and makes TLC find the property violated under the same
configuration. They are bugs one could write: `_next_seq` that forgets the
`or 0`, an event inserted without its unique key, a status written without the
row lock, a session closed without a rollback, a decision that forgets the approval
row, a `mkdir(exist_ok=True)`, a worker with no status guard or with `approve`'s, a
completion recorded before the last file, a job that keeps the permissions of `run`,
a `run` that checks Layer 1 only or takes a missing `permissions.yml` for an empty
one, an `index` that goes on as a run does, a limit that is off by one, a worker that
leaves the files it finds.

## 5. What is proved

TLAPS proves the following for every number of runs, processes, files, faults
and commands. The assumptions are those the modules declare, and no more: roles
are processes and do not overlap (`RunnerAssumption`, `GateAssumption`,
`WorkerAssumption`, `RolesAssumption`), sentinels are not ids
(`FaultAssumption`, `SentinelAssumption`), a proposal is a sequence of files, the
scaffolded files have different names (`ScaffoldAssumption`), commands are of
one kind (`CommandAssumption`), a reply is a sequence (`ReplyAssumption`), the
limits are positive (`LimitAssumption`), and a run is neither a directory nor what
was in the repository before, which is all there is at first
(`ContentAssumption`, `RepositoryAssumption`).

| Theorem | Says |
|---|---|
| `StoreInvariant`, `CacheIsFold`, `StoreImplementsRunLog` (`EventStoreProofs`) | any clients that respect the row locks keep the log sound, the cache equal to its fold, and implement `RunLog` |
| `TypeCorrect`, `LocksAreDisciplined` (`IdemraProofs`) | the composed system is type correct, and at every stage its processes hold the locks they rely on |
| `CommandsAreClients` (`IdemraProofs`) | every step of every command, fault and deadlock is a step of such clients |
| `SystemCacheIsFold`, `SystemImplementsRunLog` (`IdemraProofs`) | hence the same of the whole system |
| `AtMostOneDecision` (`RaceProofs`) | at most one decision about a run is ever committed |
| `NoDoubleApply` (`RaceProofs`) | no two workers write one run's files, and none writes a run recorded as applied |
| `SystemImplementsRunLife` (`LifeProofs`) | every commit moves every run by one step of `RunLife` |
| `EndsStand`, `DecisionsStand` (`LifeProofs`) | a run that has ended never runs or queues again, what was rejected is never queued, and only a sweep overwrites a decision |
| `ApprovalIsLogged` (`AccountProofs`) | the approval row tells what the last event about it did |
| `CommandsAtomic` (`AccountProofs`) | an approval is committed with its queueing, the start of an apply with its files and its completion |
| `WritesAuthorised` (`AccountProofs`) | no file shows what the log does not allow |
| `CompletedIsWritten` (`AccountProofs`) | a file of a completed run holds what the job that completed it wrote, or what another run wrote after that |
| `InitNeverOverwrites` (`RepoDirProofs`) | for any number of inits, builds, runs and workers, an edit is undone by none but a worker that applies a run to the file |
| `InitializedStaysComplete` (`RepoDirProofs`) | a file that is not whole after an init has reported is one a worker is at |
| `LoneBuildIsClean` (`RepoDirProofs`) | a build that no other, and no worker's write to the artifacts, is beside leaves both artifacts of its own pass, whatever went before |
| `TypesKept`, `NoGateUnchosen` (`RepoDirProofs`) | types; a run goes without approval only if a user or an applied run chose so, or an init or a worker has truncated the file and not written it |
| `WritesStayAllowed` (`ProposalsProofs`) | no denied name is written, and while nothing has changed since the job loaded the permissions, nothing unchecked and nothing out of the repository |
| `ChecksAgree` (`ProposalsProofs`) | the job refuses what `run` accepted only if a link or `permissions.yml` has changed |
| `TypesKept` (`ProposalsProofs`) | types; who was let through has permissions, and paths that are text |
| `CompletedStays` (`ProposalsProofs`) | what a completed run has written is on disk, whatever others write and however often its job died |
| `TaskAccounts` (`ProposalsProofs`) | a task has an end of each log up to the limits and counts the rest, for logs and check runs of any length |

The argument, in the order of the modules:

1. *The store.* "Status is the fold of the log" is not inductive. A commit
   publishes a set of events computed from what the transaction saw, so one has
   to know that nobody else has committed events of that run since. `StoreInv`
   therefore says: a row has one owner (`OneOwner`); who has uncommitted
   events of a run owns its row (`WritersOwn`); the committed log, and the log each transaction
   sees, are sound (seqs 1, 2, 3 ..., keys unique, a greatest event); the status
   a transaction will commit is the fold of the log it sees.
2. *The system.* `SysInv` adds `TypeOK`, `LockDiscipline` and that only finitely
   many ids were issued (so there is always a log with a greatest event to append
   to, and a fresh id is fresh). `NextImplements` shows that under it every
   action is a `StoreNext` step or leaves the store alone, so the store's
   theorems carry over by substitution; the other conjuncts are shown role by
   role, as a process changes nobody's stage but its own.
3. *Decisions.* Every event has one of the twelve forms of `Forms` (type, status
   and key). All decisions share one key, and keys are unique in a sound log.
4. *Applying.* A worker that is writing has an uncommitted `apply-start` event
   (`ApplyRecorded`), which makes it the owner of the run. Two writers would be
   two owners; a recorded application has committed the key the writer has
   inserted.
5. *Drafts.* The *turns* of a log are the statuses its events carry from
   `awaiting_approval` on. `Drafts` says, stage by stage, which status, approval
   and turns an open session has written of each run (nothing, of every run but
   its own; of the runs a sweep has passed, an expiry). It is inductive together
   with the types and locks of `SysInv`.
6. *A life.* `LifeInv` adds what a session counts on until it commits (`Bases`:
   what `run` creates is not there, what is decided or expired has been asked
   about, what is applied has been queued) and what the turns of a run say of its
   rows and of each other (`Histories`). With drafts and bases a commit has one of
   eight outcomes for a run (`Settles`), and each is a step of `RunLife`. That
   keys are unique does the rest: what a commit adds is new to the log. `EndsStand`
   and `DecisionsStand` follow by what each outcome finds and leaves.
7. *The row.* A session that has turned an approval once has the last word on it:
   its events come after all it saw, and it owns the run, so after all there are.
   `ApprovalMatchesLog` is then inductive commit by commit; the order in which
   sweeps and deciders lock the two rows plays no part.
8. *The files.* `FilesOK`: a file that is not as it was holds the content of a run
   that proposes it and has been queued (`FilesOwned`, as a worker reads the status
   before it writes and statuses do not go back to unasked). For the order,
   `Applied(r)` says of every file of `r` that what it holds was written since the
   last apply of `r`. A worker's own step to its files starts `since` over for its run
   only, and it owns that run; so the files before its cursor have it (`Progress`),
   and all of them once it goes on to complete the run, whoever writes beside it
   (`FilesKept`). Only such a worker has a completion to commit
   (`CompletionsAtCommit`), and a run that is completed starts no apply again
   (`Restarts`, `RestartsInTime`): the key of its start is taken.
9. *The commands.* `Chains`: in what is committed and in what a session has written,
   each event is followed by the one that has to follow it (an approval by the
   queueing, a start by the files and these by the completion), except the last of
   a session that still owes it (`Owed`). A session that commits owes nothing.
10. *The directory.* `DirInv`: of all inits at most one has made the directory.
   What it has passed is whole, that is, it has a text or a worker is at it
   (`Filled`); what it has not is no user's text, as users leave alone what is still
   to be written, and before the directory is there nothing is
   (`NothingWithoutDir`). So what it opens and flushes is never a user's. A worker is
   at one file at a time (`AtOneFile`), and the file it is at is what the theorems
   except.
11. *The artifacts.* `PairInv`: while a builder is alone no other is in its build
   and no worker has written to the artifacts, so at each of its stages both files
   are as it has left them, truncated or written; over an empty file there is no
   mixture.
12. *The checks.* `CheckInv`: as long as a run is calm, what it loaded is what is
   there (`LoadedIsCurrent`) and what was accepted still passes
   (`AcceptedPasses`); and whatever changes, the names of what is being written
   passed under the permissions the job has (`NamesPass`). How a path resolves
   plays no part, so the theorems hold of any file system whose answer depends on
   the links alone. That it does, `PathChecks` says; TLC evaluates it.
13. *The gate of the directory.* `TruncatedByInit`: a scaffolded file is empty only
    while an init or a worker is between the two halves of its write, or was killed
    there.
14. *The written.* `WrittenInv`: of a calm run at work all files up to its cursor
    are on disk. A step never removes a file a run wrote nor makes it a directory
    (`FilesStay`): `mkdir` stops at a file.
15. *The task.* `FetchInv`: the sections are those of the first jobs, in order, each
    truncated, and what is past the limit has been counted. `TruncateAccounts` is
    the lemma about `_truncate` itself, for a log of any length.

The inductive invariants were evaluated by TLC on the instances of section 3
before they were proved.

## 6. What is only model-checked

* The liveness properties. They need fairness and `ENABLED`, which are out of
  the prover's reach.
* What `Resolve` computes, a fold over the components of a path: that needs
  induction over data. The theorems hold whatever it computes. `FailedJobs` is a
  recursive selection too; the theorems use of it that it has a length.
* That the properties of the violation runs fail.

## 7. What is not modelled, and why

* The characters of paths and globs: a component of a pattern is the set of names
  it matches. A pattern that is itself absolute, and an empty one.
* Sessions and approvals are not composed with `Proposals`: the two systems share
  the outcome of three steps, which each leaves to the other as a choice, and
  together would exceed what TLC can explore.
* The coder agent's prompt, the LLM router (a retry and a timeout inside a
  third-party library; whatever it raises is `UncaughtError`), the tree-sitter
  walk (a pure filter over a syntax tree of another library): no state.
* Users who make a configuration file themselves, delete one, or edit one that an
  init at work has not come to. There is nothing of it to edit until then, unless a
  worker has just written it; the init would overwrite such an edit as it overwrites
  the worker's text. `UserTextSurvives` is claimed of all other edits.
* The text of a task: what routing refuses is a choice in `RunCommand`.
* `dead_letters` (no code writes it), `config`, `status`, `log` (reads).
* Migrations, seed and smoke-test scripts, the post-commit hook.
* What a reader would make of the two artifacts after builds that overlapped:
  nothing reads them back yet. `RebuildIsClean` says the next build repairs them.
* Directories: `mkdir` may leave empty ones behind a write that fails. `tree` has
  them, no property speaks of them. `write_text` of a proposed file is one step
  (in `RepoDir` it is two): a reader of a source half written is a user's editor.
* Postgres beyond READ COMMITTED row locks, the unique index and the deadlock
  detector; in particular the order in which it serves waiters.

## 8. Plan

Every invariant and every action property of the passing runs is a theorem; the
liveness properties are not (section 6). What is left:

1. The consequences of the abstract specifications on their own: `RunLife` and
   `RunLog` as theorems about the specifications, for a reader who does not want
   the system.
2. Residual guarantees beside the other violated claims, as `EndedForGood` and
   `DecisionYieldsToSweepOnly` are: which runs an early job or an uncaught
   exception can leave behind, and which not.
3. A shared abstraction of `Proposals` and `ApplyWorker`, so that the choice the one
   leaves to the other is a theorem and not a reading of the code.
