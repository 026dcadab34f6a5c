------------------------------ MODULE RepoDir -------------------------------
(***************************************************************************)
(* The .idemra/ directory of a target repository, shared with nothing but  *)
(* the file system between `idemra init' (config/scaffold.py), `idemra     *)
(* index' and the world-model step of `idemra run' (world_model/), the     *)
(* worker, which may apply a proposal to this directory as to any other    *)
(* (apply_run), and the people who edit the configuration and the sources. *)
(*                                                                         *)
(* write_text opens the file, which creates or truncates it, and writes it *)
(* on closing: two steps.  A builder's name stands for what it has found   *)
(* in the sources, which others edit, and its two artifacts tell.          *)
(***************************************************************************)
EXTENDS Naturals, Sequences

CONSTANTS Scaffold,    \* names of SCAFFOLD_FILES, in order
          Permissions, \* the name of permissions.yml
          Inits,       \* `idemra init' commands
          Indexers,    \* `idemra index' commands
          Runs,        \* `idemra run' commands
          Workers,     \* `idemra worker' processes
          NoFile, Truncated, Torn, NoOne,
          MaxKills     \* bound on the number of killed commands

ConfigFiles == {Scaffold[k] : k \in 1..Len(Scaffold)}
Builders == Indexers \cup Runs
Commands == Inits \cup Builders \cup Workers

\* What two writers who both truncated a file leave of it: each writes from the
\* start, so unless they write the same, the second over the first may leave what
\* is neither text.
Overlay(old, new) == IF old \in {Truncated, new} THEN {new} ELSE {new, Torn}

\* What a user may make of a file: still asking for approval, or not, or not
\* what load_permissions accepts; and the same of what a run has proposed.
UserTexts == {"gated", "open", "invalid"}
AppliedTexts == {"applied gated", "applied open", "applied invalid"}
Texts == UserTexts \cup AppliedTexts \cup {"default"}
Unusable == {"invalid", "applied invalid"}

\* Nobody reads the files other than permissions.yml: one text stands for all.
Matters(f, text) == f = Permissions \/ text \in {"gated", "applied gated"}

ASSUME ScaffoldAssumption ==
  /\ Scaffold \in Seq(ConfigFiles)
  /\ \A j, k \in 1..Len(Scaffold) : Scaffold[j] = Scaffold[k] => j = k
  /\ Permissions \in ConfigFiles
ASSUME SentinelAssumption ==
  /\ NoFile # Truncated /\ Torn \notin {NoFile, Truncated}
  /\ NoFile \notin Texts \cup ConfigFiles /\ Truncated \notin Texts
ASSUME CommandAssumption ==
  /\ Inits \cap Builders = {} /\ Indexers \cap Runs = {}
  /\ Workers \cap (Inits \cup Builders) = {}
  /\ Builders \cap {NoFile, Truncated, Torn, NoOne} = {} /\ MaxKills \in Nat

VARIABLES dir,      \* .idemra/ exists
          config,   \* the scaffolded files
          snapshot, \* brain/snapshot.json
          symbols,  \* brain/symbols.json
          pc,       \* where each command is
          next,     \* index of the scaffold file an init is at
          asks,     \* whether permissions.yml, as a run has read it, asks for approval
          at,       \* the scaffolded file a worker has truncated and not yet written
          lone,     \* auxiliary: the last builder, if no other is at work beside it
                    \* and no worker has written to the artifacts
          kills     \* killed commands so far

files == <<dir, config, snapshot, symbols>>
vars == <<dir, config, snapshot, symbols, pc, next, asks, at, lone, kills>>

InitStages == {"check", "mkdir", "open", "flush", "initialized", "untouched"}
Writing == {"open snapshot", "flush snapshot", "open symbols", "flush symbols"}
BuildStages == {"load", "snapshot", "symbols", "built", "gate", "awaiting", "queued"} \cup Writing
JobStages == {"reload", "apply", "flush applied"}
Ended == {"initialized", "untouched", "built", "awaiting", "queued", "failed", "killed"}

Building(b) == pc[b] \in Writing \cup {"symbols"}
Go(p, stage) == pc' = [pc EXCEPT ![p] = stage]

Init ==
  /\ dir = FALSE
  /\ config = [f \in ConfigFiles |-> NoFile]
  /\ snapshot = NoFile /\ symbols = NoFile
  /\ pc = [p \in Commands |-> CASE p \in Inits -> "check"
                                [] p \in Runs -> "load"
                                [] p \in Workers -> "reload"
                                [] OTHER -> "snapshot"]
  /\ next = [i \in Inits |-> 1]
  /\ asks = [r \in Runs |-> FALSE]
  /\ at = [w \in Workers |-> NoFile]
  /\ lone = NoOne
  /\ kills = 0

-----------------------------------------------------------------------------
(* idemra init *)

CheckDir(i) ==
  /\ pc[i] = "check"
  /\ Go(i, IF dir THEN "untouched" ELSE "mkdir")
  /\ UNCHANGED <<files, next, asks, at, lone, kills>>

\* Faulty variant: mkdir(parents=True, exist_ok=True).
MakeDirAnyway(i) ==
  /\ pc[i] = "mkdir"
  /\ dir' = TRUE
  /\ Go(i, "open")
  /\ UNCHANGED <<config, snapshot, symbols, next, asks, at, lone, kills>>

\* mkdir raises FileExistsError if somebody was first.
MakeDir(i) ==
  /\ pc[i] = "mkdir"
  /\ dir' = TRUE
  /\ Go(i, IF dir THEN "failed" ELSE "open")
  /\ UNCHANGED <<config, snapshot, symbols, next, asks, at, lone, kills>>

OpenConfig(i) ==
  /\ pc[i] = "open"
  /\ config' = [config EXCEPT ![Scaffold[next[i]]] = Truncated]
  /\ Go(i, "flush")
  /\ UNCHANGED <<dir, snapshot, symbols, next, asks, at, lone, kills>>

\* Faulty variant: the loop over SCAFFOLD_FILES stops one short.
FlushConfigButLast(i) ==
  /\ pc[i] = "flush"
  /\ config' = [config EXCEPT ![Scaffold[next[i]]] = "default"]
  /\ next' = [next EXCEPT ![i] = @ + 1]
  /\ Go(i, IF next[i] + 1 >= Len(Scaffold) THEN "initialized" ELSE "open")
  /\ UNCHANGED <<dir, snapshot, symbols, asks, at, lone, kills>>

\* Over what a worker has written to the file in between: a mixture, of any meaning.
FlushConfig(i) ==
  /\ pc[i] = "flush"
  /\ \E text \in {"default"} \cup AppliedTexts :
       /\ text # "default" => /\ config[Scaffold[next[i]]] \in AppliedTexts
                              /\ Matters(Scaffold[next[i]], text)
       /\ config' = [config EXCEPT ![Scaffold[next[i]]] = text]
  /\ next' = [next EXCEPT ![i] = @ + 1]
  /\ Go(i, IF next[i] = Len(Scaffold) THEN "initialized" ELSE "open")
  /\ UNCHANGED <<dir, snapshot, symbols, asks, at, lone, kills>>

InitStep(i) == CheckDir(i) \/ MakeDir(i) \/ OpenConfig(i) \/ FlushConfig(i)

-----------------------------------------------------------------------------
(* The world model, for `idemra index' and for `idemra run'. *)

\* A git command that fails: NotAGitRepo, which both callers end with.
FailGit(b) ==
  /\ pc[b] = "snapshot"
  /\ Go(b, "failed")
  /\ UNCHANGED <<files, next, asks, at, lone, kills>>

\* git ls-files, and a first reading of each file that is there.
BuildSnapshot(b) ==
  /\ pc[b] = "snapshot"
  /\ lone' = IF \E c \in Builders : Building(c) THEN NoOne ELSE b
  /\ Go(b, "symbols")
  /\ UNCHANGED <<files, next, asks, at, kills>>

\* build_symbol_index reads the files of the snapshot again; one that somebody has
\* deleted since raises FileNotFoundError, which nobody catches.
BuildSymbolIndex(b) ==
  /\ pc[b] = "symbols"
  /\ \E stage \in {"open snapshot", "failed"} : Go(b, stage)
  /\ UNCHANGED <<files, next, asks, at, lone, kills>>

\* mkdir(parents=True, exist_ok=True) makes .idemra/ too if it is not there.
OpenSnapshot(b) ==
  /\ pc[b] = "open snapshot"
  /\ dir' = TRUE
  /\ snapshot' = Truncated
  /\ Go(b, "flush snapshot")
  /\ UNCHANGED <<config, symbols, next, asks, at, lone, kills>>

FlushSnapshot(b) ==
  /\ pc[b] = "flush snapshot"
  /\ snapshot' \in Overlay(snapshot, b)
  /\ Go(b, "open symbols")
  /\ UNCHANGED <<dir, config, symbols, next, asks, at, lone, kills>>

\* Faulty variant: a symbol index that is there is kept.
OpenSymbolsOnce(b) ==
  /\ pc[b] = "open symbols"
  /\ dir' = TRUE
  /\ IF symbols = NoFile
       THEN symbols' = Truncated /\ Go(b, "flush symbols")
       ELSE UNCHANGED symbols /\ Go(b, IF b \in Runs THEN "gate" ELSE "built")
  /\ UNCHANGED <<config, snapshot, next, asks, at, lone, kills>>

OpenSymbols(b) ==
  /\ pc[b] = "open symbols"
  /\ dir' = TRUE
  /\ symbols' = Truncated
  /\ Go(b, "flush symbols")
  /\ UNCHANGED <<config, snapshot, next, asks, at, lone, kills>>

\* Faulty variant: an index goes on as a run does.
FlushSymbolsAsRun(b) ==
  /\ pc[b] = "flush symbols"
  /\ symbols' \in Overlay(symbols, b)
  /\ Go(b, "gate")
  /\ UNCHANGED <<dir, config, snapshot, next, asks, at, lone, kills>>

FlushSymbols(b) ==
  /\ pc[b] = "flush symbols"
  /\ symbols' \in Overlay(symbols, b)
  /\ Go(b, IF b \in Runs THEN "gate" ELSE "built")
  /\ UNCHANGED <<dir, config, snapshot, next, asks, at, lone, kills>>

BuildStep(b) ==
  \/ FailGit(b) \/ BuildSnapshot(b) \/ BuildSymbolIndex(b)
  \/ OpenSnapshot(b) \/ FlushSnapshot(b) \/ OpenSymbols(b) \/ FlushSymbols(b)

-----------------------------------------------------------------------------
(* What `idemra run' does with permissions.yml. *)

\* An empty file is an empty mapping, and an empty mapping asks for nothing.
NeedsApproval(text) == text \in {"default", "gated", "applied gated"}

\* Faulty variant: a missing file is taken for an empty one.
LoadPermissionsIfAny(r) ==
  /\ pc[r] = "load"
  /\ asks' = [asks EXCEPT ![r] = NeedsApproval(config[Permissions])]
  /\ Go(r, IF config[Permissions] \in Unusable THEN "failed" ELSE "snapshot")
  /\ UNCHANGED <<files, next, at, lone, kills>>

\* load_permissions: PermissionsNotFound, InvalidPermissionsConfig (or an exception
\* nobody catches, for what is not YAML or not a mapping), or a config.
LoadPermissions(r) ==
  /\ pc[r] = "load"
  /\ asks' = [asks EXCEPT ![r] = NeedsApproval(config[Permissions])]
  /\ Go(r, IF config[Permissions] \in {NoFile} \cup Unusable THEN "failed" ELSE "snapshot")
  /\ UNCHANGED <<files, next, at, lone, kills>>

Gate(r) ==
  /\ pc[r] = "gate"
  /\ Go(r, IF asks[r] THEN "awaiting" ELSE "queued")
  /\ UNCHANGED <<files, next, asks, at, lone, kills>>

RunStep(r) == LoadPermissions(r) \/ Gate(r)

-----------------------------------------------------------------------------
(* The worker, at jobs whose proposals name files of this directory: neither *)
(* Layer 1 nor the default denied_paths forbids them.                        *)

\* load_permissions; the job goes no further without.
ReloadPermissions(w) ==
  /\ pc[w] = "reload"
  /\ config[Permissions] \notin {NoFile} \cup Unusable
  /\ Go(w, "apply")
  /\ UNCHANGED <<files, next, asks, at, lone, kills>>

OpenApplied(w) ==
  /\ pc[w] = "apply"
  /\ \E f \in ConfigFiles : /\ config' = [config EXCEPT ![f] = Truncated]
                             /\ at' = [at EXCEPT ![w] = f]
  /\ dir' = TRUE
  /\ Go(w, "flush applied")
  /\ UNCHANGED <<snapshot, symbols, next, asks, lone, kills>>

FlushApplied(w) ==
  /\ pc[w] = "flush applied"
  /\ \E text \in AppliedTexts :
       Matters(at[w], text) /\ config' = [config EXCEPT ![at[w]] = text]
  /\ at' = [at EXCEPT ![w] = NoFile]
  /\ Go(w, "apply")
  /\ UNCHANGED <<dir, snapshot, symbols, next, asks, lone, kills>>

\* What a proposal makes of the artifacts is of no pass over the sources.
OverwriteArtifacts(w) ==
  /\ pc[w] = "apply"
  /\ snapshot' \in {snapshot, Torn} /\ symbols' \in {symbols, Torn}
  /\ lone' = NoOne
  /\ dir' = TRUE
  /\ UNCHANGED <<config, pc, next, asks, at, kills>>

\* The proposal has been applied or refused, or the job has met an error.
EndJob(w) ==
  /\ pc[w] = "apply"
  /\ Go(w, "reload")
  /\ UNCHANGED <<files, next, asks, at, lone, kills>>

JobStep(w) ==
  ReloadPermissions(w) \/ OpenApplied(w) \/ FlushApplied(w) \/ OverwriteArtifacts(w) \/ EndJob(w)

-----------------------------------------------------------------------------
(* Everybody else. *)

\* The files an init that has made the directory has not written yet.
Unwritten(i) ==
  IF pc[i] \in {"open", "flush"} THEN {Scaffold[k] : k \in next[i]..Len(Scaffold)} ELSE {}

\* A user changes, in one go, a file that has a text and that no init is still
\* to write.  Users who make or delete one themselves are left out.
EditConfig(f) ==
  /\ config[f] \in Texts
  /\ \A i \in Inits : f \notin Unwritten(i)
  /\ \E text \in UserTexts : Matters(f, text) /\ config' = [config EXCEPT ![f] = text]
  /\ UNCHANGED <<dir, snapshot, symbols, pc, next, asks, at, lone, kills>>

\* A command is killed, at any line.
Kill(p) ==
  /\ kills < MaxKills
  /\ pc[p] \notin Ended
  /\ kills' = kills + 1
  /\ Go(p, "killed")
  /\ UNCHANGED <<files, next, asks, at, lone>>

Next ==
  \/ \E i \in Inits : InitStep(i)
  \/ \E b \in Builders : BuildStep(b)
  \/ \E r \in Runs : RunStep(r)
  \/ \E w \in Workers : JobStep(w)
  \/ \E f \in ConfigFiles : EditConfig(f)
  \/ \E p \in Commands : Kill(p)

Spec == Init /\ [][Next]_vars

-----------------------------------------------------------------------------
(* Properties *)

Artifacts == Builders \cup {NoFile, Truncated, Torn}

RunOnly == {"load", "gate", "awaiting", "queued"}

\* Types, and the stages each command can be at: an index knows no gate.
TypeOK ==
  /\ dir \in BOOLEAN
  /\ config \in [ConfigFiles -> Texts \cup {NoFile, Truncated}]
  /\ snapshot \in Artifacts /\ symbols \in Artifacts
  /\ pc \in [Commands -> InitStages \cup BuildStages \cup JobStages \cup {"failed", "killed"}]
  /\ \A i \in Inits : pc[i] \in InitStages \cup {"failed", "killed"}
  /\ \A b \in Builders : pc[b] \in BuildStages \cup {"failed", "killed"}
  /\ \A b \in Indexers : pc[b] \notin RunOnly
  /\ \A w \in Workers : pc[w] \in JobStages \cup {"killed"}
  /\ \A w \in Workers : pc[w] = "flush applied" => at[w] \in ConfigFiles
  /\ next \in [Inits -> 1..(Len(Scaffold) + 1)]
  /\ asks \in [Runs -> BOOLEAN]
  /\ at \in [Workers -> ConfigFiles \cup {NoFile}]
  /\ lone \in Builders \cup {NoOne}
  /\ kills \in 0..MaxKills

\* A worker is between the two halves of writing this file, or was killed there.
AppliedTo(f) == \E w \in Workers : at[w] = f

\* "init never overwrites a repo's existing config" (scaffold.py:65): what a user has
\* made of a file no init, however many passed the check of the directory together,
\* and no index or run undoes; only a worker does, that applies a run to the file.
UserTextSurvives ==
  [][\A f \in ConfigFiles : config[f] \in UserTexts /\ config'[f] \notin UserTexts =>
       \E w \in Workers : at'[w] # at[w] /\ f \in {at[w], at'[w]}]_vars

\* An init that says "Initialized" leaves every file whole, and no other init, beaten
\* to the directory, ever truncates one: a file that is not whole after that is one a
\* worker is applying a run to.
InitializedIsComplete ==
  (\E i \in Inits : pc[i] = "initialized") =>
    \A f \in ConfigFiles : config[f] \in Texts \/ AppliedTo(f)

\* "re-running never leaves stale entries" (build.py:31): a build that no other one,
\* and no worker's write to the artifacts, was beside leaves the two artifacts of its
\* own pass over the sources, whatever was on disk: an earlier build's, or what a
\* killed build, two at once or a worker left torn.
RebuildIsClean ==
  lone # NoOne /\ pc[lone] \in {"built", "gate", "awaiting", "queued"} =>
    snapshot = lone /\ symbols = lone

\* An init has truncated the file and not yet written it, or was killed there.
InitAt(f) ==
  \E i \in Inits : /\ pc[i] \in {"flush", "killed"}
                   /\ next[i] <= Len(Scaffold) /\ Scaffold[next[i]] = f

\* scaffold.py:12, runs ask for approval unless somebody said otherwise: one that
\* does not loads what a user, or a run that was applied, has made of permissions.yml,
\* or loads it while an init or a worker is between its truncation and its text, or
\* after one was killed there.
GateOpensByChoice ==
  [][\A r \in Runs : pc[r] = "load" /\ pc'[r] = "snapshot" /\ ~asks'[r] =>
       config[Permissions] \in {"open", "applied open"}
         \/ InitAt(Permissions) \/ AppliedTo(Permissions)]_vars

\* Violated: after `idemra init' has ended without an error there is a
\* permissions.yml to load, as the message of load_permissions promises
\* ("run `idemra init` first").
InitGivesPermissions ==
  \A i \in Inits : pc[i] \in {"initialized", "untouched"} => config[Permissions] # NoFile
=============================================================================
