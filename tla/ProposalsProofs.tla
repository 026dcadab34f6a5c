-------------------------- MODULE ProposalsProofs ---------------------------
(***************************************************************************)
(* Proofs about Proposals, for any layout of symlinks, any permissions and *)
(* any paths.  A proposal is checked twice, by two processes, and neither  *)
(* check is atomic with what it is for.  The argument is about what may    *)
(* happen in between: as long as nobody has changed a link or              *)
(* permissions.yml, what was loaded is what is there, and what has passed  *)
(* still would.  How a path is resolved plays no part.                     *)
(***************************************************************************)
EXTENDS Proposals, SequenceTheorems, TLAPS

Typed ==
  /\ DOMAIN stage = Runs /\ DOMAIN loaded = Runs /\ DOMAIN proposal = Runs
  /\ cursor \in [Runs -> Nat]
  /\ calm \in [Runs -> SUBSET {"run", "job"}]
  /\ \A r \in Runs : Len(proposal[r]) \in Nat /\ DOMAIN proposal[r] = 1..Len(proposal[r])
  /\ denied \in PermissionTexts

Passes(r) == Violations(links, denied, Paths(r)) = {}

\* Stages at which the run, or its job, relies on what it has loaded.
Relying == {"propose", "validate", "check", "write"}

\* What is loaded is there, unless something has changed since.
LoadedIsCurrent(r) ==
  stage[r] \in Relying =>
    /\ loaded[r] \in Denials
    /\ calm[r] # {} => loaded[r] = denied

\* What has been accepted still passes, unless something has changed since.
AcceptedPasses(r) ==
  /\ stage[r] \in Accepted /\ "run" \in calm[r] => Passes(r) /\ denied \in Denials
  /\ stage[r] = "write" /\ "job" \in calm[r] => Passes(r)

\* What is being written has names that are not denied, whatever has changed.
NamesPass(r) ==
  stage[r] = "write" =>
    \A i \in DOMAIN proposal[r] :
      ~Denied(Target(proposal[r][i].path), DeniedPathPatterns \cup loaded[r])

Sound(r) == LoadedIsCurrent(r) /\ AcceptedPasses(r) /\ NamesPass(r)

CheckInv == Typed /\ \A r \in Runs : Sound(r)

\* To have no violation is to have every path allowed.
LEMMA NoViolation ==
  ASSUME NEW l, NEW d, NEW r, DOMAIN Paths(r) = DOMAIN proposal[r],
         Violations(l, d, Paths(r)) = {}
  PROVE  \A i \in DOMAIN proposal[r] : Allowed(l, d, proposal[r][i].path)
  BY DEF Violations, Paths

\* A name that passes under two sets of patterns passes under their union.
LEMMA DeniedUnion ==
  ASSUME NEW target, NEW p, NEW q, ~Denied(target, p), ~Denied(target, q)
  PROVE  ~Denied(target, p \cup q)
  BY DEF Denied

LEMMA CheckInvInit == Init => CheckInv
<1> SUFFICES ASSUME Init PROVE CheckInv  OBVIOUS
<1>1. Typed  BY DEF Init, Typed, PermissionTexts
<1>2. \A r \in Runs : stage[r] = "new"  BY DEF Init
<1> QED
  BY <1>1, <1>2 DEF CheckInv, Sound, LoadedIsCurrent, AcceptedPasses, NamesPass, Relying, Accepted

\* A run that a step does not touch stays sound if the links and permissions.yml
\* are as they were, or its checks are known to be of the past.
LEMMA UntouchedSound ==
  ASSUME NEW r, Sound(r),
         stage'[r] = stage[r], loaded'[r] = loaded[r], proposal'[r] = proposal[r],
         \/ UNCHANGED <<links, denied>> /\ calm'[r] = calm[r]
         \/ calm'[r] = {}
  PROVE  Sound(r)'
  BY DEF Sound, LoadedIsCurrent, AcceptedPasses, NamesPass, Passes, Paths

\* The same for a run that goes to a stage where nothing is claimed of it.
LEMMA LeavesSound ==
  ASSUME NEW r, Sound(r), stage'[r] \notin Relying \cup Accepted
  PROVE  Sound(r)'
  BY DEF Sound, LoadedIsCurrent, AcceptedPasses, NamesPass, Accepted, Relying

\* The same for one that goes on among the accepted, but not to its check or
\* its writes.
LEMMA AcceptedSound ==
  ASSUME NEW r, Sound(r), UNCHANGED <<links, denied>>, stage[r] \in Accepted,
         stage'[r] \in Accepted \ Relying,
         proposal'[r] = proposal[r], calm'[r] = calm[r]
  PROVE  Sound(r)'
  BY DEF Sound, LoadedIsCurrent, AcceptedPasses, NamesPass, Passes, Paths, Accepted, Relying

\* A step that moves one run, and nothing but it, keeps the others sound.
LEMMA OneRunMoves ==
  ASSUME CheckInv, NEW r \in Runs, Typed', Sound(r)',
         \A q \in Runs \ {r} :
           stage'[q] = stage[q] /\ loaded'[q] = loaded[q] /\ proposal'[q] = proposal[q],
         \/ UNCHANGED <<links, denied>> /\ \A q \in Runs \ {r} : calm'[q] = calm[q]
         \/ \A q \in Runs \ {r} : calm'[q] = {}
  PROVE  CheckInv'
  BY UntouchedSound DEF CheckInv

\* The fetch says nothing of paths.
LEMMA FetchKeeps ==
  ASSUME CheckInv, NEW r \in Runs, FetchStep(r)
  PROVE  CheckInv'
<1>1. /\ UNCHANGED <<loaded, proposal, cursor, calm, links, denied>>
      /\ \E s \in {"task", "logs", "failed"} : stage' = [stage EXCEPT ![r] = s]
  BY DEF FetchStep, TakeTask, ViewCheck, FetchLog, ComposeTask, FailFetch, Goto, runVars, world
<1>2. Typed'  BY <1>1 DEF CheckInv, Typed
<1>3. stage'[r] \in {"task", "logs", "failed"}  BY <1>1 DEF CheckInv, Typed
<1>4. Sound(r)'  BY <1>3, LeavesSound DEF CheckInv, Relying, Accepted
<1> QED  BY <1>1, <1>2, <1>4, OneRunMoves DEF CheckInv, Typed

\* What `idemra run' does keeps it: it loads permissions.yml before it asks the
\* model, and checks the reply against what it has loaded.
LEMMA ProposeKeeps ==
  ASSUME CheckInv, NEW r \in Runs, ProposeStep(r)
  PROVE  CheckInv'
<1>1. Sound(r) /\ Typed  BY DEF CheckInv
<1>2. CASE LoadPermissions(r)
  <2>1. /\ UNCHANGED <<proposal, cursor, links, denied>> /\ denied # Unreadable
        /\ stage' = [stage EXCEPT ![r] = IF denied = NoPermissions THEN "failed" ELSE "propose"]
        /\ loaded' = [loaded EXCEPT ![r] = denied]
        /\ calm' = [calm EXCEPT ![r] = {"run"}]
    BY <1>2 DEF LoadPermissions, Goto, world
  <2>2. Typed'  BY <1>1, <2>1 DEF Typed
  <2>3. denied # NoPermissions => denied \in Denials
    BY <1>1, <2>1 DEF Typed, PermissionTexts
  <2>4. Sound(r)'
    BY <1>1, <2>1, <2>3 DEF Typed, Sound, LoadedIsCurrent, AcceptedPasses, NamesPass, Relying, Accepted
  <2> QED  BY <1>1, <2>1, <2>2, <2>4, OneRunMoves DEF Typed
<1>3. CASE ParseResponse(r)
  <2>1. PICK reply \in Replies \cup {Malformed} :
          /\ stage' = [stage EXCEPT ![r] = IF reply = Malformed THEN "failed" ELSE "validate"]
          /\ proposal' = [proposal EXCEPT ![r] = IF reply = Malformed THEN <<>> ELSE reply]
          /\ UNCHANGED <<loaded, cursor, calm, links, denied>>
          /\ stage[r] = "propose"
    BY <1>3 DEF ParseResponse, Goto, world
  <2>2. /\ Len(proposal'[r]) \in Nat /\ DOMAIN proposal'[r] = 1..Len(proposal'[r])
    BY <1>1, <2>1, ReplyAssumption DEF ReplyAssumption, Typed
  <2>3. Typed'  BY <1>1, <2>1, <2>2 DEF Typed
  <2>4. Sound(r)'
    BY <1>1, <2>1 DEF Typed, Sound, LoadedIsCurrent, AcceptedPasses, NamesPass, Relying, Accepted
  <2> QED  BY <1>1, <2>1, <2>3, <2>4, OneRunMoves DEF Typed
<1>4. CASE LoseRun(r)
  <2>1. stage' = [stage EXCEPT ![r] = "lost"] /\ UNCHANGED <<loaded, proposal, cursor, calm, links, denied>>
    BY <1>4 DEF LoseRun, Goto, runVars, world
  <2>2. Typed'  BY <1>1, <2>1 DEF Typed
  <2>3. Sound(r)'  BY <1>1, <2>1, LeavesSound DEF Typed, Relying, Accepted
  <2> QED  BY <1>1, <2>1, <2>2, <2>3, OneRunMoves DEF Typed
<1>5. CASE ValidateProposal(r)
  <2>1. /\ stage[r] = "validate"
        /\ stage' = [stage EXCEPT ![r] =
             IF Violations(links, loaded[r], Paths(r)) = {} THEN "queued" ELSE "failed"]
        /\ UNCHANGED <<loaded, proposal, cursor, calm, links, denied>>
    BY <1>5 DEF ValidateProposal, Goto, runVars, world
  <2>2. Typed'  BY <1>1, <2>1 DEF Typed
  <2>3. /\ loaded[r] \in Denials
        /\ calm[r] # {} => loaded[r] = denied
    BY <1>1, <2>1 DEF Sound, LoadedIsCurrent, Relying
  <2>4. ASSUME Violations(links, loaded[r], Paths(r)) = {} PROVE Sound(r)'
    <3>1. stage'[r] = "queued"  BY <1>1, <2>1, <2>4 DEF Typed
    <3>2. calm[r] # {} => Passes(r) /\ denied \in Denials  BY <2>3, <2>4 DEF Passes
    <3>3. Passes(r)' = Passes(r)  BY <2>1 DEF Passes, Paths
    <3> QED
      BY <2>1, <3>1, <3>2, <3>3 DEF Sound, LoadedIsCurrent, AcceptedPasses, NamesPass, Relying
  <2>5. ASSUME Violations(links, loaded[r], Paths(r)) # {} PROVE Sound(r)'
    BY <1>1, <2>1, <2>5, LeavesSound DEF Typed, Relying, Accepted
  <2> QED  BY <1>1, <2>1, <2>2, <2>4, <2>5, OneRunMoves DEF Typed
<1> QED  BY <1>2, <1>3, <1>4, <1>5 DEF ProposeStep

\* The steps of the job keep it: it loads permissions.yml again and checks again
\* before it writes; a file it writes may be permissions.yml, and then nothing is
\* claimed of anybody any more.
LEMMA JobKeeps ==
  ASSUME CheckInv, NEW r \in Runs, JobStep(r)
  PROVE  CheckInv'
<1>1. Sound(r) /\ Typed  BY DEF CheckInv
<1>2. CASE ReloadPermissions(r)
  <2>1. /\ UNCHANGED <<proposal, cursor, links, denied>> /\ stage[r] = "queued" /\ denied # Unreadable
        /\ stage' = [stage EXCEPT ![r] = IF denied = NoPermissions THEN "failed" ELSE "check"]
        /\ loaded' = [loaded EXCEPT ![r] = denied]
        /\ calm' = [calm EXCEPT ![r] = @ \cup {"job"}]
    BY <1>2 DEF ReloadPermissions, Goto, world
  <2>2. Typed'  BY <1>1, <2>1 DEF Typed
  <2>3. /\ loaded'[r] = denied
        /\ "run" \in calm'[r] => "run" \in calm[r]
        /\ stage'[r] = IF denied \in Denials THEN "check" ELSE "failed"
    BY <1>1, <2>1, ChoiceAssumption DEF Typed, PermissionTexts, ChoiceAssumption
  <2>4. Passes(r)' = Passes(r)  BY <2>1 DEF Passes, Paths
  <2>5. Sound(r)'
    BY <1>1, <2>1, <2>3, <2>4
    DEF Sound, LoadedIsCurrent, AcceptedPasses, NamesPass, Relying, Accepted
  <2> QED  BY <1>1, <2>1, <2>2, <2>5, OneRunMoves DEF Typed
<1>3. CASE CheckProposal(r)
  <2>1. /\ UNCHANGED <<loaded, proposal, calm, links, denied>> /\ stage[r] = "check"
        /\ stage' = [stage EXCEPT ![r] =
             IF Violations(links, loaded[r], Paths(r)) = {} THEN "write" ELSE "failed"]
        /\ cursor' = [cursor EXCEPT ![r] = 0]
    BY <1>3 DEF CheckProposal, Goto, world
  <2>2. Typed'  BY <1>1, <2>1 DEF Typed
  <2>3. /\ loaded[r] \in Denials
        /\ calm[r] # {} => loaded[r] = denied
    BY <1>1, <2>1 DEF Sound, LoadedIsCurrent, Relying
  <2>4. ASSUME Violations(links, loaded[r], Paths(r)) = {} PROVE Sound(r)'
    <3>1. stage'[r] = "write"  BY <1>1, <2>1, <2>4 DEF Typed
    <3>2. calm[r] # {} => Passes(r) /\ denied \in Denials  BY <2>3, <2>4 DEF Passes
    <3>3. Passes(r)' = Passes(r)  BY <2>1 DEF Passes, Paths
    <3>4. \A i \in DOMAIN proposal[r] :
            /\ ~Denied(Target(proposal[r][i].path), DeniedPathPatterns)
            /\ ~Denied(Target(proposal[r][i].path), loaded[r])
      BY <2>4, NoViolation DEF Paths, Allowed
    <3>5. \A i \in DOMAIN proposal[r] :
            ~Denied(Target(proposal[r][i].path), DeniedPathPatterns \cup loaded[r])
      BY <3>4, DeniedUnion
    <3>6. NamesPass(r)'  BY <2>1, <3>5 DEF NamesPass
    <3> QED  BY <2>1, <2>3, <3>1, <3>2, <3>3, <3>6 DEF Sound, LoadedIsCurrent, AcceptedPasses
  <2>5. ASSUME Violations(links, loaded[r], Paths(r)) # {} PROVE Sound(r)'
    BY <1>1, <2>1, <2>5, LeavesSound DEF Typed, Relying, Accepted
  <2> QED  BY <1>1, <2>1, <2>2, <2>4, <2>5, OneRunMoves DEF Typed
<1>4. CASE WriteFile(r)
  <2>1. /\ UNCHANGED <<stage, loaded, proposal, links>>
        /\ cursor' = [cursor EXCEPT ![r] = @ + 1]
        /\ \/ calm' = [q \in Runs |-> {}]
           \/ UNCHANGED <<denied, calm>>
        /\ denied' = denied \/ denied' \in PermissionTexts
    BY <1>4 DEF WriteFile, Rewrite
  <2>2. Typed'  BY <1>1, <2>1 DEF Typed
  <2>3. \A q \in Runs : calm'[q] = {} \/ UNCHANGED <<denied, calm>>  BY <2>1
  <2>4. Sound(r)'  BY <1>1, <2>1, <2>3, UntouchedSound
  <2> QED  BY <1>1, <2>1, <2>2, <2>4, OneRunMoves
<1>5. CASE LoseJob(r) \/ FailWrite(r) \/ CompleteRun(r)
  <2>1. /\ UNCHANGED <<loaded, proposal, cursor, calm, links, denied>> /\ stage[r] \in {"queued", "write"}
        /\ \E s \in {"crashed", "completed"} : stage' = [stage EXCEPT ![r] = s]
    BY <1>5 DEF LoseJob, FailWrite, CompleteRun, Goto, runVars, world
  <2>2. Typed'  BY <1>1, <2>1 DEF Typed
  <2>3. Sound(r)'  BY <1>1, <2>1, AcceptedSound DEF Typed, Relying, Accepted
  <2> QED  BY <1>1, <2>1, <2>2, <2>3, OneRunMoves DEF Typed
<1> QED  BY <1>2, <1>3, <1>4, <1>5 DEF JobStep

\* A killed job and a requeued one keep it.
LEMMA OperatorKeeps ==
  ASSUME CheckInv, NEW r \in Runs, KillJob(r) \/ Requeue(r)
  PROVE  CheckInv'
<1>1. /\ UNCHANGED <<loaded, proposal, cursor, calm, links, denied>>
      /\ stage[r] \in {"check", "write", "crashed"}
      /\ \E s \in {"crashed", "queued"} : stage' = [stage EXCEPT ![r] = s]
  BY DEF KillJob, Requeue, Goto, runVars, world
<1>2. Typed'  BY <1>1 DEF CheckInv, Typed
<1>3. Sound(r)'  BY <1>1, AcceptedSound DEF CheckInv, Typed, Relying, Accepted
<1> QED  BY <1>1, <1>2, <1>3, OneRunMoves DEF CheckInv, Typed

\* A user's change keeps it: it ends every claim that depends on what changed.
LEMMA UserKeeps ==
  ASSUME CheckInv, Relink \/ EditPermissions
  PROVE  CheckInv'
<1>1. /\ UNCHANGED <<stage, loaded, proposal, cursor>> /\ calm' = [r \in Runs |-> {}]
      /\ denied' = denied \/ denied' \in PermissionTexts
  BY DEF Relink, EditPermissions
<1>2. Typed'  BY <1>1 DEF CheckInv, Typed
<1>3. \A r \in Runs : calm'[r] = {}  BY <1>1
<1> QED  BY <1>1, <1>2, <1>3, UntouchedSound DEF CheckInv

LEMMA CheckInvStep == CheckInv /\ [Next]_vars => CheckInv'
<1> SUFFICES ASSUME CheckInv, [Next]_vars PROVE CheckInv'  OBVIOUS
<1>1. CASE UNCHANGED vars
  <2>1. UNCHANGED <<stage, loaded, proposal, cursor, calm, links, denied>>
    BY <1>1 DEF vars, runVars, world
  <2>2. Typed'  BY <2>1 DEF CheckInv, Typed
  <2> QED  BY <2>1, <2>2, UntouchedSound DEF CheckInv
<1> QED
  BY <1>1, FetchKeeps, ProposeKeeps, JobKeeps, OperatorKeeps, UserKeeps DEF Next

LEMMA CheckInvariant == Spec => []CheckInv
  BY CheckInvInit, CheckInvStep, PTL DEF Spec

\* Of all steps only a job's moves a cursor forward, by writing a file.
LEMMA OnlyWritesAdvance ==
  ASSUME CheckInv, [Next]_vars, NEW r \in Runs, cursor'[r] > cursor[r]
  PROVE  WriteFile(r)
<1>1. \A q \in Runs : cursor[q] \in Nat  BY DEF CheckInv, Typed
<1>2. ASSUME cursor' = cursor PROVE FALSE  BY <1>1, <1>2
<1>3. ASSUME NEW q \in Runs,
             \/ FetchStep(q) \/ ProposeStep(q) \/ KillJob(q) \/ Requeue(q)
             \/ ReloadPermissions(q) \/ LoseJob(q) \/ FailWrite(q) \/ CompleteRun(q)
      PROVE cursor' = cursor
  BY <1>3 DEF FetchStep, TakeTask, ViewCheck, FetchLog, ComposeTask, FailFetch, ProposeStep,
     LoadPermissions, ParseResponse, LoseRun, ValidateProposal, KillJob, Requeue,
     ReloadPermissions, LoseJob, FailWrite, CompleteRun, runVars
<1>4. ASSUME NEW q \in Runs, CheckProposal(q) PROVE FALSE
  <2>1. cursor' = [cursor EXCEPT ![q] = 0]  BY <1>4 DEF CheckProposal
  <2>2. cursor'[r] \in {0, cursor[r]}  BY <2>1 DEF CheckInv, Typed
  <2> QED  BY <1>1, <2>2
<1>5. ASSUME NEW q \in Runs, WriteFile(q) PROVE WriteFile(r)
  <2>1. cursor' = [cursor EXCEPT ![q] = @ + 1]  BY <1>5 DEF WriteFile
  <2>2. q # r => cursor'[r] = cursor[r]  BY <2>1 DEF CheckInv, Typed
  <2> QED  BY <1>1, <1>5, <2>2
<1>6. ASSUME Relink \/ EditPermissions \/ UNCHANGED vars PROVE cursor' = cursor
  BY <1>6 DEF Relink, EditPermissions, vars, runVars
<1> QED  BY <1>2, <1>3, <1>4, <1>5, <1>6 DEF Next, JobStep

\* Whoever changes links and permissions, and whenever: a file that is written has
\* a name neither layer denies, and while nothing has changed since the job loaded
\* the permissions every path passes and the place is in the repository.
THEOREM WritesStayAllowed == Spec => WritesAreAllowed
<1> DEFINE Good(r) ==
      /\ ~Denied(Target(NextFile(r).path), DeniedPathPatterns \cup loaded[r])
      /\ "job" \in calm[r] =>
           /\ denied \in Denials /\ Violations(links, denied, Paths(r)) = {}
           /\ IsPrefix(RepoRoot, Place(r))
<1>1. ASSUME CheckInv, [Next]_vars, NEW r \in Runs, cursor'[r] > cursor[r] PROVE Good(r)
  <2>1. stage[r] = "write" /\ cursor[r] < Len(proposal[r])
    BY <1>1, OnlyWritesAdvance DEF WriteFile
  <2>2. cursor[r] + 1 \in DOMAIN proposal[r]  BY <1>1, <2>1 DEF CheckInv, Typed
  <2>3. Sound(r)  BY <1>1 DEF CheckInv
  <2>4. ~Denied(Target(NextFile(r).path), DeniedPathPatterns \cup loaded[r])
    BY <2>1, <2>2, <2>3 DEF Sound, NamesPass, NextFile
  <2>5. ASSUME "job" \in calm[r]
        PROVE  /\ denied \in Denials /\ Violations(links, denied, Paths(r)) = {}
               /\ IsPrefix(RepoRoot, Place(r))
    <3>1. denied \in Denials
      BY <2>1, <2>3, <2>5 DEF Sound, LoadedIsCurrent, Relying
    <3>2. Violations(links, denied, Paths(r)) = {}
      BY <2>1, <2>3, <2>5 DEF Sound, AcceptedPasses, Passes
    <3>3. Allowed(links, denied, proposal[r][cursor[r] + 1].path)
      BY <2>2, <3>2, NoViolation DEF Paths
    <3>4. IsPrefix(RepoRoot, Place(r))  BY <3>3 DEF Allowed, WithinRepoRoot, Place, NextFile
    <3> QED  BY <3>1, <3>2, <3>4
  <2> QED  BY <2>4, <2>5
<1>2. CheckInv /\ [Next]_vars => [\A r \in Runs : cursor'[r] > cursor[r] => Good(r)]_vars
  BY <1>1
<1> QED  BY <1>2, CheckInvariant, PTL DEF Spec, WritesAreAllowed

\* What `idemra run' let through the job refuses only if something has changed:
\* the second check adds no refusal of its own.
THEOREM ChecksAgree == Spec => UndisturbedNotRefused
<1>1. ASSUME CheckInv, [Next]_vars, NEW r \in Runs, stage[r] \in Accepted, stage'[r] = "failed"
      PROVE "run" \notin calm[r]
  <2>1. Sound(r) /\ Typed  BY <1>1 DEF CheckInv
  <2>2. stage'[r] # stage[r]  BY <1>1 DEF Accepted
  <2>3. ASSUME NEW q \in Runs, FetchStep(q) \/ ProposeStep(q) PROVE FALSE
    <3>1. stage[q] \notin Accepted
      BY <2>3 DEF FetchStep, TakeTask, ViewCheck, FetchLog, ComposeTask, FailFetch, ProposeStep,
         LoadPermissions, ParseResponse, LoseRun, ValidateProposal, Goto, Accepted
    <3>2. \E s : stage' = [stage EXCEPT ![q] = s]
      BY <2>3 DEF FetchStep, TakeTask, ViewCheck, FetchLog, ComposeTask, FailFetch, ProposeStep,
         LoadPermissions, ParseResponse, LoseRun, ValidateProposal, Goto
    <3> QED  BY <1>1, <2>1, <2>2, <3>1, <3>2 DEF Typed
  <2>4. ASSUME NEW q \in Runs, LoseJob(q) \/ FailWrite(q) \/ CompleteRun(q) \/ KillJob(q) \/ Requeue(q)
        PROVE FALSE
    <3>1. \E s \in {"crashed", "completed", "queued"} : stage' = [stage EXCEPT ![q] = s]
      BY <2>4 DEF LoseJob, FailWrite, CompleteRun, KillJob, Requeue, Goto
    <3> QED  BY <1>1, <2>1, <2>2, <3>1 DEF Typed
  <2>5. ASSUME UNCHANGED stage PROVE FALSE  BY <2>2, <2>5
  <2>6. ASSUME NEW q \in Runs, ReloadPermissions(q) PROVE "run" \notin calm[r]
    <3>1. stage' = [stage EXCEPT ![q] = IF denied = NoPermissions THEN "failed" ELSE "check"]
      BY <2>6 DEF ReloadPermissions, Goto
    <3>2. denied = NoPermissions  BY <1>1, <2>1, <2>2, <3>1 DEF Typed
    <3> QED  BY <1>1, <2>1, <3>2, ChoiceAssumption DEF Sound, AcceptedPasses, ChoiceAssumption
  <2>7. ASSUME NEW q \in Runs, CheckProposal(q) PROVE "run" \notin calm[r]
    <3>1. /\ stage[q] = "check"
          /\ stage' = [stage EXCEPT ![q] =
               IF Violations(links, loaded[q], Paths(q)) = {} THEN "write" ELSE "failed"]
      BY <2>7 DEF CheckProposal, Goto
    <3>2. q = r /\ Violations(links, loaded[r], Paths(r)) # {}
      BY <1>1, <2>1, <2>2, <3>1 DEF Typed
    <3>3. calm[r] # {} => loaded[r] = denied
      BY <2>1, <3>1, <3>2 DEF Sound, LoadedIsCurrent, Relying
    <3> QED  BY <1>1, <2>1, <3>2, <3>3 DEF Sound, AcceptedPasses, Passes
  <2>8. ASSUME (\E q \in Runs : WriteFile(q)) \/ Relink \/ EditPermissions \/ UNCHANGED vars
        PROVE UNCHANGED stage
    BY <2>8 DEF WriteFile, Relink, EditPermissions, vars
  <2> QED  BY <1>1, <2>3, <2>4, <2>5, <2>6, <2>7, <2>8 DEF Next, JobStep
<1>2. CheckInv /\ [Next]_vars =>
        [\A r \in Runs : stage[r] \in Accepted /\ stage'[r] = "failed" => "run" \notin calm[r]]_vars
  BY <1>1
<1> QED  BY <1>2, CheckInvariant, PTL DEF Spec, UndisturbedNotRefused

-----------------------------------------------------------------------------
(* Types.  A run is Proper whatever the others do: all a step of another can *)
(* change of what is said here is the files and the repository.              *)

Proper(r) ==
  /\ stage[r] \in Accepted \cup {"propose", "validate"} => loaded[r] \in Denials
  /\ stage[r] \in Accepted => \A i \in DOMAIN proposal[r] : proposal[r][i].path # NotText
  /\ proposal[r] \in Replies \cup {<<>>}
  /\ cursor[r] \in 0..Len(proposal[r])
  /\ stage[r] \notin Accepted \cup {"failed"} => cursor[r] = 0
  /\ omitted[r] \in Nat

RunsTyped ==
  /\ stage \in [Runs -> Stages] /\ loaded \in [Runs -> PermissionTexts]
  /\ DOMAIN omitted = Runs /\ DOMAIN failed = Runs /\ DOMAIN sections = Runs

WorldTyped ==
  /\ links \in Layouts
  /\ denied \in PermissionTexts
  /\ \A place \in DOMAIN tree : tree[place] \in Contents
  /\ requeued \subseteq Runs
  /\ changes \in 0..MaxChanges /\ kills \in 0..MaxKills

TypeInv == Typed /\ RunsTyped /\ WorldTyped /\ \A r \in Runs : Proper(r)

LEMMA TypeInvInit == Init => TypeInv
<1> SUFFICES ASSUME Init PROVE TypeInv  OBVIOUS
<1>1. Typed  BY DEF Init, Typed, PermissionTexts
<1>2. RunsTyped  BY DEF Init, RunsTyped, Stages, PermissionTexts
<1>3. WorldTyped
  BY LimitAssumption, RepositoryAssumption
  DEF Init, WorldTyped, LimitAssumption, RepositoryAssumption, Contents, PermissionTexts
<1>4. ASSUME NEW r \in Runs PROVE Proper(r)
  <2>1. /\ stage[r] = "new" /\ proposal[r] = <<>> /\ omitted[r] = 0 /\ cursor[r] = 0
        /\ loaded[r] \in Denials
    BY DEF Init
  <2> QED  BY <2>1 DEF Proper, Stages, Accepted
<1> QED  BY <1>1, <1>2, <1>3, <1>4 DEF TypeInv

\* The steps that leave what is typed of a run, and the world, alone.
LEMMA OneRunProper ==
  ASSUME TypeInv, NEW r \in Runs, Typed', RunsTyped', WorldTyped', Proper(r)',
         \A q \in Runs \ {r} :
           /\ stage'[q] = stage[q] /\ loaded'[q] = loaded[q] /\ proposal'[q] = proposal[q]
           /\ cursor'[q] = cursor[q] /\ omitted'[q] = omitted[q]
  PROVE  TypeInv'
  BY DEF TypeInv, Proper

\* Files come to be and directories on the way to them: only a known content.
LEMMA WithTyped ==
  ASSUME NEW places, NEW this \in Contents, NEW there,
         \A place \in DOMAIN there : there[place] \in Contents
  PROVE  \A place \in DOMAIN With(places, this, there) : With(places, this, there)[place] \in Contents
  BY DEF With

LEMMA FetchTypes ==
  ASSUME TypeInv, NEW r \in Runs, FetchStep(r)
  PROVE  TypeInv'
<1>1. /\ UNCHANGED <<runVars, world, bounds>> /\ stage[r] \in {"new", "logs"}
      /\ \E s \in {"task", "logs", "failed"} : stage' = [stage EXCEPT ![r] = s]
  BY DEF FetchStep, TakeTask, ViewCheck, FetchLog, ComposeTask, FailFetch, Goto
<1>2. Typed'  BY <1>1 DEF TypeInv, Typed, runVars, world
<1>3. WorldTyped'  BY <1>1 DEF TypeInv, WorldTyped, world, bounds
<1>4. ASSUME NEW jobs PROVE Len(jobs) - Included(jobs) \in Nat
  BY LimitAssumption DEF Included, LimitAssumption
<1>5. \/ omitted' = omitted
      \/ \E n \in Nat : omitted' = [omitted EXCEPT ![r] = n]
  BY <1>4 DEF FetchStep, TakeTask, ViewCheck, FetchLog, ComposeTask, FailFetch, taskVars
<1>6. DOMAIN omitted' = Runs /\ DOMAIN failed' = Runs /\ DOMAIN sections' = Runs
  BY DEF TypeInv, RunsTyped, FetchStep, TakeTask, ViewCheck, FetchLog, ComposeTask, FailFetch, taskVars
<1>8. RunsTyped'  BY <1>1, <1>6 DEF TypeInv, RunsTyped, Stages, runVars
<1>7. Proper(r)'
  BY <1>1, <1>5 DEF TypeInv, Typed, RunsTyped, Proper, Stages, Accepted, runVars
<1> QED
  BY <1>1, <1>2, <1>3, <1>5, <1>7, <1>8, OneRunProper DEF TypeInv, Typed, RunsTyped, runVars

LEMMA ProposeTypes ==
  ASSUME TypeInv, NEW r \in Runs, ProposeStep(r)
  PROVE  TypeInv'
<1>1. UNCHANGED <<cursor, world, bounds>>
  BY DEF ProposeStep, LoadPermissions, ParseResponse, LoseRun, ValidateProposal, runVars
<1>2. WorldTyped'  BY <1>1 DEF TypeInv, WorldTyped, world, bounds
<1>3. Typed /\ RunsTyped /\ Proper(r) /\ WorldTyped  BY DEF TypeInv
<1>4. CASE LoadPermissions(r)
  <2>1. /\ stage[r] = "task" /\ UNCHANGED proposal /\ denied # Unreadable
        /\ stage' = [stage EXCEPT ![r] = IF denied = NoPermissions THEN "failed" ELSE "propose"]
        /\ loaded' = [loaded EXCEPT ![r] = denied]
        /\ calm' = [calm EXCEPT ![r] = {"run"}]
        /\ failed' = [failed EXCEPT ![r] = <<>>] /\ sections' = [sections EXCEPT ![r] = <<>>]
        /\ omitted' = [omitted EXCEPT ![r] = 0]
    BY <1>4 DEF LoadPermissions, Goto
  <2>2. Typed' /\ RunsTyped'  BY <1>1, <1>3, <2>1 DEF Typed, RunsTyped, WorldTyped, Stages, world
  <2>3. Proper(r)'
    BY <1>1, <1>3, <2>1 DEF Typed, RunsTyped, WorldTyped, Proper, Stages, Accepted, PermissionTexts
  <2> QED  BY <1>1, <1>2, <1>3, <2>1, <2>2, <2>3, OneRunProper DEF Typed, RunsTyped
<1>5. CASE ParseResponse(r)
  <2>1. PICK reply \in Replies \cup {Malformed} :
          /\ stage[r] = "propose" /\ UNCHANGED <<taskVars, loaded, calm>>
          /\ stage' = [stage EXCEPT ![r] = IF reply = Malformed THEN "failed" ELSE "validate"]
          /\ proposal' = [proposal EXCEPT ![r] = IF reply = Malformed THEN <<>> ELSE reply]
    BY <1>5 DEF ParseResponse, Goto
  <2>2. /\ proposal'[r] \in Replies \cup {<<>>}
        /\ Len(proposal'[r]) \in Nat /\ DOMAIN proposal'[r] = 1..Len(proposal'[r])
    BY <1>3, <2>1, ReplyAssumption DEF ReplyAssumption, Typed
  <2>3. Typed' /\ RunsTyped'  BY <1>1, <1>3, <2>1, <2>2 DEF Typed, RunsTyped, Stages, taskVars, world
  <2>4. Proper(r)'
    BY <1>1, <1>3, <2>1, <2>2 DEF Typed, RunsTyped, Proper, Stages, Accepted, taskVars
  <2> QED  BY <1>1, <1>2, <1>3, <2>1, <2>3, <2>4, OneRunProper DEF Typed, RunsTyped, taskVars
<1>6. CASE LoseRun(r) \/ ValidateProposal(r)
  <2>1. /\ stage[r] \in {"task", "validate"} /\ UNCHANGED <<taskVars, runVars>>
        /\ \E s \in {"lost", "failed", "queued"} :
             /\ stage' = [stage EXCEPT ![r] = s]
             /\ s = "queued" => /\ stage[r] = "validate"
                                /\ \A i \in DOMAIN proposal[r] : Paths(r)[i] # NotText
    BY <1>6 DEF LoseRun, ValidateProposal, Goto
  <2>2. Typed' /\ RunsTyped'
    BY <1>1, <1>3, <2>1 DEF Typed, RunsTyped, Stages, Accepted, taskVars, runVars, world
  <2>3. Proper(r)'
    BY <1>1, <1>3, <2>1 DEF Typed, RunsTyped, Proper, Stages, Accepted, taskVars, runVars, Paths
  <2> QED
    BY <1>1, <1>2, <1>3, <2>1, <2>2, <2>3, OneRunProper DEF Typed, RunsTyped, taskVars, runVars
<1> QED  BY <1>4, <1>5, <1>6 DEF ProposeStep

LEMMA JobTypes ==
  ASSUME TypeInv, NEW r \in Runs, JobStep(r)
  PROVE  TypeInv'
<1>1. UNCHANGED <<taskVars, proposal, links, bounds>>
  BY DEF JobStep, ReloadPermissions, LoseJob, CheckProposal, WriteFile, FailWrite, CompleteRun, runVars,
     world
<1>2. Typed /\ RunsTyped /\ Proper(r) /\ WorldTyped  BY DEF TypeInv
<1>3. DOMAIN omitted' = Runs /\ DOMAIN failed' = Runs /\ DOMAIN sections' = Runs
  BY <1>1, <1>2 DEF RunsTyped, taskVars
<1>4. CASE ReloadPermissions(r)
  <2>1. /\ stage[r] = "queued" /\ UNCHANGED <<cursor, denied, tree>> /\ denied # Unreadable
        /\ stage' = [stage EXCEPT ![r] = IF denied = NoPermissions THEN "failed" ELSE "check"]
        /\ loaded' = [loaded EXCEPT ![r] = denied]
        /\ calm' = [calm EXCEPT ![r] = @ \cup {"job"}]
    BY <1>4 DEF ReloadPermissions, Goto, world
  <2>2. Typed' /\ WorldTyped'  BY <1>1, <1>2, <2>1 DEF Typed, WorldTyped, bounds
  <2>4. RunsTyped'  BY <1>2, <1>3, <2>1 DEF RunsTyped, WorldTyped, Stages, Accepted
  <2>3. Proper(r)'
    BY <1>1, <1>2, <2>1 DEF Typed, WorldTyped, Proper, Stages, Accepted, PermissionTexts, taskVars
  <2> QED  BY <1>1, <1>2, <2>1, <2>2, <2>3, <2>4, OneRunProper DEF Typed, taskVars
<1>5. CASE CheckProposal(r)
  <2>1. /\ stage[r] = "check" /\ UNCHANGED <<loaded, calm, denied, tree>>
        /\ \E s \in {"write", "failed"} : stage' = [stage EXCEPT ![r] = s]
        /\ cursor' = [cursor EXCEPT ![r] = 0]
    BY <1>5 DEF CheckProposal, Goto, world
  <2>2. Typed' /\ WorldTyped'  BY <1>1, <1>2, <2>1 DEF Typed, WorldTyped, bounds
  <2>4. RunsTyped'  BY <1>2, <1>3, <2>1 DEF RunsTyped, WorldTyped, Stages, Accepted
  <2>3. Proper(r)'  BY <1>1, <1>2, <2>1 DEF Typed, Proper, Stages, Accepted, taskVars
  <2> QED  BY <1>1, <1>2, <2>1, <2>2, <2>3, <2>4, OneRunProper DEF Typed, taskVars
<1>6. CASE WriteFile(r)
  <2>1. /\ UNCHANGED <<stage, loaded>> /\ stage[r] = "write" /\ cursor[r] < Len(proposal[r])
        /\ cursor' = [cursor EXCEPT ![r] = @ + 1]
        /\ tree' = With({Place(r)}, r, WithParents(r))
        /\ denied' \in PermissionTexts
        /\ calm' = calm \/ calm' = [q \in Runs |-> {}]
    BY <1>2, <1>6 DEF WriteFile, Rewrite, WorldTyped
  <2>2. Typed'  BY <1>1, <1>2, <2>1 DEF Typed
  <2>3. Directory \in Contents /\ r \in Contents  BY DEF Contents
  <2>4. \A place \in DOMAIN WithParents(r) : WithParents(r)[place] \in Contents
    BY <1>2, <2>3, WithTyped DEF WithParents, WorldTyped
  <2>5. \A place \in DOMAIN tree' : tree'[place] \in Contents
    BY <2>1, <2>3, <2>4, WithTyped
  <2>6. WorldTyped'  BY <1>1, <1>2, <2>1, <2>5 DEF WorldTyped, bounds
  <2>8. RunsTyped'  BY <1>2, <1>3, <2>1 DEF RunsTyped
  <2>7. Proper(r)'  BY <1>1, <1>2, <2>1 DEF Typed, Proper, Stages, Accepted, taskVars
  <2> QED  BY <1>1, <1>2, <2>1, <2>2, <2>6, <2>7, <2>8, OneRunProper DEF Typed, taskVars
<1>7. CASE LoseJob(r) \/ FailWrite(r) \/ CompleteRun(r)
  <2>1. /\ stage[r] \in {"queued", "write"} /\ UNCHANGED <<runVars, denied>>
        /\ \E s \in {"crashed", "completed"} : stage' = [stage EXCEPT ![r] = s]
        /\ tree' \in {tree, WithParents(r)}
    BY <1>7 DEF LoseJob, FailWrite, CompleteRun, Goto, world
  <2>2. Typed'  BY <1>1, <1>2, <2>1 DEF Typed, runVars
  <2>3. \A place \in DOMAIN WithParents(r) : WithParents(r)[place] \in Contents
    BY <1>2, WithTyped DEF WithParents, WorldTyped, Contents
  <2>4. WorldTyped'  BY <1>1, <1>2, <2>1, <2>3 DEF WorldTyped, bounds
  <2>6. RunsTyped'  BY <1>2, <1>3, <2>1 DEF RunsTyped, Stages, Accepted, runVars
  <2>5. Proper(r)'  BY <1>1, <1>2, <2>1 DEF Typed, Proper, Stages, Accepted, taskVars, runVars
  <2> QED  BY <1>1, <1>2, <2>1, <2>2, <2>4, <2>5, <2>6, OneRunProper DEF Typed, taskVars, runVars
<1> QED  BY <1>4, <1>5, <1>6, <1>7 DEF JobStep

LEMMA OperatorTypes ==
  ASSUME TypeInv, NEW r \in Runs, KillJob(r) \/ Requeue(r)
  PROVE  TypeInv'
<1>1. /\ UNCHANGED <<taskVars, runVars, world, changes>>
      /\ stage[r] \in {"check", "write", "crashed"}
      /\ \E s \in {"crashed", "queued"} : stage' = [stage EXCEPT ![r] = s]
      /\ \/ kills < MaxKills /\ kills' = kills + 1 /\ requeued' = requeued
         \/ kills' = kills /\ requeued' = requeued \cup {r}
  BY DEF KillJob, Requeue, Goto
<1>2. Typed /\ RunsTyped /\ Proper(r) /\ WorldTyped  BY DEF TypeInv
<1>3. Typed' /\ RunsTyped'
  BY <1>1, <1>2 DEF Typed, RunsTyped, Stages, Accepted, taskVars, runVars, world
<1>4. WorldTyped'  BY <1>1, <1>2, LimitAssumption DEF WorldTyped, world, LimitAssumption
<1>5. Proper(r)'  BY <1>1, <1>2 DEF Typed, Proper, Stages, Accepted, taskVars, runVars
<1> QED  BY <1>1, <1>2, <1>3, <1>4, <1>5, OneRunProper DEF Typed, taskVars, runVars

LEMMA UserTypes ==
  ASSUME TypeInv, Relink \/ EditPermissions
  PROVE  TypeInv'
<1>1. /\ UNCHANGED <<stage, taskVars, loaded, proposal, cursor, tree, requeued, kills>>
      /\ links' \in Layouts \cup {links} /\ denied' \in PermissionTexts
      /\ calm' = [r \in Runs |-> {}]
      /\ changes < MaxChanges /\ changes' = changes + 1
  BY DEF Relink, EditPermissions, Change, TypeInv, Typed
<1>2. Typed'  BY <1>1 DEF TypeInv, Typed
<1>3. WorldTyped'  BY <1>1, LimitAssumption DEF TypeInv, WorldTyped, LimitAssumption
<1> QED  BY <1>1, <1>2, <1>3 DEF TypeInv, RunsTyped, Proper, taskVars

LEMMA TypeInvStep == TypeInv /\ [Next]_vars => TypeInv'
<1> SUFFICES ASSUME TypeInv, [Next]_vars PROVE TypeInv'  OBVIOUS
<1>1. CASE UNCHANGED vars
  BY <1>1 DEF TypeInv, Typed, RunsTyped, WorldTyped, Proper, vars, taskVars, runVars, world, bounds
<1> QED
  BY <1>1, FetchTypes, ProposeTypes, JobTypes, OperatorTypes, UserTypes DEF Next

LEMMA TypeInvariant == Spec => []TypeInv
  BY TypeInvInit, TypeInvStep, PTL DEF Spec

\* The types, and with them that nobody proposes or writes under a permissions.yml
\* that could not be loaded, or writes to a path that is not text.
THEOREM TypesKept == Spec => []TypeOK
<1>1. TypeInv => TypeOK
  BY DEF TypeInv, TypeOK, Typed, RunsTyped, Proper, WorldTyped
<1> QED  BY <1>1, TypeInvariant, PTL

-----------------------------------------------------------------------------
(* What is written stays.                                                  *)

OnDisk(path) ==
  LET place == Resolve(links, Target(path))
  IN  place \in DOMAIN tree /\ tree[place] \in Runs

\* As long as nobody has moved the paths since the job loaded the permissions,
\* every file that it counts as written is there.
Counted(r) ==
  /\ stage[r] \in {"write", "completed"} /\ "job" \in calm[r] =>
       \A i \in 1..cursor[r] : OnDisk(proposal[r][i].path)
  /\ stage[r] = "completed" => cursor[r] = Len(proposal[r])

WrittenInv == \A r \in Runs : Counted(r)

\* Files that runs have written are neither removed nor turned to directories.
RunsFilesStay ==
  \A place \in DOMAIN tree :
    tree[place] \in Runs => place \in DOMAIN tree' /\ tree'[place] \in Runs

LEMMA WrittenInit == Init => WrittenInv
<1> SUFFICES ASSUME Init, NEW r \in Runs PROVE Counted(r)  BY DEF WrittenInv
<1>1. stage[r] = "new"  BY DEF Init
<1> QED  BY <1>1 DEF Counted

\* Directories are made where there is nothing, or a directory.
LEMMA ParentsSpare ==
  ASSUME NEW r, CanMakeParents(r), NEW place \in DOMAIN tree, tree[place] \in Runs
  PROVE  place \in DOMAIN WithParents(r) /\ WithParents(r)[place] = tree[place]
<1>1. tree[place] # Directory  BY ContentAssumption DEF ContentAssumption
<1>2. place \notin Parents(r)  BY <1>1 DEF CanMakeParents
<1> QED  BY <1>2 DEF WithParents, With

LEMMA WriteKeepsFiles ==
  ASSUME NEW r \in Runs, WriteFile(r)
  PROVE  /\ RunsFilesStay
         /\ Place(r) \in DOMAIN tree' /\ tree'[Place(r)] \in Runs
<1>1. CanMakeParents(r) /\ tree' = With({Place(r)}, r, WithParents(r))  BY DEF WriteFile
<1> QED  BY <1>1, ParentsSpare DEF With, RunsFilesStay

LEMMA FilesStay ==
  ASSUME [Next]_vars
  PROVE  RunsFilesStay
<1>1. ASSUME UNCHANGED tree PROVE RunsFilesStay  BY <1>1 DEF RunsFilesStay
<1>2. ASSUME NEW r \in Runs, FetchStep(r) \/ ProposeStep(r) \/ KillJob(r) \/ Requeue(r)
      PROVE UNCHANGED tree
  BY <1>2 DEF FetchStep, TakeTask, ViewCheck, FetchLog, ComposeTask, FailFetch, ProposeStep,
     LoadPermissions, ParseResponse, LoseRun, ValidateProposal, KillJob, Requeue, world
<1>3. ASSUME NEW r \in Runs, JobStep(r) PROVE RunsFilesStay
  <2>1. CASE ReloadPermissions(r) \/ LoseJob(r) \/ CheckProposal(r) \/ CompleteRun(r)
    BY <1>1, <2>1 DEF ReloadPermissions, LoseJob, CheckProposal, CompleteRun, world
  <2>2. CASE WriteFile(r)  BY <2>2, WriteKeepsFiles
  <2>3. CASE FailWrite(r)
    <3>1. tree' = IF CanMakeParents(r) THEN WithParents(r) ELSE tree  BY <2>3 DEF FailWrite
    <3> QED  BY <1>1, <3>1, ParentsSpare DEF RunsFilesStay
  <2> QED  BY <1>3, <2>1, <2>2, <2>3 DEF JobStep
<1>4. ASSUME Relink \/ EditPermissions \/ UNCHANGED vars PROVE UNCHANGED tree
  BY <1>4 DEF Relink, EditPermissions, vars, world
<1> QED  BY <1>1, <1>2, <1>3, <1>4 DEF Next

\* A run that neither moves nor starts to count keeps its files; a step that moves a
\* link ends the claim.
LEMMA UnmovedCounted ==
  ASSUME NEW r, Counted(r), RunsFilesStay,
         stage'[r] = stage[r], cursor'[r] = cursor[r], proposal'[r] = proposal[r],
         calm'[r] = {} \/ UNCHANGED <<links, calm[r]>>
  PROVE  Counted(r)'
  BY DEF Counted, OnDisk, RunsFilesStay

LEMMA OneRunCounted ==
  ASSUME WrittenInv, RunsFilesStay, NEW r \in Runs, Counted(r)',
         \A q \in Runs \ {r} :
           /\ stage'[q] = stage[q] /\ cursor'[q] = cursor[q] /\ proposal'[q] = proposal[q]
           /\ calm'[q] = {} \/ UNCHANGED <<links, calm[q]>>
  PROVE  WrittenInv'
  BY UnmovedCounted DEF WrittenInv

LEMMA WrittenStep == CheckInv /\ WrittenInv /\ [Next]_vars => WrittenInv'
<1> SUFFICES ASSUME CheckInv, WrittenInv, [Next]_vars PROVE WrittenInv'  OBVIOUS
<1>1. RunsFilesStay  BY FilesStay
<1>2. Typed /\ \A r \in Runs : Counted(r)  BY DEF CheckInv, WrittenInv
<1>3. ASSUME NEW r \in Runs, FetchStep(r) \/ ProposeStep(r) PROVE WrittenInv'
  <2>1. /\ UNCHANGED <<cursor, links>>
        /\ \E s \in Stages \ {"write", "completed"} : stage' = [stage EXCEPT ![r] = s]
        /\ \A q \in Runs \ {r} : calm'[q] = calm[q] /\ proposal'[q] = proposal[q]
    BY <1>2, <1>3
    DEF FetchStep, TakeTask, ViewCheck, FetchLog, ComposeTask, FailFetch, ProposeStep, Typed,
        LoadPermissions, ParseResponse, LoseRun, ValidateProposal, Goto, runVars, world, Stages,
        Accepted
  <2>2. Counted(r)'  BY <1>2, <2>1 DEF Counted, Typed
  <2> QED  BY <1>1, <1>2, <2>1, <2>2, OneRunCounted DEF Typed
<1>4. ASSUME NEW r \in Runs, ReloadPermissions(r) \/ LoseJob(r) \/ KillJob(r) \/ Requeue(r)
      PROVE WrittenInv'
  <2>1. /\ UNCHANGED <<cursor, links, proposal>>
        /\ \E s \in {"failed", "check", "crashed", "queued"} : stage' = [stage EXCEPT ![r] = s]
        /\ \A q \in Runs \ {r} : calm'[q] = calm[q]
    BY <1>2, <1>4 DEF ReloadPermissions, LoseJob, KillJob, Requeue, Goto, runVars, world, Typed
  <2>2. Counted(r)'  BY <1>2, <2>1 DEF Counted, Typed
  <2> QED  BY <1>1, <1>2, <2>1, <2>2, OneRunCounted DEF Typed
<1>5. ASSUME NEW r \in Runs, CheckProposal(r) PROVE WrittenInv'
  <2>1. /\ UNCHANGED <<links, proposal, calm>> /\ cursor' = [cursor EXCEPT ![r] = 0]
        /\ \E s \in {"write", "failed"} : stage' = [stage EXCEPT ![r] = s]
    BY <1>5 DEF CheckProposal, Goto, world
  <2>2. Counted(r)'  BY <1>2, <2>1 DEF Counted, Typed
  <2> QED  BY <1>1, <1>2, <2>1, <2>2, OneRunCounted DEF Typed
<1>6. ASSUME NEW r \in Runs, WriteFile(r) PROVE WrittenInv'
  <2>1. /\ UNCHANGED <<stage, links, proposal>> /\ cursor' = [cursor EXCEPT ![r] = @ + 1]
        /\ stage[r] = "write"
        /\ calm' = calm \/ calm' = [q \in Runs |-> {}]
    BY <1>6 DEF WriteFile, Rewrite
  <2>2. ASSUME "job" \in calm'[r], NEW i \in 1..cursor'[r] PROVE OnDisk(proposal[r][i].path)'
    <3>1. calm' = calm  BY <2>1, <2>2
    <3>2. cursor'[r] = cursor[r] + 1  BY <1>2, <2>1 DEF Typed
    <3>3. CASE i = cursor[r] + 1
      <4>1. Place(r) \in DOMAIN tree' /\ tree'[Place(r)] \in Runs  BY <1>6, WriteKeepsFiles
      <4>2. Place(r) = Resolve(links', Target(proposal'[r][i].path))
        BY <2>1, <3>3 DEF Place, NextFile
      <4> QED  BY <4>1, <4>2 DEF OnDisk
    <3>4. CASE i \in 1..cursor[r]
      <4>1. OnDisk(proposal[r][i].path)  BY <1>2, <2>1, <2>2, <3>1, <3>4 DEF Counted
      <4> QED  BY <1>1, <2>1, <4>1 DEF OnDisk, RunsFilesStay
    <3> QED  BY <1>2, <2>2, <3>2, <3>3, <3>4 DEF Typed
  <2>3. Counted(r)'  BY <2>1, <2>2 DEF Counted
  <2> QED  BY <1>1, <1>2, <2>1, <2>3, OneRunCounted DEF Typed
<1>7. ASSUME NEW r \in Runs, FailWrite(r) \/ CompleteRun(r) PROVE WrittenInv'
  <2>1. /\ UNCHANGED <<runVars, links>> /\ stage[r] = "write"
        /\ \/ stage' = [stage EXCEPT ![r] = "crashed"]
           \/ stage' = [stage EXCEPT ![r] = "completed"] /\ cursor[r] = Len(proposal[r])
    BY <1>7 DEF FailWrite, CompleteRun, Goto, world
  <2>2. stage'[r] # "write" /\ (stage'[r] = "completed" => cursor[r] = Len(proposal[r]))
    BY <1>2, <2>1 DEF Typed
  <2>3. Counted(r)'
    <3>1. ASSUME "job" \in calm[r], NEW i \in 1..cursor[r] PROVE OnDisk(proposal[r][i].path)'
      <4>1. OnDisk(proposal[r][i].path)  BY <1>2, <2>1, <3>1 DEF Counted
      <4> QED  BY <1>1, <2>1, <4>1 DEF OnDisk, RunsFilesStay, runVars
    <3> QED  BY <2>1, <2>2, <3>1 DEF Counted, runVars
  <2> QED  BY <1>1, <1>2, <2>1, <2>3, OneRunCounted DEF Typed, runVars
<1>8. ASSUME Relink \/ EditPermissions \/ UNCHANGED vars PROVE WrittenInv'
  <2>1. /\ UNCHANGED <<stage, cursor, proposal>>
        /\ calm' = [r \in Runs |-> {}] \/ UNCHANGED <<links, calm>>
    BY <1>8 DEF Relink, EditPermissions, vars, runVars, world
  <2> QED  BY <1>1, <1>2, <2>1, UnmovedCounted DEF WrittenInv
<1> QED  BY <1>3, <1>4, <1>5, <1>6, <1>7, <1>8 DEF Next, JobStep

LEMMA WrittenInvariant == Spec => []WrittenInv
  BY WrittenInit, WrittenStep, CheckInvariant, PTL DEF Spec

\* A job that says it has written a proposal has, whatever other runs wrote at the
\* same time and however often it was killed and came again.
THEOREM CompletedStays == Spec => []CompletedIsOnDisk
<1>1. ASSUME CheckInv, WrittenInv PROVE CompletedIsOnDisk
  <2> SUFFICES ASSUME NEW r \in Runs, stage[r] = "completed", "job" \in calm[r],
                      NEW i \in DOMAIN proposal[r]
               PROVE  OnDisk(proposal[r][i].path)
    BY DEF CompletedIsOnDisk, OnDisk, Paths
  <2>1. Counted(r) /\ DOMAIN proposal[r] = 1..Len(proposal[r])
    BY <1>1 DEF WrittenInv, CheckInv, Typed
  <2> QED  BY <2>1 DEF Counted
<1> QED  BY <1>1, CheckInvariant, WrittenInvariant, PTL

-----------------------------------------------------------------------------
(* The logs a task is made of.                                             *)

\* What a task keeps of a log is an end of it, and with what it says is dropped it
\* is all of it: every line is kept or counted, and none that fits is dropped.
LEMMA TruncateAccounts ==
  ASSUME NEW log
  PROVE  LET kept == Truncate(log).lines
             dropped == Truncate(log).dropped
         IN  /\ IsSuffix(kept, log)
             /\ dropped + Len(kept) = Len(log)
             /\ dropped > 0 => Len(kept) = MaxLogLines
             /\ Len(kept) <= MaxLogLines
<1>1. MaxLogLines \in Nat \ {0} /\ Len(log) \in Nat  BY LimitAssumption DEF LimitAssumption
<1>2. CASE Len(log) <= MaxLogLines
  <2>1. Truncate(log) = [dropped |-> 0, lines |-> log]  BY <1>2 DEF Truncate
  <2>2. Len(Reverse(log)) \in Nat  OBVIOUS
  <2>3. IsSuffix(log, log)  BY <2>2 DEF IsSuffix, IsPrefix
  <2> QED  BY <1>1, <1>2, <2>1, <2>3
<1>3. CASE Len(log) > MaxLogLines
  <2> DEFINE d == Len(log) - MaxLogLines
             kept == SubSeq(log, d + 1, Len(log))
             S == {log[i] : i \in d + 1 .. Len(log)}
  <2>1. Truncate(log) = [dropped |-> d, lines |-> kept]  BY <1>1, <1>3 DEF Truncate
  <2>2. /\ Len(kept) = MaxLogLines
        /\ \A i \in 1..MaxLogLines : kept[i] = log[d + i]
    <3>1. d \in Nat /\ d + 1 \in Int /\ Len(log) \in Int /\ d + 1 <= Len(log)  BY <1>1, <1>3
    <3>2. \A i \in d + 1 .. Len(log) : log[i] \in S  OBVIOUS
    <3> HIDE DEF S
    <3>3. /\ Len(kept) = Len(log) - (d + 1) + 1
          /\ \A i \in 1 .. Len(log) - (d + 1) + 1 : kept[i] = log[(d + 1) + i - 1]
      BY <3>1, <3>2, SubSeqProperties
    <3> HIDE DEF kept
    <3> QED  BY <1>1, <3>1, <3>3
  <2> HIDE DEF kept
  <2>3. /\ Reverse(kept) = [i \in 1..MaxLogLines |-> kept[MaxLogLines - i + 1]]
        /\ Reverse(log) = [i \in 1..Len(log) |-> log[Len(log) - i + 1]]
    BY <2>2 DEF Reverse
  <2>4. \A i \in 1..MaxLogLines : Reverse(kept)[i] = Reverse(log)[i]
    <3> SUFFICES ASSUME NEW i \in 1..MaxLogLines PROVE Reverse(kept)[i] = Reverse(log)[i]  OBVIOUS
    <3>1. Reverse(kept)[i] = kept[MaxLogLines - i + 1]  BY <2>3
    <3>2. MaxLogLines - i + 1 \in 1..MaxLogLines  BY <1>1
    <3>3. kept[MaxLogLines - i + 1] = log[d + (MaxLogLines - i + 1)]  BY <2>2, <3>2
    <3>4. i \in 1..Len(log) /\ d + (MaxLogLines - i + 1) = Len(log) - i + 1  BY <1>1, <1>3
    <3> QED  BY <2>3, <3>1, <3>3, <3>4
  <2>5. Len(Reverse(kept)) = MaxLogLines /\ Len(Reverse(log)) = Len(log)
    BY <1>1, <2>3
  <2>6. SubSeq(Reverse(kept), 1, MaxLogLines) = SubSeq(Reverse(log), 1, MaxLogLines)
    BY <1>1, <2>4
  <2>7. IsSuffix(kept, log)  BY <1>1, <1>3, <2>5, <2>6 DEF IsSuffix, IsPrefix
  <2> QED  BY <1>1, <1>3, <2>1, <2>2, <2>7
<1> QED  BY <1>1, <1>2, <1>3

\* What a log that has been taken is kept as.
Kept(jobs) == {Truncate(jobs[i].log) : i \in 1..Included(jobs)}

\* From the check run to the task: one section for each job, in their order, up to
\* the limit; what is past it has been counted.
Fetching(r) ==
  /\ stage[r] = "new" => failed[r] = <<>> /\ sections[r] = <<>> /\ omitted[r] = 0
  /\ stage[r] \in {"logs", "task"} =>
       /\ omitted[r] = Len(failed[r]) - Included(failed[r])
       /\ sections[r] \in Seq(Kept(failed[r])) /\ Len(sections[r]) <= Included(failed[r])
       /\ \A i \in 1..Len(sections[r]) : sections[r][i] = Truncate(failed[r][i].log)
  /\ stage[r] = "task" => Len(sections[r]) = Included(failed[r])

FetchInv == \A r \in Runs : Fetching(r)

LEMMA IncludedBound ==
  ASSUME NEW jobs
  PROVE  /\ Len(jobs) \in Nat /\ Included(jobs) \in 0..MaxFailedJobs
         /\ Included(jobs) <= Len(jobs)
         /\ Included(jobs) < Len(jobs) => Included(jobs) = MaxFailedJobs
  BY LimitAssumption DEF Included, LimitAssumption

LEMMA FetchInit == Init => FetchInv
<1> SUFFICES ASSUME Init, NEW r \in Runs PROVE Fetching(r)  BY DEF FetchInv
<1>1. stage[r] = "new" /\ failed[r] = <<>> /\ sections[r] = <<>> /\ omitted[r] = 0  BY DEF Init
<1> QED  BY <1>1 DEF Fetching

\* The others are as they were.
LEMMA OneRunFetching ==
  ASSUME FetchInv, NEW r \in Runs, Fetching(r)',
         \A q \in Runs \ {r} :
           /\ stage'[q] = stage[q]
           /\ failed'[q] = failed[q] /\ sections'[q] = sections[q] /\ omitted'[q] = omitted[q]
  PROVE  FetchInv'
  BY DEF FetchInv, Fetching

LEMMA FetchInvStep == TypeInv /\ FetchInv /\ [Next]_vars => FetchInv'
<1> SUFFICES ASSUME TypeInv, FetchInv, [Next]_vars PROVE FetchInv'  OBVIOUS
<1>1. /\ RunsTyped /\ DOMAIN stage = Runs /\ \A r \in Runs : Fetching(r)
  BY DEF TypeInv, Typed, FetchInv
<1>2. ASSUME NEW r \in Runs, TakeTask(r) PROVE FetchInv'
  <2>1. /\ stage[r] = "new" /\ stage' = [stage EXCEPT ![r] = "task"] /\ UNCHANGED taskVars
    BY <1>2 DEF TakeTask, Goto
  <2>2. failed[r] = <<>> /\ sections[r] = <<>> /\ omitted[r] = 0  BY <1>1, <2>1 DEF Fetching
  <2>3. Included(<<>>) = 0 /\ Len(<<>>) = 0  BY IncludedBound
  <2>4. Fetching(r)'  BY <1>1, <2>1, <2>2, <2>3, EmptySeq DEF Fetching, taskVars
  <2> QED  BY <1>1, <2>1, <2>4, OneRunFetching DEF taskVars
<1>3. ASSUME NEW r \in Runs, ViewCheck(r) PROVE FetchInv'
  <2>1. PICK check \in Checks :
          /\ stage[r] = "new" /\ stage' = [stage EXCEPT ![r] = "logs"] /\ UNCHANGED sections
          /\ failed' = [failed EXCEPT ![r] = FailedJobs(check)]
          /\ omitted' = [omitted EXCEPT ![r] =
               Len(FailedJobs(check)) - Included(FailedJobs(check))]
    BY <1>3 DEF ViewCheck, Goto
  <2> DEFINE jobs == FailedJobs(check)
  <2>2. /\ failed'[r] = jobs /\ omitted'[r] = Len(jobs) - Included(jobs) /\ sections'[r] = <<>>
        /\ stage'[r] = "logs"
    BY <1>1, <2>1 DEF RunsTyped, Fetching
  <2> HIDE DEF jobs
  <2>3. Fetching(r)'  BY <2>2, EmptySeq, IncludedBound DEF Fetching
  <2> QED  BY <1>1, <2>1, <2>3, OneRunFetching DEF RunsTyped
<1>4. ASSUME NEW r \in Runs, FetchLog(r) PROVE FetchInv'
  <2> DEFINE next == Len(sections[r]) + 1
             section == Truncate(failed[r][next].log)
  <2>1. /\ stage[r] = "logs" /\ stage' = [stage EXCEPT ![r] = "logs"]
        /\ UNCHANGED <<failed, omitted>> /\ next - 1 < Included(failed[r])
        /\ sections' = [sections EXCEPT ![r] = Append(@, section)]
    BY <1>4 DEF FetchLog, Goto
  <2>2. /\ omitted[r] = Len(failed[r]) - Included(failed[r])
        /\ sections[r] \in Seq(Kept(failed[r]))
        /\ \A i \in 1..Len(sections[r]) : sections[r][i] = Truncate(failed[r][i].log)
    BY <1>1, <2>1 DEF Fetching
  <2>3. Included(failed[r]) \in Nat /\ Len(sections[r]) \in Nat  BY IncludedBound
  <2>4. section \in Kept(failed[r])  BY <2>1, <2>3 DEF Kept
  <2> HIDE DEF section
  <2>5. /\ Append(sections[r], section) \in Seq(Kept(failed[r]))
        /\ Len(Append(sections[r], section)) = next
        /\ \A i \in 1..Len(sections[r]) : Append(sections[r], section)[i] = sections[r][i]
        /\ Append(sections[r], section)[next] = section
    BY <2>2, <2>4, AppendProperties
  <2>6. sections'[r] = Append(sections[r], section) /\ stage'[r] = "logs"
    BY <1>1, <2>1 DEF RunsTyped
  <2>7. \A i \in 1..next : Append(sections[r], section)[i] = Truncate(failed[r][i].log)
    <3> SUFFICES ASSUME NEW i \in 1..next
                 PROVE  Append(sections[r], section)[i] = Truncate(failed[r][i].log)
      OBVIOUS
    <3>1. CASE i = next  BY <2>5, <3>1 DEF section
    <3>2. CASE i \in 1..Len(sections[r])  BY <2>2, <2>5, <3>2
    <3> QED  BY <2>3, <3>1, <3>2
  <2>8. Fetching(r)'
    <3> DEFINE t == Append(sections[r], section)
    <3>1. /\ sections'[r] = t /\ stage'[r] = "logs" /\ failed' = failed /\ omitted' = omitted
          /\ t \in Seq(Kept(failed[r])) /\ Len(t) = next /\ next <= Included(failed[r])
          /\ \A i \in 1..Len(t) : t[i] = Truncate(failed[r][i].log)
      BY <2>1, <2>3, <2>5, <2>6, <2>7
    <3> HIDE DEF t
    <3> QED  BY <2>2, <3>1 DEF Fetching
  <2> QED  BY <1>1, <2>1, <2>8, OneRunFetching DEF RunsTyped
<1>5. ASSUME NEW r \in Runs, ComposeTask(r) PROVE FetchInv'
  <2>1. /\ stage[r] = "logs" /\ stage' = [stage EXCEPT ![r] = "task"] /\ UNCHANGED taskVars
        /\ Len(sections[r]) = Included(failed[r])
    BY <1>5 DEF ComposeTask, Goto
  <2>2. Fetching(r)'  BY <1>1, <2>1 DEF Fetching, taskVars
  <2> QED  BY <1>1, <2>1, <2>2, OneRunFetching DEF taskVars
<1>6. ASSUME NEW r \in Runs, FailFetch(r) \/ ProposeStep(r) PROVE FetchInv'
  <2>1. /\ \E s \in Stages \ {"new", "logs", "task"} : stage' = [stage EXCEPT ![r] = s]
        /\ \A q \in Runs \ {r} :
             failed'[q] = failed[q] /\ sections'[q] = sections[q] /\ omitted'[q] = omitted[q]
    BY <1>1, <1>6
    DEF FailFetch, ProposeStep, LoadPermissions, ParseResponse, LoseRun, ValidateProposal, Goto,
        Stages, Accepted, taskVars, RunsTyped
  <2>2. Fetching(r)'  BY <1>1, <2>1 DEF Fetching
  <2> QED  BY <1>1, <2>1, <2>2, OneRunFetching
<1>7. ASSUME NEW r \in Runs, JobStep(r) \/ KillJob(r) \/ Requeue(r) PROVE FetchInv'
  <2>1. /\ UNCHANGED taskVars /\ stage[r] \notin {"new", "logs", "task"}
        /\ \E s \in Stages \ {"new", "logs", "task"} : stage' = [stage EXCEPT ![r] = s]
    BY <1>1, <1>7
    DEF JobStep, ReloadPermissions, LoseJob, CheckProposal, WriteFile, FailWrite, CompleteRun, KillJob,
        Requeue, Goto, Stages, Accepted, RunsTyped
  <2>2. Fetching(r)'  BY <1>1, <2>1 DEF Fetching
  <2> QED  BY <1>1, <2>1, <2>2, OneRunFetching DEF taskVars
<1>8. ASSUME Relink \/ EditPermissions \/ UNCHANGED vars PROVE FetchInv'
  <2>1. UNCHANGED <<stage, failed, sections, omitted>>
    BY <1>8 DEF Relink, EditPermissions, vars, taskVars
  <2> QED  BY <1>1, <2>1 DEF FetchInv, Fetching
<1> QED  BY <1>2, <1>3, <1>4, <1>5, <1>6, <1>7, <1>8 DEF Next, FetchStep

LEMMA FetchInvariant == Spec => []FetchInv
  BY FetchInit, FetchInvStep, TypeInvariant, PTL DEF Spec

\* However long the logs and however many the jobs, the task of a failed check has
\* an end of each log and counts what it leaves out.
THEOREM TaskAccounts == Spec => []TaskAccountsForLogs
<1>1. ASSUME FetchInv PROVE TaskAccountsForLogs
  <2> SUFFICES ASSUME NEW r \in Runs, stage[r] = "task"
      PROVE  /\ Len(sections[r]) + omitted[r] = Len(failed[r])
             /\ omitted[r] > 0 => Len(sections[r]) = MaxFailedJobs
             /\ Len(sections[r]) <= MaxFailedJobs
             /\ \A i \in DOMAIN sections[r] :
                  LET log == failed[r][i].log
                      kept == sections[r][i].lines
                      dropped == sections[r][i].dropped
                  IN  /\ IsSuffix(kept, log)
                      /\ dropped + Len(kept) = Len(log)
                      /\ dropped > 0 => Len(kept) = MaxLogLines
                      /\ Len(kept) <= MaxLogLines
    BY DEF TaskAccountsForLogs
  <2>1. /\ omitted[r] = Len(failed[r]) - Included(failed[r])
        /\ sections[r] \in Seq(Kept(failed[r])) /\ Len(sections[r]) = Included(failed[r])
        /\ \A i \in 1..Len(sections[r]) : sections[r][i] = Truncate(failed[r][i].log)
    BY <1>1 DEF FetchInv, Fetching
  <2>2. /\ Len(sections[r]) + omitted[r] = Len(failed[r])
        /\ omitted[r] > 0 => Len(sections[r]) = MaxFailedJobs
        /\ Len(sections[r]) <= MaxFailedJobs
    BY <2>1, IncludedBound, LimitAssumption DEF LimitAssumption
  <2>3. DOMAIN sections[r] = 1..Len(sections[r])  BY <2>1, LenProperties
  <2>4. \A i \in DOMAIN sections[r] : sections[r][i] = Truncate(failed[r][i].log)
    BY <2>1, <2>3
  <2> QED  BY <2>2, <2>4, TruncateAccounts
<1> QED  BY <1>1, FetchInvariant, PTL
=============================================================================
