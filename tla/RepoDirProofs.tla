--------------------------- MODULE RepoDirProofs ----------------------------
(***************************************************************************)
(* Proofs about RepoDir, for any list of scaffolded files and any number   *)
(* of commands.  What keeps an init from overwriting is that mkdir fails   *)
(* when the directory is there: of all the inits that have passed the      *)
(* check one goes on, and it writes only files no user has been at.        *)
(***************************************************************************)
EXTENDS RepoDir, TLAPS

\* An init that has made the directory and is not done with it.
Filling(i) == pc[i] \in {"open", "flush"}

\* A file has a text, or a worker is about to give it one.
Whole(f) == config[f] \in Texts \/ AppliedTo(f)

\* The types the argument needs.
Typed ==
  /\ DOMAIN config = ConfigFiles
  /\ DOMAIN pc = Commands
  /\ DOMAIN at = Workers
  /\ next \in [Inits -> Nat]

\* Nothing is scaffolded, or being applied, before the directory is made.
NothingWithoutDir ==
  ~dir => /\ \A f \in ConfigFiles : config[f] = NoFile
          /\ \A w \in Workers : pc[w] # "flush applied"

\* One init in all has made the directory.
OneMaker ==
  /\ \A i \in Inits : Filling(i) \/ pc[i] = "initialized" => dir
  /\ \A i, j \in Inits :
       (Filling(i) \/ pc[i] = "initialized") /\ (Filling(j) \/ pc[j] = "initialized") => i = j

\* What it has written is whole, what it has not is no user's.
Filled(i) ==
  /\ next[i] \in 1..Len(Scaffold)
  /\ \A k \in 1..Len(Scaffold) :
       IF k < next[i] THEN Whole(Scaffold[k]) ELSE config[Scaffold[k]] \notin UserTexts

FilledInOrder ==
  \A i \in Inits :
    /\ Filling(i) => Filled(i)
    /\ pc[i] \in {"check", "mkdir"} => next[i] = 1

\* A worker is at a file between its two halves, or was killed there.
AtOneFile ==
  \A w \in Workers :
    /\ pc[w] = "flush applied" => at[w] \in ConfigFiles
    /\ pc[w] \notin {"flush applied", "killed"} => at[w] = NoFile

DirInv ==
  Typed /\ NothingWithoutDir /\ OneMaker /\ FilledInOrder /\ AtOneFile /\ InitializedIsComplete

\* The scaffolded files are listed once each, and a file that is missing or
\* being written has no text.
LEMMA Names ==
  /\ Len(Scaffold) \in Nat /\ 1 \in 1..Len(Scaffold)
  /\ \A k \in 1..Len(Scaffold) : Scaffold[k] \in ConfigFiles
  /\ \A f \in ConfigFiles : \E k \in 1..Len(Scaffold) : f = Scaffold[k]
  /\ \A j, k \in 1..Len(Scaffold) : Scaffold[j] = Scaffold[k] => j = k
  /\ NoFile # Truncated /\ NoFile \notin Texts /\ Truncated \notin Texts /\ NoFile \notin ConfigFiles
  /\ UserTexts \subseteq Texts /\ AppliedTexts \subseteq Texts /\ UserTexts \cap AppliedTexts = {}
<1>1. Len(Scaffold) \in Nat  BY ScaffoldAssumption DEF ScaffoldAssumption
<1>2. \E k \in 1..Len(Scaffold) : Permissions = Scaffold[k]
  BY ScaffoldAssumption DEF ScaffoldAssumption, ConfigFiles
<1>3. 1 \in 1..Len(Scaffold)  BY <1>1, <1>2
<1>4. UserTexts \subseteq Texts /\ AppliedTexts \subseteq Texts /\ UserTexts \cap AppliedTexts = {}
  BY DEF Texts, UserTexts, AppliedTexts
<1> QED
  BY <1>1, <1>3, <1>4, ScaffoldAssumption, SentinelAssumption
  DEF ScaffoldAssumption, SentinelAssumption, ConfigFiles

\* Inits, builders and workers are different commands.
LEMMA Kinds ==
  /\ \A i \in Inits : i \in Commands /\ i \notin Builders /\ i \notin Workers
  /\ \A b \in Builders : b \in Commands /\ b \notin Inits /\ b \notin Workers
  /\ \A w \in Workers : w \in Commands /\ w \notin Inits /\ w \notin Builders
  /\ \A r \in Runs : r \in Builders
  BY CommandAssumption DEF CommandAssumption, Commands, Builders

\* The initial states satisfy the invariant.
LEMMA DirInvInit == Init => DirInv
<1> SUFFICES ASSUME Init PROVE DirInv  OBVIOUS
<1>1. Typed  BY DEF Init, Typed
<1>2. \A i \in Inits : pc[i] = "check" /\ next[i] = 1  BY Kinds DEF Init
<1>3. \A w \in Workers : at[w] = NoFile /\ pc[w] # "flush applied"
  BY Kinds DEF Init, Builders
<1>4. NothingWithoutDir  BY <1>3 DEF Init, NothingWithoutDir
<1> QED
  BY <1>1, <1>2, <1>3, <1>4
  DEF DirInv, OneMaker, FilledInOrder, Filled, Filling, AtOneFile, InitializedIsComplete

\* A step that keeps whole what is whole, gives an init that is at work no user's
\* text to write over, and moves no init, keeps the invariant.
LEMMA OthersKeep ==
  ASSUME DirInv, Typed', NothingWithoutDir', AtOneFile', next' = next, dir => dir',
         \A i \in Inits : pc'[i] = pc[i] \/ pc'[i] = "killed",
         \A f \in ConfigFiles : Whole(f) => Whole(f)',
         \A f \in ConfigFiles : \/ config'[f] \in UserTexts => config[f] \in UserTexts
                                \/ \A i \in Inits : f \notin Unwritten(i)
  PROVE  DirInv'
<1>1. OneMaker'  BY DEF DirInv, OneMaker, Filling
<1>2. ASSUME NEW i \in Inits, Filling(i)' PROVE Filled(i)'
  <2>1. pc'[i] = pc[i] /\ Filled(i) /\ Filling(i)  BY <1>2 DEF DirInv, FilledInOrder, Filling
  <2>2. \A k \in 1..Len(Scaffold) : k < next[i] => Whole(Scaffold[k])'
    BY <2>1, Names DEF Filled
  <2>3. ASSUME NEW k \in 1..Len(Scaffold), ~(k < next[i]) PROVE config'[Scaffold[k]] \notin UserTexts
    <3>1. k \in next[i]..Len(Scaffold)  BY <2>1, <2>3, Names DEF Filled
    <3>2. Scaffold[k] \in Unwritten(i)  BY <2>1, <3>1 DEF Unwritten, Filling
    <3> QED  BY <2>1, <2>3, <3>2, Names DEF Filled
  <2> QED  BY <2>1, <2>2, <2>3 DEF Filled
<1>3. FilledInOrder'  BY <1>2 DEF DirInv, FilledInOrder
<1>4. InitializedIsComplete'  BY DEF DirInv, InitializedIsComplete, Whole
<1> QED  BY <1>1, <1>3, <1>4 DEF DirInv

\* So does one that leaves the scaffolded files alone.
LEMMA ConfigKept ==
  ASSUME DirInv, UNCHANGED <<config, next, at>>, dir => dir', DOMAIN pc' = Commands,
         \A p \in Inits \cup Workers : pc'[p] = pc[p] \/ pc'[p] = "killed"
  PROVE  DirInv'
<1>1. Typed' /\ NothingWithoutDir'  BY DEF DirInv, Typed, NothingWithoutDir
<1>2. AtOneFile'  BY DEF DirInv, AtOneFile
<1> QED  BY <1>1, <1>2, OthersKeep DEF Whole, AppliedTo

\* A step of an init keeps the invariant.
LEMMA InitKeeps ==
  ASSUME DirInv, NEW i \in Inits, InitStep(i)
  PROVE  DirInv'
<1>0. i \in Commands /\ at' = at /\ AtOneFile' /\ \A w \in Workers : pc'[w] = pc[w]
  <2>1. at' = at /\ \E s : pc' = [pc EXCEPT ![i] = s]
    BY DEF InitStep, CheckDir, MakeDir, OpenConfig, FlushConfig, Go
  <2> QED  BY <2>1, Kinds DEF DirInv, Typed, AtOneFile
<1>1. \A f \in ConfigFiles : AppliedTo(f)' <=> AppliedTo(f)  BY <1>0 DEF AppliedTo
<1>2. CASE CheckDir(i)
  <2>1. UNCHANGED <<dir, config, next>>  BY <1>2 DEF CheckDir, files
  <2>2. /\ pc[i] = "check"
        /\ pc' = [pc EXCEPT ![i] = IF dir THEN "untouched" ELSE "mkdir"]
    BY <1>2 DEF CheckDir, Go
  <2>3. Typed'  BY <1>0, <2>1, <2>2 DEF DirInv, Typed
  <2>4. \A j \in Inits :
          pc'[j] = pc[j] \/ (pc[j] = "check" /\ pc'[j] \in {"untouched", "mkdir"})
    BY <1>0, <2>2 DEF DirInv, Typed
  <2>5. \A f \in ConfigFiles : Whole(f)' <=> Whole(f)  BY <1>1, <2>1 DEF Whole
  <2>6. \A j \in Inits : Filled(j)' <=> Filled(j)  BY <2>1, <2>5, Names DEF Filled
  <2> QED
    BY <1>0, <1>1, <2>1, <2>3, <2>4, <2>6 DEF DirInv, NothingWithoutDir, OneMaker,
       FilledInOrder, Filling, InitializedIsComplete
<1>3. CASE MakeDir(i)
  <2>1. /\ UNCHANGED <<config, next>> /\ dir' = TRUE /\ pc[i] = "mkdir"
        /\ pc' = [pc EXCEPT ![i] = IF dir THEN "failed" ELSE "open"]
    BY <1>3 DEF MakeDir, Go
  <2>2. Typed'  BY <1>0, <2>1 DEF DirInv, Typed
  <2>3. /\ pc'[i] = IF dir THEN "failed" ELSE "open"
        /\ \A j \in Inits \ {i} : pc'[j] = pc[j]
    BY <1>0, <2>1 DEF DirInv, Typed
  <2>4. \A f \in ConfigFiles : Whole(f)' <=> Whole(f)  BY <1>1, <2>1 DEF Whole
  <2>5. \A j \in Inits : Filled(j)' <=> Filled(j)  BY <2>1, <2>4, Names DEF Filled
  <2>6. CASE dir
    BY <1>0, <1>1, <2>1, <2>2, <2>3, <2>5, <2>6 DEF DirInv, NothingWithoutDir, OneMaker,
       FilledInOrder, Filling, InitializedIsComplete
  <2>7. CASE ~dir
    <3>1. \A j \in Inits \ {i} : ~Filling(j)' /\ pc'[j] # "initialized"
      BY <2>3, <2>7 DEF DirInv, OneMaker, Filling
    <3>2. next[i] = 1 /\ \A k \in 1..Len(Scaffold) : config[Scaffold[k]] = NoFile
      BY <2>1, <2>7, Names DEF DirInv, NothingWithoutDir, FilledInOrder
    <3>3. Filled(i)'
      BY <2>1, <3>2, Names DEF Filled
    <3>4. OneMaker'  BY <2>1, <3>1 DEF OneMaker
    <3>5. FilledInOrder'
      BY <2>1, <2>3, <2>7, <3>1, <3>3 DEF DirInv, FilledInOrder
    <3>6. InitializedIsComplete'  BY <2>3, <2>7, <3>1 DEF InitializedIsComplete
    <3> QED  BY <1>0, <2>1, <2>2, <3>4, <3>5, <3>6 DEF DirInv, NothingWithoutDir
  <2> QED  BY <2>6, <2>7
<1>4. CASE OpenConfig(i) \/ FlushConfig(i)
  <2>0. PICK n \in Nat : n = next[i]  BY DEF DirInv, Typed
  <2>1. /\ Filling(i) /\ Filled(i) /\ dir /\ dir' = dir
        /\ \A j \in Inits \ {i} : ~Filling(j) /\ pc[j] # "initialized"
    BY <1>4 DEF OpenConfig, FlushConfig, Filling, DirInv, FilledInOrder, OneMaker
  <2>2. \A j \in Inits \ {i} : pc'[j] = pc[j] /\ next'[j] = next[j]
    <3>1. /\ next' = next \/ next' = [next EXCEPT ![i] = next[i] + 1]
          /\ \E s : pc' = [pc EXCEPT ![i] = s]
      BY <1>4 DEF OpenConfig, FlushConfig, Go
    <3> QED  BY <3>1, Kinds DEF DirInv, Typed
  <2>3. n \in 1..Len(Scaffold)  BY <2>0, <2>1 DEF Filled
  <2>4. /\ DOMAIN config' = ConfigFiles
        /\ \A k \in 1..Len(Scaffold) \ {n} : config'[Scaffold[k]] = config[Scaffold[k]]
    BY <1>4, <2>0, <2>3, Names DEF OpenConfig, FlushConfig, DirInv, Typed
  <2>5. Typed'  BY <1>0, <1>4, <2>0, <2>3, <2>4, Names DEF OpenConfig, FlushConfig, Go, DirInv, Typed
  <2>6. NothingWithoutDir'  BY <2>1 DEF NothingWithoutDir
  <2>7. OneMaker'  BY <2>1, <2>2 DEF OneMaker, Filling
  <2>8. \A j \in Inits \ {i} : ~Filling(j)' /\ (pc'[j] \in {"check", "mkdir"} => next'[j] = 1)
    BY <2>1, <2>2 DEF Filling, DirInv, FilledInOrder
  <2>9. \A k \in 1..Len(Scaffold) \ {n} : Whole(Scaffold[k])' <=> Whole(Scaffold[k])
    BY <1>1, <2>4, Names DEF Whole
  <2>10. CASE OpenConfig(i)
    <3>1. /\ pc'[i] = "flush" /\ next' = next /\ config'[Scaffold[n]] = Truncated
      BY <1>0, <2>0, <2>3, <2>10, Names DEF OpenConfig, Go, DirInv, Typed
    <3>2. Filled(i)'  BY <2>0, <2>1, <2>3, <2>4, <2>9, <3>1, Names DEF Filled
    <3>3. FilledInOrder'  BY <2>8, <3>1, <3>2 DEF FilledInOrder
    <3>4. InitializedIsComplete'  BY <2>1, <2>2, <3>1 DEF InitializedIsComplete
    <3> QED  BY <1>0, <2>5, <2>6, <2>7, <3>3, <3>4 DEF DirInv
  <2>11. CASE FlushConfig(i)
    <3>1. /\ pc'[i] = IF n = Len(Scaffold) THEN "initialized" ELSE "open"
          /\ next'[i] = n + 1 /\ config'[Scaffold[n]] \in Texts
      <4>1. PICK text \in {"default"} \cup AppliedTexts : config' = [config EXCEPT ![Scaffold[n]] = text]
        BY <2>0, <2>11 DEF FlushConfig
      <4>2. text \in Texts  BY DEF Texts
      <4>3. config'[Scaffold[n]] \in Texts  BY <2>3, <4>1, <4>2, Names DEF DirInv, Typed
      <4> QED  BY <1>0, <2>0, <2>11, <4>3 DEF FlushConfig, Go, DirInv, Typed
    <3>2. \A k \in 1..Len(Scaffold) :
            /\ k < n + 1 => Whole(Scaffold[k])'
            /\ k >= n + 1 => config'[Scaffold[k]] \notin UserTexts
      <4>1. Whole(Scaffold[n])'  BY <3>1 DEF Whole
      <4>2. \A k \in 1..Len(Scaffold) : k < n => Whole(Scaffold[k])'
        BY <2>0, <2>1, <2>3, <2>9, Names DEF Filled
      <4>3. \A k \in 1..Len(Scaffold) : k > n => config'[Scaffold[k]] \notin UserTexts
        BY <2>0, <2>1, <2>3, <2>4, Names DEF Filled
      <4>4. \A k \in 1..Len(Scaffold) : (k < n + 1 => k < n \/ k = n) /\ (k >= n + 1 => k > n)
        <5>1. n \in Nat /\ Len(Scaffold) \in Nat  BY <2>0, Names
        <5> QED  BY <5>1
      <4> QED  BY <4>1, <4>2, <4>3, <4>4
    <3>3. Filling(i)' => Filled(i)'
      BY <2>3, <3>1, <3>2, Names DEF Filled, Filling
    <3>4. FilledInOrder'  BY <2>8, <3>1, <3>3 DEF FilledInOrder
    <3>5. InitializedIsComplete'
      BY <2>1, <2>2, <2>3, <3>1, <3>2, Names DEF InitializedIsComplete, Whole
    <3> QED  BY <1>0, <2>5, <2>6, <2>7, <3>4, <3>5 DEF DirInv
  <2> QED  BY <1>4, <2>10, <2>11
<1> QED  BY <1>2, <1>3, <1>4 DEF InitStep

\* A step of a build keeps the invariant: it may make the directory, no more.
LEMMA BuildKeeps ==
  ASSUME DirInv, NEW b \in Builders, BuildStep(b)
  PROVE  DirInv'
<1>1. UNCHANGED <<config, next, at>> /\ (UNCHANGED dir \/ dir' = TRUE) /\ \E s : Go(b, s)
  BY DEF BuildStep, FailGit, BuildSnapshot, BuildSymbolIndex, OpenSnapshot, FlushSnapshot,
     OpenSymbols, FlushSymbols, files
<1>2. DOMAIN pc' = Commands /\ \A p \in Inits \cup Workers : pc'[p] = pc[p]
  BY <1>1, Kinds DEF Go, DirInv, Typed
<1> QED  BY <1>1, <1>2, ConfigKept

\* A step of `idemra run' outside its build keeps it.
LEMMA RunKeeps ==
  ASSUME DirInv, NEW r \in Runs, RunStep(r)
  PROVE  DirInv'
<1>1. UNCHANGED <<config, next, at, dir>> /\ \E s : Go(r, s)
  BY DEF RunStep, LoadPermissions, Gate, files
<1>2. DOMAIN pc' = Commands /\ \A p \in Inits \cup Workers : pc'[p] = pc[p]
  BY <1>1, Kinds DEF Go, DirInv, Typed
<1> QED  BY <1>1, <1>2, ConfigKept

\* A step of a worker keeps it: it gives no file a user's text, and one that it
\* has truncated it is about to write.
LEMMA JobKeeps ==
  ASSUME DirInv, NEW w \in Workers, JobStep(w)
  PROVE  DirInv'
<1>0. /\ next' = next /\ w \in Commands /\ (UNCHANGED dir \/ dir' = TRUE)
      /\ DOMAIN pc' = Commands /\ \A p \in Commands \ {w} : pc'[p] = pc[p]
      /\ \A i \in Inits : i \in Commands \ {w}
  BY Kinds DEF JobStep, ReloadPermissions, OpenApplied, FlushApplied, OverwriteArtifacts, EndJob, Go,
     files, DirInv, Typed
<1>1. CASE ReloadPermissions(w) \/ OverwriteArtifacts(w) \/ EndJob(w)
  <2>1. /\ UNCHANGED <<config, at>> /\ (dir => dir')
        /\ pc[w] \in {"reload", "apply"} /\ pc'[w] \in {"reload", "apply"}
    BY <1>0, <1>1 DEF ReloadPermissions, OverwriteArtifacts, EndJob, Go, files, DirInv, Typed
  <2>2. Typed' /\ NothingWithoutDir'  BY <1>0, <2>1, Kinds DEF DirInv, Typed, NothingWithoutDir
  <2>3. AtOneFile'  BY <1>0, <2>1, Kinds DEF DirInv, AtOneFile
  <2> QED  BY <1>0, <2>1, <2>2, <2>3, OthersKeep DEF Whole, AppliedTo
<1>2. CASE OpenApplied(w)
  <2>1. PICK f \in ConfigFiles : /\ config' = [config EXCEPT ![f] = Truncated]
                                 /\ at' = [at EXCEPT ![w] = f]
    BY <1>2 DEF OpenApplied
  <2>2. dir' = TRUE /\ pc[w] = "apply" /\ pc'[w] = "flush applied" /\ at[w] = NoFile
    BY <1>0, <1>2 DEF OpenApplied, Go, DirInv, Typed, AtOneFile
  <2>3. /\ \A g \in ConfigFiles : config'[g] = IF g = f THEN Truncated ELSE config[g]
        /\ \A v \in Workers : at'[v] = IF v = w THEN f ELSE at[v]
    BY <2>1 DEF DirInv, Typed
  <2>4. Typed' /\ NothingWithoutDir' /\ AtOneFile'
    BY <1>0, <2>1, <2>2, <2>3, Kinds DEF DirInv, Typed, NothingWithoutDir, AtOneFile
  <2>5. ASSUME NEW g \in ConfigFiles, Whole(g) PROVE Whole(g)'
    <3>1. AppliedTo(g) => AppliedTo(g)'  BY <2>2, <2>3, Names DEF AppliedTo
    <3>2. AppliedTo(f)'  BY <2>3 DEF AppliedTo
    <3> QED  BY <2>3, <2>5, <3>1, <3>2 DEF Whole
  <2>6. \A g \in ConfigFiles : config'[g] \in UserTexts => config[g] \in UserTexts
    BY <2>3, Names
  <2> QED  BY <1>0, <2>2, <2>4, <2>5, <2>6, OthersKeep
<1>3. CASE FlushApplied(w)
  <2> DEFINE f == at[w]
  <2>1. /\ pc[w] = "flush applied" /\ pc'[w] = "apply" /\ UNCHANGED dir /\ f \in ConfigFiles
        /\ at' = [at EXCEPT ![w] = NoFile]
        /\ \E text \in AppliedTexts : config' = [config EXCEPT ![f] = text]
    BY <1>0, <1>3 DEF FlushApplied, Go, DirInv, Typed, AtOneFile
  <2>2. /\ config'[f] \in AppliedTexts
        /\ \A g \in ConfigFiles \ {f} : config'[g] = config[g]
        /\ \A v \in Workers : at'[v] = IF v = w THEN NoFile ELSE at[v]
    BY <2>1 DEF DirInv, Typed
  <2>3. Typed' /\ AtOneFile'
    BY <1>0, <2>1, <2>2, Kinds DEF DirInv, Typed, AtOneFile
  <2>4. dir  BY <2>1 DEF DirInv, NothingWithoutDir
  <2>5. NothingWithoutDir'  BY <2>1, <2>4 DEF NothingWithoutDir
  <2>6. ASSUME NEW g \in ConfigFiles, Whole(g) PROVE Whole(g)'
    <3>1. CASE g = f  BY <2>2, <3>1, Names DEF Whole
    <3>2. CASE g # f  BY <2>2, <2>6, <3>2 DEF Whole, AppliedTo
    <3> QED  BY <3>1, <3>2
  <2>7. \A g \in ConfigFiles : config'[g] \in UserTexts => config[g] \in UserTexts
    BY <2>2, Names
  <2> QED  BY <1>0, <2>1, <2>3, <2>5, <2>6, <2>7, OthersKeep
<1> QED  BY <1>1, <1>2, <1>3 DEF JobStep

\* A user's edit keeps it: it replaces one text by another, and leaves alone what
\* an init is to write.
LEMMA EditKeeps ==
  ASSUME DirInv, NEW f \in ConfigFiles, EditConfig(f)
  PROVE  DirInv'
<1>1. /\ UNCHANGED <<dir, pc, next, at>> /\ config[f] \in Texts /\ \A i \in Inits : f \notin Unwritten(i)
      /\ \E t \in UserTexts : config' = [config EXCEPT ![f] = t]
  BY DEF EditConfig
<1>2. \A g \in ConfigFiles : IF g = f THEN config'[g] \in Texts ELSE config'[g] = config[g]
  BY <1>1, Names DEF DirInv, Typed
<1>3. Typed' /\ AtOneFile'  BY <1>1 DEF DirInv, Typed, AtOneFile
<1>4. NothingWithoutDir'  BY <1>1, Names DEF DirInv, NothingWithoutDir
<1>5. \A g \in ConfigFiles : Whole(g) => Whole(g)'  BY <1>1, <1>2 DEF Whole, AppliedTo
<1>6. \A g \in ConfigFiles : \/ config'[g] \in UserTexts => config[g] \in UserTexts
                             \/ \A i \in Inits : g \notin Unwritten(i)
  BY <1>1, <1>2
<1> QED  BY <1>1, <1>3, <1>4, <1>5, <1>6, OthersKeep

\* Every step keeps the invariant.
LEMMA DirInvStep == DirInv /\ [Next]_vars => DirInv'
<1> SUFFICES ASSUME DirInv, [Next]_vars PROVE DirInv'  OBVIOUS
<1>1. ASSUME NEW p \in Commands, Kill(p) PROVE DirInv'
  <2>1. UNCHANGED <<config, next, at, dir>> /\ Go(p, "killed")  BY <1>1 DEF Kill, files
  <2>2. DOMAIN pc' = Commands /\ \A q \in Inits \cup Workers : pc'[q] = pc[q] \/ pc'[q] = "killed"
    BY <2>1, Kinds DEF Go, DirInv, Typed
  <2> QED  BY <2>1, <2>2, ConfigKept
<1>2. CASE UNCHANGED vars
  BY <1>2, ConfigKept DEF vars, DirInv, Typed
<1> QED  BY <1>1, <1>2, InitKeeps, BuildKeeps, RunKeeps, JobKeeps, EditKeeps DEF Next

\* The invariant holds of every behaviour.
LEMMA DirInvariant == Spec => []DirInv
  BY DirInvInit, DirInvStep, PTL DEF Spec

\* An init that reported success has left, for good, a configuration that is
\* whole, for any number of inits: a file of it that is not is one a worker has
\* truncated to apply a run to it.
THEOREM InitializedStaysComplete == Spec => []InitializedIsComplete
<1>1. DirInv => InitializedIsComplete  BY DEF DirInv
<1> QED  BY <1>1, DirInvariant, PTL

\* An init is only ever at a file without a user's text; a worker that takes one
\* away begins to apply a run to the file, or is done with it.
LEMMA StepKeepsUserTexts ==
  ASSUME DirInv, [Next]_vars, NEW f \in ConfigFiles, config[f] \in UserTexts,
         config'[f] \notin UserTexts
  PROVE  \E w \in Workers : at'[w] # at[w] /\ f \in {at[w], at'[w]}
<1>0. DOMAIN config = ConfigFiles /\ DOMAIN at = Workers /\ config'[f] # config[f]
  BY DEF DirInv, Typed
<1>1. ASSUME NEW i \in Inits, InitStep(i) PROVE FALSE
  <2>1. OpenConfig(i) \/ FlushConfig(i)
    BY <1>0, <1>1 DEF InitStep, CheckDir, MakeDir, files
  <2>2. next[i] \in 1..Len(Scaffold) /\ config[Scaffold[next[i]]] \notin UserTexts
    BY <2>1, Names DEF OpenConfig, FlushConfig, Filling, DirInv, FilledInOrder, Filled
  <2>3. f # Scaffold[next[i]]  BY <2>2
  <2> QED  BY <1>0, <2>1, <2>3 DEF OpenConfig, FlushConfig
<1>2. ASSUME NEW w \in Workers, JobStep(w) PROVE at'[w] # at[w] /\ f \in {at[w], at'[w]}
  <2>1. CASE OpenApplied(w)
    <3>1. PICK g \in ConfigFiles : /\ config' = [config EXCEPT ![g] = Truncated]
                                   /\ at' = [at EXCEPT ![w] = g]
      BY <2>1 DEF OpenApplied
    <3>2. at[w] = NoFile /\ at'[w] = g /\ g = f
      BY <1>0, <2>1, <3>1 DEF OpenApplied, DirInv, AtOneFile
    <3> QED  BY <3>2, Names
  <2>2. CASE FlushApplied(w)
    <3>1. /\ at[w] \in ConfigFiles /\ at'[w] = NoFile
          /\ \E text \in AppliedTexts : config' = [config EXCEPT ![at[w]] = text]
      BY <1>0, <2>2 DEF FlushApplied, DirInv, AtOneFile
    <3>2. at[w] = f  BY <1>0, <3>1
    <3> QED  BY <3>1, <3>2, Names
  <2>3. CASE ReloadPermissions(w) \/ OverwriteArtifacts(w) \/ EndJob(w)
    BY <1>0, <2>3 DEF ReloadPermissions, OverwriteArtifacts, EndJob, files
  <2> QED  BY <1>2, <2>1, <2>2, <2>3 DEF JobStep
<1>3. ASSUME NEW g \in ConfigFiles, EditConfig(g) PROVE FALSE
  BY <1>0, <1>3 DEF EditConfig
<1>4. ASSUME NEW b \in Builders, BuildStep(b) PROVE FALSE
  BY <1>0, <1>4 DEF BuildStep, FailGit, BuildSnapshot, BuildSymbolIndex, OpenSnapshot,
     FlushSnapshot, OpenSymbols, FlushSymbols, files
<1>5. ASSUME NEW r \in Runs, RunStep(r) PROVE FALSE
  BY <1>0, <1>5 DEF RunStep, LoadPermissions, Gate, files
<1>6. ASSUME (\E p \in Commands : Kill(p)) \/ UNCHANGED vars PROVE FALSE
  BY <1>0, <1>6 DEF Kill, files, vars
<1> QED  BY <1>1, <1>2, <1>3, <1>4, <1>5, <1>6 DEF Next

\* No init, index or run ever undoes what a user has made of a scaffolded file,
\* for any number of inits that found no directory at the same time: what takes
\* it away is a worker that applies a run to the file.
THEOREM InitNeverOverwrites == Spec => UserTextSurvives
<1>1. DirInv /\ [Next]_vars =>
        [\A f \in ConfigFiles : config[f] \in UserTexts /\ config'[f] \notin UserTexts =>
           \E w \in Workers : at'[w] # at[w] /\ f \in {at[w], at'[w]}]_vars
  BY StepKeepsUserTexts
<1> QED  BY <1>1, DirInvariant, PTL DEF Spec, UserTextSurvives

-----------------------------------------------------------------------------
(* The two artifacts.  As long as no other builder, and no worker's write to  *)
(* them, is beside it, what a builder has truncated stays truncated until it  *)
(* writes it, and what it has written stays: the invariant says which of the  *)
(* two it has got to.                                                         *)

Done == {"built", "gate", "awaiting", "queued"}

Alone(b) == \A c \in Builders \ {b} : ~Building(c)

Progress(b) ==
  /\ pc[b] = "flush snapshot" => snapshot = Truncated
  /\ pc[b] \in {"open symbols", "flush symbols"} \cup Done => snapshot = b
  /\ pc[b] = "flush symbols" => symbols = Truncated
  /\ pc[b] \in Done => symbols = b

PairTyped == DOMAIN pc = Commands /\ lone \in Builders \cup {NoOne}

PairInv == PairTyped /\ (lone # NoOne => Alone(lone) /\ Progress(lone))

\* Over an empty file a writer leaves its own text, and nothing else.
LEMMA CleanOverlay ==
  ASSUME NEW text, NEW result \in Overlay(Truncated, text) PROVE result = text
  BY DEF Overlay

LEMMA PairInvInit == Init => PairInv
  BY DEF Init, PairInv, PairTyped

\* A step that touches no artifact and takes no builder into its build keeps it.
LEMMA PairUntouched ==
  ASSUME PairInv, PairTyped', UNCHANGED <<snapshot, symbols, lone>>,
         \A b \in Builders : pc'[b] = pc[b] \/ pc'[b] \in {"failed", "killed", "snapshot"}
                            \/ (pc[b] \in Done /\ pc'[b] \in Done)
  PROVE  PairInv'
  BY DEF PairInv, PairTyped, Alone, Progress, Building, Writing, Done

\* A builder that begins its pass over the sources is alone, or nobody is.
LEMMA PairBegins ==
  ASSUME PairInv, NEW b \in Builders, BuildSnapshot(b)
  PROVE  PairInv'
<1>1. /\ pc' = [pc EXCEPT ![b] = "symbols"]
      /\ lone' = IF \E c \in Builders : Building(c) THEN NoOne ELSE b
  BY DEF BuildSnapshot, Go
<1>2. PairTyped'  BY <1>1 DEF PairInv, PairTyped
<1>3. b \in Commands  BY Kinds
<1>4. ASSUME lone' # NoOne PROVE Alone(lone)' /\ Progress(lone)'
  <2>1. lone' = b /\ \A c \in Builders : ~Building(c)  BY <1>1, <1>4
  <2>2. \A c \in Builders \ {b} : ~Building(c)'
    BY <1>1, <1>3, <2>1 DEF PairInv, PairTyped, Building
  <2>3. pc'[b] = "symbols"  BY <1>1, <1>3 DEF PairInv, PairTyped
  <2> QED  BY <2>1, <2>2, <2>3 DEF Alone, Progress, Done
<1> QED  BY <1>2, <1>4 DEF PairInv

\* A step of the build after that: if anybody is alone it is the one that steps.
LEMMA PairAdvances ==
  ASSUME PairInv, NEW b \in Builders,
         \/ BuildSymbolIndex(b) \/ OpenSnapshot(b) \/ FlushSnapshot(b)
         \/ OpenSymbols(b) \/ FlushSymbols(b)
  PROVE  PairInv'
<1>1. /\ Building(b) /\ UNCHANGED lone
      /\ \E s : pc' = [pc EXCEPT ![b] = s]
  BY DEF BuildSymbolIndex, OpenSnapshot, FlushSnapshot, OpenSymbols, FlushSymbols, Go, files,
     Building, Writing
<1>2. PairTyped' /\ b \in Commands  BY <1>1, Kinds DEF PairInv, PairTyped
<1>3. \A c \in Builders \ {b} : pc'[c] = pc[c]  BY <1>1, <1>2 DEF PairInv, PairTyped
<1>4. ASSUME lone # NoOne PROVE Alone(lone)' /\ Progress(lone)'
  <2>1. lone = b /\ Progress(b) /\ Alone(b)
    BY <1>1, <1>4 DEF PairInv, PairTyped, Alone
  <2>2. Alone(b)'  BY <1>3, <2>1 DEF Alone, Building
  <2>3. CASE BuildSymbolIndex(b) \/ OpenSnapshot(b)
    <3>1. /\ pc'[b] \in {"open snapshot", "failed", "flush snapshot"}
          /\ pc'[b] = "flush snapshot" => snapshot' = Truncated
      BY <1>2, <2>3 DEF BuildSymbolIndex, OpenSnapshot, Go, PairInv, PairTyped
    <3> QED  BY <1>1, <2>1, <2>2, <3>1 DEF Progress, Done
  <2>4. CASE FlushSnapshot(b)
    <3>1. snapshot' = b  BY <2>1, <2>4, CleanOverlay DEF FlushSnapshot, Progress
    <3>2. pc'[b] = "open symbols"  BY <1>2, <2>4 DEF FlushSnapshot, Go, PairInv, PairTyped
    <3> QED  BY <1>1, <2>1, <2>2, <3>1, <3>2 DEF Progress, Done
  <2>5. CASE OpenSymbols(b)
    <3>1. /\ snapshot' = b /\ symbols' = Truncated  BY <2>1, <2>5 DEF OpenSymbols, Progress
    <3>2. pc'[b] = "flush symbols"  BY <1>2, <2>5 DEF OpenSymbols, Go, PairInv, PairTyped
    <3> QED  BY <1>1, <2>1, <2>2, <3>1, <3>2 DEF Progress, Done
  <2>6. CASE FlushSymbols(b)
    <3>1. snapshot' = b /\ symbols' = b
      BY <2>1, <2>6, CleanOverlay DEF FlushSymbols, Progress
    <3>2. pc'[b] \in {"gate", "built"}
      BY <1>2, <2>6 DEF FlushSymbols, Go, PairInv, PairTyped
    <3> QED  BY <1>1, <2>1, <2>2, <3>1, <3>2 DEF Progress, Done
  <2> QED  BY <2>3, <2>4, <2>5, <2>6
<1> QED  BY <1>1, <1>2, <1>4 DEF PairInv

LEMMA PairInvStep == PairInv /\ [Next]_vars => PairInv'
<1> SUFFICES ASSUME PairInv, [Next]_vars PROVE PairInv'  OBVIOUS
<1>1. ASSUME NEW i \in Inits, InitStep(i) PROVE PairInv'
  <2>1. /\ UNCHANGED <<snapshot, symbols, lone>>
        /\ \E s : pc' = [pc EXCEPT ![i] = s]
    BY <1>1 DEF InitStep, CheckDir, MakeDir, OpenConfig, FlushConfig, Go, files
  <2>2. PairTyped' /\ \A b \in Builders : pc'[b] = pc[b]
    BY <2>1, Kinds DEF PairInv, PairTyped
  <2> QED  BY <2>1, <2>2, PairUntouched
<1>2. ASSUME NEW b \in Builders, FailGit(b) PROVE PairInv'
  <2>1. /\ UNCHANGED <<snapshot, symbols, lone>> /\ pc' = [pc EXCEPT ![b] = "failed"]
    BY <1>2 DEF FailGit, Go, files
  <2>2. PairTyped' /\ \A c \in Builders : pc'[c] = pc[c] \/ pc'[c] = "failed"
    BY <2>1, Kinds DEF PairInv, PairTyped
  <2> QED  BY <2>1, <2>2, PairUntouched
<1>3. ASSUME NEW r \in Runs, RunStep(r) PROVE PairInv'
  <2>1. /\ UNCHANGED <<snapshot, symbols, lone>>
        /\ \/ \E s \in {"failed", "snapshot"} : pc' = [pc EXCEPT ![r] = s]
           \/ pc[r] \in Done /\ \E s \in Done : pc' = [pc EXCEPT ![r] = s]
    BY <1>3 DEF RunStep, LoadPermissions, Gate, Go, files, Done
  <2>2. /\ PairTyped'
        /\ \A b \in Builders : \/ pc'[b] = pc[b] \/ pc'[b] \in {"failed", "snapshot"}
                              \/ (pc[b] \in Done /\ pc'[b] \in Done)
    BY <2>1, Kinds DEF PairInv, PairTyped
  <2> QED  BY <2>1, <2>2, PairUntouched
<1>4. ASSUME NEW p \in Commands, Kill(p) PROVE PairInv'
  <2>1. /\ UNCHANGED <<snapshot, symbols, lone>> /\ pc' = [pc EXCEPT ![p] = "killed"]
    BY <1>4 DEF Kill, Go, files
  <2>2. PairTyped' /\ \A b \in Builders : pc'[b] = pc[b] \/ pc'[b] = "killed"
    BY <2>1, Kinds DEF PairInv, PairTyped
  <2> QED  BY <2>1, <2>2, PairUntouched
<1>5. ASSUME \/ \E f \in ConfigFiles : EditConfig(f)
             \/ UNCHANGED vars
      PROVE PairInv'
  <2>1. UNCHANGED <<snapshot, symbols, lone, pc>>
    BY <1>5 DEF EditConfig, vars
  <2>2. PairTyped'  BY <2>1 DEF PairInv, PairTyped
  <2> QED  BY <2>1, <2>2, PairUntouched
<1>6. ASSUME NEW w \in Workers, JobStep(w) PROVE PairInv'
  <2>1. /\ \/ UNCHANGED <<snapshot, symbols, lone>>
           \/ lone' = NoOne /\ UNCHANGED pc
        /\ UNCHANGED pc \/ \E s : pc' = [pc EXCEPT ![w] = s]
    BY <1>6 DEF JobStep, ReloadPermissions, OpenApplied, FlushApplied, OverwriteArtifacts, EndJob, Go,
       files
  <2>2. DOMAIN pc' = Commands /\ \A b \in Builders : pc'[b] = pc[b]
    BY <2>1, Kinds DEF PairInv, PairTyped
  <2>3. PairTyped'  BY <2>1, <2>2 DEF PairInv, PairTyped
  <2>4. CASE lone' = NoOne  BY <2>3, <2>4 DEF PairInv
  <2>5. CASE UNCHANGED <<snapshot, symbols, lone>>  BY <2>2, <2>3, <2>5, PairUntouched
  <2> QED  BY <2>1, <2>4, <2>5
<1> QED
  BY <1>1, <1>2, <1>3, <1>4, <1>5, <1>6, PairBegins, PairAdvances DEF Next, BuildStep

\* Whatever builds went before, killed or torn, and whatever a worker has made of
\* the artifacts: a build nobody was at work beside leaves both of its own pass.
THEOREM LoneBuildIsClean == Spec => []RebuildIsClean
<1>1. PairInv => RebuildIsClean  BY DEF PairInv, Progress, RebuildIsClean, Done
<1> QED  BY <1>1, PairInvInit, PairInvStep, PTL DEF Spec

-----------------------------------------------------------------------------
(* Types. *)

Stopped == {"failed", "killed"}

StagesTyped ==
  /\ pc \in [Commands -> InitStages \cup BuildStages \cup JobStages \cup Stopped]
  /\ \A i \in Inits : pc[i] \in InitStages \cup Stopped
  /\ \A b \in Builders : pc[b] \in BuildStages \cup Stopped
  /\ \A b \in Indexers : pc[b] \notin RunOnly
  /\ \A w \in Workers : pc[w] \in JobStages \cup {"killed"}

FilesTyped ==
  /\ dir \in BOOLEAN
  /\ config \in [ConfigFiles -> Texts \cup {NoFile, Truncated}]
  /\ snapshot \in Artifacts /\ symbols \in Artifacts

CountersTyped ==
  /\ next \in [Inits -> 1..(Len(Scaffold) + 1)]
  /\ asks \in [Runs -> BOOLEAN]
  /\ at \in [Workers -> ConfigFiles \cup {NoFile}]
  /\ lone \in Builders \cup {NoOne}
  /\ kills \in 0..MaxKills

WellTyped == StagesTyped /\ FilesTyped /\ CountersTyped

\* With the file a worker is at, they are the type invariant.
LEMMA TypeParts == WellTyped /\ DirInv => TypeOK
  BY DEF WellTyped, TypeOK, StagesTyped, FilesTyped, CountersTyped, Stopped, DirInv, AtOneFile

\* A command that goes to a stage of its kind.
LEMMA StageTyped ==
  ASSUME StagesTyped, NEW p \in Commands, NEW s, Go(p, s),
         p \in Inits => s \in InitStages \cup Stopped,
         p \in Builders => s \in BuildStages \cup Stopped,
         p \in Indexers => s \notin RunOnly,
         p \in Workers => s \in JobStages \cup {"killed"}
  PROVE  StagesTyped'
<1>1. p \in Inits \/ p \in Builders \/ p \in Workers  BY DEF Commands
<1>2. \A i \in Inits \cup Builders \cup Workers : i \in Commands  BY DEF Commands
<1>3. \A b \in Indexers : b \in Commands  BY DEF Commands, Builders
<1>4. s \in InitStages \cup BuildStages \cup JobStages \cup Stopped  BY <1>1 DEF Stopped
<1> QED  BY <1>2, <1>3, <1>4 DEF StagesTyped, Go

\* Types at first.
LEMMA TypeInit == Init => WellTyped
<1> SUFFICES ASSUME Init PROVE WellTyped  OBVIOUS
<1>1. /\ pc \in [Commands -> {"check", "load", "snapshot", "reload"}]
      /\ \A i \in Inits : pc[i] = "check"
      /\ \A b \in Builders : pc[b] = IF b \in Runs THEN "load" ELSE "snapshot"
      /\ \A b \in Indexers : b \in Builders /\ b \notin Runs
      /\ \A w \in Workers : pc[w] = "reload"
  BY Kinds, CommandAssumption DEF Init, Builders, CommandAssumption
<1>2. StagesTyped
  BY <1>1 DEF StagesTyped, InitStages, BuildStages, JobStages, RunOnly, Writing
<1>3. FilesTyped  BY DEF Init, FilesTyped, Artifacts
<1>4. CountersTyped
  BY Names, CommandAssumption DEF Init, CountersTyped, CommandAssumption
<1> QED  BY <1>2, <1>3, <1>4 DEF WellTyped

\* A step of an init: the files it has still to write are counted by its index.
LEMMA InitTypes ==
  ASSUME WellTyped, DirInv, NEW i \in Inits, InitStep(i)
  PROVE  WellTyped'
<1> USE Kinds DEF WellTyped
<1>1. PICK s \in InitStages \cup Stopped : Go(i, s)
  BY DEF InitStep, CheckDir, MakeDir, OpenConfig, FlushConfig, InitStages, Stopped
<1>2. StagesTyped'
  BY <1>1, StageTyped DEF Builders
<1>3. FilesTyped'
  <2>1. UNCHANGED <<snapshot, symbols>> /\ (UNCHANGED dir \/ dir' = TRUE)
    BY DEF InitStep, CheckDir, MakeDir, OpenConfig, FlushConfig, files
  <2>2. config' = config \/ \E f, t : /\ config' = [config EXCEPT ![f] = t]
                                      /\ t \in Texts \cup {NoFile, Truncated}
    BY DEF InitStep, CheckDir, MakeDir, OpenConfig, FlushConfig, files, Texts
  <2> QED  BY <2>1, <2>2 DEF FilesTyped
<1>4. CountersTyped'
  <2>1. UNCHANGED <<asks, at, lone, kills>>
    BY DEF InitStep, CheckDir, MakeDir, OpenConfig, FlushConfig
  <2>2. CASE FlushConfig(i)
    <3>1. next[i] \in 1..Len(Scaffold) /\ next' = [next EXCEPT ![i] = next[i] + 1]
      BY <2>2 DEF FlushConfig, DirInv, FilledInOrder, Filling, Filled
    <3>2. next[i] + 1 \in 1..(Len(Scaffold) + 1)  BY <3>1, Names
    <3> QED  BY <2>1, <3>1, <3>2 DEF CountersTyped
  <2>3. CASE next' = next  BY <2>1, <2>3 DEF CountersTyped
  <2> QED  BY <2>2, <2>3 DEF InitStep, CheckDir, MakeDir, OpenConfig
<1> QED  BY <1>2, <1>3, <1>4

\* A step of a build.
LEMMA BuildTypes ==
  ASSUME WellTyped, NEW b \in Builders, BuildStep(b)
  PROVE  WellTyped'
<1> USE Kinds DEF WellTyped
<1>1. PICK s : Go(b, s) /\ s \in BuildStages \cup Stopped /\ (s \in RunOnly => b \in Runs)
  <2> DEFINE Passes(s) == \/ s \in {"symbols", "failed", "built"} \cup Writing
                          \/ s = "gate" /\ b \in Runs
  <2>1. \E s : Go(b, s) /\ Passes(s)
    BY DEF BuildStep, FailGit, BuildSnapshot, BuildSymbolIndex, OpenSnapshot, FlushSnapshot,
       OpenSymbols, FlushSymbols, Writing
  <2>2. \A s : Passes(s) => s \in BuildStages \cup Stopped /\ (s \in RunOnly => b \in Runs)
    BY DEF BuildStages, Writing, RunOnly, Stopped
  <2> QED  BY <2>1, <2>2
<1>2. StagesTyped'
  BY <1>1, StageTyped, CommandAssumption DEF CommandAssumption
<1>3. FilesTyped'
  <2>1. UNCHANGED config /\ (UNCHANGED dir \/ dir' = TRUE)
    BY DEF BuildStep, FailGit, BuildSnapshot, BuildSymbolIndex, OpenSnapshot, FlushSnapshot,
       OpenSymbols, FlushSymbols, files
  <2>2. Overlay(snapshot, b) \cup Overlay(symbols, b) \subseteq Artifacts
    BY DEF Overlay, Artifacts
  <2>3. snapshot' \in Artifacts /\ symbols' \in Artifacts
    BY <2>2 DEF BuildStep, FailGit, BuildSnapshot, BuildSymbolIndex, OpenSnapshot, FlushSnapshot,
       OpenSymbols, FlushSymbols, files, FilesTyped, Artifacts
  <2> QED  BY <2>1, <2>3 DEF FilesTyped
<1>4. CountersTyped'
  BY DEF BuildStep, FailGit, BuildSnapshot, BuildSymbolIndex, OpenSnapshot, FlushSnapshot,
     OpenSymbols, FlushSymbols, CountersTyped
<1> QED  BY <1>2, <1>3, <1>4

\* A step of `idemra run' at permissions.yml.
LEMMA RunTypes ==
  ASSUME WellTyped, NEW r \in Runs, RunStep(r)
  PROVE  WellTyped'
<1> USE Kinds DEF WellTyped
<1>1. PICK s \in BuildStages \cup Stopped : Go(r, s)
  BY DEF RunStep, LoadPermissions, Gate, BuildStages, Stopped
<1>2. StagesTyped'
  BY <1>1, StageTyped, CommandAssumption DEF CommandAssumption
<1>3. UNCHANGED <<files, next, at, lone, kills>>
  BY DEF RunStep, LoadPermissions, Gate
<1>4. asks' \in [Runs -> BOOLEAN]
  <2>1. \A t : NeedsApproval(t) \in BOOLEAN  BY DEF NeedsApproval
  <2>2. asks' = asks \/ asks' = [asks EXCEPT ![r] = NeedsApproval(config[Permissions])]
    BY DEF RunStep, LoadPermissions, Gate
  <2> QED  BY <2>1, <2>2 DEF CountersTyped
<1> QED  BY <1>2, <1>3, <1>4 DEF files, FilesTyped, CountersTyped

\* A step of a worker.
LEMMA JobTypes ==
  ASSUME WellTyped, NEW w \in Workers, JobStep(w)
  PROVE  WellTyped'
<1> USE Kinds DEF WellTyped
<1>1. StagesTyped'
  <2>1. UNCHANGED pc \/ \E s \in JobStages : Go(w, s)
    BY DEF JobStep, ReloadPermissions, OpenApplied, FlushApplied, OverwriteArtifacts, EndJob, JobStages
  <2>2. CASE UNCHANGED pc  BY <2>2 DEF StagesTyped
  <2> QED  BY <2>1, <2>2, StageTyped DEF Builders
<1>2. FilesTyped'
  <2>1. UNCHANGED dir \/ dir' = TRUE
    BY DEF JobStep, ReloadPermissions, OpenApplied, FlushApplied, OverwriteArtifacts, EndJob, files
  <2>2. \/ config' = config
        \/ \E f, t : config' = [config EXCEPT ![f] = t] /\ t \in Texts \cup {NoFile, Truncated}
    BY Names
       DEF JobStep, ReloadPermissions, OpenApplied, FlushApplied, OverwriteArtifacts, EndJob, files
  <2>3. snapshot' \in {snapshot, Torn} /\ symbols' \in {symbols, Torn}
    BY DEF JobStep, ReloadPermissions, OpenApplied, FlushApplied, OverwriteArtifacts, EndJob, files
  <2> QED  BY <2>1, <2>2, <2>3 DEF FilesTyped, Artifacts
<1>3. CountersTyped'
  <2>1. UNCHANGED <<next, asks, kills>> /\ lone' \in {lone, NoOne}
    BY DEF JobStep, ReloadPermissions, OpenApplied, FlushApplied, OverwriteArtifacts, EndJob
  <2>2. at' = at \/ \E f \in ConfigFiles \cup {NoFile} : at' = [at EXCEPT ![w] = f]
    BY DEF JobStep, ReloadPermissions, OpenApplied, FlushApplied, OverwriteArtifacts, EndJob
  <2> QED  BY <2>1, <2>2 DEF CountersTyped
<1> QED  BY <1>1, <1>2, <1>3

\* Every step keeps the types.
LEMMA TypeStep == WellTyped /\ DirInv /\ [Next]_vars => WellTyped'
<1> SUFFICES ASSUME WellTyped, DirInv, [Next]_vars PROVE WellTyped'  OBVIOUS
<1> USE DEF WellTyped
<1>1. CASE UNCHANGED vars
  BY <1>1 DEF vars, StagesTyped, FilesTyped, CountersTyped
<1>2. ASSUME NEW f \in ConfigFiles, EditConfig(f) PROVE WellTyped'
  <2>1. /\ UNCHANGED <<dir, snapshot, symbols, pc, next, asks, at, lone, kills>>
        /\ \E t \in Texts : config' = [config EXCEPT ![f] = t]
    BY <1>2, Names DEF EditConfig
  <2> QED  BY <2>1 DEF StagesTyped, FilesTyped, CountersTyped
<1>3. ASSUME NEW p \in Commands, Kill(p) PROVE WellTyped'
  <2>1. /\ UNCHANGED <<files, next, asks, at, lone>> /\ Go(p, "killed")
        /\ kills < MaxKills /\ kills' = kills + 1
    BY <1>3 DEF Kill
  <2>2. StagesTyped'  BY <2>1, StageTyped DEF Stopped, RunOnly
  <2>3. kills' \in 0..MaxKills
    BY <2>1, CommandAssumption DEF CountersTyped, CommandAssumption
  <2> QED  BY <2>1, <2>2, <2>3 DEF files, FilesTyped, CountersTyped
<1> QED  BY <1>1, <1>2, <1>3, InitTypes, BuildTypes, RunTypes, JobTypes DEF Next

\* The types and the invariant of the directory.
LEMMA TypesInvariant == Spec => [](WellTyped /\ DirInv)
  BY TypeInit, TypeStep, DirInvariant, PTL DEF Spec

\* The commands and files of .idemra/ keep their types, and each command is at a
\* stage of its own.
THEOREM TypesKept == Spec => []TypeOK
  BY TypesInvariant, TypeParts, PTL

-----------------------------------------------------------------------------
(* The gate. *)

\* A scaffolded file is empty only while an init or a worker is at it, or after
\* one was killed there.
TruncatedByInit ==
  \A f \in ConfigFiles : config[f] = Truncated => InitAt(f) \/ AppliedTo(f)

\* A step that writes no scaffolded file and moves no init keeps that.
LEMMA TruncatedStays ==
  ASSUME TruncatedByInit, UNCHANGED <<config, next, at>>,
         \A i \in Inits : pc'[i] = pc[i] \/ pc'[i] = "killed" \/ pc[i] \notin {"flush", "killed"}
  PROVE  TruncatedByInit'
<1>1. \A f \in ConfigFiles : InitAt(f) => InitAt(f)'  BY DEF InitAt
<1> QED  BY <1>1 DEF TruncatedByInit, AppliedTo

\* A step that gives one file a text, and moves nobody who is at another.
LEMMA TruncatedOrWritten ==
  ASSUME TruncatedByInit, NEW g, NEW t \in Texts, config' = [config EXCEPT ![g] = t],
         DOMAIN config = ConfigFiles,
         \A f \in ConfigFiles \ {g} : (InitAt(f) => InitAt(f)') /\ (AppliedTo(f) => AppliedTo(f)')
  PROVE  TruncatedByInit'
<1>1. \A f \in ConfigFiles : config'[f] = IF f = g THEN t ELSE config[f]  OBVIOUS
<1> QED  BY <1>1, Names DEF TruncatedByInit

\* Every step keeps it.
LEMMA TruncatedStep == WellTyped /\ DirInv /\ TruncatedByInit /\ [Next]_vars => TruncatedByInit'
<1> SUFFICES ASSUME WellTyped, DirInv, TruncatedByInit, [Next]_vars PROVE TruncatedByInit'  OBVIOUS
<1> USE Kinds
<1>0. /\ DOMAIN config = ConfigFiles /\ DOMAIN pc = Commands /\ DOMAIN at = Workers
      /\ next \in [Inits -> Nat]
  BY DEF DirInv, Typed
<1>1. ASSUME NEW i \in Inits, CheckDir(i) \/ MakeDir(i) PROVE TruncatedByInit'
  <2>1. /\ UNCHANGED <<config, next, at>> /\ pc[i] \in {"check", "mkdir"}
        /\ \E s : pc' = [pc EXCEPT ![i] = s]
    BY <1>1 DEF CheckDir, MakeDir, Go, files
  <2> QED  BY <1>0, <2>1, TruncatedStays
<1>2. ASSUME NEW i \in Inits, OpenConfig(i) PROVE TruncatedByInit'
  <2> DEFINE g == Scaffold[next[i]]
  <2>1. /\ config' = [config EXCEPT ![g] = Truncated] /\ UNCHANGED <<next, at>>
        /\ pc[i] = "open" /\ pc' = [pc EXCEPT ![i] = "flush"]
    BY <1>2 DEF OpenConfig, Go
  <2>2. pc'[i] = "flush" /\ \A j \in Inits \ {i} : pc'[j] = pc[j]  BY <1>0, <2>1
  <2>3. next[i] \in 1..Len(Scaffold)  BY <2>1 DEF DirInv, FilledInOrder, Filling, Filled
  <2>4. InitAt(g)'  BY <2>1, <2>2, <2>3, Names DEF InitAt
  <2>5. \A f \in ConfigFiles \ {g} : config'[f] = config[f]  BY <1>0, <2>1
  <2>6. \A f \in ConfigFiles : AppliedTo(f) => AppliedTo(f)'  BY <2>1 DEF AppliedTo
  <2>7. \A f \in ConfigFiles \ {g} : InitAt(f) => InitAt(f)'  BY <2>1, <2>2 DEF InitAt
  <2> QED  BY <2>1, <2>4, <2>5, <2>6, <2>7 DEF TruncatedByInit
<1>3. ASSUME NEW i \in Inits, FlushConfig(i) PROVE TruncatedByInit'
  <2> DEFINE g == Scaffold[next[i]]
  <2>1. PICK t \in Texts : config' = [config EXCEPT ![g] = t]
    BY <1>3, Names DEF FlushConfig, Texts
  <2>2. /\ next' = [next EXCEPT ![i] = next[i] + 1] /\ at' = at
        /\ \E s : pc' = [pc EXCEPT ![i] = s]
    BY <1>3 DEF FlushConfig, Go
  <2>3. \A j \in Inits \ {i} : pc'[j] = pc[j] /\ next'[j] = next[j]  BY <1>0, <2>2
  <2>4. \A f \in ConfigFiles \ {g} : (InitAt(f) => InitAt(f)') /\ (AppliedTo(f) => AppliedTo(f)')
    BY <2>2, <2>3 DEF InitAt, AppliedTo
  <2> QED  BY <1>0, <2>1, <2>4, TruncatedOrWritten
<1>4. ASSUME NEW b \in Builders, BuildStep(b) \/ (b \in Runs /\ RunStep(b)) PROVE TruncatedByInit'
  <2>1. UNCHANGED <<config, next, at>> /\ \E s : pc' = [pc EXCEPT ![b] = s]
    BY <1>4 DEF BuildStep, FailGit, BuildSnapshot, BuildSymbolIndex, OpenSnapshot, FlushSnapshot,
       OpenSymbols, FlushSymbols, RunStep, LoadPermissions, Gate, Go, files
  <2> QED  BY <1>0, <2>1, TruncatedStays
<1>5. ASSUME NEW w \in Workers, JobStep(w) PROVE TruncatedByInit'
  <2>0. next' = next /\ \A i \in Inits : pc'[i] = pc[i]
    BY <1>0, <1>5 DEF JobStep, ReloadPermissions, OpenApplied, FlushApplied, OverwriteArtifacts, EndJob,
       Go, files
  <2>1. \A f \in ConfigFiles : InitAt(f) <=> InitAt(f)'  BY <2>0 DEF InitAt
  <2>2. CASE OpenApplied(w)
    <3>1. PICK g \in ConfigFiles : /\ config' = [config EXCEPT ![g] = Truncated]
                                   /\ at' = [at EXCEPT ![w] = g]
      BY <2>2 DEF OpenApplied
    <3>2. at[w] = NoFile /\ at'[w] = g /\ \A v \in Workers \ {w} : at'[v] = at[v]
      BY <1>0, <2>2, <3>1 DEF OpenApplied, DirInv, AtOneFile
    <3>3. AppliedTo(g)' /\ \A f \in ConfigFiles : AppliedTo(f) => AppliedTo(f)'
      BY <3>2, Names DEF AppliedTo
    <3>4. \A f \in ConfigFiles \ {g} : config'[f] = config[f]  BY <1>0, <3>1
    <3> QED  BY <2>1, <3>3, <3>4 DEF TruncatedByInit
  <2>3. CASE FlushApplied(w)
    <3>1. PICK t \in Texts : config' = [config EXCEPT ![at[w]] = t]
      BY <2>3, Names DEF FlushApplied
    <3>2. \A v \in Workers \ {w} : at'[v] = at[v]  BY <1>0, <2>3 DEF FlushApplied
    <3>3. \A f \in ConfigFiles \ {at[w]} : AppliedTo(f) => AppliedTo(f)'  BY <3>2 DEF AppliedTo
    <3> QED  BY <1>0, <2>1, <3>1, <3>3, TruncatedOrWritten
  <2>4. CASE ReloadPermissions(w) \/ OverwriteArtifacts(w) \/ EndJob(w)
    <3>1. UNCHANGED <<config, at>>
      BY <2>4 DEF ReloadPermissions, OverwriteArtifacts, EndJob, files
    <3> QED  BY <2>0, <3>1, TruncatedStays
  <2> QED  BY <1>5, <2>2, <2>3, <2>4 DEF JobStep
<1>6. ASSUME NEW f \in ConfigFiles, EditConfig(f) PROVE TruncatedByInit'
  <2>1. /\ UNCHANGED <<pc, next, at>>
        /\ \E t \in Texts : config' = [config EXCEPT ![f] = t]
    BY <1>6, Names DEF EditConfig
  <2> QED  BY <1>0, <2>1, TruncatedOrWritten DEF InitAt, AppliedTo
<1>7. ASSUME (\E p \in Commands : Kill(p)) \/ UNCHANGED vars PROVE TruncatedByInit'
  <2>1. /\ UNCHANGED <<config, next, at>>
        /\ UNCHANGED pc \/ \E p \in Commands : pc' = [pc EXCEPT ![p] = "killed"]
    BY <1>7 DEF Kill, Go, files, vars
  <2> QED  BY <1>0, <2>1, TruncatedStays
<1> QED  BY <1>1, <1>2, <1>3, <1>4, <1>5, <1>6, <1>7 DEF Next, InitStep

\* A run that passes its permissions has loaded what is there.
LEMMA StepOpensByChoice ==
  ASSUME WellTyped, DirInv, TruncatedByInit, [Next]_vars, NEW r \in Runs,
         pc[r] = "load", pc'[r] = "snapshot", ~asks'[r]
  PROVE  \/ config[Permissions] \in {"open", "applied open"}
         \/ InitAt(Permissions) \/ AppliedTo(Permissions)
<1> USE Kinds
<1>0. /\ config \in [ConfigFiles -> Texts \cup {NoFile, Truncated}] /\ DOMAIN pc = Commands
      /\ DOMAIN asks = Runs /\ Permissions \in ConfigFiles
  BY ScaffoldAssumption DEF WellTyped, FilesTyped, CountersTyped, DirInv, Typed, ScaffoldAssumption
<1>1. LoadPermissions(r)
  <2>1. ASSUME NEW p \in Commands \ {r}, NEW s, Go(p, s) PROVE FALSE
    BY <1>0, <2>1 DEF Go
  <2>2. ASSUME NEW i \in Inits, InitStep(i) PROVE FALSE
    <3>1. \E s : Go(i, s)  BY <2>2 DEF InitStep, CheckDir, MakeDir, OpenConfig, FlushConfig
    <3> QED  BY <2>1, <3>1
  <2>3. ASSUME NEW b \in Builders, BuildStep(b) PROVE FALSE
    <3>1. pc[b] # "load" /\ \E s : Go(b, s)
      BY <2>3 DEF BuildStep, FailGit, BuildSnapshot, BuildSymbolIndex, OpenSnapshot, FlushSnapshot,
         OpenSymbols, FlushSymbols
    <3> QED  BY <2>1, <3>1
  <2>4. ASSUME NEW q \in Runs, RunStep(q) PROVE LoadPermissions(r)
    <3>1. \E s : Go(q, s)  BY <2>4 DEF RunStep, LoadPermissions, Gate
    <3>2. q = r  BY <2>1, <3>1
    <3> QED  BY <2>4, <3>2 DEF RunStep, Gate
  <2>5. ASSUME NEW w \in Workers, JobStep(w) PROVE FALSE
    <3>1. UNCHANGED pc \/ \E s : Go(w, s)
      BY <2>5 DEF JobStep, ReloadPermissions, OpenApplied, FlushApplied, OverwriteArtifacts, EndJob
    <3> QED  BY <2>1, <3>1
  <2>6. ~ \/ \E f \in ConfigFiles : EditConfig(f)
          \/ \E p \in Commands : Kill(p)
          \/ UNCHANGED vars
    BY <1>0 DEF EditConfig, Kill, Go, vars
  <2> QED  BY <2>2, <2>3, <2>4, <2>5, <2>6 DEF Next
<1>2. asks'[r] = NeedsApproval(config[Permissions]) /\ config[Permissions] \notin {NoFile} \cup Unusable
  BY <1>0, <1>1 DEF LoadPermissions, Go
<1>3. config[Permissions] \in {"open", "applied open", Truncated}
  BY <1>0, <1>2 DEF NeedsApproval, Texts, UserTexts, AppliedTexts, Unusable
<1> QED  BY <1>0, <1>3 DEF TruncatedByInit

\* A run that asks nobody has loaded what a user, or a run that was applied, has made
\* of permissions.yml, or what an init or a worker has not yet written or, killed,
\* never wrote.
THEOREM NoGateUnchosen == Spec => GateOpensByChoice
<1>1. Spec => [](WellTyped /\ DirInv /\ TruncatedByInit)
  <2>1. Init => TruncatedByInit
    BY SentinelAssumption DEF Init, TruncatedByInit, SentinelAssumption
  <2> QED  BY <2>1, TypesInvariant, TruncatedStep, PTL DEF Spec
<1>2. WellTyped /\ DirInv /\ TruncatedByInit /\ [Next]_vars =>
        [\A r \in Runs : pc[r] = "load" /\ pc'[r] = "snapshot" /\ ~asks'[r] =>
           config[Permissions] \in {"open", "applied open"}
             \/ InitAt(Permissions) \/ AppliedTo(Permissions)]_vars
  BY StepOpensByChoice
<1> QED  BY <1>1, <1>2, PTL DEF Spec, GateOpensByChoice
=============================================================================
