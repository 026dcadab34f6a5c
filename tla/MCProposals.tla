---------------------------- MODULE MCProposals -----------------------------
(***************************************************************************)
(* Instances of Proposals for TLC.  A small file system: the repository,   *)
(* a directory beside it, a directory and a file in it, and a link that    *)
(* leads to the one or to the other.                                       *)
(***************************************************************************)
EXTENDS Proposals, TLC

MCRepoRoot == <<"srv", "repo">>
Names == {"srv", "repo", "other", "lib", "main", "notes", "key", "docs", ".."}

\* "*.key", ".ssh/*" and such: one on the name, one on the directory.
MCDeniedPathPatterns == {<<{"key"}>>, <<{"ssh"}, Names>>}

Interchangeable == Permutations(Runs)

File(path) == [path |-> path, text |-> TRUE]

MCPermissionsYml == MCRepoRoot \o <<"permissions">>

MCRepository ==
  [dir \in {<<>>, <<"srv">>, MCRepoRoot, <<"srv", "other">>, MCRepoRoot \o <<"lib">>} |-> Directory]
    @@ [file \in {MCRepoRoot \o <<"lib", "main">>, MCPermissionsYml} |-> Original]

\* docs is missing, a link to a directory in the repository, or one that leads out.
MCLayouts ==
  LET docs == MCRepoRoot \o <<"docs">>
  IN  {<<>>, docs :> (MCRepoRoot \o <<"lib">>), docs :> <<"srv", "other">>}

MCDenials == {{}, {<<{"lib"}, Names>>}}

MCReplies ==
  { <<>>,
    <<File(<<"docs", "notes">>), File(<<"lib", "main">>)>>,
    <<File(<<"lib", "..", "main">>), File(<<"key">>)>>,
    <<File(<<"main">>), File(<<"main", "notes">>)>>,
    <<File(<<"..", "other", "notes">>)>>,
    <<File(<<"/", "srv", "repo", "docs">>), File(<<"lib">>)>>,
    <<File(<<"permissions">>), File(<<"lib", "main">>)>>,
    <<File(<<"lib", "notes">>), [path |-> <<"main">>, text |-> FALSE]>>,
    <<File(NotText)>> }

\* Up to one job past the limit, with logs up to one line past theirs.
MCChecks ==
  LET Log(n) == [i \in 1..n |-> i]
      Jobs == {[failed |-> TRUE, log |-> Log(n)] : n \in 0..(MaxLogLines + 1)}
                \cup {[failed |-> FALSE, log |-> <<>>]}
  IN  UNION {[1..n -> Jobs] : n \in 0..(MaxFailedJobs + 1)}
=============================================================================
