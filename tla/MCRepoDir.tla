----------------------------- MODULE MCRepoDir ------------------------------
(***************************************************************************)
(* Instances of RepoDir for TLC: two of the five scaffolded files stand    *)
(* for the one that is read and those that nobody reads yet.               *)
(***************************************************************************)
EXTENDS RepoDir, FiniteSets, TLC

CONSTANTS permissions, outcomes

MCScaffold == <<permissions, outcomes>>

\* Commands of one kind are interchangeable.
Interchangeable ==
  Permutations(Inits) \cup Permutations(Indexers) \cup Permutations(Runs)
    \cup Permutations(Workers)
=============================================================================
