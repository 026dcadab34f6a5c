----------------------------- MODULE PathChecks -----------------------------
(***************************************************************************)
(* Where a proposed path leads and whether it may be written: Layer 1      *)
(* (permissions/layer1.py), Layer 2 (layer2.py) and validate_proposal      *)
(* (runs.py).  A path is the sequence of its components.  A glob component *)
(* is the set of the names it matches.                                     *)
(***************************************************************************)
EXTENDS Naturals, SequencesExt

CONSTANTS RepoRoot,           \* the repository, a resolved absolute path
          Slash, Up,          \* what an absolute path begins with; ".."
          DeniedPathPatterns  \* the patterns of Layer 1

\* repo_root / path: an absolute path replaces the root.
Target(path) ==
  IF path # <<>> /\ Head(path) = Slash THEN Tail(path) ELSE RepoRoot \o path

\* One component, followed.  links has the symlinks, each with where it leads.
Follow(links, at, name) ==
  LET next == IF name # Up THEN Append(at, name) ELSE SubSeq(at, 1, Len(at) - 1)
  IN  IF next \in DOMAIN links THEN links[next] ELSE next

\* Path.resolve: the symlinks first, then the "..", from left to right.
Resolve(links, target) ==
  FoldLeft(LAMBDA at, name : Follow(links, at, name), <<>>, target)

\* assert_within_repo_root; the root itself passes.
WithinRepoRoot(links, target) == IsPrefix(RepoRoot, Resolve(links, target))

\* PurePath.match of a relative pattern: it is compared from the right, with
\* the path as it is written.
Match(target, pattern) ==
  LET skip == Len(target) - Len(pattern)
  IN  skip >= 0 /\ \A i \in DOMAIN pattern : target[skip + i] \in pattern[i]

Denied(target, patterns) == \E pattern \in patterns : Match(target, pattern)

\* The three checks of one proposed path, under the patterns of a permissions.yml.
Allowed(links, denied, path) ==
  /\ WithinRepoRoot(links, Target(path))
  /\ ~Denied(Target(path), DeniedPathPatterns)
  /\ ~Denied(Target(path), denied)

\* validate_proposal: a message for every path that fails.
Violations(links, denied, paths) ==
  {i \in DOMAIN paths : ~Allowed(links, denied, paths[i])}
=============================================================================
