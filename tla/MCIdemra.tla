------------------------------ MODULE MCIdemra ------------------------------
(***************************************************************************)
(* Instances of Idemra for TLC.  Processes, runs and files are model       *)
(* values; the two proposals overlap in one file and end with different    *)
(* ones, so that two appliers can interleave on the repository.            *)
(***************************************************************************)
EXTENDS Idemra

CONSTANTS readme, main, r1

MCProposal ==
  [r \in Runs |-> IF r = r1 THEN <<readme, main>> ELSE <<main>>]

\* Processes of one role are interchangeable, in runs without liveness.
Interchangeable ==
  Permutations(Approvers) \cup Permutations(Sweepers) \cup Permutations(Workers)
=============================================================================
