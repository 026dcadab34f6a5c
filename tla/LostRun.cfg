\* One `idemra run' that meets an exception it does not catch; no crash.
SPECIFICATION Spec
CONSTANTS
  r1 = r1
  readme = readme
  main = main
  Runs = {r1}
  NoRun = NoRun
  Original = Original
  Procs = {run1}
  Runners = {run1}
  Approvers = {}
  Rejecters = {}
  Sweepers = {}
  Workers = {}
  Files = {readme, main}
  Proposal <- MCProposal
  MaxFaults = 0
CHECK_DEADLOCK FALSE
INVARIANTS EveryRunAuditable
