\* Two jobs of one run, two workers, no sweep.
SPECIFICATION Spec
CONSTANTS
  r1 = r1
  readme = readme
  main = main
  Runs = {r1}
  NoRun = NoRun
  Original = Original
  Procs = {run1, approve1, worker1, worker2}
  Runners = {run1}
  Approvers = {approve1}
  Rejecters = {}
  Sweepers = {}
  Workers = {worker1, worker2}
  Files = {readme, main}
  Proposal <- MCProposal
  MaxFaults = 1
CHECK_DEADLOCK FALSE
PROPERTIES TerminalIsFinal
