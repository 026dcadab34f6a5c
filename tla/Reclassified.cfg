\* One approver against one sweep.
SPECIFICATION Spec
CONSTANTS
  r1 = r1
  readme = readme
  main = main
  Runs = {r1}
  NoRun = NoRun
  Original = Original
  Procs = {run1, approve1, sweep1}
  Runners = {run1}
  Approvers = {approve1}
  Rejecters = {}
  Sweepers = {sweep1}
  Workers = {}
  Files = {readme, main}
  Proposal <- MCProposal
  MaxFaults = 0
CHECK_DEADLOCK FALSE
PROPERTIES DecidedNeverReclassified
