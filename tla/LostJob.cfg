\* One approver, one worker, no faults, fair processes.
SPECIFICATION FairSpec
CONSTANTS
  r1 = r1
  readme = readme
  main = main
  Runs = {r1}
  NoRun = NoRun
  Original = Original
  Procs = {run1, approve1, worker1}
  Runners = {run1}
  Approvers = {approve1}
  Rejecters = {}
  Sweepers = {}
  Workers = {worker1}
  Files = {readme, main}
  Proposal <- MCProposal
  MaxFaults = 0
CHECK_DEADLOCK FALSE
PROPERTIES QueuedRunsSettle
