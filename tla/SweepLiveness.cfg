\* Two runs and two sweeps that may take them in either order.
SPECIFICATION FairSpec
CONSTANTS
  r1 = r1
  readme = readme
  main = main
  Runs = {r1, r2}
  NoRun = NoRun
  Original = Original
  Procs = {run1, approve1, reject1, sweep1, sweep2}
  Runners = {run1}
  Approvers = {approve1}
  Rejecters = {reject1}
  Sweepers = {sweep1, sweep2}
  Workers = {}
  Files = {readme, main}
  Proposal <- MCProposal
  MaxFaults = 0
CHECK_DEADLOCK FALSE
PROPERTIES SessionsFinish
