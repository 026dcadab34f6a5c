\* Two runs with overlapping proposals, no faults.
SPECIFICATION Spec
CONSTANTS
  r1 = r1
  readme = readme
  main = main
  Runs = {r1, r2}
  NoRun = NoRun
  Original = Original
  Procs = {run1, approve1, sweep1, sweep2, worker1, worker2}
  Runners = {run1}
  Approvers = {approve1}
  Rejecters = {}
  Sweepers = {sweep1, sweep2}
  Workers = {worker1, worker2}
  Files = {readme, main}
  Proposal <- MCProposal
  MaxFaults = 0
SYMMETRY Interchangeable
CHECK_DEADLOCK FALSE
INVARIANTS StatusMatchesLog ApprovalMatchesLog CompletedMeansWritten
PROPERTIES RefinesRunLife
