\* One run, everyone who can touch it, one fault.
SPECIFICATION Spec
CONSTANTS
  r1 = r1
  readme = readme
  main = main
  Runs = {r1}
  NoRun = NoRun
  Original = Original
  Procs = {run1, approve1, approve2, reject1, sweep1, sweep2, worker1, worker2}
  Runners = {run1}
  Approvers = {approve1, approve2}
  Rejecters = {reject1}
  Sweepers = {sweep1, sweep2}
  Workers = {worker1, worker2}
  Files = {readme, main}
  Proposal <- MCProposal
  MaxFaults = 1
SYMMETRY Interchangeable
CHECK_DEADLOCK FALSE
INVARIANTS TypeOK StoreInv LockDiscipline OneDecision ApprovalMatchesLog CommandsAreAtomic WritesAreAuthorised NeverDoubleApplied CompletedMeansWritten EndedForGood
PROPERTIES RefinesRunLog ImplementsStore RefinesRunLife DecisionYieldsToSweepOnly
