\* Two inits, an index, a run and a worker on one directory, one kill.
SPECIFICATION Spec
CONSTANTS
  permissions = permissions
  outcomes = outcomes
  Scaffold <- MCScaffold
  Permissions = permissions
  Inits = {init1, init2}
  Indexers = {index1}
  Runs = {run1}
  Workers = {worker1}
  NoFile = NoFile
  Truncated = Truncated
  Torn = Torn
  NoOne = NoOne
  MaxKills = 1
SYMMETRY Interchangeable
CHECK_DEADLOCK FALSE
INVARIANTS TypeOK InitializedIsComplete RebuildIsClean
PROPERTIES UserTextSurvives GateOpensByChoice
