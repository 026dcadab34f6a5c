\* An index before the first init, nothing killed.
SPECIFICATION Spec
CONSTANTS
  permissions = permissions
  outcomes = outcomes
  Scaffold <- MCScaffold
  Permissions = permissions
  Inits = {init1}
  Indexers = {index1}
  Runs = {}
  Workers = {}
  NoFile = NoFile
  Truncated = Truncated
  Torn = Torn
  NoOne = NoOne
  MaxKills = 0
CHECK_DEADLOCK FALSE
INVARIANTS InitGivesPermissions
