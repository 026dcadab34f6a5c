\* No kill, nothing changed by a user: a write that cannot succeed is enough.
SPECIFICATION Spec
CONSTANTS
  Runs = {r1}
  NotText = NotText
  Malformed = Malformed
  NoPermissions = NoPermissions
  Unreadable = Unreadable
  Slash = "/"
  Up = ".."
  RepoRoot <- MCRepoRoot
  DeniedPathPatterns <- MCDeniedPathPatterns
  PermissionsYml <- MCPermissionsYml
  Repository <- MCRepository
  Layouts <- MCLayouts
  Denials <- MCDenials
  Replies <- MCReplies
  Checks <- MCChecks
  MaxLogLines = 2
  MaxFailedJobs = 2
  MaxChanges = 0
  MaxKills = 0
CHECK_DEADLOCK FALSE
INVARIANT AllOrNothing
