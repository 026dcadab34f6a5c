\* Two runs, one change by a user, one kill.
SPECIFICATION Spec
CONSTANTS
  Runs = {r1, r2}
  NotText = NotText
  Malformed = Malformed
  NoPermissions = NoPermissions
  Unreadable = Unreadable
  Slash = "/"
  Up = ".."
  RepoRoot <- MCRepoRoot
  DeniedPathPatterns <- MCDeniedPathPatterns
  PermissionsYml <- MCPermissionsYml
  Repository <- MCRepository
  Layouts <- MCLayouts
  Denials <- MCDenials
  Replies <- MCReplies
  Checks <- MCChecks
  MaxLogLines = 2
  MaxFailedJobs = 1
  MaxChanges = 1
  MaxKills = 1
SYMMETRY Interchangeable
CHECK_DEADLOCK FALSE
INVARIANTS TypeOK TaskAccountsForLogs CompletedIsOnDisk
PROPERTIES WritesAreAllowed UndisturbedNotRefused
