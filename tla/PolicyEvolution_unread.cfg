CONSTANTS
  PullRequests = {"p1", "p2"}
  InitialPolicy <- MCPolicy
  Checks = {"ci", "e2e"}
  Steps = {"smoke"}
  FileSets <- MCFileSets
  LabelSets = {{"medium"}}

SPECIFICATION PolicySpec
INVARIANTS WeakeningNeedsAPerson
CHECK_DEADLOCK FALSE
