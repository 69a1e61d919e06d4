CONSTANTS
  Calls = {"c1", "c2"}
  Documents <- MCDocuments
  MaxCalls = 3

  SourceIds = {"s1", "s2"}
  Names = {"n1"}
  FeedUrls = {"f1", "f2"}
  Requests = {"create", "update", "deactivate", "other"}
  Jobs = {"j1", "j2"}
  MaxAttempts = 2
  MaxStalls = 1
  MaxRedirects = 1
  MaxRequests = 2
  Edited = "s1"
  Typed <- MCTyped

  IssueNumbers = {1, 2, 3}
  Bodies <- MCBodies
  fallbackDependencies <- MCFallback
  priorityLabels <- MCPriorities
  Selectors = {"cloud", "local"}
  Local = {"local"}
  MaxEdits = 1

  Tiers <- MCTiers
  FixRounds = 2
  Retries = 2
  BlockingSeverity = 3
  MostReviewers = 2
  ChangeKinds = {"app", "infra"}

  PullRequests = {"p1", "p2"}
  InitialPolicy <- MCPolicy
  Checks = {"ci", "e2e"}
  Steps = {"smoke"}
  FileSets <- MCFileSets
  LabelSets = {{"medium"}}

  Hour = 1
  Day = 3
  PerHour = 2
  PerDay = 2
  MaxRuntime = 4
  CallsPerIssue = 2
  MaxConsecutive = 1
  BackoffBase = 1
  BackoffMax = 2
  MaxTime = 4

  r1 = r1
  r2 = r2
  twin = twin
  far = far
  Runners = {r1, r2, twin, far}
  Machine <- MCMachine
  Host <- MCHost
  Pid <- MCPid
  Free = Free
  Torn = Torn

INIT MCInit
NEXT MCNext
INVARIANTS
  IngestTypeOK CollapseIsClosure OneArticlePerStory NothingIsLost RetryAddsNothing
  SourcesTypeOK NoLostUpdate RacesEndAsConflicts OutcomeIsOfNewestAttempt PermanentIsFinal
  OwnChangesAreShown
  ProtectionsSurvive JudgedByTheBase RiskOnlyMovesUp DiffIsRead
  BlockIsRead 
  SettledIsChecked EffortIsBounded
  IssuesPerDay CallsPerHour
  ExclusiveUnlessOverlapped OnlyKillsLeaveLocks
PROPERTIES ProtectionsOnlyGrow
CHECK_DEADLOCK FALSE
