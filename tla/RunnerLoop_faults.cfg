\* One issue and every fault.
SPECIFICATION FairSpec
CONSTANTS
    Issues = {i1}
    NoIssue = NoIssue
    MaxPullRequests = 3
    CodingFixRounds = 2
    CiFixRounds = 3
    MaxIssues = 0
    MaxFailures = 1
    MaxUnrecorded = 1
    Commands = {"once", "watch"}
    Faults = {"throw", "kill", "tear", "signal", "base", "close", "requeue"}
INVARIANTS
    OneOpenPullRequest
    FollowsNewestPullRequest
    RoundsAccounted
PROPERTIES
    RedIsLetGo
