\* One call throws while watch works on an issue.
SPECIFICATION FairSpec
CONSTANTS
    Issues = {i1}
    NoIssue = NoIssue
    MaxPullRequests = 2
    CodingFixRounds = 2
    CiFixRounds = 2
    MaxIssues = 0
    MaxFailures = 1
    MaxUnrecorded = 1
    Commands = {"watch"}
    Faults = {"throw"}
PROPERTY
    InterruptedIsResumed
