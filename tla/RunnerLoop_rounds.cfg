\* The process is killed during a resumed round.
SPECIFICATION Spec
CONSTANTS
    Issues = {i1}
    NoIssue = NoIssue
    MaxPullRequests = 2
    CodingFixRounds = 2
    CiFixRounds = 2
    MaxIssues = 0
    MaxFailures = 1
    MaxUnrecorded = 1
    Commands = {"once"}
    Faults = {"kill"}
INVARIANT
    RoundsStaySpent
