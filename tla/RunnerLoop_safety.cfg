\* Two issues, both commands; the process is killed, calls throw, the journal tears.
SPECIFICATION Spec
CONSTANTS
    Issues = {i1, i2}
    NoIssue = NoIssue
    MaxPullRequests = 2
    CodingFixRounds = 2
    CiFixRounds = 2
    MaxIssues = 0
    MaxFailures = 1
    MaxUnrecorded = 1
    Commands = {"once", "watch"}
    Faults = {"throw", "kill", "tear"}
SYMMETRY Symmetry
INVARIANTS
    TypeOK
    OneInFlight
    NeverLooksAvailable
PROPERTIES
    BlockedNeedsAPerson
    ImplementsLifecycle
