\* Two commits, one review or manual evaluation, two runs at work at once.
SPECIFICATION MendedSpec
CONSTANTS
    MaxHeads = 2
    MaxRequests = 1
    MaxRunning = 2
    MaxReviewAttempts = 1
    Kinds = {"low", "weakening"}
    Faults = {}
ACTION_CONSTRAINT SecondIsLow
CHECK_DEADLOCK FALSE
INVARIANTS
    TypeOK
    MergedWasReviewed
    FixesAreAccounted
