\* Two commits that need two reviewers, or weaken a protection; calls throw, runs
\* die, the base moves, people hold the pull request.
SPECIFICATION Spec
CONSTANTS
    MaxHeads = 2
    MaxRequests = 0
    MaxRunning = 2
    MaxReviewAttempts = 1
    Kinds = {"high", "weakening"}
    Faults = {"throw", "base", "hold"}
CHECK_DEADLOCK FALSE
INVARIANTS
    MergedWasReviewed
    FixesAreAccounted
    DirectMergeIsAnnounced
