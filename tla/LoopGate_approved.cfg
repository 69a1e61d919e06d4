\* One commit that weakens a protection, and a person who approves it.
SPECIFICATION Spec
CONSTANTS
    MaxHeads = 1
    MaxRequests = 1
    MaxRunning = 1
    MaxReviewAttempts = 1
    Kinds = {"weakening"}
    Faults = {}
CHECK_DEADLOCK FALSE
INVARIANT
    ApprovedTurnsGreen
