\* Two commits and a base that moves; nothing fails.
SPECIFICATION FairSpec
CONSTANTS
    MaxHeads = 2
    MaxRequests = 0
    MaxRunning = 1
    MaxReviewAttempts = 1
    Kinds = {"low"}
    Faults = {"base"}
CHECK_DEADLOCK FALSE
PROPERTY
    HeadIsEvaluated
