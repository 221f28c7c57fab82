SPECIFICATION FairSpec
CONSTANTS
    MaxAttempts = 2
    Overlap = TRUE
INVARIANTS TypeOK OneContainer RetryFindsName EndedRunIsStill
PROPERTIES ContainersRemoved
CHECK_DEADLOCK FALSE
