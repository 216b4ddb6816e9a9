SPECIFICATION Spec
CONSTANTS
    MaxTries = 3
    MaxRound = 3
INVARIANT OneSemaphore
CHECK_DEADLOCK FALSE
