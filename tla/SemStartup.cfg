SPECIFICATION Spec
CONSTANTS
    MaxTries = 3
    MaxRound = 3
INVARIANTS TouchesReadySemaphore HolderLives NobodyGivesUp
PROPERTY ImplementsSection
CHECK_DEADLOCK FALSE
