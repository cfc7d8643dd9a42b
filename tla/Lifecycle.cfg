SPECIFICATION MCSpec
CONSTANTS
    w1 = w1
    w2 = w2
    Crews <- MCCrews
    MaxObjects = 2
    MaxChanges = 1
    MaxFailures = 2
INVARIANTS HeldIsProtected
PROPERTIES DeletedIsReleased LiveIsInitialized
CHECK_DEADLOCK FALSE
