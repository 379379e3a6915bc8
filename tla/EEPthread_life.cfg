SPECIFICATION Spec
CONSTANTS
    MaxThreads = 3
    NumHthreads = 3
    Fast = {}
    Recursive = {}
    ErrorCheck = {"e"}
    Conds = {}
    Barriers = {}
    MaxCount = 1
    CreateAfterExit = FALSE
    Cancels = TRUE
    CancelBlocked = FALSE
    Yields = FALSE
INVARIANT BlockedIffQueued
INVARIANT NactiveCounts
INVARIANT JoinTables
INVARIANT CurrentMayRun
