SPECIFICATION Spec
CONSTANTS
    MaxThreads = 3
    NumHthreads = 3
    Fast = {"f"}
    Recursive = {}
    ErrorCheck = {}
    Conds = {}
    Barriers = {}
    MaxCount = 1
    CreateAfterExit = TRUE
    Cancels = FALSE
    CancelBlocked = FALSE
    Yields = FALSE
INVARIANT Ownership
