SPECIFICATION Spec
CONSTANTS
    MaxThreads = 3
    NumHthreads = 3
    Fast = {"f"}
    Recursive = {"r"}
    ErrorCheck = {}
    Conds = {"c"}
    Barriers = {"b"}
    MaxCount = 2
    CreateAfterExit = FALSE
    Cancels = FALSE
    CancelBlocked = FALSE
    Yields = TRUE
INVARIANT TypeOK
INVARIANT BlockedIffQueued
INVARIANT Ownership
INVARIANT NoSpinOnFree
INVARIANT BarrierBelowLimit
INVARIANT StopsForAReason
PROPERTY FirstComeFirstServed
