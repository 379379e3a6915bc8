CONSTANTS
    L2s = {1, 2}
    Local = {1}
    Wide = {1}
    MaxOut = 1
    Prefetchers = {}
    MaxOther = 1
SPECIFICATION Spec
CHECK_DEADLOCK FALSE
INVARIANTS AbortNeedsEviction OneWriter NothingLost
