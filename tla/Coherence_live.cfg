CONSTANTS
    L2s = {1, 2}
    Local = {1}
    Wide = {}
    MaxOut = 1
    Prefetchers = {1, 2}
    MaxOther = 1
SPECIFICATION FairSpec
CHECK_DEADLOCK FALSE
PROPERTY Answered
