CONSTANTS
    L2s = {1, 2}
    Local = {1}
    Wide = {1}
    MaxOut = 1
    Prefetchers = {}
    MaxOther = 0
SPECIFICATION Spec
CHECK_DEADLOCK FALSE
INVARIANT WriterAlone
