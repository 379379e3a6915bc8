CONSTANTS
    L2s = {1, 2, 3}
    Local = {1}
    Wide = {}
    MaxOut = 1
    Prefetchers = {}
    MaxOther = 0
SPECIFICATION Spec
CHECK_DEADLOCK FALSE
INVARIANTS TypeOK ModifiedAlone SettlesConsistent
