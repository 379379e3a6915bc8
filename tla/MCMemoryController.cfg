SPECIFICATION FairSpec
CONSTANTS
    Banks <- SmallBanks
    Rank <- SmallRank
    tRCD = 2
    tRR = 2
    tRP = 1
    tCL = 2
    tBL = 2
    tBBL = 2
    tRAS = 4
    tWRBUB = 1
    tRWBUB = 1
    tRRBUB = 1
    tWTR = 1
    Window = 3
    Configs <- SmallConfigs
    Threads = {1, 2}
    Reqs <- SmallReqs
    MaxReqs = 4
INVARIANT Bookkeeping
INVARIANT DramProtocol
INVARIANT BusTurnaround
PROPERTY Serves
