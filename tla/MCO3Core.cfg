SPECIFICATION FairSpec
CONSTANTS
    QueueMax = 4
    RobMax = 5
    IssueWidth = 2
    CommitWidth = 1
    MaxAlu = 1
    MaxLdst = 1
    MaxLd = 1
    MaxSt = 1
    MaxSse = 1
    LongT = 2
    MissPenalty = 1
    InOrder = FALSE
    MaxNacks = 1
    Instrs <- SmallInstrs
    MaxInstrs = 3
    MaxLat = 1
INVARIANT TypeOK
INVARIANT NoLostWakeup
INVARIANT RequestsMatch
INVARIANT ProgramOrder
PROPERTY Drains
