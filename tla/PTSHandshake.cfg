SPECIFICATION FairSpec
CONSTANTS
    NumProcs = 1
    ThreadsPer = 2
    BatchSize = 3
    QueueMax = 8
    MaxCreate = 1
INVARIANT TypeOK
INVARIANT FirstExclusion
INVARIANT FirstReply
INVARIANT ChannelInv
INVARIANT NoDrop
INVARIANT FirstNeverExits
INVARIANT CoresAgree
INVARIANT ResumeFindsCore
INVARIANT RunsActiveThread
PROPERTY Answered
PROPERTY ImplementsCall
