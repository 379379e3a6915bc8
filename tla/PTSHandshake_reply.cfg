SPECIFICATION Spec
CONSTANTS
    NumProcs = 2
    ThreadsPer = 1
    BatchSize = 2
    QueueMax = 5
    MaxCreate = 0
INVARIANT EveryReply
