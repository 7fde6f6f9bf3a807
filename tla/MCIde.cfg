CONSTANTS
    p1 = p1
    p2 = p2
    k1 = k1
    idle = idle
    NULL = NULL
    Idle <- idle
    Tasks <- MCTasks
    Procs <- MCProcs
    KThreads <- MCKThreads
    Boot <- MCBoot
    Ops = {"read", "write"}
    MaxOps = 1
    Chunks = 2
    Prio = 1

SPECIFICATION Spec

INVARIANTS TypeOK ChannelExclusion NoLostWakeup CompletionPairs
PROPERTY ChannelRefined
