CONSTANTS
    init = init
    sh = sh
    a = a
    b = b
    idle = idle
    NULL = NULL
    Idle <- idle
    Tasks <- MCTasks
    Slots <- MCSlots
    InitSlot <- init
    KPages = 8
    MaxPid = 5
    MaxForks = 4
    MaxPipes = 0
    Prio = 1
    BtmpLen = 4087
    PgSize = 4096

SPECIFICATION Spec

INVARIANT KernelPagesAccounted
