CONSTANTS
    init = init
    sh = sh
    a = a
    b = b
    idle = idle
    NULL = NULL
    Idle <- idle
    Tasks <- MCTasks
    Slots <- MCSlots
    InitSlot <- init
    KPages = 18
    MaxPid = 5
    MaxForks = 3
    MaxPipes = 1
    Prio = 1
    BtmpLen = 4087
    PgSize = 4096

SPECIFICATION Spec

INVARIANTS TypeOK PidsUnique ParentAlive KernelPagesAccounted PipeRefsCounted
PROPERTIES ShellCompletes PipeReleased ProcTreeRefined
