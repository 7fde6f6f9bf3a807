CONSTANTS
    main = main
    proc = proc
    sh = sh
    idle0 = idle0
    NULL = NULL
    Idle <- idle0
    Tasks <- MCTasks
    Workers <- MCWorkers
    MainThread <- main
    Boot <- MCBoot
    PreAlloc <- MCFreePre
    Prog <- MCFreeProg
    NK = 7
    NU = 2
    PdeInit = {}
    Asserts = TRUE
    Prio = 1
    BlocksPerArena = 2
    Child <- MCChild

SPECIFICATION Spec

INVARIANT PoolBitmapsExact ArenaBlocksAccounted
PROPERTY CallsComplete
