CONSTANTS
    main = main
    proc = proc
    sh = sh
    idle0 = idle0
    NULL = NULL
    Idle <- idle0
    Tasks <- MCTasks
    Workers <- MCWorkers
    MainThread <- main
    Boot <- MCBoot
    PreAlloc <- MCBootPre
    Prog <- MCBootProg
    NK = 6
    NU = 2
    PdeInit = {}
    Asserts = TRUE
    Prio = 1
    BlocksPerArena = 2
    Child <- MCChild

SPECIFICATION Spec

INVARIANT PoolBitmapsExact
