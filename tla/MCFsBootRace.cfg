CONSTANTS
    main = main
    sh = sh
    Procs <- BootProcs
    Preempt = {main}
    Script <- BootScript
    NI = 4
    NB = 3
    ND = 2
    K = 3
    MaxOpen = 3

SPECIFICATION Spec

INVARIANT UniqueNames
