CONSTANTS
    main = main
    sh = sh
    Procs <- SoloProcs
    Preempt = {}
    Script <- SoloScript
    NI = 4
    NB = 3
    ND = 2
    K = 3
    MaxOpen = 3

SPECIFICATION Spec

INVARIANTS UniqueNames DirSizeMatchesEntries BitmapsCoverTree

