CONSTANTS
    Len = 2
    MaxCnt = 3

SPECIFICATION Spec

INVARIANT ScanFindsFirstFit
