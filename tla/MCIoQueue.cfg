CONSTANTS
    w1 = w1
    w2 = w2
    r1 = r1
    idle = idle
    NULL = NULL
    Idle <- idle
    Tasks <- MCTasks
    Writers <- MCWriters
    Readers <- MCReaders
    Boot <- MCBoot
    BufSize = 3
    MaxCount = 3
    WriteOps = 2
    Prio = 1

SPECIFICATION Spec

INVARIANTS TypeOK RingContents WaiterSlots
PROPERTY WriteCompletes
