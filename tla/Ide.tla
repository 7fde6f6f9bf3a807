--------------------------------- MODULE Ide ---------------------------------
(***************************************************************************)
(* One ATA channel of src/device/ide.c driven by several tasks, with the   *)
(* channel lock, the disk_done completion semaphore, the expecting_intr    *)
(* flag, the interrupt handler, the drive itself, the timer and the idle   *)
(* thread.                                                                 *)
(*                                                                         *)
(* Interrupts.  A system call runs with interrupts disabled (sys_fork      *)
(* asserts INTR_OFF on entry, ioq_getchar/ioq_putchar assert it on the     *)
(* read/write paths), so a user process inside ide_read/ide_write cannot   *)
(* be interrupted until it blocks or yields.  A kernel thread (main calls  *)
(* ide_read at boot, ide_init identifies the drives) runs the driver with  *)
(* interrupts enabled, so a timer tick or a disk interrupt may arrive      *)
(* between any two of its steps.  The idle thread halts with interrupts    *)
(* enabled.                                                                *)
(*                                                                         *)
(* The drive.  A READ command makes the drive busy, then it raises its     *)
(* interrupt with the data ready (DRQ); a WRITE command makes it busy      *)
(* briefly, then ready to take the data (DRQ, no interrupt); once the data *)
(* is written it is busy again and raises its interrupt when done.  A      *)
(* command written while the drive is not idle is ignored.  The PIC keeps  *)
(* at most one pending interrupt per line.                                *)
(*                                                                         *)
(* Data is abstracted away: a transfer is a number of 256-sector chunks    *)
(* (the inner loop of ide_read/ide_write), busy_wait's 30 s budget is not  *)
(* modelled (the drive always answers; a wedged drive panics by design).  *)
(***************************************************************************)
EXTENDS Sync, FiniteSets, SequencesExt

CONSTANTS
    Procs,        \* user processes calling the driver from system calls
    KThreads,     \* kernel threads calling the driver with interrupts on
    Ops,          \* the commands the workload uses, within {"read", "write"}
    MaxOps,       \* transfers each task performs
    Chunks,       \* 256-sector chunks per transfer
    Boot          \* boot order: Head runs first, the rest are ready

Workers == Procs \cup KThreads

ASSUME
    /\ Tasks = Workers \cup {Idle} /\ Idle \notin Workers
    /\ Ops \subseteq {"read", "write"} /\ Ops # {}
    /\ MaxOps \in Nat /\ Chunks \in Nat \ {0}
    /\ Boot \in Seq(Tasks) /\ Len(Boot) = Cardinality(Tasks)

VARIABLES
    chanLock,     \* channel->lock
    diskDone,     \* channel->disk_done
    expecting,    \* channel->expecting_intr
    dev,          \* the drive's state
    irq,          \* an interrupt is pending on the channel's line
    pc,           \* where each task is
    op,           \* the command of each task's current transfer
    left,         \* chunks left in each task's transfer (secs_done)
    ops,          \* transfers started by each task
    panicked      \* PANIC was called

vars == <<status, ready, running, ticks, chanLock, diskDone, expecting, dev,
          irq, pc, op, left, ops, panicked>>

DevStates == {"idle", "rd_busy", "rd_data", "wr_setup", "wr_drq", "wr_busy"}

\* Status register bits as busy_wait reads them.
BSY == dev \in {"rd_busy", "wr_setup", "wr_busy"}
DRQ == dev \in {"rd_data", "wr_drq"}

\* Program points of the driver between lock_acquire and lock_release.
Driving == {"issue", "rd_down", "rd_poll", "wr_poll", "wr_down"}
Pcs == {"user", "acquire", "idle_block", "idle_hlt"} \cup Driving

\* Interrupts are enabled: user mode, kernel threads, the idle loop.
Interruptible == running \in KThreads \cup {Idle} \/ pc[running] = "user"

-----------------------------------------------------------------------------
\* Mutation of Init: disk_done initialised to 1.
InitDoneToken ==
    /\ SchedInit(Boot)
    /\ chanLock = LockInit
    /\ diskDone = Sema(1)
    /\ expecting = FALSE /\ dev = "idle" /\ irq = FALSE
    /\ pc = [t \in Tasks |-> IF t = Idle THEN "idle_block" ELSE "user"]
    /\ op = [t \in Workers |-> "read"]
    /\ left = [t \in Workers |-> 0] /\ ops = [t \in Workers |-> 0]
    /\ panicked = FALSE

(***************************************************************************)
(* ide_init: the channel lock, disk_done at 0, no interrupt expected.      *)
(***************************************************************************)
Init ==
    /\ SchedInit(Boot)
    /\ chanLock = LockInit
    /\ diskDone = Sema(0)
    /\ expecting = FALSE
    /\ dev = "idle"
    /\ irq = FALSE
    /\ pc = [t \in Tasks |-> IF t = Idle THEN "idle_block" ELSE "user"]
    /\ op = [t \in Workers |-> "read"]
    /\ left = [t \in Workers |-> 0]
    /\ ops = [t \in Workers |-> 0]
    /\ panicked = FALSE

\* A system call (or kernel code) enters ide_read or ide_write.
StartIo(t) ==
    /\ pc[t] = "user" /\ ops[t] < MaxOps
    /\ \E o \in Ops : op' = [op EXCEPT ![t] = o]
    /\ left' = [left EXCEPT ![t] = Chunks]
    /\ ops' = [ops EXCEPT ![t] = @ + 1]
    /\ pc' = [pc EXCEPT ![t] = "acquire"]
    /\ UNCHANGED <<status, ready, running, ticks, chanLock, diskDone,
                   expecting, dev, irq, panicked>>

\* lock_acquire(&channel->lock), resumed here after every wake-up.
Acquire(t) ==
    /\ pc[t] = "acquire"
    /\ LET a == LockAcquire(chanLock, Now)
       IN  /\ chanLock' = a.lk
           /\ SetSched(a.S)
           /\ pc' = [pc EXCEPT ![t] = IF a.got THEN "issue" ELSE "acquire"]
    /\ UNCHANGED <<diskDone, expecting, dev, irq, op, left, ops,
                   panicked>>

\* Mutation of CmdOut: expecting_intr is not set.
CmdOutNoExpect(o) ==
    /\ expecting' = FALSE
    /\ dev' = IF dev # "idle" THEN dev
              ELSE IF o = "read" THEN "rd_busy" ELSE "wr_setup"

\* cmd_out: expecting_intr is set, then the command register is written.
\* The drive only takes a command when it is idle.
CmdOut(o) ==
    /\ expecting' = TRUE
    /\ dev' = IF dev # "idle" THEN dev
              ELSE IF o = "read" THEN "rd_busy" ELSE "wr_setup"

\* select_disk, select_sector and cmd_out of one chunk.
Issue(t) ==
    /\ pc[t] = "issue"
    /\ CmdOut(op[t])
    /\ pc' = [pc EXCEPT ![t] = IF op[t] = "read" THEN "rd_down" ELSE "wr_poll"]
    /\ UNCHANGED <<status, ready, running, ticks, chanLock, diskDone, irq, op,
                   left, ops, panicked>>

\* End of a chunk: secs_done grows; after the last one lock_release.
ChunkDone(t) ==
    IF left[t] > 1
    THEN /\ left' = [left EXCEPT ![t] = @ - 1]
         /\ pc' = [pc EXCEPT ![t] = "issue"]
         /\ UNCHANGED <<status, ready, running, ticks, chanLock>>
    ELSE LET r == LockRelease(chanLock, Now)
         IN  /\ chanLock' = r.lk
             /\ SetSched(r.S)
             /\ left' = [left EXCEPT ![t] = 0]
             /\ pc' = [pc EXCEPT ![t] = "user"]

\* sema_down(&channel->disk_done) after the command (read) or the data
\* (write); a read goes on to busy_wait, a write has finished its chunk.
DiskDown(t) ==
    /\ pc[t] \in {"rd_down", "wr_down"}
    /\ LET d == SemaDown(diskDone, Now)
       IN  /\ diskDone' = d.sem
           /\ IF ~d.got
              THEN /\ SetSched(d.S)
                   /\ UNCHANGED <<pc, left, chanLock>>
              ELSE IF pc[t] = "rd_down"
                   THEN /\ pc' = [pc EXCEPT ![t] = "rd_poll"]
                        /\ UNCHANGED <<status, ready, running, ticks, left,
                                       chanLock>>
                   ELSE ChunkDone(t)
    /\ UNCHANGED <<expecting, dev, irq, op, ops, panicked>>

\* busy_wait while BSY: mtime_sleep(10), i.e. thread_yield.
PollBusy(t) ==
    /\ pc[t] \in {"rd_poll", "wr_poll"}
    /\ BSY
    /\ SetSched(Yield(Now))
    /\ UNCHANGED <<chanLock, diskDone, expecting, dev, irq, pc, op, left, ops,
                   panicked>>

\* Mutation of PollDone: busy_wait returns without waiting for BSY to clear.
PollDoneEarly(t) ==
    /\ pc[t] \in {"rd_poll", "wr_poll"}
    /\ IF ~DRQ
       THEN /\ panicked' = TRUE
            /\ UNCHANGED <<status, ready, running, ticks, chanLock, dev, pc,
                           left>>
       ELSE /\ panicked' = FALSE
            /\ IF pc[t] = "rd_poll"
               THEN /\ dev' = "idle"
                    /\ ChunkDone(t)
               ELSE /\ dev' = "wr_busy"
                    /\ pc' = [pc EXCEPT ![t] = "wr_down"]
                    /\ UNCHANGED <<status, ready, running, ticks, chanLock,
                                   left>>
    /\ UNCHANGED <<diskDone, expecting, irq, op, ops>>

(***************************************************************************)
(* busy_wait returns once BSY is clear: true if DRQ is set, and the caller *)
(* does read_from_sector or write2sector; false otherwise, and the caller  *)
(* PANICs ("read sector failed" / "write sector failed").                  *)
(***************************************************************************)
PollDone(t) ==
    /\ pc[t] \in {"rd_poll", "wr_poll"}
    /\ ~BSY
    /\ IF ~DRQ
       THEN /\ panicked' = TRUE
            /\ UNCHANGED <<status, ready, running, ticks, chanLock, dev, pc,
                           left>>
       ELSE /\ panicked' = FALSE
            /\ IF pc[t] = "rd_poll"
               THEN /\ dev' = "idle"
                    /\ ChunkDone(t)
               ELSE /\ dev' = "wr_busy"
                    /\ pc' = [pc EXCEPT ![t] = "wr_down"]
                    /\ UNCHANGED <<status, ready, running, ticks, chanLock,
                                   left>>
    /\ UNCHANGED <<diskDone, expecting, irq, op, ops>>

DriverStep(t) ==
    \/ Acquire(t) \/ Issue(t) \/ DiskDown(t)
    \/ PollBusy(t) \/ PollDone(t)

\* idle: thread_block(TASK_BLOCKED), then "sti; hlt" once resumed.
IdleBlock ==
    /\ running = Idle /\ pc[Idle] = "idle_block"
    /\ SetSched(Block(Now, "Blocked"))
    /\ pc' = [pc EXCEPT ![Idle] = "idle_hlt"]
    /\ UNCHANGED <<chanLock, diskDone, expecting, dev, irq, op, left, ops,
                   panicked>>

\* An interrupt taken while the idle thread halts ends its hlt.
WakeIdle == IF running = Idle THEN [pc EXCEPT ![Idle] = "idle_block"] ELSE pc

(***************************************************************************)
(* intr_hd_handler: if the channel expects an interrupt, clear the flag    *)
(* and sema_up(disk_done); an unexpected interrupt is dropped.             *)
(***************************************************************************)
IntrHd ==
    /\ irq /\ Interruptible
    /\ irq' = FALSE
    /\ IF expecting
       THEN LET u == SemaUp(diskDone, Now)
            IN  /\ expecting' = FALSE
                /\ diskDone' = u.sem
                /\ SetSched(u.S)
       ELSE UNCHANGED <<expecting, diskDone, status, ready, running, ticks>>
    /\ pc' = WakeIdle
    /\ UNCHANGED <<chanLock, dev, op, left, ops, panicked>>

\* The timer interrupt.
Tick ==
    /\ Interruptible
    /\ SetSched(TimerTick(Now))
    /\ pc' = WakeIdle
    /\ UNCHANGED <<chanLock, diskDone, expecting, dev, irq, op, left, ops,
                   panicked>>

\* The drive finishes what it is doing.
DevStep ==
    /\ dev \in {"rd_busy", "wr_setup", "wr_busy"}
    /\ dev' = CASE dev = "rd_busy"  -> "rd_data"
                [] dev = "wr_setup" -> "wr_drq"
                [] dev = "wr_busy"  -> "idle"
    /\ irq' = (irq \/ dev \in {"rd_busy", "wr_busy"})
    /\ UNCHANGED <<status, ready, running, ticks, chanLock, diskDone,
                   expecting, pc, op, left, ops, panicked>>

Next ==
    /\ ~panicked
    /\ \/ \E t \in Workers : running = t /\ (StartIo(t) \/ DriverStep(t))
       \/ IdleBlock \/ IntrHd \/ Tick \/ DevStep

(***************************************************************************)
(* Fairness.  A task given the CPU executes (strong fairness of its driver *)
(* steps, which are enabled whenever it is scheduled); the drive finishes  *)
(* a command; the PIC delivers a pending interrupt and the PIT ticks as    *)
(* soon as interrupts are enabled, which happens infinitely often.  No     *)
(* task is forced to start a transfer.                                     *)
(***************************************************************************)
Fairness ==
    /\ \A t \in Workers : SF_vars(running = t /\ DriverStep(t))
    /\ WF_vars(IdleBlock)
    /\ WF_vars(DevStep)
    /\ SF_vars(IntrHd)
    /\ SF_vars(Tick)

Spec == Init /\ [][Next]_vars /\ Fairness

-----------------------------------------------------------------------------
TypeOK ==
    /\ SchedTypeOK
    /\ chanLock \in [holder : Workers \cup {NULL}, repeat : 0..1,
                     sem : [value : 0..1, waiters : Seq(Tasks)]]
    /\ diskDone \in [value : 0..1, waiters : Seq(Tasks)]
    /\ expecting \in BOOLEAN /\ irq \in BOOLEAN /\ panicked \in BOOLEAN
    /\ dev \in DevStates
    /\ pc \in [Tasks -> Pcs]
    /\ op \in [Workers -> Ops \cup {"read"}]
    /\ left \in [Workers -> 0..Chunks]
    /\ ops \in [Workers -> 0..MaxOps]

Waiters == ToSet(chanLock.sem.waiters) \cup ToSet(diskDone.waiters)

(***************************************************************************)
(* Only the lock holder drives the channel.  Between lock_acquire and      *)
(* lock_release exactly one task is in the driver, it is the recorded      *)
(* holder, and the lock's semaphore is 0 exactly while it is held: the     *)
(* barging re-entry of sema_down after a wake-up, the holder being         *)
(* preempted (kernel thread) and the interrupt handler never let a second  *)
(* task program the drive.                                                 *)
(***************************************************************************)
ChannelExclusion ==
    /\ (chanLock.holder = NULL) <=> (chanLock.sem.value = 1)
    /\ \A t \in Workers : pc[t] \in Driving <=> chanLock.holder = t

(***************************************************************************)
(* No lost wake-up: a blocked worker is on the waiters list of the lock or *)
(* of disk_done (exactly once) and nowhere else, so some sema_up can still *)
(* wake it; the ready list holds each Ready task once and no other task;   *)
(* exactly the running task is Running.  thread_block, thread_unblock's    *)
(* push at the head, schedule's re-append of the preempted task and the    *)
(* unblocking of the idle thread must keep these together.                 *)
(***************************************************************************)
NoLostWakeup ==
    /\ \A t \in Tasks : (status[t] = "Running") <=> (t = running)
    /\ \A t \in Tasks : (status[t] = "Ready") <=> (t \in ToSet(ready))
    /\ Len(ready) = Cardinality(ToSet(ready))
    /\ \A t \in Workers :
          (status[t] = "Blocked") <=>
             (\/ t \in ToSet(chanLock.sem.waiters) /\ pc[t] = "acquire"
              \/ t \in ToSet(diskDone.waiters) /\ pc[t] \in {"rd_down", "wr_down"})
    /\ Len(chanLock.sem.waiters) + Len(diskDone.waiters) = Cardinality(Waiters)
    /\ Idle \notin Waiters

(***************************************************************************)
(* Completions pair with commands: a read reaches busy_wait only after its *)
(* own command has completed (the data is there), disk_done holds a token  *)
(* only for a completed command, and an interrupt the handler would accept *)
(* is the outstanding command's.  A stale token or a late interrupt would  *)
(* let sema_down return before the drive is done.                          *)
(***************************************************************************)
CompletionPairs ==
    /\ \A t \in Workers : pc[t] = "rd_poll" => dev = "rd_data"
    /\ diskDone.value = 1 => ~expecting /\ dev \in {"rd_data", "idle"}
    /\ expecting /\ irq => dev \in {"rd_data", "idle"}


-----------------------------------------------------------------------------
(***************************************************************************)
(* Refinement of IdeChannel.  The channel's owner is the holder of         *)
(* channel->lock; a task is in a call from ide_read/ide_write's entry to   *)
(* its return; the drive has served the owner's chunk once a read's data   *)
(* is ready (DRQ) or a write's data has been committed and the drive is    *)
(* idle again, while the owner is still waiting for it.                    *)
(***************************************************************************)
ChunkServed ==
    \E t \in Workers :
        /\ chanLock.holder = t
        /\ \/ pc[t] \in {"rd_down", "rd_poll"} /\ dev = "rd_data"
           \/ pc[t] = "wr_down" /\ dev = "idle"

Channel == INSTANCE IdeChannel WITH
    owner <- chanLock.holder,
    inCall <- [t \in Workers |-> pc[t] # "user"],
    served <- ChunkServed

(***************************************************************************)
(* The driver implements the channel abstraction: through barging          *)
(* semaphores, preemption of a kernel-thread holder and interrupts, the    *)
(* lock holder is the only task whose chunks complete, a chunk ends        *)
(* (secs_done grows, lock_release after the last) only after the drive     *)
(* has served it, and every call is granted the channel and returns.       *)
(***************************************************************************)
ChannelRefined == Channel!Spec

=============================================================================
