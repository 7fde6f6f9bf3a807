# TLA+ models of SparrowOS

These are TLA+ specifications of the SparrowOS kernel (`src/`), checked with TLC.
Each module is written from the C source. The names of states, actions and
operators are those of the functions they translate. `PROJECT.json` maps every
modelled definition to the source lines it stands for. It also lists the runs,
the mutants that show each property can fail, the findings, and the hazards of
the code.

## 1. The system and its parts

SparrowOS is a uniprocessor x86 kernel. The parts that hold state and interact
are:

| Part | Source | State | Operations | Interacts with |
|---|---|---|---|---|
| Synchronisation | `thread/sync.c` | semaphore (value, waiters), lock (holder, repeat count, semaphore) | `sema_down`, `sema_up`, `lock_acquire`, `lock_release` | scheduler (block/unblock) |
| Scheduler | `thread/thread.c` | task status, ready list, running task, time slices, idle thread | `schedule`, `thread_block`, `thread_unblock`, `thread_yield`, timer tick, `thread_exit`, pid pool | every blocking call |
| ATA driver | `device/ide.c` | per channel: lock, `disk_done` semaphore, `expecting_intr`; the drive's registers | `ide_read`, `ide_write`, `busy_wait`, `intr_hd_handler`, `ide_init`, `partition_scan` | scheduler, file system, interrupt controller |
| Ring buffer | `device/ioqueue.c` | head, tail, producer/consumer waiter, lock | `ioq_getchar`, `ioq_putchar`, `ioq_length` | scheduler, pipes, keyboard |
| Pipes | `shell/pipe.c` | file-table slot whose `fd_pos` counts references and whose `fd_inode` is the ring buffer | `sys_pipe`, `pipe_read`, `pipe_write`, `sys_fd_redirect` | ring buffer, fork/exit |
| Process lifecycle | `userprog/fork.c`, `wait_exit.c`, `exec.c`, `process.c` | parent pid, status (Waiting, Hanging), exit status, page directory | `sys_fork`, `sys_execv`, `sys_wait`, `sys_exit`, `init_adopt_a_child` | scheduler, memory, files |
| Memory manager | `kernel/memory.c`, `lib/kernel/bitmap.c` | physical pools, virtual bitmaps, page tables, arenas | `malloc_page`, `get_a_page`, `mfree_page`, `sys_malloc`, `sys_free`, `bitmap_scan` | every allocator caller |
| File system and fds | `fs/fs.c`, `dir.c`, `inode.c` | inodes, directory entries, open-inode list, global file table | `sys_open`, `sys_close`, `sys_read`, `sys_write`, `sys_lseek`, `sys_unlink`, `sys_mkdir`, `sys_rmdir` | ATA driver (every disk access may block) |
| Shell | `shell/shell.c` | line buffer, pipeline | `readline`, `cmd_parse`, pipeline fork/redirect/wait | pipes, process lifecycle |
| Boot | `kernel/main.c`, `init.c` | init process | `main` reads the program image with `ide_read`, `init` forks the shell and reaps orphans | everything |

Not in this repository: `timer.c` (timer handler, `mtime_sleep`), `list.c`,
`file.c`, `kernel.S`. Behaviour that lives there is modelled from `spec.md`
and marked `spec_modelled` in the map.

### What makes it hard

- **Interrupts.** A system call runs with interrupts disabled: `sys_fork`
  asserts it, and `ioq_getchar`/`ioq_putchar` assert it on the read and write
  paths. A user process in a system call therefore runs atomically until it
  blocks or yields. Kernel threads (`main`, `idle`) run with interrupts on, so
  the timer and the disk may interrupt them between any two statements.
- **Barging semaphores.** `sema_up` makes a waiter ready but does not hand it
  the token. The waiter re-runs the `while` loop and may block again, so a
  wake-up can be "lost" in the sense that another task got the value first.
- **The drive runs concurrently with the CPU.** Completion is signalled by an
  interrupt that is matched to a command only through `expecting_intr`.
- **Zombies and orphans.** Exit, wait and re-parenting interleave across
  several processes.
- **Partial failure.** Allocation and file-system paths touch several
  resources and do not always roll back.

### Properties that make each part correct

- Synchronisation/scheduler: one running task; the ready list holds exactly
  the Ready tasks, each once; every blocked task is on the list of the object
  it waits for.
- ATA driver: only the lock holder programs the channel; a completion (a
  `disk_done` token, an accepted interrupt) belongs to the command in flight;
  `busy_wait` never panics on a healthy drive; every transfer finishes.
- Ring buffer and pipes: at most one waiter per side; a pipe write that fits
  does not block; a pipe's buffer is freed exactly when its last reference
  goes.
- Process lifecycle: every exited child is eventually reaped; a waiting
  parent is woken by its child's exit; pids are unique among live tasks.
- Memory: a bit is set in a pool bitmap exactly when a mapping uses the
  frame; `bitmap_scan` returns the first fitting run or -1.
- File system: a directory holds at most one entry per name; an inode is open
  at most once in memory and its open count matches its references.

## 2. Plan

Modules are built in this order, most important behaviour first:

1. `Sched`, `Sync`, `Ide` (done): the scheduler and the synchronisation
   primitives as operators, composed into the ATA channel with its drive,
   interrupts, timer and idle thread.
2. Ring buffer and pipes (`IoQueue`, done): producer and consumer tasks
   over `ioq_putchar`/`ioq_getchar`, and `pipe_write`'s free-space
   computation.
3. Process lifecycle (`Proc`, done): fork, exit, wait and adoption by
   init, and the shell's two-command pipeline with the pipe's reference
   count across fork, exit and close.
4. Memory (`Bitmap`, `Mem`, done): `bitmap_scan` as RECURSIVE operators
   checked against a first-fit reference over every small bitmap, and the
   page allocator with its locks, preemption inside `palloc`, page-table
   allocation and page release, and one size class of the kernel's
   small-block arenas, shared by kernel threads and by user processes
   inside `inode_open`/`inode_close`.
5. File system (`Fs`, done): directory-entry insertion and deletion in the
   root directory across the blocking ATA calls, with the open-inode list,
   both bitmaps and the file table. Nested directories and file data are
   still open.
6. An abstract channel (`IdeChannel`, done) refined by `Ide` through
   `INSTANCE ... WITH`.
7. An abstract process tree (`ProcTree`, done) refined by `Proc`.

## 3. The ATA channel: `Sched`, `Sync`, `Ide`, `IdeChannel`, `MCIde`

### Correspondence with the code

`Sched` holds the scheduler state: `status`, `ready` (a sequence, with pushes
at the head by `thread_unblock`), `running` and `ticks`. Its operators
(`Schedule`, `Block`, `Unblock`, `Yield`, `TimerTick`) are pure functions
from a scheduler record to the next one. A handler that calls several of them
composes them into one action. `Sync` does the same for `sema_down`,
`sema_up`, `lock_acquire` and `lock_release`. Each of those returns the new
object and the new scheduler state.

`Ide` models one channel.

- `pc[t]` is the program point of each worker task:
  - `user`;
  - `acquire` (in `lock_acquire`);
  - `issue` (before `select_sector`/`cmd_out` of a chunk);
  - `rd_down`/`wr_down` (in `sema_down(&disk_done)`);
  - `rd_poll`/`wr_poll` (in `busy_wait`).
- A blocked task stays at the point where it blocked, and re-runs the
  `while` loop of `sema_down` when it is scheduled again.
- Actions:
  - `StartIo`: entry to `ide_read`/`ide_write`.
  - `Acquire`: `lock_acquire`.
  - `Issue`: `select_sector` and `cmd_out`.
  - `DiskDown`: `sema_down(&disk_done)`, and for a write the end of the chunk.
  - `PollBusy`: `busy_wait` sees BSY and sleeps, which is a `thread_yield`.
  - `PollDone`: `busy_wait` returns, then the caller either panics or does
    `read_from_sector`/`write2sector`.
  - `ChunkDone`: `secs_done` advances, and after the last chunk
    `lock_release`.
  - `IntrHd`: `intr_hd_handler`.
  - `Tick`: the timer interrupt.
  - `IdleBlock`: the idle thread's `thread_block`. Any interrupt taken while
    idle halts returns it to the top of its loop.
- The drive is an environment process (`DevStep`). A READ goes busy, then
  raises its interrupt with data ready. A WRITE goes busy, becomes ready for
  the data (no interrupt), goes busy again when the data has been written,
  and raises its interrupt when done. A command written while the drive is
  busy is ignored. The interrupt line latches at most one pending interrupt.
- `Interruptible` says when interrupts can be taken: the running task is a
  kernel thread, the idle thread, or a process in user mode.

Data is abstracted away: a transfer is `Chunks` chunks of 256 sectors, and no
buffer contents are modelled.

### Runs

| Run | Config | Checks | Shows |
|---|---|---|---|
| `ide_core` | `MCIde.cfg` | `TypeOK`, `ChannelExclusion`, `NoLostWakeup`, `CompletionPairs`, `ChannelRefined` | The run uses two user processes, the kernel thread `main` and idle, each making a read or write of two chunks. No two tasks share the channel, no wake-up is lost, and a task consumes only its own command's completion. The driver also refines `IdeChannel` with its fairness, so every call is granted the channel and returns. 144,868 states. |

### The abstract channel and the refinement

`IdeChannel` is what the driver promises its callers (spec section 4.F),
with no lock, semaphore, interrupt or scheduler:

- `Grant` gives a free channel to a caller that has not started.
- `Serve` is the drive completing the owner's current chunk.
- `Transfer` is the owner taking that chunk, and with its last chunk
  releasing the channel and returning.
- Fairness: the drive always answers, the owner takes its chunk, and a
  caller facing a channel that keeps becoming free is granted it (strong
  fairness).

`Ide` maps onto it with `INSTANCE IdeChannel WITH`:

- the owner is `channel->lock`'s holder;
- a task is in a call when its `pc` is not `user`;
- `left` and `ops` are the same variables;
- the chunk is served (`ChunkServed`) when a read's data is ready (`rd_data`)
  or a write's drive is idle again, while the holder still waits for it.

Every other step of `Ide` (scheduling, semaphores, interrupts, polling) is a
stutter of `IdeChannel`. `ChannelRefined` checks `Channel!Spec` as a
property, so the abstract fairness also implies that
every transfer finishes. A `cmd_out` that does not set
`expecting_intr` leaves the interrupt unaccepted and the call never returns,
which violates the refinement.

### Bounds and why they suffice

- Tasks: two user processes (`p1`, `p2`), one kernel thread (`k1`, standing
  for `main`) and `idle`.
  - Two processes make one of them contend for the lock while the holder
    blocks on the disk.
  - The kernel thread adds preemption inside the critical section.
  - With a single task, `NoLostWakeup` could not fail.
- `MaxOps = 1` transfer per task. `Chunks = 2` makes the chunk loop run and
  issue a second command.
- `Prio = 1` makes preemption by the timer frequent.
- Mutation runs show the bounds reach the interesting states. Keeping the
  holder in `lock_release`, re-queueing blocked tasks in `schedule`, a
  `disk_done` token at boot, a `cmd_out` that does not set
  `expecting_intr`, a `busy_wait` that does not wait for BSY and a
  `sema_up` that does not increment are each caught.

### Fairness

- Strong fairness on each worker's driver steps. A task that is scheduled
  executes, but it may be descheduled before it does, so the step is only
  intermittently enabled.
- Weak fairness on the drive and the idle thread's block.
- Strong fairness on interrupt delivery and the timer. Both are possible
  only while interrupts are enabled, which keeps happening.
- No task is forced to start a transfer.

### Not modelled here

- The 30-second `busy_wait` budget. Its decrement is `time_limit -= (10 >= 0)`,
  i.e. by one. Time is not modelled, and a wedged drive panics by design.
- The two drives of a channel and the second channel.
- `identify_disk` and `partition_scan`.
- The re-entrant branch of `lock_acquire`.
- Interrupts that the drive raises without a command. `intr_hd_handler`
  accepts any interrupt while `expecting_intr` is set, and `ide_write` sets
  it before its `busy_wait`. Such an interrupt would wake the writer early and
  let the next command reach a busy drive (hazard at `ide.c:233`).

## 4. Pipes over the ring buffer: `IoQueue`, `MCIoQueue`

### Correspondence with the code

`IoQueue` models one pipe: the ring buffer of `device/ioqueue.c` used through
`pipe_write` and `pipe_read` (`shell/pipe.c`) by writer and reader processes.
It reuses `Sched` and `Sync` for the scheduler and for `ioq->lock`.

- State: `head`, `tail`, `buf`, `producer`, `consumer` and `ioqLock` are the
  fields of `struct ioqueue`. `size` and `done` are the locals of the current
  `pipe_write`/`pipe_read` call. `sent` and `got` count the bytes of the
  stream modulo `Mod = 2 * BufSize`.
- A byte is abstracted to its position in the stream modulo `Mod`. That is
  enough to see a byte lost, duplicated or reordered.
- Actions:
  - `PipeWrite`: the free space `bufsize - ioq_length` bounds the count.
  - `PipeRead`: the bytes present bound the count.
  - `PutChar`/`GetChar`: one iteration of the copy loop. Each is a whole
    `ioq_putchar`/`ioq_getchar`: the store or load, `next_pos`, and the
    `wakeup` of the other side. If the ring is full or empty the task goes
    to the `while` body instead.
  - `LockAndWait`: `lock_acquire`, then `ioq_wait`, which records the task
    and blocks it while it still holds the lock.
  - `WaitDone`: after the wake-up, `lock_release`, then the `while`
    condition again.
- The calls run inside system calls with interrupts off, so a user task
  runs until it blocks. Only the idle thread and tasks in user mode are
  preempted by `Tick`.

### Runs

| Run | Config | Checks | Shows |
|---|---|---|---|
| `pipe_core` | `MCIoQueue.cfg` | `TypeOK`, `RingContents`, `WaiterSlots`, `WriteCompletes` | With two writers and one reader on a 3-slot ring, the ring always holds exactly the unread bytes in order. Every blocked task is recorded in its side's waiter slot and holds the lock. Every `write()` returns. 234,042 states. |
| `pipe_write_blocks` | `MCIoQueueBlock.cfg` | `PipeWriteNeverBlocks` (violation expected) | `pipe_write` computes the free space as `bufsize - ioq_length`. The ring holds only `bufsize - 1` bytes, so a write that fills the free space blocks in `ioq_putchar`. The comment in `pipe.c` and spec section 4.J say it does not. |

### Bounds

- `BufSize = 3`: a ring of two usable bytes wraps after a few writes.
- `MaxCount = 3`: a call can ask for more than the free space.
- `WriteOps = 2`: each writer writes twice, so the writers interleave.
- Two writers compete for the producer slot, and one reader drains. Mutants
  are each caught: a wrong `next_pos` modulus, a store after `head` moved, a
  `wakeup` that keeps the waiter slot, and a `getchar` that does not wake the
  producer.

### Fairness

- Strong fairness on each user task's steps, as in `Ide`.
- The readers are assumed to keep calling `read()`. A pipeline's last command
  loops on its input until end of file.
- Weak fairness on the idle thread's block, and strong fairness on the timer.

### Not modelled here

- The keyboard's use of the same ring buffer, where the interrupt handler is
  the producer.
- `sys_fd_redirect` and the reference count of the pipe's file-table slot.
  They are modelled in `Proc` (section 5).

## 5. Process lifecycle: `Proc`, `ProcTree`, `MCProc`

### Correspondence with the code

`Proc` covers `sys_fork`, `sys_exit` and `sys_wait` (`userprog/`), the pid
pool and `thread_exit` (`thread/thread.c`), and the `init` process
(`kernel/main.c`). It reuses `Sched` for blocking and waking.

- A PCB page is a slot. A slot is `free`, `live` (on `thread_all_list`,
  kept in append order as `allList`) or `leaked`. Each slot has `pid`,
  `ppid` (`parent_pid`) and the program it runs (`role`). `pidUsed` is the
  pid bitmap. `kfree` counts free kernel pages.
- Three programs run:
  - `init` forks once, then calls `wait` forever;
  - the shell forks a command and waits for it, and panics if `wait`
    returns -1 (`cmd_execute`);
  - commands fork, wait and exit in any order.
- The shell's pipeline `a | b` (`my_shell`, shell.c 178-219). Extra
  variables: `pipeRefs[s]` counts the descriptors 3 and up of `s` that name
  the pipe's global slot, `redir[s]` is the set of descriptors 0 and 1
  redirected to it, `fdPos` is that slot's `fd_pos` and `ring` says whether
  its ring page (`fd_inode`) is allocated. Program points `sh_p1`, `sh_pw1`,
  `sh_mid`, `sh_p2`, `sh_pw2` and `sh_end` follow the steps of the pipeline.
- Actions:
  - `Fork`: the four allocations of `sys_fork`/`copy_process` in code
    order. These are the child PCB, the bounce page, the pid plus the
    bitmap copy in `copy_pcb_vaddrbitmap_stack0`, and the page directory.
    A failure returns -1 and keeps what was already allocated. On success
    the bounce page is freed and the child is appended to both lists.
  - `Exit`: `sys_exit`. It panics on a missing parent, runs
    `init_adopt_a_child` over the list, and calls `release_prog_resource`.
    That gives back `btmp_bytes_len / PG_SIZE` bitmap pages
    (`ReleasedByExit`, wait_exit.c:51-53), rounded down, while
    `create_user_vaddr_bitmap` and fork took `DIV_ROUND_UP` of the same
    length (`BtmpPages`). In the code that is 22 of 23 pages, so every exit
    keeps one page. The history variable `lost` counts these pages. It wakes the parent if it is Waiting,
    then blocks Hanging.
  - `WaitStep`: one pass of `sys_wait`'s loop.
    - A Hanging child found: the first in list order is reaped by
      `thread_exit`, which frees its page directory and PCB and releases
      its pid.
    - No child at all: the call returns -1.
    - Otherwise: the task blocks Waiting, and re-runs the loop when woken.
  - `ShPipe`: `sys_pipe` and `fd_redirect(1, fd[1])`. It takes a kernel
    page for the ring, sets `fd_pos = 2`, and gives the shell descriptors 3
    and 4.
  - `Fork` from `sh_p1` or `sh_p2` is `cmd_execute` inside the pipeline.
    `update_inode_open_cnts` adds the parent's pipe descriptors to
    `fd_pos`, and the child inherits the redirection.
  - `ShMid`: `fd_redirect(0, fd[0])` and `fd_redirect(1, 1)`, after the
    first command's wait returns.
  - `ShEnd`: `fd_redirect(0, 0)` and the two `close` calls. Each `close`
    decrements `fd_pos` and frees the ring page at zero.
  - `Exit` also runs step 3 of `release_prog_resource`. Descriptors 3 and
    up are dropped from `fd_pos`, and the one that reaches zero frees the
    ring. Descriptors 0 and 1 are not counted, as in the code.
  - `IdleBlock`, `Tick`: as in the other modules.
- Start state: the state `thread_init` and `main` leave. Init has pid 1 and
  runs, idle has pid 3, and `main`'s pid 2 is free again.
- Page sizes are scaled down. `BtmpLen = 4087` and `PgSize = 4096` keep
  the code's rounding: the bitmap takes one page (`BtmpPages`) and exit
  frees none of it (`ReleasedByExit`), just as the code takes 23 pages and
  frees 22. User frames and page tables are not counted.

### Runs

| Run | Config | Checks | Shows |
|---|---|---|---|
| `proc_core` | `MCProc.cfg` | `TypeOK`, `PidsUnique`, `ParentAlive`, `KernelPagesAccounted`, `PipeRefsCounted`, `ShellCompletes`, `PipeReleased`, `ProcTreeRefined` | Pids handed out again after a reap never collide. Every task's parent is alive and has not exited. Kernel pages, the ring page included, balance across fork, exit and reap, once the page each exit keeps (`lost`) is counted. `fd_pos` always equals the number of pipe descriptors held by tasks that have not exited, and is positive exactly while the ring is allocated. The shell's wait returns. The ring page is freed in the end, even when a command's child outlives the pipeline. Every step implements `ProcTree`. About 33,000 states, 3 minutes. |
| `proc_orphan_zombie` | `MCProcOrphan.cfg` | `WaitingNotStranded` (violation expected) | Trace: the shell runs command `a`, which forks `b`; `b` exits while `a` is not waiting; `a` exits. `b` is re-parented to init, which is already Waiting for the shell, and no exit ever wakes init. The zombie is never reaped, contrary to the comment in `init` and spec 4.K. |
| `proc_fork_leak` | `MCProcForkFail.cfg` | `KernelPagesAccounted` (violation expected) | With 8 kernel pages, the shell's fork fails in `copy_pcb_vaddrbitmap_stack0`. The child's PCB, the bounce page and a pid are never returned. |

### The abstract process tree and the refinement

`ProcTree` says what fork, exit and wait promise, without PCB pages,
lists, bitmaps or a ready queue. Its state:

- `st[n]` for each pid `n`: `none`, `run` or `zombie`.
- `parent[n]`: the parent's pid.
- `caller`: the pid on the CPU, or 0 for idle.

Its actions:

- `Spawn`: the caller gets a child under a pid nobody holds, and fork
  returns to it.
- `Die`: the caller becomes a zombie, its children (zombies included) go
  to init, and the CPU passes to a process that has not exited.
- `Reap`: the caller removes one of its own zombies, and the pid is free.
- `Switch`: the CPU passes to another process.

At the end of `Proc`, a pid maps to the task on `thread_all_list` that
holds it. The pid is a zombie once that task is `hanging`, and `none`
when no task holds it. `caller` is the pid of `running`. A fork that fails
and a step that panics are stutters. `proc_core` checks `Tree!Spec` as
`ProcTreeRefined`. This catches a wait that reaps a zombie that is not the
caller's child, which none of the invariants does. The abstract
specification has no fairness: the orphan run shows that a zombie is not
always reaped.

### Bounds

- Four slots: `init`, the shell and two commands. The orphan needs a
  command with a child of its own.
- `MaxForks = 3` forks outside the pipeline let a slot be reaped and
  reused, so pids are reused too. The pipeline's own two forks are not
  counted against it. A command of the pipeline may therefore fork a
  child that inherits the pipe and outlives it.
- `MaxPipes = 1`: one pipeline. A second pipeline would start from the
  same state as the first once the ring is freed.
- `MaxPid = 5` is enough for four slots and idle, so the pool never runs
  dry (it has 1024 pids in the code).
- `KPages = 18`: no fork fails in `proc_core`, the ring page and the
  pages exits keep included.
  `KPages = 8` makes the third fork fail in `proc_fork_leak`, which runs
  no pipeline (`MaxPipes = 0`), nor does `proc_orphan_zombie`.
- Each property is broken by a mutant:
  - `thread_exit` leaving the task on the list;
  - `allocate_pid` off by one;
  - no re-parenting;
  - `thread_exit` keeping the page directory;
  - `sys_exit` not waking a Waiting parent;
  - fork not counting inherited pipe descriptors in `fd_pos`;
  - the shell closing only `fd[0]` after the pipeline;
  - `find_hanging_child` ignoring `parent_pid`, so the shell reaps a
    command's zombie child while the command still runs.

### Fairness

- Strong fairness on what a scheduled task does next in kernel code: init's
  fork, the shell's and init's calls to `wait`, and a woken task re-running
  the wait loop.
- Commands are assumed to terminate: strong fairness on `Exit`.
- The shell is never forced to start a command, since it waits for the
  keyboard. Once it has read a pipeline it runs the pipeline's steps
  without further input, so those steps are under the same strong
  fairness.

### Not modelled here

- A check of the exit leak itself. `lost` grows by one page on every exit
  in `proc_core`, so a long-running shell runs the kernel pool dry. No run
  states that `lost` stays 0: that would be a violation run of its own.
- `sys_execv` and the ELF loader. A successful exec changes no lifecycle
  state, though it reads the disk through the ATA driver. A command is
  modelled as a successful exec. A failed exec is a bug of its own
  (hazard at shell.c:159). `cmd_execute`'s child ignores `execv`'s -1,
  returns into `my_shell`'s loop and runs as a second shell. Its parent
  waits for it forever. This happens, for example, when a directory is
  typed as a command: `stat` finds it, and `sys_open` refuses it.
- The copy of user pages and `build_child_stack`.
- Open regular files inherited across fork (`i_open_cnts`). Commands
  here open no files.
- `sys_pipe`'s failure paths. The shell ignores `pipe()`'s -1 and goes on
  with `fd = {-1, 0}` (hazard at shell.c:184). The kernel pool runs dry
  only in bounds where fork's own leak is reached first. A full fd table
  or file table (pipe.c:16, 29) cannot occur for the shell, which holds
  no other descriptors.
- Data through redirected descriptors 0 and 1. `IoQueue` models it.
- `thread_exit` reading the pid after the PCB page is freed
  (`thread.c:364`). It works through a stale TLB entry, because
  `page_table_pte_remove`'s `invlpg` names the wrong address. The TLB is not
  modelled.


## 6. The bitmap container: `Bitmap`, `MCBitmap`

### Correspondence with the code

`Bitmap` is a library of pure operators over a bitmap of `Len` bytes,
written as a function from bit index to `{0,1}` (bit `i` is bit `i % 8` of
byte `i \div 8`, as in `lib/kernel/bitmap.c`).

| Code | Definition |
|---|---|
| `bitmap_init` | `Empty`, and `Init` of `MCBitmap` |
| `bitmap_scan_test` | `ScanTest(b, oob, idx)`: an index past the end reads `oob` |
| `bitmap_set` | `SetBit`, and the action `Set` of `MCBitmap` |
| `bitmap_scan`, byte loop (lines 23-28) | `ByteLoop` (RECURSIVE) |
| `bitmap_scan`, bit loop (lines 35-38) | `BitLoop` (RECURSIVE) |
| `bitmap_scan`, run loop (lines 44-62) | `RunLoop` (RECURSIVE) |
| `bitmap_scan` | `Scan(b, oob, cnt, asserts)` |

The run loop starts at `bit_idx_start + 1` and runs `bit_left = len*8 -
bit_idx_start` times, so its last test reads bit `len*8`, one past the end.
What lies there is outside the bitmap, so the scan takes it as the
parameter `oob`, and the properties quantify over both values. The
`ASSERT` at line 29 panics on a full bitmap when assertions are compiled
in. `debug.h` is not in the repository, so `asserts` is a parameter too,
and a panic is the value `Panic`.

`FirstFit(b, cnt)` is the reference: the lowest start of `cnt` clear bits
lying inside the bitmap, or -1 if there is none.

`MCBitmap` is a state machine over one 16-bit bitmap. It starts at
`bitmap_init` and takes any `bitmap_set`, so it reaches all 65,536
bitmaps.

### Runs

- `bitmap_scan_first_fit` (pass, `ScanFindsFirstFit`): in every bitmap,
  for `cnt` from 1 to 3, both values of the bit past the end and both
  builds, `bitmap_scan` returns `FirstFit` whenever a run fits inside the
  bitmap.
- `bitmap_scan_overrun` (violation, `ScanWithinBitmap`): when no run fits
  inside, the last `cnt-1` bits are clear and the bit past the end is
  clear, `bitmap_scan` returns a run that ends one bit outside. The kernel
  virtual-address bitmap is followed by unrelated memory (`memory.c:297`),
  so a multi-page kernel allocation can be granted a page the bitmap does
  not own.

### Bounds

Two bytes exercise the byte loop (skipping a full first byte) and every
position of a run across a byte boundary. `cnt` up to 3 covers the run
loop's reset and a run straddling bytes.

## 7. The page allocator: `Mem`, `MCMem`

### Correspondence with the code

`Mem` composes `Sched` and `Sync` with the pools of `kernel/memory.c`.

State:

| Variable | What it models |
|---|---|
| `bits[p]` | each pool's bitmap, as the set of its set bits |
| `lock[p]` | each pool's `struct lock` |
| `kvbits` | the kernel virtual-address bitmap |
| `kmap` | the kernel PTEs of the heap |
| `pde[t]` | which of a process's user regions has a page table |
| `use[p][f]` | a history variable: the mappings and page tables that refer to frame `f` |
| `freeList` | `k_block_descs[i].free_list` of the in-memory inode size class (128 bytes), as a sequence of blocks `<<page, index>>` |
| `arena[v]` | `a->cnt` of the arena in kernel page `v`, or -1 when `v` is not an arena |
| `held[t]` | the blocks `sys_malloc` returned to `t` that it has not freed |
| `blk[t]` | the block `t`'s `sys_free` is freeing |

Each task runs a program `Prog[t]` of allocator calls:

- `large`: `sys_malloc(4777)` of `main`, two pages.
- `small`/`sfree`: a kernel thread's `sys_malloc` of an in-memory inode
  and the `sys_free` of a block it holds.
- `ismall`/`isfree`: the same calls from a user process in `inode_open`
  and `inode_close`, with `pgdir` set to NULL so that they use the kernel
  pool, its lock and `k_block_descs`.
- `stack`: `start_process`'s `get_a_page(PF_USER, USER_STACK3_VADDR)`.
- `umalloc`: a user `sys_malloc` of one page.
- `kpages`: `get_kernel_pages(1)` in `sys_fork`. The child named by
  `Child[t]` then joins the ready list (`Forked`, the `list_append` at the
  end of `sys_fork`). Until then its PCB slot is marked died.

A call is split into steps wherever the code can be preempted or can
block. Kernel threads and `start_process` run with interrupts on, because
`kernel_thread` enables them. System calls run with interrupts off.

| Code | Action |
|---|---|
| `lock_acquire` of the pool (sys_malloc, get_kernel_pages, get_a_page, sys_free with its NULL assert) | `LockStep` |
| `vaddr_get(PF_KERNEL, n)` | `VaddrGet` |
| `palloc`: `bitmap_scan` | `PallocScan` |
| `palloc`: `bitmap_set`, then `page_table_add` | `PallocSet` |
| `page_table_add`'s own `palloc(&kernel_pool)` for a missing page table | `PtScan`, `PtSet` |
| small `sys_malloc`: `list_pop` of a free block and `a->cnt--`, or an empty list | `ArenaPop` |
| small `sys_malloc` after `malloc_page`: the new arena split into blocks (`arena2block`), then `list_pop` and `a->cnt--` | `ArenaSplit` |
| small `sys_free`: `list_append`, `a->cnt++`, and the blocks' `list_remove` when the arena is all free | `FreeBlock` |
| the end of the call: `lock_release` | `Unlock` |
| `sys_free` releasing an arena: `mfree_page` (`pfree`, `page_table_pte_remove`, `vaddr_remove`) | `FreePage` |
| `main`'s final `thread_exit` | `MainExit` |

`PreAlloc` is the list of calls `main` has already completed when the
model starts, with their pages taken first fit from empty pools. A
`small` among them is an arena whose first block `main` holds.

### Runs

- `mem_core` (pass, `PoolBitmapsExact`, `ArenaBlocksAccounted`,
  `CallsComplete`). `main` holds the root directory's inode, one block of
  an arena. Its `sys_open(O_CREAT)` then allocates the new file's inode.
  Meanwhile `init` allocates its stack and a heap page, each needing a
  new page table, and a kernel page in fork. The forked shell `sh` then
  stats a file: `inode_open` and `inode_close` take and free a block in
  the same size class. Depending on who reaches the free list first, the
  shell either takes the last free block or creates and then releases a
  second arena. In every interleaving, a pool bit is set exactly when one
  mapping uses its frame. Every block is free or held by one task, never
  both. Each live arena's `a->cnt` equals its free blocks, and its free
  and held blocks add up to `blocks_per_arena`. Every call finishes,
  including a caller blocked on the kernel-pool lock.
  - Mutants: `FreePageNoPfree` breaks `PoolBitmapsExact`.
    `FreeBlockEarly` (release one block early) breaks
    `ArenaBlocksAccounted`. `UnlockNoRelease` breaks `CallsComplete`.
- `mem_pagetable_race` (violation, `PoolBitmapsExact`). From boot, `main`
  holds `kernel_pool.lock` in `sys_malloc(4777)` and is preempted between
  `bitmap_scan` and `bitmap_set`. `init` then takes its stack page table
  from the kernel pool under the user lock only. Both set the same bit,
  so one frame becomes both `main`'s buffer and `init`'s page table.
  `palloc`'s own comment (line 92) requires the scan and set to be
  atomic.

### Bounds

Seven kernel frames and two user frames are enough for every call of
both programs without exhausting a pool. (At most one arena is created
during the run, since the pre-existing arena's second block serves the
other allocation.) `BlocksPerArena = 2` stands for the 31 blocks of the
128-byte class. Two blocks are the fewest for which an arena is both
shared and released. Exhaustion would only reach the
`ASSERT` in `bitmap_scan`. One time-slice tick (`Prio = 1`) lets a timer
interrupt land between any two steps.

### Fairness

A scheduled task makes progress (SF, since it can be preempted), the
timer keeps firing (SF on `Tick`), and the idle thread blocks itself (WF).
The code guarantees all three: it has no other way to stop a task that
holds the CPU.

### Not modelled here

- The user virtual-address bitmaps, which only their owner touches.
- The other size classes, and the user processes' own block
  descriptors (`u_block_desc`). A forked child's copied arenas keep an
  `a->desc` that points into the parent's PCB (see the hazards).
- `CR3` and the user page tables. A user process that blocks on the
  kernel lock inside `inode_open` runs on the kernel page directory
  afterwards (`pgdir` was NULL when it was switched back in). `Mem`
  reaches that state, but nothing models what follows.
- `malloc_page`'s partial failure. With `ASSERT` compiled in, an
  exhausted pool panics in `bitmap_scan` before `malloc_page` can see
  NULL.
- `get_a_page_without_opvaddrbitmap`, which fork calls with interrupts
  off after taking the kernel-pool lock for the PCB.


## 8. The file system: `Fs`, `MCFs`

### Correspondence with the code

`Fs` models the root directory of the partition as the system calls
`open` (with and without `O_CREAT`), `close`, `unlink`, `mkdir`, `rmdir`,
`opendir` and `closedir` drive it on paths `/name`. State:

- `ibits`, `bbits`: the in-memory inode and block bitmaps. A block is its
  bitmap index plus one; block 1 is the root's first block.
- `dblk`: each directory block as a function from slot (`K` per sector) to
  a directory entry (name, inode, type). A free slot has type `unknown`.
- `itab`: the inode table on disk (size and direct blocks).
- `mem`: the open-inode list. `cnt` is `i_open_cnts`; size and blocks are the
  in-memory copy, which is what `sync_dir_entry` and `delete_dir_entry` edit.
- `ftab`, `fds`: the global file table and each task's fds.
- `dirs`: the directory handles each task holds from `sys_opendir`, as a
  bag of inode numbers, since one directory may be opened twice.
- `pc`, `loc`, `ip`, `cur`: where each task is in its call, that call's locals,
  its next call in the script, and the task on the CPU.

Each call is cut into steps at its disk transfers, and each step is an action
named after the code it runs:

- `Search`/`SDir`: `search_dir_entry` and the end of `search_file`.
- `AfterSearch`/`GoesOn`: the branch each call takes on the search result.
- `MkAlloc`/`MkDot`: `sys_mkdir` steps 1–3.
- `SdeAlloc`/`SdeSlot`/`SdeNew`/`SdeSize`/`SdeFail`: `sync_dir_entry`
  (a new block for a hole, or the first free slot of an existing block)
  and its callers' rollback.
- `search_dir_entry`, `sync_dir_entry` and `delete_dir_entry` copy
  `i_blocks` into `all_blocks` on entry and walk the copy. `loc.blks` is
  that copy, taken when the call starts. A block another task adds during
  the walk is not seen.
- `SyncParent`/`SyncNew`: `inode_sync` of parent and child.
- `FcAlloc`/`FcOpen`: `file_create`, modelled from the spec because
  `fs/file.c` is not in the tree.
- `DeleteEntry`/`DeShrink`/`DeSync`: `delete_dir_entry`.
- `RdOpen`: `sys_rmdir`'s `dir_open` and `dir_is_empty`.
- `RelOpen`/`RelBlocks`/`RelDelete`/`RelClose`: `inode_release`, then the
  closes of the callers.
- `FoOpen`: `sys_open` of an existing regular file (`file_open`, from the
  spec), with -1 when the file table is full; `FcOpen` has the same
  failure.
- `OdOpen`/`CloseDir`: `sys_opendir`'s `dir_open` of the directory found,
  and `sys_closedir`, which returns -1 for the NULL handle of a failed
  `opendir`.
- `Issue`/`CloseFd`: system-call entry and `sys_close`.

Scheduling follows the code:

- A system call runs with interrupts off, so the scheduler may switch away
  only where the task blocks in `ide_read`/`ide_write` (`Blocking`).
- `main` is a kernel thread with interrupts on (`init.c:25`), so it may be
  preempted anywhere (`Preempt`).
- `InodeSync` writes slot `i % 256`, as `inode_sync`'s `uint8_t inode_no`
  does.

### Runs

| Run | Config | Checks | Shows |
|---|---|---|---|
| `fs_core` | `MCFs.cfg` | `UniqueNames`, `DirSizeMatchesEntries`, `BitmapsCoverTree` | The shell alone makes six calls of its choice on four names, three before and three after an `ls` (`opendir`, then `closedir` of what it returned). Names stay unique. Once every call has returned, the root's size in memory and on disk counts its entries, the inode bitmap holds exactly the root and the inodes its entries name, and every block the tree uses is allocated. Inodes, blocks, directory slots and file-table slots all run out along the way. About 870,000 states, 35 seconds. |
| `fs_boot_create_race` | `MCFsBootRace.cfg` | `UniqueNames` (violation expected) | `main.c:33` runs `sys_open("/prog_no_arg", O_CREAT)` preemptibly while the shell runs `mkdir` of that name. Both searches miss, and both add an entry, so the root holds two entries with one name. Spec section 5 says directory operations are serialised. |

Mutants: a search that reads only the first block breaks `UniqueNames`; a
`delete_dir_entry` that frees the block but keeps `i_size` breaks
`DirSizeMatchesEntries`; a failed `sync_dir_entry` whose caller does not
give the inode bit back breaks `BitmapsCoverTree`.

### Bounds

- `NI = 4` inodes and `NB = 3` blocks, so `inode_bitmap_alloc` and
  `block_bitmap_alloc` both fail within six calls.
- `ND = 2` direct blocks of `K = 3` entries, so the root fills its first
  block, grows a second one, frees that block again in `delete_dir_entry`,
  and reports "directory is full".
- `MaxOpen = 3` file-table slots.
- Four names, so a name can be created, removed and reused.

### Fairness

Both runs check invariants only and use `Spec` without fairness. That every
disk transfer returns is checked in section 3 (`ChannelRefined`).

### Not modelled here

- Nested directories, paths deeper than one level, and the indirect block.
  This also leaves out `delete_dir_entry`'s indirect-count loop
  (`dir.c:283`), which never increments its index. It also leaves out
  `sys_open`'s missing `dir_close(parent_dir)` after opening an existing
  file (`fs.c:325`). At depth one the parent is `root_dir`, and
  `dir_close(root_dir)` does nothing (`dir.c:93`), so the leak only shows
  below a subdirectory. For the same reason no run checks the open-inode
  counts.
- Two tasks adding entries at once. Both walk their own copy of
  `i_blocks`, and each may allocate a block for the same hole
  (`dir.c:125`). The only two-task run stops at the duplicate name first.
- File data: `sys_read`, `sys_write`, `sys_lseek`.
- `sys_getcwd`, `sys_chdir`, `sys_stat`, `readdir` and `rewinddir`.
- A task that opens a file while another unlinks it. The window in
  `sys_unlink` between the file-table check and the delete needs two tasks
  doing file calls, and the only two-task run is the boot race.
- `rmdir` of a directory that is still open. `sys_rmdir` (`fs.c:683`)
  checks emptiness, not openness, and frees the inode number under the
  handle. A later create reuses the number and lists a second in-memory
  inode beside the stale one. `mem` holds one in-memory inode per number
  and cannot represent that, so `fs_core` gives the shell `opendir` only
  as its `ls` built-in uses it, closed right after.
- The `mkdir` block leak. When `sync_dir_entry` fails, `sys_mkdir`'s rollback
  (`fs.c:605`) frees the inode bit but not the directory's block. The model
  reaches that state. `BitmapsCoverTree` checks only that every used block
  is allocated, not the converse, so it does not report the leaked block.
