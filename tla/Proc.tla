-------------------------------- MODULE Proc --------------------------------
(***************************************************************************)
(* The process lifecycle of src/userprog (fork.c, wait_exit.c) with the    *)
(* pid pool and thread_exit of src/thread/thread.c and the init process of *)
(* src/kernel/main.c.                                                      *)
(*                                                                         *)
(* A PCB page is a slot; a slot is free, live (on thread_all_list) or      *)
(* leaked (allocated by a fork that failed and never returned).  Three     *)
(* programs run in the slots: init (fork the shell, then wait forever),    *)
(* the shell (fork a command, wait for it, again) and commands, which may  *)
(* fork, wait and exit in any order.  Every system call runs with          *)
(* interrupts disabled, so a call is one step until it blocks; a task      *)
(* blocked in sys_wait re-runs the loop when it is scheduled again.        *)
(* Kernel pages are counted: a PCB, a virtual-address bitmap (one unit     *)
(* standing for its pages), a page directory, and fork's bounce page.      *)
(*                                                                         *)
(* The shell may also run a pipeline of two commands (shell.c my_shell):   *)
(* sys_pipe takes a kernel page for the ring and a global file-table slot  *)
(* whose fd_pos counts the local descriptors (3 and up) that name it.      *)
(* fork adds the parent's pipe descriptors to fd_pos, exit and close take  *)
(* them off, and whoever brings fd_pos to zero frees the ring page.        *)
(* fd_redirect points descriptor 0 or 1 at the slot without counting it.   *)
(***************************************************************************)
EXTENDS Sync, FiniteSets, SequencesExt

CONSTANTS
    Slots,       \* PCB pages of user processes
    InitSlot,    \* the PCB of init
    KPages,      \* kernel pages available to processes
    MaxPid,      \* pids 1..MaxPid (1024 in the code)
    MaxForks,    \* forks the model lets programs make outside pipelines
    MaxPipes,    \* pipelines the model lets the shell run
    BtmpLen,     \* btmp_bytes_len of a user vaddr bitmap (see BtmpPages)
    PgSize       \* PG_SIZE

InitPid == 1     \* init takes the first pid (thread_init runs it first)
IdlePid == 3     \* after main (2), which frees its pid when it exits
\* The user virtual-address bitmap: btmp_bytes_len is
\* (0xc0000000 - USER_VADDR_START) / PG_SIZE / 8 = 94199 bytes.
\* create_user_vaddr_bitmap and copy_pcb_vaddrbitmap_stack0 allocate
\* DIV_ROUND_UP(btmp_bytes_len, PG_SIZE) pages; release_prog_resource
\* frees btmp_bytes_len / PG_SIZE, rounded down.  The instance keeps only
\* the partial last page (BtmpLen = 94199 - 22 * 4096): the 22 whole pages
\* are taken and given back alike, the model's page unit is that one page.
BtmpPages == (BtmpLen + PgSize - 1) \div PgSize
ReleasedByExit == BtmpLen \div PgSize

ProcPages == 2 + BtmpPages   \* PCB, vaddr bitmap, page directory

ASSUME
    /\ Tasks = Slots \cup {Idle} /\ Idle \notin Slots /\ InitSlot \in Slots
    /\ KPages \in Nat /\ KPages >= ProcPages
    /\ MaxPid >= Cardinality(Slots) + 1 /\ MaxForks \in Nat
    /\ MaxPipes \in Nat
    /\ PgSize \in Nat \ {0} /\ BtmpLen \in Nat \ {0}
    /\ BtmpPages = 1    \* fork takes the bitmap in one allocation step

VARIABLES
    pcb,         \* "free", "live" or "leaked"
    allList,     \* thread_all_list, in append order (idle not included)
    pid, ppid,   \* task_struct.pid, .parent_pid (0 in a free slot)
    pidUsed,     \* the set bits of pid_pool.pid_bitmap, as pids
    role,        \* the program a slot runs
    pc,          \* program point
    kfree,       \* free kernel pages
    lost,        \* history: pages sys_exit took but never gave back
    forks,       \* forks made so far
    panicked,    \* the kernel stopped in PANIC or on a fault
    pipeRefs,    \* pipeRefs[s]: descriptors 3.. of s naming the pipe's slot
    redir,       \* the descriptors among 0 and 1 that s redirected to it
    fdPos,       \* file_table[slot].fd_pos (a negative value: uint32 wrap)
    ring,        \* the ring's kernel page is allocated (fd_inode # NULL)
    pipes        \* pipelines the shell has started

procVars == <<pcb, allList, pid, ppid, pidUsed, role, pc, kfree, lost, forks>>
pipeVars == <<pipeRefs, redir, fdPos, ring, pipes>>
vars == <<schedVars, procVars, panicked, pipeVars>>

Roles == {"init", "shell", "prog"}
Live == ToSet(allList)

\* Where a program resumes in user mode after fork() or wait() returns.
\* The shell's pipeline forks and waits for each command in turn
\* (cmd_execute), then goes on with the next stage of my_shell.
AfterFork(at) == CASE at = "init_fork" -> "init_wait" [] at = "sh_fork" -> "sh_wait"
                   [] at = "sh_p1" -> "sh_pw1" [] at = "sh_p2" -> "sh_pw2"
                   [] at = "user" -> "user"
AfterWait(r, at) == CASE at \in {"sh_pw1", "in_pw1"} -> "sh_mid"
                      [] at \in {"sh_pw2", "in_pw2"} -> "sh_end"
                      [] r = "init" -> "init_wait" [] r = "shell" -> "sh_fork"
                      [] r = "prog" -> "user"
\* Where a task blocked in sys_wait sits (interrupts stay off there).
InWait(at) == CASE at \in {"sh_pw1", "in_pw1"} -> "in_pw1"
                [] at \in {"sh_pw2", "in_pw2"} -> "in_pw2"
                [] OTHER -> "in_wait"
StartPc(r) == IF r = "shell" THEN "sh_fork" ELSE "user"

PipeForkPcs == {"sh_p1", "sh_p2"}
ForkPcs == {"init_fork", "sh_fork", "user"} \cup PipeForkPcs
BlockedPcs == {"in_wait", "in_pw1", "in_pw2"}
WaitPcs == {"init_wait", "sh_wait", "sh_pw1", "sh_pw2", "user"} \cup BlockedPcs
UserPcs == {"init_fork", "init_wait", "sh_fork", "sh_wait", "user",
            "sh_p1", "sh_pw1", "sh_mid", "sh_p2", "sh_pw2", "sh_end"}

Interruptible == running = Idle \/ pc[running] \in UserPcs

\* pid2thread: the task on thread_all_list with that pid, or NULL.
Pid2Thread(x) ==
    IF \E s \in Live : pid[s] = x THEN CHOOSE s \in Live : pid[s] = x ELSE NULL

\* Mutation of AllocatePid: the bit index is turned into a pid twice.
AllocatePidOffByOne == Min((1 .. MaxPid) \ pidUsed) + 1

\* allocate_pid: bitmap_scan for the first clear bit, plus pid_start (1).
AllocatePid == Min((1 .. MaxPid) \ pidUsed)

-----------------------------------------------------------------------------
(***************************************************************************)
(* State after thread_init and main's thread_exit: init (pid 1) has its    *)
(* PCB, bitmap and page directory and runs; idle (pid 3) is ready; main's  *)
(* pid 2 is free again.                                                    *)
(***************************************************************************)
Init ==
    /\ running = InitSlot /\ ready = <<Idle>>
    /\ status = [t \in Tasks |-> CASE t = InitSlot -> "Running"
                                   [] t = Idle -> "Ready"
                                   [] OTHER -> "Died"]
    /\ ticks = [t \in Tasks |-> Prio]
    /\ pcb = [s \in Slots |-> IF s = InitSlot THEN "live" ELSE "free"]
    /\ allList = <<InitSlot>>
    /\ pid = [s \in Slots |-> IF s = InitSlot THEN InitPid ELSE 0]
    /\ ppid = [s \in Slots |-> IF s = InitSlot THEN -1 ELSE 0]
    /\ pidUsed = {InitPid, IdlePid}
    /\ role = [s \in Slots |-> IF s = InitSlot THEN "init" ELSE "prog"]
    /\ pc = [t \in Tasks |-> CASE t = InitSlot -> "init_fork"
                               [] t = Idle -> "idle_block"
                               [] OTHER -> "free"]
    /\ kfree = KPages - ProcPages /\ lost = 0
    /\ forks = 0
    /\ panicked = FALSE
    /\ pipeRefs = [s \in Slots |-> 0]
    /\ redir = [s \in Slots |-> {}]
    /\ fdPos = 0 /\ ring = FALSE /\ pipes = 0

\* Mutation of InheritPipes: the pipe's fd_pos is not raised for the child.
InheritPipesNoCount(p, c) ==
    /\ pipeRefs' = [pipeRefs EXCEPT ![c] = pipeRefs[p]]
    /\ redir' = [redir EXCEPT ![c] = redir[p]]
    /\ UNCHANGED <<fdPos, ring, pipes>>

\* The child's fd_table is a copy of the parent's; update_inode_open_cnts
\* adds one to fd_pos for each of its pipe descriptors 3 and up.
InheritPipes(p, c) ==
    /\ pipeRefs' = [pipeRefs EXCEPT ![c] = pipeRefs[p]]
    /\ redir' = [redir EXCEPT ![c] = redir[p]]
    /\ fdPos' = fdPos + pipeRefs[p]
    /\ UNCHANGED <<ring, pipes>>

\* k pipe descriptors are closed one by one (--fd_pos); the one that brings
\* fd_pos to zero frees the ring page and sets fd_inode to NULL.
PipeFreed(k) == k > 0 /\ fdPos \in 1 .. k
RingPages(k) == IF PipeFreed(k) THEN 1 ELSE 0
DropPipeRefs(k) ==
    /\ fdPos' = fdPos - k
    /\ ring' = (ring /\ ~PipeFreed(k))

(***************************************************************************)
(* sys_fork with copy_process: the child's PCB page, the bounce page,      *)
(* copy_pcb_vaddrbitmap_stack0 (a fresh pid, then the bitmap copy) and     *)
(* create_page_dir allocate in this order; n of the four succeed.  A       *)
(* failure returns -1 at once: what was allocated before stays allocated.  *)
(* On success the bounce page is freed, the child (a copy of the parent    *)
(* returning 0) is appended to the ready and all-task lists, and its       *)
(* parent_pid is the parent's pid.  The child of init runs the shell, the  *)
(* child of the shell execs a command, a command's child runs on as that   *)
(* command.  update_inode_open_cnts then counts the child's copies of the  *)
(* parent's pipe descriptors.                                              *)
(***************************************************************************)
Fork(p) ==
    /\ pc[p] \in ForkPcs
    /\ pc[p] \in PipeForkPcs \/ forks < MaxForks
    /\ \E c \in Slots : pcb[c] = "free"
    /\ LET c  == CHOOSE s \in Slots : pcb[s] = "free"
           n  == IF kfree >= 4 THEN 4 ELSE kfree
           np == AllocatePid
           r  == IF role[p] = "init" THEN "shell" ELSE "prog"
       IN  /\ forks' = IF pc[p] \in PipeForkPcs THEN forks ELSE forks + 1
           /\ pc' = [pc EXCEPT ![p] = AfterFork(pc[p]),
                               ![c] = IF n = 4 THEN StartPc(r) ELSE @]
           /\ pidUsed' = IF n >= 2 THEN pidUsed \cup {np} ELSE pidUsed
           /\ IF n = 4
              THEN /\ kfree' = kfree - 3 /\ UNCHANGED lost
                   /\ pcb' = [pcb EXCEPT ![c] = "live"]
                   /\ allList' = Append(allList, c)
                   /\ pid' = [pid EXCEPT ![c] = np]
                   /\ ppid' = [ppid EXCEPT ![c] = pid[p]]
                   /\ role' = [role EXCEPT ![c] = r]
                   /\ status' = [status EXCEPT ![c] = "Ready"]
                   /\ ready' = Append(ready, c)
                   /\ ticks' = [ticks EXCEPT ![c] = Prio]
                   /\ InheritPipes(p, c)
                   /\ UNCHANGED running
              ELSE /\ kfree' = kfree - n /\ UNCHANGED lost
                   /\ pcb' = IF n >= 1 THEN [pcb EXCEPT ![c] = "leaked"] ELSE pcb
                   /\ UNCHANGED <<schedVars, allList, pid, ppid, role, pipeVars>>
    /\ UNCHANGED panicked

\* Mutation of InitAdopt: the children of the exiting task keep its pid.
InitAdoptNone(x) == ppid

\* list_traversal(&thread_all_list, init_adopt_a_child, x): every task on
\* the list whose parent_pid is x gets parent_pid 1.
InitAdopt(x) ==
    [s \in Slots |-> IF s \in Live /\ ppid[s] = x THEN InitPid ELSE ppid[s]]

\* Mutation of WakeParent: the waiting parent is left blocked.
WakeParentNever(S, par) == S

\* if (parent_thread->status == TASK_WAITING) thread_unblock(parent_thread)
WakeParent(S, par) == IF S.status[par] = "Waiting" THEN Unblock(S, par) ELSE S

(***************************************************************************)
(* sys_exit of a command: PANIC on a parent_pid of -1; re-parent the       *)
(* children to init; release_prog_resource gives back the bitmap's whole   *)
(* pages but not its partial last one (the count is rounded down), and     *)
(* drops each pipe descriptor 3 and up from fd_pos (descriptors 0 and 1    *)
(* are not counted); pid2thread(parent_pid), whose status is read (a NULL  *)
(* parent faults); wake it if it is Waiting; block Hanging.                *)
(***************************************************************************)
Exit(p) ==
    /\ pc[p] = "user" /\ role[p] = "prog"
    /\ LET par == Pid2Thread(ppid[p])
       IN  IF ppid[p] = -1 \/ par = NULL
           THEN /\ panicked' = TRUE
                /\ UNCHANGED <<schedVars, procVars, pipeVars>>
           ELSE /\ ppid' = InitAdopt(pid[p])
                /\ kfree' = kfree + ReleasedByExit + RingPages(pipeRefs[p])
                /\ lost' = lost + (BtmpPages - ReleasedByExit)
                /\ DropPipeRefs(pipeRefs[p])
                /\ SetSched(Block(WakeParent(Now, par), "Hanging"))
                /\ pc' = [pc EXCEPT ![p] = "hanging"]
                /\ UNCHANGED <<pcb, allList, pid, pidUsed, role, forks, panicked,
                               pipeRefs, redir, pipes>>

\* Mutation of ThreadExit: the task is left on thread_all_list.
ThreadExitKeepListed(c) ==
    /\ pcb' = [pcb EXCEPT ![c] = "free"]
    /\ allList' = allList
    /\ pid' = [pid EXCEPT ![c] = 0] /\ ppid' = [ppid EXCEPT ![c] = 0]
    /\ pidUsed' = pidUsed \ {pid[c]}
    /\ kfree' = kfree + 2 /\ UNCHANGED lost

\* Mutation of ThreadExit: the page directory is not freed.
ThreadExitKeepPgdir(c) ==
    /\ pcb' = [pcb EXCEPT ![c] = "free"]
    /\ allList' = Remove(allList, c)
    /\ pid' = [pid EXCEPT ![c] = 0] /\ ppid' = [ppid EXCEPT ![c] = 0]
    /\ pidUsed' = pidUsed \ {pid[c]}
    /\ kfree' = kfree + 1 /\ UNCHANGED lost

(***************************************************************************)
(* thread_exit(child, false) from sys_wait: the task is taken off the      *)
(* ready list (if there) and off thread_all_list, its page directory and   *)
(* PCB page are freed and its pid is released.  Its status becomes Died    *)
(* (set by the caller's scheduler update).                                 *)
(***************************************************************************)
ThreadExit(c) ==
    /\ pcb' = [pcb EXCEPT ![c] = "free"]
    /\ allList' = Remove(allList, c)
    /\ pid' = [pid EXCEPT ![c] = 0] /\ ppid' = [ppid EXCEPT ![c] = 0]
    /\ pidUsed' = pidUsed \ {pid[c]}
    /\ kfree' = kfree + 2 /\ UNCHANGED lost

\* Mutation of HangingChildren: find_hanging_child ignores parent_pid.
HangingChildrenAnyParent(p) == {c \in Live : status[c] = "Hanging"}

\* find_hanging_child: a task on the list with this parent_pid, Hanging.
HangingChildren(p) ==
    {c \in Live : ppid[c] = pid[p] /\ status[c] = "Hanging"}
Children(p) == {c \in Live : ppid[c] = pid[p]}

\* The first element of thread_all_list in a set (list_traversal).
FirstOf(S) == allList[SelectInSeq(allList, LAMBDA x : x \in S)]

(***************************************************************************)
(* One pass of sys_wait's loop: reap the first Hanging child (thread_exit) *)
(* and return; with no child at all return -1 (the shell then panics, init *)
(* calls wait again); otherwise block Waiting and run the loop again once  *)
(* woken.                                                                  *)
(***************************************************************************)
WaitStep(p) ==
    /\ pc[p] \in WaitPcs
    /\ IF HangingChildren(p) # {}
       THEN LET c == FirstOf(HangingChildren(p))
            IN  /\ ThreadExit(c)
                /\ status' = [status EXCEPT ![c] = "Died"]
                /\ ready' = Remove(ready, c)
                /\ pc' = [pc EXCEPT ![p] = AfterWait(role[p], pc[p]), ![c] = "free"]
                /\ UNCHANGED <<running, ticks, role, forks, panicked, pipeVars>>
       ELSE IF Children(p) = {}
       THEN /\ panicked' = (role[p] = "shell")
            /\ pc' = [pc EXCEPT ![p] = AfterWait(role[p], pc[p])]
            /\ UNCHANGED <<schedVars, pcb, allList, pid, ppid, pidUsed, role,
                           kfree, lost, forks, pipeVars>>
       ELSE /\ SetSched(Block(Now, "Waiting"))
            /\ pc' = [pc EXCEPT ![p] = InWait(pc[p])]
            /\ UNCHANGED <<pcb, allList, pid, ppid, pidUsed, role, kfree, lost, forks,
                           panicked, pipeVars>>

\* The idle thread blocks itself; any interrupt brings it back to the loop.
IdleBlock ==
    /\ running = Idle /\ pc[Idle] = "idle_block"
    /\ SetSched(Block(Now, "Blocked"))
    /\ pc' = [pc EXCEPT ![Idle] = "idle_hlt"]
    /\ UNCHANGED <<pcb, allList, pid, ppid, pidUsed, role, kfree, lost, forks,
                   panicked, pipeVars>>

\* The timer interrupt, taken in user mode or in the idle thread.
Tick ==
    /\ Interruptible
    /\ SetSched(TimerTick(Now))
    /\ pc' = IF running = Idle THEN [pc EXCEPT ![Idle] = "idle_block"] ELSE pc
    /\ UNCHANGED <<pcb, allList, pid, ppid, pidUsed, role, kfree, lost, forks,
                   panicked, pipeVars>>

(***************************************************************************)
(* The shell's pipeline "cmd1 | cmd2" (my_shell, steps 1 to 6).  Each      *)
(* action is the run of system calls between two forks or waits; nothing   *)
(* another task does reads the shell's descriptors in between.             *)
(***************************************************************************)

\* Step 1: pipe(fd) (sys_pipe: a kernel page for the ring, fd_pos = 2 and
\* two descriptors), then fd_redirect(1, fd[1]).
ShPipe(p) ==
    /\ pc[p] = "sh_fork" /\ pipes < MaxPipes /\ kfree >= 1
    /\ kfree' = kfree - 1 /\ UNCHANGED lost
    /\ ring' = TRUE /\ fdPos' = 2 /\ pipes' = pipes + 1
    /\ pipeRefs' = [pipeRefs EXCEPT ![p] = 2]
    /\ redir' = [redir EXCEPT ![p] = {1}]
    /\ pc' = [pc EXCEPT ![p] = "sh_p1"]
    /\ UNCHANGED <<schedVars, pcb, allList, pid, ppid, pidUsed, role, forks,
                   panicked>>

\* After the first command: fd_redirect(0, fd[0]), and with no middle
\* command, step 4's fd_redirect(1, 1).
ShMid(p) ==
    /\ pc[p] = "sh_mid"
    /\ redir' = [redir EXCEPT ![p] = {0}]
    /\ pc' = [pc EXCEPT ![p] = "sh_p2"]
    /\ UNCHANGED <<schedVars, pcb, allList, pid, ppid, pidUsed, role, kfree, lost,
                   forks, panicked, pipeRefs, fdPos, ring, pipes>>

\* Mutation of ShEnd: only close(fd[0]) is made.
ShEndCloseOne(p) ==
    /\ pc[p] = "sh_end"
    /\ redir' = [redir EXCEPT ![p] = {}]
    /\ pipeRefs' = [pipeRefs EXCEPT ![p] = @ - 1]
    /\ kfree' = kfree + RingPages(1) /\ UNCHANGED lost
    /\ DropPipeRefs(1)
    /\ pc' = [pc EXCEPT ![p] = "sh_fork"]
    /\ UNCHANGED <<schedVars, pcb, allList, pid, ppid, pidUsed, role, forks,
                   panicked, pipes>>

\* After the last command: fd_redirect(0, 0), then close(fd[0]) and
\* close(fd[1]) (sys_close of a pipe: --fd_pos, free the ring at zero,
\* fd_table[fd] = -1).
ShEnd(p) ==
    /\ pc[p] = "sh_end"
    /\ redir' = [redir EXCEPT ![p] = {}]
    /\ pipeRefs' = [pipeRefs EXCEPT ![p] = 0]
    /\ kfree' = kfree + RingPages(pipeRefs[p]) /\ UNCHANGED lost
    /\ DropPipeRefs(pipeRefs[p])
    /\ pc' = [pc EXCEPT ![p] = "sh_fork"]
    /\ UNCHANGED <<schedVars, pcb, allList, pid, ppid, pidUsed, role, forks,
                   panicked, pipes>>

ProcStep(p) ==
    Fork(p) \/ Exit(p) \/ WaitStep(p) \/ ShPipe(p) \/ ShMid(p) \/ ShEnd(p)

Next ==
    /\ ~panicked
    /\ \/ \E p \in Slots : running = p /\ ProcStep(p)
       \/ IdleBlock
       \/ Tick

(***************************************************************************)
(* A task in the kernel runs on when scheduled: init forks and calls wait  *)
(* as its code says, the shell calls wait after its fork, a woken task     *)
(* re-runs the wait loop.  Commands are assumed to terminate: a command    *)
(* that keeps being scheduled eventually calls exit.  The shell is not     *)
(* forced to start a command (it waits for the keyboard), but once it has  *)
(* read a pipeline it runs the pipeline's steps.                           *)
(***************************************************************************)
Fairness ==
    /\ \A p \in Slots :
          /\ SF_vars(running = p /\ pc[p] \notin {"user", "sh_fork"} /\ ProcStep(p))
          /\ SF_vars(running = p /\ Exit(p))
    /\ WF_vars(IdleBlock)
    /\ SF_vars(Tick)

Spec == Init /\ [][Next]_vars /\ Fairness

-----------------------------------------------------------------------------
\* Types; thread_all_list holds a task at most once (sys_fork asserts it).
TypeOK ==
    /\ SchedTypeOK
    /\ pcb \in [Slots -> {"free", "live", "leaked"}]
    /\ allList \in Seq(Slots) /\ IsInjective(allList)
    /\ pid \in [Slots -> 0 .. MaxPid] /\ ppid \in [Slots -> -1 .. MaxPid]
    /\ pidUsed \subseteq 1 .. MaxPid
    /\ role \in [Slots -> Roles]
    /\ pc \in [Tasks -> UserPcs \cup BlockedPcs \cup {"hanging", "free",
                                      "idle_block", "idle_hlt"}]
    /\ kfree \in 0 .. KPages - ProcPages /\ lost \in Nat /\ forks \in 0 .. MaxForks
    /\ panicked \in BOOLEAN
    /\ pipeRefs \in [Slots -> 0 .. 2] /\ redir \in [Slots -> SUBSET {0, 1}]
    /\ fdPos \in Int /\ ring \in BOOLEAN /\ pipes \in 0 .. MaxPipes

(***************************************************************************)
(* Pids are unique: the tasks on thread_all_list, idle included, carry     *)
(* distinct pids, each marked in the pid bitmap.  Pids are released by     *)
(* sys_wait's thread_exit and handed out again by fork, so a wrong release *)
(* or allocation shows up only after a reap and a later fork.              *)
(***************************************************************************)
PidsUnique ==
    /\ \A s \in Live : pid[s] \in pidUsed \ {IdlePid}
    /\ \A s, t \in Live : s # t => pid[s] # pid[t]

(***************************************************************************)
(* Every task but init has a parent that is alive: its parent_pid names a  *)
(* task on thread_all_list that has not exited.  sys_exit re-parents the   *)
(* children of an exiting task to init; without that, pid2thread in a      *)
(* later sys_exit would find nobody (or a new task that reused the pid),   *)
(* and the child would never be reaped.                                    *)
(***************************************************************************)
ParentAlive ==
    \A s \in Live \ {InitSlot} :
        LET q == Pid2Thread(ppid[s]) IN q # NULL /\ pc[q] # "hanging"

\* Kernel pages held by a task: an exited task keeps its PCB and directory.
Held(s) == IF pc[s] = "hanging" THEN ProcPages - BtmpPages ELSE ProcPages

(***************************************************************************)
(* Every kernel page is free, held by a task on thread_all_list, the ring  *)
(* of a pipe, or one of the bitmap pages sys_exit's rounded-down count     *)
(* leaves behind (lost, one per exit): fork's allocations and failures,    *)
(* sys_pipe, sys_close, the fd_pos count in exit and the PCB and page      *)
(* directory freed by thread_exit in wait balance, so no other page is    *)
(* lost or freed twice across fork, exit, pipe close and reap.             *)
(***************************************************************************)
KernelPagesAccounted ==
    kfree + MapThenSumSet(Held, Live) + (IF ring THEN 1 ELSE 0) + lost = KPages

(***************************************************************************)
(* No missed wake-up in wait: a task blocked Waiting in sys_wait has no    *)
(* Hanging child.  A child's sys_exit wakes its Waiting parent; init is    *)
(* meant to reap orphaned zombies (main.c: init loops on wait "reaping     *)
(* zombie processes").                                                     *)
(***************************************************************************)
WaitingNotStranded ==
    \A p \in Live : status[p] = "Waiting" => HangingChildren(p) = {}

\* The shell's wait for its command returns: the shell prompts again.
ShellCompletes == \A s \in Slots : pc[s] = "sh_wait" ~> pc[s] = "sh_fork"

\* Tasks whose descriptors still count: live and not yet exited.
Holders == {s \in Live : pc[s] # "hanging"}

(***************************************************************************)
(* The pipe's fd_pos is the number of its descriptors 3 and up held by     *)
(* tasks that have not exited, and the ring page is allocated exactly      *)
(* while that number is positive; no such task has descriptor 0 or 1       *)
(* redirected to a freed ring.  fork (update_inode_open_cnts), exit        *)
(* (release_prog_resource) and the shell's close each change the count,    *)
(* in several tasks, and a grandchild can outlive the whole pipeline.      *)
(***************************************************************************)
PipeRefsCounted ==
    /\ fdPos = MapThenSumSet(LAMBDA s : pipeRefs[s], Holders)
    /\ ring <=> fdPos > 0
    /\ \A s \in Holders : redir[s] # {} => ring

\* The ring page of every pipeline is freed in the end: once the shell has
\* closed its ends and every command holding a copy has exited, the last
\* close or exit brings fd_pos to zero.
PipeReleased == ring ~> ~ring

-----------------------------------------------------------------------------
(***************************************************************************)
(* Refinement: a pid names the task on thread_all_list that holds it; it   *)
(* is a zombie once the task has exited and "none" when no task holds it.  *)
(* A fork that fails keeps its pid in the bitmap but creates no process,   *)
(* and a step that panics changes no process, so both are stutters.        *)
(***************************************************************************)
TreePids == 1 .. MaxPid
Holds(n) == \E s \in Live : pid[s] = n
StBar == [n \in TreePids |->
            IF ~Holds(n) THEN "none"
            ELSE IF pc[Pid2Thread(n)] = "hanging" THEN "zombie" ELSE "run"]
ParentBar == [n \in TreePids |-> IF Holds(n) THEN ppid[Pid2Thread(n)] ELSE 0]
CallerBar == IF running = Idle THEN 0 ELSE pid[running]

Tree == INSTANCE ProcTree WITH Pids <- TreePids, st <- StBar, parent <- ParentBar,
                               caller <- CallerBar

(***************************************************************************)
(* Proc implements the process tree of ProcTree: every step of fork, exit, *)
(* wait and the pipeline is a spawn under a pid no process holds, an exit  *)
(* that hands all the children (zombies too) to init, the reap of one of   *)
(* the caller's own zombies, or changes no process.  A pid that wait       *)
(* releases, a child that exit re-parents or a zombie that wait picks      *)
(* wrongly shows up as a step ProcTree does not allow.                     *)
(***************************************************************************)
ProcTreeRefined == Tree!Spec

=============================================================================
