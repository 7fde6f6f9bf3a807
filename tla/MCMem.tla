-------------------------------- MODULE MCMem --------------------------------
(* Model-checking instance of Mem: the main kernel thread, one user        *)
(* process and the idle thread, in boot order (thread_init puts init on    *)
(* the ready list before main and idle).  init's fork readies the shell   *)
(* process sh, which is not on the boot ready list.                        *)
EXTENDS Mem

CONSTANTS main, proc, sh, idle0

MCWorkers == {main, proc, sh}
MCTasks == {main, proc, sh, idle0}
MCBoot == <<main, proc, idle0>>
MCChild == [t \in MCWorkers |-> IF t = proc THEN <<sh>> ELSE <<>>]

\* The shell's sys_stat of a file no task has open (fs.c:832-834):
\* inode_open's in-memory inode and inode_close's sys_free of it, both
\* with the shell's pgdir set to NULL.
ShProg == <<"ismall", "isfree">>

\* init at boot: start_process allocates the user stack (no page table
\* yet), then init's first system calls allocate a heap page in a region
\* without a page table and fork's PCB page.
InitProg == <<"stack", "umalloc", "kpages">>

\* From boot: main's sys_malloc(4777), then a file-system buffer taken and
\* given back (sys_open).
MCBootPre == <<>>
MCBootProg == [t \in MCWorkers |-> CASE t = main -> <<"large", "small", "sfree">>
                                       [] t = proc -> InitProg
                                       [] t = sh -> ShProg]

\* main has opened the root directory's inode (filesys_init, in an arena
\* of its own) and taken prog_buf when init starts; its sys_open of
\* /prog_no_arg with O_CREAT then allocates the new file's inode, and it
\* keeps the file open.
MCFreePre == <<"small", "large">>
MCFreeProg == [t \in MCWorkers |-> CASE t = main -> <<"small">>
                                       [] t = proc -> InitProg
                                       [] t = sh -> ShProg]
=============================================================================
