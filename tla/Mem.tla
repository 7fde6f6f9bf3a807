-------------------------------- MODULE Mem ---------------------------------
(***************************************************************************)
(* The page allocator of src/kernel/memory.c: the kernel and user physical *)
(* pools (a bitmap and a lock each), the kernel virtual-address bitmap and *)
(* the page tables, used by kernel threads that run with interrupts on and *)
(* by user processes.                                                      *)
(*                                                                         *)
(* Each task runs a fixed program (Prog) of allocator calls; a call is a   *)
(* sequence of steps at the points where the code can be preempted or can  *)
(* block.  palloc is two steps, bitmap_scan (memory.c:93) and bitmap_set   *)
(* (memory.c:99), because a kernel thread can be preempted between them.   *)
(* The calls:                                                              *)
(*   "large"  sys_malloc(size > 1024) of a kernel thread: kernel lock,     *)
(*            malloc_page(PF_KERNEL, 2) (main's sys_malloc(4777));         *)
(*   "small"  sys_malloc(size <= 1024) of a kernel thread: kernel lock,    *)
(*            a block popped from k_block_descs' free list, or a new arena *)
(*            page from malloc_page(PF_KERNEL, 1) split into blocks;       *)
(*   "sfree"  sys_free of a block the thread holds: back on the free list, *)
(*            and the arena page goes back with mfree_page(PF_KERNEL, a,   *)
(*            1) once all its blocks are free;                             *)
(*   "ismall" and "isfree": the same calls made by a user process inside   *)
(*            a system call with its pgdir set to NULL, as inode_open and  *)
(*            inode_close do (inode.c:95, 129), so that they use the       *)
(*            kernel pool, its lock and k_block_descs;                     *)
(*   "stack"  start_process's get_a_page(PF_USER, USER_STACK3_VADDR),      *)
(*            which runs with interrupts on (kernel_thread enables them);  *)
(*   "umalloc" sys_malloc(size > 1024) of a user process: user lock,       *)
(*            malloc_page(PF_USER, 1), in a system call;                   *)
(*   "kpages" get_kernel_pages(1) in a system call (sys_fork's PCB page);  *)
(*            the child then joins the ready list.                         *)
(* A user page whose page-directory entry is absent gets a page table from *)
(* palloc(&kernel_pool) inside page_table_add, under the USER lock only.   *)
(*                                                                         *)
(* Ownership of frames is a history variable `use': the tasks' mappings    *)
(* and page tables that refer to each frame.  The user virtual bitmaps are *)
(* private to their process and are not modelled.  One size class of       *)
(* k_block_descs is modelled (the in-memory inodes); a block is a pair of  *)
(* its arena's kernel page and its index in the arena.                     *)
(***************************************************************************)
EXTENDS Sync, FiniteSets, SequencesExt

CONSTANTS
    Workers,    \* the tasks that call the allocator
    MainThread, \* the kernel thread that calls thread_exit at the end (main)
    Boot,       \* boot order: running task first, then the ready list
    Prog,       \* Prog[t]: the sequence of calls task t makes
    PreAlloc,   \* the kernel calls MainThread completed before Prog[MainThread]
    NK, NU,     \* frames in the kernel and the user pool
    PdeInit,    \* user regions whose page-directory entry exists at start
    Asserts,    \* ASSERT compiled in (bitmap_scan panics on a full pool)
    BlocksPerArena, \* blocks_per_arena of the size class (scaled down)
    Child       \* Child[t]: the tasks t's sys_fork puts on the ready list

Calls == {"large", "small", "sfree", "ismall", "isfree", "stack", "umalloc",
          "kpages"}
ArenaCalls == {"small", "ismall"}
FreeCalls == {"sfree", "isfree"}
Pools == {"kernel", "user"}
Regions == {"stack", "heap"}

ASSUME /\ Tasks = Workers \cup {Idle} /\ MainThread \in Workers
       /\ Prog \in [Workers -> Seq(Calls)]
       /\ PreAlloc \in Seq({"large", "small"})
       /\ PdeInit \subseteq Regions /\ Asserts \in BOOLEAN
       /\ Cardinality({i \in DOMAIN PreAlloc : PreAlloc[i] = "small"}) <= 1
       /\ BlocksPerArena \in Nat \ {0} /\ Child \in [Workers -> Seq(Workers)]

Frames(p) == 0 .. (IF p = "kernel" THEN NK ELSE NU) - 1
KVaddrs == 0 .. NK - 1       \* kernel_vaddr bitmap: as long as the kernel pool's

\* The pool a call allocates from and the pages it takes (page_cnt).
PoolOf(c) == IF c \in {"stack", "umalloc"} THEN "user" ELSE "kernel"
Pages(c) == IF c = "large" THEN 2 ELSE 1
\* The user region whose page table a user call needs.
Region(c) == IF c = "stack" THEN "stack" ELSE "heap"
\* Calls that run with interrupts on: kernel-thread code and start_process.
IntrOn(c) == c \in {"large", "small", "sfree", "stack"}

VARIABLES
    lock,       \* lock[p]: the pool's struct lock
    bits,       \* bits[p]: the set bits of the pool's bitmap
    use,        \* use[p][f]: the <<task, call>> mappings that refer to frame f
    kvbits,     \* set bits of kernel_vaddr.vaddr_bitmap
    kmap,       \* kmap[v]: the frame kernel page v maps, or -1 (PTE not present)
    pde,        \* pde[t]: user regions of t whose PDE is present
    ip,         \* ip[t]: index in Prog[t] of the current call
    ph,         \* ph[t]: the step of the call
    bit,        \* bit[t]: the index palloc's bitmap_scan returned
    left,       \* left[t]: pages still to allocate or free (cnt)
    vstart,     \* vstart[t]: first kernel page of the block, -1 for NULL
    idle,       \* the idle thread's step
    panicked,
    freeList,   \* k_block_descs[desc_idx].free_list, as a sequence of blocks
    arena,      \* arena[v]: a->cnt of the arena in kernel page v; -1: none
    held,       \* held[t]: the blocks sys_malloc returned to t, not freed
    blk         \* blk[t]: the block t's sys_free is freeing

arenaVars == <<freeList, arena, held, blk>>
memVars == <<lock, bits, use, kvbits, kmap, pde, ip, ph, bit, left, vstart,
             idle, arenaVars>>
vars == <<schedVars, memVars, panicked>>

Done(t) == ip[t] > Len(Prog[t])
\* The call task t is making ("exit" once its program is over).
Cur(t) == IF Done(t) THEN "exit" ELSE Prog[t][ip[t]]

\* A task that can take a timer interrupt: a kernel thread, a user process
\* in user mode (before its next system call, or done), start_process, and
\* the idle thread.
Interruptible ==
    IF running = Idle THEN TRUE
    ELSE Done(running) \/ ph[running] = "lock" \/ IntrOn(Cur(running))

(***************************************************************************)
(* Empty pools (mem_pool_init), then the blocks of PreAlloc, which         *)
(* MainThread took from the empty pools first fit: call i owns kernel      *)
(* pages and frames Base(i) .. Base(i) + Pages - 1; a "small" one is an    *)
(* arena whose first block main holds.  Tasks outside Boot do not exist    *)
(* yet: their PCB slot is marked died until a sys_fork readies them.       *)
(***************************************************************************)
Base(i) == IF i = 1 THEN 0 ELSE MapThenSumSet(LAMBDA j : Pages(PreAlloc[j]), 1 .. i - 1)
PreCall(f) == CHOOSE i \in 1 .. Len(PreAlloc) : f \in Base(i) .. Base(i) + Pages(PreAlloc[i]) - 1
PreUsed == 0 .. Base(Len(PreAlloc) + 1) - 1

NewBlocks(a) == [i \in 1 .. BlocksPerArena |-> <<a, i>>]
PreArena == {Base(i) : i \in {j \in DOMAIN PreAlloc : PreAlloc[j] = "small"}}
PreBlocks == IF PreArena = {} THEN <<>> ELSE NewBlocks(CHOOSE a \in PreArena : TRUE)

Init ==
    /\ running = Head(Boot) /\ ready = Tail(Boot) /\ ticks = [x \in Tasks |-> Prio]
    /\ status = [x \in Tasks |-> IF x = Head(Boot) THEN "Running"
                                 ELSE IF x \in ToSet(Boot) THEN "Ready"
                                 ELSE "Died"]
    /\ lock = [p \in Pools |-> LockInit]
    /\ bits = [p \in Pools |-> IF p = "kernel" THEN PreUsed ELSE {}]
    /\ use = [p \in Pools |-> [f \in Frames(p) |->
                 IF p = "kernel" /\ f \in PreUsed
                 THEN IF f \in PreArena THEN {<<f, "arena">>}
                      ELSE {<<MainThread, PreAlloc[PreCall(f)]>>}
                 ELSE {}]]
    /\ kvbits = PreUsed
    /\ kmap = [v \in KVaddrs |-> IF v \in PreUsed THEN v ELSE -1]
    /\ pde = [t \in Workers |-> PdeInit]
    /\ ip = [t \in Workers |-> 1]
    /\ ph = [t \in Workers |-> "lock"]
    /\ bit = [t \in Workers |-> -1]
    /\ left = [t \in Workers |-> 0]
    /\ vstart = [t \in Workers |-> -1]
    /\ idle = "idle_block"
    /\ panicked = FALSE
    /\ freeList = IF PreBlocks = <<>> THEN <<>> ELSE Tail(PreBlocks)
    /\ arena = [v \in KVaddrs |-> IF v \in PreArena THEN BlocksPerArena - 1 ELSE -1]
    /\ held = [t \in Workers |-> IF t = MainThread /\ PreBlocks # <<>>
                                 THEN {Head(PreBlocks)} ELSE {}]
    /\ blk = [t \in Workers |-> <<-1, 0>>]

(***************************************************************************)
(* lock_acquire(&mem_pool->lock) at the top of sys_malloc, sys_free,       *)
(* get_a_page and get_kernel_pages.  A task that blocks re-runs            *)
(* sema_down at "lockwait" when woken, still inside the call.  sys_free    *)
(* first asserts ptr != NULL: the task frees one of the blocks it holds,   *)
(* or NULL when it holds none.                                             *)
(***************************************************************************)
AfterLock(c) ==
    CASE c \in FreeCalls -> "bfree"
      [] c \in ArenaCalls -> "arena"
      [] PoolOf(c) = "kernel" -> "vaddr"
      [] OTHER -> "scan"

LockStep(t) ==
    LET c == Cur(t)
        p == PoolOf(c)
        r == LockAcquire(lock[p], Now)
        freeing == c \in FreeCalls /\ ph[t] = "lock"
    IN /\ ~Done(t)
       /\ ph[t] \in {"lock", "lockwait"}
       /\ IF freeing /\ held[t] = {}
          THEN /\ panicked' = Asserts
               /\ ip' = [ip EXCEPT ![t] = @ + 1]
               /\ UNCHANGED <<schedVars, lock, bits, use, kvbits, kmap, pde,
                              ph, bit, left, vstart, idle, arenaVars>>
          ELSE /\ SetSched(r.S)
               /\ lock' = [lock EXCEPT ![p] = r.lk]
               /\ ph' = [ph EXCEPT ![t] = IF ~r.got THEN "lockwait" ELSE AfterLock(c)]
               /\ left' = [left EXCEPT ![t] = Pages(c)]
               /\ IF freeing
                  THEN \E b \in held[t] : blk' = [blk EXCEPT ![t] = b]
                  ELSE UNCHANGED blk
               /\ UNCHANGED <<bits, use, kvbits, kmap, pde, ip, bit, vstart,
                              idle, panicked, freeList, arena, held>>

\* vaddr_get(PF_KERNEL, pg_cnt): the first run of pg_cnt clear bits of
\* kernel_vaddr (bitmap_scan, see MCBitmap), all set; NULL when none.
KFits(n) == {s \in 0 .. NK - n : (s .. s + n - 1) \cap kvbits = {}}

VaddrGet(t) ==
    LET n == Pages(Cur(t))
    IN /\ ph[t] = "vaddr"
       /\ IF KFits(n) = {}
          THEN /\ vstart' = [vstart EXCEPT ![t] = -1]
               /\ ph' = [ph EXCEPT ![t] = "unlock"]
               /\ UNCHANGED kvbits
          ELSE /\ vstart' = [vstart EXCEPT ![t] = Min(KFits(n))]
               /\ kvbits' = kvbits \cup (Min(KFits(n)) .. Min(KFits(n)) + n - 1)
               /\ ph' = [ph EXCEPT ![t] = "scan"]
       /\ UNCHANGED <<schedVars, lock, bits, use, kmap, pde, ip, bit, left,
                      idle, panicked, arenaVars>>

\* bitmap_scan(&pool->pool_bitmap, 1) of palloc: the lowest clear bit.  A
\* full pool trips the ASSERT in bitmap_scan, or palloc returns NULL and
\* malloc_page returns NULL without undoing the pages it already mapped.
FreeFrames(p) == Frames(p) \ bits[p]

PallocScan(t) ==
    LET p == PoolOf(Cur(t))
    IN /\ ph[t] = "scan"
       /\ IF FreeFrames(p) = {}
          THEN /\ panicked' = Asserts
               /\ ph' = [ph EXCEPT ![t] = "unlock"]
               /\ vstart' = [vstart EXCEPT ![t] = -1]
               /\ UNCHANGED bit
          ELSE /\ bit' = [bit EXCEPT ![t] = Min(FreeFrames(p))]
               /\ ph' = [ph EXCEPT ![t] = "set"]
               /\ UNCHANGED <<vstart, panicked>>
       /\ UNCHANGED <<schedVars, lock, bits, use, kvbits, kmap, pde, ip, left,
                      idle, arenaVars>>

\* The loop of malloc_page: the next page, or the end of the call.
NextPage(t) ==
    /\ left' = [left EXCEPT ![t] = @ - 1]
    /\ ph' = [ph EXCEPT ![t] = IF left[t] > 1 THEN "scan"
                              ELSE IF Cur(t) \in ArenaCalls THEN "split"
                              ELSE "unlock"]

(***************************************************************************)
(* bitmap_set of palloc, then page_table_add: a kernel page's PDE always   *)
(* exists, so its PTE is written; a user page whose PDE is absent first    *)
(* needs a page table.                                                     *)
(***************************************************************************)
PallocSet(t) ==
    LET c == Cur(t)
        p == PoolOf(c)
        b == bit[t]
        owner == IF c \in ArenaCalls THEN <<vstart[t], "arena">> ELSE <<t, c>>
    IN /\ ph[t] = "set"
       /\ bits' = [bits EXCEPT ![p] = @ \cup {b}]
       /\ use' = [use EXCEPT ![p][b] = @ \cup {owner}]
       /\ IF p = "kernel"
          THEN /\ kmap' = [kmap EXCEPT ![vstart[t] + Pages(c) - left[t]] = b]
               /\ NextPage(t)
          ELSE /\ UNCHANGED kmap
               /\ IF Region(c) \in pde[t]
                  THEN NextPage(t)
                  ELSE /\ ph' = [ph EXCEPT ![t] = "ptscan"]
                       /\ UNCHANGED left
       /\ UNCHANGED <<schedVars, lock, kvbits, pde, ip, bit, vstart, idle,
                      panicked, arenaVars>>

\* page_table_add's palloc(&kernel_pool) for the page table, with no
\* kernel-pool lock held; its NULL result is not checked (memory.c:124).
PtScan(t) ==
    /\ ph[t] = "ptscan"
    /\ IF FreeFrames("kernel") = {}
       THEN /\ panicked' = Asserts
            /\ bit' = [bit EXCEPT ![t] = -1]
       ELSE /\ bit' = [bit EXCEPT ![t] = Min(FreeFrames("kernel"))]
            /\ UNCHANGED panicked
    /\ ph' = [ph EXCEPT ![t] = "ptset"]
    /\ UNCHANGED <<schedVars, lock, bits, use, kvbits, kmap, pde, ip, left,
                   vstart, idle, arenaVars>>

\* bitmap_set of that palloc, the PDE written (to physical 0 for NULL), the
\* page table zeroed and the PTE written.
PtSet(t) ==
    LET b == bit[t]
    IN /\ ph[t] = "ptset"
       /\ bits' = IF b = -1 THEN bits ELSE [bits EXCEPT !["kernel"] = @ \cup {b}]
       /\ use' = IF b = -1 THEN use
                 ELSE [use EXCEPT !["kernel"][b] = @ \cup {<<t, "pagetable">>}]
       /\ pde' = [pde EXCEPT ![t] = @ \cup {Region(Cur(t))}]
       /\ NextPage(t)
       /\ UNCHANGED <<schedVars, lock, kvbits, kmap, ip, bit, vstart, idle,
                      panicked, arenaVars>>

\* An Unlock that forgets lock_release.
UnlockNoRelease(t) ==
    /\ ph[t] = "unlock"
    /\ ip' = [ip EXCEPT ![t] = @ + 1]
    /\ ph' = [ph EXCEPT ![t] = "lock"]
    /\ UNCHANGED <<schedVars, lock, bits, use, kvbits, kmap, pde, bit, left,
                   vstart, idle, panicked, arenaVars>>

\* sys_fork goes on after its PCB page and list_appends the child to the
\* ready list (the rest of copy_process is not modelled here).
Forked(S, t) ==
    IF Cur(t) = "kpages"
    THEN [S EXCEPT !.ready = @ \o Child[t],
                   !.status = [x \in Tasks |-> IF x \in ToSet(Child[t]) THEN "Ready"
                                               ELSE S.status[x]]]
    ELSE S

\* The end of the call: the block is zeroed and its arena header written
\* (data, not modelled), then lock_release.
Unlock(t) ==
    LET p == PoolOf(Cur(t))
        r == LockRelease(lock[p], Now)
    IN /\ ph[t] = "unlock"
       /\ SetSched(Forked(r.S, t))
       /\ lock' = [lock EXCEPT ![p] = r.lk]
       /\ ip' = [ip EXCEPT ![t] = @ + 1]
       /\ ph' = [ph EXCEPT ![t] = "lock"]
       /\ UNCHANGED <<bits, use, kvbits, kmap, pde, bit, left, vstart, idle,
                      panicked, arenaVars>>

(***************************************************************************)
(* The small path of sys_malloc under the kernel lock: a non-empty free    *)
(* list gives its head block (list_pop), whose arena (block2arena) counts  *)
(* one block less; an empty one sends the call to malloc_page for a new    *)
(* arena page.                                                             *)
(***************************************************************************)
ArenaPop(t) ==
    /\ ph[t] = "arena"
    /\ IF freeList # <<>>
       THEN LET b == Head(freeList)
            IN /\ freeList' = Tail(freeList)
               /\ arena' = [arena EXCEPT ![b[1]] = @ - 1]
               /\ held' = [held EXCEPT ![t] = @ \cup {b}]
               /\ ph' = [ph EXCEPT ![t] = "unlock"]
       ELSE /\ ph' = [ph EXCEPT ![t] = "vaddr"]
            /\ UNCHANGED <<freeList, arena, held>>
    /\ UNCHANGED <<schedVars, lock, bits, use, kvbits, kmap, pde, ip, bit, left,
                   vstart, idle, panicked, blk>>

(***************************************************************************)
(* The new arena: a->cnt = blocks_per_arena, each block (arena2block)      *)
(* appended to the free list with interrupts off, then the list_pop and    *)
(* a->cnt-- that every small allocation ends with.                        *)
(***************************************************************************)
ArenaSplit(t) ==
    LET a == vstart[t]
        l == freeList \o NewBlocks(a)
    IN /\ ph[t] = "split"
       /\ freeList' = Tail(l)
       /\ arena' = [[arena EXCEPT ![a] = BlocksPerArena] EXCEPT ![Head(l)[1]] = @ - 1]
       /\ held' = [held EXCEPT ![t] = @ \cup {Head(l)}]
       /\ ph' = [ph EXCEPT ![t] = "unlock"]
       /\ UNCHANGED <<schedVars, lock, bits, use, kvbits, kmap, pde, ip, bit,
                      left, vstart, idle, panicked, blk>>

\* A FreeBlock that gives the arena back one block too early.
FreeBlockEarly(t) ==
    LET b == blk[t]
        a == b[1]
        l == Append(freeList, b)
    IN /\ ph[t] = "bfree"
       /\ held' = [held EXCEPT ![t] = @ \ {b}]
       /\ IF arena[a] + 1 = BlocksPerArena - 1
          THEN /\ freeList' = SelectSeq(l, LAMBDA x : x[1] # a)
               /\ arena' = [arena EXCEPT ![a] = -1]
               /\ vstart' = [vstart EXCEPT ![t] = a]
               /\ ph' = [ph EXCEPT ![t] = "free"]
          ELSE /\ freeList' = l
               /\ arena' = [arena EXCEPT ![a] = @ + 1]
               /\ ph' = [ph EXCEPT ![t] = "unlock"]
               /\ UNCHANGED vstart
       /\ UNCHANGED <<schedVars, lock, bits, use, kvbits, kmap, pde, ip, bit,
                      left, idle, panicked, blk>>

(***************************************************************************)
(* sys_free of a small block under the kernel lock: list_append to the     *)
(* free list and a->cnt++; when every block of the arena is free, each     *)
(* leaves the list (list_remove) and the page goes back (FreePage).        *)
(***************************************************************************)
FreeBlock(t) ==
    LET b == blk[t]
        a == b[1]
        l == Append(freeList, b)
    IN /\ ph[t] = "bfree"
       /\ held' = [held EXCEPT ![t] = @ \ {b}]
       /\ IF arena[a] + 1 = BlocksPerArena
          THEN /\ freeList' = SelectSeq(l, LAMBDA x : x[1] # a)
               /\ arena' = [arena EXCEPT ![a] = -1]
               /\ vstart' = [vstart EXCEPT ![t] = a]
               /\ ph' = [ph EXCEPT ![t] = "free"]
          ELSE /\ freeList' = l
               /\ arena' = [arena EXCEPT ![a] = @ + 1]
               /\ ph' = [ph EXCEPT ![t] = "unlock"]
               /\ UNCHANGED vstart
       /\ UNCHANGED <<schedVars, lock, bits, use, kvbits, kmap, pde, ip, bit,
                      left, idle, panicked, blk>>

\* A FreePage that removes the PTE but does not pfree the frame.
FreePageNoPfree(t) ==
    /\ ph[t] = "free"
    /\ use' = [use EXCEPT !["kernel"][kmap[vstart[t]]] = @ \ {<<vstart[t], "arena">>}]
    /\ kmap' = [kmap EXCEPT ![vstart[t]] = -1]
    /\ kvbits' = kvbits \ {vstart[t]}
    /\ ph' = [ph EXCEPT ![t] = "unlock"]
    /\ UNCHANGED <<schedVars, lock, bits, pde, ip, bit, left, vstart, idle,
                   panicked, arenaVars>>

(***************************************************************************)
(* sys_free of the arena's last block in use: a->cnt reaches              *)
(* blocks_per_arena, the blocks leave the free list and mfree_page(PF,     *)
(* a, 1) runs its loop once: the frame behind the page (addr_v2p) is       *)
(* cleared in the kernel pool by pfree, the PTE removed, and vaddr_remove  *)
(* clears the page's bit in kernel_vaddr.                                  *)
(***************************************************************************)
FreePage(t) ==
    LET f == kmap[vstart[t]]
    IN /\ ph[t] = "free"
       /\ bits' = [bits EXCEPT !["kernel"] = @ \ {f}]
       /\ use' = [use EXCEPT !["kernel"][f] = @ \ {<<vstart[t], "arena">>}]
       /\ kmap' = [kmap EXCEPT ![vstart[t]] = -1]
       /\ kvbits' = kvbits \ {vstart[t]}
       /\ ph' = [ph EXCEPT ![t] = "unlock"]
       /\ UNCHANGED <<schedVars, lock, pde, ip, bit, left, vstart, idle,
                      panicked, arenaVars>>

\* main ends with thread_exit(running_thread(), true): it is marked died
\* and the scheduler runs; the main thread's PCB is not freed.
MainExit(t) ==
    /\ t = MainThread /\ Done(t)
    /\ SetSched(Block(Now, "Died"))
    /\ UNCHANGED <<memVars, panicked>>

Step(t) ==
    \/ LockStep(t) \/ VaddrGet(t) \/ PallocScan(t) \/ PallocSet(t)
    \/ PtScan(t) \/ PtSet(t) \/ Unlock(t) \/ FreePage(t) \/ MainExit(t)
    \/ ArenaPop(t) \/ ArenaSplit(t) \/ FreeBlock(t)

\* The idle thread blocks itself; any interrupt brings it back to the loop.
IdleBlock ==
    /\ running = Idle /\ idle = "idle_block"
    /\ SetSched(Block(Now, "Blocked"))
    /\ idle' = "idle_hlt"
    /\ UNCHANGED <<lock, bits, use, kvbits, kmap, pde, ip, ph, bit, left,
                   vstart, panicked, arenaVars>>

\* The timer interrupt, taken where interrupts are on.
Tick ==
    /\ Interruptible
    /\ SetSched(TimerTick(Now))
    /\ idle' = IF running = Idle THEN "idle_block" ELSE idle
    /\ UNCHANGED <<lock, bits, use, kvbits, kmap, pde, ip, ph, bit, left,
                   vstart, panicked, arenaVars>>

Next ==
    /\ ~panicked
    /\ \/ \E t \in Workers : running = t /\ Step(t)
       \/ IdleBlock
       \/ Tick

\* A scheduled task makes progress; the timer keeps interrupting.
Fairness ==
    /\ \A t \in Workers : SF_vars(running = t /\ Step(t))
    /\ WF_vars(IdleBlock)
    /\ SF_vars(Tick)

Spec == Init /\ [][Next]_vars /\ Fairness

-----------------------------------------------------------------------------
(***************************************************************************)
(* A frame's bit is set in its pool exactly when one mapping refers to it  *)
(* (spec: "for every bit set in a physical pool's bitmap, exactly one      *)
(* task's page table refers to that frame"): palloc's scan and set, the    *)
(* page-table palloc in page_table_add and mfree_page's pfree must keep    *)
(* the bitmaps and the page tables in step, across preemption.             *)
(***************************************************************************)
PoolBitmapsExact ==
    \A p \in Pools : \A f \in Frames(p) :
        Cardinality(use[p][f]) = IF f \in bits[p] THEN 1 ELSE 0

(***************************************************************************)
(* The blocks of k_block_descs are accounted for: no block is both free    *)
(* and held, or held by two tasks, or listed twice; every live arena's     *)
(* page is mapped, its a->cnt is the number of its blocks on the free      *)
(* list, and its free and held blocks make up blocks_per_arena; no block   *)
(* of a released arena is listed or held.  sys_malloc's pop and split and  *)
(* sys_free's count and release, by tasks that block on the kernel lock    *)
(* in between, must keep a->cnt, the list and the page in step.            *)
(***************************************************************************)
Held == UNION {held[t] : t \in Workers}
OfArena(B, a) == {b \in B : b[1] = a}

ArenaBlocksAccounted ==
    /\ IsInjective(freeList)
    /\ \A t, u \in Workers : t # u => held[t] \cap held[u] = {}
    /\ ToSet(freeList) \cap Held = {}
    /\ \A b \in ToSet(freeList) \cup Held : arena[b[1]] >= 0
    /\ \A a \in KVaddrs : arena[a] >= 0 =>
          /\ kmap[a] # -1
          /\ arena[a] = Cardinality(OfArena(ToSet(freeList), a))
          /\ arena[a] + Cardinality(OfArena(Held, a)) = BlocksPerArena

\* Every task gets through all of its allocator calls: no task is left
\* blocked on a pool lock (lock_release wakes the waiter).
CallsComplete == \A t \in Workers : <>Done(t)

=============================================================================
