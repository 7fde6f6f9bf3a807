--------------------------------- MODULE Fs ---------------------------------
(***************************************************************************)
(* The on-disk file system of fs/fs.c, fs/dir.c and fs/inode.c, as the     *)
(* system calls open(O_CREAT), close, unlink, mkdir and rmdir drive it on  *)
(* paths one level below the root ("/name").                               *)
(*                                                                         *)
(* Every ide_read and ide_write blocks the caller on the channel's         *)
(* disk_done semaphore, so a call is a sequence of steps cut at its disk   *)
(* transfers.  A task inside a system call runs with interrupts off and    *)
(* only yields at those points (Blocking); a kernel thread such as main    *)
(* runs with interrupts on and may be preempted between any two steps      *)
(* (Preempt).  Consecutive transfers with no access to shared state        *)
(* between them are one yield point.                                       *)
(*                                                                         *)
(* Data is abstracted to what the directory tree depends on: a block is    *)
(* its bitmap index + 1 (block 1 is the root's first block), a directory   *)
(* block is a function from slot to directory entry, an inode is its size  *)
(* in directory entries and its ND direct block addresses (0 = none), and  *)
(* a regular file has no data (sys_write is not modelled).  The in-memory  *)
(* bitmaps are the partition's; bitmap_sync only writes them to disk.      *)
(*                                                                         *)
(* inode_bitmap_alloc, block_bitmap_alloc, file_create and file_close are  *)
(* in fs/file.c, which is not in the repository: they follow the spec.     *)
(***************************************************************************)
EXTENDS Integers, FiniteSets, FiniteSetsExt, SequencesExt, Bags

CONSTANTS
    Procs,      \* tasks calling into the file system
    Preempt,    \* the ones that run with interrupts on (kernel threads)
    Script,     \* Script[t][i]: the calls t may make as its i-th call
    NI,         \* inodes per partition (MAX_FILES_PER_PART)
    NB,         \* data blocks per partition
    ND,         \* direct blocks searched per directory (12 in the code)
    K,          \* directory entries per sector (512 / dir_entry_size)
    MaxOpen     \* global file-table slots (MAX_FILE_OPEN)

Root == 0                       \* sb->root_inode_no
Inodes == 0 .. NI - 1
Blocks == 1 .. NB
Slots == 1 .. K
Direct == 1 .. ND
FdSlots == 1 .. MaxOpen
NoIno == -1                     \* a free file-table slot (fd_inode == NULL)

Ops == {"create", "open", "mkdir", "rm", "rmdir", "close", "opendir", "closedir"}

ASSUME /\ NI >= 2 /\ NB >= 1 /\ ND >= 1 /\ K >= 2 /\ NI <= 256
       /\ Preempt \subseteq Procs
       /\ \A t \in Procs : \A i \in DOMAIN Script[t] :
            \A c \in Script[t][i] : c.op \in Ops

\* A directory entry; f_type FT_UNKNOWN marks a free slot.
Free == [name |-> "", ino |-> NoIno, type |-> "unknown"]
Entry(n, i, ty) == [name |-> n, ino |-> i, type |-> ty]

\* inode_init: size 0, no blocks.
ZeroInode == [size |-> 0, blocks |-> [j \in Direct |-> 0]]

\* The first block of a fresh directory: "." and "..", the rest zeroed.
DotBlock(self, parent) ==
    [k \in Slots |-> CASE k = 1 -> Entry(".", self, "dir")
                       [] k = 2 -> Entry("..", parent, "dir")
                       [] OTHER -> Free]

VARIABLES
    ibits,      \* part->inode_bitmap: allocated inode numbers
    bbits,      \* part->block_bitmap: allocated blocks
    dblk,       \* on-disk directory blocks: dblk[b][k] is an entry
    itab,       \* on-disk inode table: itab[i] is [size, blocks]
    mem,        \* part->open_inodes: mem[i].cnt is i_open_cnts, 0 if not listed
    ftab,       \* file_table[]: the inode of each slot, NoIno if free
    fds,        \* fds[t]: the file-table slots t's fd_table points to
    dirs,       \* dirs[t]: bag of the inodes of t's struct dir handles
    pc,         \* where each task is in its current call
    loc,        \* each task's locals in that call
    ip,         \* index of each task's next call in Script
    cur         \* the running task

vars == <<ibits, bbits, dblk, itab, mem, ftab, fds, dirs, pc, loc, ip, cur>>

RootBlocks == mem[Root].blocks

\* Index of the first nonzero address of the block list bs at or after
\* i, 0 if none: the block loops of search_dir_entry and delete_dir_entry
\* skip holes.  They walk all_blocks, the copy of i_blocks each call
\* takes at its start, not the inode.
NextBlk(bs, i) ==
    LET js == {j \in i .. ND : bs[j] # 0}
    IN IF js = {} THEN 0 ELSE Min(js)

IsUser(e) == e.type # "unknown" /\ e.name \notin {".", ".."}
FreeSlots(b) == {k \in Slots : dblk[b][k].type = "unknown"}
UserSlots(b) == {k \in Slots : IsUser(dblk[b][k])}

\* The entries of the root directory, by position.
RootSlots == {<<j, k>> \in Direct \X Slots :
                RootBlocks[j] # 0 /\ IsUser(dblk[RootBlocks[j]][k])}
At(p) == dblk[RootBlocks[p[1]]][p[2]]

FreeFd == {s \in FdSlots : ftab[s] = NoIno}

\* A task waiting for a disk transfer it started (or is about to read).
Blocking(t) ==
    \/ pc[t] \in {"search", "mk_dot", "sde_new", "sde_size", "isp", "isc",
                  "fc_open", "de", "de_shrink", "de_sync", "rel_del",
                  "rel_close"}
    \/ pc[t] = "sdir" /\ mem[loc[t].ent.ino].cnt = 0
    \/ pc[t] \in {"rd_open", "rel_open", "fo_open", "od_open"}
       /\ mem[loc[t].ino].cnt = 0
    \/ pc[t] = "sde" /\ loc[t].bi <= ND /\ loc[t].blks[loc[t].bi] # 0

\* The scheduler may switch away from t here.
Yieldable(t) == t \in Preempt \/ pc[t] = "idle" \/ Blocking(t)

\* partition_format, mount_partition and open_root_dir: inode 0 and block
\* 1 hold the root with "." and "..", and the root inode is listed once.
Init ==
    /\ ibits = {Root}
    /\ bbits = {1}
    /\ dblk = [b \in Blocks |-> IF b = 1 THEN DotBlock(Root, Root)
                                 ELSE [k \in Slots |-> Free]]
    /\ itab = [i \in Inodes |->
                 IF i = Root THEN [size |-> 2, blocks |-> [j \in Direct |->
                                                    IF j = 1 THEN 1 ELSE 0]]
                 ELSE ZeroInode]
    /\ mem = [i \in Inodes |-> [cnt |-> IF i = Root THEN 1 ELSE 0]
                                 @@ itab[i]]
    /\ ftab = [s \in FdSlots |-> NoIno]
    /\ fds = [t \in Procs |-> {}]
    /\ dirs = [t \in Procs |-> EmptyBag]
    /\ pc = [t \in Procs |-> "idle"]
    /\ loc = [t \in Procs |-> [cmd |-> [op |-> "close", name |-> ""],
                bi |-> 1, blks |-> itab[Root].blocks, ino |-> NoIno, blk |-> 0, nblk |-> 0, freed |-> FALSE,
                ent |-> Free, nb |-> ZeroInode]]
    /\ ip = [t \in Procs |-> 1]
    /\ cur \in Procs

Goto(t, p) == pc' = [pc EXCEPT ![t] = p]
Finish(t) == pc' = [pc EXCEPT ![t] = "idle"] /\ ip' = [ip EXCEPT ![t] = @ + 1]

\* inode_open: a listed inode gains an opener; otherwise it is read from
\* the inode table and listed with one.
Opened(i) == IF mem[i].cnt > 0 THEN [mem[i] EXCEPT !.cnt = @ + 1]
             ELSE [cnt |-> 1] @@ itab[i]

\* inode_sync writes through `uint8_t inode_no = inode->i_no', so inode i
\* lands in slot i % 256 of the table (NI <= 256 keeps them apart here).
InodeSync(i, r) == itab' = [itab EXCEPT ![i % 256] = r]

OnDisk(r) == [size |-> r.size, blocks |-> r.blocks]

(***************************************************************************)
(* System-call entry.                                                      *)
(***************************************************************************)

\* open, unlink, mkdir, rmdir or opendir of "/name": search_file first.
Issue(t) ==
    /\ pc[t] = "idle" /\ ip[t] <= Len(Script[t])
    /\ \E c \in Script[t][ip[t]] :
         /\ c.op \notin {"close", "closedir"}
         /\ loc' = [loc EXCEPT ![t].cmd = c, ![t].bi = 1, ![t].blks = RootBlocks]
    /\ Goto(t, "search")
    /\ UNCHANGED <<ibits, bbits, dblk, itab, mem, ftab, fds, dirs, ip>>

\* sys_close of a regular file: file_close closes its inode and clears the
\* slot, and the fd is freed.
CloseFd(t) ==
    /\ pc[t] = "idle" /\ ip[t] <= Len(Script[t])
    /\ \E c \in Script[t][ip[t]] : c.op = "close"
    /\ \E s \in fds[t] :
         /\ mem' = [mem EXCEPT ![ftab[s]].cnt = @ - 1]
         /\ ftab' = [ftab EXCEPT ![s] = NoIno]
         /\ fds' = [fds EXCEPT ![t] = @ \ {s}]
    /\ Finish(t)
    /\ UNCHANGED <<ibits, bbits, dblk, itab, dirs, loc>>

\* sys_closedir: dir_close, i.e. inode_close of the directory's inode; a
\* NULL handle (what a failed opendir returned) gives -1 and changes nothing.
CloseDir(t) ==
    /\ pc[t] = "idle" /\ ip[t] <= Len(Script[t])
    /\ \E c \in Script[t][ip[t]] : c.op = "closedir"
    /\ \/ dirs[t] = EmptyBag /\ UNCHANGED <<mem, dirs>>
       \/ \E i \in BagToSet(dirs[t]) :
            /\ mem' = [mem EXCEPT ![i].cnt = @ - 1]
            /\ dirs' = [dirs EXCEPT ![t] = @ (-) SetToBag({i})]
    /\ Finish(t)
    /\ UNCHANGED <<ibits, bbits, dblk, itab, ftab, fds, loc>>

(***************************************************************************)
(* search_file and the checks each call makes on its result.               *)
(***************************************************************************)

\* Whether the call goes on after search_file found `kind' ("miss", "reg"
\* or "dir"): create and mkdir need a miss, unlink a regular file that no
\* file-table slot holds, rmdir a directory.
GoesOn(op, kind, e) ==
    \/ op \in {"create", "mkdir"} /\ kind = "miss"
    \/ op = "rm" /\ kind = "reg" /\ e.ino \notin Range(ftab)
    \/ op = "rmdir" /\ kind = "dir"
    \/ op = "open" /\ kind = "reg"
    \/ op = "opendir" /\ kind = "dir"

\* The caller's branch on the search result.  Every failing branch returns
\* -1 after dir_close(parent), which undoes search_file's dir_open of the
\* root when the name was a directory.  rmdir keeps that parent open.
AfterSearch(t, kind, e) ==
    LET op == loc[t].cmd.op
    IN \/ ~GoesOn(op, kind, e) /\ Finish(t) /\ UNCHANGED <<mem, loc>>
       \/ GoesOn(op, kind, e) /\ op = "create" /\ Goto(t, "fc_alloc")
          /\ UNCHANGED <<mem, loc, ip>>
       \/ GoesOn(op, kind, e) /\ op = "mkdir" /\ Goto(t, "mk_alloc")
          /\ UNCHANGED <<mem, loc, ip>>
       \/ GoesOn(op, kind, e) /\ op = "rm" /\ Goto(t, "de")
          /\ loc' = [loc EXCEPT ![t].ino = e.ino, ![t].bi = 1,
                                ![t].blks = RootBlocks]
          /\ UNCHANGED <<mem, ip>>
       \/ GoesOn(op, kind, e) /\ op \in {"open", "opendir"}
          /\ Goto(t, IF op = "open" THEN "fo_open" ELSE "od_open")
          /\ loc' = [loc EXCEPT ![t].ino = e.ino]
          /\ UNCHANGED <<mem, ip>>
       \/ GoesOn(op, kind, e) /\ op = "rmdir" /\ Goto(t, "rd_open")
          /\ loc' = [loc EXCEPT ![t].ino = e.ino]
          /\ mem' = [mem EXCEPT ![Root].cnt = @ + 1]
          /\ UNCHANGED ip

\* Mutation of Search: the search gives up after the first block read.
SearchOneBlock(t) ==
    /\ pc[t] = "search"
    /\ LET j == NextBlk(loc[t].blks, loc[t].bi)
           b == loc[t].blks[j]
           hits == {k \in Slots : dblk[b][k].name = loc[t].cmd.name}
           e == dblk[b][Min(hits)]
       IN \/ hits # {} /\ e.type = "reg" /\ AfterSearch(t, "reg", e)
          \/ hits # {} /\ e.type = "dir" /\ Goto(t, "sdir")
             /\ loc' = [loc EXCEPT ![t].ent = e] /\ UNCHANGED <<mem, ip>>
          \/ hits = {} /\ AfterSearch(t, "miss", Free)
    /\ UNCHANGED <<ibits, bbits, dblk, itab, ftab, fds, dirs>>

\* search_dir_entry on the root, one ide_read per block: the first entry
\* whose name matches wins; past the last block the name is missing.
Search(t) ==
    /\ pc[t] = "search"
    /\ LET j == NextBlk(loc[t].blks, loc[t].bi)
           b == loc[t].blks[j]
           hits == {k \in Slots : dblk[b][k].name = loc[t].cmd.name}
           e == dblk[b][Min(hits)]
       IN \/ hits # {} /\ e.type = "reg" /\ AfterSearch(t, "reg", e)
          \/ hits # {} /\ e.type = "dir" /\ Goto(t, "sdir")
             /\ loc' = [loc EXCEPT ![t].ent = e] /\ UNCHANGED <<mem, ip>>
          \/ hits = {} /\ NextBlk(loc[t].blks, j + 1) = 0 /\ AfterSearch(t, "miss", Free)
          \/ hits = {} /\ NextBlk(loc[t].blks, j + 1) # 0
             /\ loc' = [loc EXCEPT ![t].bi = j + 1] /\ UNCHANGED <<pc, mem, ip>>
    /\ UNCHANGED <<ibits, bbits, dblk, itab, ftab, fds, dirs>>

\* The last path element is a directory: search_file opens it (an
\* ide_read if it is not listed), closes it again, and returns its parent
\* opened with dir_open(cur_part, 0).
SDir(t) ==
    /\ pc[t] = "sdir"
    /\ AfterSearch(t, "dir", loc[t].ent)
    /\ UNCHANGED <<ibits, bbits, dblk, itab, ftab, fds, dirs>>

(***************************************************************************)
(* sys_mkdir and file_create, up to sync_dir_entry.                        *)
(***************************************************************************)

\* sys_mkdir steps 2 and 3: inode_bitmap_alloc, then block_bitmap_alloc
\* and bitmap_sync.  Without an inode it returns -1; without a block it
\* gives the inode bit back (rollback step 2).
MkAlloc(t) ==
    /\ pc[t] = "mk_alloc"
    /\ \/ Inodes \ ibits = {} /\ Finish(t) /\ UNCHANGED <<ibits, bbits, loc>>
       \/ Inodes \ ibits # {} /\ Blocks \ bbits = {} /\ Finish(t)
          /\ UNCHANGED <<ibits, bbits, loc>>
       \/ Inodes \ ibits # {} /\ Blocks \ bbits # {}
          /\ ibits' = ibits \cup {Min(Inodes \ ibits)}
          /\ bbits' = bbits \cup {Min(Blocks \ bbits)}
          /\ loc' = [loc EXCEPT ![t].ino = Min(Inodes \ ibits),
                                ![t].blk = Min(Blocks \ bbits)]
          /\ Goto(t, "mk_dot") /\ UNCHANGED ip
    /\ UNCHANGED <<dblk, itab, mem, ftab, fds, dirs>>

\* The new directory's block gets "." and ".." (ide_write); the inode on
\* the stack has size 2 and that block; create_dir_entry builds the entry.
MkDot(t) ==
    /\ pc[t] = "mk_dot"
    /\ LET l == loc[t]
       IN /\ dblk' = [dblk EXCEPT ![l.blk] = DotBlock(l.ino, Root)]
          /\ loc' = [loc EXCEPT
                ![t].nb = [size |-> 2,
                           blocks |-> [j \in Direct |-> IF j = 1 THEN l.blk ELSE 0]],
                ![t].ent = Entry(l.cmd.name, l.ino, "dir"), ![t].bi = 1,
                ![t].blks = RootBlocks]
    /\ Goto(t, "sde")
    /\ UNCHANGED <<ibits, bbits, itab, mem, ftab, fds, dirs, ip>>

\* file_create: reserve an inode bit and build the new inode and entry.
FcAlloc(t) ==
    /\ pc[t] = "fc_alloc"
    /\ \/ Inodes \ ibits = {} /\ Finish(t) /\ UNCHANGED <<ibits, loc>>
       \/ Inodes \ ibits # {}
          /\ ibits' = ibits \cup {Min(Inodes \ ibits)}
          /\ loc' = [loc EXCEPT ![t].ino = Min(Inodes \ ibits),
                      ![t].nb = ZeroInode, ![t].bi = 1, ![t].blks = RootBlocks,
                      ![t].ent = Entry(loc[t].cmd.name, Min(Inodes \ ibits), "reg")]
          /\ Goto(t, "sde") /\ UNCHANGED ip
    /\ UNCHANGED <<bbits, dblk, itab, mem, ftab, fds, dirs>>

(***************************************************************************)
(* sync_dir_entry(root, entry) walks all_blocks: a hole gets a new block  *)
(* (SdeAlloc), an existing block is read and its first free slot taken    *)
(* (SdeSlot); a full block sends the walk to the next one.                *)
(***************************************************************************)
SdeAlloc(t) ==
    /\ pc[t] = "sde"
    /\ LET l == loc[t]
       IN /\ l.bi <= ND /\ l.blks[l.bi] = 0 /\ Blocks \ bbits # {}
          /\ bbits' = bbits \cup {Min(Blocks \ bbits)}
          /\ loc' = [loc EXCEPT ![t].nblk = Min(Blocks \ bbits)]
    /\ Goto(t, "sde_new")
    /\ UNCHANGED <<ibits, dblk, itab, mem, ftab, fds, dirs, ip>>

SdeSlot(t) ==
    /\ pc[t] = "sde"
    /\ LET l == loc[t]
           b == l.blks[l.bi]
       IN /\ l.bi <= ND /\ b # 0
          /\ \/ FreeSlots(b) # {}
                /\ dblk' = [dblk EXCEPT ![b][Min(FreeSlots(b))] = l.ent]
                /\ Goto(t, "sde_size") /\ UNCHANGED loc
             \/ FreeSlots(b) = {}
                /\ loc' = [loc EXCEPT ![t].bi = @ + 1]
                /\ UNCHANGED <<dblk, pc>>
    /\ UNCHANGED <<ibits, bbits, itab, mem, ftab, fds, dirs, ip>>

\* Mutation of SdeFail: the inode bit is not given back.
SdeFailKeepInode(t) ==
    /\ pc[t] = "sde"
    /\ \/ loc[t].bi > ND
       \/ loc[t].bi <= ND /\ loc[t].blks[loc[t].bi] = 0 /\ Blocks \ bbits = {}
    /\ Finish(t)
    /\ UNCHANGED <<ibits, bbits, dblk, itab, mem, ftab, fds, dirs, loc>>

\* sync_dir_entry returns false ("directory is full", or no block): the
\* caller gives back the inode bit and returns -1.  sys_mkdir's rollback
\* step 2 does only that, although its block is already allocated.
SdeFail(t) ==
    /\ pc[t] = "sde"
    /\ \/ loc[t].bi > ND
       \/ loc[t].bi <= ND /\ loc[t].blks[loc[t].bi] = 0 /\ Blocks \ bbits = {}
    /\ ibits' = ibits \ {loc[t].ino}
    /\ Finish(t)
    /\ UNCHANGED <<bbits, dblk, itab, mem, ftab, fds, dirs, loc>>

\* After bitmap_sync of the new block: record it in i_blocks and write
\* the entry alone into it.
SdeNew(t) ==
    /\ pc[t] = "sde_new"
    /\ LET l == loc[t]
       IN /\ mem' = [mem EXCEPT ![Root].blocks[l.bi] = l.nblk]
          /\ dblk' = [dblk EXCEPT ![l.nblk] =
                        [k \in Slots |-> IF k = 1 THEN l.ent ELSE Free]]
    /\ Goto(t, "sde_size")
    /\ UNCHANGED <<ibits, bbits, itab, ftab, fds, dirs, loc, ip>>

\* After the entry's ide_write: i_size grows by one entry.
SdeSize(t) ==
    /\ pc[t] = "sde_size"
    /\ mem' = [mem EXCEPT ![Root].size = @ + 1]
    /\ Goto(t, "isp")
    /\ UNCHANGED <<ibits, bbits, dblk, itab, ftab, fds, dirs, loc, ip>>

\* inode_sync of the parent directory.
SyncParent(t) ==
    /\ pc[t] = "isp"
    /\ InodeSync(Root, OnDisk(mem[Root]))
    /\ Goto(t, "isc")
    /\ UNCHANGED <<ibits, bbits, dblk, mem, ftab, fds, dirs, loc, ip>>

\* inode_sync of the new inode, then bitmap_sync of its bit; sys_mkdir
\* returns 0 there, file_create goes on to list the inode.
SyncNew(t) ==
    /\ pc[t] = "isc"
    /\ InodeSync(loc[t].ino, loc[t].nb)
    /\ \/ loc[t].cmd.op = "mkdir" /\ Finish(t)
       \/ loc[t].cmd.op = "create" /\ Goto(t, "fc_open") /\ UNCHANGED ip
    /\ UNCHANGED <<ibits, bbits, dblk, mem, ftab, fds, dirs, loc>>

\* file_create: list the inode with one opener, take the first free slot
\* of the file table and install it in the task's fd table.  With the
\* table full it returns -1 (spec section 7) with its own open undone;
\* the file stays in the directory.
FcOpen(t) ==
    /\ pc[t] = "fc_open"
    /\ \/ FreeFd = {} /\ UNCHANGED <<mem, ftab, fds>>
       \/ FreeFd # {}
          /\ mem' = [mem EXCEPT ![loc[t].ino] = [cnt |-> 1] @@ loc[t].nb]
          /\ ftab' = [ftab EXCEPT ![Min(FreeFd)] = loc[t].ino]
          /\ fds' = [fds EXCEPT ![t] = @ \cup {Min(FreeFd)}]
    /\ Finish(t)
    /\ UNCHANGED <<ibits, bbits, dblk, itab, dirs, loc>>

\* file_open of an existing regular file (sys_open without O_CREAT): a
\* free global file-table slot, inode_open, and the fd; -1 when the file
\* table is full.
FoOpen(t) ==
    /\ pc[t] = "fo_open"
    /\ LET i == loc[t].ino
       IN \/ FreeFd = {} /\ UNCHANGED <<mem, ftab, fds>>
          \/ FreeFd # {}
             /\ mem' = [mem EXCEPT ![i] = Opened(i)]
             /\ ftab' = [ftab EXCEPT ![Min(FreeFd)] = i]
             /\ fds' = [fds EXCEPT ![t] = @ \cup {Min(FreeFd)}]
    /\ Finish(t)
    /\ UNCHANGED <<ibits, bbits, dblk, itab, dirs, loc>>

\* sys_opendir of a directory: dir_open (inode_open) of it, dir_close of
\* the parent search_file opened.
OdOpen(t) ==
    /\ pc[t] = "od_open"
    /\ mem' = [mem EXCEPT ![loc[t].ino] = Opened(loc[t].ino)]
    /\ dirs' = [dirs EXCEPT ![t] = @ (+) SetToBag({loc[t].ino})]
    /\ Finish(t)
    /\ UNCHANGED <<ibits, bbits, dblk, itab, ftab, fds, loc>>

(***************************************************************************)
(* delete_dir_entry(root, ino), shared by sys_unlink and dir_remove.       *)
(***************************************************************************)

\* The block holds "." (it is the directory's first block).
HasDot(b) == \E k \in Slots : dblk[b][k].type # "unknown" /\ dblk[b][k].name = "."

\* Read the next block; in the one holding the entry, a block whose only
\* entry it is (and that is not the first) is given back to the block
\* bitmap, otherwise the slot is zeroed and the block written back.  A
\* search that ends without the entry returns false, which both callers
\* ignore.
DeleteEntry(t) ==
    /\ pc[t] = "de"
    /\ LET l == loc[t]
           j == NextBlk(l.blks, l.bi)
           b == loc[t].blks[j]
           ks == {k \in UserSlots(b) : dblk[b][k].ino = l.ino}
       IN \/ ks = {}
             /\ IF NextBlk(loc[t].blks, j + 1) = 0 THEN Goto(t, "rel_open")
                ELSE UNCHANGED pc
             /\ loc' = [loc EXCEPT ![t].bi = j + 1]
             /\ UNCHANGED <<bbits, dblk>>
          \/ ks # {} /\ Cardinality(UserSlots(b)) = 1 /\ ~HasDot(b)
             /\ bbits' = bbits \ {b}
             /\ loc' = [loc EXCEPT ![t].bi = j, ![t].freed = TRUE]
             /\ Goto(t, "de_shrink") /\ UNCHANGED dblk
          \/ ks # {} /\ (Cardinality(UserSlots(b)) > 1 \/ HasDot(b))
             /\ dblk' = [dblk EXCEPT ![b][Min(ks)] = Free]
             /\ loc' = [loc EXCEPT ![t].bi = j, ![t].freed = FALSE]
             /\ Goto(t, "de_shrink") /\ UNCHANGED bbits
    /\ UNCHANGED <<ibits, itab, mem, ftab, fds, dirs, ip>>

\* Mutation of DeShrink: i_size is not reduced when the block is freed.
DeShrinkKeepSize(t) ==
    /\ pc[t] = "de_shrink"
    /\ mem' = [mem EXCEPT ![Root].size = IF loc[t].freed THEN @ ELSE @ - 1,
                          ![Root].blocks = IF loc[t].freed
                                           THEN [@ EXCEPT ![loc[t].bi] = 0]
                                           ELSE @]
    /\ Goto(t, "de_sync")
    /\ UNCHANGED <<ibits, bbits, dblk, itab, ftab, fds, dirs, loc, ip>>

\* After the bitmap_sync or the ide_write: drop the freed block from
\* i_blocks and shrink i_size by one entry.
DeShrink(t) ==
    /\ pc[t] = "de_shrink"
    /\ mem' = [mem EXCEPT ![Root].size = @ - 1,
                          ![Root].blocks = IF loc[t].freed
                                           THEN [@ EXCEPT ![loc[t].bi] = 0]
                                           ELSE @]
    /\ Goto(t, "de_sync")
    /\ UNCHANGED <<ibits, bbits, dblk, itab, ftab, fds, dirs, loc, ip>>

\* inode_sync of the directory; then the caller calls inode_release.
DeSync(t) ==
    /\ pc[t] = "de_sync"
    /\ InodeSync(Root, OnDisk(mem[Root]))
    /\ Goto(t, "rel_open")
    /\ UNCHANGED <<ibits, bbits, dblk, mem, ftab, fds, dirs, loc, ip>>

(***************************************************************************)
(* sys_rmdir and inode_release.                                            *)
(***************************************************************************)

\* sys_rmdir: dir_open the directory and test dir_is_empty (i_size is two
\* entries).  An empty one goes to dir_remove, whose first act is
\* delete_dir_entry; otherwise both directories are closed.  Paths here
\* are one level deep, so every directory is empty.
RdOpen(t) ==
    /\ pc[t] = "rd_open"
    /\ LET i == loc[t].ino
           m == Opened(i)
       IN IF m.size = 2
          THEN /\ mem' = [mem EXCEPT ![i] = m]
               /\ loc' = [loc EXCEPT ![t].bi = 1, ![t].blks = RootBlocks]
               /\ Goto(t, "de") /\ UNCHANGED ip
          ELSE /\ mem' = [mem EXCEPT ![i] = [m EXCEPT !.cnt = @ - 1],
                                     ![Root].cnt = @ - 1]
               /\ Finish(t) /\ UNCHANGED loc
    /\ UNCHANGED <<ibits, bbits, dblk, itab, ftab, fds, dirs>>

\* inode_release: inode_open the inode to delete.
RelOpen(t) ==
    /\ pc[t] = "rel_open"
    /\ mem' = [mem EXCEPT ![loc[t].ino] = Opened(loc[t].ino)]
    /\ Goto(t, "rel_blk")
    /\ UNCHANGED <<ibits, bbits, dblk, itab, ftab, fds, dirs, loc, ip>>

\* Clear the bit of every block in i_blocks, then the inode's bit.
RelBlocks(t) ==
    /\ pc[t] = "rel_blk"
    /\ bbits' = bbits \ Range(mem[loc[t].ino].blocks)
    /\ ibits' = ibits \ {loc[t].ino}
    /\ Goto(t, "rel_del")
    /\ UNCHANGED <<dblk, itab, mem, ftab, fds, dirs, loc, ip>>

\* inode_delete: zero the inode in the table (read, then write back).
RelDelete(t) ==
    /\ pc[t] = "rel_del"
    /\ itab' = [itab EXCEPT ![loc[t].ino] = ZeroInode]
    /\ Goto(t, "rel_close")
    /\ UNCHANGED <<ibits, bbits, dblk, mem, ftab, fds, dirs, loc, ip>>

\* inode_close of the released inode; sys_unlink then returns 0, and
\* sys_rmdir closes the directory it opened and its parent.
RelClose(t) ==
    /\ pc[t] = "rel_close"
    /\ LET i == loc[t].ino
       IN mem' = IF loc[t].cmd.op = "rm"
                 THEN [mem EXCEPT ![i].cnt = @ - 1]
                 ELSE [mem EXCEPT ![i].cnt = @ - 2, ![Root].cnt = @ - 1]
    /\ Finish(t)
    /\ UNCHANGED <<ibits, bbits, dblk, itab, ftab, fds, dirs, loc>>

(***************************************************************************)
(* Scheduling: t runs if it already does, or if the running task is at a  *)
(* point where it can be switched away from.                               *)
(***************************************************************************)
Run(t) == (cur = t \/ Yieldable(cur)) /\ cur' = t

Step(t) ==
    \/ Issue(t) \/ CloseFd(t) \/ CloseDir(t) \/ Search(t) \/ SDir(t)
    \/ MkAlloc(t) \/ MkDot(t) \/ FcAlloc(t)
    \/ SdeAlloc(t) \/ SdeSlot(t) \/ SdeFail(t) \/ SdeNew(t) \/ SdeSize(t)
    \/ SyncParent(t) \/ SyncNew(t) \/ FcOpen(t) \/ FoOpen(t) \/ OdOpen(t)
    \/ DeleteEntry(t) \/ DeShrink(t) \/ DeSync(t)
    \/ RdOpen(t) \/ RelOpen(t) \/ RelBlocks(t) \/ RelDelete(t) \/ RelClose(t)

\* Every task has made all its calls.
Terminated ==
    /\ \A t \in Procs : pc[t] = "idle" /\ ip[t] > Len(Script[t])
    /\ UNCHANGED vars

Next == (\E t \in Procs : Run(t) /\ Step(t)) \/ Terminated

Spec == Init /\ [][Next]_vars


(***************************************************************************)
(* Properties.                                                             *)
(***************************************************************************)
Entries == [name : STRING, ino : Inodes \cup {NoIno},
            type : {"unknown", "reg", "dir"}]
InodeRecs == [size : 0 .. K * ND + 2, blocks : [Direct -> 0 .. NB]]

TypeOK ==
    /\ ibits \subseteq Inodes /\ Root \in ibits
    /\ bbits \subseteq Blocks
    /\ dblk \in [Blocks -> [Slots -> Entries]]
    /\ itab \in [Inodes -> InodeRecs]
    /\ \A i \in Inodes : mem[i].cnt \in Nat
    /\ ftab \in [FdSlots -> Inodes \cup {NoIno}]
    /\ fds \in [Procs -> SUBSET FdSlots]
    /\ \A t \in Procs : IsABag(dirs[t]) /\ BagToSet(dirs[t]) \subseteq Inodes
    /\ cur \in Procs

\* No call is in progress.
Quiescent == \A t \in Procs : pc[t] = "idle"

\* A directory never holds two entries with the same name: sys_open with
\* O_CREAT and sys_mkdir search the parent before sync_dir_entry adds to
\* it, and unlink and rmdir act on the first entry the search finds.
UniqueNames ==
    \A p, q \in RootSlots : p # q => At(p).name # At(q).name

\* Between calls, the root's i_size (in the open inode and in the inode
\* table) counts its entries, "." and ".." included: sync_dir_entry and
\* delete_dir_entry each change it by one entry and inode_sync it.
DirSizeMatchesEntries ==
    Quiescent =>
        /\ mem[Root].size = 2 + Cardinality(RootSlots)
        /\ itab[Root] = OnDisk(mem[Root])

(***************************************************************************)
(* Between calls, the inode bitmap holds exactly the root and the inodes   *)
(* its entries name, and every block the tree uses (the root's blocks and *)
(* each subdirectory's) is set in the block bitmap.  file_create's and     *)
(* sys_mkdir's failure paths must give the inode bit back (rollback step  *)
(* 2), and unlink's and rmdir's inode_release must clear it only after     *)
(* the entry is gone.  The converse for blocks does not hold: sys_mkdir's  *)
(* rollback keeps the block it took (fs.c:605).                            *)
(***************************************************************************)
BitmapsCoverTree ==
    Quiescent =>
        /\ ibits = {Root} \cup {At(p).ino : p \in RootSlots}
        /\ (Range(RootBlocks) \cup
            UNION {Range(itab[At(p).ino].blocks) : p \in RootSlots}) \ {0}
           \subseteq bbits

=============================================================================
