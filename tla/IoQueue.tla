------------------------------- MODULE IoQueue -------------------------------
(***************************************************************************)
(* A pipe: the ring buffer of src/device/ioqueue.c used through pipe_write *)
(* and pipe_read of src/shell/pipe.c by writer and reader processes.       *)
(*                                                                         *)
(* pipe_write and pipe_read run inside sys_write/sys_read with interrupts  *)
(* disabled, so a call runs without interruption until ioq_putchar or      *)
(* ioq_getchar blocks (in lock_acquire or in ioq_wait).  A byte is         *)
(* abstracted to its position in the stream modulo Mod: the n-th byte ever *)
(* written carries n % Mod, which is enough to see bytes lost, duplicated  *)
(* or reordered by the head/tail arithmetic.                               *)
(***************************************************************************)
EXTENDS Sync, FiniteSets

CONSTANTS
    Writers,     \* processes calling write() on the pipe
    Readers,     \* processes calling read() on the pipe; they keep reading
    BufSize,     \* bufsize: the ring has BufSize slots and holds BufSize-1
    MaxCount,    \* largest count passed to write()/read()
    WriteOps,    \* write() calls per writer
    Boot         \* boot order of the tasks

ASSUME
    /\ Tasks = Writers \cup Readers \cup {Idle}
    /\ Writers \cap Readers = {} /\ Idle \notin Writers \cup Readers
    /\ BufSize \in Nat \ {0, 1} /\ MaxCount \in Nat \ {0} /\ WriteOps \in Nat
    /\ Boot \in Seq(Tasks) /\ Len(Boot) = Cardinality(Tasks)

Users == Writers \cup Readers
Mod == 2 * BufSize
Slots == 0 .. BufSize - 1

VARIABLES
    head, tail,  \* ioq->head (next slot written), ioq->tail (next slot read)
    buf,         \* ioq->buf
    producer,    \* ioq->producer
    consumer,    \* ioq->consumer
    ioqLock,     \* ioq->lock
    pc,          \* program point of each task
    size,        \* the size computed by the current pipe_write/pipe_read
    done,        \* bytes_write / bytes_read of the current call
    wops,        \* write() calls made by each writer
    sent, got    \* bytes written / read so far, modulo Mod

vars == <<status, ready, running, ticks, head, tail, buf, producer, consumer,
          ioqLock, pc, size, done, wops, sent, got>>

ioqVars == <<head, tail, buf, producer, consumer, ioqLock>>

\* Mutation of NextPos: the wrap-around uses the wrong modulus.
NextPosWide(p) == (p + 1) % (BufSize + 1)

\* next_pos, ioq_full, ioq_empty, ioq_length.
NextPos(p) == (p + 1) % BufSize
IoqFull == NextPos(head) = tail
IoqEmpty == tail = head
IoqLength == IF head >= tail THEN head - tail ELSE BufSize - (tail - head)

Interruptible == running = Idle \/ pc[running] = "user"

-----------------------------------------------------------------------------
\* ioqueue_init, as sys_pipe calls it on a fresh page.
Init ==
    /\ SchedInit(Boot)
    /\ head = 0 /\ tail = 0
    /\ buf = [i \in Slots |-> 0]
    /\ producer = NULL /\ consumer = NULL
    /\ ioqLock = LockInit
    /\ pc = [t \in Tasks |-> IF t = Idle THEN "idle_block" ELSE "user"]
    /\ size = [t \in Users |-> 0]
    /\ done = [t \in Users |-> 0]
    /\ wops = [t \in Writers |-> 0]
    /\ sent = 0 /\ got = 0

\* pipe_write: the free space is computed, the count bounded by it.
PipeWrite(t) ==
    /\ pc[t] = "user" /\ t \in Writers /\ wops[t] < WriteOps
    /\ \E count \in 1 .. MaxCount :
          LET left == BufSize - IoqLength
          IN  size' = [size EXCEPT ![t] = IF left > count THEN count ELSE left]
    /\ wops' = [wops EXCEPT ![t] = @ + 1]
    /\ pc' = [pc EXCEPT ![t] = "put"]
    /\ UNCHANGED <<schedVars, ioqVars, done, sent, got>>

\* pipe_read: the count is bounded by the bytes in the buffer.
PipeRead(t) ==
    /\ pc[t] = "user" /\ t \in Readers
    /\ \E count \in 1 .. MaxCount :
          size' = [size EXCEPT ![t] = IF IoqLength > count THEN count ELSE IoqLength]
    /\ pc' = [pc EXCEPT ![t] = "get"]
    /\ UNCHANGED <<schedVars, ioqVars, done, wops, sent, got>>

\* Mutation of WakeUp: the waiter slot is not cleared.
WakeUpKeep(slot, S) ==
    IF slot # NULL THEN [S |-> Unblock(S, slot), slot |-> slot]
    ELSE [S |-> S, slot |-> NULL]

\* wakeup: unblock the recorded waiter and clear the slot.
WakeUp(slot, S) ==
    IF slot # NULL THEN [S |-> Unblock(S, slot), slot |-> NULL]
    ELSE [S |-> S, slot |-> NULL]

\* Mutation of PutChar: head is advanced before the byte is stored.
PutCharLateStore(t) ==
    /\ pc[t] = "put"
    /\ IF done[t] < size[t]
       THEN IF IoqFull
            THEN /\ pc' = [pc EXCEPT ![t] = "lock"]
                 /\ UNCHANGED <<schedVars, ioqVars, done, sent>>
            ELSE LET w == WakeUp(consumer, Now)
                 IN  /\ buf' = [buf EXCEPT ![NextPos(head)] = sent]
                     /\ head' = NextPos(head)
                     /\ sent' = (sent + 1) % Mod
                     /\ done' = [done EXCEPT ![t] = @ + 1]
                     /\ consumer' = w.slot
                     /\ SetSched(w.S)
                     /\ UNCHANGED <<pc, tail, producer, ioqLock>>
       ELSE /\ pc' = [pc EXCEPT ![t] = "user"]
            /\ done' = [done EXCEPT ![t] = 0]
            /\ UNCHANGED <<schedVars, ioqVars, sent>>
    /\ UNCHANGED <<size, wops, got>>

(***************************************************************************)
(* One iteration of pipe_write's loop: ioq_putchar stores the byte at      *)
(* head, advances head and wakes a waiting consumer; when the buffer is    *)
(* full it goes to the lock and waits instead.  Once size bytes are out    *)
(* the call returns.                                                       *)
(***************************************************************************)
PutChar(t) ==
    /\ pc[t] = "put"
    /\ IF done[t] < size[t]
       THEN IF IoqFull
            THEN /\ pc' = [pc EXCEPT ![t] = "lock"]
                 /\ UNCHANGED <<schedVars, ioqVars, done, sent>>
            ELSE LET w == WakeUp(consumer, Now)
                 IN  /\ buf' = [buf EXCEPT ![head] = sent]
                     /\ head' = NextPos(head)
                     /\ sent' = (sent + 1) % Mod
                     /\ done' = [done EXCEPT ![t] = @ + 1]
                     /\ consumer' = w.slot
                     /\ SetSched(w.S)
                     /\ UNCHANGED <<pc, tail, producer, ioqLock>>
       ELSE /\ pc' = [pc EXCEPT ![t] = "user"]
            /\ done' = [done EXCEPT ![t] = 0]
            /\ UNCHANGED <<schedVars, ioqVars, sent>>
    /\ UNCHANGED <<size, wops, got>>

\* Mutation of GetChar: a waiting producer is not woken.
GetCharNoWake(t) ==
    /\ pc[t] = "get"
    /\ IF done[t] < size[t]
       THEN IF IoqEmpty
            THEN /\ pc' = [pc EXCEPT ![t] = "lock"]
                 /\ UNCHANGED <<schedVars, ioqVars, done, got>>
            ELSE /\ tail' = NextPos(tail)
                 /\ got' = (got + 1) % Mod
                 /\ done' = [done EXCEPT ![t] = @ + 1]
                 /\ UNCHANGED <<schedVars, pc, head, buf, producer, consumer,
                                ioqLock>>
       ELSE /\ pc' = [pc EXCEPT ![t] = "user"]
            /\ done' = [done EXCEPT ![t] = 0]
            /\ UNCHANGED <<schedVars, ioqVars, got>>
    /\ UNCHANGED <<size, wops, sent>>

\* One iteration of pipe_read's loop: ioq_getchar, the mirror image.
GetChar(t) ==
    /\ pc[t] = "get"
    /\ IF done[t] < size[t]
       THEN IF IoqEmpty
            THEN /\ pc' = [pc EXCEPT ![t] = "lock"]
                 /\ UNCHANGED <<schedVars, ioqVars, done, got>>
            ELSE LET w == WakeUp(producer, Now)
                 IN  /\ tail' = NextPos(tail)
                     /\ got' = (got + 1) % Mod
                     /\ done' = [done EXCEPT ![t] = @ + 1]
                     /\ producer' = w.slot
                     /\ SetSched(w.S)
                     /\ UNCHANGED <<pc, head, buf, consumer, ioqLock>>
       ELSE /\ pc' = [pc EXCEPT ![t] = "user"]
            /\ done' = [done EXCEPT ![t] = 0]
            /\ UNCHANGED <<schedVars, ioqVars, got>>
    /\ UNCHANGED <<size, wops, sent>>

(***************************************************************************)
(* The body of the while(full)/while(empty) loop: lock_acquire, then       *)
(* ioq_wait records the task in its side's waiter slot and blocks it,      *)
(* still holding the lock.                                                 *)
(***************************************************************************)
LockAndWait(t) ==
    /\ pc[t] = "lock"
    /\ LET a == LockAcquire(ioqLock, Now)
       IN  /\ ioqLock' = a.lk
           /\ IF a.got
              THEN /\ IF t \in Writers
                      THEN /\ producer' = t /\ UNCHANGED consumer
                      ELSE /\ consumer' = t /\ UNCHANGED producer
                   /\ SetSched(Block(a.S, "Blocked"))
                   /\ pc' = [pc EXCEPT ![t] = "wait"]
              ELSE /\ SetSched(a.S)
                   /\ UNCHANGED <<pc, producer, consumer>>
    /\ UNCHANGED <<head, tail, buf, size, done, wops, sent, got>>

\* Woken from ioq_wait: lock_release, then the while condition again.
WaitDone(t) ==
    /\ pc[t] = "wait"
    /\ LET r == LockRelease(ioqLock, Now)
       IN  /\ ioqLock' = r.lk
           /\ SetSched(r.S)
    /\ pc' = [pc EXCEPT ![t] = IF t \in Writers THEN "put" ELSE "get"]
    /\ UNCHANGED <<head, tail, buf, producer, consumer, size, done, wops,
                   sent, got>>

IdleBlock ==
    /\ running = Idle /\ pc[Idle] = "idle_block"
    /\ SetSched(Block(Now, "Blocked"))
    /\ pc' = [pc EXCEPT ![Idle] = "idle_hlt"]
    /\ UNCHANGED <<ioqVars, size, done, wops, sent, got>>

Tick ==
    /\ Interruptible
    /\ SetSched(TimerTick(Now))
    /\ pc' = IF running = Idle THEN [pc EXCEPT ![Idle] = "idle_block"] ELSE pc
    /\ UNCHANGED <<ioqVars, size, done, wops, sent, got>>

UserStep(t) ==
    \/ PutChar(t) \/ GetChar(t) \/ LockAndWait(t) \/ WaitDone(t)

Next ==
    \/ \E t \in Users :
          /\ running = t
          /\ PipeWrite(t) \/ PipeRead(t) \/ UserStep(t)
    \/ IdleBlock \/ Tick

(***************************************************************************)
(* A scheduled task runs its system call; the readers keep calling read()  *)
(* (a consumer such as the last command of a pipeline loops on its input); *)
(* the timer ticks whenever interrupts are enabled.                        *)
(***************************************************************************)
Fairness ==
    /\ \A t \in Users : SF_vars(running = t /\ UserStep(t))
    /\ \A t \in Readers : SF_vars(running = t /\ PipeRead(t))
    /\ WF_vars(IdleBlock)
    /\ SF_vars(Tick)

Spec == Init /\ [][Next]_vars /\ Fairness

-----------------------------------------------------------------------------
TypeOK ==
    /\ SchedTypeOK
    /\ head \in Slots /\ tail \in Slots
    /\ buf \in [Slots -> 0 .. Mod - 1]
    /\ producer \in Writers \cup {NULL} /\ consumer \in Readers \cup {NULL}
    /\ pc \in [Tasks -> {"user", "put", "get", "lock", "wait", "idle_block",
                         "idle_hlt"}]
    /\ size \in [Users -> 0 .. MaxCount] /\ done \in [Users -> 0 .. MaxCount]
    /\ wops \in [Writers -> 0 .. WriteOps]
    /\ sent \in 0 .. Mod - 1 /\ got \in 0 .. Mod - 1

\* The bytes written and not yet read, as the counters see them.
Unread == (sent - got) % Mod

(***************************************************************************)
(* The ring holds exactly the unread bytes, in the order they were         *)
(* written: head - tail (mod bufsize) is their number and the slots from   *)
(* tail onwards carry them oldest first.  A write into a full ring, a      *)
(* wrong wrap-around of next_pos or a store after the head moved would     *)
(* lose, duplicate or reorder bytes of the stream.                         *)
(***************************************************************************)
RingContents ==
    /\ (head - tail) % BufSize = Unread
    /\ \A i \in 0 .. Unread - 1 : buf[(tail + i) % BufSize] = (got + i) % Mod

(***************************************************************************)
(* Waiter slots: a task recorded as producer or consumer is blocked in     *)
(* ioq_wait, and a task blocked in ioq_wait is recorded, so the other side *)
(* will wake it; it holds ioq->lock while it waits, and nobody else does.  *)
(***************************************************************************)
WaiterSlots ==
    /\ \A t \in Users :
          (pc[t] = "wait" /\ status[t] = "Blocked") <=> t \in {producer, consumer}
    /\ ioqLock.holder # NULL => pc[ioqLock.holder] = "wait"

\* Every write() on the pipe returns while a reader keeps reading.
WriteCompletes == \A t \in Writers : pc[t] # "user" ~> pc[t] = "user"

(***************************************************************************)
(* pipe_write never blocks: it bounds the count by the free space "to      *)
(* avoid blocking" (pipe.c), and spec 4.J promises partial transfers       *)
(* rather than deadlock.  The task never reaches the while(ioq_full) body. *)
(***************************************************************************)
PipeWriteNeverBlocks == \A t \in Writers : pc[t] # "lock"
=============================================================================
