-------------------------------- MODULE Sync --------------------------------
(***************************************************************************)
(* Semaphores and locks of src/thread/sync.c, on top of the scheduler.     *)
(*                                                                         *)
(* A semaphore is a record [value, waiters]; a lock is a record            *)
(* [holder, repeat, sem] (struct lock: holder, holder_repeat_nr,           *)
(* semaphore).  Every operation runs with interrupts disabled in the code, *)
(* so each is one step here; each returns the new object together with the *)
(* new scheduler state.  A sema_down that finds the value 0 blocks the      *)
(* caller; the caller later resumes at the top of the while loop, which is  *)
(* modelled by calling SemaDown again from the same program point.          *)
(***************************************************************************)
EXTENDS Sched

CONSTANT NULL     \* the NULL holder

Sema(v) == [value |-> v, waiters |-> <<>>]

\* lock_init
LockInit == [holder |-> NULL, repeat |-> 0, sem |-> Sema(1)]

\* Mutation of SemaDown: the value is not decremented on success.
SemaDownNoDec(sem, S) ==
    IF sem.value = 0
    THEN [sem |-> [sem EXCEPT !.waiters = Append(@, S.running)],
          S   |-> Block(S, "Blocked"), got |-> FALSE]
    ELSE [sem |-> sem, S |-> S, got |-> TRUE]

(***************************************************************************)
(* sema_down: while the value is 0 the caller appends itself to the        *)
(* waiters and blocks; otherwise it decrements the value.  "got" tells     *)
(* whether the caller got past the loop.                                   *)
(***************************************************************************)
SemaDown(sem, S) ==
    IF sem.value = 0
    THEN [sem |-> [sem EXCEPT !.waiters = Append(@, S.running)],
          S   |-> Block(S, "Blocked"),
          got |-> FALSE]
    ELSE [sem |-> [sem EXCEPT !.value = @ - 1],
          S   |-> S,
          got |-> TRUE]

\* Mutation of SemaUp: a waiter is woken but the value is not incremented.
SemaUpNoInc(sem, S) ==
    IF sem.waiters # <<>>
    THEN [sem |-> [sem EXCEPT !.waiters = Tail(@)],
          S   |-> Unblock(S, Head(sem.waiters))]
    ELSE [sem |-> [sem EXCEPT !.value = @ + 1], S |-> S]

(***************************************************************************)
(* sema_up: the first waiter, if any, is popped and unblocked; then the    *)
(* value is incremented.  The woken task does not take the value: it runs  *)
(* the sema_down loop again when it is scheduled.                          *)
(***************************************************************************)
SemaUp(sem, S) ==
    IF sem.waiters # <<>>
    THEN [sem |-> [value |-> sem.value + 1, waiters |-> Tail(sem.waiters)],
          S   |-> Unblock(S, Head(sem.waiters))]
    ELSE [sem |-> [sem EXCEPT !.value = @ + 1], S |-> S]

(***************************************************************************)
(* lock_acquire by a task that does not hold the lock: sema_down, and on   *)
(* success the caller becomes the holder with a repeat count of 1.  (The   *)
(* re-entrant branch, holder = running_thread(), only increments repeat;   *)
(* no caller modelled here nests the lock.)                                *)
(***************************************************************************)
LockAcquire(lk, S) ==
    LET d == SemaDown(lk.sem, S)
    IN  IF d.got
        THEN [lk  |-> [holder |-> S.running, repeat |-> 1, sem |-> d.sem],
              S   |-> d.S, got |-> TRUE]
        ELSE [lk  |-> [lk EXCEPT !.sem = d.sem], S |-> d.S, got |-> FALSE]

\* Mutation of LockRelease: the holder is not cleared.
LockReleaseKeepHolder(lk, S) ==
    IF lk.repeat > 1
    THEN [lk |-> [lk EXCEPT !.repeat = @ - 1], S |-> S]
    ELSE LET u == SemaUp(lk.sem, S)
         IN  [lk |-> [lk EXCEPT !.repeat = 0, !.sem = u.sem], S |-> u.S]

(***************************************************************************)
(* lock_release: a nested holder only decrements its repeat count;         *)
(* otherwise the holder is cleared before the sema_up.                     *)
(***************************************************************************)
LockRelease(lk, S) ==
    IF lk.repeat > 1
    THEN [lk |-> [lk EXCEPT !.repeat = @ - 1], S |-> S]
    ELSE LET u == SemaUp(lk.sem, S)
         IN  [lk |-> [holder |-> NULL, repeat |-> 0, sem |-> u.sem], S |-> u.S]
=============================================================================
