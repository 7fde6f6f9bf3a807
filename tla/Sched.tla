------------------------------- MODULE Sched -------------------------------
(***************************************************************************)
(* The uniprocessor scheduler of src/thread/thread.c.                      *)
(*                                                                         *)
(* Every task has a status (enum task_status), the ready list is a         *)
(* sequence of tasks (thread_ready_list, FIFO with pushes at the head for  *)
(* freshly woken tasks), one task is running, and each task has a          *)
(* remaining time slice (ticks).                                           *)
(*                                                                         *)
(* The operators below are pure functions from a scheduler state S (a      *)
(* record with the four fields) to the next one, so that a component can   *)
(* compose several scheduler calls made by one handler (for instance a     *)
(* sema_up that unblocks a task followed by a thread_block) into a single  *)
(* action.  SetSched(S) assigns the primed variables.                      *)
(***************************************************************************)
EXTENDS Naturals, Sequences

CONSTANTS
    Tasks,      \* every PCB the model knows, the idle thread included
    Idle,       \* the idle thread (idle_thread)
    Prio        \* priority, i.e. the time slice every task is refilled with

ASSUME Idle \in Tasks /\ Prio \in Nat \ {0}

VARIABLES status, ready, running, ticks

schedVars == <<status, ready, running, ticks>>

Status == {"Running", "Ready", "Blocked", "Waiting", "Hanging", "Died"}


Now == [status |-> status, ready |-> ready, running |-> running, ticks |-> ticks]

SetSched(S) ==
    /\ status' = S.status
    /\ ready' = S.ready
    /\ running' = S.running
    /\ ticks' = S.ticks

(***************************************************************************)
(* thread_unblock: a task that is not Ready is pushed at the HEAD of the   *)
(* ready list (so that it runs soon) and becomes Ready.                    *)
(***************************************************************************)
Unblock(S, t) ==
    IF S.status[t] # "Ready"
    THEN [S EXCEPT !.ready = <<t>> \o @, !.status[t] = "Ready"]
    ELSE S

\* Mutation of Schedule: the outgoing task is re-queued whatever its status.
ScheduleRequeueAll(S) ==
    LET cur == S.running
        S1  == [S EXCEPT !.ready = Append(@, cur), !.ticks[cur] = Prio,
                         !.status[cur] = "Ready"]
        S2  == IF S1.ready = <<>> THEN Unblock(S1, Idle) ELSE S1
        nxt == Head(S2.ready)
    IN  [S2 EXCEPT !.ready = Tail(@), !.status[nxt] = "Running", !.running = nxt]

(***************************************************************************)
(* schedule: a task still Running (its slice ran out, or it yielded        *)
(* without changing its status) goes to the TAIL of the ready list with    *)
(* its slice refilled; a task that changed its status is not enqueued.     *)
(* When the list is empty the idle thread is unblocked.  The head of the   *)
(* list becomes the running task.                                          *)
(***************************************************************************)
Schedule(S) ==
    LET cur == S.running
        S1  == IF S.status[cur] = "Running"
               THEN [S EXCEPT !.ready = Append(@, cur),
                              !.ticks[cur] = Prio,
                              !.status[cur] = "Ready"]
               ELSE S
        S2  == IF S1.ready = <<>> THEN Unblock(S1, Idle) ELSE S1
        nxt == Head(S2.ready)
    IN  [S2 EXCEPT !.ready = Tail(@),
                   !.status[nxt] = "Running",
                   !.running = nxt]

\* thread_block(stat): the running task takes state stat and is switched out.
Block(S, stat) == Schedule([S EXCEPT !.status[S.running] = stat])

\* thread_yield: the running task is appended to the ready list as Ready
\* (its slice is not refilled) and the scheduler runs.
Yield(S) ==
    Schedule([S EXCEPT !.ready = Append(@, S.running),
                       !.status[S.running] = "Ready"])

(***************************************************************************)
(* The timer interrupt (intr_timer_handler of device/timer.c, which is not *)
(* in this repository): a running task whose slice is used up is           *)
(* scheduled out, otherwise its slice shrinks by one tick.                 *)
(***************************************************************************)
TimerTick(S) ==
    IF S.ticks[S.running] = 0
    THEN Schedule(S)
    ELSE [S EXCEPT !.ticks[S.running] = @ - 1]

\* The boot order: the first task runs, the others wait in the ready list.
SchedInit(boot) ==
    /\ running = Head(boot)
    /\ ready = Tail(boot)
    /\ status = [t \in Tasks |-> IF t = Head(boot) THEN "Running" ELSE "Ready"]
    /\ ticks = [t \in Tasks |-> Prio]

SchedTypeOK ==
    /\ status \in [Tasks -> Status]
    /\ ready \in Seq(Tasks)
    /\ running \in Tasks
    /\ ticks \in [Tasks -> 0..Prio]
=============================================================================
