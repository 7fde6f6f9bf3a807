------------------------------ MODULE ProcTree ------------------------------
(***************************************************************************)
(* What the process calls of SparrowOS promise about the process tree      *)
(* (spec section 4.K): fork gives the running process a child under a      *)
(* pid nobody holds; exit turns a process into a zombie and hands its      *)
(* children, zombies included, to init; wait lets the running process      *)
(* reap one of its own zombies, whose pid is then free.                    *)
(*                                                                         *)
(* A process acts only while it is on the CPU (caller): fork and wait      *)
(* return to it, exit hands the CPU to another process.  There are no PCB  *)
(* pages, lists, bitmaps or ready queue here: a process is its pid.  Proc  *)
(* implements this specification under the mapping at the end of Proc.     *)
(***************************************************************************)
EXTENDS Integers

CONSTANTS
    Pids,       \* the pids fork may hand out
    InitPid     \* init's pid; init never exits

VARIABLES
    st,         \* st[n]: "none", "run" or "zombie"
    parent,     \* parent[n]: the parent's pid; -1 for init, 0 for no process
    caller      \* the pid on the CPU; 0 while the idle thread runs

vars == <<st, parent, caller>>

\* Who may be given the CPU: a process that has not exited, or idle.
Runnable(s) == {n \in Pids : s[n] = "run"} \cup {0}

Init ==
    /\ st = [n \in Pids |-> IF n = InitPid THEN "run" ELSE "none"]
    /\ parent = [n \in Pids |-> IF n = InitPid THEN -1 ELSE 0]
    /\ caller = InitPid

\* A running process p gets a child c under a free pid.
Spawn(p, c) ==
    /\ caller = p /\ st[c] = "none"
    /\ st' = [st EXCEPT ![c] = "run"]
    /\ parent' = [parent EXCEPT ![c] = p]
    /\ UNCHANGED caller

\* A running process other than init exits; its children go to init.
Die(p) ==
    /\ caller = p /\ p # InitPid
    /\ st' = [st EXCEPT ![p] = "zombie"]
    /\ parent' = [n \in Pids |-> IF st[n] # "none" /\ parent[n] = p
                                 THEN InitPid ELSE parent[n]]
    /\ caller' \in Runnable(st')

\* A running process reaps a zombie child.
Reap(p, c) ==
    /\ caller = p /\ st[c] = "zombie" /\ parent[c] = p
    /\ st' = [st EXCEPT ![c] = "none"]
    /\ parent' = [parent EXCEPT ![c] = 0]
    /\ UNCHANGED caller

\* The CPU passes to another process (a block, a yield, a tick) or idle.
Switch ==
    /\ caller' \in Runnable(st)
    /\ UNCHANGED <<st, parent>>

Next ==
    \/ Switch
    \/ \E p \in Pids : Die(p) \/ \E c \in Pids : Spawn(p, c) \/ Reap(p, c)

Spec == Init /\ [][Next]_vars

=============================================================================
