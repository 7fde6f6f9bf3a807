------------------------------ MODULE IdeChannel ------------------------------
(***************************************************************************)
(* What an ATA channel promises the tasks that call ide_read and ide_write *)
(* (spec section 4.F): a transfer of Chunks chunks is served under         *)
(* exclusive ownership of the channel, each chunk ends only after the      *)
(* drive has served it, and every call returns.                            *)
(*                                                                         *)
(* There is no lock, no semaphore, no interrupt and no scheduler here:     *)
(* ownership is granted in one step, the drive serves the owner's current  *)
(* chunk in one step, and the owner takes the chunk in one step, releasing *)
(* the channel and returning with its last chunk.  Ide implements this    *)
(* specification under the mapping at the end of Ide.                     *)
(***************************************************************************)
EXTENDS Naturals

CONSTANTS
    Workers,    \* the tasks that call the driver
    NULL,       \* no owner
    MaxOps,     \* calls per task
    Chunks      \* chunks per call

VARIABLES
    owner,      \* the task the channel is granted to, or NULL
    inCall,     \* inCall[t]: t is inside ide_read / ide_write
    left,       \* chunks t still has to transfer in its call
    ops,        \* calls t has made
    served      \* the drive has served the owner's current chunk

vars == <<owner, inCall, left, ops, served>>

Init ==
    /\ owner = NULL
    /\ inCall = [t \in Workers |-> FALSE]
    /\ left = [t \in Workers |-> 0]
    /\ ops = [t \in Workers |-> 0]
    /\ served = FALSE

\* t calls the driver.
Call(t) ==
    /\ ~inCall[t] /\ ops[t] < MaxOps
    /\ inCall' = [inCall EXCEPT ![t] = TRUE]
    /\ left' = [left EXCEPT ![t] = Chunks]
    /\ ops' = [ops EXCEPT ![t] = @ + 1]
    /\ UNCHANGED <<owner, served>>

\* A free channel is granted to a caller that has not started.
Grant(t) ==
    /\ owner = NULL /\ inCall[t] /\ left[t] = Chunks
    /\ owner' = t
    /\ UNCHANGED <<inCall, left, ops, served>>

\* The drive completes the owner's current chunk.
Serve ==
    /\ owner # NULL /\ ~served
    /\ served' = TRUE
    /\ UNCHANGED <<owner, inCall, left, ops>>

\* The owner takes its served chunk; after the last one it releases the
\* channel and returns.
Transfer(t) ==
    /\ owner = t /\ served
    /\ served' = FALSE
    /\ left' = [left EXCEPT ![t] = @ - 1]
    /\ IF left[t] = 1
       THEN /\ owner' = NULL
            /\ inCall' = [inCall EXCEPT ![t] = FALSE]
       ELSE UNCHANGED <<owner, inCall>>
    /\ UNCHANGED ops

Next == Serve \/ \E t \in Workers : Call(t) \/ Grant(t) \/ Transfer(t)

\* The drive always answers, an owner always takes its chunk, and a caller
\* waiting for a channel that keeps becoming free is eventually granted it.
Spec ==
    /\ Init /\ [][Next]_vars
    /\ WF_vars(Serve)
    /\ \A t \in Workers : WF_vars(Transfer(t)) /\ SF_vars(Grant(t))

=============================================================================
