-------------------------------- MODULE MCIde --------------------------------
(* Model-checking instance of Ide: two user processes and one kernel      *)
(* thread share the channel, beside the idle thread.                       *)
EXTENDS Ide

CONSTANTS p1, p2, k1, idle

MCProcs == {p1, p2}
MCKThreads == {k1}
MCTasks == {p1, p2, k1, idle}

\* main (a kernel thread) runs first, as after thread_init; the user
\* processes are ready, the idle thread was created by thread_init.
MCBoot == <<k1, p1, p2, idle>>
=============================================================================
