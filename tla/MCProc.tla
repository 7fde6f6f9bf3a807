-------------------------------- MODULE MCProc --------------------------------
(* Model-checking instance of Proc: init, the shell and two commands in   *)
(* four PCB slots, beside the idle thread.                                 *)
EXTENDS Proc

CONSTANTS init, sh, a, b, idle

MCSlots == {init, sh, a, b}
MCTasks == {init, sh, a, b, idle}
=============================================================================
