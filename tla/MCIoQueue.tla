------------------------------ MODULE MCIoQueue ------------------------------
(* Model-checking instance of IoQueue: two writers and a reader share one *)
(* pipe, beside the idle thread.                                           *)
EXTENDS IoQueue

CONSTANTS w1, w2, r1, idle

MCWriters == {w1, w2}
MCReaders == {r1}
MCTasks == {w1, w2, r1, idle}
MCBoot == <<w1, w2, r1, idle>>
=============================================================================
