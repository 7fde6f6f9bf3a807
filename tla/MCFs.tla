-------------------------------- MODULE MCFs --------------------------------
(***************************************************************************)
(* Instances of Fs.  `AnyCall' lets a task pick any call on any of four  *)
(* names at each of its turns; `Boot' is main creating /prog_no_arg        *)
(* (main.c) while the shell makes a directory of the same name.           *)
(***************************************************************************)
EXTENDS Fs

CONSTANTS main, sh

Names == {"a", "b", "c", "d"}

\* The file calls the shell's built-ins and its commands make.
AnyCall == {[op |-> o, name |-> n] : o \in {"create", "open", "mkdir", "rm",
                                             "rmdir"},
                                      n \in Names}
           \cup {[op |-> "close", name |-> ""]}

\* The built-in ls: opendir of a name, then closedir of what it returned.
LsOpen == {[op |-> "opendir", name |-> n] : n \in Names}
LsClose == {[op |-> "closedir", name |-> ""]}

\* The shell making file calls around one ls.
SoloProcs == {sh}
SoloScript == [t \in SoloProcs |->
                 <<AnyCall, AnyCall, AnyCall, LsOpen, LsClose, AnyCall, AnyCall, AnyCall>>]

\* main's sys_open("/prog_no_arg", O_CREAT|O_RDWR) against the shell's
\* mkdir of the same path.
BootProcs == {main, sh}
BootScript == (main :> <<{[op |-> "create", name |-> "a"]}>>)
              @@ (sh :> <<{[op |-> "mkdir", name |-> "a"]}>>)

=============================================================================
