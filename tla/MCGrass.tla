------------------------------ MODULE MCGrass ------------------------------
(* The kernel alone, under every sequence of calls.  The shell is pid 2    *)
(* and pid 3 the first user application, so that three slots are enough    *)
(* for a server, the shell and an application whose slot is used again.    *)
EXTENDS Grass

MCGarbage ==
    {[type |-> "SYS_UNUSED", retval |-> 0,
      msg |-> [sender |-> 0, receiver |-> 0, content |-> CHOOSE c \in Content : TRUE]]}
=============================================================================
