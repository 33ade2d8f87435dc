------------------------------ MODULE MCSystem ------------------------------
(* The closed system with the code's pids.                                 *)
EXTENDS EgosSystem

MCGarbage ==
    {[type |-> "SYS_UNUSED", retval |-> 0,
      msg |-> [sender |-> 0, receiver |-> 0, content |-> Pack(0, "text")]]}
=============================================================================
