------------------------------- MODULE MCMmu -------------------------------
(***************************************************************************)
(* The layout of the D1: two device regions below one first-level table,   *)
(* the memory below one leaf table of another.  Of the six pages of an     *)
(* application two are kept, one that load_app fills and the last one.     *)
(***************************************************************************)
EXTENDS Mmu

MCUART0      == [first |-> <<0, 0, 1>>, npages |-> 1]
MCSMHC0      == [first |-> <<0, 1, 0>>, npages |-> 2]
MCKernel     == [first |-> <<1, 0, 0>>, npages |-> 1]
MCFrameCache == [first |-> <<1, 0, 3>>, npages |-> 1]
MCMemory     == [first |-> <<1, 0, 0>>, npages |-> 4]
MCAppPages   == <<<<1, 0, 1>>, <<1, 0, 2>>>>
=============================================================================
