--------------------------- MODULE AddressSpaces ---------------------------
(***************************************************************************)
(* What the MMU promises: every process has a memory of its own.  A page   *)
(* changes only by loading and by stores, never by what becomes of other   *)
(* processes.  Where the spaces are protected the store is one of the      *)
(* owner, while its space is the current one; where they are not it can be *)
(* one of any process.  A process ends with all of its pages.              *)
(***************************************************************************)
CONSTANTS Proc, Page, Value, Unmapped, NoProc

VARIABLES
    space,    \* contents of each page of each process, or Unmapped
    current,  \* the process whose space is switched to
    protected \* whether a process can store only to its own space

asVars == <<space, current, protected>>

ASInit ==
    /\ space = [p \in Proc |-> [g \in Page |-> Unmapped]]
    /\ current = NoProc
    /\ protected \in BOOLEAN

Map(p, g) ==
    /\ UNCHANGED current
    /\ space[p][g] = Unmapped
    /\ \E v \in Value : space' = [space EXCEPT ![p][g] = v]

StoreTo(g, v) ==
    /\ UNCHANGED current
    /\ current \in Proc /\ space[current][g] # Unmapped
    /\ space' = [space EXCEPT ![current][g] = v]

(* a process stores to a page of another one *)
StoreAcross(p, g, v) ==
    /\ ~protected /\ UNCHANGED current
    /\ current \in Proc /\ space[p][g] # Unmapped
    /\ space' = [space EXCEPT ![p][g] = v]

SwitchTo(p) == current' = p /\ UNCHANGED space

(* p ends and q is switched to; p and q may be one and the same, when a    *)
(* process that is not the current one ends                                *)
Remove(p, q) ==
    /\ current' = q
    /\ space' = [space EXCEPT ![p] = [g \in Page |-> Unmapped]]

Change ==
    \/ \E p \in Proc : SwitchTo(p) \/ \E g \in Page : Map(p, g)
    \/ \E g \in Page, v \in Value : StoreTo(g, v) \/ \E p \in Proc : StoreAcross(p, g, v)
    \/ \E p, q \in Proc : Remove(p, q)

ASNext == Change /\ UNCHANGED protected

ASSpec == ASInit /\ [][ASNext]_asVars
=============================================================================
