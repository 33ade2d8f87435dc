----------------------------- MODULE Rendezvous -----------------------------
(***************************************************************************)
(* What sys_send and sys_recv promise to processes: synchronous messages   *)
(* between processes named by pid, without process table, address spaces   *)
(* or scheduling.  A process that sends is released when the process it    *)
(* names takes the message; a process that receives is released by a       *)
(* message addressed to it.  Grass implements this specification.          *)
(***************************************************************************)
CONSTANTS Proc, Content, Message, NoMessage,
          Released(_)   \* processes a kill may release from a blocked call

VARIABLES
    state,    \* "none", "idle", "sending" or "receiving", for each process
    target,   \* whom a sending process sends to, itself otherwise
    box       \* message buffer of each process, NoMessage if there is none

rVars == <<state, target, box>>

RInit ==
    /\ \E p \in Proc, m \in Message :
          /\ state = [q \in Proc |-> IF q = p THEN "idle" ELSE "none"]
          /\ box = [q \in Proc |-> IF q = p THEN m ELSE NoMessage]
    /\ target = [q \in Proc |-> q]

(* a process comes into being with any buffer *)
Start(p) ==
    /\ state[p] = "none"
    /\ state' = [state EXCEPT ![p] = "idle"]
    /\ \E m \in Message : box' = [box EXCEPT ![p] = m]
    /\ UNCHANGED target

(* processes end; one that may be released is woken without a message *)
End(S) ==
    /\ \E R \in SUBSET {p \in Proc \ S : Released(p) /\ state[p] # "none"} :
       /\ state' = [p \in Proc |-> IF p \in S THEN "none"
                                   ELSE IF p \in R THEN "idle" ELSE state[p]]
       /\ target' = [p \in Proc |-> IF p \in S \union R THEN p ELSE target[p]]
    /\ box' = [p \in Proc |-> IF p \in S THEN NoMessage ELSE box[p]]

(* the message by which p sends c to q *)
MessageTo(p, q, c) == [sender |-> p, receiver |-> q, content |-> c]

SendBlocks(p, q, m) ==
    /\ state[p] = "idle" /\ state[q] # "receiving"
    /\ state' = [state EXCEPT ![p] = "sending"]
    /\ target' = [target EXCEPT ![p] = q]
    /\ box' = [box EXCEPT ![p] = m]

SendDelivers(p, q, m) ==
    /\ state[p] = "idle" /\ state[q] = "receiving"
    /\ state' = [state EXCEPT ![q] = "idle"]
    /\ box' = [box EXCEPT ![p] = m, ![q] = m]
    /\ UNCHANGED target

SendFails(p, q, m) ==
    /\ state[p] = "idle" /\ state[q] = "none"
    /\ box' = [box EXCEPT ![p] = m]
    /\ UNCHANGED <<state, target>>

RecvBlocks(p) ==
    /\ state[p] = "idle"
    /\ \A q \in Proc : ~(state[q] = "sending" /\ target[q] = p)
    /\ state' = [state EXCEPT ![p] = "receiving"]
    /\ UNCHANGED <<target, box>>

RecvTakes(p, q) ==
    /\ state[p] = "idle" /\ state[q] = "sending" /\ target[q] = p
    /\ state' = [state EXCEPT ![q] = "idle"]
    /\ target' = [target EXCEPT ![q] = q]
    /\ box' = [box EXCEPT ![p] = box[q]]

RNext ==
    \/ \E p \in Proc : Start(p) \/ RecvBlocks(p)
    \/ \E S \in SUBSET {p \in Proc : state[p] # "none"} : End(S)
    \/ \E p, q \in Proc : RecvTakes(p, q)
    \/ \E p, q \in Proc, c \in Content :
          LET m == MessageTo(p, q, c)
          IN  SendBlocks(p, q, m) \/ SendDelivers(p, q, m) \/ SendFails(p, q, m)

RSpec == RInit /\ [][RNext]_rVars
=============================================================================
