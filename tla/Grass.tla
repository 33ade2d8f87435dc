------------------------------- MODULE Grass -------------------------------
(***************************************************************************)
(* The grass kernel: the process table (grass/process.c), the round-robin  *)
(* scheduler and the two system calls, send and receive (grass/kernel.c,   *)
(* grass/syscall.c).                                                       *)
(*                                                                         *)
(* The machine has one hart and a trap runs with interrupts disabled, so   *)
(* everything between a trap and the return from it is one step.  Which    *)
(* call the current process makes next is left open here: any process may  *)
(* send, receive, be interrupted or fault at any time.  EgosSystem closes  *)
(* the model with the programs of the servers, the shell and the apps.     *)
(***************************************************************************)
EXTENDS Integers

CONSTANTS
    MAX_NPROCESS,     \* slots of the process table (16 in the code)
    GPID_SHELL,       \* pid of the shell (4 in the code)
    GPID_USER_START,  \* first pid of a user application (5 in the code)
    MaxPid,           \* bound on proc_nprocs; the counter is unbounded in C
    Addressees,       \* pids the processes send to
    Content,          \* what the content of a message is told apart by
    Garbage           \* what a fresh, never cleared syscall area may hold

GPID_PROCESS == 1

Slots == 0..(MAX_NPROCESS - 1)
Pids  == 0..MaxPid

(* struct process: pid, status and receiver_pid, one function per field.   *)
(* proc_set[i].sp and .mepc hold the context of the process in slot i,     *)
(* which is the process's own control state (pc in EgosSystem).            *)
Status == {"UNUSED", "LOADING", "READY", "RUNNING", "RUNNABLE",
           "WAIT_TO_SEND", "WAIT_TO_RECV"}

SyscallType == {"SYS_UNUSED", "SYS_RECV", "SYS_SEND", "SYS_OTHER"}

Msg == [sender : Pids, receiver : Pids, content : Content]

(* struct syscall, at SYSCALL_ARG in the address space of each process.    *)
Syscall == [type : SyscallType, msg : Msg, retval : {0, -1}]

(* Where FATAL may stop the machine.                                       *)
ServerFatal == {"dir_lookup", "file_read", "sys_proc", "sys_dir", "sys_file"}
FatalSite   == ServerFatal \union
               {"proc_yield", "proc_alloc", "proc_syscall", "excp_entry"}

ASSUME GrassAssumption ==
    /\ MAX_NPROCESS \in Nat \ {0}
    /\ MaxPid \in Nat /\ GPID_SHELL \in Nat /\ GPID_USER_START \in Nat
    /\ GPID_PROCESS < GPID_SHELL /\ GPID_SHELL < GPID_USER_START
    /\ GPID_USER_START <= MaxPid
    /\ Addressees \subseteq Pids
    /\ Garbage \subseteq Syscall /\ Garbage # {}

VARIABLES
    pid,            \* proc_set[i].pid; a freed slot keeps its last pid
    status,         \* proc_set[i].status
    receiver_pid,   \* proc_set[i].receiver_pid
    proc_curr_idx,  \* slot of the process the hart runs
    proc_nprocs,    \* pids given out so far
    vm,             \* pid whose address space is mapped (mmu_switch)
    sc,             \* the struct syscall in each process's address space
    mapped,         \* pids that own memory (elf_load, mmu_free)
    fatal           \* where FATAL stopped the machine, or "none"

grassVars == <<pid, status, receiver_pid, proc_curr_idx, proc_nprocs,
               vm, sc, mapped, fatal>>

curr_pid    == pid[proc_curr_idx]
curr_status == status[proc_curr_idx]

TypeOK ==
    /\ pid \in [Slots -> Pids]
    /\ status \in [Slots -> Status]
    /\ receiver_pid \in [Slots -> Pids]
    /\ proc_curr_idx \in Slots
    /\ proc_nprocs \in Pids
    /\ vm \in Pids
    /\ sc \in [Pids -> Syscall]
    /\ mapped \subseteq Pids
    /\ fatal \in FatalSite \union {"none"}

(* grass.c main: sys_proc is loaded, allocated slot 0 and pid 1, set       *)
(* running and jumped to.  Every other slot is zero-initialised memory.    *)
Init ==
    /\ pid = [i \in Slots |-> IF i = 0 THEN GPID_PROCESS ELSE 0]
    /\ status = [i \in Slots |-> IF i = 0 THEN "RUNNING" ELSE "UNUSED"]
    /\ receiver_pid = [i \in Slots |-> 0]
    /\ proc_curr_idx = 0
    /\ proc_nprocs = 1
    /\ vm = GPID_PROCESS
    /\ \E g \in Garbage : sc = [p \in Pids |-> g]
    /\ mapped = {GPID_PROCESS}
    /\ fatal = "none"

-----------------------------------------------------------------------------
(* grass/process.c                                                         *)

(* proc_set_status, on a given status column *)
proc_set_status(st, p, s) ==
    [i \in Slots |-> IF pid[i] = p THEN s ELSE st[i]]

Fatal(site) == fatal' = site

(* ++proc_nprocs *)
NextPid_same  == proc_nprocs
NextPid_twice == proc_nprocs + 2
NextPid == proc_nprocs + 1

proc_alloc ==
    \/ /\ \A i \in Slots : status[i] # "UNUSED"
       /\ Fatal("proc_alloc")
       /\ UNCHANGED <<pid, status, receiver_pid, proc_curr_idx, proc_nprocs,
                      vm, sc, mapped>>
    \/ \E i \in Slots :
       /\ status[i] = "UNUSED"
       /\ \A j \in 0..(i - 1) : status[j] # "UNUSED"
       /\ proc_nprocs < MaxPid
       /\ proc_nprocs' = NextPid
       /\ pid' = [pid EXCEPT ![i] = NextPid]
       /\ status' = [status EXCEPT ![i] = "LOADING"]
       /\ UNCHANGED <<receiver_pid, proc_curr_idx, vm, sc, mapped, fatal>>

(* proc_free(p) for one process; mmu_free gives back all its memory *)
proc_free(p) ==
    /\ mapped' = mapped \ {p}
    /\ status' = proc_set_status(status, p, "UNUSED")
    /\ UNCHANGED <<pid, receiver_pid, proc_curr_idx, proc_nprocs, vm, sc, fatal>>

(* proc_free(-1): every user application *)
proc_free_all ==
    LET dead == {i \in Slots : pid[i] >= GPID_USER_START /\ status[i] # "UNUSED"}
    IN /\ mapped' = mapped \ {pid[i] : i \in dead}
       /\ status' = [i \in Slots |-> IF i \in dead THEN "UNUSED" ELSE status[i]]
       /\ UNCHANGED <<pid, receiver_pid, proc_curr_idx, proc_nprocs, vm, sc, fatal>>

proc_set_ready(p) ==
    /\ status' = proc_set_status(status, p, "READY")
    /\ UNCHANGED <<pid, receiver_pid, proc_curr_idx, proc_nprocs, vm, sc,
                   mapped, fatal>>

(* elf_load maps code, argument and stack pages.  The page that holds the  *)
(* syscall area is not cleared.                                            *)
elf_load(p) ==
    /\ mapped' = mapped \union {p}
    /\ \E g \in Garbage : sc' = [sc EXCEPT ![p] = g]
    /\ UNCHANGED <<pid, status, receiver_pid, proc_curr_idx, proc_nprocs, vm, fatal>>

-----------------------------------------------------------------------------
(* grass/kernel.c: the scheduler                                           *)

Schedulable == {"READY", "RUNNING", "RUNNABLE"}

(* the slot looked at in round i of the search *)
SlotAfter_stay(i) == (proc_curr_idx + i - 1) % MAX_NPROCESS
SlotAfter(i) == (proc_curr_idx + i) % MAX_NPROCESS

(* the process that was running can run again *)
Stop_omitted(st) == st
Stop(st) ==
    IF st[proc_curr_idx] = "RUNNING" THEN proc_set_status(st, curr_pid, "RUNNABLE") ELSE st

(* the address space that is mapped when v was, after mmu_switch(p) *)
mmu_switch_omitted(v, p) == v
mmu_switch(v, p) == p

(* proc_yield, from the status column st that the caller left *)
proc_yield(st) ==
    \/ /\ \A i \in 1..MAX_NPROCESS : st[SlotAfter(i)] \notin Schedulable
       /\ Fatal("proc_yield")
       /\ status' = st
       /\ UNCHANGED <<proc_curr_idx, vm>>
    \/ \E i \in 1..MAX_NPROCESS :
       /\ st[SlotAfter(i)] \in Schedulable
       /\ \A j \in 1..(i - 1) : st[SlotAfter(j)] \notin Schedulable
       /\ proc_curr_idx' = SlotAfter(i)
       /\ status' = proc_set_status(Stop(st), pid[SlotAfter(i)], "RUNNING")
       /\ vm' = mmu_switch(vm, pid[SlotAfter(i)])
       /\ UNCHANGED fatal

-----------------------------------------------------------------------------
(* grass/kernel.c: the system calls.  m is the memory at the trap.         *)

(* A message is copied to the kernel stack in one address space, and from  *)
(* there in another; sc is at the same address in both.  proc_yield comes  *)
(* next, finds the process that was just set runnable and switches again,  *)
(* so vm never shows the address space of the second copy.                 *)
CopyMsg_swapped(m, from, to) ==
    [m EXCEPT ![mmu_switch(vm, from)].msg = m[mmu_switch(vm, to)].msg]
CopyMsg_unswitched(m, from, to) ==
    [m EXCEPT ![mmu_switch(vm, to)].msg = m[vm].msg]
CopyMsg(m, from, to) ==
    LET out == mmu_switch(vm, from)
        in  == mmu_switch(out, to)
    IN  [m EXCEPT ![in].msg = m[out].msg]

StampSender(m) == [m EXCEPT ![vm].msg.sender = curr_pid]

Receiving_blocked(i) == status[i] \in {"WAIT_TO_RECV", "WAIT_TO_SEND"}
Receiving(i) == status[i] = "WAIT_TO_RECV"

(* proc_send: a message to a pid no slot has fails; to a process that is   *)
(* not receiving it blocks the sender; otherwise it is copied.             *)
proc_send(m) ==
    LET m1       == StampSender(m)
        receiver == m1[vm].msg.receiver
    IN \/ /\ \A i \in Slots : pid[i] # receiver
          /\ sc' = [m1 EXCEPT ![vm].retval = -1]
          /\ UNCHANGED <<status, receiver_pid, proc_curr_idx, vm, fatal>>
       \/ \E i \in Slots :
          /\ pid[i] = receiver
          /\ \A j \in 0..(i - 1) : pid[j] # receiver
          /\ \/ /\ ~Receiving(i)
                /\ receiver_pid' = [receiver_pid EXCEPT ![proc_curr_idx] = receiver]
                /\ sc' = m1
                /\ proc_yield([status EXCEPT ![proc_curr_idx] = "WAIT_TO_SEND"])
             \/ /\ Receiving(i)
                /\ sc' = CopyMsg(m1, curr_pid, receiver)
                /\ proc_yield(proc_set_status(status, receiver, "RUNNABLE"))
                /\ UNCHANGED receiver_pid

(* a slot whose process is blocked sending to the current process *)
Sending_any(i) == status[i] = "WAIT_TO_SEND"
Sending_from1(i) == i > 0 /\ status[i] = "WAIT_TO_SEND" /\ receiver_pid[i] = curr_pid
Sending(i) == status[i] = "WAIT_TO_SEND" /\ receiver_pid[i] = curr_pid

(* proc_recv: the loop has no break, so the sender in the last slot wins *)
proc_recv(m) ==
    \/ /\ \A i \in Slots : ~Sending(i)
       /\ sc' = m
       /\ proc_yield([status EXCEPT ![proc_curr_idx] = "WAIT_TO_RECV"])
       /\ UNCHANGED receiver_pid
    \/ \E i \in Slots :
       /\ Sending(i)
       /\ \A j \in (i + 1)..(MAX_NPROCESS - 1) : ~Sending(j)
       /\ sc' = CopyMsg(m, pid[i], curr_pid)
       /\ proc_yield(proc_set_status(status, pid[i], "RUNNABLE"))
       /\ UNCHANGED receiver_pid

proc_syscall(m) ==
    LET m1 == [m EXCEPT ![vm].retval = 0, ![vm].type = "SYS_UNUSED"]
    IN \/ m[vm].type = "SYS_RECV" /\ proc_recv(m1)
       \/ m[vm].type = "SYS_SEND" /\ proc_send(m1)
       \/ /\ m[vm].type \notin {"SYS_RECV", "SYS_SEND"}
          /\ sc' = m1
          /\ Fatal("proc_syscall")
          /\ UNCHANGED <<status, receiver_pid, proc_curr_idx, vm>>

-----------------------------------------------------------------------------
(* grass/kernel.c: the trap handlers                                       *)

EXCP_ID_ECALL_U == 8
EXCP_ID_ECALL_S == 9
EXCP_ID_ECALL_M == 11

(* The condition of excp_entry.  Its last disjunct is the constant itself, *)
(* not a comparison with it, so it is true for every id.                   *)
IsSyscall(id) == id = EXCP_ID_ECALL_U \/ id = EXCP_ID_ECALL_S \/ EXCP_ID_ECALL_M # 0

(* kill the current process and make the shell runnable *)
kill_current_leak ==
    /\ proc_yield(proc_set_status(proc_set_status(status, curr_pid, "UNUSED"),
                                  GPID_SHELL, "RUNNABLE"))
    /\ UNCHANGED <<sc, receiver_pid, mapped>>
kill_current ==
    /\ mapped' = mapped \ {curr_pid}
    /\ proc_yield(proc_set_status(proc_set_status(status, curr_pid, "UNUSED"),
                                  GPID_SHELL, "RUNNABLE"))
    /\ UNCHANGED <<sc, receiver_pid>>

excp_entry(id, m) ==
    /\ fatal = "none"
    /\ UNCHANGED <<pid, proc_nprocs>>
    /\ IF IsSyscall(id)
       THEN proc_syscall(m) /\ UNCHANGED mapped
       ELSE IF curr_pid >= GPID_USER_START
            THEN kill_current
            ELSE /\ Fatal("excp_entry")
                 /\ UNCHANGED <<status, receiver_pid, proc_curr_idx, vm, sc, mapped>>

(* sys_send and sys_recv: fill in the syscall area and ecall *)
sys_send(receiver, c) ==
    excp_entry(EXCP_ID_ECALL_S,
               [sc EXCEPT ![vm].type = "SYS_SEND",
                          ![vm].msg.receiver = receiver,
                          ![vm].msg.content = c])

sys_recv == excp_entry(EXCP_ID_ECALL_S, [sc EXCEPT ![vm].type = "SYS_RECV"])

(* An instruction of the current process faults: 7 is a store access fault. *)
EXCP_ID_FAULT == 7
fault == excp_entry(EXCP_ID_FAULT, sc)

(* intr_entry for the timer, ctrl_c being what tty_recv_intr() returns.    *)
(* With a server running it only resets the timer.                         *)
intr_entry(ctrl_c) ==
    /\ fatal = "none"
    /\ curr_pid >= GPID_SHELL
    /\ UNCHANGED <<pid, proc_nprocs>>
    /\ \/ ctrl_c /\ curr_pid >= GPID_USER_START /\ kill_current
       \/ /\ ~(ctrl_c /\ curr_pid >= GPID_USER_START)
          /\ proc_yield(status)
          /\ UNCHANGED <<sc, receiver_pid, mapped>>

-----------------------------------------------------------------------------
(* Any process makes any call.  What only sys_proc calls is called as      *)
(* sys_proc calls it: it loads one process at a time, and frees only user  *)
(* applications.                                                           *)

Loading(p) == \E i \in Slots : pid[i] = p /\ status[i] = "LOADING"

AsSysProc == fatal = "none" /\ curr_pid = GPID_PROCESS

ProcAlloc    == AsSysProc /\ (\A p \in Pids : ~Loading(p)) /\ proc_alloc
ElfLoad(p)   == AsSysProc /\ Loading(p) /\ p \notin mapped /\ elf_load(p)
ProcReady(p) == AsSysProc /\ Loading(p) /\ p \in mapped /\ proc_set_ready(p)
ProcFree(p)  == AsSysProc /\ p \in GPID_USER_START..proc_nprocs /\ proc_free(p)
ProcFreeAll  == AsSysProc /\ proc_free_all

(* a server that finds a message it does not expect calls FATAL *)
Panic(site) ==
    /\ fatal = "none" /\ curr_pid < GPID_SHELL
    /\ Fatal(site)
    /\ UNCHANGED <<pid, status, receiver_pid, proc_curr_idx, proc_nprocs,
                   vm, sc, mapped>>

(* tty_fatal prints and loops forever *)
Halted == fatal # "none" /\ UNCHANGED grassVars

Next ==
    \/ \E r \in Addressees, c \in Content : sys_send(r, c)
    \/ sys_recv
    \/ fault
    \/ \E b \in BOOLEAN : intr_entry(b)
    \/ ProcAlloc
    \/ \E p \in Pids : ElfLoad(p) \/ ProcReady(p) \/ ProcFree(p)
    \/ ProcFreeAll
    \/ \E s \in ServerFatal : Panic(s)
    \/ Halted

Spec == Init /\ [][Next]_grassVars

-----------------------------------------------------------------------------
(* The kernel implements Rendezvous: a process exists there from the time  *)
(* it is ready to run until its slot is freed.                             *)

AbstractState(s) ==
    CASE s \in Schedulable       -> "idle"
      [] s = "WAIT_TO_SEND"      -> "sending"
      [] s = "WAIT_TO_RECV"      -> "receiving"
      [] s \in {"UNUSED", "LOADING"} -> "none"

(* the slot of a process that exists *)
SlotOf(p) == {i \in Slots : pid[i] = p /\ status[i] \notin {"UNUSED", "LOADING"}}

absState ==
    [p \in Pids |-> IF SlotOf(p) = {} THEN "none"
                    ELSE AbstractState(status[CHOOSE i \in SlotOf(p) : TRUE])]
absTarget ==
    [p \in Pids |-> IF absState[p] = "sending"
                    THEN receiver_pid[CHOOSE i \in SlotOf(p) : TRUE] ELSE p]
NullMsg == [sender |-> 0, receiver |-> 0, content |-> "none"]
absBox  == [p \in Pids |-> IF absState[p] = "none" THEN NullMsg ELSE sc[p].msg]

AbsReleased(p) == p = GPID_SHELL

IPC == INSTANCE Rendezvous WITH
           Proc <- Pids, Message <- Msg, NoMessage <- NullMsg,
           Released <- AbsReleased,
           state <- absState, target <- absTarget, box <- absBox

-----------------------------------------------------------------------------
(* Properties                                                              *)

(* sys_send and sys_recv are synchronous message passing (Rendezvous).     *)
ImplementsRendezvous == IPC!RSpec

(* Each pid ever given out names at most one slot, so the pid a message is *)
(* addressed to means one process: proc_alloc never reuses a pid and never *)
(* hands out a slot in use.  proc_send and proc_set_status search by pid.  *)
PidsUnique ==
    \A i, j \in Slots : pid[i] = pid[j] /\ pid[i] # 0 => i = j

(* The hart runs exactly the process the table calls running: every path   *)
(* through a trap handler leaves one RUNNING slot, the current one.        *)
RunningIsCurrent ==
    fatal = "none" => \A i \in Slots : status[i] = "RUNNING" <=> i = proc_curr_idx

(* A process only ever runs in its own address space, although send and    *)
(* receive switch to the partner's to copy the message.                    *)
AddressSpaceIsCurrent == fatal = "none" => vm = curr_pid

(* No rendezvous is missed: a process never sits blocked sending to a      *)
(* process that sits blocked receiving (proc_send and proc_recv each look  *)
(* for the partner before they block).                                     *)
NoMissedRendezvous ==
    \A i, j \in Slots :
        ~(/\ status[i] = "WAIT_TO_SEND"
          /\ status[j] = "WAIT_TO_RECV"
          /\ receiver_pid[i] = pid[j])

(* The scheduler and the IPC copies only touch processes that have memory, *)
(* and memory belongs to a process that still exists: proc_free pairs      *)
(* mmu_free with giving up the slot.                                       *)
MemoryOwned ==
    /\ \A i \in Slots : status[i] \notin {"UNUSED", "LOADING"} => pid[i] \in mapped
    /\ \A p \in mapped : \E i \in Slots : pid[i] = p /\ status[i] # "UNUSED"

(* The inductive invariant behind the kernel's safety properties.  Besides *)
(* them it says what the searches by pid rely on: a pid belongs to a slot  *)
(* only after it was given out, a slot that never had a process is unused, *)
(* servers and shell are never freed, and only the newest pid is loading.  *)
KernelInv ==
    /\ TypeOK
    /\ PidsUnique
    /\ \A i \in Slots :
          /\ pid[i] <= proc_nprocs
          /\ pid[i] = 0 => status[i] = "UNUSED"
          /\ pid[i] \in 1..(GPID_USER_START - 1) => status[i] # "UNUSED"
          /\ status[i] = "LOADING" => pid[i] = proc_nprocs
    /\ RunningIsCurrent
    /\ AddressSpaceIsCurrent
    /\ NoMissedRendezvous
    /\ MemoryOwned

(* The syscall area of a process that has started is written by another    *)
(* process only to deliver it a message that was addressed to it, while it *)
(* waits to receive, and that makes it schedulable (proc_send).            *)
DeliveryAddressed ==
    [][\A i \in Slots :
          /\ i # proc_curr_idx
          /\ status[i] \notin {"UNUSED", "LOADING"}
          /\ sc'[pid[i]] # sc[pid[i]]
          => /\ status[i] = "WAIT_TO_RECV" /\ status'[i] \in Schedulable
             /\ sc'[pid[i]].msg = sc'[curr_pid].msg
             /\ sc'[pid[i]].msg.sender = curr_pid
             /\ sc'[pid[i]].msg.receiver = pid[i]]_grassVars

(* A blocked sender is released only when the process it sends to takes    *)
(* its message, when it is freed, or, the shell alone, by a kill.          *)
SendReleased ==
    [][\A i \in Slots :
          status[i] = "WAIT_TO_SEND" /\ status'[i] # "WAIT_TO_SEND"
          => \/ status'[i] = "UNUSED"
             \/ receiver_pid[i] = curr_pid /\ sc'[curr_pid].msg = sc[pid[i]].msg
             \/ pid[i] = GPID_SHELL /\ curr_pid >= GPID_USER_START]_grassVars
=============================================================================
