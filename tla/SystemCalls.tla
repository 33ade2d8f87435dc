---------------------------- MODULE SystemCalls -----------------------------
(***************************************************************************)
(* What the programs of the servers, the shell and the apps do to the      *)
(* kernel, for any number of slots and pids and whatever the user types:   *)
(* each step is a call of the kernel, known by what it does in Rendezvous  *)
(* (GrassProofs).  The kernel's invariant therefore holds in the system,   *)
(* and no app runs before it is loaded.                                    *)
(***************************************************************************)
EXTENDS EgosSystem, GrassProofs

USE Zenon

(* process x is as it was, as far as messages go *)
IpcSame(x) ==
    absState'[x] = absState[x] /\ absTarget'[x] = absTarget[x] /\ absBox'[x] = absBox[x]

(* what sys_send of p to r does: p is blocked, or not, or r gets a message *)
Sent(p, r) ==
    /\ absState[p] = "idle"
    /\ \A x \in Pids \ {p, r} : IpcSame(x)
    /\ \/ /\ absState'[p] = "sending" /\ absTarget'[p] = r /\ absBox'[p].sender = p
          /\ r # p => IpcSame(r)
       \/ /\ absState'[p] = "idle" /\ r # p
          /\ \/ IpcSame(r)
             \/ absState[r] = "receiving" /\ absState'[r] = "idle" /\ absBox'[r].sender = p

(* what sys_recv of p does: p is blocked, or takes the message of some y *)
Took(p, y) ==
    /\ absState[y] = "sending" /\ absTarget[y] = p /\ absState'[y] = "idle"
    /\ absState'[p] = "idle" /\ absBox'[p] = absBox[y]
    /\ \A x \in Pids \ {p, y} : IpcSame(x)

Recvd(p) ==
    /\ absState[p] = "idle"
    /\ \/ absState'[p] = "receiving" /\ \A x \in Pids \ {p} : IpcSame(x)
       \/ \E y \in Pids \ {p} : Took(p, y)

StartedKept == \A x \in Pids : Started(x) => Started(x)'

(* The abstract variables are functions of the pids.                       *)
LEMMA AbsFunctions ==
    ASSUME KernelInv
    PROVE  AreFunctions /\ absState \in [Pids -> {"none", "idle", "sending", "receiving"}]
                        /\ absTarget \in [Pids -> Pids]
<1>1. Mapping
  BY MappingHolds
<1> QED BY <1>1 DEF Mapping, Maps, AreFunctions

(* proc_yield makes no slot a loading one, *)
LEMMA YieldLoads ==
    ASSUME NEW st, proc_yield(st), NEW i \in Slots, status'[i] = "LOADING"
    PROVE  st[i] = "LOADING"
BY DEF proc_yield, proc_set_status, Stop

(* and so a process that was started stays so. *)
LEMMA NoneLoads ==
    ASSUME UNCHANGED <<pid, proc_nprocs>>,
           \A i \in Slots : status'[i] = "LOADING" => status[i] = "LOADING"
    PROVE  StartedKept
BY DEF StartedKept, Started, Loading

LEMMA RecvLoads ==
    ASSUME KernelInv, fatal = "none", NEW m, proc_recv(m), UNCHANGED <<pid, proc_nprocs>>
    PROVE  StartedKept
<1>0. status \in [Slots -> Status] /\ proc_curr_idx \in Slots
  BY DEF KernelInv, TypeOK
<1> SUFFICES ASSUME NEW i \in Slots, status'[i] = "LOADING" PROVE status[i] = "LOADING"
  BY NoneLoads
<1>1. CASE proc_yield([status EXCEPT ![proc_curr_idx] = "WAIT_TO_RECV"])
  <2>1. [status EXCEPT ![proc_curr_idx] = "WAIT_TO_RECV"][i] = "LOADING"
    BY <1>1, YieldLoads
  <2> QED BY <1>0, <2>1
<1>2. ASSUME NEW p, proc_yield(proc_set_status(status, p, "RUNNABLE"))
      PROVE  status[i] = "LOADING"
  <2>1. proc_set_status(status, p, "RUNNABLE")[i] = "LOADING"
    BY <1>2, YieldLoads
  <2> QED BY <2>1 DEF proc_set_status
<1> QED BY <1>1, <1>2 DEF proc_recv

LEMMA SendLoads ==
    ASSUME KernelInv, fatal = "none", NEW m, proc_send(m), UNCHANGED <<pid, proc_nprocs>>
    PROVE  StartedKept
<1>0. status \in [Slots -> Status] /\ proc_curr_idx \in Slots
  BY DEF KernelInv, TypeOK
<1> SUFFICES ASSUME NEW i \in Slots, status'[i] = "LOADING" PROVE status[i] = "LOADING"
  BY NoneLoads
<1>1. CASE proc_yield([status EXCEPT ![proc_curr_idx] = "WAIT_TO_SEND"])
  <2>1. [status EXCEPT ![proc_curr_idx] = "WAIT_TO_SEND"][i] = "LOADING"
    BY <1>1, YieldLoads
  <2> QED BY <1>0, <2>1
<1>2. ASSUME NEW p, proc_yield(proc_set_status(status, p, "RUNNABLE"))
      PROVE  status[i] = "LOADING"
  <2>1. proc_set_status(status, p, "RUNNABLE")[i] = "LOADING"
    BY <1>2, YieldLoads
  <2> QED BY <2>1 DEF proc_set_status
<1>3. CASE status' = status
  BY <1>3
<1> QED BY <1>1, <1>2, <1>3 DEF proc_send

(* The current process exists and is idle, and its mailbox is its own.     *)
LEMMA CurrentIdle ==
    ASSUME KernelInv, fatal = "none"
    PROVE  /\ curr_pid \in Pids /\ curr_pid # 0 /\ vm = curr_pid
           /\ absState[curr_pid] = "idle" /\ absBox[curr_pid] = sc[curr_pid].msg
           /\ Started(curr_pid)
<1>1. Maps(absState, absTarget, absBox, status, receiver_pid, sc)
  BY MappingHolds DEF Mapping
<1>2. status[proc_curr_idx] = "RUNNING" /\ proc_curr_idx \in Slots
  BY Current
<1>3. absState[curr_pid] = "idle" /\ absBox[curr_pid] = sc[curr_pid].msg
  BY <1>1, <1>2, MapsSlot DEF curr_pid, Schedulable
<1>4. Started(curr_pid)
  <2>1. curr_pid \in 1..proc_nprocs
    BY Current, SMT DEF Pids, KernelInv, TypeOK
  <2>2. ~Loading(curr_pid)
    BY <1>2, Current DEF Loading
  <2> QED BY <2>1, <2>2 DEF Started
<1> QED BY <1>3, <1>4, Current

(* A process that exists was started.                                      *)
LEMMA LiveStarted ==
    ASSUME KernelInv, NEW x \in Pids, absState[x] # "none"
    PROVE  Started(x)
<1>1. Maps(absState, absTarget, absBox, status, receiver_pid, sc)
  BY MappingHolds DEF Mapping
<1>2. PICK i \in Slots : pid[i] = x /\ status[i] \notin {"UNUSED", "LOADING"}
  BY <1>1 DEF Maps
<1>3. x \in 1..proc_nprocs
  BY <1>2, SMT DEF KernelInv, TypeOK, Pids
<1>4. ~Loading(x)
  BY <1>2, <1>3 DEF Loading, KernelInv, PidsUnique
<1> QED BY <1>3, <1>4 DEF Started

(* no process appears *)
NoneKept == \A x \in Pids : absState[x] = "none" => absState'[x] = "none"

LEMMA SentNone ==
    ASSUME NEW p \in Pids, NEW r \in Pids, Sent(p, r)
    PROVE  NoneKept
BY DEF NoneKept, Sent, IpcSame

LEMMA RecvdNone ==
    ASSUME NEW p \in Pids, Recvd(p)
    PROVE  NoneKept
BY DEF NoneKept, Recvd, Took, IpcSame

(* What the two system calls do.                                           *)
LEMMA SendEffect ==
    ASSUME KernelInv, NEW r \in Pids, NEW c \in Content, sys_send(r, c)
    PROVE  KernelInv' /\ Sent(curr_pid, r) /\ NoneKept /\ StartedKept
           /\ SendStep(r, c)
<1> DEFINE m == [sc EXCEPT ![vm].type = "SYS_SEND", ![vm].msg.receiver = r,
                           ![vm].msg.content = c]
           m1 == [m EXCEPT ![vm].retval = 0, ![vm].type = "SYS_UNUSED"]
<1>0. vm \in Pids /\ sc \in [Pids -> Syscall] /\ TypeOK
  BY DEF KernelInv, TypeOK
<1>1. m \in [Pids -> Syscall]
  BY <1>0, CallTypes, Zenon
<1>2. /\ m[vm].type = "SYS_SEND" /\ \A p \in Pids \ {vm} : m[p] = sc[p]
      /\ m[vm].msg.receiver = r /\ m[vm].msg.content = c
  BY <1>0, SMT DEF Syscall, Msg
<1>3. excp_entry(EXCP_ID_ECALL_S, m)
  BY DEF sys_send
<1> HIDE DEF m
<1>4. m1 \in [Pids -> Syscall]
  BY <1>0, <1>1, ZenonT(30) DEF Syscall, SyscallType
<1>5. m1[vm].msg = m[vm].msg /\ \A p \in Pids \ {vm} : m1[p] = sc[p]
  BY <1>0, <1>1, <1>2 DEF Syscall
<1>6. KernelInv'
  BY <1>1, <1>3, TrapPreserves
<1>7. fatal = "none" /\ UNCHANGED <<pid, proc_nprocs, mapped>> /\ proc_send(m1)
  BY <1>2, <1>3 DEF excp_entry, IsSyscall, EXCP_ID_ECALL_S, proc_syscall
<1> HIDE DEF m1
<1>8. StartedKept
  BY <1>7, SendLoads
<1>9. SendStep(r, c)
  <2>1. \A p \in Pids \ {vm} : m1[p].msg = sc[p].msg
    BY <1>5
  <2> QED BY <1>2, <1>4, <1>5, <1>6, <1>7, <2>1, SendRefines
<1>10. Sent(curr_pid, r)
  <2> DEFINE p == curr_pid
             g == IPC!MessageTo(p, r, c)
  <2>1. p \in Pids
    BY <1>7, CurrentIdle
  <2>2. g.sender = p
    BY DEF IPC!MessageTo
  <2>3. IPC!SendBlocks(p, r, g) \/ IPC!SendDelivers(p, r, g) \/ IPC!SendFails(p, r, g)
    BY <1>9 DEF SendStep
  <2>4. AreFunctions
    BY AbsFunctions
  <2> HIDE DEF p, g
  <2>5. ASSUME IPC!SendBlocks(p, r, g) PROVE Sent(p, r)
    BY <2>1, <2>2, <2>4, <2>5 DEF IPC!SendBlocks, AreFunctions, Sent, IpcSame
  <2>6. ASSUME IPC!SendDelivers(p, r, g) PROVE Sent(p, r)
    BY <2>1, <2>2, <2>4, <2>6 DEF IPC!SendDelivers, AreFunctions, Sent, IpcSame
  <2>7. ASSUME IPC!SendFails(p, r, g) PROVE Sent(p, r)
    BY <2>1, <2>2, <2>4, <2>7 DEF IPC!SendFails, AreFunctions, Sent, IpcSame
  <2>8. Sent(p, r)
    BY <2>3, <2>5, <2>6, <2>7
  <2> QED BY <2>8 DEF p
<1>12. NoneKept
  BY <1>7, <1>10, CurrentIdle, SentNone
<1> QED BY <1>6, <1>8, <1>9, <1>10, <1>12

LEMMA RecvEffect ==
    ASSUME KernelInv, sys_recv
    PROVE  KernelInv' /\ Recvd(curr_pid) /\ NoneKept /\ StartedKept
           /\ (IPC!RecvBlocks(curr_pid) \/ \E q \in Pids : IPC!RecvTakes(curr_pid, q))
<1> DEFINE m == [sc EXCEPT ![vm].type = "SYS_RECV"]
           m1 == [m EXCEPT ![vm].retval = 0, ![vm].type = "SYS_UNUSED"]
<1>0. vm \in Pids /\ sc \in [Pids -> Syscall] /\ TypeOK
  BY DEF KernelInv, TypeOK
<1>1. m \in [Pids -> Syscall]
  BY <1>0, CallTypes, Zenon
<1>2. m[vm].type = "SYS_RECV" /\ \A p \in Pids : m[p].msg = sc[p].msg
  BY <1>0 DEF Syscall
<1>3. excp_entry(EXCP_ID_ECALL_S, m)
  BY DEF sys_recv
<1> HIDE DEF m
<1>4. m1 \in [Pids -> Syscall]
  BY <1>0, <1>1, ZenonT(30) DEF Syscall, SyscallType
<1>5. \A p \in Pids : m1[p].msg = sc[p].msg
  BY <1>0, <1>1, <1>2 DEF Syscall
<1>6. KernelInv'
  BY <1>1, <1>3, TrapPreserves
<1>7. fatal = "none" /\ UNCHANGED <<pid, proc_nprocs, mapped>> /\ proc_recv(m1)
  BY <1>2, <1>3 DEF excp_entry, IsSyscall, EXCP_ID_ECALL_S, proc_syscall
<1> HIDE DEF m1
<1>8. StartedKept
  BY <1>7, RecvLoads
<1>9. IPC!RecvBlocks(curr_pid) \/ \E q \in Pids : IPC!RecvTakes(curr_pid, q)
  BY <1>4, <1>5, <1>6, <1>7, RecvRefines
<1>10. Recvd(curr_pid)
  <2> DEFINE p == curr_pid
  <2>1. p \in Pids
    BY <1>7, CurrentIdle
  <2>2. AreFunctions
    BY AbsFunctions
  <2>3. IPC!RecvBlocks(p) \/ \E q \in Pids : IPC!RecvTakes(p, q)
    BY <1>9
  <2> HIDE DEF p
  <2>4. ASSUME IPC!RecvBlocks(p) PROVE Recvd(p)
    BY <2>1, <2>2, <2>4 DEF IPC!RecvBlocks, AreFunctions, Recvd, IpcSame
  <2>5. ASSUME NEW q \in Pids, IPC!RecvTakes(p, q) PROVE Recvd(p)
    <3>1. q # p /\ absState[p] = "idle"
      BY <2>5 DEF IPC!RecvTakes
    <3>2. Took(p, q)
      BY <2>1, <2>2, <2>5, <3>1 DEF IPC!RecvTakes, AreFunctions, Took, IpcSame
    <3> QED BY <3>1, <3>2 DEF Recvd
  <2>6. Recvd(p)
    BY <2>3, <2>4, <2>5
  <2> QED BY <2>6 DEF p
<1>12. NoneKept
  BY <1>7, <1>10, CurrentIdle, RecvdNone
<1> QED BY <1>6, <1>8, <1>9, <1>10, <1>12

(* A fault makes the call its syscall area holds.                          *)
LEMMA FaultEffect ==
    ASSUME KernelInv, fault
    PROVE  /\ KernelInv' /\ NoneKept /\ StartedKept
<1> DEFINE m1 == [sc EXCEPT ![vm].retval = 0, ![vm].type = "SYS_UNUSED"]
<1>0. vm \in Pids /\ sc \in [Pids -> Syscall] /\ TypeOK
  BY DEF KernelInv, TypeOK
<1>1. m1 \in [Pids -> Syscall]
  BY <1>0, ZenonT(30) DEF Syscall, SyscallType
<1>2. \A p \in Pids : m1[p].msg = sc[p].msg
  BY <1>0 DEF Syscall
<1>3. KernelInv'
  BY <1>0, TrapPreserves DEF fault
<1>4. /\ fatal = "none" /\ UNCHANGED <<pid, proc_nprocs, mapped>>
      /\ \/ proc_recv(m1) \/ proc_send(m1)
         \/ sc' = m1 /\ UNCHANGED <<status, receiver_pid>>
  BY SMT DEF fault, excp_entry, IsSyscall, EXCP_ID_ECALL_M, proc_syscall
<1> HIDE DEF m1
<1>6. CASE proc_recv(m1)
  <2>1. IPC!RecvBlocks(curr_pid) \/ \E q \in Pids : IPC!RecvTakes(curr_pid, q)
    BY <1>1, <1>2, <1>3, <1>4, <1>6, RecvRefines
  <2>2. NoneKept
    BY <2>1, AbsFunctions DEF IPC!RecvBlocks, IPC!RecvTakes, NoneKept, AreFunctions
  <2>3. StartedKept
    BY <1>4, <1>6, RecvLoads
  <2> QED BY <1>3, <2>2, <2>3
<1>7. CASE proc_send(m1)
  <2>1. SendStep(m1[vm].msg.receiver, m1[vm].msg.content)
    BY <1>1, <1>2, <1>3, <1>4, <1>7, SendRefines
  <2>2. NoneKept
    BY <2>1, AbsFunctions DEF SendStep, IPC!SendBlocks, IPC!SendDelivers, IPC!SendFails,
                              NoneKept, AreFunctions
  <2>3. StartedKept
    BY <1>4, <1>7, SendLoads
  <2> QED BY <1>3, <2>2, <2>3
<1>8. CASE sc' = m1 /\ UNCHANGED <<status, receiver_pid>>
  <2>1. UNCHANGED <<absState, absTarget, absBox>>
    BY <1>2, <1>3, <1>4, <1>8, SameTable
  <2>2. StartedKept
    BY <1>4, <1>8, NoneLoads
  <2> QED BY <1>3, <2>1, <2>2 DEF NoneKept
<1> QED BY <1>4, <1>6, <1>7, <1>8

-----------------------------------------------------------------------------
(* The kinds of processes are apart.                                       *)
LEMMA Kinds ==
    /\ UserPids \subseteq Pids /\ Servers \subseteq Pids
    /\ {GPID_PROCESS, GPID_FILE, GPID_DIR, GPID_SHELL} \subseteq Pids
    /\ UserPids \intersect Servers = {}
    /\ GPID_PROCESS \notin UserPids \union Servers
    /\ GPID_SHELL \notin UserPids \union Servers
    /\ GPID_FILE # GPID_DIR /\ GPID_PROCESS # GPID_SHELL
    /\ \A call : ServerOf(call) \in Servers
BY GrassAssumption, SystemAssumption, SMT
   DEF UserPids, Servers, Pids, GPID_PROCESS, GPID_FILE, GPID_DIR, ServerOf

(* What the timer and the calls of sys_proc do.                            *)

Killed(p) ==
    /\ absState'[p] = "none"
    /\ \A x \in Pids \ {p, GPID_SHELL} : IpcSame(x)
    /\ absState'[GPID_SHELL] \in {"none", "idle"}

LEMMA TimerEffect ==
    ASSUME KernelInv, NEW b \in BOOLEAN, intr_entry(b)
    PROVE  /\ KernelInv' /\ NoneKept /\ StartedKept
           /\ IF b /\ curr_pid \in UserPids THEN Killed(curr_pid)
              ELSE UNCHANGED <<absState, absTarget, absBox>>
<1>1. KernelInv'
  BY IntrPreserves
<1>2. fatal = "none" /\ UNCHANGED <<pid, proc_nprocs, sc>>
  BY DEF intr_entry, kill_current
<1>3. curr_pid \in Pids /\ (curr_pid \in UserPids <=> curr_pid >= GPID_USER_START)
  BY <1>2, CurrentIdle, GrassAssumption, SMT DEF UserPids, Pids
<1>4. StartedKept
  <2>1. SUFFICES ASSUME NEW i \in Slots, status'[i] = "LOADING" PROVE status[i] = "LOADING"
    BY <1>2, NoneLoads
  <2>2. \/ proc_yield(status)
        \/ proc_yield(proc_set_status(proc_set_status(status, curr_pid, "UNUSED"),
                                      GPID_SHELL, "RUNNABLE"))
    BY DEF intr_entry, kill_current
  <2>3. \/ status[i] = "LOADING"
        \/ proc_set_status(proc_set_status(status, curr_pid, "UNUSED"),
                           GPID_SHELL, "RUNNABLE")[i] = "LOADING"
    BY <2>1, <2>2, YieldLoads
  <2> QED BY <2>3 DEF proc_set_status
<1>6. CASE b /\ curr_pid \in UserPids
  <2>1. KillStep
    BY <1>1, <1>3, <1>6, IntrRefines
  <2>2. Killed(curr_pid)
    <3>1. GPID_SHELL \in Pids /\ GPID_SHELL # curr_pid
      BY <1>6, Kinds
    <3> QED BY <1>3, <2>1, <3>1 DEF KillStep, Killed, IpcSame
  <2>3. NoneKept
    BY <2>1 DEF KillStep, NoneKept
  <2> QED BY <1>1, <1>4, <1>6, <2>2, <2>3
<1>7. CASE ~(b /\ curr_pid \in UserPids)
  <2>1. UNCHANGED <<absState, absTarget, absBox>>
    BY <1>1, <1>3, <1>7, IntrRefines
  <2> QED BY <1>1, <1>4, <1>7, <2>1 DEF NoneKept
<1> QED BY <1>6, <1>7

LEMMA AllocEffect ==
    ASSUME KernelInv, ProcAlloc
    PROVE  /\ KernelInv' /\ UNCHANGED <<absState, absTarget, absBox, sc>> /\ StartedKept
           /\ NextPid \in Pids => absState[NextPid] = "none"
<1>1. KernelInv'
  BY AllocPreserves
<1>2. UNCHANGED <<absState, absTarget, absBox>>
  BY <1>1, AllocRefines
<1>3. sc' = sc
  BY DEF ProcAlloc, proc_alloc
<1>4. StartedKept
  <2>1. CASE UNCHANGED <<pid, status, proc_nprocs>>
    BY <2>1, NoneLoads
  <2>2. CASE proc_nprocs' = NextPid
    <3>1. proc_nprocs \in Nat /\ proc_nprocs' = proc_nprocs + 1
      BY <2>2, SMT DEF NextPid, KernelInv, TypeOK, Pids
    <3>2. \A x \in Pids : Loading(x)' => x = proc_nprocs'
      BY <1>1 DEF KernelInv, Loading
    <3>3. ASSUME NEW x \in Pids, Started(x) PROVE Started(x)'
      <4>1. x \in 1..proc_nprocs' /\ x # proc_nprocs'
        BY <3>1, <3>3, SMT DEF Started
      <4> QED BY <3>2, <4>1 DEF Started
    <3> QED BY <3>3 DEF StartedKept
  <2> QED BY <2>1, <2>2 DEF ProcAlloc, proc_alloc
<1>5. ASSUME NextPid \in Pids, absState[NextPid] # "none" PROVE FALSE
  <2>1. Started(NextPid)
    BY <1>5, LiveStarted
  <2> QED BY <2>1, SMT DEF Started, NextPid, KernelInv, TypeOK, Pids
<1> QED BY <1>1, <1>2, <1>3, <1>4, <1>5

(* a process that is loading has one of the pids *)
LEMMA LoadingPid ==
    ASSUME KernelInv, NEW p, Loading(p)
    PROVE  p \in Pids /\ absState[p] = "none" /\ ~Started(p)
<1>1. p \in Pids
  BY DEF Loading, KernelInv, TypeOK
<1>2. ~Started(p)
  BY DEF Started
<1> QED BY <1>1, <1>2, LiveStarted

LEMMA LoadEffect ==
    ASSUME KernelInv, NEW p, ElfLoad(p)
    PROVE  /\ KernelInv' /\ UNCHANGED <<absState, absTarget, absBox>> /\ StartedKept
<1>1. p \in Pids
  BY LoadingPid DEF ElfLoad
<1>2. KernelInv'
  BY <1>1, LoadPreserves
<1>3. UNCHANGED <<absState, absTarget, absBox>>
  BY <1>1, <1>2, LoadRefines
<1>4. StartedKept
  BY NoneLoads DEF ElfLoad, elf_load
<1> QED BY <1>2, <1>3, <1>4

LEMMA ReadyEffect ==
    ASSUME KernelInv, NEW p, ProcReady(p)
    PROVE  /\ KernelInv' /\ StartedKept
           /\ p \in Pids /\ ~Started(p)
           /\ absState'[p] = "idle" /\ \A x \in Pids \ {p} : IpcSame(x)
<1>1. p \in Pids /\ ~Started(p)
  BY LoadingPid DEF ProcReady
<1>2. KernelInv'
  BY <1>1, ReadyPreserves
<1>3. IPC!Start(p)
  BY <1>1, <1>2, ReadyRefines
<1>4. absState'[p] = "idle" /\ \A x \in Pids \ {p} : IpcSame(x)
  <2>1. AreFunctions
    BY AbsFunctions
  <2> QED BY <1>1, <1>3, <2>1 DEF IPC!Start, AreFunctions, IpcSame
<1>5. StartedKept
  BY NoneLoads DEF ProcReady, proc_set_ready, proc_set_status
<1> QED BY <1>1, <1>2, <1>4, <1>5

LEMMA FreeEffect ==
    ASSUME KernelInv, NEW p, ProcFree(p) \/ ProcFreeAll
    PROVE  /\ KernelInv' /\ NoneKept /\ StartedKept
           /\ \A x \in Pids : (absState'[x] = "none" /\ x \in UserPids) \/ IpcSame(x)
<1>0. /\ proc_nprocs \in Pids /\ pid \in [Slots -> Pids] /\ MaxPid \in Nat
      /\ GPID_USER_START \in Nat
  BY GrassAssumption DEF KernelInv, TypeOK
<1>1. KernelInv'
  <2>1. ProcFree(p) => p \in Pids
    BY <1>0, SMT DEF ProcFree, Pids
  <2>2. [Next]_grassVars
    BY <2>1 DEF Next
  <2> QED BY <2>2, NextPreserves
<1>2. PICK D \in {{p}, UserPids} :
         /\ D \subseteq UserPids
         /\ \A i \in Slots : status'[i] = IF pid[i] \in D THEN "UNUSED" ELSE status[i]
  <2>1. CASE ProcFree(p)
    <3>1. {p} \subseteq UserPids
      BY <1>0, <2>1, SMT DEF ProcFree, UserPids, Pids
    <3>2. \A i \in Slots : status'[i] = IF pid[i] \in {p} THEN "UNUSED" ELSE status[i]
      BY <2>1 DEF ProcFree, proc_free, proc_set_status
    <3> QED BY <3>1, <3>2
  <2>2. CASE ProcFreeAll
    <3>1. \A i \in Slots : pid[i] \in UserPids <=> pid[i] >= GPID_USER_START
      BY <1>0, SMT DEF UserPids, Pids
    <3>2. \A i \in Slots : status'[i] = IF pid[i] \in UserPids THEN "UNUSED" ELSE status[i]
      BY <2>2, <3>1 DEF ProcFreeAll, proc_free_all
    <3> QED BY <3>2
  <2> QED BY <2>1, <2>2
<1>3. UNCHANGED <<pid, receiver_pid, sc, proc_nprocs>>
  BY DEF ProcFree, proc_free, ProcFreeAll, proc_free_all
<1>4. \A x \in Pids : IF x \in D THEN absState'[x] = "none"
                      ELSE /\ absState'[x] = absState[x] /\ absTarget'[x] = absTarget[x]
                           /\ absBox'[x] = absBox[x]
  BY <1>1, <1>2, <1>3, FreeRefines
<1>5. \A x \in Pids : (absState'[x] = "none" /\ x \in UserPids) \/ IpcSame(x)
  BY <1>2, <1>4 DEF IpcSame
<1>6. StartedKept
  BY <1>2, <1>3, NoneLoads
<1> QED BY <1>1, <1>3, <1>5, <1>6 DEF NoneKept, IpcSame

-----------------------------------------------------------------------------
(* Messages and the fields of the programs are of their types.             *)
LEMMA PackTypes ==
    ASSUME NEW t \in 0..3, NEW a \in Arg
    PROVE  Pack(t, a) \in Content
BY SystemAssumption DEF Pack, SysContent, Arg

LEMMA MsgTypes ==
    ASSUME TypeOK, NEW p \in Pids
    PROVE  Sender(p) \in Pids /\ Received(p).arg \in Arg /\ Received(p).type \in 0..3
<1>1. sc[p].msg \in Msg
  BY DEF TypeOK, Syscall
<1>2. sc[p].msg.content \in SysContent
  BY <1>1, SystemAssumption DEF Msg
<1> QED BY <1>1, <1>2 DEF Sender, Received, Msg, SysContent, Arg

LEMMA Words ==
    /\ {"text", "file", "bin/"} \subseteq Arg /\ Line \subseteq Arg
    /\ {PROC_SPAWN, PROC_EXIT, PROC_KILLALL, CMD_OK, CMD_ERROR, FILE_READ, FILE_OK,
        DIR_LOOKUP, DIR_OK, DIR_ERROR, NOTE} \subseteq 0..3
    /\ {GPID_PROCESS, GPID_FILE, GPID_DIR, GPID_SHELL} \subseteq Pids
BY Kinds, SMT DEF Arg, PROC_SPAWN, PROC_EXIT, PROC_KILLALL, CMD_OK, CMD_ERROR, FILE_READ, FILE_OK,
       DIR_LOOKUP, DIR_OK, DIR_ERROR, NOTE

LEMMA ProcCalls ==
    ASSUME KernelInv, LocalTypeOK, SysProc
    PROVE  ProgramCall
<1> USE Words, PackTypes
<1>0. TypeOK /\ proc_nprocs \in Pids /\ sys_proc.req \in Arg
  BY DEF KernelInv, TypeOK, LocalTypeOK
<1>1. \A p : ElfLoad(p) \/ ProcReady(p) => p \in Pids
  BY LoadingPid DEF ElfLoad, ProcReady
<1>2. \A p : ProcFree(p) => p \in Pids
  BY <1>0, GrassAssumption, SMT DEF ProcFree, Pids
<1>3. CASE BootAlloc
  BY <1>3 DEF BootAlloc, ProgramCall
<1>4. CASE BootLoad
  BY <1>1, <1>4 DEF BootLoad, ProgramCall
<1>5. CASE BootReady
  BY <1>1, <1>5 DEF BootReady, ProgramCall
<1>6. CASE BootRecv \/ ProcRecv \/ ProcAwait
  BY <1>6 DEF BootRecv, ProcRecv, ProcAwait, ProgramCall
<1>7. CASE ProcDispatch
  BY <1>2, <1>7 DEF ProcDispatch, ProgramCall, ServerFatal
<1>8. CASE ProcNotify
  BY <1>8 DEF ProcNotify, ProgramCall
<1>9. CASE ProcLookupApp
  BY <1>0, <1>9 DEF ProcLookupApp, ProgramCall, ServerFatal
<1>10. CASE ProcAllocApp
  BY <1>10 DEF ProcAllocApp, ProgramCall, ServerFatal
<1>11. CASE ProcRead
  BY <1>11 DEF ProcRead, ProgramCall
<1>12. CASE ProcGotBlock
  BY <1>1, <1>12 DEF ProcGotBlock, ProgramCall, ServerFatal
<1>13. CASE ProcReadyApp
  BY <1>1, <1>13 DEF ProcReadyApp, ProgramCall
<1>14. CASE ProcReply
  BY <1>14 DEF ProcReply, ProgramCall
<1> QED BY <1>3, <1>4, <1>5, <1>6, <1>7, <1>8, <1>9, <1>10, <1>11, <1>12, <1>13, <1>14
        DEF SysProc

LEMMA AppCalls ==
    ASSUME NEW p \in UserPids, App(p)
    PROVE  ProgramCall
<1> USE Words, PackTypes
<1>1. CASE AppCall(p)
  <2>1. Callee(Head(prog[p])) \in Pids /\ Request(Head(prog[p])) \in Content
    BY DEF Callee, Request
  <2>2. CASE sys_send(GPID_PROCESS, Pack(PROC_EXIT, "text"))
    BY <2>2 DEF ProgramCall
  <2>3. CASE fault
    BY <2>3 DEF ProgramCall
  <2>4. CASE sys_send(Callee(Head(prog[p])), Request(Head(prog[p])))
    BY <2>1, <2>4 DEF ProgramCall
  <2> QED BY <1>1, <2>2, <2>3, <2>4 DEF AppCall
<1>2. CASE AppAwait(p)
  BY <1>2 DEF AppAwait, ProgramCall
<1>3. CASE UNCHANGED grassVars
  BY <1>3 DEF ProgramCall
<1> QED BY <1>1, <1>2, <1>3 DEF App, AppGot, CdSetIno, CdSetPath

LEMMA SysCalls ==
    ASSUME KernelInv, LocalTypeOK, [SysNext]_sysVars
    PROVE  KernelCall /\ (ProgramCall \/ Timer)
<1> USE Words, PackTypes
<1>0. TypeOK /\ sys_dir.sender \in Pids /\ line \in Arg
  BY DEF KernelInv, LocalTypeOK, Arg
<1>1. ASSUME SysProc PROVE ProgramCall
  BY <1>1, ProcCalls
<1>2. ASSUME NEW s \in Servers, ServerInit(s) \/ ServerRecv(s) PROVE ProgramCall
  BY <1>2 DEF ServerInit, ServerRecv, ProgramCall
<1>3. ASSUME FileServe PROVE ProgramCall
  BY <1>0, <1>3, MsgTypes DEF FileServe, ProgramCall, ServerFatal
<1>4. ASSUME DirServe PROVE ProgramCall
  BY <1>4 DEF DirServe, ProgramCall, ServerFatal
<1>5. ASSUME DirAwait PROVE ProgramCall
  BY <1>5 DEF DirAwait, ProgramCall
<1>6. ASSUME DirReply PROVE ProgramCall
  BY <1>0, <1>6 DEF DirReply, ProgramCall, ServerFatal
<1>7. ASSUME ShellCommand PROVE ProgramCall
  BY <1>0, <1>7 DEF ShellCommand, ProgramCall
<1>8. ASSUME ShellAwaitReply \/ ShellGotReply PROVE ProgramCall
  BY <1>8 DEF ShellAwaitReply, ShellGotReply, ProgramCall
<1>9. ASSUME NEW p \in UserPids, App(p) PROVE ProgramCall
  BY <1>9, AppCalls
<1>10. CASE Timer
  <2>1. PICK b \in {FALSE, CtrlC} : intr_entry(b /\ ~is_reading)
    BY <1>10 DEF Timer
  <2>2. (b /\ ~is_reading) \in BOOLEAN
    BY SystemAssumption
  <2> QED BY <1>10, <2>1, <2>2 DEF KernelCall
<1>11. ASSUME UNCHANGED grassVars PROVE ProgramCall
  BY <1>11 DEF ProgramCall
<1> QED BY <1>1, <1>2, <1>3, <1>4, <1>5, <1>6, <1>7, <1>8, <1>9, <1>10, <1>11
        DEF SysNext, KernelCall, Shell, ShellPrompt, ShellReadLine, Halted, sysVars

LEMMA CallEffect ==
    ASSUME KernelInv, KernelCall
    PROVE  KernelInv' /\ StartedKept /\ (NoneKept \/ \E p \in Pids : ProcReady(p))
<1>1. ASSUME NEW r \in Pids, NEW c \in Content, sys_send(r, c)
      PROVE  KernelInv' /\ StartedKept /\ NoneKept
  BY <1>1, SendEffect
<1>2. CASE sys_recv
  BY <1>2, RecvEffect
<1>3. CASE fault
  BY <1>3, FaultEffect
<1>4. ASSUME NEW b \in BOOLEAN, intr_entry(b)
      PROVE  KernelInv' /\ StartedKept /\ NoneKept
  BY <1>4, TimerEffect
<1>5. CASE ProcAlloc
  BY <1>5, AllocEffect DEF NoneKept
<1>6. ASSUME NEW p \in Pids, ElfLoad(p)
      PROVE  KernelInv' /\ StartedKept /\ NoneKept
  BY <1>6, LoadEffect DEF NoneKept
<1>7. ASSUME NEW p \in Pids, ProcReady(p)
      PROVE  KernelInv' /\ StartedKept /\ \E q \in Pids : ProcReady(q)
  BY <1>7, ReadyEffect
<1>8. ASSUME NEW p \in Pids, ProcFree(p)
      PROVE  KernelInv' /\ StartedKept /\ NoneKept
  BY <1>8, FreeEffect
<1>9. CASE ProcFreeAll
  BY <1>9, FreeEffect
<1>10. ASSUME fatal' \in FatalSite \union {"none"}, fatal' = "none" => fatal = "none",
              UNCHANGED <<pid, status, receiver_pid, proc_curr_idx, proc_nprocs, vm, sc, mapped>>
       PROVE  KernelInv' /\ StartedKept /\ NoneKept
  <2>1. KernelInv'
    BY <1>10, TableUnchanged
  <2>2. UNCHANGED <<absState, absTarget, absBox>>
    BY <1>10, <2>1, SameTable
  <2>3. StartedKept
    BY <1>10, NoneLoads
  <2> QED BY <2>1, <2>2, <2>3 DEF NoneKept
<1>11. ASSUME NEW s \in ServerFatal, Panic(s)
       PROVE  KernelInv' /\ StartedKept /\ NoneKept
  <2>1. fatal' \in FatalSite \union {"none"} /\ fatal = "none"
    BY <1>11 DEF Panic, Fatal, FatalSite
  <2> QED BY <1>10, <1>11, <2>1 DEF Panic
<1>12. CASE UNCHANGED grassVars
  <2>1. fatal \in FatalSite \union {"none"}
    BY DEF KernelInv, TypeOK
  <2> QED BY <1>10, <1>12, <2>1 DEF grassVars
<1> QED BY <1>1, <1>2, <1>3, <1>4, <1>5, <1>6, <1>7, <1>8, <1>9, <1>11, <1>12 DEF KernelCall, ProgramCall

-----------------------------------------------------------------------------
(* process x is as it was, as far as its program goes *)
LocalSame(x) ==
    pc'[x] = pc[x] /\ prog'[x] = prog[x] /\ (x = GPID_DIR => sys_dir' = sys_dir)

(* the labels of sys_proc at which blocks of an app are still to be read *)
Reading == {"read", "recv_blk", "got_blk"}

(* what the fields of sys_proc say of the app it loads is as it was *)
LoadSame ==
    /\ sys_proc'.blocks = sys_proc.blocks /\ sys_proc'.app_pid = sys_proc.app_pid
    /\ pc'[GPID_PROCESS] \in Reading <=> pc[GPID_PROCESS] \in Reading

LEMMA LoadKept ==
    ASSUME LoadInv, NoneKept \/ sys_proc.blocks = 0, LocalTypeOK, LoadSame
    PROVE  LoadInv'
<1>1. sys_proc.blocks \in Nat
  BY SystemAssumption, SMT DEF LocalTypeOK
<1> QED BY <1>1, SMT DEF LoadInv, LoadSame, NoneKept, Reading

LEMMA GotoType ==
    ASSUME LocalTypeOK, NEW p \in Pids, NEW l, Goto(p, l)
    PROVE  /\ pc' = [x \in Pids |-> pc'[x]] /\ pc'[p] = l
           /\ \A x \in Pids \ {p} : pc'[x] = pc[x]
BY DEF LocalTypeOK, Goto

(* Most steps of a program move it and leave the other locals alone.       *)
LEMMA Moves ==
    ASSUME LocalTypeOK, NEW p \in Pids, NEW l, Goto(p, l),
           UNCHANGED <<sys_proc, sys_dir, line, prog>>,
           p = GPID_PROCESS => (l \in Reading <=> pc[GPID_PROCESS] \in Reading)
    PROVE  /\ LocalTypeOK' /\ LoadSame
           /\ pc'[p] = l /\ \A x \in Pids \ {p} : LocalSame(x)
<1>1. pc' = [x \in Pids |-> pc'[x]] /\ pc'[p] = l /\ \A x \in Pids \ {p} : pc'[x] = pc[x]
  BY GotoType
<1>2. LocalTypeOK'
  BY <1>1 DEF LocalTypeOK
<1>3. GPID_PROCESS \in Pids
  BY Kinds
<1>4. LoadSame
  BY <1>1, <1>3 DEF LoadSame
<1> QED BY <1>1, <1>2, <1>4 DEF LocalSame

LEMMA ProcLocals ==
    ASSUME BaseInv, SysProc
    PROVE  LocalTypeOK' /\ LoadInv'
<1> DEFINE S == GPID_PROCESS
<1>0. /\ KernelInv /\ TypeOK /\ LocalTypeOK /\ LoadInv /\ S \in Pids
      /\ NBlocks \in Nat \ {0} /\ sys_proc.blocks \in 0..NBlocks
  BY Kinds, SystemAssumption DEF BaseInv, KernelInv, LocalTypeOK
<1>1. pc[S] \notin Reading <=> sys_proc.blocks = 0
  BY <1>0, SMT DEF LoadInv, Reading
<1>2. ASSUME NEW l, Goto(S, l), UNCHANGED <<sys_proc, sys_dir, line, prog>>,
             l \notin Reading, pc[S] \notin Reading
      PROVE  LocalTypeOK' /\ LoadInv'
  BY <1>0, <1>1, <1>2, Moves, LoadKept
<1>3. CASE BootAlloc \/ BootLoad \/ BootReady \/ BootRecv \/ ProcRecv \/ ProcNotify
  BY <1>2, <1>3 DEF BootAlloc, BootLoad, BootReady, BootRecv, ProcRecv, ProcNotify, At, Reading
<1>4. CASE ProcAwait
  <2>1. CASE pc[S] = "recv_blk"
    <3>1. sys_recv /\ Goto(S, "got_blk") /\ UNCHANGED <<sys_proc, sys_dir, line, prog>>
      BY <1>4, <2>1 DEF ProcAwait, At
    <3>2. NoneKept
      BY <1>0, <3>1, RecvEffect
    <3> QED BY <1>0, <2>1, <3>1, <3>2, Moves, LoadKept DEF Reading
  <2>2. CASE pc[S] \notin Reading
    BY <1>2, <1>4, <2>2 DEF ProcAwait, At, Reading
  <2> QED BY <1>4, <2>1, <2>2 DEF ProcAwait, At, Reading
<1>5. CASE ProcDispatch
  <2>1. pc[S] = "dispatch"
    BY <1>5 DEF ProcDispatch, At
  <2>2. sys_proc' = [sys_proc EXCEPT !.sender = Sender(S), !.req = Received(S).arg]
    BY <1>5 DEF ProcDispatch
  <2>3. Sender(S) \in Pids /\ Received(S).arg \in Arg
    BY <1>0, MsgTypes
  <2>4. /\ sys_proc' \in [sender : Pids, req : Arg, shell_waiting : BOOLEAN,
                          app_pid : Nat, blocks : 0..NBlocks]
        /\ sys_proc'.blocks = sys_proc.blocks /\ sys_proc'.app_pid = sys_proc.app_pid
    BY <1>0, <2>2, <2>3 DEF LocalTypeOK
  <2>5. pc' = [x \in Pids |-> pc'[x]] /\ pc'[S] \notin Reading
    BY <1>0, <1>5, <2>1 DEF ProcDispatch, Goto, LocalTypeOK, Reading
  <2>6. LocalTypeOK'
    BY <1>0, <1>5, <2>4, <2>5 DEF ProcDispatch, LocalTypeOK
  <2> QED BY <1>0, <1>1, <2>1, <2>4, <2>5, <2>6, LoadKept DEF LoadSame, Reading
<1>6. CASE ProcLookupApp
  <2>1. CASE pc' = pc
    BY <1>0, <1>1, <1>6, <2>1, LoadKept DEF ProcLookupApp, At, LocalTypeOK, LoadSame, Reading
  <2>2. CASE Goto(S, "recv_app")
    BY <1>2, <1>6, <2>2 DEF ProcLookupApp, At, Reading
  <2> QED BY <1>6, <2>1, <2>2 DEF ProcLookupApp
<1>7. CASE ProcAllocApp
  <2>1. pc[S] = "alloc" /\ UNCHANGED <<sys_dir, line, prog>>
    BY <1>7 DEF ProcAllocApp, At
  <2>2. CASE UNCHANGED <<pc, sys_proc>>
    BY <1>0, <1>1, <2>1, <2>2, LoadKept DEF LocalTypeOK, LoadSame, Reading
  <2>3. CASE Goto(S, "reply_error") /\ UNCHANGED sys_proc
    BY <1>2, <2>1, <2>3 DEF Reading
  <2>4. CASE /\ ProcAlloc /\ Goto(S, "read")
             /\ sys_proc' = [sys_proc EXCEPT !.app_pid = NextPid, !.blocks = NBlocks]
    <3>1. NextPid \in Nat
      BY <1>0, SMT DEF NextPid, TypeOK, Pids
    <3>2. /\ sys_proc' \in [sender : Pids, req : Arg, shell_waiting : BOOLEAN,
                            app_pid : Nat, blocks : 0..NBlocks]
          /\ sys_proc'.blocks = NBlocks /\ sys_proc'.app_pid = NextPid
      <4>1. sys_proc' = [sys_proc EXCEPT !.app_pid = NextPid, !.blocks = NBlocks]
        BY <2>4
      <4>2. NBlocks \in 0..NBlocks
        BY <1>0, SMT
      <4> HIDE <2>4
      <4> QED BY <1>0, <3>1, <4>1, <4>2 DEF LocalTypeOK
    <3>3. pc' = [x \in Pids |-> pc'[x]] /\ pc'[S] = "read"
      BY <1>0, <2>4, GotoType
    <3>4. LocalTypeOK'
      BY <1>0, <2>1, <3>2, <3>3 DEF LocalTypeOK
    <3>5. NextPid \in Pids => absState'[NextPid] = "none"
      BY <1>0, <2>4, AllocEffect
    <3> QED BY <1>0, <3>2, <3>3, <3>4, <3>5, SMT DEF LoadInv
  <2> QED BY <1>7, <2>2, <2>3, <2>4 DEF ProcAllocApp
<1>8. CASE ProcRead
  <2>1. /\ sys_send(GPID_FILE, Pack(FILE_READ, "file")) /\ Goto(S, "recv_blk")
        /\ pc[S] = "read" /\ UNCHANGED <<sys_proc, sys_dir, line, prog>>
    BY <1>8 DEF ProcRead, At
  <2>2. NoneKept
    BY <1>0, <2>1, Words, PackTypes, SendEffect
  <2> QED BY <1>0, <2>1, <2>2, Moves, LoadKept DEF Reading
<1>9. CASE ProcGotBlock
  <2>1. pc[S] = "got_blk" /\ UNCHANGED <<sys_dir, line, prog>> /\ fatal = "none"
    BY <1>9 DEF ProcGotBlock, At
  <2>2. NoneKept
    <3>1. CASE ElfLoad(sys_proc.app_pid)
      BY <1>0, <3>1, LoadEffect DEF NoneKept
    <3>2. CASE UNCHANGED grassVars \/ Panic("file_read")
      <4>1. KernelInv' /\ UNCHANGED <<pid, status, receiver_pid, sc>>
        BY <1>0, <3>2, CallEffect DEF KernelCall, ProgramCall, ServerFatal, Panic, grassVars
      <4> QED BY <1>0, <4>1, SameTable DEF NoneKept
    <3> QED BY <1>9, <3>1, <3>2 DEF ProcGotBlock
  <2>3. CASE UNCHANGED <<pc, sys_proc>>
    BY <1>0, <2>1, <2>2, <2>3, LoadKept DEF LocalTypeOK, LoadSame
  <2>4. CASE /\ Goto(S, IF LastBlock THEN "ready" ELSE "read")
             /\ sys_proc' = [sys_proc EXCEPT !.blocks = @ - 1]
    <3>1. sys_proc.blocks > 0
      BY <1>0, <1>1, <2>1, SMT DEF Reading
    <3>2. /\ sys_proc' \in [sender : Pids, req : Arg, shell_waiting : BOOLEAN,
                            app_pid : Nat, blocks : 0..NBlocks]
          /\ sys_proc'.blocks = sys_proc.blocks - 1 /\ sys_proc'.app_pid = sys_proc.app_pid
      BY <1>0, <2>4, <3>1, SMT DEF LocalTypeOK
    <3>3. /\ pc' = [x \in Pids |-> pc'[x]]
          /\ pc'[S] = IF sys_proc.blocks = 1 THEN "ready" ELSE "read"
      BY <1>0, <2>4, GotoType, SMT DEF LastBlock
    <3>4. LocalTypeOK'
      BY <1>0, <2>1, <3>2, <3>3 DEF LocalTypeOK
    <3> QED BY <1>0, <2>2, <3>1, <3>2, <3>3, <3>4, SMT DEF LoadInv, NoneKept
  <2> QED BY <1>9, <2>3, <2>4 DEF ProcGotBlock
<1>10. CASE ProcReadyApp
  <2>1. /\ pc[S] = "ready" /\ Goto(S, "reply_ok") /\ UNCHANGED <<sys_proc, sys_dir, line>>
        /\ prog' = [p \in Pids |-> prog'[p]]
    BY <1>0, <1>10 DEF ProcReadyApp, At, LocalTypeOK
  <2>2. pc' = [x \in Pids |-> pc'[x]] /\ pc'[S] = "reply_ok"
    BY <1>0, <2>1, GotoType
  <2>3. LocalTypeOK'
    BY <1>0, <2>1, <2>2 DEF LocalTypeOK
  <2> QED BY <1>0, <1>1, <2>1, <2>2, <2>3, LoadKept DEF LoadSame, Reading
<1>11. CASE ProcReply
  <2>1. /\ pc[S] \in {"reply_ok", "reply_error"} /\ Goto(S, "recv")
        /\ UNCHANGED <<sys_dir, line, prog>>
        /\ sys_proc' = [sys_proc EXCEPT !.shell_waiting = ~Background(sys_proc.req)]
    BY <1>11 DEF ProcReply, At
  <2>2. /\ sys_proc' \in [sender : Pids, req : Arg, shell_waiting : BOOLEAN,
                          app_pid : Nat, blocks : 0..NBlocks]
        /\ sys_proc'.blocks = sys_proc.blocks /\ sys_proc'.app_pid = sys_proc.app_pid
    BY <1>0, <2>1 DEF LocalTypeOK, Background
  <2>3. pc' = [x \in Pids |-> pc'[x]] /\ pc'[S] = "recv"
    BY <1>0, <2>1, GotoType
  <2>4. LocalTypeOK'
    BY <1>0, <2>1, <2>2, <2>3 DEF LocalTypeOK
  <2> QED BY <1>0, <1>1, <2>1, <2>2, <2>3, <2>4, LoadKept DEF LoadSame, Reading
<1> QED BY <1>3, <1>4, <1>5, <1>6, <1>7, <1>8, <1>9, <1>10, <1>11 DEF SysProc

(* Steps of the other processes leave alone what sys_proc loads.           *)
LEMMA OtherLocals ==
    ASSUME BaseInv, NoneKept, [SysNext]_sysVars, ~SysProc
    PROVE  LocalTypeOK' /\ LoadInv'
<1>0. KernelInv /\ TypeOK /\ LocalTypeOK /\ LoadInv /\ GPID_PROCESS \in Pids
  BY Kinds DEF BaseInv, KernelInv
<1>1. ASSUME NEW p \in Pids \ {GPID_PROCESS}, NEW l, Goto(p, l),
             UNCHANGED <<sys_proc, sys_dir, line, prog>>
      PROVE  LocalTypeOK' /\ LoadInv'
  BY <1>0, <1>1, Moves, LoadKept
<1>2. CASE UNCHANGED <<pc, sys_proc, sys_dir, line, prog>>
  BY <1>0, <1>2, LoadKept DEF LocalTypeOK, LoadSame
<1>3. ASSUME NEW s \in Servers, ServerInit(s) \/ ServerRecv(s)
      PROVE  LocalTypeOK' /\ LoadInv'
  BY <1>1, <1>3, Kinds DEF ServerInit, ServerRecv
<1>4. GPID_FILE \in Pids \ {GPID_PROCESS} /\ GPID_DIR \in Pids \ {GPID_PROCESS}
  BY Kinds DEF Servers
<1>5. CASE FileServe \/ DirAwait \/ DirReply
  BY <1>1, <1>2, <1>4, <1>5 DEF FileServe, DirAwait, DirReply
<1>6. CASE DirServe
  <2>1. UNCHANGED <<sys_proc, line, prog>>
    BY <1>6 DEF DirServe
  <2>2. CASE UNCHANGED <<pc, sys_dir>>
    BY <1>2, <2>1, <2>2
  <2>3. CASE /\ sys_dir' = [sender |-> Sender(GPID_DIR), name |-> Received(GPID_DIR).arg]
             /\ Goto(GPID_DIR, "recv_blk")
    <3>1. sys_dir' \in [sender : Pids, name : Arg]
      BY <1>0, <1>4, <2>3, MsgTypes
    <3>2. /\ pc' = [x \in Pids |-> pc'[x]]
          /\ \A x \in Pids \ {GPID_DIR} : pc'[x] = pc[x]
      BY <1>0, <1>4, <2>3, GotoType
    <3>3. LocalTypeOK'
      BY <1>0, <2>1, <3>1, <3>2 DEF LocalTypeOK
    <3>4. LoadSame
      BY <1>4, <2>1, <3>2, Kinds DEF LoadSame
    <3> QED BY <1>0, <3>3, <3>4, LoadKept
  <2> QED BY <1>6, <2>2, <2>3 DEF DirServe
<1>7. GPID_SHELL \in Pids \ {GPID_PROCESS}
  BY Kinds
<1>8. CASE Shell
  BY <1>1, <1>7, <1>8 DEF Shell, ShellCommand, ShellAwaitReply, ShellGotReply, ShellPrompt
<1>9. CASE ShellReadLine
  <2>1. PICK l : Goto(GPID_SHELL, l)
    BY <1>9 DEF ShellReadLine
  <2>2. UNCHANGED <<sys_proc, sys_dir, prog>> /\ line' \in Line
    BY <1>0, <1>9, SystemAssumption DEF ShellReadLine, LocalTypeOK
  <2>3. /\ pc' = [x \in Pids |-> pc'[x]]
        /\ \A x \in Pids \ {GPID_SHELL} : pc'[x] = pc[x]
    BY <1>0, <1>7, <2>1, GotoType
  <2>4. LocalTypeOK'
    BY <1>0, <2>2, <2>3 DEF LocalTypeOK
  <2>5. LoadSame
    BY <1>7, <2>2, <2>3, Kinds DEF LoadSame
  <2> QED BY <1>0, <2>4, <2>5, LoadKept
<1>10. ASSUME NEW p \in UserPids, App(p)
       PROVE  LocalTypeOK' /\ LoadInv'
  <2>1. p \in Pids \ {GPID_PROCESS}
    BY Kinds
  <2>2. CASE AppCall(p) \/ AppAwait(p)
    BY <1>1, <1>2, <2>1, <2>2 DEF AppCall, AppAwait
  <2>3. ASSUME NEW e, prog' = [prog EXCEPT ![p] = e], UNCHANGED <<sys_proc, sys_dir, line>>,
               pc' = pc \/ \E l : Goto(p, l)
        PROVE  LocalTypeOK' /\ LoadInv'
    <3>1. /\ pc' = [x \in Pids |-> pc'[x]]
          /\ \A x \in Pids \ {p} : pc'[x] = pc[x]
      BY <1>0, <2>1, <2>3, GotoType DEF LocalTypeOK
    <3>2. prog' = [x \in Pids |-> prog'[x]]
      BY <1>0, <2>3 DEF LocalTypeOK
    <3>3. LocalTypeOK'
      BY <1>0, <2>3, <3>1, <3>2 DEF LocalTypeOK
    <3>4. LoadSame
      BY <2>1, <2>3, <3>1, Kinds DEF LoadSame
    <3> QED BY <1>0, <3>3, <3>4, LoadKept
  <2>4. CASE AppGot(p)
    BY <2>3, <2>4 DEF AppGot
  <2>5. CASE CdSetIno(p)
    BY <2>3, <2>5 DEF CdSetIno
  <2>6. CASE CdSetPath(p)
    BY <2>3, <2>6 DEF CdSetPath
  <2> QED BY <1>10, <2>2, <2>4, <2>5, <2>6 DEF App
<1>11. CASE Timer
  <2>1. CASE UNCHANGED localVars
    BY <1>2, <2>1 DEF localVars
  <2>2. CASE /\ curr_pid \in UserPids /\ pc' = [pc EXCEPT ![curr_pid] = "main"]
             /\ prog' = [prog EXCEPT ![curr_pid] = <<>>]
             /\ UNCHANGED <<sys_proc, sys_dir, line>>
    <3>1. LocalTypeOK'
      BY <1>0, <2>2 DEF LocalTypeOK
    <3>2. LoadSame
      BY <1>0, <2>2, Kinds DEF LoadSame, LocalTypeOK
    <3> QED BY <1>0, <3>1, <3>2, LoadKept
  <2> QED BY <1>11, <2>1, <2>2 DEF Timer
<1>12. CASE UNCHANGED localVars
  BY <1>2, <1>12 DEF localVars
<1> QED BY <1>3, <1>5, <1>6, <1>8, <1>9, <1>10, <1>11, <1>12 DEF SysNext, sysVars

LEMMA BaseStep ==
    ASSUME BaseInv, [SysNext]_sysVars
    PROVE  BaseInv' /\ StartedKept
<1>0. KernelInv /\ LocalTypeOK
  BY DEF BaseInv
<1>1. KernelCall
  BY <1>0, SysCalls
<1>2. KernelInv' /\ StartedKept /\ (NoneKept \/ \E p \in Pids : ProcReady(p))
  BY <1>0, <1>1, CallEffect
<1>3. CASE SysProc
  BY <1>2, <1>3, ProcLocals DEF BaseInv
<1>4. CASE NoneKept /\ ~SysProc
  BY <1>2, <1>4, OtherLocals DEF BaseInv
<1>5. ASSUME NEW p \in Pids, ProcReady(p), ~SysProc PROVE FALSE
  <2>1. fatal = "none" /\ curr_pid = GPID_PROCESS /\ status' # status /\ UNCHANGED <<sc, fatal>>
    <3>1. PICK i \in Slots : pid[i] = p /\ status[i] = "LOADING"
      BY <1>5 DEF ProcReady, Loading
    <3>2. status'[i] = "READY"
      BY <1>5, <3>1 DEF ProcReady, proc_set_ready, proc_set_status
    <3> QED BY <1>5, <3>1, <3>2 DEF ProcReady, AsSysProc, proc_set_ready
  <2>2. \A s \in Servers : curr_pid # s
    BY <2>1, Kinds
  <2>3. curr_pid # GPID_SHELL /\ curr_pid \notin UserPids
    BY <2>1, Kinds
  <2>4. ~(curr_pid >= GPID_SHELL)
    BY <2>1, GrassAssumption, SMT DEF GPID_PROCESS
  <2>5. ~UNCHANGED grassVars /\ ~Halted
    BY <2>1 DEF grassVars, Halted
  <2>6. ~(\E s \in Servers : ServerInit(s) \/ ServerRecv(s))
    BY <2>2 DEF ServerInit, ServerRecv, At
  <2>7. ~(FileServe \/ DirServe \/ DirAwait \/ DirReply)
    BY <2>2 DEF FileServe, DirServe, DirAwait, DirReply, At, Servers
  <2>8. ~(Shell \/ ShellReadLine)
    BY <2>3 DEF Shell, ShellCommand, ShellAwaitReply, ShellGotReply, ShellPrompt, ShellReadLine, At
  <2>9. ~(\E q \in UserPids : App(q))
    BY <2>3 DEF App, AppCall, AppAwait, AppGot, CdSetIno, CdSetPath, At
  <2>10. ~Timer
    BY <2>4 DEF Timer, intr_entry
  <2> QED BY <1>5, <2>5, <2>6, <2>7, <2>8, <2>9, <2>10 DEF SysNext, sysVars
<1> QED BY <1>2, <1>3, <1>4, <1>5

LEMMA BaseInit ==
    ASSUME SysInit
    PROVE  BaseInv
<1>1. KernelInv
  BY InitEstablishes DEF SysInit
<1>2. pc[GPID_PROCESS] = "spawn" /\ sys_proc.blocks = 0 /\ 0 \in Pids
  <2>1. GPID_PROCESS \in Pids /\ GPID_PROCESS \notin {GPID_FILE, GPID_DIR, GPID_SHELL}
    BY Kinds DEF Servers
  <2>2. pc[GPID_PROCESS] = "spawn"
    BY <2>1 DEF SysInit
  <2>3. sys_proc.blocks = 0
    BY SMT DEF SysInit
  <2> QED BY <2>2, <2>3, GrassAssumption, SMT DEF Pids
<1>3. LoadInv
  BY <1>2, SMT DEF LoadInv
<1>4. LocalTypeOK
  <2>1. pc = [p \in Pids |-> pc[p]] /\ prog = [p \in Pids |-> prog[p]]
    BY SMT DEF SysInit
  <2>2. "cd" \in Line /\ "cd" \in Arg /\ "file" \in Arg
    BY DEF Line, Arg
  <2>3. 0 \in 0..NBlocks /\ 0 \in Nat
    BY SystemAssumption, SMT
  <2> QED BY <1>2, <2>1, <2>2, <2>3, SMT DEF SysInit, LocalTypeOK
<1> QED BY <1>1, <1>3, <1>4 DEF BaseInv

(* The kernel's invariant holds under the programs of the system, and the  *)
(* fields of sys_proc describe the app it is loading.                      *)
THEOREM BaseInvariant == SysSpec => []BaseInv
<1>1. BaseInv /\ [SysNext]_sysVars => BaseInv'
  BY BaseStep
<1> QED BY <1>1, BaseInit, PTL DEF SysSpec

(* sys_proc makes an app ready only after the last of its blocks came from *)
(* sys_file (app_spawn, elf_load), however many blocks, slots and pids     *)
(* there are, whatever the user types, and although apps come and go.      *)
THEOREM AppsLoadedBeforeRun == SysSpec => []LoadedBeforeRun
<1>1. BaseInv => LoadedBeforeRun
  <2> SUFFICES ASSUME BaseInv, sys_proc.blocks > 0, NEW i \in Slots,
                      pid[i] = sys_proc.app_pid, status[i] # "UNUSED", status[i] # "LOADING"
               PROVE  FALSE
    BY DEF LoadedBeforeRun
  <2>1. Maps(absState, absTarget, absBox, status, receiver_pid, sc)
    BY MappingHolds DEF Mapping, BaseInv
  <2>2. pid[i] \in Pids /\ status[i] \in Status
    BY DEF BaseInv, KernelInv, TypeOK
  <2>3. absState[pid[i]] = "none"
    BY <2>2 DEF BaseInv, LoadInv
  <2> QED BY <2>1, <2>2, <2>3, MapsSlot DEF Status, Schedulable
<1> QED BY <1>1, BaseInvariant, PTL
=============================================================================
